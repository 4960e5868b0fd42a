------------------------------ MODULE TaskDock ------------------------------
(***************************************************************************)
(* The task dock (app/task_dock.rs): a pill with counts, and when it is    *)
(* expanded up to eight rows, drawn anew from the store at every frame.    *)
(* It keeps nothing of its own but whether it is expanded.                 *)
(***************************************************************************)
EXTENDS Store, FiniteSets

CONSTANT DockRows   \* the rows the dock has room for, 8 in the code

ASSUME DockAssumption == DockRows \in Nat \ {0} /\ IsFiniteSet(Tools) /\ IsFiniteSet(Tasks)

VARIABLE expanded

DockInit == expanded = FALSE

\* project_tool: a tool without an end runs.
ToolRow(k) == IF tools[k] = "open" THEN "Running" ELSE "Done"

\* project_task: whatever is neither completed nor failed runs, a cancelled
\* task too.
TaskRow(a) == CASE tasks[a] = "completed" -> "Done" [] tasks[a] = "failed" -> "Error" [] OTHER -> "Running"

\* snapshot: the tools and tasks of the current session, of all without one.
Belongs(s, cur) == cur = NoSession \/ s = cur
ToolsOf(cur) == {k \in Tools : tools[k] # "absent" /\ Belongs(SessionOf[TurnOf[k]], cur)}
TasksOf(cur) == {a \in Tasks : tasks[a] # "absent" /\ Belongs(SessionOf[a], cur)}

\* DockHeader: the counts of the pill, and whether a mean of the fractions is
\* on it.
Header(cur) ==
    [toolCount |-> Cardinality(ToolsOf(cur)), taskCount |-> Cardinality(TasksOf(cur)),
     runningCount |-> Cardinality({k \in ToolsOf(cur) : ToolRow(k) = "Running"})
                        + Cardinality({a \in TasksOf(cur) : TaskRow(a) = "Running"}),
     percent |-> ToolsOf(cur) \cap measured # {}]
IsIdle(h) == h.toolCount + h.taskCount = 0

\* draw_walk: nothing while idle; the rows in an order of the map's own, so
\* which of them find room is not determined.
DockDrawn(cur) ==
    IF IsIdle(Header(cur)) \/ ~expanded THEN {{}}
    ELSE LET rows == ToolsOf(cur) \cup TasksOf(cur) IN
         IF Cardinality(rows) <= DockRows THEN {rows}
         ELSE {R \in SUBSET rows : Cardinality(R) = DockRows}

ToggleDock == ~IsIdle(Header(current)) /\ expanded' = ~expanded

\* A session lit in the list as busy has running work on the dock when it is
\* the current one: the pill never says "running 0" for it, nor is the
\* expanded dock empty (task_dock.rs snapshot against state.rs
\* recompute_active).
BusyIsOnTheDock ==
    \A s \in busy : Header(s).runningCount # 0 /\ (expanded => {} \notin DockDrawn(s))

\* The lights of the session list mean what they say: a row is lit for what
\* runs, and what it is lit for is on the dock.
LightsAreReal == BusyIsReal /\ StreamingIsReal /\ BusyIsOnTheDock
=============================================================================

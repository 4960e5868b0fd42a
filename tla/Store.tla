------------------------------- MODULE Store -------------------------------
(***************************************************************************)
(* The application store (octos-app-store: state.rs, turns.rs, tasks.rs,   *)
(* toasts.rs, sessions.rs, navigation.rs): one AppState, folded by `reduce`*)
(* from the notifications of the server, the edges of the connection and   *)
(* the navigation of the user.  The session list of SessionList is the     *)
(* other writer of its session map.                                        *)
(*                                                                         *)
(* The server is part of the model: it runs one turn of a session at a     *)
(* time, tools within a turn, and tasks that may outlive it.  A            *)
(* notification it sends is folded at once, or missed (a replay the server *)
(* itself calls lossy).                                                    *)
(*                                                                         *)
(* Texts, titles and times are left out: a toast is whether it has been on *)
(* screen, a buffer whether it exists.  `cursor`, `files` and `context`    *)
(* are written and never decide a transition, and are left out.            *)
(***************************************************************************)
EXTENDS Naturals, Sequences, SequencesExt

CONSTANTS Sessions, Turns, Tools, Tasks,
          SessionOf,     \* the session of a turn or a task
          TurnOf,        \* the turn of a tool call
          NoSession,     \* current_session = None
          ToastCapacity  \* 3 in the code

ASSUME StoreAssumption ==
    /\ SessionOf \in [Turns \cup Tasks -> Sessions]
    /\ TurnOf \in [Tools -> Turns]
    /\ NoSession \notin Sessions
    /\ Turns \cap Tools = {} /\ Turns \cap Tasks = {} /\ Tools \cap Tasks = {}
    /\ ToastCapacity \in Nat \ {0}

TurnStates == {"absent", "Pending", "Streaming", "Completed", "Errored", "Interrupted"}
TaskStates == {"absent", "pending", "running", "completed", "failed", "cancelled"}
Links == {"Idle", "Dialing", "Reconnecting", "Live", "Failed"}

VARIABLES
    sidebar,     \* sessions.ordered: the listed sessions, newest first
    streaming,   \* the listed sessions with is_streaming
    busy,        \* the listed sessions with has_active_task
    turns,       \* turn -> its status
    buffers,     \* the turns with an entry in streaming_text or thinking_text
    tools,       \* tool call -> absent, open (completed_at is none) or done
    measured,    \* the tool calls with a progress_pct
    tasks,       \* task -> its runtime_state
    labelled,    \* the tasks whose summary is a progress label
    toasts,      \* the queue: for each toast, whether it was on screen
    toastTimer,  \* a toast is on screen (toast_timer is set)
    connection, screen, current,
    link,        \* the ConnectionState the agent saw last
    served,      \* what the server runs: turns, tools and tasks
    missed       \* some notification never came

flags == <<sidebar, streaming, busy>>
work == <<turns, buffers, tools, measured, tasks, labelled>>
notices == <<toasts, toastTimer>>
place == <<screen, current>>
peer == <<connection, link>>
storeVars == <<flags, work, notices, place, peer, served, missed>>

Listed == ToSet(sidebar)
Activities == Turns \cup Tools \cup Tasks

StoreInit ==
    /\ sidebar = <<>> /\ streaming = {} /\ busy = {}
    /\ turns = [t \in Turns |-> "absent"] /\ buffers = [k \in {"text", "thinking"} |-> {}]
    /\ tools = [k \in Tools |-> "absent"] /\ measured = {}
    /\ tasks = [a \in Tasks |-> "absent"] /\ labelled = {}
    /\ toasts = <<>> /\ toastTimer = FALSE
    /\ connection = "Offline" /\ link = "Idle"
    /\ screen = "Home" /\ current = NoSession
    /\ served = [i \in Activities |-> "new"] /\ missed = FALSE

-----------------------------------------------------------------------------
(* The helpers of the reducer.                                             *)

MarkStreaming(s, on) ==
    streaming' = IF s \notin Listed THEN streaming
                 ELSE IF on THEN streaming \cup {s} ELSE streaming \ {s}

MarkActive(s) == busy' = IF s \in Listed THEN busy \cup {s} ELSE busy

OpenTools(ts, s) == {k \in Tools : SessionOf[TurnOf[k]] = s /\ ts[k] = "open"}
TaskEnded(state) == state \in {"completed", "failed", "cancelled"}
OpenTasks(ts, s) == {a \in Tasks : SessionOf[a] = s /\ ts[a] # "absent" /\ ~TaskEnded(ts[a])}

\* Mutant: the flag is recomputed before the map takes its new value.
RecomputeEarly(s, tls, tks) ==
    busy' = IF s \in Listed /\ OpenTools(tools, s) = {} /\ OpenTasks(tasks, s) = {} THEN busy \ {s}
            ELSE busy

\* recompute_active, after the maps of tools and tasks took their new values.
RecomputeActive(s, tls, tks) ==
    busy' = IF s \notin Listed THEN busy
            ELSE IF OpenTools(tls, s) # {} \/ OpenTasks(tks, s) # {} THEN busy \cup {s}
            ELSE busy \ {s}

\* Mutant: off by one.
PushedLate(queue) == Append(IF Len(queue) > ToastCapacity THEN Tail(queue) ELSE queue, FALSE)

\* ToastQueue::push: the oldest goes when the queue is full.
Pushed(queue) == Append(IF Len(queue) = ToastCapacity THEN Tail(queue) ELSE queue, FALSE)
Toast == toasts' = Pushed(toasts) /\ UNCHANGED toastTimer

\* Turn::mark_streaming
Streams(t) == turns' = [turns EXCEPT ![t] = IF @ = "Pending" THEN "Streaming" ELSE @]

\* The text of the answer and of its thinking.
DropBuffers(t) == buffers' = [k \in DOMAIN buffers |-> buffers[k] \ {t}]
-----------------------------------------------------------------------------
(* What the server does, and says.                                         *)

ServerRuns(s) == \E t \in Turns : SessionOf[t] = s /\ served[t] = "runs"

Starts(t) == served[t] = "new" /\ ~ServerRuns(SessionOf[t]) /\ served' = [served EXCEPT ![t] = "runs"]
ToolStarts(k) == served[TurnOf[k]] = "runs" /\ served[k] = "new" /\ served' = [served EXCEPT ![k] = "runs"]
ToolEnds(k) == served[k] = "runs" /\ served[TurnOf[k]] = "runs" /\ served' = [served EXCEPT ![k] = "ended"]
\* An interrupted or failed turn takes its tools with it, unannounced.
Ends(t) == served[t] = "runs" /\ served' = [served EXCEPT ![t] = "ended"]
TaskMoves(a, state) ==
    /\ served[a] # "ended"
    /\ served' = [served EXCEPT ![a] = IF TaskEnded(state) THEN "ended" ELSE "runs"]

SessionOpened(s) ==
    /\ MarkStreaming(s, FALSE)
    /\ UNCHANGED <<sidebar, busy, work, notices, place, peer, served, missed>>

TurnStarted(t) ==
    /\ Starts(t)
    /\ turns' = [turns EXCEPT ![t] = IF @ = "absent" THEN "Pending" ELSE @]
    /\ MarkStreaming(SessionOf[t], TRUE)
    /\ UNCHANGED <<sidebar, busy, buffers, tools, measured, tasks, labelled, notices, place, peer, missed>>

\* message/delta and reasoning/delta
Delta(t, kind) ==
    /\ served[t] = "runs"
    /\ buffers' = [buffers EXCEPT ![kind] = @ \cup {t}]
    /\ Streams(t)
    /\ MarkStreaming(SessionOf[t], TRUE)
    /\ UNCHANGED <<sidebar, busy, tools, measured, tasks, labelled, notices, place, peer, served, missed>>

ToolStarted(k) ==
    /\ ToolStarts(k)
    /\ tools' = [tools EXCEPT ![k] = "open"] /\ measured' = measured \ {k}
    /\ MarkActive(SessionOf[TurnOf[k]])
    /\ UNCHANGED <<sidebar, streaming, turns, buffers, tasks, labelled, notices, place, peer, missed>>

\* A stub stands in for a tool whose start was missed; it lights no flag.
ToolProgress(k, pct) ==
    /\ served[k] = "runs" /\ served[TurnOf[k]] = "runs"
    /\ tools' = [tools EXCEPT ![k] = IF @ = "absent" THEN "open" ELSE @]
    /\ measured' = IF pct THEN measured \cup {k} ELSE measured
    /\ UNCHANGED <<flags, turns, buffers, tasks, labelled, notices, place, peer, served, missed>>

\* A memory write is announced.
ToolCompleted(k, memory) ==
    /\ ToolEnds(k)
    /\ tools' = [tools EXCEPT ![k] = IF @ = "open" THEN "done" ELSE @]
    /\ IF memory THEN Toast ELSE UNCHANGED notices
    /\ RecomputeActive(SessionOf[TurnOf[k]], tools', tasks)
    /\ UNCHANGED <<sidebar, streaming, turns, buffers, measured, tasks, labelled, place, peer, missed>>

TaskUpdated(a, state) ==
    /\ TaskMoves(a, state)
    /\ tasks' = [tasks EXCEPT ![a] = state]
    /\ labelled' = labelled \ {a}
    /\ IF TaskEnded(state) THEN RecomputeActive(SessionOf[a], tools, tasks')
       ELSE MarkActive(SessionOf[a])
    /\ UNCHANGED <<sidebar, streaming, turns, buffers, tools, measured, notices, place, peer, missed>>

\* Every open tool of the turn takes the fraction, every unfinished task of
\* the session the label; a cancelled task takes it too.
ProgressUpdated(t, pct, label) ==
    /\ served[t] = "runs"
    /\ measured' = measured \cup {k \in Tools : pct /\ TurnOf[k] = t /\ tools[k] = "open"}
    /\ labelled' = labelled \cup {a \in Tasks : /\ label /\ SessionOf[a] = SessionOf[t]
                                                /\ tasks[a] \notin {"absent", "completed", "failed"}}
    /\ UNCHANGED <<flags, turns, buffers, tools, tasks, notices, place, peer, served, missed>>

\* warning, lossy replay, question, visual, failover, compaction, approvals
Announced ==
    /\ Toast
    /\ UNCHANGED <<flags, work, place, peer, served, missed>>

TurnCompleted(t) ==
    /\ Ends(t)
    /\ turns' = [turns EXCEPT ![t] = IF @ = "absent" THEN @ ELSE "Completed"]
    /\ DropBuffers(t)
    /\ MarkStreaming(SessionOf[t], FALSE)
    /\ RecomputeActive(SessionOf[t], tools, tasks)
    /\ UNCHANGED <<sidebar, tools, measured, tasks, labelled, notices, place, peer, missed>>

TurnError(t, interrupted) ==
    /\ Ends(t)
    /\ turns' = [turns EXCEPT ![t] = IF @ = "absent" THEN @
                                     ELSE IF interrupted THEN "Interrupted" ELSE "Errored"]
    /\ DropBuffers(t)
    /\ MarkStreaming(SessionOf[t], FALSE)
    /\ RecomputeActive(SessionOf[t], tools, tasks)
    /\ Toast
    /\ UNCHANGED <<sidebar, tools, measured, tasks, labelled, place, peer, missed>>

\* The server went on and the store was not told.
Missed ==
    /\ \/ \E t \in Turns : Starts(t) \/ Ends(t)
       \/ \E k \in Tools : ToolStarts(k) \/ ToolEnds(k)
       \/ \E a \in Tasks, state \in TaskStates \ {"absent"} : TaskMoves(a, state)
    /\ missed' = TRUE
    /\ UNCHANGED <<flags, work, notices, place, peer>>

-----------------------------------------------------------------------------
(* The app: connection edges, the toast strip, the screens.                *)

Connection(state) ==
    CASE state = "Live" -> "Connected" [] state = "Reconnecting" -> "Reconnecting" [] OTHER -> "Offline"

\* The edges that are announced: a reconnect, a degraded or failed
\* connection, and the first time Live is reached.
Noteworthy(from, to) ==
    \/ to = "Live" /\ from \in {"Reconnecting", "Dialing"}
    \/ to \in {"Reconnecting", "Failed"}

\* fold_connection_into_store: the transport may repeat its state.
FoldConnection(to) ==
    /\ link' = to
    /\ IF to = link THEN UNCHANGED <<connection, notices>>
       ELSE /\ connection' = Connection(to)
            /\ IF Noteworthy(link, to) THEN Toast ELSE UNCHANGED notices
    /\ UNCHANGED <<flags, work, place, served, missed>>

\* sync_toasts, from the event loop: the oldest toast goes on screen and
\* starts the timer.
ShowToast ==
    /\ ~toastTimer /\ toasts # <<>>
    /\ toasts' = [toasts EXCEPT ![1] = TRUE]
    /\ toastTimer' = TRUE
    /\ UNCHANGED <<flags, work, place, peer, served, missed>>

\* The timer: the oldest toast is dismissed and the next one shown.
Synced(queue) ==
    /\ toasts' = IF queue = <<>> THEN queue ELSE [queue EXCEPT ![1] = TRUE]
    /\ toastTimer' = (queue # <<>>)

DismissToast ==
    /\ toastTimer
    /\ Synced(IF toasts = <<>> THEN <<>> ELSE Tail(toasts))
    /\ UNCHANGED <<flags, work, place, peer, served, missed>>

NavigateTo(target) ==
    /\ screen' = target
    /\ UNCHANGED <<current, flags, work, notices, peer, served, missed>>

-----------------------------------------------------------------------------

FoldTurn == \E t \in Turns :
    \/ TurnStarted(t) \/ TurnCompleted(t)
    \/ \E b \in BOOLEAN : TurnError(t, b)
    \/ \E kind \in {"text", "thinking"} : Delta(t, kind)
FoldTool == \E k \in Tools, b \in BOOLEAN : ToolStarted(k) \/ ToolProgress(k, b) \/ ToolCompleted(k, b)
FoldTask == \E a \in Tasks, state \in TaskStates \ {"absent"} : TaskUpdated(a, state)
FoldProgress == \E t \in Turns, p, l \in BOOLEAN : ProgressUpdated(t, p, l)

StoreNext ==
    \/ \E s \in Sessions : SessionOpened(s)
    \/ FoldTurn \/ FoldTool \/ FoldTask \/ FoldProgress
    \/ Announced \/ Missed
    \/ \E to \in Links \ {"Idle"} : FoldConnection(to)
    \/ ShowToast \/ DismissToast
    \/ \E target \in {"Home", "Content"} : NavigateTo(target)

-----------------------------------------------------------------------------
(* Properties.                                                             *)

\* The shape of AppState: flags belong to listed sessions, the toast queue
\* keeps its capacity (toasts.rs).
StoreTypeOK ==
    /\ sidebar \in Seq(Sessions) /\ IsInjective(sidebar)
    /\ streaming \subseteq Listed /\ busy \subseteq Listed
    /\ turns \in [Turns -> TurnStates]
    /\ buffers \in [{"text", "thinking"} -> SUBSET Turns]
    /\ tools \in [Tools -> {"absent", "open", "done"}] /\ measured \subseteq Tools
    /\ tasks \in [Tasks -> TaskStates] /\ labelled \subseteq Tasks
    /\ toasts \in Seq(BOOLEAN) /\ Len(toasts) <= ToastCapacity /\ toastTimer \in BOOLEAN
    /\ connection \in {"Connected", "Reconnecting", "Offline"} /\ link \in Links
    /\ screen \in {"Login", "Home", "Content", "Chat"} /\ current \in Sessions \cup {NoSession}
    /\ served \in [Activities -> {"new", "runs", "ended"}] /\ missed \in BOOLEAN

\* A row lit for a running tool or task has one: every step that ends the
\* last one recomputes the flag (state.rs, recompute_active).
BusyIsReal ==
    \A s \in busy : OpenTools(tools, s) # {} \/ OpenTasks(tasks, s) # {}

\* When nothing was missed, a row lit for a streaming answer has a turn that
\* runs on the server, whatever lists and replies crossed it.
StreamingIsReal == missed \/ \A s \in streaming : ServerRuns(s)

=============================================================================

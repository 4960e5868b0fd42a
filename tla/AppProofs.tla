----------------------------- MODULE AppProofs -----------------------------
(***************************************************************************)
(* Proofs about the app, for every set of sessions, turns, tools, tasks,   *)
(* approvals, profiles and files, and any number of events.  The lights of *)
(* the session list and its rows; the approvals; signing in; the viewers;  *)
(* and last the app as a whole, whose parts they are.                      *)
(***************************************************************************)
EXTENDS AppParts, CardProofs

-----------------------------------------------------------------------------
(*                     The session list and its lights                     *)

LightsSpec == LightsInit /\ [][LightsNext]_lightVars

StoreTypes ==
    /\ tools \in [Tools -> {"absent", "open", "done"}]
    /\ tasks \in [Tasks -> TaskStates]
    /\ served \in [Activities -> {"new", "runs", "ended"}]
    /\ missed \in BOOLEAN

(* A light belongs to a listed session; the reducer only turns off those.  *)
LightsAreListed == busy \subseteq Listed /\ streaming \subseteq Listed

LightsInv == StoreTypes /\ LightsAreListed /\ BusyIsReal /\ StreamingIsReal

(* The list names a session once, and so does every list on its way.       *)
RowLists == {q \in Seq(Sessions) : IsInjective(q)}
RowPosts == [kind : {"Hydrated"}, list : RowLists]
            \cup [kind : {"Selected", "DeleteRequested"}, id : Sessions]
RowsTypes ==
    /\ sidebar \in RowLists /\ posted \in Seq(RowPosts)
    /\ stored \subseteq Sessions /\ gone \subseteq Sessions

RowsInv == RowsTypes /\ DeletedStaysAway

-----------------------------------------------------------------------------
LEMMA LightsInitially == LightsInit => LightsInv
  BY DEF LightsInit, StoreInit, LightsInv, StoreTypes, LightsAreListed, BusyIsReal, StreamingIsReal,
         TaskStates

(* A notification that says nothing of tools, tasks and turns of a session *)
(* leaves what its lights stand for.                                       *)
LEMMA SameWork ==
    ASSUME LightsInv, UNCHANGED <<flags, tools, tasks, served>>, missed' \in BOOLEAN,
           missed => missed'
    PROVE  LightsInv'
  BY DEF LightsInv, StoreTypes, LightsAreListed, BusyIsReal, StreamingIsReal, flags, Listed,
         OpenTools, OpenTasks, ServerRuns

(* What a tool does on the server starts and ends no turn. *)
LEMMA ToolsEndNoTurn ==
    ASSUME StoreTypes, NEW k \in Tools \cup Tasks, NEW x \in {"new", "runs", "ended"},
           served' = [served EXCEPT ![k] = x]
    PROVE  /\ served' \in [Activities -> {"new", "runs", "ended"}]
           /\ \A s : ServerRuns(s) => ServerRuns(s)'
  BY StoreAssumption DEF StoreTypes, Activities, ServerRuns

LEMMA TurnEnds ==
    ASSUME StoreTypes, NEW t \in Turns, Ends(t)
    PROVE  /\ served' \in [Activities -> {"new", "runs", "ended"}]
           /\ \A s : s # SessionOf[t] /\ ServerRuns(s) => ServerRuns(s)'
  BY DEF StoreTypes, Activities, ServerRuns, Ends

LEMMA TurnStarts ==
    ASSUME StoreTypes, NEW t \in Turns, Starts(t)
    PROVE  /\ served' \in [Activities -> {"new", "runs", "ended"}]
           /\ ServerRuns(SessionOf[t])'
           /\ \A s : ServerRuns(s) => ServerRuns(s)'
  BY DEF StoreTypes, Activities, ServerRuns, Starts

(* The light recomputed says what the maps hold; the others are as before. *)
LEMMA Recomputed ==
    ASSUME NEW s, NEW tls, NEW tks, RecomputeActive(s, tls, tks), busy \subseteq Listed
    PROVE  /\ busy' \subseteq Listed
           /\ \A r \in busy' : r # s => r \in busy
           /\ s \in busy' => OpenTools(tls, s) # {} \/ OpenTasks(tks, s) # {}
  BY DEF RecomputeActive

LEMMA TurnsKeep == ASSUME LightsInv, FoldTurn PROVE LightsInv'
  <1>. PICK t \in Turns :
         \/ TurnStarted(t) \/ TurnCompleted(t) \/ \E b \in BOOLEAN : TurnError(t, b)
         \/ \E kind \in {"text", "thinking"} : Delta(t, kind)
    BY DEF FoldTurn
  <1>1. CASE TurnStarted(t)
    <2>1. Starts(t) /\ MarkStreaming(SessionOf[t], TRUE)
          /\ UNCHANGED <<sidebar, busy, tools, tasks, missed>>
      BY <1>1 DEF TurnStarted
    <2>. QED
      BY <2>1, TurnStarts DEF LightsInv, StoreTypes, LightsAreListed, BusyIsReal, StreamingIsReal,
           MarkStreaming, Listed, OpenTools, OpenTasks
  <1>2. CASE TurnCompleted(t) \/ \E b \in BOOLEAN : TurnError(t, b)
    <2>1. /\ Ends(t) /\ MarkStreaming(SessionOf[t], FALSE)
          /\ RecomputeActive(SessionOf[t], tools, tasks)
          /\ UNCHANGED <<sidebar, tools, tasks, missed>>
      BY <1>2 DEF TurnCompleted, TurnError
    <2>2. /\ busy' \subseteq Listed /\ \A r \in busy' : r # SessionOf[t] => r \in busy
          /\ SessionOf[t] \in busy' => OpenTools(tools, SessionOf[t]) # {} \/ OpenTasks(tasks, SessionOf[t]) # {}
      BY <2>1, Recomputed DEF LightsInv, LightsAreListed
    <2>3. BusyIsReal'
      BY <2>1, <2>2 DEF LightsInv, BusyIsReal, OpenTools, OpenTasks
    <2>4. streaming' \subseteq streaming \ {SessionOf[t]}
      BY <2>1 DEF MarkStreaming, LightsInv, LightsAreListed
    <2>5. StreamingIsReal'
      BY <2>1, <2>4, TurnEnds DEF LightsInv, StreamingIsReal
    <2>6. StoreTypes'
      BY <2>1, TurnEnds DEF LightsInv, StoreTypes
    <2>. QED
      BY <2>1, <2>2, <2>3, <2>4, <2>5, <2>6 DEF LightsInv, LightsAreListed, Listed
  <1>3. CASE \E kind \in {"text", "thinking"} : Delta(t, kind)
    <2>1. /\ served[t] = "runs" /\ MarkStreaming(SessionOf[t], TRUE)
          /\ UNCHANGED <<sidebar, busy, tools, tasks, served, missed>>
      BY <1>3 DEF Delta
    <2>. QED
      BY <2>1 DEF LightsInv, StoreTypes, LightsAreListed, BusyIsReal, StreamingIsReal,
           MarkStreaming, Listed, OpenTools, OpenTasks, ServerRuns
  <1>. QED  BY <1>1, <1>2, <1>3

LEMMA ToolsKeep == ASSUME LightsInv, FoldTool PROVE LightsInv'
  <1>. PICK k \in Tools, b \in BOOLEAN : ToolStarted(k) \/ ToolProgress(k, b) \/ ToolCompleted(k, b)
    BY DEF FoldTool
  <1>t. TurnOf[k] \in Turns /\ k \notin Turns
    BY StoreAssumption
  <1>1. CASE ToolStarted(k)
    <2>1. /\ ToolStarts(k) /\ tools' = [tools EXCEPT ![k] = "open"]
          /\ MarkActive(SessionOf[TurnOf[k]])
          /\ UNCHANGED <<sidebar, streaming, tasks, missed>>
      BY <1>1 DEF ToolStarted
    <2>2. /\ served' \in [Activities -> {"new", "runs", "ended"}]
          /\ \A s : ServerRuns(s) => ServerRuns(s)'
      BY <2>1, ToolsEndNoTurn DEF ToolStarts, LightsInv
    <2>3. StoreTypes'
      BY <2>1, <2>2 DEF LightsInv, StoreTypes
    <2>4. LightsAreListed' /\ StreamingIsReal'
      BY <2>1, <2>2 DEF LightsInv, LightsAreListed, StreamingIsReal, MarkActive, Listed
    <2>5. \A s : /\ OpenTools(tools, s) \subseteq OpenTools(tools', s)
                 /\ OpenTasks(tasks, s) = OpenTasks(tasks', s)
      BY <2>1 DEF LightsInv, StoreTypes, OpenTools, OpenTasks
    <2>6. k \in OpenTools(tools', SessionOf[TurnOf[k]])
      BY <2>1 DEF LightsInv, StoreTypes, OpenTools
    <2>7. busy' \subseteq busy \cup {SessionOf[TurnOf[k]]}
      BY <2>1 DEF MarkActive
    <2>8. BusyIsReal'
      BY <2>5, <2>6, <2>7 DEF LightsInv, BusyIsReal
    <2>. QED  BY <2>3, <2>4, <2>8 DEF LightsInv
  <1>2. CASE ToolProgress(k, b)
    <2>1. /\ tools' = [tools EXCEPT ![k] = IF @ = "absent" THEN "open" ELSE @]
          /\ UNCHANGED <<sidebar, streaming, busy, tasks, served, missed>>
      BY <1>2 DEF ToolProgress, flags
    <2>2. \A s : /\ OpenTools(tools, s) \subseteq OpenTools(tools', s)
                 /\ OpenTasks(tasks, s) = OpenTasks(tasks', s)
      BY <2>1 DEF LightsInv, StoreTypes, OpenTools, OpenTasks
    <2>3. BusyIsReal'
      BY <2>1, <2>2 DEF LightsInv, BusyIsReal
    <2>. QED
      BY <2>1, <2>3 DEF LightsInv, StoreTypes, LightsAreListed, StreamingIsReal, Listed, ServerRuns
  <1>3. CASE ToolCompleted(k, b)
    <2>1. /\ ToolEnds(k) /\ tools' = [tools EXCEPT ![k] = IF @ = "open" THEN "done" ELSE @]
          /\ RecomputeActive(SessionOf[TurnOf[k]], tools', tasks)
          /\ UNCHANGED <<sidebar, streaming, tasks, missed>>
      BY <1>3 DEF ToolCompleted
    <2>2. /\ served' \in [Activities -> {"new", "runs", "ended"}]
          /\ \A s : ServerRuns(s) => ServerRuns(s)'
      BY <2>1, ToolsEndNoTurn DEF ToolEnds, LightsInv
    <2>3. /\ busy' \subseteq Listed /\ \A r \in busy' : r # SessionOf[TurnOf[k]] => r \in busy
          /\ SessionOf[TurnOf[k]] \in busy' =>
               OpenTools(tools', SessionOf[TurnOf[k]]) # {} \/ OpenTasks(tasks, SessionOf[TurnOf[k]]) # {}
      BY <2>1, Recomputed DEF LightsInv, LightsAreListed
    <2>4. StoreTypes'
      BY <2>1, <2>2 DEF LightsInv, StoreTypes
    <2>5. LightsAreListed' /\ StreamingIsReal'
      BY <2>1, <2>2, <2>3 DEF LightsInv, LightsAreListed, StreamingIsReal, Listed
    <2>6. \A s : /\ s # SessionOf[TurnOf[k]] => OpenTools(tools, s) \subseteq OpenTools(tools', s)
                 /\ OpenTasks(tasks, s) = OpenTasks(tasks', s)
      BY <2>1 DEF LightsInv, StoreTypes, OpenTools, OpenTasks
    <2>7. BusyIsReal'
      BY <2>1, <2>3, <2>6 DEF LightsInv, BusyIsReal
    <2>. QED  BY <2>4, <2>5, <2>7 DEF LightsInv
  <1>. QED  BY <1>1, <1>2, <1>3

LEMMA TasksKeep == ASSUME LightsInv, FoldTask PROVE LightsInv'
  <1>. PICK a \in Tasks, state \in TaskStates \ {"absent"} : TaskUpdated(a, state)
    BY DEF FoldTask
  <1>1. /\ TaskMoves(a, state) /\ tasks' = [tasks EXCEPT ![a] = state]
        /\ IF TaskEnded(state) THEN RecomputeActive(SessionOf[a], tools, tasks')
           ELSE MarkActive(SessionOf[a])
        /\ UNCHANGED <<sidebar, streaming, tools, missed>>
    BY DEF TaskUpdated
  <1>2. /\ served' \in [Activities -> {"new", "runs", "ended"}]
        /\ \A s : ServerRuns(s) => ServerRuns(s)'
    BY <1>1, ToolsEndNoTurn DEF TaskMoves, LightsInv
  <1>3. StoreTypes'
    BY <1>1, <1>2 DEF LightsInv, StoreTypes
  <1>4. \A s : /\ s # SessionOf[a] => OpenTasks(tasks, s) \subseteq OpenTasks(tasks', s)
               /\ OpenTools(tools, s) = OpenTools(tools', s)
    BY <1>1 DEF LightsInv, StoreTypes, OpenTools, OpenTasks
  <1>5. /\ busy' \subseteq Listed /\ \A r \in busy' : r # SessionOf[a] => r \in busy
        /\ SessionOf[a] \in busy' =>
             OpenTools(tools, SessionOf[a]) # {} \/ OpenTasks(tasks', SessionOf[a]) # {}
    <2>1. CASE TaskEnded(state)
      BY <1>1, <2>1, Recomputed DEF LightsInv, LightsAreListed
    <2>2. CASE ~TaskEnded(state)
      <3>1. a \in OpenTasks(tasks', SessionOf[a])
        BY <1>1, <2>2 DEF LightsInv, StoreTypes, OpenTasks
      <3>. QED  BY <1>1, <2>2, <3>1 DEF MarkActive, LightsInv, LightsAreListed
    <2>. QED  BY <2>1, <2>2
  <1>6. BusyIsReal'
    BY <1>1, <1>4, <1>5 DEF LightsInv, BusyIsReal
  <1>7. LightsAreListed' /\ StreamingIsReal'
    BY <1>1, <1>2, <1>5 DEF LightsInv, LightsAreListed, StreamingIsReal, Listed
  <1>. QED  BY <1>3, <1>6, <1>7 DEF LightsInv

(* What the server does unseen only sets `missed`, which excuses the       *)
(* lights of the streams; those of tools and tasks speak of the store.     *)
LEMMA MissedKeeps == ASSUME LightsInv, Missed PROVE LightsInv'
  <1>1. missed' = TRUE /\ UNCHANGED <<sidebar, streaming, busy, tools, tasks>>
    BY DEF Missed, flags, work
  <1>2. served' \in [Activities -> {"new", "runs", "ended"}]
    <2>1. \E i \in Activities, x \in {"runs", "ended"} : served' = [served EXCEPT ![i] = x]
      BY DEF Missed, Starts, Ends, ToolStarts, ToolEnds, TaskMoves, Activities
    <2>. QED  BY <2>1 DEF LightsInv, StoreTypes
  <1>. QED
    BY <1>1, <1>2 DEF LightsInv, StoreTypes, LightsAreListed, BusyIsReal, StreamingIsReal, Listed

(* A list that replaces the map turns every light off. *)
LEMMA ListsKeep == ASSUME LightsInv, Hydrated PROVE LightsInv'
  <1>1. /\ streaming' = {} /\ busy' = {}
        /\ UNCHANGED <<tools, tasks, served, missed>>
    BY DEF Hydrated, Replaced, Keep, work
  <1>. QED
    BY <1>1 DEF LightsInv, StoreTypes, LightsAreListed, BusyIsReal, StreamingIsReal

-----------------------------------------------------------------------------
(*                          The rows and their actions                     *)

LEMMA Removed ==
    ASSUME NEW q \in RowLists, NEW i \in DOMAIN q
    PROVE  RemoveAt(q, i) \in RowLists /\ ToSet(RemoveAt(q, i)) = ToSet(q) \ {q[i]}
  BY RemovedOnce DEF RowLists

LEMMA WithoutKeeps ==
    ASSUME RowsTypes, NEW s \in Sessions, Without(s)
    PROVE  sidebar' \in RowLists /\ ToSet(sidebar)' = ToSet(sidebar) \ {s}
  <1>1. CASE s \notin Listed
    BY <1>1 DEF Without, RowsTypes, Listed
  <1>2. CASE s \in Listed
    <2>1. Position(s) \in DOMAIN sidebar /\ sidebar[Position(s)] = s
      BY <1>2 DEF Position, Listed, ToSet
    <2>2. sidebar' = RemoveAt(sidebar, Position(s))
      BY <1>2 DEF Without
    <2>. QED  BY <2>1, <2>2, Removed DEF RowsTypes
  <1>. QED  BY <1>1, <1>2

(* A list the server makes of what it keeps. *)
LEMMA ListServed == ASSUME RowsTypes PROVE SetToSeqs(stored) \subseteq RowLists
  <1>1. Cardinality(stored) \in Nat
    BY SessionListAssumption, FS_Subset, FS_CardinalityType DEF RowsTypes
  <1>2. SUFFICES ASSUME NEW q \in SetToSeqs(stored) PROVE q \in RowLists
    OBVIOUS
  <1>3. /\ q \in [1..Cardinality(stored) -> stored]
        /\ \A i, j \in 1..Cardinality(stored) : i # j => q[i] # q[j]
    BY <1>2 DEF SetToSeqs
  <1>4. q \in Seq(Sessions)
    BY <1>1, <1>3, SeqDef DEF RowsTypes
  <1>. QED  BY <1>3, <1>4 DEF RowLists, IsInjective

LEMMA PostsQueued ==
    ASSUME posted \in Seq(RowPosts), NEW x \in RowPosts
    PROVE  Append(posted, x) \in Seq(RowPosts)
  OBVIOUS

LEMMA PostTaken ==
    ASSUME posted \in Seq(RowPosts), NEW kind, Take(kind)
    PROVE  /\ posted' \in Seq(RowPosts)
           /\ Head(posted) \in RowPosts /\ Head(posted).kind = kind
  <1>1. posted # <<>> /\ posted' = Tail(posted) /\ Head(posted).kind = kind
    BY DEF Take
  <1>2. Tail(posted) \in Seq(RowPosts) /\ Head(posted) \in RowPosts
    BY <1>1
  <1>. QED  BY <1>1, <1>2

LEMMA SameRows ==
    ASSUME RowsInv, UNCHANGED <<sidebar, current, gone, crossed>>,
           posted' \in Seq(RowPosts), stored' \subseteq Sessions
    PROVE  RowsInv'
  BY DEF RowsInv, RowsTypes, DeletedStaysAway, Listed

LEMMA HydratedKeeps == ASSUME RowsInv, Hydrated PROVE RowsInv'
  <1>. DEFINE list == Head(posted).list
  <1>1. posted' \in Seq(RowPosts) /\ list \in RowLists
    <2>1. /\ posted' \in Seq(RowPosts)
          /\ Head(posted) \in RowPosts /\ Head(posted).kind = "Hydrated"
      BY PostTaken DEF Hydrated, RowsInv, RowsTypes
    <2>. QED  BY <2>1 DEF RowPosts
  <1>2. /\ sidebar' = list /\ crossed' = crossed \cup (gone \cap ToSet(list))
        /\ UNCHANGED <<current, gone, stored>>
    BY DEF Hydrated, Replaced, place
  <1>. QED  BY <1>1, <1>2 DEF RowsInv, RowsTypes, DeletedStaysAway, Listed

LEMMA SelectedKeeps == ASSUME RowsInv, Selected PROVE RowsInv'
  <1>1. posted' \in Seq(RowPosts)
    BY PostTaken DEF Selected, RowsInv, RowsTypes
  <1>2. /\ current' = Head(posted).id
        /\ crossed' = crossed \cup (gone \cap {Head(posted).id})
        /\ UNCHANGED <<sidebar, gone, stored>>
    BY DEF Selected, flags
  <1>. QED  BY <1>1, <1>2 DEF RowsInv, RowsTypes, DeletedStaysAway, Listed

LEMMA DeleteKeeps == ASSUME RowsInv, DeleteRequested PROVE RowsInv'
  <1>. DEFINE s == Head(posted).id
  <1>1. posted' \in Seq(RowPosts) /\ s \in Sessions
    <2>1. /\ posted' \in Seq(RowPosts)
          /\ Head(posted) \in RowPosts /\ Head(posted).kind = "DeleteRequested"
      BY PostTaken DEF DeleteRequested, RowsInv, RowsTypes
    <2>. QED  BY <2>1 DEF RowPosts
  <1>2. /\ Without(s) /\ Unpointed(s)
        /\ gone' = gone \cup {s} /\ crossed' = crossed \ {s} /\ UNCHANGED stored
    BY DEF DeleteRequested
  <1>3. sidebar' \in RowLists /\ ToSet(sidebar)' = ToSet(sidebar) \ {s}
    BY <1>1, <1>2, WithoutKeeps DEF RowsInv
  <1>4. current' = IF current = s THEN NoSession ELSE current
    BY <1>2 DEF Unpointed
  <1>5. s # NoSession
    BY <1>1, StoreAssumption
  <1>6. RowsTypes'
    BY <1>1, <1>2, <1>3 DEF RowsInv, RowsTypes
  <1>7. ASSUME NEW x \in gone' \ crossed' PROVE x \notin Listed' /\ x # current'
    <2>1. CASE x = s
      BY <2>1, <1>3, <1>4, <1>5 DEF Listed
    <2>2. CASE x # s
      <3>1. x \in gone \ crossed
        BY <1>2, <1>7, <2>2
      <3>2. x \notin ToSet(sidebar) /\ x # current
        BY <3>1 DEF RowsInv, DeletedStaysAway, Listed
      <3>3. x # NoSession
        BY <1>2, <1>7, <2>2, StoreAssumption DEF RowsInv, RowsTypes
      <3>. QED  BY <1>3, <1>4, <3>2, <3>3 DEF Listed
    <2>. QED  BY <2>1, <2>2
  <1>. QED  BY <1>6, <1>7 DEF RowsInv, DeletedStaysAway

LEMMA PostsKeep ==
    ASSUME RowsInv,
           \/ ServeList \/ DrawList
           \/ \E kind \in {"Selected", "DeleteRequested"}, i \in DOMAIN drawn : ClickRow(kind, i)
           \/ \E s \in Sessions : DeleteServed(s) \/ DeleteFails(s)
    PROVE  RowsInv'
  <1>1. UNCHANGED <<sidebar, current, gone, crossed>>
    BY DEF ServeList, DrawList, ClickRow, DeleteServed, DeleteFails, storeVars, flags, place
  <1>2. stored' \subseteq Sessions
    BY DEF ServeList, DrawList, ClickRow, DeleteServed, DeleteFails, RowsInv, RowsTypes
  <1>3. \A list \in SetToSeqs(stored) : [kind |-> "Hydrated", list |-> list] \in RowPosts
    BY ListServed DEF RowsInv, RowPosts
  <1>4. \A kind \in {"Selected", "DeleteRequested"}, i \in DOMAIN sidebar :
          [kind |-> kind, id |-> RowAt(i)] \in RowPosts
    BY DEF RowsInv, RowsTypes, RowLists, RowPosts, RowAt
  <1>5. posted' \in Seq(RowPosts)
    <2>1. posted \in Seq(RowPosts)
      BY DEF RowsInv, RowsTypes
    <2>2. CASE UNCHANGED posted
      BY <2>1, <2>2
    <2>3. CASE \E list \in SetToSeqs(stored) :
                 posted' = Append(posted, [kind |-> "Hydrated", list |-> list])
      BY <2>1, <2>3, <1>3, PostsQueued
    <2>4. CASE \E kind \in {"Selected", "DeleteRequested"}, i \in DOMAIN sidebar :
                 posted' = Append(posted, [kind |-> kind, id |-> RowAt(i)])
      BY <2>1, <2>4, <1>4, PostsQueued
    <2>. QED
      BY <2>2, <2>3, <2>4 DEF ServeList, DrawList, ClickRow, DeleteServed, DeleteFails
  <1>. QED  BY <1>1, <1>2, <1>5, SameRows

LEMMA RowsInitially == LightsInit => RowsInv
  BY DEF LightsInit, StoreInit, SessionListInit, RowsInv, RowsTypes, RowLists, IsInjective,
         DeletedStaysAway

LEMMA RowsKeep == ASSUME RowsInv, [LightsNext]_lightVars PROVE RowsInv'
  <1>1. CASE SessionListNext
    BY <1>1, HydratedKeeps, SelectedKeeps, DeleteKeeps, PostsKeep DEF SessionListNext
  <1>2. CASE (StoreNext /\ UNCHANGED listVars) \/ UNCHANGED <<storeVars, listVars>>
    <2>1. UNCHANGED <<sidebar, current>>
      BY <1>2 DEF StoreNext, SessionOpened, FoldTurn, TurnStarted, TurnCompleted, TurnError, Delta,
           FoldTool, ToolStarted, ToolProgress, ToolCompleted, FoldTask, TaskUpdated,
           FoldProgress, ProgressUpdated, Announced, Missed, FoldConnection, ShowToast,
           DismissToast, NavigateTo, storeVars, flags, place
    <2>2. UNCHANGED <<posted, stored, gone, crossed>>
      BY <1>2 DEF listVars
    <2>. QED  BY <2>1, <2>2, SameRows DEF RowsInv, RowsTypes
  <1>. QED
    BY <1>1, <1>2 DEF LightsNext, lightVars

(* Deleting a row turns its lights off, and no other. *)
LEMMA DeletesKeepLights == ASSUME LightsInv, RowsInv, DeleteRequested PROVE LightsInv'
  <1>. DEFINE s == Head(posted).id
  <1>1. s \in Sessions
    BY PostTaken DEF DeleteRequested, RowsInv, RowsTypes, RowPosts
  <1>2. /\ Without(s) /\ streaming' = streaming \ {s} /\ busy' = busy \ {s}
        /\ UNCHANGED <<tools, tasks, served, missed>>
    BY DEF DeleteRequested, Without, Keep, work
  <1>3. Listed' = Listed \ {s}
    BY <1>1, <1>2, WithoutKeeps DEF RowsInv, Listed
  <1>. QED
    BY <1>2, <1>3 DEF LightsInv, StoreTypes, LightsAreListed, BusyIsReal, StreamingIsReal, ServerRuns

-----------------------------------------------------------------------------
LEMMA LightsKeep == LightsInv /\ RowsInv /\ [LightsNext]_lightVars => LightsInv'
  <1>. SUFFICES ASSUME LightsInv, RowsInv, [LightsNext]_lightVars PROVE LightsInv'
    OBVIOUS
  <1>1. ASSUME NEW s \in Sessions, SessionOpened(s) PROVE LightsInv'
    <2>1. MarkStreaming(s, FALSE) /\ UNCHANGED <<sidebar, busy, tools, tasks, served, missed>>
      BY <1>1 DEF SessionOpened, work
    <2>. QED
      BY <2>1 DEF LightsInv, StoreTypes, LightsAreListed, BusyIsReal, StreamingIsReal, MarkStreaming,
           Listed, ServerRuns
  <1>2. CASE FoldProgress \/ Announced \/ ShowToast \/ DismissToast \/ UNCHANGED lightVars
             \/ (\E to \in Links \ {"Idle"} : FoldConnection(to))
             \/ (\E target \in {"Home", "Content"} : NavigateTo(target))
             \/ Selected \/ UNCHANGED storeVars
    <2>1. UNCHANGED <<flags, tools, tasks, served, missed>>
      BY <1>2 DEF FoldProgress, ProgressUpdated, Announced, ShowToast, DismissToast,
           FoldConnection, NavigateTo, Selected, Keep, lightVars, storeVars, work
    <2>. QED  BY <2>1, SameWork DEF LightsInv, StoreTypes
  <1>3. CASE SessionListNext
    <2>1. CASE UNCHANGED storeVars
      BY <2>1, <1>2
    <2>. QED
      BY <1>2, <1>3, <2>1, ListsKeep, DeletesKeepLights
      DEF SessionListNext, ServeList, DrawList, ClickRow, DeleteServed, DeleteFails
  <1>. QED
    BY <1>1, <1>2, <1>3, TurnsKeep, ToolsKeep, TasksKeep, MissedKeeps DEF LightsNext, StoreNext

-----------------------------------------------------------------------------
(* The dock counts at least the tool or task a light stands for.           *)
LEMMA OnTheDock == LightsInv /\ (expanded \in BOOLEAN) => BusyIsOnTheDock
  <1>. SUFFICES ASSUME LightsInv, expanded \in BOOLEAN, NEW s \in busy
                PROVE Header(s).runningCount # 0 /\ (expanded => {} \notin DockDrawn(s))
    BY DEF BusyIsOnTheDock
  <1>. DEFINE runningTools == {k \in ToolsOf(s) : ToolRow(k) = "Running"}
              runningTasks == {a \in TasksOf(s) : TaskRow(a) = "Running"}
  <1>1. /\ runningTools \subseteq ToolsOf(s) /\ ToolsOf(s) \subseteq Tools
        /\ runningTasks \subseteq TasksOf(s) /\ TasksOf(s) \subseteq Tasks
    BY DEF ToolsOf, TasksOf
  <1>2. /\ IsFiniteSet(runningTools) /\ IsFiniteSet(runningTasks)
        /\ IsFiniteSet(ToolsOf(s)) /\ IsFiniteSet(TasksOf(s))
    BY <1>1, FS_Subset, DockAssumption
  <1>3. OpenTools(tools, s) \subseteq runningTools /\ OpenTasks(tasks, s) \subseteq runningTasks
    BY DEF OpenTools, OpenTasks, ToolsOf, TasksOf, ToolRow, TaskRow, Belongs, TaskEnded
  <1>4. runningTools # {} \/ runningTasks # {}
    BY <1>3 DEF LightsInv, BusyIsReal
  <1>5. /\ Cardinality(runningTools) \in Nat /\ Cardinality(runningTasks) \in Nat
        /\ Cardinality(ToolsOf(s)) \in Nat /\ Cardinality(TasksOf(s)) \in Nat
        /\ Cardinality(runningTools) + Cardinality(runningTasks) # 0
        /\ Cardinality(ToolsOf(s)) + Cardinality(TasksOf(s)) # 0
    <2>1. /\ Cardinality(runningTools) \in Nat /\ Cardinality(runningTasks) \in Nat
          /\ Cardinality(ToolsOf(s)) \in Nat /\ Cardinality(TasksOf(s)) \in Nat
      BY <1>2, FS_CardinalityType
    <2>2. /\ Cardinality(runningTools) # 0 \/ Cardinality(runningTasks) # 0
          /\ Cardinality(ToolsOf(s)) # 0 \/ Cardinality(TasksOf(s)) # 0
      BY <1>1, <1>2, <1>4, FS_EmptySet
    <2>. QED  BY <2>1, <2>2
  <1>6. Header(s).runningCount # 0
    BY <1>5 DEF Header
  <1>7. ASSUME expanded PROVE {} \notin DockDrawn(s)
    <2>1. ~IsIdle(Header(s))
      BY <1>5 DEF IsIdle, Header
    <2>2. ToolsOf(s) \cup TasksOf(s) # {}
      BY <1>1, <1>4
    <2>3. Cardinality({}) # DockRows
      BY FS_EmptySet, DockAssumption
    <2>. QED  BY <1>7, <2>1, <2>2, <2>3 DEF DockDrawn
  <1>. QED  BY <1>6, <1>7

(* The lights of the session list are true: whatever the server runs,      *)
(* whichever notifications are missed and however lists and deletions      *)
(* change the rows, a row is lit for what runs and what it is lit for is   *)
(* on the dock (octos-app-store reduce; app/task_dock.rs).                 *)
THEOREM LightsAreTrue == LightsSpec => []LightsAreReal
  <1>. DEFINE Kept == LightsInv /\ RowsInv /\ expanded \in BOOLEAN
  <1>1. LightsInit => Kept
    BY LightsInitially, RowsInitially DEF LightsInit, DockInit
  <1>2. Kept /\ [LightsNext]_lightVars => Kept'
    BY LightsKeep, RowsKeep DEF LightsNext, lightVars, ToggleDock
  <1>3. Kept => LightsAreReal
    BY OnTheDock DEF LightsInv, LightsAreReal
  <1>. QED  BY <1>1, <1>2, <1>3, PTL DEF LightsSpec

(* A deleted session stays away: among notifications, clicks and list      *)
(* replies, only a list or a click of before brings it back                *)
(* (main.rs, DeleteRequested).                                             *)
THEOREM DeletesLast == LightsSpec => []DeletedStaysAway
  <1>1. LightsInit => RowsInv
    BY RowsInitially
  <1>2. RowsInv /\ [LightsNext]_lightVars => RowsInv'
    BY RowsKeep
  <1>3. RowsInv => DeletedStaysAway
    BY DEF RowsInv
  <1>. QED  BY <1>1, <1>2, <1>3, PTL DEF LightsSpec

-----------------------------------------------------------------------------
(*                              Its shape                                  *)

(* What the reducer writes beside the flags. *)
WorkOK ==
    /\ turns \in [Turns -> TurnStates] /\ buffers \in [{"text", "thinking"} -> SUBSET Turns]
    /\ measured \subseteq Tools /\ labelled \subseteq Tasks
ToastsOK == toasts \in Seq(BOOLEAN) /\ Len(toasts) <= ToastCapacity /\ toastTimer \in BOOLEAN
PlaceOK ==
    /\ connection \in {"Connected", "Reconnecting", "Offline"} /\ link \in Links
    /\ screen \in {"Login", "Home", "Content", "Chat"} /\ current \in Sessions \cup {NoSession}

LEMMA ToastPushed == ASSUME ToastsOK, Toast PROVE ToastsOK'
  <1>1. ToastCapacity \in Nat \ {0} /\ Len(toasts) \in Nat
    BY StoreAssumption DEF ToastsOK
  <1>. DEFINE q == IF Len(toasts) = ToastCapacity THEN Tail(toasts) ELSE toasts
  <1>2. q \in Seq(BOOLEAN) /\ Len(q) < ToastCapacity
    <2>1. CASE Len(toasts) = ToastCapacity
      <3>1. toasts # <<>>
        BY <1>1, <2>1
      <3>2. Tail(toasts) \in Seq(BOOLEAN) /\ Len(Tail(toasts)) = Len(toasts) - 1
        BY <3>1 DEF ToastsOK
      <3>. QED  BY <1>1, <2>1, <3>2
    <2>2. CASE Len(toasts) # ToastCapacity
      BY <1>1, <2>2 DEF ToastsOK
    <2>. QED  BY <2>1, <2>2
  <1>3. toasts' = Append(q, FALSE) /\ toastTimer' = toastTimer
    BY DEF Toast, Pushed
  <1>. HIDE DEF q
  <1>4. Append(q, FALSE) \in Seq(BOOLEAN) /\ Len(Append(q, FALSE)) = Len(q) + 1 /\ Len(q) \in Nat
    BY <1>2
  <1>. QED  BY <1>1, <1>2, <1>3, <1>4 DEF ToastsOK

LEMMA ToastsShown == ASSUME ToastsOK, ShowToast \/ DismissToast PROVE ToastsOK'
  <1>1. ASSUME NEW q \in Seq(BOOLEAN), q # <<>>
        PROVE  [q EXCEPT ![1] = TRUE] \in Seq(BOOLEAN) /\ Len([q EXCEPT ![1] = TRUE]) = Len(q)
    <2>1. 1 \in 1..Len(q)
      BY <1>1
    <2>. QED  BY <1>1, <2>1, ExceptSeq
  <1>2. CASE ShowToast
    BY <1>1, <1>2 DEF ToastsOK, ShowToast
  <1>3. CASE DismissToast
    <2>. DEFINE q == IF toasts = <<>> THEN <<>> ELSE Tail(toasts)
    <2>1. q \in Seq(BOOLEAN) /\ Len(q) <= Len(toasts) /\ Len(q) \in Nat /\ Len(toasts) \in Nat
      <3>1. CASE toasts = <<>>
        BY <3>1 DEF ToastsOK
      <3>2. CASE toasts # <<>>
        BY <3>2 DEF ToastsOK
      <3>. QED  BY <3>1, <3>2
    <2>2. /\ toasts' = IF q = <<>> THEN q ELSE [q EXCEPT ![1] = TRUE]
          /\ toastTimer' = (q # <<>>)
      BY <1>3 DEF DismissToast, Synced
    <2>3. ToastCapacity \in Nat
      BY StoreAssumption
    <2>. HIDE DEF q
    <2>4. toasts' \in Seq(BOOLEAN) /\ Len(toasts') = Len(q)
      BY <1>1, <2>1, <2>2
    <2>5. toastTimer' \in BOOLEAN
      BY <2>2
    <2>. QED  BY <2>1, <2>3, <2>4, <2>5 DEF ToastsOK
  <1>. QED  BY <1>2, <1>3

LEMMA ToastsKeep == ASSUME ToastsOK, [LightsNext]_lightVars PROVE ToastsOK'
  <1>1. ASSUME Toast \/ UNCHANGED notices PROVE ToastsOK'
    BY <1>1, ToastPushed DEF ToastsOK, notices
  <1>2. CASE StoreNext
    <2>1. ASSUME FoldTurn \/ FoldTool \/ FoldTask \/ FoldProgress PROVE Toast \/ UNCHANGED notices
      BY <2>1 DEF FoldTurn, TurnStarted, TurnCompleted, TurnError, Delta, FoldTool, ToolStarted,
             ToolProgress, ToolCompleted, FoldTask, TaskUpdated, FoldProgress, ProgressUpdated
    <2>2. ASSUME Announced \/ Missed \/ (\E s \in Sessions : SessionOpened(s))
                 \/ (\E to \in Links \ {"Idle"} : FoldConnection(to))
                 \/ (\E target \in {"Home", "Content"} : NavigateTo(target))
          PROVE  Toast \/ UNCHANGED notices
      BY <2>2 DEF Announced, Missed, SessionOpened, FoldConnection, NavigateTo
    <2>. QED  BY <1>1, <1>2, <2>1, <2>2, ToastsShown DEF StoreNext
  <1>3. CASE ~StoreNext
    <2>1. UNCHANGED notices
      BY <1>3 DEF LightsNext, lightVars, storeVars, SessionListNext, ServeList, Hydrated, DrawList,
             ClickRow, Selected, DeleteRequested, DeleteServed, DeleteFails, Keep, ToggleDock
    <2>. QED  BY <1>1, <2>1
  <1>. QED  BY <1>2, <1>3

LEMMA WorkKeeps == ASSUME WorkOK, [LightsNext]_lightVars PROVE WorkOK'
  <1>1. ASSUME NEW t \in Turns, TurnStarted(t) \/ TurnCompleted(t) \/ (\E b \in BOOLEAN : TurnError(t, b))
                 \/ (\E kind \in {"text", "thinking"} : Delta(t, kind))
        PROVE  WorkOK'
    <2>1. ASSUME TurnStarted(t) PROVE WorkOK'
      BY <2>1 DEF WorkOK, TurnStarted, TurnStates
    <2>2. ASSUME TurnCompleted(t) PROVE WorkOK'
      BY <2>2 DEF WorkOK, TurnCompleted, DropBuffers, TurnStates
    <2>3. ASSUME NEW b \in BOOLEAN, TurnError(t, b) PROVE WorkOK'
      BY <2>3 DEF WorkOK, TurnError, DropBuffers, TurnStates
    <2>4. ASSUME NEW kind \in {"text", "thinking"}, Delta(t, kind) PROVE WorkOK'
      BY <2>4 DEF WorkOK, Delta, Streams, TurnStates
    <2>. QED  BY <1>1, <2>1, <2>2, <2>3, <2>4
  <1>2. ASSUME FoldTool PROVE WorkOK'
    BY <1>2 DEF WorkOK, FoldTool, ToolStarted, ToolProgress, ToolCompleted
  <1>3. ASSUME FoldTask \/ FoldProgress PROVE WorkOK'
    BY <1>3 DEF WorkOK, FoldTask, TaskUpdated, FoldProgress, ProgressUpdated
  <1>4. ASSUME UNCHANGED work PROVE WorkOK'
    BY <1>4 DEF WorkOK, work
  <1>5. CASE StoreNext
    <2>1. ASSUME Announced \/ Missed \/ (\E s \in Sessions : SessionOpened(s)) \/ ShowToast \/ DismissToast
                 \/ (\E to \in Links \ {"Idle"} : FoldConnection(to))
                 \/ (\E target \in {"Home", "Content"} : NavigateTo(target))
          PROVE  UNCHANGED work
      BY <2>1 DEF Announced, Missed, SessionOpened, FoldConnection, NavigateTo, ShowToast, DismissToast
    <2>. QED  BY <1>1, <1>2, <1>3, <1>4, <1>5, <2>1 DEF StoreNext, FoldTurn
  <1>6. CASE ~StoreNext
    <2>1. UNCHANGED work
      BY <1>6 DEF LightsNext, lightVars, storeVars, SessionListNext, ServeList, Hydrated, DrawList,
             ClickRow, Selected, DeleteRequested, DeleteServed, DeleteFails, Keep, ToggleDock
    <2>. QED  BY <1>4, <2>1
  <1>. QED  BY <1>5, <1>6

LEMMA PlaceKeeps == ASSUME PlaceOK, RowsInv, [LightsNext]_lightVars PROVE PlaceOK'
  <1>1. ASSUME UNCHANGED <<place, peer>> PROVE PlaceOK'
    BY <1>1 DEF PlaceOK, place, peer
  <1>2. CASE StoreNext
    <2>1. ASSUME NEW to \in Links \ {"Idle"}, FoldConnection(to) PROVE PlaceOK'
      BY <2>1 DEF PlaceOK, FoldConnection, Connection, place
    <2>2. ASSUME NEW target \in {"Home", "Content"}, NavigateTo(target) PROVE PlaceOK'
      BY <2>2 DEF PlaceOK, NavigateTo, peer
    <2>3. ASSUME FoldTurn \/ FoldTool \/ FoldTask \/ FoldProgress PROVE UNCHANGED <<place, peer>>
      BY <2>3 DEF FoldTurn, TurnStarted, TurnCompleted, TurnError, Delta, FoldTool, ToolStarted,
             ToolProgress, ToolCompleted, FoldTask, TaskUpdated, FoldProgress, ProgressUpdated
    <2>4. ASSUME Announced \/ Missed \/ (\E s \in Sessions : SessionOpened(s)) \/ ShowToast \/ DismissToast
          PROVE  UNCHANGED <<place, peer>>
      BY <2>4 DEF Announced, Missed, SessionOpened, ShowToast, DismissToast
    <2>. QED  BY <1>1, <1>2, <2>1, <2>2, <2>3, <2>4 DEF StoreNext
  <1>3. CASE ~StoreNext
    <2>1. CASE Selected
      <3>1. Head(posted) \in RowPosts /\ Head(posted).kind = "Selected"
        BY <2>1, TailElements DEF Selected, Take, RowsInv, RowsTypes
      <3>2. Head(posted).id \in Sessions
        BY <3>1 DEF RowPosts
      <3>. QED  BY <2>1, <3>2 DEF PlaceOK, Selected, Keep, peer
    <2>2. CASE DeleteRequested
      BY <2>2 DEF PlaceOK, DeleteRequested, Unpointed, Keep, peer
    <2>3. CASE ~Selected /\ ~DeleteRequested
      <3>1. UNCHANGED <<place, peer>>
        BY <1>3, <2>3 DEF LightsNext, lightVars, storeVars, SessionListNext, ServeList, Hydrated, DrawList,
               ClickRow, DeleteServed, DeleteFails, Keep, ToggleDock
      <3>. QED  BY <1>1, <3>1
    <2>. QED  BY <2>1, <2>2, <2>3
  <1>. QED  BY <1>2, <1>3

(* The store keeps its shape: a flag belongs to a listed session, the list *)
(* names a session once, the queue of toasts its capacity (state.rs,       *)
(* sessions.rs, toasts.rs).                                                *)
THEOREM StoreTypeCorrect == LightsSpec => [](StoreTypeOK /\ expanded \in BOOLEAN)
  <1>. DEFINE Kept == LightsInv /\ RowsInv /\ WorkOK /\ ToastsOK /\ PlaceOK /\ expanded \in BOOLEAN
  <1>1. LightsInit => Kept
    <2>. SUFFICES ASSUME LightsInit PROVE WorkOK /\ ToastsOK /\ PlaceOK /\ expanded \in BOOLEAN
      BY LightsInitially, RowsInitially
    <2>1. <<>> \in Seq(BOOLEAN) /\ Len(<<>>) = 0
      BY EmptySeq
    <2>2. ToastCapacity \in Nat
      BY StoreAssumption
    <2>3. WorkOK
      BY DEF LightsInit, StoreInit, WorkOK, TurnStates
    <2>4. ToastsOK
      <3>1. toasts = <<>> /\ toastTimer = FALSE
        BY DEF LightsInit, StoreInit
      <3>2. Len(toasts) <= ToastCapacity
        BY <2>1, <2>2, <3>1
      <3>. QED  BY <2>1, <3>1, <3>2 DEF ToastsOK
    <2>5. PlaceOK /\ expanded \in BOOLEAN
      BY DEF LightsInit, StoreInit, DockInit, PlaceOK, Links
    <2>. QED  BY <2>3, <2>4, <2>5
  <1>2. Kept /\ [LightsNext]_lightVars => Kept'
    <2>. SUFFICES ASSUME Kept, [LightsNext]_lightVars PROVE Kept'
      OBVIOUS
    <2>1. (expanded \in BOOLEAN)'
      BY DEF LightsNext, lightVars, ToggleDock
    <2>. QED  BY <2>1, LightsKeep, RowsKeep, WorkKeeps, ToastsKeep, PlaceKeeps
  <1>3. Kept => StoreTypeOK /\ expanded \in BOOLEAN
    BY DEF LightsInv, StoreTypes, LightsAreListed, RowsInv, RowsTypes, RowLists, WorkOK, ToastsOK, PlaceOK,
           StoreTypeOK
  <1>. QED  BY <1>1, <1>2, <1>3, PTL DEF LightsSpec

-----------------------------------------------------------------------------
(*                                Approvals                                *)

ApprovalsSpec == ApprovalsInit /\ [][ApprovalsNext]_apprVars

Rulings == {"new", "open", "cancelled"} \cup Decisions
Notes == [kind : {"requested", "cancelled"}, id : Ids]
         \cup [kind : {"decided"}, id : Ids, decision : Decisions]
Acts == [id : Ids, decision : Decisions]
Results == [id : Ids, decision : Decisions,
            reply : {"accepted", "refused", "dropped"} \cup Decisions]

Asked(i) == ruling[i] # "new"

(* A notification or a result says what was ruled. *)
NoteSaid(n) ==
    /\ Asked(n.id)
    /\ n.kind = "decided" => ruling[n.id] = n.decision
    /\ n.kind = "cancelled" => ruling[n.id] = "cancelled"
ResultSaid(r) ==
    /\ Asked(r.id)
    /\ r.reply = "accepted" => ruling[r.id] = r.decision
    /\ r.reply \in Decisions => ruling[r.id] = r.reply
    /\ r.reply = "refused" => ruling[r.id] = "cancelled"

SliceOK ==
    /\ card \in [Ids -> CardStates] /\ order \in Seq(Ids)
    /\ \A i \in Ids : Known(i) => Asked(i)
    /\ \A n \in DOMAIN order : Asked(order[n])
    /\ ShowsTheRuling
NotesOK == notes \in Seq(Notes) /\ \A n \in DOMAIN notes : NoteSaid(notes[n])
ActsOK == acts \in Seq(Acts) /\ \A n \in DOMAIN acts : Asked(acts[n].id)
CallsOK == \A c \in calls : c.id \in Ids /\ c.decision \in Decisions /\ Asked(c.id)
ResultsOK == results \in Seq(Results) /\ \A n \in DOMAIN results : ResultSaid(results[n])

ApprovalsInv == ruling \in [Ids -> Rulings] /\ SliceOK /\ NotesOK /\ ActsOK /\ CallsOK /\ ResultsOK

(* The server rules once. *)
Settles ==
    /\ ruling' \in [Ids -> Rulings]
    /\ \A i \in Ids : ruling'[i] = ruling[i] \/ (ruling[i] \in {"new", "open"} /\ ruling'[i] # "new")

-----------------------------------------------------------------------------
(*                        Queues and the server's word                     *)

LEMMA Unqueues ==
    ASSUME SliceOK, NEW i \in Ids
    PROVE  /\ Unqueued(i) \in Seq(Ids)
           /\ \A n \in DOMAIN Unqueued(i) : Asked(Unqueued(i)[n])
  <1>1. CASE Queued(i)
    <2>. DEFINE n == CHOOSE n \in DOMAIN order : order[n] = i
    <2>1. n \in DOMAIN order
      BY <1>1 DEF Queued
    <2>2. Unqueued(i) = RemoveAt(order, n)
      BY <1>1 DEF Unqueued
    <2>. HIDE DEF n
    <2>3. /\ RemoveAt(order, n) \in Seq(Ids)
          /\ \A k \in DOMAIN RemoveAt(order, n) :
               \E m \in DOMAIN order : RemoveAt(order, n)[k] = order[m]
      BY <2>1, RemoveElements DEF SliceOK
    <2>. QED  BY <2>2, <2>3 DEF SliceOK
  <1>2. CASE ~Queued(i)
    BY <1>2 DEF Unqueued, SliceOK
  <1>. QED  BY <1>1, <1>2

(* What was asked for stays asked for, and what was ruled stays ruled. *)
LEMMA Lasting ==
    ASSUME ApprovalsInv, Settles, NEW i \in Ids
    PROVE  /\ Asked(i) => Asked(i)'
           /\ \A d \in Decisions \cup {"cancelled"} : ruling[i] = d => ruling'[i] = d
  BY ApprovalsAssumption DEF ApprovalsInv, Settles, Asked, Rulings

LEMMA SliceStays == ASSUME ApprovalsInv, Settles, UNCHANGED slice PROVE SliceOK'
  <1>1. card' = card /\ order' = order
    BY DEF slice
  <1>2. \A n \in DOMAIN order : order[n] \in Ids
    BY DEF ApprovalsInv, SliceOK
  <1>3. \A i \in Ids : card[i].at = "Decided" => ruling'[i] \in {card[i].decision, "cancelled"}
    <2>. SUFFICES ASSUME NEW i \in Ids, card[i].at = "Decided"
                  PROVE  ruling'[i] \in {card[i].decision, "cancelled"}
      OBVIOUS
    <2>1. card[i].decision \in Decisions
      BY DEF ApprovalsInv, SliceOK, CardStates, Absent, Awaiting, Pending, Decided, Failed
    <2>. QED  BY <2>1, Lasting DEF ApprovalsInv, SliceOK, ShowsTheRuling
  <1>. QED
    BY <1>1, <1>2, <1>3, Lasting DEF ApprovalsInv, SliceOK, ShowsTheRuling, Known

LEMMA NotesStay ==
    ASSUME ApprovalsInv, Settles, NEW n \in Notes, NoteSaid(n) PROVE NoteSaid(n)'
  BY Lasting DEF Notes, NoteSaid

LEMMA ResultsStay ==
    ASSUME ApprovalsInv, Settles, NEW r \in Results, ResultSaid(r) PROVE ResultSaid(r)'
  BY Lasting DEF Results, ResultSaid

LEMMA NotesUnchanged == ASSUME ApprovalsInv, Settles, UNCHANGED notes PROVE NotesOK'
  <1>1. \A n \in DOMAIN notes : notes[n] \in Notes /\ NoteSaid(notes[n])
    BY DEF ApprovalsInv, NotesOK
  <1>. QED  BY <1>1, NotesStay DEF ApprovalsInv, NotesOK

LEMMA NoteAdded ==
    ASSUME ApprovalsInv, Settles, NEW x \in Notes, NoteSaid(x)', notes' = Append(notes, x)
    PROVE  NotesOK'
  <1>1. notes \in Seq(Notes) /\ \A n \in DOMAIN notes : notes[n] \in Notes /\ NoteSaid(notes[n])'
    BY NotesStay DEF ApprovalsInv, NotesOK
  <1>2. /\ notes' \in Seq(Notes)
        /\ \A n \in DOMAIN notes' : notes'[n] = x \/ (n \in DOMAIN notes /\ notes'[n] = notes[n])
    BY <1>1, AppendElements
  <1>. QED  BY <1>1, <1>2 DEF NotesOK, NoteSaid

LEMMA ResultsUnchanged == ASSUME ApprovalsInv, Settles, UNCHANGED results PROVE ResultsOK'
  <1>1. \A n \in DOMAIN results : results[n] \in Results /\ ResultSaid(results[n])
    BY DEF ApprovalsInv, ResultsOK
  <1>. QED  BY <1>1, ResultsStay DEF ApprovalsInv, ResultsOK

LEMMA ResultAdded ==
    ASSUME ApprovalsInv, Settles, NEW x \in Results, ResultSaid(x)', results' = Append(results, x)
    PROVE  ResultsOK'
  <1>1. /\ results \in Seq(Results)
        /\ \A n \in DOMAIN results : results[n] \in Results /\ ResultSaid(results[n])'
    BY ResultsStay DEF ApprovalsInv, ResultsOK
  <1>2. /\ results' \in Seq(Results)
        /\ \A n \in DOMAIN results' :
             results'[n] = x \/ (n \in DOMAIN results /\ results'[n] = results[n])
    BY <1>1, AppendElements
  <1>. QED  BY <1>1, <1>2 DEF ResultsOK, ResultSaid

LEMMA CallsStay == ASSUME ApprovalsInv, Settles, calls' \subseteq calls PROVE CallsOK'
  BY Lasting DEF ApprovalsInv, CallsOK

LEMMA ActsUnchanged == ASSUME ApprovalsInv, Settles, UNCHANGED acts PROVE ActsOK'
  <1>1. \A n \in DOMAIN acts : acts[n] \in Acts
    BY DEF ApprovalsInv, ActsOK
  <1>2. \A n \in DOMAIN acts : acts[n].id \in Ids
    BY <1>1 DEF Acts
  <1>. QED  BY <1>2, Lasting DEF ApprovalsInv, ActsOK

LEMMA SameRuling == ASSUME ApprovalsInv, UNCHANGED ruling PROVE Settles
  BY DEF ApprovalsInv, Settles

-----------------------------------------------------------------------------
(*                               The server                                *)

LEMMA AskKeeps == ASSUME ApprovalsInv, NEW i \in Ids, Ask(i) PROVE ApprovalsInv'
  <1>. DEFINE x == [kind |-> "requested", id |-> i]
  <1>1. /\ ruling[i] = "new" /\ ruling' = [ruling EXCEPT ![i] = "open"]
        /\ notes' = Append(notes, x)
        /\ UNCHANGED <<slice, acts, calls, results>>
    BY DEF Ask
  <1>2. Settles /\ ruling' \in [Ids -> Rulings] /\ ruling'[i] # "new"
    BY <1>1 DEF ApprovalsInv, Settles, Rulings
  <1>3. x \in Notes /\ NoteSaid(x)'
    BY <1>2 DEF Notes, NoteSaid, Asked
  <1>. HIDE DEF x
  <1>. QED
    BY <1>1, <1>2, <1>3, SliceStays, NoteAdded, ActsUnchanged, CallsStay, ResultsUnchanged DEF ApprovalsInv

LEMMA ElsewhereKeeps ==
    ASSUME ApprovalsInv, NEW i \in Ids, NEW d \in Decisions, DecideElsewhere(i, d) PROVE ApprovalsInv'
  <1>. DEFINE x == [kind |-> "decided", id |-> i, decision |-> d]
  <1>1. /\ ruling[i] = "open" /\ ruling' = [ruling EXCEPT ![i] = d]
        /\ notes' = Append(notes, x)
        /\ UNCHANGED <<slice, acts, calls, results>>
    BY DEF DecideElsewhere
  <1>2. Settles /\ ruling' \in [Ids -> Rulings] /\ ruling'[i] = d /\ d # "new"
    BY <1>1, ApprovalsAssumption DEF ApprovalsInv, Settles, Rulings
  <1>3. x \in Notes /\ NoteSaid(x)'
    BY <1>2 DEF Notes, NoteSaid, Asked
  <1>. HIDE DEF x
  <1>. QED
    BY <1>1, <1>2, <1>3, SliceStays, NoteAdded, ActsUnchanged, CallsStay, ResultsUnchanged DEF ApprovalsInv

LEMMA CancelKeeps == ASSUME ApprovalsInv, NEW i \in Ids, Cancel(i) PROVE ApprovalsInv'
  <1>. DEFINE x == [kind |-> "cancelled", id |-> i]
  <1>1. /\ ruling[i] = "open" /\ ruling' = [ruling EXCEPT ![i] = "cancelled"]
        /\ notes' = Append(notes, x)
        /\ UNCHANGED <<slice, acts, calls, results>>
    BY DEF Cancel
  <1>2. Settles /\ ruling' \in [Ids -> Rulings] /\ ruling'[i] = "cancelled"
    BY <1>1 DEF ApprovalsInv, Settles, Rulings
  <1>3. x \in Notes /\ NoteSaid(x)'
    BY <1>2 DEF Notes, NoteSaid, Asked
  <1>. HIDE DEF x
  <1>. QED
    BY <1>1, <1>2, <1>3, SliceStays, NoteAdded, ActsUnchanged, CallsStay, ResultsUnchanged DEF ApprovalsInv

LEMMA ReplayKeeps == ASSUME ApprovalsInv, NEW i \in Ids, Replay(i) PROVE ApprovalsInv'
  <1>. DEFINE x == [kind |-> "requested", id |-> i]
  <1>1. /\ ruling[i] # "new" /\ notes' = Append(notes, x)
        /\ UNCHANGED <<slice, acts, calls, results, ruling>>
    BY DEF Replay
  <1>2. Settles
    BY <1>1, SameRuling
  <1>3. x \in Notes /\ NoteSaid(x)'
    BY <1>1 DEF Notes, NoteSaid, Asked
  <1>. HIDE DEF x
  <1>. QED
    BY <1>1, <1>2, <1>3, SliceStays, NoteAdded, ActsUnchanged, CallsStay, ResultsUnchanged
    DEF ApprovalsInv, Settles

(* A reply names what was ruled, by this call or before it. *)
LEMMA RespondKeeps == ASSUME ApprovalsInv, NEW c \in calls, Respond(c) PROVE ApprovalsInv'
  <1>. DEFINE i == c.id
              d == c.decision
              reply == IF ruling[i] = "open" THEN "accepted"
                       ELSE IF ruling[i] \in Decisions THEN ruling[i] ELSE "refused"
  <1>1. /\ calls' \subseteq calls
        /\ results' = Append(results, [id |-> i, decision |-> d, reply |-> reply])
        /\ ruling' = IF ruling[i] = "open" THEN [ruling EXCEPT ![i] = d] ELSE ruling
        /\ UNCHANGED <<slice, acts, notes>>
    BY DEF Respond
  <1>2. i \in Ids /\ d \in Decisions /\ ruling[i] # "new" /\ ruling[i] \in Rulings
    BY DEF ApprovalsInv, CallsOK, Asked
  <1>3. Settles /\ ruling' \in [Ids -> Rulings]
    BY <1>1, <1>2, ApprovalsAssumption DEF ApprovalsInv, Settles, Rulings
  <1>4. PICK x \in Results : x = [id |-> i, decision |-> d, reply |-> reply]
    <2>1. reply \in {"accepted", "refused", "dropped"} \cup Decisions
      OBVIOUS
    <2>. HIDE DEF reply
    <2>2. [id |-> i, decision |-> d, reply |-> reply] \in Results
      BY <1>2, <2>1 DEF Results
    <2>. QED  BY <2>2
  <1>5. ResultSaid(x)'
    <2>1. CASE ruling[i] = "open"
      <3>1. ruling'[i] = d /\ x.reply = "accepted" /\ x.id = i /\ x.decision = d
        BY <1>1, <1>2, <1>4, <2>1 DEF ApprovalsInv
      <3>. QED  BY <3>1, <1>2, ApprovalsAssumption DEF ResultSaid, Asked
    <2>2. CASE ruling[i] \in Decisions
      <3>1. ruling'[i] = ruling[i] /\ x.reply = ruling[i] /\ x.id = i
        BY <1>1, <1>4, <2>2, ApprovalsAssumption
      <3>. QED  BY <3>1, <1>2, <2>2, ApprovalsAssumption DEF ResultSaid, Asked
    <2>3. CASE ruling[i] = "cancelled"
      <3>1. ruling'[i] = "cancelled" /\ x.reply = "refused" /\ x.id = i
        BY <1>1, <1>4, <2>3, ApprovalsAssumption
      <3>. QED  BY <3>1, ApprovalsAssumption DEF ResultSaid, Asked
    <2>. QED  BY <1>2, <2>1, <2>2, <2>3 DEF Rulings
  <1>6. results' = Append(results, x)
    BY <1>1, <1>4
  <1>. QED
    BY <1>1, <1>3, <1>5, <1>6, SliceStays, NotesUnchanged, ActsUnchanged, CallsStay, ResultAdded
    DEF ApprovalsInv

LEMMA DropKeeps == ASSUME ApprovalsInv, NEW c \in calls, DropCall(c) PROVE ApprovalsInv'
  <1>. DEFINE x == [id |-> c.id, decision |-> c.decision, reply |-> "dropped"]
  <1>1. /\ calls' \subseteq calls /\ results' = Append(results, x)
        /\ \/ ruling' = ruling
           \/ ruling[c.id] = "open" /\ ruling' = [ruling EXCEPT ![c.id] = c.decision]
        /\ UNCHANGED <<slice, acts, notes>>
    BY DEF DropCall
  <1>2. c.id \in Ids /\ c.decision \in Decisions /\ Asked(c.id)
    BY DEF ApprovalsInv, CallsOK
  <1>3. Settles /\ ruling' \in [Ids -> Rulings]
    BY <1>1, <1>2, ApprovalsAssumption DEF ApprovalsInv, Settles, Rulings
  <1>4. x \in Results
    BY <1>2 DEF Results
  <1>5. ResultSaid(x)'
    BY <1>2, <1>3, Lasting, ApprovalsAssumption DEF ResultSaid
  <1>. HIDE DEF x
  <1>. QED
    BY <1>1, <1>3, <1>4, <1>5, SliceStays, NotesUnchanged, ActsUnchanged, CallsStay, ResultAdded
    DEF ApprovalsInv

-----------------------------------------------------------------------------
(*                                The client                               *)

(* A card takes a state that is true of its approval. *)
LEMMA CardSet ==
    ASSUME ApprovalsInv, UNCHANGED ruling, NEW i \in Ids, NEW state \in CardStates,
           card' = [card EXCEPT ![i] = state],
           Asked(i), state.at = "Decided" => ruling[i] \in {state.decision, "cancelled"},
           order' \in Seq(Ids), \A n \in DOMAIN order' : Asked(order'[n])
    PROVE  SliceOK'
  <1>1. card' \in [Ids -> CardStates] /\ \A j \in Ids : card'[j] = IF j = i THEN state ELSE card[j]
    BY DEF ApprovalsInv, SliceOK
  <1>. QED
    BY <1>1 DEF ApprovalsInv, SliceOK, ShowsTheRuling, Known, Asked

LEMMA FoldKeeps == ASSUME ApprovalsInv, FoldNote PROVE ApprovalsInv'
  <1>. DEFINE n == Head(notes)
              i == n.id
  <1>1. /\ notes # <<>> /\ notes' = Tail(notes)
        /\ UNCHANGED <<acts, calls, results, ruling>>
    BY DEF FoldNote
  <1>2. /\ notes' \in Seq(Notes) /\ n \in Notes /\ NoteSaid(n)
        /\ \A k \in DOMAIN notes' : k + 1 \in DOMAIN notes /\ notes'[k] = notes[k + 1]
    BY <1>1, TailElements DEF ApprovalsInv, NotesOK
  <1>3. NotesOK'
    BY <1>1, <1>2 DEF ApprovalsInv, NotesOK, NoteSaid, Asked
  <1>4. i \in Ids /\ Asked(i)
    BY <1>2 DEF Notes, NoteSaid
  <1>5. SliceOK'
    <2>1. CASE n.kind = "requested"
      <3>1. Requested(i)
        BY <2>1 DEF FoldNote
      <3>2. CASE Known(i)
        BY <3>1, <3>2, <1>1, SliceStays, SameRuling DEF Requested
      <3>3. CASE ~Known(i)
        <4>1. order' = Append(order, i) /\ card' = [card EXCEPT ![i] = Awaiting]
          BY <3>1, <3>3 DEF Requested
        <4>2. order' \in Seq(Ids) /\ \A k \in DOMAIN order' : Asked(order'[k])
          BY <4>1, <1>4, AppendElements DEF ApprovalsInv, SliceOK
        <4>3. Awaiting \in CardStates /\ Awaiting.at # "Decided"
          BY DEF CardStates, Awaiting
        <4>. QED  BY <4>1, <4>2, <4>3, <1>1, <1>4, CardSet
      <3>. QED  BY <3>2, <3>3
    <2>. DEFINE state == IF n.kind = "decided" THEN Decided(n.decision) ELSE Failed("cancelled")
    <2>2. CASE n.kind # "requested"
      <3>1. Settled(i, state)
        BY <1>2, <2>2 DEF FoldNote, Notes
      <3>2. CASE Known(i)
        <4>1. card' = [card EXCEPT ![i] = state] /\ order' = Unqueued(i)
          BY <3>1, <3>2 DEF Settled, Set
        <4>2. order' \in Seq(Ids) /\ \A k \in DOMAIN order' : Asked(order'[k])
          BY <4>1, <1>4, Unqueues DEF ApprovalsInv
        <4>3. state \in CardStates
          BY <1>2, <2>2 DEF Notes, CardStates, Decided, Failed
        <4>4. state.at = "Decided" => ruling[i] \in {state.decision, "cancelled"}
          BY <1>2 DEF NoteSaid, Decided, Failed
        <4>. HIDE DEF state
        <4>. QED  BY <4>1, <4>2, <4>3, <4>4, <1>1, <1>4, CardSet
      <3>3. CASE ~Known(i)
        BY <3>1, <3>3, <1>1, SliceStays, SameRuling DEF Settled, Set, slice
      <3>. QED  BY <3>2, <3>3
    <2>. QED  BY <2>1, <2>2
  <1>. QED
    BY <1>1, <1>3, <1>5, SameRuling, ActsUnchanged, CallsStay, ResultsUnchanged DEF ApprovalsInv

(* What can be clicked was asked for. *)
LEMMA VisibleIsAsked ==
    ASSUME ApprovalsInv, NEW shown \in Visible, NEW n \in DOMAIN shown
    PROVE  shown[n] \in Ids /\ Asked(shown[n])
  <1>1. PICK rest \in SetToSeqs(Settling) : shown = order \o rest
    BY DEF Visible
  <1>2. Settling \subseteq Ids /\ \A i \in Settling : Asked(i)
    BY DEF Settling, ApprovalsInv, SliceOK, Known, Absent
  <1>3. Cardinality(Settling) \in Nat
    BY <1>2, ApprovalsAssumption, FS_Subset, FS_CardinalityType
  <1>4. rest \in [1..Cardinality(Settling) -> Settling]
    BY <1>1 DEF SetToSeqs
  <1>5. /\ rest \in Seq(Ids)
        /\ Len(rest) = Cardinality(Settling) /\ \A k \in 1..Len(rest) : Asked(rest[k])
    BY <1>2, <1>3, <1>4
  <1>6. order \in Seq(Ids) /\ \A k \in 1..Len(order) : Asked(order[k])
    BY DEF ApprovalsInv, SliceOK
  <1>7. /\ shown \in Seq(Ids) /\ n \in 1..(Len(order) + Len(rest))
        /\ shown[n] = IF n <= Len(order) THEN order[n] ELSE rest[n - Len(order)]
    BY <1>1, <1>5, <1>6, ConcatProperties
  <1>. QED  BY <1>5, <1>6, <1>7

LEMMA ClickKeeps ==
    ASSUME ApprovalsInv, NEW n \in DOMAIN cards, NEW d \in Decisions, ClickDecision(n, d) PROVE ApprovalsInv'
  <1>1. PICK shown \in Visible :
          acts' = IF n \in DOMAIN shown /\ Accepts(card[shown[n]])
                  THEN Append(acts, [id |-> shown[n], decision |-> d]) ELSE acts
    BY DEF ClickDecision
  <1>2. UNCHANGED <<slice, calls, results, ruling, notes>>
    BY DEF ClickDecision
  <1>3. ActsOK'
    <2>1. CASE acts' = acts
      BY <2>1, <1>2, ActsUnchanged, SameRuling
    <2>2. CASE acts' # acts
      <3>. DEFINE x == [id |-> shown[n], decision |-> d]
      <3>1. n \in DOMAIN shown /\ acts' = Append(acts, x)
        BY <1>1, <2>2
      <3>2. x \in Acts /\ Asked(x.id)
        BY <3>1, VisibleIsAsked DEF Acts
      <3>. HIDE DEF x
      <3>3. /\ acts' \in Seq(Acts)
            /\ \A k \in DOMAIN acts' : acts'[k] = x \/ (k \in DOMAIN acts /\ acts'[k] = acts[k])
        BY <3>1, <3>2, AppendElements DEF ApprovalsInv, ActsOK
      <3>. QED  BY <1>2, <3>2, <3>3 DEF ApprovalsInv, ActsOK, Asked
    <2>. QED  BY <2>1, <2>2
  <1>. QED
    BY <1>2, <1>3, SameRuling, SliceStays, NotesUnchanged, CallsStay, ResultsUnchanged DEF ApprovalsInv

LEMMA ActKeeps == ASSUME ApprovalsInv, HandleAct PROVE ApprovalsInv'
  <1>0. acts # <<>> /\ Head(acts) \in Acts /\ Asked(Head(acts).id)
    BY TailElements DEF HandleAct, ApprovalsInv, ActsOK
  <1>. PICK a \in Acts : a = Head(acts)
    BY <1>0
  <1>. DEFINE x == [id |-> a.id, decision |-> a.decision, reply |-> "dropped"]
              c == [id |-> a.id, decision |-> a.decision, nr |-> Cardinality(calls)]
  <1>1. /\ acts # <<>> /\ acts' = Tail(acts) /\ PendingResponse(a.id, a.decision)
        /\ UNCHANGED <<ruling, notes>>
    BY DEF HandleAct
  <1>2. /\ acts' \in Seq(Acts) /\ Asked(a.id)
        /\ \A k \in DOMAIN acts' : k + 1 \in DOMAIN acts /\ acts'[k] = acts[k + 1]
    BY <1>0, <1>1, TailElements DEF ApprovalsInv, ActsOK
  <1>3. a.id \in Ids /\ a.decision \in Decisions
    BY DEF Acts
  <1>4. ActsOK'
    BY <1>1, <1>2 DEF ApprovalsInv, ActsOK, Asked
  <1>5. SliceOK'
    <2>1. CASE Known(a.id)
      <3>1. card' = [card EXCEPT ![a.id] = Pending(a.decision)] /\ order' = order
        BY <1>1, <2>1 DEF PendingResponse, Set
      <3>2. Pending(a.decision) \in CardStates /\ Pending(a.decision).at # "Decided"
        BY <1>3 DEF CardStates, Pending
      <3>. QED
        BY <1>1, <1>2, <1>3, <3>1, <3>2, CardSet DEF ApprovalsInv, SliceOK
    <2>2. CASE ~Known(a.id)
      BY <1>1, <2>2, SliceStays, SameRuling DEF PendingResponse, Set, slice
    <2>. QED  BY <2>1, <2>2
  <1>6. \/ calls' = calls \cup {c} /\ results' = results
        \/ calls' = calls /\ results' = Append(results, x)
    BY DEF HandleAct
  <1>7. CallsOK'
    BY <1>1, <1>2, <1>3, <1>6 DEF ApprovalsInv, CallsOK, Asked
  <1>8. ResultsOK'
    <2>1. x \in Results
      BY <1>3 DEF Results
    <2>2. Asked(a.id)'
      BY <1>1, <1>2 DEF Asked
    <2>3. ResultSaid(x)'
      BY <2>2, ApprovalsAssumption DEF ResultSaid
    <2>. HIDE DEF x
    <2>. QED  BY <1>1, <1>6, <2>1, <2>3, SameRuling, ResultsUnchanged, ResultAdded
  <1>. QED
    BY <1>1, <1>4, <1>5, <1>7, <1>8, SameRuling, NotesUnchanged DEF ApprovalsInv

LEMMA ResultKeeps == ASSUME ApprovalsInv, HandleResult PROVE ApprovalsInv'
  <1>. DEFINE r == Head(results)
  <1>1. /\ results # <<>> /\ results' = Tail(results)
        /\ UNCHANGED <<acts, calls, ruling, notes>>
        /\ IF r.reply = "dropped" THEN FailedBy(r.id, "transport")
           ELSE Settled(r.id, Decided(ShownDecision(r)))
    BY DEF HandleResult
  <1>2. /\ results' \in Seq(Results) /\ r \in Results /\ ResultSaid(r)
        /\ \A k \in DOMAIN results' : k + 1 \in DOMAIN results /\ results'[k] = results[k + 1]
    BY <1>1, TailElements DEF ApprovalsInv, ResultsOK
  <1>3. ResultsOK'
    BY <1>1, <1>2 DEF ApprovalsInv, ResultsOK, ResultSaid, Asked
  <1>4. r.id \in Ids /\ Asked(r.id) /\ ShownDecision(r) \in Decisions
    BY <1>2 DEF Results, ResultSaid, ShownDecision
  <1>5. SliceOK'
    <2>1. CASE ~Known(r.id)
      BY <1>1, <2>1, SliceStays, SameRuling DEF FailedBy, Settled, Set, slice
    <2>2. CASE Known(r.id) /\ r.reply = "dropped"
      <3>1. card' = [card EXCEPT ![r.id] = Failed("transport")] /\ order' = order
        BY <1>1, <2>2 DEF FailedBy, Set
      <3>2. Failed("transport") \in CardStates /\ Failed("transport").at # "Decided"
        BY DEF CardStates, Failed
      <3>. QED  BY <1>1, <1>4, <3>1, <3>2, CardSet DEF ApprovalsInv, SliceOK
    <2>3. CASE Known(r.id) /\ r.reply # "dropped"
      <3>. DEFINE state == Decided(ShownDecision(r))
      <3>1. card' = [card EXCEPT ![r.id] = state] /\ order' = Unqueued(r.id)
        BY <1>1, <2>3 DEF Settled, Set
      <3>2. state \in CardStates
        BY <1>4 DEF CardStates
      <3>3. ruling[r.id] \in {ShownDecision(r), "cancelled"}
        BY <1>2, <2>3 DEF Results, ResultSaid, ShownDecision
      <3>4. state.decision = ShownDecision(r)
        BY DEF Decided
      <3>5. order' \in Seq(Ids) /\ \A k \in DOMAIN order' : Asked(order'[k])
        BY <1>4, <3>1, Unqueues DEF ApprovalsInv
      <3>. HIDE DEF state
      <3>. QED  BY <1>1, <1>4, <3>1, <3>2, <3>3, <3>4, <3>5, CardSet
    <2>. QED  BY <2>1, <2>2, <2>3
  <1>. QED
    BY <1>1, <1>3, <1>5, SameRuling, NotesUnchanged, ActsUnchanged, CallsStay DEF ApprovalsInv

-----------------------------------------------------------------------------
LEMMA ApprovalsInitially == ApprovalsInit => ApprovalsInv
  <1>. SUFFICES ASSUME ApprovalsInit PROVE ApprovalsInv
    OBVIOUS
  <1>1. ruling \in [Ids -> Rulings] /\ NotesOK /\ ActsOK /\ CallsOK /\ ResultsOK
    BY DEF ApprovalsInit, Rulings, NotesOK, ActsOK, CallsOK, ResultsOK
  <1>2. SliceOK
    BY DEF ApprovalsInit, SliceOK, CardStates, Known, Absent, ShowsTheRuling
  <1>. QED  BY <1>1, <1>2 DEF ApprovalsInv

LEMMA ApprovalsKeep == ApprovalsInv /\ [ApprovalsNext]_apprVars => ApprovalsInv'
  <1>. SUFFICES ASSUME ApprovalsInv, [ApprovalsNext]_apprVars PROVE ApprovalsInv'
    OBVIOUS
  <1>1. CASE DrawPane \/ ReplaceAgent \/ UNCHANGED apprVars
    <2>1. UNCHANGED <<slice, acts, results, ruling, notes>> /\ calls' \subseteq calls
      BY <1>1 DEF DrawPane, ReplaceAgent, apprVars, slice
    <2>. QED
      BY <2>1, SameRuling, SliceStays, NotesUnchanged, ActsUnchanged, CallsStay, ResultsUnchanged
      DEF ApprovalsInv
  <1>. QED
    BY <1>1, AskKeeps, CancelKeeps, ReplayKeeps, ElsewhereKeeps, RespondKeeps, DropKeeps,
       FoldKeeps, ActKeeps, ResultKeeps, ClickKeeps
    DEF ApprovalsNext

(* A card shows a decision only where the server took it, or cancelled,    *)
(* whatever clicks, calls, other clients and replays cross                 *)
(* (approvals.rs; main.rs, ApprovalAsyncAction).                           *)
THEOREM DecisionsAreTheServers == ApprovalsSpec => []ShowsTheRuling
  <1>1. ApprovalsInv => ShowsTheRuling
    BY DEF ApprovalsInv, SliceOK
  <1>. QED  BY <1>1, ApprovalsInitially, ApprovalsKeep, PTL DEF ApprovalsSpec

(* An approval that was answered is never put to the user again            *)
(* (approvals.rs, requested).                                              *)
THEOREM NeverAskedAgain == ApprovalsSpec => AnsweredOnce
  <1>. DEFINE Kept == \A i \in Ids : card[i].at \notin {"absent", "Awaiting"} => card'[i] # Awaiting
  <1>1. ApprovalsInv /\ [ApprovalsNext]_apprVars => [Kept]_slice
    <2>. SUFFICES ASSUME ApprovalsInv, [ApprovalsNext]_apprVars, NEW i \in Ids,
                         card[i].at \notin {"absent", "Awaiting"}
                  PROVE  card'[i] # Awaiting
      OBVIOUS
    <2>1. card \in [Ids -> CardStates] /\ card[i] # Awaiting /\ card[i] # Absent
      BY DEF ApprovalsInv, SliceOK, Awaiting, Absent
    <2>2. ASSUME NEW j, NEW state, Set(j, state), state # Awaiting PROVE card'[i] # Awaiting
      BY <2>1, <2>2 DEF Set
    <2>3. \A d, why : Pending(d) # Awaiting /\ Decided(d) # Awaiting /\ Failed(why) # Awaiting
      <3>1. \A d, why : Pending(d).at # Awaiting.at /\ Decided(d).at # Awaiting.at
                          /\ Failed(why).at # Awaiting.at
        BY DEF Pending, Decided, Failed, Awaiting
      <3>. QED  BY <3>1
    <2>4. CASE FoldNote
      <3>1. ASSUME NEW j, Requested(j) PROVE card'[i] # Awaiting
        BY <2>1, <3>1 DEF Requested, Known, slice
      <3>. QED  BY <2>2, <2>3, <2>4, <3>1 DEF FoldNote, Settled
    <2>5. CASE HandleAct
      BY <2>2, <2>3, <2>5 DEF HandleAct, PendingResponse
    <2>6. CASE HandleResult
      BY <2>2, <2>3, <2>6 DEF HandleResult, FailedBy, Settled
    <2>7. CASE UNCHANGED card
      BY <2>1, <2>7
    <2>. QED
      BY <2>4, <2>5, <2>6, <2>7
      DEF ApprovalsNext, Ask, Cancel, Replay, DecideElsewhere, Respond, DropCall, DrawPane,
          ReplaceAgent, ClickDecision, apprVars, slice
  <1>. QED  BY <1>1, ApprovalsInitially, ApprovalsKeep, PTL DEF ApprovalsSpec, AnsweredOnce

-----------------------------------------------------------------------------
(*              Approvals implement what RulingsShown promises             *)

Promise == INSTANCE RulingsShown WITH shown <- card

Promised == [Promise!Next]_(Promise!vars)

LEMMA NothingShown == ASSUME UNCHANGED <<ruling, card>> PROVE Promised
  BY DEF Promised, Promise!vars

LEMMA ServerRules ==
    ASSUME NEW i \in Ids, NEW x \in Decisions \cup {"cancelled"}, ruling[i] = "open",
           ruling' = [ruling EXCEPT ![i] = x], UNCHANGED card
    PROVE  Promised
  <1>1. Promise!Rule(i)
    BY DEF Promise!Rule
  <1>. QED  BY <1>1 DEF Promised, Promise!Next

(* What a card is set to, if it is known, is true of its approval. *)
LEMMA CardTurns ==
    ASSUME NEW i \in Ids, NEW state, Set(i, state), UNCHANGED ruling,
           \/ \E d \in Decisions : state = Pending(d)
           \/ state = Failed("transport")
           \/ \E d \in Decisions : state = Decided(d) /\ ruling[i] \in {d, "cancelled"}
           \/ state = Failed("cancelled") /\ ruling[i] = "cancelled"
    PROVE  Promised
  <1>1. CASE ~Known(i)
    BY <1>1, NothingShown DEF Set
  <1>2. CASE Known(i)
    <2>1. Promise!Turns(i, state) /\ card[i] # Promise!Absent
      BY <1>2 DEF Set, Known, Absent, Promise!Turns, Promise!Absent
    <2>2. Promise!Answer(i) \/ Promise!Publish(i)
      BY <2>1 DEF Promise!Answer, Promise!Publish, Pending, Decided, Failed, Promise!Failed
    <2>. QED  BY <2>2 DEF Promised, Promise!Next
  <1>. QED  BY <1>1, <1>2

LEMMA NotesPublish == ASSUME ApprovalsInv, FoldNote PROVE Promised
  <1>. DEFINE n == Head(notes)
              i == n.id
  <1>1. UNCHANGED ruling
    BY DEF FoldNote
  <1>2. n \in Notes /\ NoteSaid(n)
    BY TailElements DEF FoldNote, ApprovalsInv, NotesOK
  <1>3. i \in Ids /\ Asked(i)
    BY <1>2 DEF Notes, NoteSaid
  <1>4. CASE n.kind = "requested"
    <2>1. Requested(i)
      BY <1>4 DEF FoldNote
    <2>2. CASE Known(i)
      BY <1>1, <2>1, <2>2, NothingShown DEF Requested, slice
    <2>3. CASE ~Known(i)
      <3>1. Promise!Appear(i)
        BY <1>1, <1>3, <2>1, <2>3
        DEF Requested, Known, Asked, Absent, Awaiting, Promise!Appear, Promise!Turns,
            Promise!Absent, Promise!Awaiting
      <3>. QED  BY <1>3, <3>1 DEF Promised, Promise!Next
    <2>. QED  BY <2>2, <2>3
  <1>5. CASE n.kind = "decided"
    <2>1. Set(i, Decided(n.decision))
      BY <1>5 DEF FoldNote, Settled
    <2>2. n.decision \in Decisions /\ ruling[i] = n.decision
      BY <1>2, <1>5 DEF Notes, NoteSaid
    <2>. QED  BY <1>1, <1>3, <2>1, <2>2, CardTurns
  <1>6. CASE n.kind = "cancelled"
    <2>1. Set(i, Failed("cancelled")) /\ ruling[i] = "cancelled"
      BY <1>2, <1>6 DEF FoldNote, Settled, NoteSaid
    <2>. QED  BY <1>1, <1>3, <2>1, CardTurns
  <1>. QED  BY <1>2, <1>4, <1>5, <1>6 DEF Notes

LEMMA ResultsPublish == ASSUME ApprovalsInv, HandleResult PROVE Promised
  <1>. DEFINE r == Head(results)
  <1>1. /\ UNCHANGED ruling
        /\ IF r.reply = "dropped" THEN FailedBy(r.id, "transport")
           ELSE Settled(r.id, Decided(ShownDecision(r)))
    BY DEF HandleResult
  <1>2. r \in Results /\ ResultSaid(r)
    BY TailElements DEF HandleResult, ApprovalsInv, ResultsOK
  <1>3. r.id \in Ids
    BY <1>2 DEF Results
  <1>4. CASE r.reply = "dropped"
    BY <1>1, <1>3, <1>4, CardTurns DEF FailedBy
  <1>5. CASE r.reply # "dropped"
    <2>1. ShownDecision(r) \in Decisions /\ ruling[r.id] \in {ShownDecision(r), "cancelled"}
      BY <1>2, <1>5 DEF Results, ResultSaid, ShownDecision
    <2>. QED  BY <1>1, <1>3, <1>5, <2>1, CardTurns DEF Settled
  <1>. QED  BY <1>4, <1>5

LEMMA ActsAnswer == ASSUME ApprovalsInv, HandleAct PROVE Promised
  <1>. DEFINE a == Head(acts)
  <1>1. UNCHANGED ruling /\ Set(a.id, Pending(a.decision))
    BY DEF HandleAct, PendingResponse
  <1>2. a.id \in Ids /\ a.decision \in Decisions
    <2>1. a \in Acts
      BY TailElements DEF HandleAct, ApprovalsInv, ActsOK
    <2>. QED  BY <2>1 DEF Acts
  <1>. QED  BY <1>1, <1>2, CardTurns

LEMMA RulingsStep == ApprovalsInv /\ [ApprovalsNext]_apprVars => Promised
  <1>. SUFFICES ASSUME ApprovalsInv, [ApprovalsNext]_apprVars PROVE Promised
    OBVIOUS
  <1>1. ASSUME NEW i \in Ids, Ask(i) PROVE Promised
    <2>1. Promise!Request(i)
      BY <1>1 DEF Ask, slice, Promise!Request
    <2>. QED  BY <2>1 DEF Promised, Promise!Next
  <1>2. ASSUME NEW i \in Ids, Cancel(i) \/ \E d \in Decisions : DecideElsewhere(i, d) PROVE Promised
    BY <1>2, ServerRules DEF Cancel, DecideElsewhere, slice
  <1>3. ASSUME NEW c \in calls, Respond(c) \/ DropCall(c) PROVE Promised
    <2>1. c.id \in Ids /\ c.decision \in Decisions
      BY DEF ApprovalsInv, CallsOK
    <2>2. /\ UNCHANGED card
          /\ \/ UNCHANGED ruling
             \/ ruling[c.id] = "open" /\ ruling' = [ruling EXCEPT ![c.id] = c.decision]
      BY <1>3 DEF Respond, DropCall, slice
    <2>. QED  BY <2>1, <2>2, ServerRules, NothingShown
  <1>4. CASE \/ \E i \in Ids : Replay(i)
             \/ DrawPane \/ ReplaceAgent
             \/ \E n \in DOMAIN cards, d \in Decisions : ClickDecision(n, d)
             \/ UNCHANGED apprVars
    BY <1>4, NothingShown DEF Replay, DrawPane, ReplaceAgent, ClickDecision, apprVars, slice
  <1>. QED
    BY <1>1, <1>2, <1>3, <1>4, NotesPublish, ResultsPublish, ActsAnswer DEF ApprovalsNext

LEMMA RulingsStart == ApprovalsInit => Promise!Init
  BY DEF ApprovalsInit, Promise!Init, Absent, Promise!Absent

(* Every state a card passes through is one that the server's ruling of    *)
(* the moment allows, and the request is put to the user once, however     *)
(* clicks, replies, notifications and replays cross.                       *)
THEOREM RulingsAreShown == ApprovalsSpec => Promise!Spec
  BY ApprovalsInitially, ApprovalsKeep, RulingsStart, RulingsStep, PTL
  DEF ApprovalsSpec, Promise!Spec, Promised

-----------------------------------------------------------------------------
(* What waits is known, waits once and is not decided; a card that can be  *)
(* answered waits.                                                         *)
Waits == \A n \in DOMAIN order : Known(order[n]) /\ card[order[n]].at # "Decided"
AllWait == \A i \in Ids : card[i] = Awaiting => Queued(i)
QueueOK == IsInjective(order) /\ Waits /\ AllWait

LEMMA StatesDiffer ==
    \A d, w : /\ Pending(d).at # "Decided" /\ Pending(d) # Absent /\ Pending(d) # Awaiting
             /\ Decided(d) # Absent /\ Decided(d) # Awaiting
             /\ Failed(w).at # "Decided" /\ Failed(w) # Absent /\ Failed(w) # Awaiting
  <1>1. \A d, w : /\ Pending(d).at = "PendingResponse" /\ Decided(d).at = "Decided" /\ Failed(w).at = "Failed"
                 /\ Absent.at = "absent" /\ Awaiting.at = "Awaiting"
    BY DEF Pending, Decided, Failed, Absent, Awaiting
  <1>2. \A d, w : /\ Pending(d).at # Absent.at /\ Pending(d).at # Awaiting.at
                 /\ Decided(d).at # Absent.at /\ Decided(d).at # Awaiting.at
                 /\ Failed(w).at # Absent.at /\ Failed(w).at # Awaiting.at
    BY <1>1
  <1>3. \A d, w : /\ Pending(d) # Absent /\ Pending(d) # Awaiting /\ Decided(d) # Absent /\ Decided(d) # Awaiting
                 /\ Failed(w) # Absent /\ Failed(w) # Awaiting
    BY <1>2
  <1>. QED  BY <1>1, <1>3

(* A card that is no longer to be answered, in the queue or out of it.     *)
LEMMA Reset ==
    ASSUME ApprovalsInv, QueueOK, NEW i \in Ids, NEW state, Set(i, state),
           state # Awaiting, state # Absent,
           \/ UNCHANGED order /\ state.at # "Decided"
           \/ order' = IF Known(i) THEN Unqueued(i) ELSE order
    PROVE  QueueOK'
  <1>0. card \in [Ids -> CardStates] /\ order \in Seq(Ids) /\ IsInjective(order)
    BY DEF ApprovalsInv, SliceOK, QueueOK
  <1>1. CASE ~Known(i)
    <2>1. UNCHANGED <<card, order>>
      BY <1>1 DEF Set
    <2>. QED  BY <2>1 DEF QueueOK, Waits, AllWait, Known, Queued, IsInjective
  <1>2. CASE Known(i)
    <2>1. card' = [card EXCEPT ![i] = state]
      BY <1>2 DEF Set
    <2>2. \A j \in Ids : card'[j] = IF j = i THEN state ELSE card[j]
      BY <1>0, <2>1
    <2>3. \A n \in DOMAIN order : order[n] \in Ids
      BY <1>0
    <2>4. CASE UNCHANGED order /\ state.at # "Decided"
      BY <2>2, <2>3, <2>4 DEF QueueOK, Waits, AllWait, Known, Queued, IsInjective
    <2>5. CASE order' = Unqueued(i)
      <3>1. CASE Queued(i)
        <4>1. PICK k \in DOMAIN order : order[k] = i /\ order' = RemoveAt(order, k)
          BY <2>5, <3>1 DEF Unqueued, Queued
        <4>2. order' \in Seq(Ids) /\ IsInjective(order') /\ ToSet(order') = ToSet(order) \ {i}
          BY <1>0, <4>1, RemovedOnce
        <4>3. /\ \A n \in DOMAIN order' : \E m \in DOMAIN order : order'[n] = order[m] /\ order[m] # i
              /\ \A j \in Ids : Queued(j) /\ j # i => \E n \in DOMAIN order' : order'[n] = j
          BY <4>2 DEF ToSet, Queued
        <4>4. Waits'
          BY <2>2, <2>3, <4>3 DEF QueueOK, Waits, Known
        <4>5. AllWait'
          BY <2>2, <4>3 DEF QueueOK, AllWait, Queued
        <4>. QED  BY <4>2, <4>4, <4>5 DEF QueueOK
      <3>2. CASE ~Queued(i)
        <4>1. order' = order
          BY <2>5, <3>2 DEF Unqueued
        <4>2. \A n \in DOMAIN order : order[n] # i
          BY <3>2 DEF Queued
        <4>. QED  BY <2>2, <2>3, <4>1, <4>2 DEF QueueOK, Waits, AllWait, Known, Queued, IsInjective
      <3>. QED  BY <3>1, <3>2
    <2>. QED  BY <1>2, <2>4, <2>5
  <1>. QED  BY <1>1, <1>2

LEMMA RequestQueues == ASSUME ApprovalsInv, QueueOK, NEW i \in Ids, Requested(i) PROVE QueueOK'
  <1>0. card \in [Ids -> CardStates] /\ order \in Seq(Ids)
    BY DEF ApprovalsInv, SliceOK
  <1>1. CASE Known(i)
    BY <1>1 DEF Requested, slice, QueueOK, Waits, AllWait, Known, Queued, IsInjective
  <1>2. CASE ~Known(i)
    <2>1. order' = Append(order, i) /\ card' = [card EXCEPT ![i] = Awaiting]
      BY <1>2 DEF Requested
    <2>2. \A j \in Ids : card'[j] = IF j = i THEN Awaiting ELSE card[j]
      BY <1>0, <2>1
    <2>3. /\ Len(order) \in Nat /\ DOMAIN order = 1..Len(order) /\ DOMAIN order' = 1..Len(order) + 1
          /\ order'[Len(order) + 1] = i /\ \A n \in 1..Len(order) : order'[n] = order[n]
      BY <1>0, <2>1, Appended
    <2>4. \A n \in 1..Len(order) : order[n] \in Ids /\ order[n] # i
      BY <1>0, <1>2, <2>3 DEF QueueOK, Waits
    <2>5. Awaiting # Absent /\ Awaiting.at # "Decided"
      BY DEF Awaiting, Absent
    <2>6. IsInjective(order')
      BY <2>3, <2>4 DEF QueueOK, IsInjective
    <2>7. Waits'
      BY <2>2, <2>3, <2>4, <2>5 DEF QueueOK, Waits, Known
    <2>8. AllWait'
      BY <2>2, <2>3 DEF QueueOK, AllWait, Queued
    <2>. QED  BY <2>6, <2>7, <2>8 DEF QueueOK
  <1>. QED  BY <1>1, <1>2

LEMMA QueueKeeps == ApprovalsInv /\ QueueOK /\ [ApprovalsNext]_apprVars => QueueOK'
  <1>. SUFFICES ASSUME ApprovalsInv, QueueOK, [ApprovalsNext]_apprVars PROVE QueueOK'
    OBVIOUS
  <1>1. CASE FoldNote
    <2>. DEFINE n == Head(notes)
    <2>1. n \in Notes
      BY <1>1, TailElements DEF FoldNote, ApprovalsInv, NotesOK
    <2>2. n.id \in Ids
      BY <2>1 DEF Notes
    <2>3. Requested(n.id) \/ (\E d : Settled(n.id, Decided(d))) \/ Settled(n.id, Failed("cancelled"))
      BY <1>1 DEF FoldNote
    <2>. HIDE DEF n
    <2>4. ASSUME NEW state, Settled(n.id, state), state # Awaiting, state # Absent PROVE QueueOK'
      BY <2>2, <2>4, Reset DEF Settled
    <2>. QED  BY StatesDiffer, <2>2, <2>3, <2>4, RequestQueues
  <1>2. CASE HandleAct
    <2>1. Head(acts) \in Acts
      BY <1>2, TailElements DEF HandleAct, ApprovalsInv, ActsOK
    <2>2. Head(acts).id \in Ids /\ PendingResponse(Head(acts).id, Head(acts).decision)
      BY <1>2, <2>1 DEF HandleAct, Acts
    <2>. QED  BY StatesDiffer, <2>2, Reset DEF PendingResponse
  <1>3. CASE HandleResult
    <2>1. Head(results) \in Results
      BY <1>3, TailElements DEF HandleResult, ApprovalsInv, ResultsOK
    <2>2. /\ Head(results).id \in Ids
          /\ \/ FailedBy(Head(results).id, "transport")
             \/ \E d : Settled(Head(results).id, Decided(d))
      BY <1>3, <2>1 DEF HandleResult, Results
    <2>. QED  BY StatesDiffer, <2>2, Reset DEF FailedBy, Settled
  <1>4. CASE UNCHANGED slice
    BY <1>4 DEF slice, QueueOK, Waits, AllWait, Known, Queued, IsInjective
  <1>. QED
    BY <1>1, <1>2, <1>3, <1>4
    DEF ApprovalsNext, Ask, Cancel, Replay, DecideElsewhere, Respond, DropCall, DrawPane,
        ReplaceAgent, ClickDecision, apprVars, slice

(* The maps of the approvals agree: what waits in the queue is known and   *)
(* waits there once, and a card that can be answered waits (approvals.rs). *)
THEOREM ApprovalsTypeCorrect == ApprovalsSpec => []ApprovalsTypeOK
  <1>1. ApprovalsInit => QueueOK
    <2>. SUFFICES ASSUME ApprovalsInit PROVE QueueOK
      OBVIOUS
    <2>1. order = <<>> /\ \A i \in Ids : card[i] = Absent
      BY DEF ApprovalsInit
    <2>2. Absent # Awaiting
      BY DEF Absent, Awaiting
    <2>. QED  BY <2>1, <2>2 DEF QueueOK, Waits, AllWait, IsInjective
  <1>2. ApprovalsInv /\ QueueOK => ApprovalsTypeOK
    <2>. SUFFICES ASSUME ApprovalsInv, QueueOK PROVE ApprovalsTypeOK
      OBVIOUS
    <2>1. card \in [Ids -> CardStates]
      BY DEF ApprovalsInv, SliceOK
    <2>2. \A i \in ToSet(order) : Known(i) /\ card[i].at # "Decided"
      BY DEF QueueOK, Waits, ToSet
    <2>3. \A i \in Ids : card[i] = Awaiting => Contains(order, i)
      BY DEF QueueOK, AllWait, Queued, Contains
    <2>. QED  BY <2>1, <2>2, <2>3 DEF QueueOK, ApprovalsTypeOK
  <1>. QED  BY <1>1, <1>2, ApprovalsInitially, ApprovalsKeep, QueueKeeps, PTL DEF ApprovalsSpec

-----------------------------------------------------------------------------
(*                               Signing in                                *)

LoginSpec == LoginInit /\ [][LoginNext]_loginVars

MaybeProfile == Profiles \cup {NoProfile}
SignIns == [pid : Profiles, at : {"ask", "store", "save"}, owner : Profiles,
            token : Nat, nr : Nat]

LoginTypes ==
    /\ config \in MaybeProfile /\ profile \in MaybeProfile /\ solo \in MaybeProfile
    /\ keychain \in [Profiles -> Nat] /\ issued \in Nat /\ faults \in Nat
    /\ workers \subseteq SignIns /\ IsFiniteSet(workers)
    /\ replies \in Seq(BOOLEAN)
    /\ kernel \in Kernels

Clean == faults = 0 /\ signedOut = {}

(* A token about to be stored is one the server issued. *)
TokensAreIssued == \A w \in workers : w.at = "store" => w.token # 0

(* While no write has failed and nobody has signed out, the owner whose    *)
(* configuration is about to be saved has a bearer, and so has the saved   *)
(* one while a success is on its way to the UI thread.                     *)
BearersAreThere ==
    Clean =>
      /\ \A w \in workers : w.at = "save" => keychain[w.owner] # 0
      /\ \A i \in DOMAIN replies :
           replies[i] = TRUE => config # NoProfile /\ keychain[config] # 0

LoginInv == LoginTypes /\ TokensAreIssued /\ BearersAreThere

-----------------------------------------------------------------------------
LEMMA HeadIsFirst ==
    ASSUME NEW S, NEW q \in Seq(S), q # <<>>
    PROVE  1 \in DOMAIN q /\ q[1] = Head(q)
  OBVIOUS

LEMMA AskingType ==
    ASSUME NEW pid \in Profiles, NEW n \in Nat
    PROVE  Asking(pid, n) \in SignIns /\ Asking(pid, n).at = "ask"
  BY DEF Asking, SignIns

(* A worker replaced by another, or gone, leaves a finite set of workers. *)
LEMMA WorkersType ==
    ASSUME LoginTypes, NEW w \in workers, NEW x \in SignIns
    PROVE  /\ (workers \ {w}) \cup {x} \subseteq SignIns
           /\ IsFiniteSet((workers \ {w}) \cup {x})
           /\ workers \ {w} \subseteq SignIns
           /\ IsFiniteSet(workers \ {w})
           /\ workers \cup {x} \subseteq SignIns
           /\ IsFiniteSet(workers \cup {x})
  <1>1. IsFiniteSet(workers \ {w})
    BY FS_RemoveElement DEF LoginTypes
  <1>2. IsFiniteSet((workers \ {w}) \cup {x}) /\ IsFiniteSet(workers \cup {x})
    BY <1>1, FS_AddElement DEF LoginTypes
  <1>. QED  BY <1>1, <1>2 DEF LoginTypes

LEMMA SpawnType ==
    ASSUME LoginTypes, NEW pid \in Profiles, Spawn(pid)
    PROVE  /\ workers' \subseteq SignIns /\ IsFiniteSet(workers')
           /\ \A w \in workers' : w \in workers \/ w.at = "ask"
  <1>1. Cardinality(workers) \in Nat
    BY FS_CardinalityType DEF LoginTypes
  <1>2. Asking(pid, Cardinality(workers)) \in SignIns
        /\ Asking(pid, Cardinality(workers)).at = "ask"
    BY <1>1, AskingType
  <1>. QED  BY <1>2, FS_AddElement DEF LoginTypes, Spawn

(* A reply ends its worker and is the last of the queue. *)
LEMMA ReplyType ==
    ASSUME LoginTypes, NEW w \in workers, NEW ok \in BOOLEAN, Reply(w, ok)
    PROVE  /\ workers' \subseteq SignIns /\ IsFiniteSet(workers')
           /\ workers' \subseteq workers
           /\ replies' \in Seq(BOOLEAN)
           /\ \A i \in DOMAIN replies' : replies'[i] = TRUE => ok = TRUE \/ (i \in DOMAIN replies /\ replies[i] = TRUE)
           /\ \A i \in DOMAIN replies : i \in DOMAIN replies' /\ replies'[i] = replies[i]
  <1>1. IsFiniteSet(workers \ {w})
    BY FS_RemoveElement DEF LoginTypes
  <1>. QED  BY <1>1 DEF LoginTypes, Reply

-----------------------------------------------------------------------------
LEMMA BlankType ==
    ASSUME NEW at \in {"absent", "torn", "whole"}, NEW own \in BOOLEAN
    PROVE  Blank(at, own) \in Kernels
  <1>1. {} \in SUBSET {KeyOf(f) : f \in Families}
    OBVIOUS
  <1>. QED  BY <1>1 DEF Blank, Kernels

LEMMA LoginInitially == LoginInit => LoginInv
  <1>. SUFFICES ASSUME LoginInit PROVE LoginInv
    OBVIOUS
  <1>1. kernel \in Kernels
    BY BlankType DEF LoginInit
  <1>2. IsFiniteSet({})
    BY FS_EmptySet
  <1>3. /\ config \in MaybeProfile /\ profile \in MaybeProfile /\ solo \in MaybeProfile
        /\ keychain \in [Profiles -> Nat] /\ issued \in Nat /\ faults \in Nat
        /\ replies = <<>> /\ workers = {}
    BY DEF LoginInit, MaybeProfile
  <1>. QED
    BY <1>1, <1>2, <1>3 DEF LoginInv, LoginTypes, TokensAreIssued, BearersAreThere

(* One step of each kind keeps the invariant. *)
LEMMA BootKeeps == ASSUME LoginInv, BootApp PROVE LoginInv'
  <1>1. IsFiniteSet({}) /\ \A x : IsFiniteSet({x})
    BY FS_EmptySet, FS_Singleton
  <1>2. config' \in MaybeProfile /\ profile' \in MaybeProfile /\ faults' \in Nat
    BY LoginAssumption DEF BootApp, LoginInv, LoginTypes, MaybeProfile, FailWrite
  <1>3. workers' = {} \/ (config' # NoProfile /\ workers' = {Asking(config', 0)})
    BY DEF BootApp
  <1>4. workers' \subseteq SignIns /\ \A w \in workers' : w.at = "ask"
    BY <1>2, <1>3, AskingType DEF MaybeProfile
  <1>5. IsFiniteSet(workers')
    BY <1>1, <1>3
  <1>6. /\ keychain' \in [Profiles -> Nat] /\ issued' \in Nat /\ solo' \in MaybeProfile
        /\ kernel' \in Kernels /\ replies' = <<>>
    BY DEF BootApp, LoginInv, LoginTypes
  <1>7. LoginTypes'
    BY <1>2, <1>4, <1>5, <1>6 DEF LoginTypes
  <1>. QED
    BY <1>4, <1>6, <1>7 DEF LoginInv, TokensAreIssued, BearersAreThere

LEMMA ProvisionKeeps == ASSUME LoginInv, NEW pid \in Profiles, Provision(pid) PROVE LoginInv'
  BY DEF Provision, LoginInv, LoginTypes, TokensAreIssued, BearersAreThere, Clean, MaybeProfile,
         FailWrite

LEMMA SignOutKeeps == ASSUME LoginInv, SignOut PROVE LoginInv'
  <1>1. /\ keychain' \in [Profiles -> Nat]
        /\ Bearer(profile) = 0 => keychain' = keychain
    BY DEF SignOut, Forgotten, Bearer, LoginInv, LoginTypes, MaybeProfile
  <1>2. /\ config' \in MaybeProfile /\ (config # NoProfile => config' = config)
        /\ profile' \in MaybeProfile /\ faults' \in Nat /\ (faults' = 0 => faults = 0)
        /\ UNCHANGED workers \/ \E pid \in Profiles : Spawn(pid)
    BY LoginAssumption DEF SignOut, AutoSolo, SoloFrom, FailWrite, LoginInv, LoginTypes, MaybeProfile
  <1>3. /\ workers' \subseteq SignIns /\ IsFiniteSet(workers')
        /\ \A w \in workers' : w \in workers \/ w.at = "ask"
    BY <1>2, SpawnType DEF LoginInv, LoginTypes
  <1>4. Clean' => Clean /\ keychain' = keychain
    BY <1>1, <1>2 DEF SignOut, Clean, Bearer
  <1>5. UNCHANGED <<replies, issued, solo, kernel>>
    BY DEF SignOut
  <1>6. BearersAreThere'
    BY <1>2, <1>3, <1>4, <1>5 DEF LoginInv, BearersAreThere
  <1>. QED
    BY <1>1, <1>2, <1>3, <1>5, <1>6 DEF LoginInv, LoginTypes, TokensAreIssued

LEMMA HandlersKeep == ASSUME LoginInv, Handlers PROVE LoginInv'
  <1>1. /\ replies' = Tail(replies) /\ replies # <<>>
        /\ profile' \in MaybeProfile
        /\ UNCHANGED <<config, keychain, workers, signedOut, solo, issued, faults, kernel>>
    BY DEF Handlers, SoloDone, SignInFailed, Taken, LoginInv, LoginTypes, disk, bounds
  <1>2. /\ replies' \in Seq(BOOLEAN)
        /\ \A i \in DOMAIN replies' : i + 1 \in DOMAIN replies /\ replies'[i] = replies[i + 1]
    BY <1>1 DEF LoginInv, LoginTypes
  <1>. QED
    BY <1>1, <1>2 DEF LoginInv, LoginTypes, TokensAreIssued, BearersAreThere, Clean

LEMMA RefusedKeeps == ASSUME LoginInv, NEW w \in workers, Refused(w) PROVE LoginInv'
  <1>1. /\ Reply(w, FALSE)
        /\ UNCHANGED <<config, keychain, profile, signedOut, solo, issued, faults, kernel>>
    BY DEF Refused, disk, bounds
  <1>2. /\ workers' \subseteq SignIns /\ IsFiniteSet(workers') /\ workers' \subseteq workers
        /\ replies' \in Seq(BOOLEAN)
        /\ \A i \in DOMAIN replies' : replies'[i] = TRUE => i \in DOMAIN replies /\ replies[i] = TRUE
    BY <1>1, ReplyType DEF LoginInv
  <1>3. LoginTypes'
    BY <1>1, <1>2 DEF LoginInv, LoginTypes
  <1>4. BearersAreThere'
    BY <1>1, <1>2 DEF LoginInv, BearersAreThere, Clean
  <1>5. TokensAreIssued'
    BY <1>2 DEF LoginInv, TokensAreIssued
  <1>. QED
    BY <1>3, <1>4, <1>5, Zenon DEF LoginInv

LEMMA SoloGrantedKeeps == ASSUME LoginInv, NEW w \in workers, SoloGranted(w) PROVE LoginInv'
  <1> DEFINE x == [w EXCEPT !.at = "store", !.owner = solo', !.token = issued']
  <1>1. solo' \in Profiles /\ issued' \in Nat /\ issued' # 0
    BY DEF SoloGranted, Granted, LoginInv, LoginTypes, MaybeProfile, SignIns
  <1>2. x \in SignIns /\ x.at = "store" /\ x.token # 0
    BY <1>1 DEF LoginInv, LoginTypes, SignIns
  <1>3. workers' = (workers \ {w}) \cup {x}
    BY DEF SoloGranted, Granted
  <1>4. workers' \subseteq SignIns /\ IsFiniteSet(workers')
    BY <1>2, <1>3, WorkersType DEF LoginInv
  <1>5. UNCHANGED <<config, keychain, profile, replies, signedOut, faults, kernel>>
    BY DEF SoloGranted, disk
  <1>6. LoginTypes'
    BY <1>1, <1>4, <1>5 DEF LoginInv, LoginTypes, MaybeProfile
  <1>7. TokensAreIssued'
    BY <1>2, <1>3 DEF LoginInv, TokensAreIssued
  <1>8. \A v \in workers' : v.at = "save" => v \in workers
    BY <1>2, <1>3
  <1>9. BearersAreThere'
    BY <1>5, <1>8 DEF LoginInv, BearersAreThere, Clean
  <1>. QED
    BY <1>6, <1>7, <1>9 DEF LoginInv

LEMMA StoreTokenKeeps == ASSUME LoginInv, NEW w \in workers, StoreToken(w) PROVE LoginInv'
  <1>1. UNCHANGED <<config, profile, signedOut, solo, issued, kernel>>
    BY DEF StoreToken
  <1>2. w \in SignIns /\ w.token # 0
    BY DEF StoreToken, LoginInv, LoginTypes, TokensAreIssued
  <1>3. CASE FailWrite(keychain) /\ Reply(w, FALSE)
    <2>1. /\ workers' \subseteq SignIns /\ IsFiniteSet(workers') /\ workers' \subseteq workers
          /\ replies' \in Seq(BOOLEAN)
      BY <1>3, ReplyType DEF LoginInv
    <2>2. faults' \in Nat /\ ~Clean' /\ UNCHANGED keychain
      BY <1>3 DEF FailWrite, Clean, LoginInv, LoginTypes
    <2>. QED
      BY <1>1, <2>1, <2>2 DEF LoginInv, LoginTypes, TokensAreIssued, BearersAreThere
  <1>4. CASE ~(FailWrite(keychain) /\ Reply(w, FALSE))
    <2> DEFINE x == [w EXCEPT !.at = "save"]
    <2>1. /\ keychain' = [keychain EXCEPT ![w.owner] = w.token]
          /\ workers' = (workers \ {w}) \cup {x}
          /\ UNCHANGED <<replies, faults>>
      BY <1>4 DEF StoreToken, StoredUnder
    <2>2. x \in SignIns /\ x.at = "save" /\ x.owner = w.owner
      BY <1>2 DEF SignIns
    <2>3. workers' \subseteq SignIns /\ IsFiniteSet(workers')
      BY <2>1, <2>2, WorkersType DEF LoginInv
    <2>4. /\ keychain' \in [Profiles -> Nat] /\ keychain'[w.owner] # 0
          /\ \A p \in Profiles : keychain[p] # 0 => keychain'[p] # 0
      BY <1>2, <2>1 DEF LoginInv, LoginTypes, SignIns
    <2>5. LoginTypes'
      BY <1>1, <2>1, <2>3, <2>4 DEF LoginInv, LoginTypes
    <2>6. \A v \in workers' : v.owner \in Profiles
      BY <2>3 DEF SignIns
    <2>7. BearersAreThere'
      <3>. SUFFICES ASSUME Clean'
                    PROVE  /\ \A v \in workers' : v.at = "save" => keychain'[v.owner] # 0
                           /\ \A i \in DOMAIN replies' :
                                replies'[i] = TRUE => config' # NoProfile /\ keychain'[config'] # 0
        BY DEF BearersAreThere
      <3>1. Clean
        BY <1>1, <2>1 DEF Clean
      <3>2. \A v \in workers' : v.at = "save" => keychain'[v.owner] # 0
        BY <2>1, <2>2, <2>4, <2>6, <3>1 DEF LoginInv, BearersAreThere
      <3>3. \A i \in DOMAIN replies' :
              replies'[i] = TRUE => config' # NoProfile /\ keychain'[config'] # 0
        BY <1>1, <2>1, <2>4, <3>1 DEF LoginInv, LoginTypes, MaybeProfile, BearersAreThere
      <3>. QED  BY <3>2, <3>3
    <2>. QED
      BY <2>1, <2>2, <2>5, <2>7 DEF LoginInv, TokensAreIssued
  <1>. QED  BY <1>3, <1>4

LEMMA SaveOwnerKeeps == ASSUME LoginInv, NEW w \in workers, SaveOwner(w) PROVE LoginInv'
  <1>1. /\ Reply(w, TRUE) /\ w.at = "save"
        /\ UNCHANGED <<keychain, profile, signedOut, solo, issued, kernel>>
    BY DEF SaveOwner
  <1>2. w \in SignIns
    BY DEF LoginInv, LoginTypes
  <1>3. /\ workers' \subseteq SignIns /\ IsFiniteSet(workers') /\ workers' \subseteq workers
        /\ replies' \in Seq(BOOLEAN)
    BY <1>1, ReplyType DEF LoginInv
  <1>4. /\ config' \in MaybeProfile /\ faults' \in Nat
        /\ Clean' => Clean /\ config' = w.owner
    BY <1>1, <1>2 DEF SaveOwner, FailWrite, LoginInv, LoginTypes, MaybeProfile, SignIns, Clean
  <1>5. LoginTypes'
    BY <1>1, <1>3, <1>4 DEF LoginInv, LoginTypes
  <1>6. Clean' => config' # NoProfile /\ keychain'[config'] # 0
    BY <1>1, <1>2, <1>4, LoginAssumption DEF LoginInv, BearersAreThere, SignIns
  <1>7. BearersAreThere'
    BY <1>1, <1>3, <1>4, <1>6 DEF LoginInv, BearersAreThere
  <1>. QED
    BY <1>3, <1>5, <1>7 DEF LoginInv, TokensAreIssued

LEMMA ProvisionLlmKeeps == ASSUME LoginInv, NEW f \in Families, ApplyLlmConfig(f) PROVE LoginInv'
  <1>1. KeyOf(f) \in {KeyOf(g) : g \in Families}
    OBVIOUS
  <1>2. Merged(kernel, f) \in Kernels
    BY <1>1 DEF Merged, Kernels, LoginInv, LoginTypes
  <1>3. kernel' \in Kernels
    BY <1>2, BlankType DEF ApplyLlmConfig
  <1>5. faults' = faults \/ faults' = faults + 1
    BY DEF ApplyLlmConfig
  <1>4. UNCHANGED <<config, keychain, profile, workers, replies, signedOut, solo, issued>>
    BY DEF ApplyLlmConfig, disk
  <1>. QED
    BY <1>3, <1>5, <1>4 DEF LoginInv, LoginTypes, TokensAreIssued, BearersAreThere, Clean

LEMMA LoginKeeps == LoginInv /\ [LoginNext]_loginVars => LoginInv'
  <1>. SUFFICES ASSUME LoginInv, [LoginNext]_loginVars PROVE LoginInv'
    OBVIOUS
  <1>1. CASE Boots
    BY <1>1, BootKeeps, ProvisionKeeps DEF Boots
  <1>2. CASE SignOut
    BY <1>2, SignOutKeeps
  <1>3. CASE Threads
    BY <1>3, RefusedKeeps, SoloGrantedKeeps, StoreTokenKeeps, SaveOwnerKeeps DEF Threads
  <1>4. CASE Handlers
    BY <1>4, HandlersKeep
  <1>5. CASE ProvisionsLlm
    BY <1>5, ProvisionLlmKeeps DEF ProvisionsLlm
  <1>6. CASE UNCHANGED loginVars
    BY <1>6 DEF loginVars, LoginInv, LoginTypes, TokensAreIssued, BearersAreThere, Clean
  <1>. QED
    BY <1>1, <1>2, <1>3, <1>4, <1>5, <1>6 DEF LoginNext

-----------------------------------------------------------------------------
(* While no write has failed and nobody signed out, the transport that a   *)
(* successful sign-in connects has a bearer (main.rs, SoloReply), however  *)
(* many sign-ins cross and however often the app is restarted.             *)
THEOREM SignInConnects == LoginSpec => SignInBringsBearer
  <1>1. LoginInv /\ SoloDone /\ faults = 0 /\ signedOut = {} => agent'.bearer # 0
    <2>. SUFFICES ASSUME LoginInv, SoloDone, Clean PROVE agent'.bearer # 0
      BY DEF Clean
    <2>1. replies \in Seq(BOOLEAN) /\ replies # <<>> /\ Head(replies) = TRUE
      BY DEF SoloDone, Taken, LoginInv, LoginTypes
    <2>2. 1 \in DOMAIN replies /\ replies[1] = Head(replies)
      BY <2>1, HeadIsFirst, Zenon
    <2>3. config # NoProfile /\ keychain[config] # 0
      BY <2>1, <2>2 DEF LoginInv, BearersAreThere
    <2>. QED  BY <2>3 DEF SoloDone, Connected, Bearer
  <1>2. LoginInv => [SoloDone /\ faults = 0 /\ signedOut = {} => agent'.bearer # 0]_loginVars
    BY <1>1
  <1>. QED
    BY LoginInitially, LoginKeeps, <1>2, PTL DEF LoginSpec, SignInBringsBearer

(* Provisioning a model leaves the user's settings and the keys of the     *)
(* other providers alone, and a file octos loads (login.rs,                *)
(* apply_llm_config_at_path).                                              *)
THEOREM ProvisioningMerges == LoginSpec => ProvisioningKeeps
  <1> DEFINE Keeps == LET after == kernel' IN
        after.at = "whole" =>
          after.own = kernel.own /\ kernel.keys \subseteq after.keys /\ after.envelope
  <1>1. ASSUME LoginInv, NEW f \in Families, ApplyLlmConfig(f) PROVE Keeps
    <2>1. kernel \in Kernels
      BY <1>1 DEF LoginInv, LoginTypes
    <2>2. CASE kernel' = Merged(kernel, f)
      BY <2>1, <2>2 DEF Merged, Kernels
    <2>3. CASE kernel' = Blank("torn", FALSE)
      BY <2>3 DEF Blank
    <2>. QED  BY <1>1, <2>2, <2>3 DEF ApplyLlmConfig
  <1>2. LoginInv /\ [LoginNext]_loginVars => [Keeps]_kernel
    BY <1>1 DEF LoginNext, Boots, BootApp, Provision, SignOut, Threads, Refused,
         SoloGranted, StoreToken, SaveOwner, Handlers, SoloDone, SignInFailed,
         ProvisionsLlm, loginVars
  <1>. QED
    BY LoginInitially, LoginKeeps, <1>2, PTL DEF LoginSpec, ProvisioningKeeps

-----------------------------------------------------------------------------
(* Only tokens that were issued are anywhere.                              *)
Tokens == 0..issued
TokensOK ==
    /\ issued \in 0..MaxTokens /\ keychain \in [Profiles -> Tokens]
    /\ \A w \in workers : w.token \in Tokens
    /\ agent.pid \in MaybeProfile /\ agent.bearer \in Tokens
    /\ signedOut \subseteq 1..issued

LEMMA TokensLast ==
    ASSUME TokensOK, LoginTypes, issued' = issued \/ (issued < MaxTokens /\ issued' = issued + 1)
    PROVE  issued' \in 0..MaxTokens /\ Tokens \subseteq Tokens' /\ 0 \in Tokens /\ 1..issued \subseteq 1..issued'
  BY LoginAssumption DEF TokensOK, LoginTypes, Tokens

LEMMA BearersAreTokens == ASSUME TokensOK, NEW p \in MaybeProfile PROVE Bearer(p) \in Tokens
  BY DEF TokensOK, Bearer, Tokens, MaybeProfile

LEMMA TokensKeep == LoginInv /\ TokensOK /\ [LoginNext]_loginVars => TokensOK'
  <1>. SUFFICES ASSUME LoginInv, TokensOK, [LoginNext]_loginVars PROVE TokensOK'
    OBVIOUS
  <1>0. LoginTypes /\ 0 \in Tokens /\ issued \in Nat
    BY DEF LoginInv, LoginTypes, Tokens
  <1>1. CASE BootApp
    <2>1. /\ UNCHANGED <<keychain, signedOut, issued>>
          /\ \A w \in workers' : w.token = 0
          /\ agent'.pid = config /\ agent'.bearer = Bearer(config)
      BY <1>1 DEF BootApp, Connected, Asking
    <2>. QED  BY <1>0, <2>1, BearersAreTokens DEF TokensOK, LoginTypes, Tokens
  <1>2. ASSUME NEW pid \in Profiles, Provision(pid) PROVE TokensOK'
    <2>1. /\ UNCHANGED <<workers, agent, signedOut>> /\ issued < MaxTokens /\ issued' = issued + 1
          /\ keychain' = [keychain EXCEPT ![pid] = issued'] \/ UNCHANGED keychain
      BY <1>2 DEF Provision, FailWrite
    <2>2. issued' \in Tokens'
      BY <1>0, <2>1 DEF Tokens
    <2>. QED  BY <1>0, <2>1, <2>2, TokensLast DEF TokensOK
  <1>3. CASE SignOut
    <2>1. /\ UNCHANGED <<agent, issued>> /\ signedOut' = signedOut \cup ({Bearer(profile)} \ {0})
          /\ (\E p : Forgotten(p)) \/ UNCHANGED keychain
          /\ UNCHANGED workers \/ \E p : Spawn(p)
      BY <1>3 DEF SignOut, AutoSolo, SoloFrom
    <2>2. keychain' \in [Profiles -> Tokens]
      BY <1>0, <2>1 DEF TokensOK, Forgotten
    <2>3. \A w \in workers' : w.token \in Tokens
      BY <1>0, <2>1 DEF TokensOK, Spawn, Asking
    <2>4. Bearer(profile) \in Tokens
      BY <1>0, BearersAreTokens DEF LoginTypes
    <2>5. signedOut' \subseteq 1..issued
      <3>1. ASSUME NEW x \in Tokens, x # 0 PROVE x \in 1..issued
        BY <1>0, <3>1 DEF Tokens
      <3>2. signedOut \subseteq 1..issued
        BY DEF TokensOK
      <3>. QED  BY <2>1, <2>4, <3>1, <3>2
    <2>6. Tokens' = Tokens
      BY <2>1 DEF Tokens
    <2>. QED  BY <2>1, <2>2, <2>3, <2>5, <2>6 DEF TokensOK
  <1>4. CASE Handlers
    <2>1. /\ UNCHANGED <<keychain, workers, signedOut, issued>>
          /\ UNCHANGED agent \/ (agent'.pid = config /\ agent'.bearer = Bearer(config))
      <3>1. CASE SoloDone
        BY <3>1 DEF SoloDone, Connected, disk, bounds
      <3>2. CASE SignInFailed
        BY <3>2 DEF SignInFailed, disk, bounds
      <3>. QED  BY <1>4, <3>1, <3>2 DEF Handlers
    <2>. QED  BY <1>0, <2>1, BearersAreTokens DEF TokensOK, LoginTypes, Tokens
  <1>5. ASSUME NEW w \in workers, Refused(w) \/ SaveOwner(w) PROVE TokensOK'
    <2>1. UNCHANGED <<keychain, agent, signedOut, issued>> /\ workers' \subseteq workers
      BY <1>5 DEF Refused, SaveOwner, Reply, disk, bounds
    <2>. QED  BY <2>1 DEF TokensOK, Tokens
  <1>6. ASSUME NEW w \in workers, SoloGranted(w) PROVE TokensOK'
    <2>1. /\ UNCHANGED <<keychain, agent, signedOut>> /\ issued < MaxTokens /\ issued' = issued + 1
          /\ workers' = (workers \ {w}) \cup {[w EXCEPT !.at = "store", !.owner = solo', !.token = issued']}
      BY <1>6 DEF SoloGranted, Granted, disk
    <2>2. issued' \in Tokens' /\ w \in SignIns
      BY <1>0, <2>1 DEF Tokens, LoginTypes
    <2>3. \A v \in workers' : v.token \in Tokens'
      BY <1>0, <2>1, <2>2, TokensLast DEF TokensOK, SignIns
    <2>. QED  BY <1>0, <2>1, <2>3, TokensLast DEF TokensOK
  <1>7. ASSUME NEW w \in workers, StoreToken(w) PROVE TokensOK'
    <2>1. /\ UNCHANGED <<agent, signedOut, issued>> /\ w \in SignIns /\ w.token \in Tokens
          /\ keychain' = [keychain EXCEPT ![w.owner] = w.token] \/ UNCHANGED keychain
          /\ workers' = (workers \ {w}) \cup {[w EXCEPT !.at = "save"]} \/ workers' \subseteq workers
      BY <1>0, <1>7 DEF StoreToken, StoredUnder, FailWrite, Reply, LoginTypes, TokensOK
    <2>2. [w EXCEPT !.at = "save"].token = w.token
      BY <2>1 DEF SignIns
    <2>3. \A v \in workers' : v.token \in Tokens
      BY <2>1, <2>2 DEF TokensOK
    <2>4. Tokens' = Tokens
      BY <2>1 DEF Tokens
    <2>. QED  BY <2>1, <2>3, <2>4 DEF TokensOK
  <1>8. CASE ProvisionsLlm \/ UNCHANGED loginVars
    <2>1. UNCHANGED <<keychain, workers, agent, signedOut, issued>>
      BY <1>8 DEF ProvisionsLlm, ApplyLlmConfig, loginVars, disk
    <2>. QED  BY <2>1 DEF TokensOK, Tokens
  <1>. QED  BY <1>1, <1>2, <1>3, <1>4, <1>5, <1>6, <1>7, <1>8 DEF LoginNext, Boots, Threads

(* Only bearers the server issued are in the keychain, in a thread, in the *)
(* transport's hands or signed out; the profiles and the kernel's          *)
(* configuration keep their shapes (login.rs, keychain.rs, main.rs).       *)
THEOREM LoginTypeCorrect == LoginSpec => []LoginTypeOK
  <1>1. LoginInit => TokensOK
    BY LoginAssumption DEF LoginInit, TokensOK, Tokens, MaybeProfile
  <1>2. LoginInv /\ TokensOK => LoginTypeOK
    <2>. SUFFICES ASSUME LoginInv, TokensOK PROVE LoginTypeOK
      OBVIOUS
    <2>1. Tokens \subseteq 0..MaxTokens
      BY LoginAssumption DEF TokensOK, Tokens
    <2>2. \A w \in workers : w.at \in {"ask", "store", "save"} /\ w.pid \in Profiles /\ w.token \in 0..issued
      BY DEF LoginInv, LoginTypes, SignIns, TokensOK, Tokens
    <2>3. keychain \in [Profiles -> 0..MaxTokens]
      BY <2>1 DEF TokensOK
    <2>. QED  BY <2>2, <2>3 DEF LoginInv, LoginTypes, TokensOK, Tokens, MaybeProfile, LoginTypeOK
  <1>. QED  BY <1>1, <1>2, LoginInitially, LoginKeeps, TokensKeep, PTL DEF LoginSpec

-----------------------------------------------------------------------------
(*                                 Viewers                                 *)

ViewsSpec == ViewsInit /\ [][ViewsNext]_viewVars

ViewerKinds == Filters \cup {"ImageAlbum", "Generic"}
ViewerPanes == [pane : ViewerKinds, handles : Seq(Handles), active : Nat]

(* The files and what is clicked are of the server; a body is kept under   *)
(* the document it was fetched for; and the place in an open viewer is one *)
(* of its files.                                                           *)
FilesOfServer == hosted \subseteq Handles /\ files \subseteq Handles /\ toOpen \in Handles \cup {NoFile}
BodiesAreOwn == \A h \in DOMAIN documents : documents[h] = h
ViewerOK ==
    viewer # Closed => viewer \in ViewerPanes /\ viewer.active \in DOMAIN viewer.handles

ViewsInv == FilesOfServer /\ BodiesAreOwn /\ ViewerOK

-----------------------------------------------------------------------------

LEMMA HandlesAreFinite == IsFiniteSet(Handles)
  <1>1. Len(Order) \in Nat /\ DOMAIN Order = 1..Len(Order) /\ Order \in [1..Len(Order) -> Handles]
    BY OrderAssumption, LenProperties
  <1>2. Order \in Surjection(1..Len(Order), Handles)
    BY <1>1 DEF Surjection, Handles, ToSet
  <1>3. IsFiniteSet(1..Len(Order))
    BY <1>1, FS_Interval
  <1>. QED  BY <1>2, <1>3, FS_Surjection

(* What a click opens is shown at a place that is its own. *)
LEMMA OpenedAtItsPlace ==
    ASSUME FilesOfServer, NEW h \in Handles
    PROVE  /\ ViewerFor(h) \in ViewerPanes
           /\ ViewerFor(h).active \in DOMAIN ViewerFor(h).handles
  <1>1. CASE DisplayKind(h) = "Image"
    <2>. DEFINE S == {f \in files : KindOf(f) = "Image"}
    <2>1. S \subseteq Handles /\ IsFiniteSet(S)
      BY HandlesAreFinite, FS_Subset DEF FilesOfServer
    <2>2. h \in S
      BY <1>1 DEF DisplayKind
    <2>3. Images \in Seq(S) /\ \E i \in DOMAIN Images : Images[i] = h
      BY <2>1, <2>2, ListedOnce DEF Images
    <2>4. Images \in Seq(Handles) /\ DOMAIN Images \subseteq Nat
      <3>1. Len(Images) \in Nat /\ DOMAIN Images = 1..Len(Images) /\ Images \in [1..Len(Images) -> S]
        BY <2>3, LenProperties DEF Images
      <3>2. Images \in [1..Len(Images) -> Handles]
        BY <2>1, <3>1
      <3>. QED  BY <3>1, <3>2, SeqDef
    <2>. DEFINE a == CHOOSE i \in DOMAIN Images : Images[i] = h
    <2>5. a \in DOMAIN Images
      BY <2>3
    <2>6. ViewerFor(h) = [pane |-> "ImageAlbum", handles |-> Images, active |-> a]
      BY <1>1 DEF ViewerFor
    <2>. HIDE DEF a
    <2>. QED  BY <2>4, <2>5, <2>6 DEF ViewerPanes, ViewerKinds
  <1>2. CASE DisplayKind(h) # "Image"
    <2>1. PICK p : ViewerFor(h) = [pane |-> p, handles |-> <<h>>, active |-> 1] /\ p \in ViewerKinds
      <3>1. DisplayKind(h) \in Filters
        <4>1. FromMime(h) \in Filters
          BY DEF FromMime, Filters
        <4>2. KindOf(h) \in Filters
          BY <4>1 DEF KindOf, Filters
        <4>. QED  BY <4>2 DEF DisplayKind, Filters
      <3>. QED  BY <1>2, <3>1 DEF ViewerFor, ViewerKinds
    <2>. QED  BY <2>1 DEF ViewerPanes
  <1>. QED  BY <1>1, <1>2

LEMMA RowsAreFiles ==
    ASSUME NEW i \in DOMAIN CollectRows PROVE CollectRows[i] \in Handles
  <1>1. CollectRows \in Seq(Handles)
    BY OrderAssumption, RetainElements DEF CollectRows
  <1>. QED  BY <1>1, LenProperties

-----------------------------------------------------------------------------
LEMMA ViewsInitially == ViewsInit => ViewsInv
  BY DEF ViewsInit, ViewsInv, FilesOfServer, BodiesAreOwn, ViewerOK

LEMMA ViewsKeep == ViewsInv /\ [ViewsNext]_viewVars => ViewsInv'
  <1>. SUFFICES ASSUME ViewsInv, [ViewsNext]_viewVars PROVE ViewsInv'
    OBVIOUS
  <1>. USE DEF ViewsInv
  <1>1. ASSUME UNCHANGED <<overlay, toOpen>>, hosted' \subseteq Handles, files' \subseteq Handles
        PROVE  ViewsInv'
    BY <1>1 DEF FilesOfServer, BodiesAreOwn, ViewerOK, overlay
  <1>2. CASE RefreshContent
    BY <1>1, <1>2 DEF RefreshContent, FilesOfServer
  <1>3. CASE DrawContent
    BY <1>1, <1>3 DEF DrawContent, FilesOfServer
  <1>4. CASE ServerFiles
    BY <1>1, <1>4 DEF ServerFiles, FilesOfServer, browser
  <1>5. ASSUME NEW flt \in Filters, SetFilter(flt) PROVE ViewsInv'
    BY <1>1, <1>5 DEF SetFilter, FilesOfServer
  <1>6. ASSUME NEW s \in Searches, SetSearch(s) PROVE ViewsInv'
    BY <1>1, <1>6 DEF SetSearch, FilesOfServer
  <1>7. ASSUME NEW q \in queries, HydrateContent(q) PROVE ViewsInv'
    BY <1>1, <1>7 DEF HydrateContent, FilesOfServer
  <1>8. ASSUME NEW q \in queries, HydrateFails(q) PROVE ViewsInv'
    BY <1>1, <1>8 DEF HydrateFails, FilesOfServer
  <1>9. ASSUME NEW i \in DOMAIN rows, ClickFile(i) PROVE ViewsInv'
    BY <1>9, RowsAreFiles DEF ClickFile, FilesOfServer, BodiesAreOwn, ViewerOK, overlay, browser
  <1>10. CASE OpenViewerFor
    <2>1. toOpen \in Handles /\ viewer' = ViewerFor(toOpen)
      BY <1>10 DEF OpenViewerFor, FilesOfServer
    <2>2. ViewerOK'
      BY <2>1, OpenedAtItsPlace DEF ViewerOK
    <2>3. FilesOfServer' /\ BodiesAreOwn'
      BY <1>10 DEF OpenViewerFor, FilesOfServer, BodiesAreOwn, browser
    <2>. QED  BY <2>2, <2>3
  <1>11. CASE CloseViewer
    BY <1>11 DEF CloseViewer, FilesOfServer, BodiesAreOwn, ViewerOK, browser
  <1>12. ASSUME NEW delta \in {1, 2}, AlbumStep(delta) PROVE ViewsInv'
    <2>1. viewer # Closed /\ viewer \in ViewerPanes /\ viewer.active \in DOMAIN viewer.handles
      BY <1>12 DEF AlbumStep, ViewerOK, Closed
    <2>. DEFINE n == Len(viewer.handles)
                a == Stepped(viewer.active, delta, n)
    <2>2. n \in Nat /\ viewer.active \in 1..n /\ DOMAIN viewer.handles = 1..n
      BY <2>1, LenProperties DEF ViewerPanes
    <2>3. a \in 1..n
      BY <2>2 DEF Stepped
    <2>4. viewer' = [viewer EXCEPT !.active = a]
      BY <1>12 DEF AlbumStep
    <2>. HIDE DEF a
    <2>5. viewer' \in ViewerPanes /\ viewer'.active = a /\ viewer'.handles = viewer.handles
      BY <2>1, <2>2, <2>3, <2>4 DEF ViewerPanes
    <2>6. ViewerOK'
      BY <2>2, <2>3, <2>5 DEF ViewerOK
    <2>. QED  BY <1>12, <2>6 DEF AlbumStep, FilesOfServer, BodiesAreOwn, browser
  <1>13. ASSUME NEW h \in Handles, MarkdownLoaded(h) PROVE ViewsInv'
    <2>1. documents' = [x \in DOMAIN documents \cup {h} |-> IF x = h THEN h ELSE documents[x]]
      BY <1>13 DEF MarkdownLoaded, CachedFor, Put
    <2>2. BodiesAreOwn'
      BY <2>1 DEF BodiesAreOwn
    <2>. QED  BY <1>13, <2>2 DEF MarkdownLoaded, FilesOfServer, ViewerOK, browser
  <1>14. ASSUME NEW h \in Handles, MarkdownFailed(h) PROVE ViewsInv'
    BY <1>14 DEF MarkdownFailed, FilesOfServer, BodiesAreOwn, ViewerOK, browser
  <1>15. CASE UNCHANGED viewVars
    BY <1>15 DEF viewVars, browser, overlay, FilesOfServer, BodiesAreOwn, ViewerOK
  <1>. QED  BY <1>2, <1>3, <1>4, <1>5, <1>6, <1>7, <1>8, <1>9, <1>10, <1>11, <1>12, <1>13, <1>14, <1>15
            DEF ViewsNext

LEMMA ViewsSound == ViewsInv => ViewerIsSound
  BY DEF ViewsInv, BodiesAreOwn, ViewerOK, ViewerIsSound, BodyIsOwn, AlbumInRange, Body

(* An open viewer shows a document of its own and an album at a place it   *)
(* has, however queries and fetches end and viewers open and close in      *)
(* between (viewers.rs, content_browser.rs).                               *)
THEOREM ViewersAreSound == ViewsSpec => []ViewerIsSound
  BY ViewsInitially, ViewsKeep, ViewsSound, PTL DEF ViewsSpec
-----------------------------------------------------------------------------
(*                                 The app                                 *)

(* A step of the app is a step of one part and stutters in the others, so  *)
(* that what is proved of a part holds of the app.                         *)
THEOREM PartsAreThemselves ==
    PartsSpec => LightsSpec /\ ApprovalsSpec /\ LoginSpec /\ ViewsSpec
                 /\ TextSpec /\ BodySpec /\ PlanSpec /\ NativeSpec
  <1>1. PartsInit => /\ LightsInit /\ ApprovalsInit /\ LoginInit /\ ViewsInit
                     /\ TextInit /\ BodyInit /\ PlanInit /\ NativeInit
    BY DEF PartsInit
  <1>2. [PartsNext]_partVars =>
          /\ [LightsNext]_lightVars /\ [ApprovalsNext]_apprVars /\ [LoginNext]_loginVars
          /\ [ViewsNext]_viewVars
          /\ [TextNext]_textVars /\ [BodyNext]_bodyVars
          /\ [PlanNext]_planVars /\ [NativeNext]_nativeVars
    BY DEF PartsNext, PanesNext, DrawnNext, partVars, paneVars, drawnVars
  <1>. QED
    BY <1>1, <1>2, PTL
    DEF PartsSpec, LightsSpec, ApprovalsSpec, LoginSpec, ViewsSpec,
        TextSpec, BodySpec, PlanSpec, NativeSpec

(* The shapes hold of the whole app.                                       *)
THEOREM AppTypeCorrect == PartsSpec => []AppTypeOK
  BY PartsAreThemselves, StoreTypeCorrect, ApprovalsTypeCorrect, LoginTypeCorrect, NativeTypeCorrect, PTL
  DEF AppTypeOK

(* What the parts promise holds of the whole app, whichever part steps.    *)
THEOREM PartsKeepTheirWord ==
    PartsSpec => /\ [](LightsAreReal /\ DeletedStaysAway /\ ShowsTheRuling /\ ViewerIsSound)
                 /\ [](ScreenIsClean /\ ComposedAsWritten /\ BackendsAgree /\ ReadsAgree)
                 /\ AnsweredOnce /\ SignInBringsBearer /\ ProvisioningKeeps
                 /\ CompletionKeepsTheScreen /\ PressIsLocal /\ CalendarAgrees
                 /\ Promise!Spec
  <1>1. LightsSpec => [](LightsAreReal /\ DeletedStaysAway)
    BY LightsAreTrue, DeletesLast, PTL
  <1>2. ApprovalsSpec => []ShowsTheRuling /\ AnsweredOnce /\ Promise!Spec
    BY DecisionsAreTheServers, NeverAskedAgain, RulingsAreShown
  <1>3. LoginSpec => SignInBringsBearer /\ ProvisioningKeeps
    BY SignInConnects, ProvisioningMerges
  <1>4. BodySpec => []ComposedAsWritten /\ PressIsLocal
    BY CardsAreAsWritten, PressesStayLocal
  <1>5. NativeSpec => []ReadsAgree /\ CalendarAgrees
    BY OneForecastEach, CalendarMovesOn
  <1>6. TextSpec => []ScreenIsClean /\ CompletionKeepsTheScreen
    BY ScreenStaysClean, CompletionChangesNothing
  <1>. QED
    BY <1>1, <1>2, <1>3, <1>4, <1>5, <1>6, ViewersAreSound, BothBackendsAgree, PartsAreThemselves, PTL
=============================================================================

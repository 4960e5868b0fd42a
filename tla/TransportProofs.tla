--------------------------- MODULE TransportProofs ---------------------------
(***************************************************************************)
(* Proofs about the transport task, for any number of sessions, calls,     *)
(* requests and broken connections.                                        *)
(*                                                                         *)
(* An id is given to one request and never again (FreshIds, UniqueIds), a  *)
(* call is posted once (OneRequest, Queued), and what the server has yet   *)
(* to answer on this connection is still pending (Tracked): so a response  *)
(* under way is the answer to the request it will be matched with          *)
(* (Truthful), and one that makes the task Live is of a session that this  *)
(* connection follows (Followed).                                          *)
(***************************************************************************)
EXTENDS Transport, SequenceTheorems, TLAPS

IsCall(cmd) == cmd.kind = "call"
IsOpen(cmd) == cmd.kind = "open"
Same(cmd, other) == IsCall(cmd) /\ IsCall(other) /\ cmd.of = other.of
IsResponse(f) == f.kind = "response"

(* The responses under way. *)
Responses == {f \in Frames : IsResponse(f) /\ \E i \in DOMAIN toClient : toClient[i] = f}

Numbered == nextId + Len(commands) <= posted
Offline == phase # "connected" => ~up /\ asked = {} /\ toClient = <<>>
FreshIds ==
    /\ \A p \in pending : p.id < nextId
    /\ \A f \in Responses : f.id < nextId
UniqueIds == \A p, q \in pending : p.id = q.id => p = q
OneRequest == \A p, q \in pending : Same(p.cmd, q.cmd) => p = q
Waiting == \A p \in pending : IsCall(p.cmd) => outcome[p.cmd.of] = "waiting"
Queued ==
    \A i \in DOMAIN commands :
        IsCall(commands[i]) =>
            /\ outcome[commands[i].of] = "waiting"
            /\ \A p \in pending : ~Same(commands[i], p.cmd)
            /\ \A j \in DOMAIN commands : Same(commands[i], commands[j]) => i = j
Tracked ==
    /\ \A r \in asked : [id |-> r.id, cmd |-> r.cmd] \in pending
    /\ \A r, q \in asked : r.id = q.id => r = q
Unanswered == \A r \in asked, f \in Responses : f.id # r.id
Truthful ==
    \A p \in pending, f \in Responses :
        p.id = f.id /\ IsCall(p.cmd) => answered[p.cmd.of] = f.answer
Followed ==
    \A p \in pending, f \in Responses :
        up /\ p.id = f.id /\ IsOpen(p.cmd) /\ f.answer = "ok" =>
            \E s \in Sessions : position[s] # NotOpen

Requested == FreshIds /\ UniqueIds /\ OneRequest /\ Waiting /\ Queued
Replied == Tracked /\ Unanswered /\ Truthful /\ Followed

IInv ==
    /\ TypeOK /\ Numbered /\ Offline /\ Requested /\ Replied
    /\ RepliesMatch /\ LiveMeansOpened

-----------------------------------------------------------------------------
(*                                Queues                                   *)

LEMMA AppendElements ==
    ASSUME NEW S, NEW q \in Seq(S), NEW e \in S
    PROVE  /\ Append(q, e) \in Seq(S) /\ Len(Append(q, e)) = Len(q) + 1
           /\ DOMAIN Append(q, e) = DOMAIN q \cup {Len(q) + 1}
           /\ Append(q, e)[Len(q) + 1] = e
           /\ \A i \in DOMAIN q : Append(q, e)[i] = q[i]
  OBVIOUS

LEMMA TailElements ==
    ASSUME NEW S, NEW q \in Seq(S), q # <<>>
    PROVE  /\ Tail(q) \in Seq(S) /\ Head(q) \in S /\ Head(q) = q[1] /\ 1 \in DOMAIN q
           /\ Len(Tail(q)) = Len(q) - 1 /\ Len(q) >= 1
           /\ \A i \in DOMAIN Tail(q) : i # 0 /\ i + 1 \in DOMAIN q /\ Tail(q)[i] = q[i + 1]
  OBVIOUS

LEMMA PrefixElements ==
    ASSUME NEW S, NEW q \in Seq(S), NEW n \in 0..Len(q)
    PROVE  /\ SubSeq(q, 1, n) \in Seq(S)
           /\ \A i \in DOMAIN SubSeq(q, 1, n) : i \in DOMAIN q /\ SubSeq(q, 1, n)[i] = q[i]
  OBVIOUS

(* Responses under way leave as frames are taken, or lost with the connection. *)
LEMMA ResponsesTaken ==
    ASSUME IInv, toClient # <<>>, toClient' = Tail(toClient)
    PROVE  Responses' \subseteq Responses /\ toClient' \in Seq(Frames)
  BY TailElements DEF IInv, TypeOK, Responses

LEMMA ResponsesCut ==
    ASSUME IInv, NEW n \in 0..Len(toClient), toClient' = SubSeq(toClient, 1, n)
    PROVE  Responses' \subseteq Responses /\ toClient' \in Seq(Frames)
  BY PrefixElements DEF IInv, TypeOK, Responses

LEMMA ResponsesDelivered ==
    ASSUME IInv, NEW f \in Frames, toClient' = Append(toClient, f)
    PROVE  /\ toClient' \in Seq(Frames)
           /\ \A g \in Responses' : g \in Responses \/ (g = f /\ IsResponse(f))
  BY AppendElements DEF IInv, TypeOK, Responses

LEMMA NoResponses == ASSUME toClient' = <<>> PROVE Responses' = {}
  BY DEF Responses

LEMMA SameResponses == ASSUME UNCHANGED toClient PROVE Responses' = Responses
  BY DEF Responses

LEMMA ResponseType ==
    ASSUME NEW f \in Frames, IsResponse(f)
    PROVE  f.id \in Ids /\ f.answer \in Answers
  BY DEF Frames, IsResponse

LEMMA CommandType ==
    ASSUME NEW cmd \in Commands
    PROVE  /\ cmd.kind \in {"open", "other", "call"}
           /\ IsCall(cmd) => cmd.of \in Calls
           /\ ~IsCall(cmd) => cmd.of \in Sessions
           /\ cmd # Disconnect
  BY DEF Commands, IsCall, Disconnect

LEMMA EventType ==
    ASSUME NEW e \in Events, e.kind = "durable"
    PROVE  e.session \in Sessions /\ e.cursor \in Cursors
  BY DEF Events

LEMMA StateEvent == ASSUME NEW x \in ConnectionStates PROVE State(x) \in Events
  BY DEF State, Events

-----------------------------------------------------------------------------
(*              What most steps leave of the requests alone                *)

LEMMA RequestedStays ==
    ASSUME IInv, UNCHANGED <<commands, outcome, nextId, pending>>,
           Responses' \subseteq Responses
    PROVE  Requested'
  BY DEF IInv, Requested, FreshIds, UniqueIds, OneRequest, Waiting, Queued

LEMMA RepliedStays ==
    ASSUME IInv, UNCHANGED <<pending, asked, answered, position>>, up' => up,
           Responses' \subseteq Responses
    PROVE  Replied'
  BY DEF IInv, Replied, Tracked, Unanswered, Truthful, Followed

LEMMA RepliedCleared ==
    ASSUME asked' = {}, toClient' = <<>>
    PROVE  Replied'
  BY NoResponses DEF Replied, Tracked, Unanswered, Truthful, Followed

(* Steps that touch neither requests nor the connection. *)
LEMMA Quiet ==
    ASSUME IInv, TypeOK', posted' = posted,
           UNCHANGED <<commands, outcome, nextId, pending, asked, toClient, up,
                       position, answered>>,
           UNCHANGED <<phase, state>> \/ (phase # "connected" /\ phase' # "connected")
    PROVE  IInv'
  <1>1. Requested' /\ Replied'
    BY SameResponses, RequestedStays, RepliedStays
  <1>2. Numbered' /\ Offline' /\ RepliesMatch' /\ LiveMeansOpened'
    BY DEF IInv, Numbered, Offline, RepliesMatch, LiveMeansOpened
  <1>. QED  BY <1>1, <1>2 DEF IInv

(* Steps after which there is no connection. *)
LEMMA Cut ==
    ASSUME IInv, TypeOK', NoConnection, Requested', Numbered', phase' # "connected",
           \A k \in Calls : outcome'[k] \in {"ok", "err"} => outcome'[k] = outcome[k]
    PROVE  IInv'
  <1>1. Replied'
    BY RepliedCleared DEF NoConnection
  <1>2. RepliesMatch'
    BY DEF IInv, RepliesMatch, NoConnection
  <1>3. Offline' /\ LiveMeansOpened'
    BY DEF Offline, LiveMeansOpened, NoConnection
  <1>. QED  BY <1>1, <1>2, <1>3 DEF IInv

LEMMA IdsUsed ==
    ASSUME IInv
    PROVE  nextId \in Nat /\ nextId <= posted
  <1>1. Len(commands) \in Nat
    BY DEF IInv, TypeOK
  <1>. QED  BY <1>1, NumbersAssumption DEF IInv, Numbered, TypeOK, Ids

(* TypeOK by the one who writes the variables. *)
AppTypes ==
    /\ commands \in Seq(Commands \union {Disconnect}) /\ Len(commands) <= CmdCap
    /\ events \in Seq(Events) /\ Len(events) <= EvtCap
    /\ outcome \in [Calls -> {"unused", "waiting", "ok", "err", "dropped"}]
    /\ applied \in [Sessions -> Cursors]
TaskTypes ==
    /\ phase \in {"start", "dial", "dialing", "connected", "backoff", "closed"}
    /\ outbox \in Seq(Events)
    /\ state \in {"Handshaking", "Live"}
    /\ nextId \in Ids
    /\ pending \subseteq Requests
    /\ cursors \in [Sessions -> Cursors]
    /\ seed \in Cursors
    /\ attempt \in 0..MaxExp + 1 /\ waited \in 0..Budget
ServerTypes ==
    /\ asked \subseteq Asked
    /\ toClient \in Seq(Frames)
    /\ up \in BOOLEAN
    /\ position \in [Sessions -> 0..NotOpen]
    /\ ledger \in [Sessions -> Cursors]
    /\ answered \in [Calls -> Answers \union {"none"}]
OtherTypes == posted \in Ids /\ drops \in 0..MaxDrops /\ transport \in Transports

LEMMA Types == TypeOK <=> AppTypes /\ TaskTypes /\ ServerTypes /\ OtherTypes
  BY DEF TypeOK, AppTypes, TaskTypes, ServerTypes, OtherTypes

LEMMA TypesNext == TypeOK' <=> AppTypes' /\ TaskTypes' /\ ServerTypes' /\ OtherTypes'
  BY DEF TypeOK, AppTypes, TaskTypes, ServerTypes, OtherTypes

LEMMA TypesStay ==
    ASSUME TypeOK
    PROVE  /\ UNCHANGED app => AppTypes'
           /\ UNCHANGED task => TaskTypes'
           /\ UNCHANGED server => ServerTypes'
           /\ UNCHANGED <<posted, drops, transport>> => OtherTypes'
  BY DEF TypeOK, AppTypes, TaskTypes, ServerTypes, OtherTypes, app, task, server

LEMMA CursorTypes ==
    /\ NotOpen \in Nat /\ NotOpen \in 0..NotOpen /\ NotOpen \notin Cursors
    /\ \A c \in Cursors : c \in Nat /\ c \in 0..NotOpen /\ (c # MaxCursor => c + 1 \in Cursors)
    /\ MaxCursor \in Cursors /\ 0 \in Cursors
  BY NumbersAssumption DEF NotOpen, Cursors

LEMMA NoConnectionTypes == ASSUME TypeOK, NoConnection PROVE ServerTypes'
  <1>1. position' \in [Sessions -> 0..NotOpen]
    BY CursorTypes DEF NoConnection
  <1>2. asked' = {} /\ toClient' = <<>> /\ up' = FALSE
    BY DEF NoConnection
  <1>4. asked' \subseteq Asked /\ toClient' \in Seq(Frames)
    BY <1>2
  <1>5. up' \in BOOLEAN
    BY <1>2, Zenon
  <1>3. UNCHANGED <<ledger, answered>>
    BY DEF NoConnection
  <1>. QED  BY <1>1, <1>3, <1>4, <1>5 DEF TypeOK, ServerTypes

LEMMA CloseKeeps ==
    ASSUME IInv, NEW last \in Seq(Events), Close(last), nextId' \in Nat, nextId' <= posted,
           seed' \in Cursors, UNCHANGED <<posted, drops, transport>>
    PROVE  IInv'
  <1>1. TypeOK'
    <2>1. ServerTypes' /\ OtherTypes'
      BY NoConnectionTypes, TypesStay DEF Close, IInv
    <2>2. AppTypes'
      <3>1. Len(<<>>) <= CmdCap
        BY NumbersAssumption
      <3>. QED  BY <3>1 DEF Close, AppTypes, IInv, TypeOK
    <2>3. TaskTypes'
      <3>1. nextId' \in Ids
        BY NumbersAssumption DEF IInv, TypeOK, Ids
      <3>. QED  BY <3>1 DEF Close, TaskTypes, IInv, TypeOK
    <2>. QED
      BY <2>1, <2>2, <2>3, TypesNext
  <1>2. Requested'
    BY NoResponses DEF Close, NoConnection, Requested, FreshIds, UniqueIds, OneRequest, Waiting, Queued
  <1>3. Numbered'
    <2>1. Len(commands') = 0
      BY DEF Close
    <2>. QED  BY <2>1 DEF Numbered
  <1>4. \A k \in Calls : outcome'[k] \in {"ok", "err"} => outcome'[k] = outcome[k]
    BY DEF Close, IInv, TypeOK
  <1>. QED  BY <1>1, <1>2, <1>3, <1>4, Cut DEF Close

LEMMA FailKeeps ==
    ASSUME IInv, Fail, nextId' \in Nat, nextId' <= posted,
           seed' \in Cursors, UNCHANGED <<posted, drops, transport>>
    PROVE  IInv'
  <1>1. <<State("Failed")>> \in Seq(Events)
    BY StateEvent DEF ConnectionStates
  <1>. QED  BY <1>1, CloseKeeps DEF Fail

(* Delays are numbers whatever the exponent; only the budget bounds them. *)
LEMMA ReconnectKeeps ==
    ASSUME IInv, NEW d \in Delays, Reconnect(d), ~(waited + d > Budget),
           AppTypes', Requested', Numbered',
           \A k \in Calls : outcome'[k] \in {"ok", "err"} => outcome'[k] = outcome[k],
           nextId' \in Ids, seed' \in Cursors, UNCHANGED <<posted, drops, transport>>
    PROVE  IInv'
  <1>1. d \in Nat
    BY DEF Delays
  <1>2. /\ phase' = "backoff" /\ outbox' = <<State("Reconnecting")>>
        /\ attempt' = NextAttempt /\ waited' = waited + d
        /\ NoConnection
        /\ UNCHANGED <<events, applied, state, pending, cursors>>
    BY DEF Reconnect
  <1>3. NextAttempt \in 0..MaxExp + 1 /\ waited' \in 0..Budget
    BY <1>1, <1>2, NumbersAssumption DEF NextAttempt, IInv, TypeOK
  <1>4. <<State("Reconnecting")>> \in Seq(Events)
    BY StateEvent DEF ConnectionStates
  <1>5. TaskTypes'
    BY <1>2, <1>3, <1>4 DEF TaskTypes, IInv, TypeOK
  <1>6. TypeOK'
    BY <1>2, <1>5, NoConnectionTypes, TypesStay, TypesNext DEF IInv
  <1>. QED  BY <1>2, <1>6, Cut

-----------------------------------------------------------------------------
(*                         The app and the events                          *)

LEMMA PostKeeps ==
    ASSUME IInv, NEW cmd \in Commands \union {Disconnect}, Post(cmd), UNCHANGED transport
    PROVE  IInv'
  <1>. DEFINE accepted == phase # "closed" /\ Len(commands) < CmdCap
  <1>1. /\ posted \in Nat /\ posted' = posted + 1 /\ posted' \in Ids
        /\ nextId' = nextId /\ pending' = pending /\ nextId \in Nat
        /\ Len(commands) \in Nat /\ CmdCap \in Nat
    BY NumbersAssumption DEF IInv, TypeOK, Post, Ids, task
  <1>2. IsCall(cmd) => cmd.of \in Calls /\ outcome[cmd.of] = "unused"
    BY DEF Post, Commands, Disconnect, IsCall
  <1>3. CASE accepted
    <2>1. /\ commands' = Append(commands, cmd)
          /\ outcome' = IF IsCall(cmd) THEN [outcome EXCEPT ![cmd.of] = "waiting"] ELSE outcome
      BY <1>3 DEF Post, IsCall
    <2>2. /\ commands' \in Seq(Commands \union {Disconnect}) /\ Len(commands') = Len(commands) + 1
          /\ DOMAIN commands' = DOMAIN commands \cup {Len(commands) + 1}
          /\ commands'[Len(commands) + 1] = cmd
          /\ \A i \in DOMAIN commands : commands'[i] = commands[i]
      BY <2>1, AppendElements DEF IInv, TypeOK
    <2>3. AppTypes'
      <3>1. outcome' \in [Calls -> {"unused", "waiting", "ok", "err", "dropped"}]
        BY <1>2, <2>1 DEF IInv, TypeOK
      <3>2. Len(commands') <= CmdCap
        BY <1>1, <1>3, <2>2
      <3>3. UNCHANGED <<events, applied>>
        BY DEF Post
      <3>. QED  BY <2>2, <3>1, <3>2, <3>3 DEF AppTypes, IInv, TypeOK
    <2>4. Requested'
      <3>1. FreshIds' /\ UniqueIds' /\ OneRequest'
        BY <1>1, SameResponses DEF Post, server, IInv, Requested, FreshIds, UniqueIds, OneRequest
      <3>2. \A k \in Calls : outcome[k] = "waiting" => outcome'[k] = "waiting"
        BY <1>2, <2>1 DEF IInv, TypeOK
      <3>3. \A p \in pending : IsCall(p.cmd) => p.cmd.of \in Calls /\ outcome[p.cmd.of] = "waiting"
        BY CommandType DEF IInv, TypeOK, Requests, Requested, Waiting
      <3>4. Waiting'
        BY <1>1, <3>2, <3>3 DEF Waiting
      <3>5. \A i \in DOMAIN commands : IsCall(commands[i]) =>
                commands[i].of \in Calls /\ outcome[commands[i].of] = "waiting"
        BY CommandType DEF IInv, TypeOK, Requested, Queued, Disconnect, IsCall
      <3>6. \A i \in DOMAIN commands' : IsCall(commands'[i]) => outcome'[commands'[i].of] = "waiting"
        BY <1>2, <2>1, <2>2, <3>2, <3>5 DEF IInv, TypeOK
      <3>7. \A i \in DOMAIN commands', p \in pending' : ~Same(commands'[i], p.cmd)
        BY <1>1, <1>2, <2>2, <3>3 DEF IInv, Requested, Queued, Same
      <3>8. \A i, j \in DOMAIN commands' : Same(commands'[i], commands'[j]) => i = j
        <4>1. \A i \in DOMAIN commands : ~Same(commands[i], cmd) /\ ~Same(cmd, commands[i])
          BY <1>2, <3>5 DEF Same
        <4>2. \A i, j \in DOMAIN commands : Same(commands[i], commands[j]) => i = j
          BY DEF IInv, Requested, Queued, Same
        <4>. QED  BY <2>2, <4>1, <4>2
      <3>9. Queued'
        BY <3>6, <3>7, <3>8 DEF Queued
      <3>. QED  BY <3>1, <3>4, <3>9 DEF Requested
    <2>5. Numbered'
      BY <1>1, <2>2 DEF IInv, Numbered
    <2>6. RepliesMatch'
      BY <1>2, <2>1 DEF IInv, TypeOK, RepliesMatch, Post, server
    <2>. QED
      BY <1>1, <2>3, <2>4, <2>5, <2>6, SameResponses, RepliedStays, TypesStay, TypesNext
      DEF IInv, Post, task, server, Types, OtherTypes, TypeOK, Offline, LiveMeansOpened
  <1>4. CASE ~accepted
    <2>1. /\ commands' = commands
          /\ outcome' = IF IsCall(cmd) THEN [outcome EXCEPT ![cmd.of] = "dropped"] ELSE outcome
      BY <1>4 DEF Post, IsCall
    <2>2. \A k \in Calls : outcome[k] = "waiting" => outcome'[k] = "waiting"
      BY <1>2, <2>1 DEF IInv, TypeOK
    <2>3. AppTypes'
      <3>1. outcome' \in [Calls -> {"unused", "waiting", "ok", "err", "dropped"}]
        BY <1>2, <2>1 DEF IInv, TypeOK
      <3>2. UNCHANGED <<commands, events, applied>>
        BY <2>1 DEF Post
      <3>. QED  BY <3>1, <3>2 DEF AppTypes, IInv, TypeOK
    <2>4. Requested'
      <3>1. FreshIds' /\ UniqueIds' /\ OneRequest'
        BY <1>1, SameResponses DEF Post, server, IInv, Requested, FreshIds, UniqueIds, OneRequest
      <3>2. \A p \in pending : IsCall(p.cmd) => p.cmd.of \in Calls
        BY CommandType DEF IInv, TypeOK, Requests
      <3>3. \A i \in DOMAIN commands : IsCall(commands[i]) => commands[i].of \in Calls
        BY CommandType DEF IInv, TypeOK, Disconnect, IsCall
      <3>4. Waiting' /\ Queued'
        BY <1>1, <2>1, <2>2, <3>2, <3>3 DEF IInv, Requested, Waiting, Queued
      <3>. QED  BY <3>1, <3>4 DEF Requested
    <2>5. Numbered'
      BY <1>1, <2>1 DEF IInv, Numbered
    <2>6. RepliesMatch'
      BY <1>2, <2>1 DEF IInv, TypeOK, RepliesMatch, Post, server
    <2>. QED
      BY <1>1, <2>3, <2>4, <2>5, <2>6, SameResponses, RepliedStays, TypesStay, TypesNext
      DEF IInv, Post, task, server, OtherTypes, TypeOK, Offline, LiveMeansOpened
  <1>. QED  BY <1>3, <1>4

LEMMA ConsumeKeeps == ASSUME IInv, Consume, UNCHANGED transport PROVE IInv'
  <1>1. /\ events' \in Seq(Events) /\ Len(events') <= EvtCap /\ Head(events) \in Events
    BY TailElements, NumbersAssumption DEF Consume, IInv, TypeOK
  <1>2. AppTypes'
    BY <1>1, EventType DEF Consume, IInv, TypeOK, AppTypes
  <1>. QED
    BY <1>2, TypesStay, TypesNext, Quiet DEF Consume, IInv, task, server

LEMMA EmitKeeps == ASSUME IInv, Emit, UNCHANGED transport PROVE IInv'
  <1>1. Head(outbox) \in Events /\ outbox' \in Seq(Events)
    BY TailElements DEF Emit, IInv, TypeOK
  <1>2. events' \in Seq(Events) /\ Len(events') <= EvtCap
    BY <1>1, AppendElements, NumbersAssumption DEF Emit, IInv, TypeOK
  <1>3. AppTypes' /\ TaskTypes'
    BY <1>1, <1>2 DEF Emit, IInv, TypeOK, AppTypes, TaskTypes
  <1>. QED
    BY <1>3, TypesStay, TypesNext, Quiet DEF Emit, IInv, server

-----------------------------------------------------------------------------
(*                        The life of the connection                       *)

LEMMA DialKeeps == ASSUME IInv, Dial, UNCHANGED transport PROVE IInv'
  <1>1. outbox' \in Seq(Events)
    BY StateEvent DEF Dial, ConnectionStates
  <1>2. TaskTypes'
    BY <1>1 DEF Dial, IInv, TypeOK, TaskTypes
  <1>3. phase # "connected" /\ phase' # "connected"
    BY DEF Dial, At
  <1>. QED
    BY <1>2, <1>3, TypesStay, TypesNext, Quiet DEF Dial, IInv, app, server

LEMMA WakeKeeps == ASSUME IInv, Wake, UNCHANGED transport PROVE IInv'
  <1>1. TaskTypes'
    BY DEF Wake, IInv, TypeOK, TaskTypes
  <1>2. phase # "connected" /\ phase' # "connected"
    BY DEF Wake, At
  <1>. QED
    BY <1>1, <1>2, TypesStay, TypesNext, Quiet DEF Wake, IInv, app, server

(* The new connection carries nothing of the last one. *)
LEMMA ConnectKeeps == ASSUME IInv, Connect, UNCHANGED transport PROVE IInv'
  <1>1. outbox' \in Seq(Events)
    BY StateEvent DEF Connect, ConnectionStates
  <1>2. TaskTypes'
    BY <1>1, NumbersAssumption DEF Connect, IInv, TypeOK, TaskTypes
  <1>3. ServerTypes'
    <2>1. up' \in BOOLEAN
      BY Zenon DEF Connect
    <2>. QED  BY <2>1 DEF Connect, IInv, TypeOK, ServerTypes
  <1>4. TypeOK'
    BY <1>2, <1>3, TypesStay, TypesNext DEF Connect, IInv
  <1>5. asked' = {} /\ toClient' = <<>>
    BY DEF Connect, At, IInv, Offline
  <1>6. Requested' /\ Replied'
    BY <1>5, SameResponses, RequestedStays, RepliedCleared DEF Connect, app
  <1>7. Numbered' /\ Offline' /\ RepliesMatch' /\ LiveMeansOpened'
    BY DEF Connect, app, IInv, Numbered, Offline, RepliesMatch, LiveMeansOpened
  <1>. QED  BY <1>4, <1>6, <1>7 DEF IInv

LEMMA MisconfiguredKeeps == ASSUME IInv, Misconfigured, UNCHANGED transport PROVE IInv'
  BY FailKeeps, IdsUsed DEF Misconfigured, IInv, TypeOK

LEMMA LostKeeps ==
    ASSUME IInv, NEW d \in Delays, IF Ws THEN Reconnect(d) ELSE Fail,
           phase' # "closed" => UNCHANGED <<commands, outcome>>,
           UNCHANGED <<nextId, seed, posted, drops, transport>>
    PROVE  IInv'
  <1>1. CASE Ws /\ ~(waited + d > Budget)
    <2>1. phase' = "backoff" /\ NoConnection /\ UNCHANGED <<pending, events, applied>>
      BY <1>1 DEF Reconnect
    <2>2. UNCHANGED <<commands, outcome>>
      BY <2>1
    <2>3. Requested' /\ Numbered'
      BY <2>1, <2>2, NoResponses, RequestedStays DEF NoConnection, IInv, Numbered
    <2>4. AppTypes'
      BY <2>1, <2>2 DEF IInv, TypeOK, AppTypes
    <2>5. nextId' \in Ids /\ seed' \in Cursors
      BY DEF IInv, TypeOK
    <2>. QED  BY <1>1, <2>2, <2>3, <2>4, <2>5, ReconnectKeeps
  <1>2. CASE ~(Ws /\ ~(waited + d > Budget))
    <2>1. Fail
      BY <1>2 DEF Reconnect
    <2>. QED  BY <2>1, FailKeeps, IdsUsed DEF IInv, TypeOK
  <1>. QED  BY <1>1, <1>2

-----------------------------------------------------------------------------
(*                               Commands                                  *)

LEMMA CommandsTaken ==
    ASSUME IInv, commands # <<>>, commands' = Tail(commands)
    PROVE  /\ Head(commands) \in Commands \union {Disconnect} /\ 1 \in DOMAIN commands
           /\ Head(commands) = commands[1]
           /\ commands' \in Seq(Commands \union {Disconnect}) /\ Len(commands') <= CmdCap
           /\ Len(commands') + 1 = Len(commands) /\ Len(commands') \in Nat
           /\ \A i \in DOMAIN commands' :
                i # 0 /\ i + 1 \in DOMAIN commands /\ commands'[i] = commands[i + 1]
  <1>1. commands \in Seq(Commands \union {Disconnect}) /\ Len(commands) \in Nat
    BY DEF IInv, TypeOK
  <1>. QED  BY <1>1, TailElements, NumbersAssumption DEF IInv, TypeOK

LEMMA NextIds ==
    ASSUME IInv, commands # <<>>
    PROVE  nextId \in Nat /\ nextId + 1 \in Ids /\ nextId + 1 <= posted
  <1>1. Len(commands) \in Nat /\ Len(commands) # 0
    BY DEF IInv, TypeOK
  <1>. QED  BY <1>1, NumbersAssumption DEF IInv, Numbered, TypeOK, Ids

LEMMA BuildTypes == ASSUME IInv, NEW cmd, Build(cmd) PROVE seed' \in Cursors
  BY CursorTypes DEF Build, IInv, TypeOK

(* The request taken gets an id that nothing under way can carry. *)
LEMMA SendKeeps == ASSUME IInv, SendCommand, UNCHANGED transport PROVE IInv'
  <1>. DEFINE cmd == Head(commands)
              after == IF cmd.kind = "open" THEN Bracket(cmd.of) ELSE NotOpen
              p0 == [id |-> nextId, cmd |-> cmd]
              r0 == [id |-> nextId, cmd |-> cmd, after |-> after]
  <1>1. /\ commands # <<>> /\ commands' = Tail(commands) /\ cmd # Disconnect
        /\ nextId' = nextId + 1 /\ Build(cmd)
        /\ pending' = pending \cup {p0}
        /\ asked' = IF up THEN asked \cup {r0} ELSE asked
    BY DEF SendCommand, NextCommand, Build
  <1>2. /\ UNCHANGED <<events, outcome, applied, phase, outbox, state, cursors, attempt, waited,
                       toClient, up, position, ledger, answered, posted, drops>>
    BY DEF SendCommand
  <1>3. cmd \in Commands /\ cmd = commands[1] /\ 1 \in DOMAIN commands
    BY <1>1, CommandsTaken
  <1>4. nextId \in Ids /\ nextId \in Nat /\ nextId + 1 \in Ids /\ nextId + 1 <= posted
    BY <1>1, NextIds DEF IInv, TypeOK
  <1>5. /\ \A i \in DOMAIN commands' :
             i # 0 /\ i + 1 \in DOMAIN commands /\ commands'[i] = commands[i + 1]
        /\ Len(commands') \in Nat /\ Len(commands') + 1 = Len(commands)
        /\ commands' \in Seq(Commands \union {Disconnect}) /\ Len(commands') <= CmdCap
    BY <1>1, CommandsTaken
  <1>6. after \in 0..NotOpen
    <2>1. ASSUME cmd.kind = "open" PROVE cmd.of \in Sessions
      BY <1>3, <2>1, CommandType DEF IsCall
    <2>2. ASSUME cmd.kind = "open" PROVE Bracket(cmd.of) \in Cursors
      BY <2>1, <2>2, CursorTypes DEF Bracket, IInv, TypeOK
    <2>. QED  BY <2>2, CursorTypes
  <1>7. p0 \in Requests /\ r0 \in Asked
    BY <1>3, <1>4, <1>6 DEF Requests, Asked
  <1>. HIDE DEF cmd, after
  <1>8. IsCall(cmd) =>
          /\ outcome[cmd.of] = "waiting"
          /\ \A p \in pending : ~Same(cmd, p.cmd)
          /\ \A j \in DOMAIN commands : Same(cmd, commands[j]) => j = 1
    BY <1>3 DEF IInv, Requested, Queued
  <1>9. TypeOK'
    <2>1. TaskTypes'
      <3>1. seed' \in Cursors
        BY <1>1, BuildTypes
      <3>2. pending' \subseteq Requests
        BY <1>1, <1>7 DEF IInv, TypeOK
      <3>. QED  BY <1>1, <1>2, <1>4, <3>1, <3>2 DEF IInv, TypeOK, TaskTypes
    <2>2. ServerTypes'
      BY <1>1, <1>2, <1>7 DEF IInv, TypeOK, ServerTypes
    <2>3. AppTypes'
      BY <1>2, <1>5 DEF IInv, TypeOK, AppTypes
    <2>. QED  BY <1>2, <2>1, <2>2, <2>3, TypesStay, TypesNext DEF IInv
  <1>10. Responses' = Responses
    BY <1>2, SameResponses
  <1>11. \A f \in Responses : f.id < nextId /\ f.id \in Nat
    BY ResponseType DEF IInv, Requested, FreshIds, Responses, Ids
  <1>12. \A p \in pending : p.id < nextId /\ p.id \in Nat
    BY DEF IInv, TypeOK, Requested, FreshIds, Requests, Ids
  <1>13. Requested'
    <2>1. FreshIds'
      BY <1>1, <1>4, <1>10, <1>11, <1>12 DEF FreshIds
    <2>2. UniqueIds'
      BY <1>1, <1>4, <1>12 DEF UniqueIds, IInv, Requested
    <2>3. OneRequest'
      <3>1. \A p \in pending : ~Same(cmd, p.cmd) /\ ~Same(p.cmd, cmd)
        BY <1>8 DEF Same
      <3>. QED  BY <1>1, <3>1 DEF OneRequest, IInv, Requested, Same
    <2>4. Waiting'
      BY <1>1, <1>2, <1>8 DEF Waiting, IInv, Requested
    <2>5. Queued'
      <3>. SUFFICES ASSUME NEW i \in DOMAIN commands', IsCall(commands'[i])
                    PROVE  /\ outcome[commands'[i].of] = "waiting"
                           /\ \A p \in pending \cup {p0} : ~Same(commands'[i], p.cmd)
                           /\ \A j \in DOMAIN commands' : Same(commands'[i], commands'[j]) => i = j
        BY <1>1, <1>2 DEF Queued
      <3>1. i + 1 \in DOMAIN commands /\ commands'[i] = commands[i + 1] /\ i + 1 # 1
        <4>1. i \in Nat
          BY <1>5
        <4>. QED  BY <1>5, <4>1
      <3>2. /\ outcome[commands[i + 1].of] = "waiting"
            /\ \A p \in pending : ~Same(commands[i + 1], p.cmd)
            /\ \A j \in DOMAIN commands : Same(commands[i + 1], commands[j]) => i + 1 = j
        BY <3>1 DEF IInv, Requested, Queued
      <3>3. ~Same(commands[i + 1], cmd)
        BY <1>3, <3>1, <3>2
      <3>4. ASSUME NEW j \in DOMAIN commands', Same(commands'[i], commands'[j]) PROVE i = j
        <4>1. j \in Nat /\ i \in Nat /\ j + 1 \in DOMAIN commands /\ commands'[j] = commands[j + 1]
          BY <1>5
        <4>. QED  BY <3>1, <3>2, <3>4, <4>1
      <3>. QED  BY <3>1, <3>2, <3>3, <3>4
    <2>. QED  BY <2>1, <2>2, <2>3, <2>4, <2>5 DEF Requested
  <1>14. Replied'
    <2>1. Tracked'
      <3>1. \A r \in asked' : r \in asked \/ r = r0
        BY <1>1
      <3>2. [id |-> r0.id, cmd |-> r0.cmd] = p0
        OBVIOUS
      <3>3. \A r \in asked : [id |-> r.id, cmd |-> r.cmd] \in pending
        BY DEF IInv, Replied, Tracked
      <3>5. \A r \in asked : r.id # nextId
        <4>. SUFFICES ASSUME NEW r \in asked PROVE r.id < nextId
          BY <1>4
        <4>1. PICK p \in pending : p = [id |-> r.id, cmd |-> r.cmd]
          BY <3>3
        <4>2. p.id = r.id
          BY <4>1
        <4>. QED  BY <1>12, <4>2
      <3>6. r0.id = nextId
        OBVIOUS
      <3>. HIDE DEF p0, r0
      <3>7. \A r, q \in asked' : r.id = q.id => r = q
        BY <3>1, <3>5, <3>6 DEF IInv, Replied, Tracked
      <3>4. \A r \in asked' : [id |-> r.id, cmd |-> r.cmd] \in pending'
        BY <1>1, <3>1, <3>2, <3>3
      <3>. QED  BY <3>4, <3>7 DEF Tracked
    <2>2. Unanswered'
      BY <1>1, <1>4, <1>10, <1>11 DEF Unanswered, IInv, Replied
    <2>3. Truthful' /\ Followed'
      BY <1>1, <1>2, <1>4, <1>10, <1>11 DEF Truthful, Followed, IInv, Replied
    <2>. QED  BY <2>1, <2>2, <2>3 DEF Replied
  <1>15. Numbered'
    BY <1>1, <1>2, <1>4, <1>5 DEF IInv, Numbered, TypeOK, Ids
  <1>16. Offline'
    <2>1. phase = "connected"
      BY DEF SendCommand, NextCommand, At
    <2>. QED  BY <1>2, <2>1 DEF Offline
  <1>17. RepliesMatch' /\ LiveMeansOpened'
    BY <1>2 DEF IInv, RepliesMatch, LiveMeansOpened
  <1>. QED  BY <1>9, <1>13, <1>14, <1>15, <1>16, <1>17 DEF IInv

LEMMA SendFailsKeeps ==
    ASSUME IInv, NEW d \in Delays, SendFails(d), UNCHANGED transport
    PROVE  IInv'
  <1>. DEFINE cmd == Head(commands)
  <1>1. /\ commands # <<>> /\ Build(cmd) /\ nextId' = nextId + 1
        /\ IF Ws THEN Reconnect(d) ELSE Fail
        /\ UNCHANGED <<posted, drops>>
        /\ phase' # "closed" =>
             /\ commands' = Tail(commands)
             /\ outcome' = [k \in Calls |-> IF IsCall(cmd) /\ cmd.of = k
                                            THEN "dropped" ELSE outcome[k]]
    BY DEF SendFails, NextCommand, Build, IsCall
  <1>2. nextId \in Nat /\ nextId + 1 \in Ids /\ nextId + 1 <= posted /\ seed' \in Cursors
    BY <1>1, NextIds, BuildTypes
  <1>3. CASE Ws /\ ~(waited + d > Budget)
    <2>1. phase' = "backoff" /\ NoConnection /\ UNCHANGED <<pending, events, applied>>
      BY <1>1, <1>3 DEF Reconnect
    <2>2. /\ commands' = Tail(commands)
          /\ \A k \in Calls : outcome'[k] = IF IsCall(cmd) /\ cmd.of = k
                                            THEN "dropped" ELSE outcome[k]
          /\ outcome' \in [Calls -> {"unused", "waiting", "ok", "err", "dropped"}]
      BY <1>1, <2>1 DEF IInv, TypeOK
    <2>3. /\ \A i \in DOMAIN commands' :
               i \in Nat /\ i # 0 /\ i + 1 \in DOMAIN commands /\ commands'[i] = commands[i + 1]
          /\ Len(commands') \in Nat /\ Len(commands') + 1 = Len(commands)
          /\ commands' \in Seq(Commands \union {Disconnect}) /\ Len(commands') <= CmdCap
          /\ cmd = commands[1] /\ 1 \in DOMAIN commands
      BY <1>1, <2>2, CommandsTaken
    <2>. HIDE DEF cmd
    <2>4. AppTypes'
      BY <2>1, <2>2, <2>3 DEF IInv, TypeOK, AppTypes
    <2>5. Numbered'
      BY <1>1, <1>2, <2>3 DEF IInv, Numbered, TypeOK, Ids
    <2>6. FreshIds' /\ UniqueIds' /\ OneRequest'
      BY <1>1, <1>2, <2>1, NoResponses
      DEF NoConnection, IInv, TypeOK, Requests, Ids, Requested, FreshIds, UniqueIds, OneRequest
    <2>7. Waiting'
      <3>. SUFFICES ASSUME NEW p \in pending, IsCall(p.cmd) PROVE outcome'[p.cmd.of] = "waiting"
        BY <2>1 DEF Waiting
      <3>1. p.cmd.of \in Calls /\ outcome[p.cmd.of] = "waiting"
        BY CommandType DEF IInv, TypeOK, Requests, Requested, Waiting
      <3>2. ~Same(cmd, p.cmd)
        BY <2>3 DEF IInv, Requested, Queued, Same
      <3>. QED  BY <2>2, <3>1, <3>2 DEF Same
    <2>8. Queued'
      <3>. SUFFICES ASSUME NEW i \in DOMAIN commands', IsCall(commands'[i])
                    PROVE  /\ outcome'[commands'[i].of] = "waiting"
                           /\ \A p \in pending : ~Same(commands'[i], p.cmd)
                           /\ \A j \in DOMAIN commands' : Same(commands'[i], commands'[j]) => i = j
        BY <2>1 DEF Queued
      <3>1. i + 1 \in DOMAIN commands /\ commands'[i] = commands[i + 1] /\ i + 1 # 1
        BY <2>3
      <3>2. /\ outcome[commands[i + 1].of] = "waiting"
            /\ \A p \in pending : ~Same(commands[i + 1], p.cmd)
            /\ \A j \in DOMAIN commands : Same(commands[i + 1], commands[j]) => i + 1 = j
        BY <3>1 DEF IInv, Requested, Queued
      <3>3. commands[i + 1].of \in Calls
        BY <3>1, CommandType DEF IInv, TypeOK, Disconnect, IsCall
      <3>4. ~(IsCall(cmd) /\ cmd.of = commands[i + 1].of)
        BY <2>3, <3>1, <3>2 DEF Same
      <3>5. ASSUME NEW j \in DOMAIN commands', Same(commands'[i], commands'[j]) PROVE i = j
        <4>1. j \in Nat /\ i \in Nat /\ j + 1 \in DOMAIN commands /\ commands'[j] = commands[j + 1]
          BY <2>3
        <4>. QED  BY <3>1, <3>2, <3>5, <4>1
      <3>. QED  BY <2>2, <3>1, <3>2, <3>3, <3>4, <3>5
    <2>9. \A k \in Calls : outcome'[k] \in {"ok", "err"} => outcome'[k] = outcome[k]
      BY <2>2
    <2>10. Requested'
      BY <2>6, <2>7, <2>8 DEF Requested
    <2>. QED  BY <1>1, <1>2, <1>3, <2>4, <2>5, <2>9, <2>10, ReconnectKeeps
  <1>4. CASE ~(Ws /\ ~(waited + d > Budget))
    <2>1. Fail
      BY <1>1, <1>4 DEF Reconnect
    <2>. QED  BY <1>1, <1>2, <2>1, FailKeeps
  <1>. QED  BY <1>3, <1>4

LEMMA DisconnectKeeps == ASSUME IInv, TakeDisconnect, UNCHANGED transport PROVE IInv'
  <1>1. commands # <<>> /\ nextId' = nextId + 1 /\ Close(<<>>) /\ UNCHANGED <<seed, posted, drops>>
    BY DEF TakeDisconnect
  <1>2. <<>> \in Seq(Events) /\ seed' \in Cursors
    BY <1>1 DEF IInv, TypeOK
  <1>3. nextId' \in Nat /\ nextId' <= posted
    BY <1>1, NextIds
  <1>. QED  BY <1>1, <1>2, <1>3, CloseKeeps

-----------------------------------------------------------------------------
(*                            Inbound frames                               *)

LEMMA FrameTaken ==
    ASSUME IInv, NEW kind, NextFrame(kind)
    PROVE  /\ Head(toClient) \in Frames /\ Head(toClient).kind = kind
           /\ toClient' \in Seq(Frames) /\ Responses' \subseteq Responses
           /\ kind = "response" => Head(toClient) \in Responses
  <1>1. toClient # <<>> /\ toClient' = Tail(toClient) /\ Head(toClient).kind = kind
    BY DEF NextFrame
  <1>2. Head(toClient) \in Frames /\ Head(toClient) = toClient[1] /\ 1 \in DOMAIN toClient
    BY <1>1, TailElements DEF IInv, TypeOK
  <1>. QED  BY <1>1, <1>2, ResponsesTaken DEF Responses, IsResponse

LEMMA ReportTypes ==
    ASSUME NEW p \in Requests, NEW answer PROVE Report(p, answer) \in Seq(Events)
  <1>1. p.id \in Ids /\ p.cmd \in Commands
    BY DEF Requests
  <1>2. [kind |-> "error", id |-> p.id] \in Events
    BY <1>1 DEF Events
  <1>3. ASSUME p.cmd.kind # "call"
        PROVE  /\ [kind |-> "capability", session |-> p.cmd.of] \in Events
               /\ [kind |-> "opened", session |-> p.cmd.of] \in Events
               /\ [kind |-> "result", session |-> p.cmd.of] \in Events
    BY <1>1, <1>3, CommandType DEF Events, IsCall
  <1>4. State("Live") \in Events
    BY StateEvent DEF ConnectionStates
  <1>5. CASE answer = "ok" /\ p.cmd.kind = "open"
    <2>1. Report(p, answer) =
            <<[kind |-> "capability", session |-> p.cmd.of],
              [kind |-> "opened", session |-> p.cmd.of]>>
            \o (IF state = "Live" THEN <<>> ELSE <<State("Live")>>)
      BY <1>5 DEF Report
    <2>2. <<[kind |-> "capability", session |-> p.cmd.of],
            [kind |-> "opened", session |-> p.cmd.of]>> \in Seq(Events)
      BY <1>3, <1>5
    <2>3. (IF state = "Live" THEN <<>> ELSE <<State("Live")>>) \in Seq(Events)
      BY <1>4
    <2>. QED  BY <2>1, <2>2, <2>3, ConcatProperties
  <1>6. CASE ~(answer = "ok" /\ p.cmd.kind = "open")
    <2>1. CASE answer = "err"
      BY <1>2, <2>1 DEF Report
    <2>2. CASE answer = "ok" /\ p.cmd.kind = "other"
      BY <1>3, <2>2 DEF Report
    <2>3. CASE answer # "err" /\ ~(answer = "ok" /\ p.cmd.kind = "other")
      BY <1>6, <2>3 DEF Report
    <2>. QED  BY <2>1, <2>2, <2>3
  <1>. QED  BY <1>5, <1>6

(* A matched response is the server's answer to the call that waits for it, *)
(* and a session opened on this connection.                                *)
LEMMA ResponseKeeps == ASSUME IInv, HandleResponse, UNCHANGED transport PROVE IInv'
  <1>. DEFINE f == Head(toClient)
  <1>1. /\ f \in Frames /\ toClient' \in Seq(Frames) /\ Responses' \subseteq Responses
        /\ f \in Responses /\ f.id \in Ids /\ f.answer \in Answers
    BY FrameTaken, ResponseType DEF HandleResponse, Responses
  <1>2. /\ UNCHANGED <<commands, events, applied, phase, nextId, cursors, seed, attempt, waited,
                       asked, up, position, ledger, answered, posted, drops>>
        /\ phase = "connected"
    BY DEF HandleResponse, NextFrame, At
  <1>3. ServerTypes' /\ OtherTypes'
    BY <1>1, <1>2 DEF ServerTypes, OtherTypes, IInv, TypeOK
  <1>4. Numbered' /\ Offline'
    BY <1>2 DEF IInv, Numbered, Offline
  <1>5. CASE Matching(f.id) = {}
    <2>1. UNCHANGED <<pending, outbox, state, outcome>>
      BY <1>5 DEF HandleResponse
    <2>2. AppTypes' /\ TaskTypes'
      BY <1>2, <2>1 DEF AppTypes, TaskTypes, IInv, TypeOK
    <2>3. Requested' /\ Replied'
      BY <1>1, <1>2, <2>1, RequestedStays, RepliedStays
    <2>4. RepliesMatch' /\ LiveMeansOpened'
      BY <1>2, <2>1 DEF IInv, RepliesMatch, LiveMeansOpened
    <2>. QED  BY <1>3, <1>4, <2>2, <2>3, <2>4, TypesNext DEF IInv
  <1>6. CASE Matching(f.id) # {}
    <2>1. PICK p \in Matching(f.id) :
            /\ pending' = pending \ {p}
            /\ outbox' = Report(p, f.answer)
            /\ state' = IF IsOpen(p.cmd) /\ f.answer = "ok" THEN "Live" ELSE state
            /\ outcome' = IF ~IsCall(p.cmd) THEN outcome
                          ELSE [outcome EXCEPT ![p.cmd.of] =
                                  IF f.answer = "ok" THEN "ok" ELSE "err"]
      <3>. DEFINE p == CHOOSE q \in Matching(f.id) : TRUE
      <3>1. p \in Matching(f.id)
        BY <1>6
      <3>. QED  BY <1>6, <3>1 DEF HandleResponse, IsOpen, IsCall
    <2>2. /\ p \in pending /\ p.id = f.id /\ p \in Requests
          /\ p.cmd \in Commands /\ (IsCall(p.cmd) => p.cmd.of \in Calls)
      BY CommandType DEF Matching, IInv, TypeOK, Requests
    <2>. HIDE DEF f
    <2>3. AppTypes'
      <3>1. outcome' \in [Calls -> {"unused", "waiting", "ok", "err", "dropped"}]
        BY <2>1 DEF IInv, TypeOK
      <3>. QED  BY <1>2, <3>1 DEF AppTypes, IInv, TypeOK
    <2>4. TaskTypes'
      <3>1. outbox' \in Seq(Events)
        BY <2>1, <2>2, ReportTypes
      <3>2. state' \in {"Handshaking", "Live"} /\ pending' \subseteq Requests
        BY <2>1 DEF IInv, TypeOK
      <3>. QED  BY <1>2, <3>1, <3>2 DEF TaskTypes, IInv, TypeOK
    <2>5. \A k \in Calls : outcome'[k] = IF IsCall(p.cmd) /\ p.cmd.of = k
                                         THEN IF f.answer = "ok" THEN "ok" ELSE "err"
                                         ELSE outcome[k]
      BY <2>1, <2>2 DEF IInv, TypeOK
    <2>6. Requested'
      <3>1. FreshIds' /\ UniqueIds' /\ OneRequest'
        BY <1>1, <1>2, <2>1 DEF IInv, Requested, FreshIds, UniqueIds, OneRequest
      <3>2. Waiting'
        <4>. SUFFICES ASSUME NEW q \in pending, q # p, IsCall(q.cmd) PROVE outcome'[q.cmd.of] = "waiting"
          BY <2>1 DEF Waiting
        <4>1. q.cmd.of \in Calls /\ outcome[q.cmd.of] = "waiting"
          BY CommandType DEF IInv, TypeOK, Requests, Requested, Waiting
        <4>2. ~Same(p.cmd, q.cmd)
          BY <2>2 DEF IInv, Requested, OneRequest
        <4>. QED  BY <2>5, <4>1, <4>2 DEF Same
      <3>3. Queued'
        <4>. SUFFICES ASSUME NEW i \in DOMAIN commands, IsCall(commands[i])
                      PROVE  /\ outcome'[commands[i].of] = "waiting"
                             /\ \A q \in pending : ~Same(commands[i], q.cmd)
                             /\ \A j \in DOMAIN commands : Same(commands[i], commands[j]) => i = j
          BY <1>2, <2>1 DEF Queued
        <4>1. /\ outcome[commands[i].of] = "waiting"
              /\ \A q \in pending : ~Same(commands[i], q.cmd)
              /\ \A j \in DOMAIN commands : Same(commands[i], commands[j]) => i = j
          BY DEF IInv, Requested, Queued
        <4>2. commands[i].of \in Calls
          BY CommandType DEF IInv, TypeOK, Disconnect, IsCall
        <4>3. ~(IsCall(p.cmd) /\ p.cmd.of = commands[i].of)
          BY <2>2, <4>1 DEF Same
        <4>. QED  BY <2>5, <4>1, <4>2, <4>3
      <3>. QED  BY <3>1, <3>2, <3>3 DEF Requested
    <2>7. Replied'
      <3>1. \A r \in asked : [id |-> r.id, cmd |-> r.cmd] # p
        <4>1. \A r \in asked : r.id # p.id
          BY <1>1, <2>2 DEF IInv, Replied, Unanswered
        <4>. QED  BY <4>1
      <3>2. Tracked'
        BY <1>2, <2>1, <3>1 DEF IInv, Replied, Tracked
      <3>. QED
        BY <1>1, <1>2, <2>1, <3>2 DEF IInv, Replied, Unanswered, Truthful, Followed
    <2>8. RepliesMatch'
      <3>1. IsCall(p.cmd) => answered[p.cmd.of] = f.answer
        BY <1>1, <2>2 DEF IInv, Replied, Truthful
      <3>. QED  BY <1>1, <1>2, <2>5, <3>1 DEF IInv, RepliesMatch, Answers
    <2>9. LiveMeansOpened'
      BY <1>1, <1>2, <2>1, <2>2 DEF IInv, Replied, Followed, LiveMeansOpened
    <2>. QED  BY <1>3, <1>4, <2>3, <2>4, <2>6, <2>7, <2>8, <2>9, TypesNext DEF IInv
  <1>. QED  BY <1>5, <1>6

LEMMA NotificationKeeps ==
    ASSUME IInv, HandleDurable \/ HandleDelta, UNCHANGED transport
    PROVE  IInv'
  <1>. DEFINE f == Head(toClient)
  <1>1. PICK kind \in {"durable", "delta"} :
          /\ NextFrame(kind) /\ outbox' = <<f>>
          /\ cursors' \in [Sessions -> Cursors]
          /\ UNCHANGED <<app, phase, state, nextId, pending, seed, attempt, waited,
                         asked, up, position, ledger, answered, posted, drops>>
    <2>1. CASE HandleDurable
      <3>1. NextFrame("durable")
        BY <2>1 DEF HandleDurable
      <3>2. f \in Frames /\ f.kind = "durable"
        BY <3>1, FrameTaken
      <3>3. f.cursor \in Cursors
        BY <3>2 DEF Frames
      <3>4. cursors' \in [Sessions -> Cursors]
        BY <2>1, <3>3 DEF HandleDurable, IInv, TypeOK
      <3>. QED  BY <2>1, <3>1, <3>4 DEF HandleDurable
    <2>2. CASE HandleDelta
      BY <2>2 DEF HandleDelta, IInv, TypeOK
    <2>. QED  BY <2>1, <2>2
  <1>2. f \in Frames /\ f.kind = kind /\ toClient' \in Seq(Frames) /\ Responses' \subseteq Responses
    BY <1>1, FrameTaken
  <1>3. f \in Events
    BY <1>1, <1>2 DEF Frames, Events
  <1>. HIDE DEF f
  <1>4. TypeOK'
    <2>1. TaskTypes'
      BY <1>1, <1>3 DEF TaskTypes, IInv, TypeOK
    <2>2. ServerTypes' /\ OtherTypes'
      BY <1>1, <1>2 DEF ServerTypes, OtherTypes, IInv, TypeOK
    <2>. QED  BY <1>1, <2>1, <2>2, TypesStay, TypesNext DEF IInv
  <1>5. phase = "connected"
    BY <1>1 DEF NextFrame, At
  <1>6. Requested' /\ Replied'
    BY <1>1, <1>2, RequestedStays, RepliedStays DEF app
  <1>7. Numbered' /\ Offline' /\ RepliesMatch' /\ LiveMeansOpened'
    BY <1>1, <1>5 DEF app, IInv, Numbered, Offline, RepliesMatch, LiveMeansOpened
  <1>. QED  BY <1>4, <1>6, <1>7 DEF IInv

-----------------------------------------------------------------------------
(*                       The server and the network                        *)

LEMMA AnswerKeeps ==
    ASSUME IInv, NEW r \in asked, NEW answer \in Answers, Answer(r, answer), UNCHANGED transport
    PROVE  IInv'
  <1>. DEFINE f == [kind |-> "response", id |-> r.id, answer |-> answer]
              p == [id |-> r.id, cmd |-> r.cmd]
  <1>1. /\ up /\ toClient' = Append(toClient, f) /\ asked' = asked \ {r}
        /\ IsOpen(r.cmd) /\ r.after > ledger[r.cmd.of] => answer = "err"
        /\ position' = IF IsOpen(r.cmd) /\ answer # "err"
                       THEN [position EXCEPT ![r.cmd.of] =
                               IF r.after = 0 THEN ledger[r.cmd.of] ELSE r.after]
                       ELSE position
        /\ answered' = IF IsCall(r.cmd)
                       THEN [answered EXCEPT ![r.cmd.of] = answer] ELSE answered
        /\ UNCHANGED <<app, task, up, ledger, posted, drops>>
    BY DEF Answer, Deliver, IsOpen, IsCall
  <1>2. /\ r \in Asked /\ r.id \in Ids /\ r.cmd \in Commands /\ r.after \in 0..NotOpen
        /\ (IsCall(r.cmd) => r.cmd.of \in Calls) /\ (~IsCall(r.cmd) => r.cmd.of \in Sessions)
    BY CommandType DEF IInv, TypeOK, Asked
  <1>3. f \in Frames /\ IsResponse(f) /\ f.id = r.id /\ f.answer = answer
    BY <1>2 DEF Frames, IsResponse
  <1>4. p \in pending /\ p.id = r.id /\ p.cmd = r.cmd
    BY DEF IInv, Replied, Tracked
  <1>5. /\ UNCHANGED <<commands, outcome, phase, state, nextId, pending, up, posted>>
    BY <1>1 DEF app, task
  <1>. HIDE DEF f, p
  <1>6. /\ toClient' \in Seq(Frames)
        /\ \A g \in Responses' : g \in Responses \/ g = f
    BY <1>1, <1>3, ResponsesDelivered
  <1>7. \A s \in Sessions : position[s] # NotOpen => position'[s] # NotOpen
    <2>1. CASE IsOpen(r.cmd) /\ answer # "err"
      <3>1. r.cmd.of \in Sessions
        BY <1>2, <2>1 DEF IsOpen, IsCall
      <3>2. ledger[r.cmd.of] \in Cursors /\ ~(r.after > ledger[r.cmd.of])
        BY <1>1, <2>1, <3>1 DEF IInv, TypeOK
      <3>3. r.after # NotOpen
        BY <1>2, <3>2, NumbersAssumption DEF Cursors, NotOpen
      <3>. QED  BY <1>1, <2>1, <3>1, <3>2, <3>3, CursorTypes DEF IInv, TypeOK
    <2>2. CASE ~(IsOpen(r.cmd) /\ answer # "err")
      BY <1>1, <2>2
    <2>. QED  BY <2>1, <2>2
  <1>8. IsOpen(r.cmd) /\ answer = "ok" => \E s \in Sessions : position'[s] # NotOpen
    <2>. SUFFICES ASSUME IsOpen(r.cmd), answer = "ok" PROVE position'[r.cmd.of] # NotOpen /\ r.cmd.of \in Sessions
      OBVIOUS
    <2>1. r.cmd.of \in Sessions
      BY <1>2 DEF IsOpen, IsCall
    <2>2. ledger[r.cmd.of] \in Cursors /\ ~(r.after > ledger[r.cmd.of])
      BY <1>1, <2>1 DEF IInv, TypeOK
    <2>3. r.after # NotOpen
      BY <1>2, <2>2, NumbersAssumption DEF Cursors, NotOpen
    <2>. QED  BY <1>1, <2>1, <2>2, <2>3, CursorTypes DEF IInv, TypeOK
  <1>9. TypeOK'
    <2>1. position' \in [Sessions -> 0..NotOpen]
      <3>1. CASE IsOpen(r.cmd) /\ answer # "err"
        <4>1. r.cmd.of \in Sessions
          BY <1>2, <3>1 DEF IsOpen, IsCall
        <4>2. ledger[r.cmd.of] \in 0..NotOpen
          BY <4>1, CursorTypes DEF IInv, TypeOK
        <4>. QED  BY <1>1, <1>2, <3>1, <4>1, <4>2 DEF IInv, TypeOK
      <3>2. CASE ~(IsOpen(r.cmd) /\ answer # "err")
        BY <1>1, <3>2 DEF IInv, TypeOK
      <3>. QED  BY <3>1, <3>2
    <2>2. answered' \in [Calls -> Answers \union {"none"}]
      BY <1>1, <1>2 DEF IInv, TypeOK
    <2>3. ServerTypes'
      BY <1>1, <1>6, <2>1, <2>2 DEF ServerTypes, IInv, TypeOK
    <2>. QED  BY <1>1, <2>3, TypesStay, TypesNext DEF IInv
  <1>10. Requested'
    <2>1. FreshIds'
      BY <1>3, <1>4, <1>5, <1>6 DEF IInv, Requested, FreshIds
    <2>2. UniqueIds' /\ OneRequest' /\ Waiting' /\ Queued'
      BY <1>5 DEF IInv, Requested, UniqueIds, OneRequest, Waiting, Queued
    <2>. QED  BY <2>1, <2>2 DEF Requested
  <1>11. Replied'
    <2>1. Tracked'
      BY <1>1, <1>5 DEF IInv, Replied, Tracked
    <2>2. Unanswered'
      BY <1>1, <1>3, <1>6 DEF IInv, Replied, Tracked, Unanswered
    <2>3. Truthful'
      <3>. SUFFICES ASSUME NEW q \in pending, NEW g \in Responses', q.id = g.id, IsCall(q.cmd)
                    PROVE  answered'[q.cmd.of] = g.answer
        BY <1>5 DEF Truthful
      <3>1. q.cmd.of \in Calls
        BY CommandType DEF IInv, TypeOK, Requests
      <3>2. CASE q = p
        <4>1. g \notin Responses
          BY <1>4, <3>2 DEF IInv, Replied, Unanswered
        <4>2. g = f
          BY <1>6, <4>1
        <4>. QED  BY <1>1, <1>2, <1>3, <1>4, <3>1, <3>2, <4>2 DEF IInv, TypeOK
      <3>3. CASE q # p
        <4>1. q.id # r.id /\ ~Same(q.cmd, r.cmd)
          BY <1>4, <3>3 DEF IInv, Requested, UniqueIds, OneRequest
        <4>2. g \in Responses
          BY <1>3, <1>6, <4>1
        <4>3. answered[q.cmd.of] = g.answer
          BY <4>2 DEF IInv, Replied, Truthful
        <4>. QED  BY <1>1, <1>2, <3>1, <4>1, <4>3 DEF Same, IInv, TypeOK
      <3>. QED  BY <3>2, <3>3
    <2>4. Followed'
      <3>. SUFFICES ASSUME NEW q \in pending, NEW g \in Responses', q.id = g.id, IsOpen(q.cmd),
                           g.answer = "ok"
                    PROVE  \E s \in Sessions : position'[s] # NotOpen
        BY <1>5 DEF Followed
      <3>1. CASE g \in Responses
        BY <1>1, <1>7, <3>1 DEF IInv, Replied, Followed
      <3>2. CASE g = f
        <4>1. q = p
          BY <1>3, <1>4, <3>2 DEF IInv, Requested, UniqueIds
        <4>. QED  BY <1>3, <1>4, <1>8, <3>2, <4>1
      <3>. QED  BY <1>6, <3>1, <3>2
    <2>. QED  BY <2>1, <2>2, <2>3, <2>4 DEF Replied
  <1>12. RepliesMatch'
    <2>1. IsCall(r.cmd) => outcome[r.cmd.of] = "waiting"
      BY <1>4 DEF IInv, Requested, Waiting
    <2>. QED  BY <1>1, <1>2, <1>5, <2>1 DEF IInv, RepliesMatch, TypeOK
  <1>13. LiveMeansOpened' /\ Numbered' /\ Offline'
    BY <1>1, <1>5, <1>7 DEF IInv, LiveMeansOpened, Numbered, Offline
  <1>. QED  BY <1>9, <1>10, <1>11, <1>12, <1>13 DEF IInv

LEMMA PublishKeeps ==
    ASSUME IInv, NEW s \in Sessions, Publish(s), UNCHANGED transport
    PROVE  IInv'
  <1>1. ledger' \in [Sessions -> Cursors]
    BY NumbersAssumption DEF Publish, IInv, TypeOK, Cursors
  <1>2. ServerTypes'
    BY <1>1 DEF Publish, ServerTypes, IInv, TypeOK
  <1>. QED
    BY <1>2, TypesStay, TypesNext, Quiet DEF Publish, IInv, app, task

(* Frames that are no responses, of sessions that stay followed. *)
LEMMA SentKeeps ==
    ASSUME IInv, NEW f \in Frames, ~IsResponse(f), toClient' = Append(toClient, f), up,
           position' \in [Sessions -> 0..NotOpen],
           \A s \in Sessions : position[s] # NotOpen => position'[s] # NotOpen,
           UNCHANGED <<app, task, asked, up, ledger, answered, posted, drops, transport>>
    PROVE  IInv'
  <1>1. toClient' \in Seq(Frames) /\ Responses' \subseteq Responses
    BY ResponsesDelivered
  <1>2. ServerTypes'
    BY <1>1 DEF ServerTypes, IInv, TypeOK
  <1>3. TypeOK'
    BY <1>2, TypesStay, TypesNext DEF IInv
  <1>4. Requested'
    BY <1>1, RequestedStays DEF app, task
  <1>5. Replied'
    BY <1>1 DEF task, IInv, Replied, Tracked, Unanswered, Truthful, Followed
  <1>6. Numbered' /\ Offline' /\ RepliesMatch' /\ LiveMeansOpened'
    BY DEF app, task, IInv, Numbered, Offline, RepliesMatch, LiveMeansOpened
  <1>. QED  BY <1>3, <1>4, <1>5, <1>6 DEF IInv

LEMMA NotifyKeeps ==
    ASSUME IInv, NEW s \in Sessions, Notify(s), UNCHANGED transport
    PROVE  IInv'
  <1>. DEFINE f == [kind |-> "durable", session |-> s, cursor |-> position[s] + 1]
  <1>1. position[s] \in Nat /\ position[s] + 1 \in Cursors
    BY NumbersAssumption DEF Notify, IInv, TypeOK, Cursors, NotOpen
  <1>2. f \in Frames /\ ~IsResponse(f)
    BY <1>1 DEF Frames, IsResponse
  <1>3. toClient' = Append(toClient, f)
    BY DEF Notify, Deliver
  <1>. HIDE DEF f
  <1>4. /\ position' = [position EXCEPT ![s] = position[s] + 1]
        /\ up /\ UNCHANGED <<app, task, asked, up, ledger, answered, posted, drops>>
    BY DEF Notify
  <1>5. /\ position' \in [Sessions -> 0..NotOpen]
        /\ \A x \in Sessions : position[x] # NotOpen => position'[x] # NotOpen
    BY <1>1, <1>4, CursorTypes DEF IInv, TypeOK
  <1>. QED  BY <1>2, <1>3, <1>4, <1>5, SentKeeps

LEMMA NotifyDeltaKeeps == ASSUME IInv, NotifyDelta, UNCHANGED transport PROVE IInv'
  <1>. DEFINE f == [kind |-> "delta"]
  <1>1. f \in Frames /\ ~IsResponse(f)
    BY DEF Frames, IsResponse
  <1>2. toClient' = Append(toClient, f) /\ position' = position /\ up
        /\ UNCHANGED <<app, task, asked, up, ledger, answered, posted, drops>>
    BY DEF NotifyDelta, Deliver
  <1>3. position' \in [Sessions -> 0..NotOpen]
    BY <1>2 DEF IInv, TypeOK
  <1>. HIDE DEF f
  <1>. QED  BY <1>1, <1>2, <1>3, SentKeeps

LEMMA BreakKeeps == ASSUME IInv, Break, UNCHANGED transport PROVE IInv'
  <1>1. PICK n \in 0..Len(toClient) : toClient' = SubSeq(toClient, 1, n)
    BY DEF Break
  <1>2. toClient' \in Seq(Frames) /\ Responses' \subseteq Responses
    BY <1>1, ResponsesCut
  <1>3. /\ drops' = drops + 1 /\ drops < MaxDrops /\ up /\ up' = FALSE /\ asked' = {}
        /\ position' = [s \in Sessions |-> NotOpen]
        /\ UNCHANGED <<app, task, ledger, answered, posted>>
    BY DEF Break
  <1>4. TypeOK'
    <2>1. up' \in BOOLEAN
      BY <1>3, Zenon
    <2>2. position' \in [Sessions -> 0..NotOpen]
      BY <1>3, CursorTypes
    <2>3. ServerTypes'
      BY <1>2, <1>3, <2>1, <2>2 DEF ServerTypes, IInv, TypeOK
    <2>4. OtherTypes'
      BY <1>3, NumbersAssumption DEF OtherTypes, IInv, TypeOK
    <2>. QED  BY <1>3, <2>3, <2>4, TypesStay, TypesNext DEF IInv
  <1>5. Requested'
    BY <1>2, <1>3, RequestedStays DEF app, task
  <1>6. Replied'
    BY <1>2, <1>3 DEF task, IInv, Replied, Tracked, Unanswered, Truthful, Followed
  <1>7. Offline'
    BY <1>3 DEF task, IInv, Offline
  <1>8. Numbered' /\ RepliesMatch' /\ LiveMeansOpened'
    BY <1>3 DEF app, task, IInv, Numbered, RepliesMatch, LiveMeansOpened
  <1>. QED  BY <1>4, <1>5, <1>6, <1>7, <1>8 DEF IInv

-----------------------------------------------------------------------------
(*                             The theorems                                *)

LEMMA Initially == Init => IInv
  <1>. SUFFICES ASSUME Init PROVE IInv
    OBVIOUS
  <1>1. outbox \in Seq(Events)
    BY StateEvent DEF Init, ConnectionStates
  <1>2. up \in BOOLEAN
    BY Zenon DEF Init
  <1>3. /\ applied \in [Sessions -> Cursors] /\ cursors \in [Sessions -> Cursors]
        /\ ledger \in [Sessions -> Cursors] /\ position \in [Sessions -> 0..NotOpen]
    BY CursorTypes DEF Init
  <1>4. TypeOK
    <2>1. AppTypes
      <3>1. Len(<<>>) <= CmdCap /\ Len(<<>>) <= EvtCap
        BY NumbersAssumption
      <3>. QED  BY <1>3, <3>1 DEF Init, AppTypes
    <2>2. TaskTypes
      BY <1>1, <1>3, NumbersAssumption DEF Init, TaskTypes, Ids, Cursors
    <2>3. ServerTypes
      BY <1>2, <1>3 DEF Init, ServerTypes
    <2>4. OtherTypes
      BY NumbersAssumption DEF Init, OtherTypes, Ids
    <2>. QED  BY <2>1, <2>2, <2>3, <2>4, Types
  <1>5. Responses = {}
    BY DEF Init, Responses
  <1>6. Requested /\ Replied
    BY <1>5 DEF Init, Requested, FreshIds, UniqueIds, OneRequest, Waiting, Queued,
                Replied, Tracked, Unanswered, Truthful, Followed
  <1>7. Numbered
    <2>1. Len(<<>>) = 0
      OBVIOUS
    <2>. QED  BY <2>1 DEF Init, Numbered
  <1>8. Offline /\ RepliesMatch /\ LiveMeansOpened
    BY DEF Init, Offline, RepliesMatch, LiveMeansOpened
  <1>. QED  BY <1>4, <1>6, <1>7, <1>8 DEF IInv

LEMMA Inductive == IInv /\ [Next]_vars => IInv'
  <1>. SUFFICES ASSUME IInv, [Next]_vars PROVE IInv'
    OBVIOUS
  <1>1. CASE UNCHANGED vars
    <2>1. UNCHANGED <<app, task, server, posted, drops, transport>>
      BY <1>1 DEF vars, moving
    <2>2. TypeOK'
      BY <2>1, TypesStay, TypesNext DEF IInv
    <2>. QED  BY <2>1, <2>2, Quiet DEF app, task, server
  <1>2. CASE Next
    <2>1. UNCHANGED transport
      BY <1>2 DEF Next
    <2>2. ASSUME NEW cmd \in Commands \union {Disconnect}, Post(cmd) PROVE IInv'
      BY <2>1, <2>2, PostKeeps
    <2>3. ASSUME Consume \/ Emit \/ Dial \/ Wake PROVE IInv'
      BY <2>1, <2>3, ConsumeKeeps, EmitKeeps, DialKeeps, WakeKeeps
    <2>4. ASSUME DialEnds PROVE IInv'
      <3>1. ASSUME NEW d \in Delays, DialFails(d) PROVE IInv'
        BY <2>1, <3>1, LostKeeps DEF DialFails
      <3>. QED  BY <2>1, <2>4, <3>1, ConnectKeeps, MisconfiguredKeeps DEF DialEnds
    <2>5. ASSUME CommandTaken PROVE IInv'
      BY <2>1, <2>5, SendKeeps, DisconnectKeeps, SendFailsKeeps DEF CommandTaken
    <2>6. ASSUME FrameHandled PROVE IInv'
      BY <2>1, <2>6, ResponseKeeps, NotificationKeeps DEF FrameHandled
    <2>7. ASSUME NEW d \in Delays, StreamEnds(d) PROVE IInv'
      BY <2>1, <2>7, LostKeeps DEF StreamEnds
    <2>8. ASSUME NEW r \in asked, NEW a \in Answers, Answer(r, a) PROVE IInv'
      BY <2>1, <2>8, AnswerKeeps
    <2>9. ASSUME NEW s \in Sessions, Publish(s) \/ Notify(s) PROVE IInv'
      BY <2>1, <2>9, PublishKeeps, NotifyKeeps
    <2>10. ASSUME NotifyDelta \/ Break PROVE IInv'
      BY <2>1, <2>10, NotifyDeltaKeeps, BreakKeeps
    <2>. QED
      BY <1>2, <2>2, <2>3, <2>4, <2>5, <2>6, <2>7, <2>8, <2>9, <2>10 DEF Next
  <1>. QED  BY <1>1, <1>2

-----------------------------------------------------------------------------
(*              Queues of durable notifications, by session                *)

Mine(e, s) == e.kind = "durable" /\ e.session = s

LEMMA EmptyInOrder ==
    ASSUME NEW s, NEW a
    PROVE  Of(<<>>, s) = {} /\ InOrder(<<>>, s, a) /\ Ends(<<>>, s, a, a)
           /\ \A b : Ends(<<>>, s, a, b) => b = a
  BY DEF Of, InOrder, Ends

LEMMA NoneOfIt ==
    ASSUME NEW q, NEW s, NEW a, Of(q, s) = {}
    PROVE  InOrder(q, s, a) /\ Ends(q, s, a, a) /\ \A b : Ends(q, s, a, b) => b = a
  BY DEF InOrder, Ends

LEMMA OneInOrder ==
    ASSUME NEW s, NEW a, NEW e
    PROVE  /\ Mine(e, s) => Of(<<e>>, s) = {1} /\ Ends(<<e>>, s, a, e.cursor)
           /\ Mine(e, s) /\ Follows(s, a, e.cursor) => InOrder(<<e>>, s, a)
           /\ ~Mine(e, s) => Of(<<e>>, s) = {} /\ InOrder(<<e>>, s, a) /\ Ends(<<e>>, s, a, a)
  <1>1. DOMAIN <<e>> = {1} /\ <<e>>[1] = e
    OBVIOUS
  <1>2. Of(<<e>>, s) = IF Mine(e, s) THEN {1} ELSE {}
    BY <1>1 DEF Of, Mine
  <1>. QED  BY <1>1, <1>2 DEF InOrder, Ends

(* A notification that comes after the last one may be added. *)
LEMMA OfAppended ==
    ASSUME NEW S, NEW q \in Seq(S), NEW e \in S, NEW s
    PROVE  /\ Of(Append(q, e), s) = IF Mine(e, s) THEN Of(q, s) \cup {Len(q) + 1} ELSE Of(q, s)
           /\ \A i \in Of(q, s) : i \in DOMAIN q /\ i \in Nat /\ i < Len(q) + 1
                                  /\ Append(q, e)[i] = q[i]
           /\ Append(q, e)[Len(q) + 1] = e /\ Len(q) \in Nat
  <1>1. /\ DOMAIN Append(q, e) = DOMAIN q \cup {Len(q) + 1}
        /\ Append(q, e)[Len(q) + 1] = e /\ \A i \in DOMAIN q : Append(q, e)[i] = q[i]
        /\ Len(q) \in Nat /\ DOMAIN q = 1..Len(q)
    BY AppendElements
  <1>. QED  BY <1>1 DEF Of, Mine

LEMMA AppendedOther ==
    ASSUME NEW S, NEW q \in Seq(S), NEW e \in S, NEW s, NEW a, ~Mine(e, s)
    PROVE  /\ InOrder(q, s, a) => InOrder(Append(q, e), s, a)
           /\ \A b : Ends(Append(q, e), s, a, b) <=> Ends(q, s, a, b)
  <1>. DEFINE z == Append(q, e)
  <1>1. Of(z, s) = Of(q, s) /\ \A i \in Of(q, s) : z[i] = q[i]
    BY OfAppended
  <1>. HIDE DEF z
  <1>2. InOrder(q, s, a) => InOrder(z, s, a)
    BY <1>1 DEF InOrder
  <1>3. \A b : Ends(z, s, a, b) <=> Ends(q, s, a, b)
    BY <1>1 DEF Ends
  <1>. QED  BY <1>2, <1>3 DEF z

LEMMA AppendedNext ==
    ASSUME NEW S, NEW q \in Seq(S), NEW e \in S, NEW s, NEW a, Mine(e, s), InOrder(q, s, a),
           \A i \in Of(q, s) : (\A j \in Of(q, s) : j <= i) => Follows(s, q[i].cursor, e.cursor),
           Of(q, s) = {} => Follows(s, a, e.cursor)
    PROVE  /\ InOrder(Append(q, e), s, a) /\ Ends(Append(q, e), s, a, e.cursor)
           /\ \A b : Ends(Append(q, e), s, a, b) => b = e.cursor
  <1>. DEFINE z == Append(q, e)
              n == Len(q) + 1
  <1>1. /\ Of(z, s) = Of(q, s) \cup {n} /\ z[n] = e /\ n \in Nat
        /\ \A i \in Of(q, s) : z[i] = q[i] /\ i \in Nat /\ i < n
    BY OfAppended
  <1>. HIDE DEF z, n
  <1>2. ASSUME NEW i \in Of(z, s), \A j \in Of(z, s) : i <= j PROVE Follows(s, a, z[i].cursor)
    <2>1. CASE i = n
      <3>1. \A j \in Of(q, s) : j \in Of(z, s) /\ j \in Nat /\ ~(i <= j)
        BY <1>1, <2>1
      <3>2. Of(q, s) = {}
        BY <1>2, <3>1
      <3>. QED  BY <1>1, <2>1, <3>2
    <2>2. CASE i \in Of(q, s)
      BY <1>1, <1>2, <2>2 DEF InOrder
    <2>. QED  BY <1>1, <2>1, <2>2
  <1>3. ASSUME NEW i \in Of(z, s), NEW j \in Of(z, s), i < j,
               \A k \in Of(z, s) : k <= i \/ j <= k
        PROVE  Follows(s, z[i].cursor, z[j].cursor)
    <2>1. i \in Of(q, s)
      BY <1>1, <1>3
    <2>2. CASE j = n
      <3>1. \A k \in Of(q, s) : k <= i
        BY <1>1, <1>3, <2>2
      <3>. QED  BY <1>1, <2>1, <2>2, <3>1
    <2>3. CASE j \in Of(q, s)
      BY <1>1, <1>3, <2>1, <2>3 DEF InOrder
    <2>. QED  BY <1>1, <2>2, <2>3
  <1>4. InOrder(z, s, a)
    BY <1>2, <1>3 DEF InOrder
  <1>5. n \in Of(z, s) /\ \A j \in Of(z, s) : j <= n
    BY <1>1
  <1>6. Ends(z, s, a, e.cursor)
    BY <1>1, <1>5 DEF Ends
  <1>7. \A b : Ends(z, s, a, b) => b = e.cursor
    BY <1>1, <1>5 DEF Ends
  <1>. QED  BY <1>4, <1>6, <1>7 DEF z

(* Those behind the one taken follow it. *)
LEMMA OfTaken ==
    ASSUME NEW S, NEW q \in Seq(S), q # <<>>, NEW s
    PROVE  /\ Of(q, s) \subseteq Nat /\ \A i \in Of(q, s) : i >= 1
           /\ Mine(Head(q), s) <=> 1 \in Of(q, s)
           /\ Head(q) = q[1] /\ Head(q) \in S
           /\ \A i \in Nat : i \in Of(Tail(q), s) <=> i >= 1 /\ i + 1 \in Of(q, s)
           /\ Of(Tail(q), s) \subseteq Nat
           /\ \A i \in Of(Tail(q), s) : Tail(q)[i] = q[i + 1]
  <1>1. /\ Len(q) \in Nat /\ Len(q) >= 1 /\ DOMAIN q = 1..Len(q) /\ Head(q) = q[1] /\ Head(q) \in S
        /\ DOMAIN Tail(q) = 1..Len(q) - 1
        /\ \A i \in DOMAIN Tail(q) : Tail(q)[i] = q[i + 1]
    OBVIOUS
  <1>2. \A i \in Nat : i \in DOMAIN Tail(q) <=> i >= 1 /\ i + 1 \in DOMAIN q
    BY <1>1
  <1>3. Of(q, s) \subseteq Nat /\ \A i \in Of(q, s) : i >= 1
    BY <1>1 DEF Of
  <1>4. Mine(Head(q), s) <=> 1 \in Of(q, s)
    BY <1>1 DEF Of, Mine
  <1>5. Of(Tail(q), s) \subseteq Nat /\ \A i \in Of(Tail(q), s) : Tail(q)[i] = q[i + 1]
    BY <1>1 DEF Of
  <1>6. \A i \in Nat : i \in Of(Tail(q), s) <=> i >= 1 /\ i + 1 \in Of(q, s)
    BY <1>1, <1>2 DEF Of
  <1>. QED  BY <1>1, <1>3, <1>4, <1>5, <1>6

LEMMA TakenOther ==
    ASSUME NEW S, NEW q \in Seq(S), q # <<>>, NEW s, NEW a, ~Mine(Head(q), s)
    PROVE  /\ InOrder(q, s, a) => InOrder(Tail(q), s, a)
           /\ \A b : Ends(q, s, a, b) <=> Ends(Tail(q), s, a, b)
  <1>. DEFINE z == Tail(q)
  <1>1. /\ Of(q, s) \subseteq Nat /\ \A i \in Of(q, s) : i >= 1 /\ i # 1
        /\ Of(z, s) \subseteq Nat /\ \A i \in Of(z, s) : z[i] = q[i + 1]
        /\ \A i \in Nat : i \in Of(z, s) <=> i >= 1 /\ i + 1 \in Of(q, s)
    BY OfTaken
  <1>. HIDE DEF z
  <1>2. \A i \in Of(z, s) : i + 1 \in Of(q, s)
    BY <1>1
  <1>3. \A i \in Of(q, s) : i - 1 \in Of(z, s) /\ z[i - 1] = q[i]
    BY <1>1
  <1>4. InOrder(q, s, a) => InOrder(z, s, a)
    <2>. SUFFICES ASSUME InOrder(q, s, a) PROVE InOrder(z, s, a)
      OBVIOUS
    <2>1. ASSUME NEW i \in Of(z, s), \A j \in Of(z, s) : i <= j PROVE Follows(s, a, z[i].cursor)
      <3>1. \A j \in Of(q, s) : i + 1 <= j
        BY <1>1, <1>3, <2>1
      <3>. QED  BY <1>1, <1>2, <3>1 DEF InOrder
    <2>2. ASSUME NEW i \in Of(z, s), NEW j \in Of(z, s), i < j,
                 \A k \in Of(z, s) : k <= i \/ j <= k
          PROVE  Follows(s, z[i].cursor, z[j].cursor)
      <3>1. i \in Nat /\ j \in Nat /\ i + 1 < j + 1
        BY <1>1, <2>2
      <3>2. ASSUME NEW k \in Of(q, s) PROVE k <= i + 1 \/ j + 1 <= k
        BY <1>1, <1>3, <2>2, <3>1
      <3>. QED  BY <1>1, <1>2, <3>1, <3>2 DEF InOrder
    <2>. QED  BY <2>1, <2>2 DEF InOrder
  <1>5. Of(q, s) = {} <=> Of(z, s) = {}
    BY <1>2, <1>3
  <1>6. ASSUME NEW b, Ends(q, s, a, b) PROVE Ends(z, s, a, b)
    <2>1. ASSUME NEW i \in Of(z, s), \A j \in Of(z, s) : j <= i PROVE b = z[i].cursor
      <3>1. \A j \in Of(q, s) : j <= i + 1
        BY <1>1, <1>3, <2>1
      <3>. QED  BY <1>1, <1>2, <1>6, <3>1 DEF Ends
    <2>. QED  BY <1>5, <1>6, <2>1 DEF Ends
  <1>7. ASSUME NEW b, Ends(z, s, a, b) PROVE Ends(q, s, a, b)
    <2>1. ASSUME NEW i \in Of(q, s), \A j \in Of(q, s) : j <= i PROVE b = q[i].cursor
      <3>1. \A j \in Of(z, s) : j <= i - 1
        BY <1>1, <1>2, <2>1
      <3>. QED  BY <1>3, <1>7, <3>1 DEF Ends
    <2>. QED  BY <1>5, <1>7, <2>1 DEF Ends
  <1>. QED  BY <1>4, <1>6, <1>7 DEF z

LEMMA TakenNext ==
    ASSUME NEW S, NEW q \in Seq(S), q # <<>>, NEW s, NEW a, Mine(Head(q), s), InOrder(q, s, a)
    PROVE  /\ Follows(s, a, Head(q).cursor)
           /\ InOrder(Tail(q), s, Head(q).cursor)
           /\ \A b : Ends(q, s, a, b) <=> Ends(Tail(q), s, Head(q).cursor, b)
  <1>. DEFINE z == Tail(q)
              c == Head(q).cursor
  <1>1. /\ Of(q, s) \subseteq Nat /\ (\A i \in Of(q, s) : i >= 1) /\ 1 \in Of(q, s)
        /\ Of(z, s) \subseteq Nat /\ \A i \in Of(z, s) : z[i] = q[i + 1]
        /\ \A i \in Nat : i \in Of(z, s) <=> i >= 1 /\ i + 1 \in Of(q, s)
        /\ c = q[1].cursor
    BY OfTaken
  <1>. HIDE DEF z, c
  <1>2. \A i \in Of(z, s) : i + 1 \in Of(q, s) /\ i >= 1 /\ i \in Nat
    BY <1>1
  <1>3. \A i \in Of(q, s) : i # 1 => i - 1 \in Of(z, s) /\ z[i - 1] = q[i]
    BY <1>1
  <1>4. Follows(s, a, c)
    BY <1>1 DEF InOrder
  <1>5. InOrder(z, s, c)
    <2>1. ASSUME NEW i \in Of(z, s), \A j \in Of(z, s) : i <= j PROVE Follows(s, c, z[i].cursor)
      <3>1. 1 < i + 1 /\ \A k \in Of(q, s) : k <= 1 \/ i + 1 <= k
        BY <1>1, <1>2, <1>3, <2>1
      <3>. QED  BY <1>1, <1>2, <3>1 DEF InOrder
    <2>2. ASSUME NEW i \in Of(z, s), NEW j \in Of(z, s), i < j,
                 \A k \in Of(z, s) : k <= i \/ j <= k
          PROVE  Follows(s, z[i].cursor, z[j].cursor)
      <3>1. i \in Nat /\ j \in Nat /\ i + 1 < j + 1 /\ 1 <= i
        BY <1>1, <1>2, <2>2
      <3>2. ASSUME NEW k \in Of(q, s), k # 1 PROVE k <= i + 1 \/ j + 1 <= k
        <4>1. k \in Nat /\ (k - 1 <= i \/ j <= k - 1)
          BY <1>1, <1>3, <2>2, <3>2
        <4>. QED  BY <3>1, <4>1
      <3>3. \A k \in Of(q, s) : k <= i + 1 \/ j + 1 <= k
        BY <3>1, <3>2
      <3>. QED  BY <1>1, <1>2, <3>1, <3>3 DEF InOrder
    <2>. QED  BY <2>1, <2>2 DEF InOrder
  <1>6. ASSUME NEW b, Ends(q, s, a, b) PROVE Ends(z, s, c, b)
    <2>1. ASSUME NEW i \in Of(z, s), \A j \in Of(z, s) : j <= i PROVE b = z[i].cursor
      <3>1. \A j \in Of(q, s) : j <= i + 1
        BY <1>1, <1>2, <1>3, <2>1
      <3>. QED  BY <1>1, <1>2, <1>6, <3>1 DEF Ends
    <2>2. ASSUME Of(z, s) = {} PROVE b = c
      <3>1. \A j \in Of(q, s) : j <= 1
        BY <1>1, <1>3, <2>2
      <3>. QED  BY <1>1, <1>6, <3>1 DEF Ends
    <2>. QED  BY <2>1, <2>2 DEF Ends
  <1>7. ASSUME NEW b, Ends(z, s, c, b) PROVE Ends(q, s, a, b)
    <2>1. ASSUME NEW i \in Of(q, s), \A j \in Of(q, s) : j <= i PROVE b = q[i].cursor
      <3>1. CASE i = 1
        <4>1. Of(z, s) = {}
          BY <1>1, <1>2, <2>1, <3>1
        <4>. QED  BY <1>1, <1>7, <3>1, <4>1 DEF Ends
      <3>2. CASE i # 1
        <4>1. \A j \in Of(z, s) : j <= i - 1
          BY <1>1, <1>2, <2>1
        <4>. QED  BY <1>3, <1>7, <3>2, <4>1 DEF Ends
      <3>. QED  BY <3>1, <3>2
    <2>. QED  BY <1>1, <2>1 DEF Ends
  <1>. QED  BY <1>4, <1>5, <1>6, <1>7 DEF z, c

(* What is left of a queue cut short is in order. *)
LEMMA CutInOrder ==
    ASSUME NEW S, NEW q \in Seq(S), NEW n \in 0..Len(q), NEW s, NEW a, InOrder(q, s, a)
    PROVE  InOrder(SubSeq(q, 1, n), s, a)
  <1>. DEFINE z == SubSeq(q, 1, n)
  <1>1. /\ DOMAIN z = 1..n /\ DOMAIN q = 1..Len(q) /\ Len(q) \in Nat /\ n \in Nat /\ n <= Len(q)
        /\ \A i \in 1..n : z[i] = q[i]
    OBVIOUS
  <1>. HIDE DEF z
  <1>2. /\ Of(z, s) \subseteq Of(q, s) /\ Of(q, s) \subseteq Nat
        /\ \A i \in Of(z, s) : i <= n /\ z[i] = q[i]
        /\ \A i \in Of(q, s) : i <= n => i \in Of(z, s)
    BY <1>1 DEF Of
  <1>3. ASSUME NEW i \in Of(z, s), \A j \in Of(z, s) : i <= j PROVE Follows(s, a, z[i].cursor)
    <2>1. \A j \in Of(q, s) : i <= j
      BY <1>1, <1>2, <1>3
    <2>. QED  BY <1>2, <2>1 DEF InOrder
  <1>4. ASSUME NEW i \in Of(z, s), NEW j \in Of(z, s), i < j,
               \A k \in Of(z, s) : k <= i \/ j <= k
        PROVE  Follows(s, z[i].cursor, z[j].cursor)
    <2>1. \A k \in Of(q, s) : k <= i \/ j <= k
      BY <1>1, <1>2, <1>4
    <2>. QED  BY <1>2, <1>4, <2>1 DEF InOrder
  <1>. QED  BY <1>3, <1>4 DEF InOrder, z
-----------------------------------------------------------------------------
(*                     The durable notifications                           *)

Opens(cmd, s) == cmd.kind = "open" /\ cmd.of = s

(* At most one open of a session is queued, asked or has been granted. *)
OpenedOnce ==
    \A s \in Sessions :
        /\ \A i, j \in DOMAIN commands :
              Opens(commands[i], s) /\ Opens(commands[j], s) => i = j
        /\ \A i \in DOMAIN commands : Opens(commands[i], s) => position[s] = NotOpen
        /\ \A r \in asked : Opens(r.cmd, s) =>
              /\ position[s] = NotOpen
              /\ \A i \in DOMAIN commands : ~Opens(commands[i], s)
              /\ \A q \in asked : Opens(q.cmd, s) => q = r
Hears == ~up => asked = {}
Unfollowed == \A s \in Sessions : up /\ position[s] = NotOpen => Of(toClient, s) = {}
Incoming ==
    \A s \in Sessions :
        /\ InOrder(toClient, s, cursors[s])
        /\ position[s] # NotOpen =>
             \A c \in Cursors : Ends(toClient, s, cursors[s], c) => Follows(s, c, position[s] + 1)
Resumed ==
    \A r \in asked, s \in Sessions :
        Opens(r.cmd, s) => IF s \in FreshSessions THEN r.after = 0
                           ELSE cursors[s] # 0 => r.after = cursors[s]
Line == OpenedOnce /\ Hears /\ Unfollowed /\ Incoming /\ Resumed

Within(q, s) == \A i \in Of(q, s) : q[i].cursor \in Cursors /\ q[i].cursor <= ledger[s]

(* Nothing is under way, or handed on, that the server has not committed. *)
Committed ==
    \A s \in Sessions :
        /\ applied[s] <= ledger[s] /\ cursors[s] <= ledger[s]
        /\ position[s] # NotOpen => position[s] <= ledger[s]
        /\ Within(events, s) /\ Within(outbox, s) /\ Within(toClient, s)

Delivery == Line /\ Committed /\ NothingLost

LEMMA LineStays ==
    ASSUME Delivery, UNCHANGED <<commands, asked, toClient, up, position, cursors>>
    PROVE  Line'
  BY DEF Delivery, Line, OpenedOnce, Hears, Unfollowed, Incoming, Resumed, Of, InOrder, Ends

LEMMA CommittedStays ==
    ASSUME Delivery, UNCHANGED <<applied, cursors, position, ledger, events, toClient>>,
           outbox' = outbox \/ \A s \in Sessions : Of(outbox', s) = {}
    PROVE  Committed'
  <1>. SUFFICES ASSUME NEW s \in Sessions
                PROVE  /\ applied[s] <= ledger[s] /\ cursors[s] <= ledger[s]
                       /\ position[s] # NotOpen => position[s] <= ledger[s]
                       /\ Within(events, s) /\ Within(outbox, s)' /\ Within(toClient, s)
    BY DEF Committed, Within, Of
  <1>1. Within(outbox, s)'
    BY DEF Delivery, Committed, Within, Of
  <1>. QED  BY <1>1 DEF Delivery, Committed

LEMMA LostStays ==
    ASSUME Delivery, UNCHANGED <<events, outbox, applied, cursors>>
    PROVE  NothingLost'
  BY DEF Delivery, NothingLost, Of, InOrder, Ends

(* Events that are no notifications change nothing. *)
LEMMA NothingNew ==
    ASSUME Delivery, outbox = <<>>, \A s \in Sessions : Of(outbox', s) = {},
           UNCHANGED <<events, applied, cursors>>
    PROVE  NothingLost'
  <1>. SUFFICES ASSUME NEW s \in Sessions
                PROVE  \E mid \in Cursors :
                         /\ InOrder(events, s, applied[s]) /\ Ends(events, s, applied[s], mid)
                         /\ InOrder(outbox', s, mid) /\ Ends(outbox', s, mid, cursors[s])
    BY DEF NothingLost, Of, InOrder, Ends
  <1>1. PICK mid \in Cursors :
          /\ InOrder(events, s, applied[s]) /\ Ends(events, s, applied[s], mid)
          /\ Ends(<<>>, s, mid, cursors[s])
    BY DEF Delivery, NothingLost
  <1>2. mid = cursors[s]
    BY <1>1, EmptyInOrder
  <1>3. InOrder(outbox', s, mid) /\ Ends(outbox', s, mid, mid)
    BY NoneOfIt
  <1>. QED  BY <1>1, <1>2, <1>3

LEMMA StateIsNone == \A x, s : Of(<<State(x)>>, s) = {}
  <1>. SUFFICES ASSUME NEW x, NEW s PROVE Of(<<State(x)>>, s) = {}
    OBVIOUS
  <1>1. ~Mine(State(x), s)
    BY DEF State, Mine
  <1>. QED  BY <1>1, OneInOrder

LEMMA NoneIsNone == \A s : Of(<<>>, s) = {}
  BY EmptyInOrder

(* Commands that leave the queue for nowhere. *)
LEMMA CutDelivers ==
    ASSUME IInv, Delivery, NoConnection, outbox = <<>>,
           commands' = commands \/ (commands # <<>> /\ commands' = Tail(commands)) \/ commands' = <<>>,
           \A s \in Sessions : Of(outbox', s) = {},
           UNCHANGED <<events, applied, cursors>>
    PROVE  Delivery'
  <1>1. /\ asked' = {} /\ toClient' = <<>> /\ up' = FALSE /\ ledger' = ledger
        /\ \A s \in Sessions : position'[s] = NotOpen
    BY DEF NoConnection
  <1>2. OpenedOnce'
    <2>1. ASSUME NEW s \in Sessions, NEW i \in DOMAIN commands', NEW j \in DOMAIN commands',
                 Opens(commands'[i], s), Opens(commands'[j], s)
          PROVE  i = j
      <3>1. CASE commands' = commands
        BY <2>1, <3>1 DEF Delivery, Line, OpenedOnce
      <3>2. CASE commands # <<>> /\ commands' = Tail(commands)
        <4>1. /\ i + 1 \in DOMAIN commands /\ commands'[i] = commands[i + 1]
              /\ j + 1 \in DOMAIN commands /\ commands'[j] = commands[j + 1]
              /\ i \in Nat /\ j \in Nat
          BY <3>2, CommandsTaken DEF IInv, TypeOK
        <4>2. i + 1 = j + 1
          BY <2>1, <4>1 DEF Delivery, Line, OpenedOnce
        <4>. QED  BY <4>1, <4>2
      <3>3. CASE commands' = <<>>
        BY <2>1, <3>3
      <3>. QED  BY <3>1, <3>2, <3>3
    <2>. QED  BY <1>1, <2>1 DEF OpenedOnce
  <1>3. Hears' /\ Resumed' /\ Unfollowed'
    BY <1>1, NoneIsNone DEF Hears, Resumed, Unfollowed
  <1>4. Incoming'
    BY <1>1, EmptyInOrder DEF Incoming, Of, InOrder
  <1>5. NothingLost'
    BY NothingNew
  <1>6. Committed'
    <2>1. \A s \in Sessions : Within(events, s)' /\ Within(outbox, s)' /\ Within(toClient, s)'
      BY <1>1, NoneIsNone DEF Delivery, Committed, Within, Of
    <2>. QED  BY <1>1, <2>1 DEF Delivery, Committed
  <1>. QED  BY <1>2, <1>3, <1>4, <1>5, <1>6 DEF Delivery, Line

LEMMA CloseDelivers ==
    ASSUME IInv, Delivery, outbox = <<>>, NEW last, Close(last), \A s \in Sessions : Of(last, s) = {}
    PROVE  Delivery'
  BY CutDelivers DEF Close

LEMMA FailDelivers == ASSUME IInv, Delivery, outbox = <<>>, Fail PROVE Delivery'
  BY CloseDelivers, StateIsNone DEF Fail

LEMMA ReconnectDelivers ==
    ASSUME IInv, Delivery, outbox = <<>>, NEW d, IF Ws THEN Reconnect(d) ELSE Fail,
           phase' # "closed" =>
             commands' = commands \/ (commands # <<>> /\ commands' = Tail(commands))
    PROVE  Delivery'
  <1>1. CASE Fail
    BY <1>1, FailDelivers
  <1>2. CASE ~Fail
    <2>1. /\ phase' = "backoff" /\ outbox' = <<State("Reconnecting")>> /\ NoConnection
          /\ UNCHANGED <<events, applied, cursors>>
      BY <1>2 DEF Reconnect
    <2>. QED  BY <2>1, CutDelivers, StateIsNone
  <1>. QED  BY <1>1, <1>2

LEMMA PostDelivers ==
    ASSUME IInv, Delivery, NEW cmd \in Commands \union {Disconnect}, Post(cmd)
    PROVE  Delivery'
  <1>1. UNCHANGED <<events, outbox, applied, cursors, asked, toClient, up, position, ledger>>
    BY DEF Post, task, server
  <1>2. NothingLost' /\ Committed'
    BY <1>1, LostStays, CommittedStays
  <1>3. Hears' /\ Unfollowed' /\ Incoming' /\ Resumed'
    BY <1>1 DEF Delivery, Line, Hears, Unfollowed, Incoming, Resumed, Of, InOrder, Ends
  <1>4. OpenedOnce'
    <2>1. CASE commands' = commands
      BY <1>1, <2>1 DEF Delivery, Line, OpenedOnce
    <2>2. CASE commands' = Append(commands, cmd)
      <3>1. /\ DOMAIN commands' = DOMAIN commands \cup {Len(commands) + 1}
            /\ commands'[Len(commands) + 1] = cmd
            /\ \A i \in DOMAIN commands : commands'[i] = commands[i]
        BY <2>2, AppendElements DEF IInv, TypeOK
      <3>2. ASSUME NEW s \in Sessions, Opens(cmd, s)
            PROVE  /\ position[s] = NotOpen
                   /\ \A i \in DOMAIN commands : ~Opens(commands[i], s)
                   /\ \A r \in asked : ~Opens(r.cmd, s)
        BY <3>2 DEF Post, Opening, Opens
      <3>3. ASSUME NEW s \in Sessions
            PROVE  /\ \A i, j \in DOMAIN commands' :
                          Opens(commands'[i], s) /\ Opens(commands'[j], s) => i = j
                   /\ \A i \in DOMAIN commands' : Opens(commands'[i], s) => position[s] = NotOpen
                   /\ \A r \in asked : Opens(r.cmd, s) =>
                        \A i \in DOMAIN commands' : ~Opens(commands'[i], s)
        <4>1. \A i, j \in DOMAIN commands :
                Opens(commands[i], s) /\ Opens(commands[j], s) => i = j
          BY DEF Delivery, Line, OpenedOnce
        <4>2. \A i \in DOMAIN commands : Opens(commands[i], s) => position[s] = NotOpen
          BY DEF Delivery, Line, OpenedOnce
        <4>3. \A r \in asked : Opens(r.cmd, s) => \A i \in DOMAIN commands : ~Opens(commands[i], s)
          BY DEF Delivery, Line, OpenedOnce
        <4>. QED  BY <3>1, <3>2, <4>1, <4>2, <4>3
      <3>. QED  BY <1>1, <3>3 DEF Delivery, Line, OpenedOnce
    <2>. QED  BY <2>1, <2>2 DEF Post
  <1>. QED  BY <1>2, <1>3, <1>4 DEF Delivery, Line

(* The app takes the oldest of its queue, which follows what it has. *)
LEMMA ConsumeDelivers == ASSUME IInv, Delivery, Consume PROVE Delivery'
  <1>. DEFINE e == Head(events)
  <1>1. /\ events # <<>> /\ events' = Tail(events)
        /\ applied' = IF e.kind = "durable" THEN [applied EXCEPT ![e.session] = e.cursor]
                      ELSE applied
        /\ UNCHANGED <<commands, outbox, cursors, asked, toClient, up, position, ledger>>
    BY DEF Consume, task, server
  <1>2. events \in Seq(Events) /\ e \in Events /\ outbox \in Seq(Events)
    BY <1>1, TailElements DEF IInv, TypeOK
  <1>3. \A s \in Sessions : applied'[s] = IF Mine(e, s) THEN e.cursor ELSE applied[s]
    BY <1>1, <1>2, EventType DEF Mine, IInv, TypeOK
  <1>4. \A s \in Sessions : Mine(e, s) => 1 \in Of(events, s) /\ e = events[1]
    BY <1>1, <1>2, OfTaken
  <1>5. Line'
    BY <1>1, LineStays
  <1>6. ASSUME NEW s \in Sessions
        PROVE  \E mid \in Cursors :
                 /\ InOrder(events', s, applied'[s]) /\ Ends(events', s, applied'[s], mid)
                 /\ InOrder(outbox, s, mid) /\ Ends(outbox, s, mid, cursors[s])
    <2>1. PICK mid \in Cursors :
            /\ InOrder(events, s, applied[s]) /\ Ends(events, s, applied[s], mid)
            /\ InOrder(outbox, s, mid) /\ Ends(outbox, s, mid, cursors[s])
      BY DEF Delivery, NothingLost
    <2>2. CASE Mine(e, s)
      <3>1. InOrder(events', s, e.cursor) /\ Ends(events', s, e.cursor, mid)
        BY <1>1, <1>2, <2>1, <2>2, TakenNext
      <3>. QED  BY <1>3, <2>1, <2>2, <3>1
    <2>3. CASE ~Mine(e, s)
      <3>1. InOrder(events', s, applied[s]) /\ Ends(events', s, applied[s], mid)
        BY <1>1, <1>2, <2>1, <2>3, TakenOther
      <3>. QED  BY <1>3, <2>1, <2>3, <3>1
    <2>. QED  BY <2>2, <2>3
  <1>7. NothingLost'
    BY <1>1, <1>6 DEF NothingLost, InOrder, Ends, Of
  <1>8. Committed'
    <2>1. ASSUME NEW s \in Sessions PROVE Within(events, s)' /\ applied'[s] <= ledger[s]
      <3>1. Within(events, s) /\ applied[s] <= ledger[s]
        BY DEF Delivery, Committed
      <3>2. \A i \in Of(events', s) : i + 1 \in Of(events, s) /\ events'[i] = events[i + 1]
        BY <1>1, <1>2, OfTaken
      <3>3. Within(events, s)'
        BY <1>1, <3>1, <3>2 DEF Within, Of
      <3>4. applied'[s] <= ledger[s]
        BY <1>3, <1>4, <3>1 DEF Within
      <3>. QED  BY <3>3, <3>4
    <2>. QED  BY <1>1, <2>1 DEF Delivery, Committed, Within, Of
  <1>. QED  BY <1>5, <1>7, <1>8 DEF Delivery

(* An event sent leaves the outbox for the channel, or, if it may, is dropped. *)
LEMMA EmitDelivers == ASSUME IInv, Delivery, Emit PROVE Delivery'
  <1>. DEFINE e == Head(outbox)
  <1>1. /\ outbox # <<>> /\ outbox' = Tail(outbox)
        /\ events' = Append(events, e) \/ (events' = events /\ e.kind # "durable")
        /\ UNCHANGED <<commands, applied, cursors, asked, toClient, up, position, ledger>>
    BY DEF Emit, Awaited, server
  <1>2. events \in Seq(Events) /\ e \in Events /\ outbox \in Seq(Events)
    BY <1>1, TailElements DEF IInv, TypeOK
  <1>. HIDE DEF e
  <1>3. Line'
    BY <1>1, LineStays
  <1>4. ASSUME NEW s \in Sessions
        PROVE  \E mid \in Cursors :
                 /\ InOrder(events', s, applied[s]) /\ Ends(events', s, applied[s], mid)
                 /\ InOrder(outbox', s, mid) /\ Ends(outbox', s, mid, cursors[s])
    <2>1. PICK mid \in Cursors :
            /\ InOrder(events, s, applied[s]) /\ Ends(events, s, applied[s], mid)
            /\ InOrder(outbox, s, mid) /\ Ends(outbox, s, mid, cursors[s])
      BY DEF Delivery, NothingLost
    <2>2. CASE Mine(e, s)
      <3>1. /\ Follows(s, mid, e.cursor) /\ InOrder(outbox', s, e.cursor)
            /\ Ends(outbox', s, e.cursor, cursors[s])
        BY <1>1, <1>2, <2>1, <2>2, TakenNext DEF e
      <3>2. events' = Append(events, e)
        BY <1>1, <2>2 DEF Mine
      <3>3. \A i \in Of(events, s) : (\A j \in Of(events, s) : j <= i) =>
              Follows(s, events[i].cursor, e.cursor)
        BY <2>1, <3>1 DEF Ends
      <3>4. Of(events, s) = {} => Follows(s, applied[s], e.cursor)
        BY <2>1, <3>1 DEF Ends
      <3>5. InOrder(events', s, applied[s]) /\ Ends(events', s, applied[s], e.cursor)
        BY <1>2, <2>1, <2>2, <3>2, <3>3, <3>4, AppendedNext
      <3>6. e.cursor \in Cursors
        BY <1>2, <2>2, EventType DEF Mine
      <3>. QED  BY <3>1, <3>5, <3>6
    <2>3. CASE ~Mine(e, s)
      <3>1. InOrder(outbox', s, mid) /\ Ends(outbox', s, mid, cursors[s])
        BY <1>1, <1>2, <2>1, <2>3, TakenOther DEF e
      <3>2. InOrder(events', s, applied[s]) /\ Ends(events', s, applied[s], mid)
        <4>1. CASE events' = Append(events, e)
          BY <1>2, <2>1, <2>3, <4>1, AppendedOther
        <4>2. CASE events' = events
          BY <2>1, <4>2
        <4>. QED  BY <1>1, <4>1, <4>2
      <3>. QED  BY <2>1, <3>1, <3>2
    <2>. QED  BY <2>2, <2>3
  <1>5. NothingLost'
    BY <1>1, <1>4 DEF NothingLost, InOrder, Ends, Of
  <1>6. Committed'
    <2>1. ASSUME NEW s \in Sessions PROVE Within(events, s)' /\ Within(outbox, s)'
      <3>1. Within(events, s) /\ Within(outbox, s)
        BY DEF Delivery, Committed
      <3>2. \A i \in Of(outbox', s) : i + 1 \in Of(outbox, s) /\ outbox'[i] = outbox[i + 1]
        BY <1>1, <1>2, OfTaken
      <3>3. Within(outbox, s)'
        BY <1>1, <3>1, <3>2 DEF Within, Of
      <3>4. Mine(e, s) => e.cursor \in Cursors /\ e.cursor <= ledger[s]
        BY <1>1, <1>2, <3>1, OfTaken DEF e, Within
      <3>5. CASE events' = Append(events, e)
        <4>1. \A i \in Of(events', s) :
                \/ i \in Of(events, s) /\ events'[i] = events[i]
                \/ Mine(e, s) /\ events'[i] = e
          BY <1>2, <3>5, OfAppended
        <4>. QED  BY <1>1, <3>1, <3>3, <3>4, <4>1 DEF Within
      <3>6. CASE events' = events
        BY <1>1, <3>1, <3>3, <3>6 DEF Within, Of
      <3>. QED  BY <1>1, <3>5, <3>6
    <2>. QED  BY <1>1, <2>1 DEF Delivery, Committed, Within, Of
  <1>. QED  BY <1>3, <1>5, <1>6 DEF Delivery

LEMMA ConnectingDelivers ==
    ASSUME IInv, Delivery, Dial \/ Wake \/ Connect
    PROVE  Delivery'
  <1>1. /\ outbox = <<>> /\ \A s \in Sessions : Of(outbox', s) = {}
        /\ UNCHANGED <<commands, events, applied, cursors, asked, toClient, position, ledger>>
        /\ up' = up \/ Connect
    BY StateIsNone, NoneIsNone DEF Dial, Wake, Connect, At, app, server
  <1>2. NothingLost' /\ Committed'
    BY <1>1, NothingNew, CommittedStays
  <1>3. CASE up' = up
    BY <1>1, <1>2, <1>3, LineStays DEF Delivery
  <1>4. CASE Connect
    <2>1. asked = {} /\ toClient = <<>> /\ up' = TRUE
      BY <1>4 DEF Connect, At, IInv, Offline
    <2>2. Hears' /\ Unfollowed' /\ Resumed'
      BY <1>1, <2>1, NoneIsNone DEF Hears, Unfollowed, Resumed
    <2>3. OpenedOnce' /\ Incoming'
      BY <1>1 DEF Delivery, Line, OpenedOnce, Incoming, Of, InOrder, Ends
    <2>. QED  BY <1>2, <2>2, <2>3 DEF Delivery, Line
  <1>. QED  BY <1>1, <1>3, <1>4

LEMMA LossDelivers ==
    ASSUME IInv, Delivery, NEW d,
           Misconfigured \/ DialFails(d) \/ StreamEnds(d) \/ SendFails(d) \/ TakeDisconnect
    PROVE  Delivery'
  <1>1. outbox = <<>>
    BY DEF Misconfigured, DialFails, StreamEnds, SendFails, TakeDisconnect, NextCommand, At
  <1>2. CASE Misconfigured
    BY <1>1, <1>2, FailDelivers DEF Misconfigured
  <1>3. CASE DialFails(d) \/ StreamEnds(d) \/ SendFails(d)
    BY <1>1, <1>3, ReconnectDelivers DEF DialFails, StreamEnds, SendFails, NextCommand
  <1>4. CASE TakeDisconnect
    BY <1>1, <1>4, CloseDelivers, NoneIsNone DEF TakeDisconnect
  <1>. QED  BY <1>2, <1>3, <1>4

(* The request sent resumes where the app has been brought. *)
LEMMA SendDelivers == ASSUME IInv, Delivery, SendCommand PROVE Delivery'
  <1>. DEFINE cmd == Head(commands)
              after == IF cmd.kind = "open" THEN Bracket(cmd.of) ELSE NotOpen
              r0 == [id |-> nextId, cmd |-> cmd, after |-> after]
  <1>1. /\ commands # <<>> /\ commands' = Tail(commands)
        /\ asked' = IF up THEN asked \cup {r0} ELSE asked
        /\ UNCHANGED <<events, outbox, applied, cursors, toClient, up, position, ledger>>
    BY DEF SendCommand, NextCommand
  <1>2. /\ cmd = commands[1] /\ 1 \in DOMAIN commands
        /\ \A i \in DOMAIN commands' :
              i \in Nat /\ i # 0 /\ i + 1 \in DOMAIN commands /\ commands'[i] = commands[i + 1]
    BY <1>1, CommandsTaken DEF IInv, TypeOK
  <1>3. r0.cmd = cmd /\ r0.after = after
    OBVIOUS
  <1>4. \A s \in Sessions : Opens(cmd, s) =>
          IF s \in FreshSessions THEN after = 0 ELSE cursors[s] # 0 => after = cursors[s]
    BY DEF Opens, Bracket
  <1>. HIDE DEF cmd, after, r0
  <1>5. NothingLost' /\ Committed'
    BY <1>1, LostStays, CommittedStays
  <1>6. Hears' /\ Unfollowed' /\ Incoming'
    BY <1>1 DEF Delivery, Line, Hears, Unfollowed, Incoming, Of, InOrder, Ends
  <1>7. Resumed'
    BY <1>1, <1>3, <1>4 DEF Delivery, Line, Resumed
  <1>8. ASSUME NEW s \in Sessions
        PROVE  /\ \A i, j \in DOMAIN commands' :
                      Opens(commands'[i], s) /\ Opens(commands'[j], s) => i = j
               /\ \A i \in DOMAIN commands' : Opens(commands'[i], s) => position[s] = NotOpen
               /\ \A r \in asked' : Opens(r.cmd, s) =>
                     /\ position[s] = NotOpen
                     /\ \A i \in DOMAIN commands' : ~Opens(commands'[i], s)
                     /\ \A q \in asked' : Opens(q.cmd, s) => q = r
    <2>1. /\ \A i, j \in DOMAIN commands :
                Opens(commands[i], s) /\ Opens(commands[j], s) => i = j
          /\ \A i \in DOMAIN commands : Opens(commands[i], s) => position[s] = NotOpen
          /\ \A r \in asked : Opens(r.cmd, s) =>
                /\ position[s] = NotOpen
                /\ \A i \in DOMAIN commands : ~Opens(commands[i], s)
                /\ \A q \in asked : Opens(q.cmd, s) => q = r
      BY DEF Delivery, Line, OpenedOnce
    <2>2. ASSUME NEW i \in DOMAIN commands', NEW j \in DOMAIN commands',
                 Opens(commands'[i], s), Opens(commands'[j], s)
          PROVE  i = j
      <3>1. i + 1 = j + 1
        BY <1>2, <2>1, <2>2
      <3>. QED  BY <1>2, <3>1
    <2>3. ASSUME Opens(cmd, s)
          PROVE  /\ position[s] = NotOpen /\ \A r \in asked : ~Opens(r.cmd, s)
                 /\ \A i \in DOMAIN commands' : ~Opens(commands'[i], s)
      <3>1. position[s] = NotOpen /\ \A r \in asked : ~Opens(r.cmd, s)
        BY <1>2, <2>1, <2>3
      <3>2. ASSUME NEW i \in DOMAIN commands', Opens(commands'[i], s) PROVE FALSE
        <4>1. i + 1 = 1 /\ i \in Nat /\ i # 0
          BY <1>2, <2>1, <2>3, <3>2
        <4>. QED  BY <4>1
      <3>. QED  BY <3>1, <3>2
    <2>4. ASSUME NEW r \in asked', Opens(r.cmd, s)
          PROVE  /\ position[s] = NotOpen
                 /\ \A i \in DOMAIN commands' : ~Opens(commands'[i], s)
                 /\ \A q \in asked' : Opens(q.cmd, s) => q = r
      <3>1. CASE r \in asked
        <4>1. ~Opens(cmd, s)
          BY <1>2, <2>1, <2>4, <3>1
        <4>. QED  BY <1>1, <1>2, <1>3, <2>1, <2>4, <3>1, <4>1
      <3>2. CASE r = r0 /\ r0 \notin asked
        BY <1>1, <1>3, <2>3, <2>4, <3>2
      <3>. QED  BY <1>1, <2>4, <3>1, <3>2
    <2>. QED  BY <1>2, <2>1, <2>2, <2>4
  <1>9. OpenedOnce'
    BY <1>1, <1>8 DEF OpenedOnce
  <1>. QED  BY <1>5, <1>6, <1>7, <1>9 DEF Delivery, Line

-----------------------------------------------------------------------------
LEMMA ReportIsNone ==
    ASSUME NEW p \in Requests, NEW answer, NEW s PROVE Of(Report(p, answer), s) = {}
  <1>1. Of(<<[kind |-> "error", id |-> p.id]>>, s) = {}
    BY OneInOrder DEF Mine
  <1>2. Of(<<[kind |-> "result", session |-> p.cmd.of]>>, s) = {}
    BY OneInOrder DEF Mine
  <1>3. ASSUME NEW q, q = <<[kind |-> "capability", session |-> p.cmd.of],
                            [kind |-> "opened", session |-> p.cmd.of]>> \o <<>>
                   \/ q = <<[kind |-> "capability", session |-> p.cmd.of],
                            [kind |-> "opened", session |-> p.cmd.of]>> \o <<State("Live")>>
        PROVE  Of(q, s) = {}
    <2>1. \A i \in DOMAIN q : q[i].kind # "durable"
      BY <1>3 DEF State
    <2>. QED  BY <2>1 DEF Of
  <1>. QED  BY <1>1, <1>2, <1>3, NoneIsNone DEF Report

(* A frame taken is the first on its way. *)
LEMMA FrameIsFirst ==
    ASSUME IInv, NEW kind, NextFrame(kind)
    PROVE  /\ toClient \in Seq(Frames) /\ toClient # <<>> /\ toClient' = Tail(toClient)
           /\ Head(toClient).kind = kind /\ Head(toClient) \in Frames
           /\ outbox = <<>> /\ phase = "connected"
  BY TailElements DEF NextFrame, At, IInv, TypeOK

LEMMA OtherFrameDelivers ==
    ASSUME IInv, Delivery, HandleResponse \/ HandleDelta
    PROVE  Delivery'
  <1>1. PICK kind \in {"response", "delta"} : NextFrame(kind)
    BY DEF HandleResponse, HandleDelta
  <1>. DEFINE f == Head(toClient)
  <1>2. /\ UNCHANGED <<commands, events, applied, cursors, asked, up, position, ledger>>
        /\ toClient \in Seq(Frames) /\ toClient # <<>> /\ toClient' = Tail(toClient)
        /\ f.kind = kind /\ outbox = <<>>
    BY <1>1, FrameIsFirst DEF HandleResponse, HandleDelta, app
  <1>3. \A s : ~Mine(f, s)
    BY <1>2 DEF Mine
  <1>4. \A s \in Sessions : Of(outbox', s) = {}
    <2>1. CASE HandleDelta
      BY <1>3, <2>1, OneInOrder DEF HandleDelta
    <2>2. CASE HandleResponse
      <3>1. CASE Matching(f.id) = {}
        BY <1>2, <2>2, <3>1, NoneIsNone DEF HandleResponse
      <3>2. CASE Matching(f.id) # {}
        <4>1. PICK p \in Matching(f.id) : outbox' = Report(p, f.answer)
          <5>. DEFINE p == CHOOSE q \in Matching(f.id) : TRUE
          <5>1. p \in Matching(f.id)
            BY <3>2
          <5>. QED  BY <2>2, <3>2, <5>1 DEF HandleResponse
        <4>2. p \in Requests
          BY DEF Matching, IInv, TypeOK
        <4>. QED  BY <4>1, <4>2, ReportIsNone
      <3>. QED  BY <3>1, <3>2
    <2>. QED  BY <2>1, <2>2
  <1>. HIDE DEF f
  <1>5. NothingLost'
    BY <1>2, <1>4, NothingNew
  <1>6. ASSUME NEW s \in Sessions
        PROVE  /\ InOrder(toClient', s, cursors'[s])
               /\ \A c : Ends(toClient', s, cursors'[s], c) => Ends(toClient, s, cursors[s], c)
               /\ \A i \in Of(toClient', s) :
                     i + 1 \in Of(toClient, s) /\ toClient'[i] = toClient[i + 1]
    BY <1>2, <1>3, TakenOther, OfTaken DEF Delivery, Line, Incoming, f
  <1>7. Incoming' /\ Unfollowed'
    <2>1. Incoming'
      <3>. SUFFICES ASSUME NEW s \in Sessions
                    PROVE  /\ InOrder(toClient', s, cursors'[s])
                           /\ position'[s] # NotOpen => \A c \in Cursors :
                                 Ends(toClient', s, cursors'[s], c) => Follows(s, c, position'[s] + 1)
        BY DEF Incoming, InOrder, Ends, Of
      <3>. QED  BY <1>2, <1>6 DEF Delivery, Line, Incoming
    <2>2. Unfollowed'
      BY <1>2, <1>6 DEF Delivery, Line, Unfollowed, Of
    <2>. QED  BY <2>1, <2>2
  <1>8. OpenedOnce' /\ Hears' /\ Resumed'
    BY <1>2 DEF Delivery, Line, OpenedOnce, Hears, Resumed
  <1>9. Committed'
    <2>1. ASSUME NEW s \in Sessions PROVE Within(events, s)' /\ Within(outbox, s)' /\ Within(toClient, s)'
      BY <1>2, <1>4, <1>6 DEF Delivery, Committed, Within, Of
    <2>. QED  BY <1>2, <2>1 DEF Delivery, Committed
  <1>. QED  BY <1>5, <1>7, <1>8, <1>9 DEF Delivery, Line

(* The next notification of its session, whose cursor is written first. *)
LEMMA DurableDelivers == ASSUME IInv, Delivery, HandleDurable PROVE Delivery'
  <1>. DEFINE f == Head(toClient)
  <1>1. /\ cursors' = [cursors EXCEPT ![f.session] = f.cursor] /\ outbox' = <<f>>
        /\ UNCHANGED <<commands, events, applied, asked, up, position, ledger>>
        /\ NextFrame("durable")
    BY DEF HandleDurable, app
  <1>2. /\ toClient \in Seq(Frames) /\ toClient # <<>> /\ toClient' = Tail(toClient)
        /\ f.kind = "durable" /\ f \in Frames /\ outbox = <<>>
    BY <1>1, FrameIsFirst
  <1>3. f.session \in Sessions /\ f.cursor \in Cursors
    BY <1>2 DEF Frames
  <1>4. /\ \A s \in Sessions : Mine(f, s) <=> s = f.session
        /\ \A s \in Sessions : cursors'[s] = IF s = f.session THEN f.cursor ELSE cursors[s]
    BY <1>1, <1>2, <1>3 DEF Mine, IInv, TypeOK
  <1>5. \A s \in Sessions : Mine(f, s) => 1 \in Of(toClient, s) /\ f = toClient[1]
    BY <1>2, OfTaken
  <1>6. ASSUME NEW s \in Sessions
        PROVE  \A i \in Of(toClient', s) :
                 i + 1 \in Of(toClient, s) /\ toClient'[i] = toClient[i + 1]
    BY <1>2, OfTaken
  <1>7. ASSUME NEW s \in Sessions
        PROVE  /\ Mine(f, s) => Follows(s, cursors[s], f.cursor)
               /\ InOrder(toClient', s, cursors'[s])
               /\ \A c : Ends(toClient', s, cursors'[s], c) => Ends(toClient, s, cursors[s], c)
    <2>1. InOrder(toClient, s, cursors[s])
      BY DEF Delivery, Line, Incoming
    <2>2. CASE Mine(f, s)
      BY <1>2, <1>4, <2>1, <2>2, TakenNext
    <2>3. CASE ~Mine(f, s)
      BY <1>2, <1>4, <2>1, <2>3, TakenOther
    <2>. QED  BY <2>2, <2>3
  <1>. HIDE DEF f
  <1>8. ASSUME NEW s \in Sessions
        PROVE  \E mid \in Cursors :
                 /\ InOrder(events, s, applied[s]) /\ Ends(events, s, applied[s], mid)
                 /\ InOrder(outbox', s, mid) /\ Ends(outbox', s, mid, cursors'[s])
    <2>1. PICK mid \in Cursors :
            /\ InOrder(events, s, applied[s]) /\ Ends(events, s, applied[s], mid)
            /\ Ends(<<>>, s, mid, cursors[s])
      BY <1>2 DEF Delivery, NothingLost
    <2>2. mid = cursors[s]
      BY <2>1, EmptyInOrder
    <2>3. CASE Mine(f, s)
      <3>1. InOrder(outbox', s, mid) /\ Ends(outbox', s, mid, f.cursor)
        BY <1>1, <1>7, <2>2, <2>3, OneInOrder
      <3>. QED  BY <1>4, <2>1, <2>3, <3>1
    <2>4. CASE ~Mine(f, s)
      <3>1. InOrder(outbox', s, mid) /\ Ends(outbox', s, mid, mid)
        BY <1>1, <2>4, OneInOrder
      <3>. QED  BY <1>4, <2>1, <2>2, <2>4, <3>1
    <2>. QED  BY <2>3, <2>4
  <1>9. NothingLost'
    BY <1>1, <1>8 DEF NothingLost, InOrder, Ends, Of
  <1>10. Incoming'
    BY <1>1, <1>7 DEF Delivery, Line, Incoming, InOrder, Ends, Of
  <1>11. Unfollowed'
    BY <1>1, <1>6 DEF Delivery, Line, Unfollowed, Of
  <1>12. Resumed'
    <2>1. ASSUME NEW r \in asked, NEW s \in Sessions, Opens(r.cmd, s) PROVE ~Mine(f, s)
      <3>1. position[s] = NotOpen /\ up
        BY <2>1 DEF Delivery, Line, OpenedOnce, Hears
      <3>2. Of(toClient, s) = {}
        BY <3>1 DEF Delivery, Line, Unfollowed
      <3>. QED  BY <1>5, <3>2
    <2>. QED  BY <1>1, <1>4, <2>1 DEF Delivery, Line, Resumed
  <1>13. OpenedOnce' /\ Hears'
    BY <1>1 DEF Delivery, Line, OpenedOnce, Hears
  <1>14. Committed'
    <2>1. ASSUME NEW s \in Sessions
          PROVE  /\ cursors'[s] <= ledger[s]
                 /\ Within(events, s)' /\ Within(outbox, s)' /\ Within(toClient, s)'
      <3>1. Within(events, s) /\ Within(toClient, s) /\ cursors[s] <= ledger[s]
        BY DEF Delivery, Committed
      <3>2. Mine(f, s) => f.cursor \in Cursors /\ f.cursor <= ledger[s]
        BY <1>5, <3>1 DEF Within
      <3>3. \A i \in Of(outbox', s) : Mine(f, s) /\ outbox'[i] = f
        BY <1>1, OneInOrder
      <3>4. Within(events, s)' /\ Within(toClient, s)'
        BY <1>1, <1>6, <3>1 DEF Within, Of
      <3>5. Within(outbox, s)'
        BY <1>1, <3>2, <3>3 DEF Within
      <3>. QED  BY <1>4, <3>1, <3>2, <3>4, <3>5
    <2>. QED  BY <1>1, <2>1 DEF Delivery, Committed
  <1>. QED  BY <1>9, <1>10, <1>11, <1>12, <1>13, <1>14 DEF Delivery, Line

-----------------------------------------------------------------------------
(*                    The server and the network, again                    *)

(* A frame delivered is the next of its session, or of none. *)
LEMMA FrameDelivers ==
    ASSUME IInv, Delivery, NEW f \in Frames, toClient' = Append(toClient, f), up,
           UNCHANGED <<app, task, asked, up, ledger>>,
           \A s \in Sessions : Mine(f, s) =>
              /\ position[s] # NotOpen /\ f.cursor = position[s] + 1 /\ f.cursor <= ledger[s]
              /\ position'[s] = f.cursor,
           \A s \in Sessions : ~Mine(f, s) => position'[s] = position[s]
    PROVE  Delivery'
  <1>1. /\ UNCHANGED <<commands, events, outbox, applied, cursors, asked, up, ledger>>
        /\ toClient \in Seq(Frames)
    BY DEF app, task, IInv, TypeOK
  <1>2. NothingLost'
    BY <1>1, LostStays
  <1>3. ASSUME NEW s \in Sessions, Mine(f, s)
        PROVE  /\ f.cursor \in Cursors /\ f.cursor # NotOpen /\ f.cursor <= ledger[s]
               /\ \A c \in Cursors : Ends(toClient, s, cursors[s], c) => Follows(s, c, f.cursor)
    <2>1. f.cursor \in Cursors
      BY <1>3 DEF Mine, Frames
    <2>2. position[s] # NotOpen /\ f.cursor = position[s] + 1 /\ f.cursor <= ledger[s]
      BY <1>3
    <2>. QED  BY <2>1, <2>2, CursorTypes DEF Delivery, Line, Incoming
  <1>4. ASSUME NEW s \in Sessions, Mine(f, s)
        PROVE  /\ InOrder(toClient', s, cursors'[s])
               /\ \A c : Ends(toClient', s, cursors'[s], c) => c = f.cursor
    <2>1. InOrder(toClient, s, cursors[s]) /\ Within(toClient, s) /\ cursors[s] \in Cursors
      BY DEF Delivery, Line, Incoming, Committed, IInv, TypeOK
    <2>2. \A i \in Of(toClient, s) : (\A j \in Of(toClient, s) : j <= i) =>
            Ends(toClient, s, cursors[s], toClient[i].cursor)
      <3>. SUFFICES ASSUME NEW i \in Of(toClient, s), \A j \in Of(toClient, s) : j <= i
                    PROVE  Ends(toClient, s, cursors[s], toClient[i].cursor)
        OBVIOUS
      <3>1. Of(toClient, s) \subseteq Int
        BY <1>1 DEF Of
      <3>2. ASSUME NEW k \in Of(toClient, s), \A j \in Of(toClient, s) : j <= k PROVE k = i
        BY <3>1, <3>2
      <3>. QED  BY <3>2 DEF Ends
    <2>3. \A i \in Of(toClient, s) : (\A j \in Of(toClient, s) : j <= i) =>
            Follows(s, toClient[i].cursor, f.cursor)
      BY <1>3, <1>4, <2>1, <2>2 DEF Within
    <2>4. Of(toClient, s) = {} => Follows(s, cursors[s], f.cursor)
      BY <1>3, <1>4, <2>1, NoneOfIt
    <2>. QED  BY <1>1, <1>4, <2>1, <2>3, <2>4, AppendedNext
  <1>5. ASSUME NEW s \in Sessions, ~Mine(f, s)
        PROVE  /\ InOrder(toClient', s, cursors'[s]) /\ Of(toClient', s) = Of(toClient, s)
               /\ \A c : Ends(toClient', s, cursors'[s], c) => Ends(toClient, s, cursors[s], c)
    <2>1. InOrder(toClient, s, cursors[s])
      BY DEF Delivery, Line, Incoming
    <2>. QED  BY <1>1, <1>5, <2>1, AppendedOther, OfAppended
  <1>6. Incoming'
    <2>. SUFFICES ASSUME NEW s \in Sessions
                  PROVE  /\ InOrder(toClient', s, cursors'[s])
                         /\ position'[s] # NotOpen => \A c \in Cursors :
                               Ends(toClient', s, cursors'[s], c) => Follows(s, c, position'[s] + 1)
      BY DEF Incoming, InOrder, Ends, Of
    <2>1. CASE Mine(f, s)
      <3>1. Follows(s, f.cursor, f.cursor + 1)
        BY <1>3, <2>1, CursorTypes DEF Follows
      <3>. QED  BY <1>4, <2>1, <3>1
    <2>2. CASE ~Mine(f, s)
      BY <1>5, <2>2 DEF Delivery, Line, Incoming
    <2>. QED  BY <2>1, <2>2
  <1>7. Unfollowed'
    <2>. SUFFICES ASSUME NEW s \in Sessions, position'[s] = NotOpen PROVE Of(toClient', s) = {}
      BY DEF Unfollowed, Of
    <2>1. ~Mine(f, s)
      BY <1>3
    <2>. QED  BY <1>5, <2>1 DEF Delivery, Line, Unfollowed
  <1>8. \A s \in Sessions : position'[s] = NotOpen <=> position[s] = NotOpen
    BY <1>3
  <1>9. OpenedOnce' /\ Hears' /\ Resumed'
    BY <1>1, <1>8 DEF Delivery, Line, OpenedOnce, Hears, Resumed
  <1>10. Committed'
    <2>1. ASSUME NEW s \in Sessions
          PROVE  /\ Within(events, s)' /\ Within(outbox, s)' /\ Within(toClient, s)'
                 /\ position'[s] # NotOpen => position'[s] <= ledger[s]
      <3>1. /\ Within(events, s) /\ Within(outbox, s) /\ Within(toClient, s)
            /\ position[s] # NotOpen => position[s] <= ledger[s]
        BY DEF Delivery, Committed
      <3>2. \A i \in Of(toClient', s) :
              \/ i \in Of(toClient, s) /\ toClient'[i] = toClient[i]
              \/ Mine(f, s) /\ toClient'[i] = f
        BY <1>1, OfAppended
      <3>3. Within(toClient, s)'
        BY <1>1, <1>3, <3>1, <3>2 DEF Within
      <3>. QED  BY <1>1, <1>3, <3>1, <3>3 DEF Within, Of
    <2>. QED  BY <1>1, <2>1 DEF Delivery, Committed
  <1>. QED  BY <1>2, <1>6, <1>7, <1>9, <1>10 DEF Delivery, Line

LEMMA NotifyDelivers == ASSUME IInv, Delivery, NEW s \in Sessions, Notify(s) PROVE Delivery'
  <1>. DEFINE f == [kind |-> "durable", session |-> s, cursor |-> position[s] + 1]
  <1>1. /\ up /\ position[s] < ledger[s] /\ position' = [position EXCEPT ![s] = position[s] + 1]
        /\ toClient' = Append(toClient, f) /\ UNCHANGED <<app, task, asked, up, ledger>>
    BY DEF Notify, Deliver
  <1>2. /\ position[s] \in Nat /\ position[s] + 1 \in Cursors /\ position[s] # NotOpen
        /\ position[s] + 1 <= ledger[s]
    BY <1>1, NumbersAssumption DEF IInv, TypeOK, Cursors, NotOpen
  <1>3. f \in Frames /\ f.cursor = position[s] + 1 /\ \A x : Mine(f, x) <=> x = s
    BY <1>2 DEF Frames, Mine
  <1>. HIDE DEF f
  <1>4. \A x \in Sessions : position'[x] = IF x = s THEN f.cursor ELSE position[x]
    BY <1>1, <1>3 DEF IInv, TypeOK
  <1>. QED  BY <1>1, <1>2, <1>3, <1>4, FrameDelivers

LEMMA NotifyDeltaDelivers == ASSUME IInv, Delivery, NotifyDelta PROVE Delivery'
  <1>. DEFINE f == [kind |-> "delta"]
  <1>1. f \in Frames /\ \A x : ~Mine(f, x)
    BY DEF Frames, Mine
  <1>2. /\ up /\ toClient' = Append(toClient, f)
        /\ UNCHANGED <<app, task, asked, up, position, ledger>>
    BY DEF NotifyDelta, Deliver
  <1>. HIDE DEF f
  <1>. QED  BY <1>1, <1>2, FrameDelivers

LEMMA PublishDelivers == ASSUME IInv, Delivery, NEW s \in Sessions, Publish(s) PROVE Delivery'
  <1>1. /\ UNCHANGED <<commands, events, outbox, applied, cursors, asked, toClient, up, position>>
        /\ ledger' = [ledger EXCEPT ![s] = ledger[s] + 1]
    BY DEF Publish, app, task
  <1>2. Line' /\ NothingLost'
    BY <1>1, LineStays, LostStays
  <1>3. ASSUME NEW x \in Sessions
        PROVE  /\ ledger[x] \in Nat /\ ledger'[x] \in Nat /\ ledger[x] <= ledger'[x]
               /\ applied[x] \in Nat /\ cursors[x] \in Nat /\ position[x] \in Nat
    <2>1. ledger[x] \in Nat /\ applied[x] \in Nat /\ cursors[x] \in Nat /\ position[x] \in Nat
      BY CursorTypes DEF IInv, TypeOK
    <2>2. ledger'[x] = IF x = s THEN ledger[x] + 1 ELSE ledger[x]
      BY <1>1 DEF IInv, TypeOK
    <2>. QED  BY <2>1, <2>2
  <1>4. ASSUME NEW x \in Sessions
        PROVE  /\ applied[x] <= ledger'[x] /\ cursors[x] <= ledger'[x]
               /\ position[x] # NotOpen => position[x] <= ledger'[x]
               /\ Within(events, x)' /\ Within(outbox, x)' /\ Within(toClient, x)'
    <2>1. /\ applied[x] <= ledger[x] /\ cursors[x] <= ledger[x]
          /\ position[x] # NotOpen => position[x] <= ledger[x]
          /\ Within(events, x) /\ Within(outbox, x) /\ Within(toClient, x)
      BY DEF Delivery, Committed
    <2>2. \A c \in Cursors : c <= ledger[x] => c <= ledger'[x]
      BY <1>3, CursorTypes
    <2>3. Within(events, x)' /\ Within(outbox, x)' /\ Within(toClient, x)'
      BY <1>1, <2>1, <2>2 DEF Within, Of
    <2>. QED  BY <1>3, <2>1, <2>3
  <1>5. Committed'
    BY <1>1, <1>4 DEF Committed
  <1>. QED  BY <1>2, <1>5 DEF Delivery

(* A session is followed from where the app has been brought. *)
LEMMA AnswerDelivers ==
    ASSUME IInv, Delivery, NEW r \in asked, NEW answer \in Answers, Answer(r, answer)
    PROVE  Delivery'
  <1>. DEFINE f == [kind |-> "response", id |-> r.id, answer |-> answer]
              granted == r.cmd.kind = "open" /\ answer # "err"
              o == r.cmd.of
  <1>1. /\ up /\ toClient' = Append(toClient, f) /\ asked' = asked \ {r}
        /\ granted => ~(r.after > ledger[o])
        /\ position' = IF granted
                       THEN [position EXCEPT ![o] = IF r.after = 0 THEN ledger[o] ELSE r.after]
                       ELSE position
        /\ UNCHANGED <<commands, events, outbox, applied, cursors, up, ledger>>
    BY DEF Answer, Deliver, app, task
  <1>2. /\ r.id \in Ids /\ r.after \in 0..NotOpen /\ toClient \in Seq(Frames)
        /\ granted => o \in Sessions
    BY CommandType DEF IInv, TypeOK, Asked, IsCall
  <1>3. f \in Frames /\ \A s : ~Mine(f, s)
    BY <1>2 DEF Frames, Mine
  <1>. HIDE DEF f
  <1>4. ASSUME granted
        PROVE  /\ o \in Sessions /\ Opens(r.cmd, o) /\ position[o] = NotOpen
               /\ (\A i \in DOMAIN commands : ~Opens(commands[i], o))
               /\ (\A q \in asked : Opens(q.cmd, o) => q = r)
               /\ Of(toClient, o) = {}
    BY <1>1, <1>2, <1>4 DEF Opens, Delivery, Line, OpenedOnce, Unfollowed
  <1>5. ASSUME granted
        PROVE  /\ position'[o] \in Nat /\ position'[o] <= ledger[o] /\ position'[o] # NotOpen
               /\ Follows(o, cursors[o], position'[o] + 1)
    <2>1. /\ ledger[o] \in Cursors /\ ledger[o] \in Nat /\ cursors[o] \in Nat /\ r.after \in Nat
          /\ cursors[o] <= ledger[o]
      BY <1>2, <1>5, CursorTypes DEF IInv, TypeOK, Delivery, Committed
    <2>2. position'[o] = IF r.after = 0 THEN ledger[o] ELSE r.after
      BY <1>1, <1>2, <1>5 DEF IInv, TypeOK
    <2>3. IF o \in FreshSessions THEN r.after = 0 ELSE cursors[o] # 0 => r.after = cursors[o]
      BY <1>4, <1>5 DEF Delivery, Line, Resumed
    <2>4. r.after <= ledger[o]
      BY <1>1, <1>5, <2>1
    <2>5. position'[o] \in Nat /\ position'[o] <= ledger[o]
      BY <2>1, <2>2, <2>4
    <2>6. position'[o] # NotOpen
      BY <2>1, <2>5, NumbersAssumption DEF Cursors, NotOpen
    <2>7. Follows(o, cursors[o], position'[o] + 1)
      BY <2>1, <2>2, <2>3 DEF Follows
    <2>. QED  BY <2>5, <2>6, <2>7
  <1>6. ASSUME NEW s \in Sessions, ~(granted /\ s = o) PROVE position'[s] = position[s]
    BY <1>1, <1>6
  <1>. HIDE DEF granted, o
  <1>7. NothingLost'
    BY <1>1, LostStays
  <1>8. ASSUME NEW s \in Sessions
        PROVE  /\ InOrder(toClient', s, cursors'[s]) /\ Of(toClient', s) = Of(toClient, s)
               /\ \A i \in Of(toClient, s) : toClient'[i] = toClient[i]
               /\ \A c : Ends(toClient', s, cursors'[s], c) => Ends(toClient, s, cursors[s], c)
    BY <1>1, <1>2, <1>3, AppendedOther, OfAppended DEF Delivery, Line, Incoming
  <1>9. Incoming'
    <2>. SUFFICES ASSUME NEW s \in Sessions
                  PROVE  /\ InOrder(toClient', s, cursors'[s])
                         /\ position'[s] # NotOpen => \A c \in Cursors :
                               Ends(toClient', s, cursors'[s], c) => Follows(s, c, position'[s] + 1)
      BY DEF Incoming, InOrder, Ends, Of
    <2>1. CASE granted /\ s = o
      BY <1>4, <1>5, <1>8, <2>1, NoneOfIt
    <2>2. CASE ~(granted /\ s = o)
      BY <1>6, <1>8, <2>2 DEF Delivery, Line, Incoming
    <2>. QED  BY <2>1, <2>2
  <1>10. Unfollowed'
    <2>. SUFFICES ASSUME NEW s \in Sessions, position'[s] = NotOpen PROVE Of(toClient', s) = {}
      BY DEF Unfollowed, Of
    <2>1. position[s] = NotOpen
      BY <1>5, <1>6
    <2>. QED  BY <1>1, <1>8, <2>1 DEF Delivery, Line, Unfollowed
  <1>11. OpenedOnce'
    <2>1. ASSUME NEW s \in Sessions, NEW q \in asked', Opens(q.cmd, s)
          PROVE  position'[s] = position[s]
      <3>1. q # r /\ q \in asked
        BY <1>1
      <3>. QED  BY <1>4, <1>6, <2>1, <3>1
    <2>2. ASSUME NEW s \in Sessions, NEW i \in DOMAIN commands, Opens(commands[i], s)
          PROVE  position'[s] = position[s]
      BY <1>4, <1>6, <2>2
    <2>. QED  BY <1>1, <2>1, <2>2 DEF Delivery, Line, OpenedOnce
  <1>12. Hears' /\ Resumed'
    BY <1>1 DEF Delivery, Line, Hears, Resumed
  <1>13. Committed'
    <2>1. ASSUME NEW s \in Sessions
          PROVE  /\ position'[s] # NotOpen => position'[s] <= ledger[s]
                 /\ Within(events, s)' /\ Within(outbox, s)' /\ Within(toClient, s)'
      <3>1. /\ position[s] # NotOpen => position[s] <= ledger[s]
            /\ Within(events, s) /\ Within(outbox, s) /\ Within(toClient, s)
        BY DEF Delivery, Committed
      <3>2. Within(events, s)' /\ Within(outbox, s)'
        BY <1>1, <3>1 DEF Within, Of
      <3>3. Within(toClient, s)'
        BY <1>1, <1>8, <3>1 DEF Within
      <3>. QED  BY <1>5, <1>6, <3>1, <3>2, <3>3
    <2>. QED  BY <1>1, <2>1 DEF Delivery, Committed
  <1>. QED  BY <1>7, <1>9, <1>10, <1>11, <1>12, <1>13 DEF Delivery, Line

(* What the connection had under way is cut at some point; the rest is in order. *)
LEMMA BreakDelivers == ASSUME IInv, Delivery, Break PROVE Delivery'
  <1>1. PICK n \in 0..Len(toClient) : toClient' = SubSeq(toClient, 1, n)
    BY DEF Break
  <1>2. /\ up' = FALSE /\ asked' = {} /\ (\A s \in Sessions : position'[s] = NotOpen)
        /\ UNCHANGED <<commands, events, outbox, applied, cursors, ledger>>
        /\ toClient \in Seq(Frames)
    BY DEF Break, app, task, IInv, TypeOK
  <1>3. NothingLost'
    BY <1>2, LostStays
  <1>4. Incoming'
    <2>. SUFFICES ASSUME NEW s \in Sessions PROVE InOrder(toClient', s, cursors'[s])
      BY <1>2 DEF Incoming, InOrder, Ends, Of
    <2>1. InOrder(toClient, s, cursors[s])
      BY DEF Delivery, Line, Incoming
    <2>. QED  BY <1>1, <1>2, <2>1, CutInOrder
  <1>5. OpenedOnce' /\ Hears' /\ Unfollowed' /\ Resumed'
    BY <1>2 DEF Delivery, Line, OpenedOnce, Hears, Unfollowed, Resumed
  <1>6. Committed'
    <2>1. ASSUME NEW s \in Sessions
          PROVE  Within(events, s)' /\ Within(outbox, s)' /\ Within(toClient, s)'
      <3>1. \A i \in DOMAIN toClient' : i \in DOMAIN toClient /\ toClient'[i] = toClient[i]
        BY <1>1, <1>2, PrefixElements
      <3>2. Within(toClient, s)'
        BY <1>2, <3>1 DEF Delivery, Committed, Within, Of
      <3>. QED  BY <1>2, <3>2 DEF Delivery, Committed, Within, Of
    <2>. QED  BY <1>2, <2>1 DEF Delivery, Committed
  <1>. QED  BY <1>3, <1>4, <1>5, <1>6 DEF Delivery, Line

-----------------------------------------------------------------------------
LEMMA DeliveryInit == Init => Delivery
  <1>. SUFFICES ASSUME Init PROVE Delivery
    OBVIOUS
  <1>1. /\ commands = <<>> /\ events = <<>> /\ outbox = <<State("Idle")>> /\ asked = {}
        /\ toClient = <<>> /\ up = FALSE
        /\ \A s \in Sessions : /\ position[s] = NotOpen /\ cursors[s] \in Cursors
                               /\ applied[s] = cursors[s] /\ ledger[s] = cursors[s]
    BY DEF Init
  <1>2. \A s : Of(outbox, s) = {} /\ Of(events, s) = {} /\ Of(toClient, s) = {}
    BY <1>1, StateIsNone, NoneIsNone
  <1>3. Line
    BY <1>1, <1>2, NoneOfIt DEF Line, OpenedOnce, Hears, Unfollowed, Incoming, Resumed
  <1>4. NothingLost
    BY <1>1, <1>2, NoneOfIt DEF NothingLost
  <1>5. Committed
    <2>. SUFFICES ASSUME NEW s \in Sessions
                  PROVE  /\ applied[s] <= ledger[s] /\ cursors[s] <= ledger[s]
                         /\ position[s] # NotOpen => position[s] <= ledger[s]
                         /\ Within(events, s) /\ Within(outbox, s) /\ Within(toClient, s)
      BY DEF Committed
    <2>1. cursors[s] \in Nat
      BY <1>1, NumbersAssumption DEF Cursors
    <2>2. applied[s] <= ledger[s] /\ cursors[s] <= ledger[s]
      BY <1>1, <2>1
    <2>3. Within(events, s) /\ Within(outbox, s) /\ Within(toClient, s)
      BY <1>2 DEF Within
    <2>. QED  BY <1>1, <2>2, <2>3
  <1>. QED  BY <1>3, <1>4, <1>5 DEF Delivery

LEMMA DeliveryStep == IInv /\ Delivery /\ [Next]_vars => Delivery'
  <1>. SUFFICES ASSUME IInv, Delivery, [Next]_vars PROVE Delivery'
    OBVIOUS
  <1>1. ASSUME UNCHANGED vars PROVE Delivery'
    <2>1. UNCHANGED <<commands, asked, toClient, up, position, cursors, events, outbox, applied, ledger>>
      BY <1>1 DEF vars, moving, app, task, server
    <2>. QED  BY <2>1, LineStays, CommittedStays, LostStays DEF Delivery
  <1>2. ASSUME NEW cmd \in Commands \union {Disconnect}, Post(cmd) PROVE Delivery'
    BY <1>2, PostDelivers
  <1>3. ASSUME Consume \/ Emit PROVE Delivery'
    BY <1>3, ConsumeDelivers, EmitDelivers
  <1>4. ASSUME Dial \/ Wake \/ Connect PROVE Delivery'
    BY <1>4, ConnectingDelivers
  <1>5. ASSUME NEW d, Misconfigured \/ DialFails(d) \/ StreamEnds(d) \/ SendFails(d) \/ TakeDisconnect
        PROVE  Delivery'
    BY <1>5, LossDelivers
  <1>6. ASSUME SendCommand PROVE Delivery'
    BY <1>6, SendDelivers
  <1>7. ASSUME FrameHandled PROVE Delivery'
    BY <1>7, OtherFrameDelivers, DurableDelivers DEF FrameHandled
  <1>8. ASSUME NEW r \in asked, NEW a \in Answers, Answer(r, a) PROVE Delivery'
    BY <1>8, AnswerDelivers
  <1>9. ASSUME NEW s \in Sessions, Publish(s) \/ Notify(s) PROVE Delivery'
    BY <1>9, PublishDelivers, NotifyDelivers
  <1>10. ASSUME NotifyDelta \/ Break PROVE Delivery'
    BY <1>10, NotifyDeltaDelivers, BreakDelivers
  <1>. QED
    BY <1>1, <1>2, <1>3, <1>4, <1>5, <1>6, <1>7, <1>8, <1>9, <1>10 DEF Next, DialEnds, CommandTaken

-----------------------------------------------------------------------------
(* The transport's variables keep their types, for any number of sessions, *)
(* calls and breaks; ids never run past the commands posted.               *)
THEOREM TypeCorrect == Spec => []TypeOK
  <1>1. IInv => TypeOK
    BY DEF IInv
  <1>. QED  BY <1>1, Initially, Inductive, PTL DEF Spec

(* No caller ever gets the answer to another request (SharedState.pending, *)
(* RpcRegistry's ids), however many connections break under it.            *)
THEOREM RepliesAreTheirs == Spec => []RepliesMatch
  <1>1. IInv => RepliesMatch
    BY DEF IInv
  <1>. QED  BY <1>1, Initially, Inductive, PTL DEF Spec

(* A transport that says Live has a session open on this connection        *)
(* (run_live's state, reset by each handshake).                            *)
THEOREM LiveIsOpened == Spec => []LiveMeansOpened
  <1>1. IInv => LiveMeansOpened
    BY DEF IInv
  <1>. QED  BY <1>1, Initially, Inductive, PTL DEF Spec

(* Every durable notification reaches the app once and in its turn, across *)
(* full channels and broken connections (try_emit, handle_notification,    *)
(* the replay bracket of build_outbound).                                  *)
THEOREM NothingIsLost == Spec => []NothingLost
  <1>1. Init => IInv /\ Delivery
    BY Initially, DeliveryInit
  <1>2. IInv /\ Delivery /\ [Next]_vars => (IInv /\ Delivery)'
    BY Inductive, DeliveryStep
  <1>3. Delivery => NothingLost
    BY DEF Delivery
  <1>. QED  BY <1>1, <1>2, <1>3, PTL DEF Spec

-----------------------------------------------------------------------------
(* The transport and its server implement DurableStreams. *)
Streams == INSTANCE DurableStreams WITH committed <- ledger, consumed <- applied

LEMMA StreamsInit == Init => Streams!Init
  <1>. SUFFICES ASSUME Init PROVE Streams!Init
    OBVIOUS
  <1>1. PICK c \in [Sessions -> {0, 1} \intersect Cursors] : applied = c /\ ledger = c
    BY DEF Init
  <1>2. c \in [Sessions -> 0..MaxCursor]
    BY DEF Cursors
  <1>. QED  BY <1>1, <1>2 DEF Streams!Init

(* A durable notification taken from the channel is the next one. *)
LEMMA ConsumeStreams == ASSUME IInv, Delivery, Consume PROVE [Streams!Next]_(Streams!vars)
  <1>. DEFINE e == Head(events)
  <1>1. /\ events # <<>> /\ events \in Seq(Events) /\ ledger' = ledger
        /\ applied' = IF e.kind = "durable" THEN [applied EXCEPT ![e.session] = e.cursor] ELSE applied
    BY DEF Consume, server, IInv, TypeOK
  <1>2. e \in Events /\ e = events[1] /\ 1 \in DOMAIN events
        /\ \A i \in DOMAIN events : i \in Nat /\ 1 <= i
    BY <1>1
  <1>. HIDE DEF e
  <1>3. CASE e.kind # "durable"
    BY <1>1, <1>3 DEF Streams!vars
  <1>4. CASE e.kind = "durable"
    <2>1. e.session \in Sessions /\ e.cursor \in Cursors
      BY <1>2, <1>4 DEF Events
    <2>. DEFINE s == e.session
    <2>2. 1 \in Of(events, s) /\ \A j \in Of(events, s) : 1 <= j
      BY <1>2, <1>4 DEF Of
    <2>3. Follows(s, applied[s], e.cursor) /\ e.cursor <= ledger[s]
      <3>1. InOrder(events, s, applied[s]) /\ Within(events, s)
        BY <2>1 DEF Delivery, NothingLost, Committed
      <3>. QED  BY <1>2, <2>2, <3>1 DEF InOrder, Within
    <2>4. applied[s] \in Nat /\ ledger[s] \in Nat /\ e.cursor \in Nat
      BY <2>1, NumbersAssumption DEF IInv, TypeOK, Cursors
    <2>5. e.cursor \in applied[s] + 1..ledger[s]
      BY <2>3, <2>4 DEF Follows
    <2>6. ~Streams!Skips(s) => e.cursor = applied[s] + 1
      BY <2>3 DEF Follows, Streams!Skips
    <2>7. applied' = [applied EXCEPT ![s] = e.cursor]
      BY <1>1, <1>4
    <2>8. Streams!Consume(s)
      BY <1>1, <2>5, <2>6, <2>7 DEF Streams!Consume
    <2>. QED  BY <2>1, <2>8 DEF Streams!Next
  <1>. QED  BY <1>3, <1>4

LEMMA StreamsStep == IInv /\ Delivery /\ [Next]_vars => [Streams!Next]_(Streams!vars)
  <1>. SUFFICES ASSUME IInv, Delivery, [Next]_vars PROVE [Streams!Next]_(Streams!vars)
    OBVIOUS
  <1>1. ASSUME UNCHANGED <<applied, ledger>> PROVE [Streams!Next]_(Streams!vars)
    BY <1>1 DEF Streams!vars
  <1>2. CASE UNCHANGED vars
    BY <1>1, <1>2 DEF vars, moving, app, server
  <1>3. ASSUME NEW cmd \in Commands \union {Disconnect}, Post(cmd) PROVE UNCHANGED <<applied, ledger>>
    BY <1>3 DEF Post, server
  <1>4. ASSUME Emit \/ Dial \/ Wake \/ Connect \/ SendCommand PROVE UNCHANGED <<applied, ledger>>
    BY <1>4 DEF Emit, Dial, Wake, Connect, SendCommand, app, server
  <1>5. ASSUME NEW d, Misconfigured \/ DialFails(d) \/ StreamEnds(d) \/ SendFails(d) \/ TakeDisconnect
        PROVE  UNCHANGED <<applied, ledger>>
    BY <1>5 DEF Misconfigured, DialFails, StreamEnds, SendFails, TakeDisconnect, Reconnect, Fail,
                Close, NoConnection
  <1>6. ASSUME FrameHandled PROVE UNCHANGED <<applied, ledger>>
    BY <1>6 DEF FrameHandled, HandleResponse, HandleDurable, HandleDelta, app
  <1>7. ASSUME NEW r \in asked, NEW a \in Answers, Answer(r, a) PROVE UNCHANGED <<applied, ledger>>
    BY <1>7 DEF Answer, app
  <1>8. ASSUME NEW s \in Sessions, Notify(s) PROVE UNCHANGED <<applied, ledger>>
    BY <1>8 DEF Notify, app
  <1>9. ASSUME NotifyDelta \/ Break PROVE UNCHANGED <<applied, ledger>>
    BY <1>9 DEF NotifyDelta, Break, app
  <1>10. ASSUME NEW s \in Sessions, Publish(s) PROVE [Streams!Next]_(Streams!vars)
    <2>1. Streams!Commit(s)
      BY <1>10 DEF Publish, app, Streams!Commit
    <2>. QED  BY <2>1 DEF Streams!Next
  <1>. QED
    BY <1>1, <1>2, <1>3, <1>4, <1>5, <1>6, <1>7, <1>8, <1>9, <1>10, ConsumeStreams
    DEF Next, DialEnds, CommandTaken

(* The app consumes each session's notifications in the server's order,    *)
(* none missing and none twice, as DurableStreams has it.                  *)
THEOREM ImplementsStreams == Spec => Streams!Spec
  <1>1. Init => IInv /\ Delivery /\ Streams!Init
    BY Initially, DeliveryInit, StreamsInit
  <1>2. IInv /\ Delivery /\ [Next]_vars => (IInv /\ Delivery)'
    BY Inductive, DeliveryStep
  <1>. QED  BY <1>1, <1>2, StreamsStep, PTL DEF Spec, Streams!Spec
=============================================================================

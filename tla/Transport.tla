----------------------------- MODULE Transport -----------------------------
(***************************************************************************)
(* The transport task of octos-app-transport: one task between the app and *)
(* the octos server, over a WebSocket (ws/mod.rs) or the pipes of a child  *)
(* process (stdio/mod.rs), with the protocol core they share (proto.rs)    *)
(* and the ids of jsonrpc/mod.rs.                                          *)
(*                                                                         *)
(* The app posts commands into a bounded channel and consumes events from  *)
(* another; the task is in exactly one place of its loop at a time, and    *)
(* `outbox' holds the events it still has to send before it goes on.       *)
(* Durable notifications are awaited, everything else is dropped when the  *)
(* event channel is full.  The server answers requests in any order, keeps *)
(* a ledger of numbered notifications per session, and may drop the        *)
(* connection at any time.                                                 *)
(*                                                                         *)
(* Frames the task only logs (heartbeats, text it cannot parse, unknown    *)
(* methods, server requests, pings) change nothing and are left out.       *)
(***************************************************************************)
EXTENDS Naturals, Sequences, FiniteSets

CONSTANTS
    Transports,     \* "ws", which reconnects, "stdio", or both
    Sessions,       \* session keys
    FreshSessions,  \* those the app opens with OpenSessionFresh
    Calls,          \* commands that carry a oneshot reply (approval/respond...)
    CmdCap,         \* CHANNEL_BUFFER of the command channel
    EvtCap,         \* CHANNEL_BUFFER of the event channel
    MaxExp,         \* exponent at which the backoff stops growing
    Budget,         \* RECONNECT_BUDGET, in seconds
    Seed,           \* TransportConfig.cursor; 0 is None
    MaxRequests,    \* bound: commands the app posts
    MaxCursor,      \* bound: notifications in a session's ledger
    MaxDrops,       \* bound: connections that break
    NetCap          \* bound: frames on their way to the client

ASSUME SessionsAssumption == FreshSessions \subseteq Sessions
ASSUME TransportsAssumption == Transports \subseteq {"ws", "stdio"}
ASSUME NumbersAssumption ==
    /\ CmdCap \in Nat \ {0} /\ EvtCap \in Nat \ {0}
    /\ MaxExp \in Nat /\ Budget \in Nat /\ MaxRequests \in Nat
    /\ MaxCursor \in Nat /\ MaxDrops \in Nat /\ NetCap \in Nat
    /\ Seed \in 0..MaxCursor

(* OutboundCommand.  "other" is StartTurn, InterruptTurn, ListSessions and *)
(* HydrateSession, which differ only in the event that reports them.       *)
Commands ==
    [kind : {"open", "other"}, of : Sessions]
      \union [kind : {"call"}, of : Calls]
Disconnect == [kind |-> "disconnect"]

Ids == 0..MaxRequests
Cursors == 0..MaxCursor             \* 0: none
NotOpen == MaxCursor + 1            \* a session the connection does not follow
Answers == {"ok", "err", "garbled"} \* garbled: a result that does not decode

(* PendingRequest, keyed by id. *)
Requests == [id : Ids, cmd : Commands]

(* What the server is asked; `after' is the replay bracket of a             *)
(* session/open and NotOpen in every other request.                        *)
Asked == [id : Ids, cmd : Commands, after : 0..NotOpen]

Frames ==
    [kind : {"response"}, id : Ids, answer : Answers]
      \union [kind : {"durable"}, session : Sessions, cursor : Cursors]
      \union {[kind |-> "delta"]}

ConnectionStates == {"Idle", "Dialing", "Handshaking", "Live", "Reconnecting",
                     "Failed"}

Events ==
    [kind : {"state"}, state : ConnectionStates]
      \union [kind : {"capability", "opened", "result"}, session : Sessions]
      \union [kind : {"error"}, id : Ids]
      \union [kind : {"durable"}, session : Sessions, cursor : Cursors]
      \union {[kind |-> "delta"]}

VARIABLES
    \* the app's ends of the two channels
    commands,   \* the command channel
    events,     \* the event channel
    outcome,    \* what each call's oneshot has come to
    applied,    \* the last durable notification of each session consumed
    \* the task
    phase,      \* where the task is in its loop
    outbox,     \* the events it has still to send
    state,      \* run_live's ConnectionState
    nextId,     \* RpcRegistry.counter
    pending,    \* SharedState.pending
    cursors,    \* SharedState.cursors
    seed,       \* SharedState.pending_initial
    attempt,    \* run_reconnect's attempt counter
    waited,     \* run_reconnect's total_wait
    \* the server and the connection
    asked,      \* requests of this connection it has not answered
    toClient,   \* frames on their way to the task
    up,         \* the server's side of the connection is open
    position,   \* the last notification sent on this connection, by session
    ledger,     \* the last notification of each session's ledger
    answered,   \* what the server answered to each call
    \* bounds
    posted, drops,
    \* configuration
    transport   \* the task spawned, of Transports

app == <<commands, events, outcome, applied>>
task == <<phase, outbox, state, nextId, pending, cursors, seed, attempt, waited>>
server == <<asked, toClient, up, position, ledger, answered>>
moving == <<app, task, server, posted, drops>>
vars == <<moving, transport>>

Ws == transport = "ws"

TypeOK ==
    /\ commands \in Seq(Commands \union {Disconnect}) /\ Len(commands) <= CmdCap
    /\ events \in Seq(Events) /\ Len(events) <= EvtCap
    /\ outcome \in [Calls -> {"unused", "waiting", "ok", "err", "dropped"}]
    /\ applied \in [Sessions -> Cursors]
    /\ phase \in {"start", "dial", "dialing", "connected", "backoff", "closed"}
    /\ outbox \in Seq(Events)
    /\ state \in {"Handshaking", "Live"}
    /\ nextId \in Ids
    /\ pending \subseteq Requests
    /\ cursors \in [Sessions -> Cursors]
    /\ seed \in Cursors
    /\ attempt \in 0..MaxExp + 1 /\ waited \in 0..Budget
    /\ asked \subseteq Asked
    /\ toClient \in Seq(Frames)
    /\ up \in BOOLEAN
    /\ position \in [Sessions -> 0..NotOpen]
    /\ ledger \in [Sessions -> Cursors]
    /\ answered \in [Calls -> Answers \union {"none"}]
    /\ posted \in Ids /\ drops \in 0..MaxDrops
    /\ transport \in Transports

-----------------------------------------------------------------------------
State(s) == [kind |-> "state", state |-> s]

Init ==
    /\ commands = <<>> /\ events = <<>>
    /\ outcome = [k \in Calls |-> "unused"]
    /\ \E c \in [Sessions -> {0, 1} \intersect Cursors] :
         cursors = c /\ applied = c /\ ledger = c
    /\ phase = "start" /\ outbox = <<State("Idle")>> /\ state = "Handshaking"
    /\ nextId = 0 /\ pending = {} /\ seed = Seed
    /\ attempt = 0 /\ waited = 0
    /\ asked = {} /\ toClient = <<>> /\ up = FALSE
    /\ position = [s \in Sessions |-> NotOpen]
    /\ answered = [k \in Calls |-> "none"]
    /\ posted = 0 /\ drops = 0
    /\ transport \in Transports

-----------------------------------------------------------------------------
(*                                The app                                  *)

(* A session is opened once on a connection. *)
Opening(s) ==
    LET Opens(cmd) == cmd.kind = "open" /\ cmd.of = s IN
    \/ position[s] # NotOpen
    \/ \E i \in DOMAIN commands : Opens(commands[i])
    \/ \E r \in asked : Opens(r.cmd)

(* OctosUiAgent::post and the handles' try_send: a command that finds the  *)
(* channel full or closed is lost, and its caller told at once.            *)
Post(cmd) ==
    /\ posted < MaxRequests
    /\ cmd.kind = "call" => outcome[cmd.of] = "unused"
    /\ cmd.kind = "open" => ~Opening(cmd.of)
    /\ posted' = posted + 1
    /\ LET accepted == phase # "closed" /\ Len(commands) < CmdCap IN
       /\ commands' = IF accepted THEN Append(commands, cmd) ELSE commands
       /\ outcome' = IF cmd.kind # "call" THEN outcome
                     ELSE [outcome EXCEPT ![cmd.of] =
                             IF accepted THEN "waiting" ELSE "dropped"]
    /\ UNCHANGED <<events, applied, task, server, drops>>

(* The UI thread, woken by every event, takes the next one. *)
Consume ==
    /\ events # <<>>
    /\ events' = Tail(events)
    /\ LET e == Head(events) IN
       applied' = IF e.kind = "durable"
                  THEN [applied EXCEPT ![e.session] = e.cursor] ELSE applied
    /\ UNCHANGED <<commands, outcome, task, server, posted, drops>>

-----------------------------------------------------------------------------
(*                           Sending the events                            *)

(* Wrong: durable notifications are dropped like the rest. *)
AwaitedNever(e) == FALSE

(* try_emit drops the event if the channel is full; a durable notification *)
(* is awaited, and the task does nothing else meanwhile.                   *)
Awaited(e) == e.kind = "durable"

(* Wrong: an unbounded channel. *)
EmitUnbounded ==
    /\ outbox # <<>>
    /\ outbox' = Tail(outbox)
    /\ events' = Append(events, Head(outbox))
    /\ UNCHANGED <<commands, outcome, applied, phase, state, nextId, pending,
                   cursors, seed, attempt, waited, server, posted, drops>>

Emit ==
    /\ outbox # <<>>
    /\ Awaited(Head(outbox)) => Len(events) < EvtCap
    /\ outbox' = Tail(outbox)
    /\ events' = IF Len(events) < EvtCap THEN Append(events, Head(outbox))
                                         ELSE events
    /\ UNCHANGED <<commands, outcome, applied, phase, state, nextId,
                   pending, cursors, seed, attempt, waited, server, posted,
                   drops>>

At(p) == phase = p /\ outbox = <<>>

-----------------------------------------------------------------------------
(*                     The life of the connection                          *)

NoConnection ==
    /\ asked' = {} /\ toClient' = <<>> /\ up' = FALSE
    /\ position' = [s \in Sessions |-> NotOpen]
    /\ UNCHANGED <<ledger, answered>>

(* Wrong: the requests still pending outlive the task. *)
CloseKeepsPending(last) ==
    /\ phase' = "closed" /\ outbox' = last
    /\ commands' = <<>>
    /\ NoConnection
    /\ UNCHANGED <<events, outcome, applied, state, pending, cursors, attempt,
                   waited>>

(* The task ends: the requests it holds are dropped with their oneshots,   *)
(* and so are the commands nobody will take.                               *)
Close(last) ==
    /\ phase' = "closed" /\ outbox' = last
    /\ pending' = {} /\ commands' = <<>>
    /\ outcome' = [k \in Calls |-> IF outcome[k] = "waiting" THEN "dropped"
                                                            ELSE outcome[k]]
    /\ NoConnection
    /\ UNCHANGED <<events, applied, state, cursors, attempt, waited>>

Fail == Close(<<State("Failed")>>)

(* run_reconnect's counter; it saturates where the delays stop growing. *)
NextAttempt == IF attempt <= MaxExp THEN attempt + 1 ELSE attempt

(* next_backoff: less than 2^(attempt - 1) seconds, drawn from the clock. *)
Delays == 0..(2 ^ MaxExp - 1)
Drawn(d) == d < 2 ^ (NextAttempt - 1)

(* Wrong: the budget counts the last delay only. *)
ReconnectNoTotal(d) ==
    /\ Drawn(d)
    /\ IF d > Budget
       THEN Fail
       ELSE /\ phase' = "backoff" /\ outbox' = <<State("Reconnecting")>>
            /\ attempt' = NextAttempt /\ waited' = d
            /\ NoConnection
            /\ UNCHANGED <<events, applied, state, pending, cursors>>

(* run_reconnect, after a delay of d was drawn. *)
Reconnect(d) ==
    /\ Drawn(d)
    /\ IF waited + d > Budget
       THEN Fail
       ELSE /\ phase' = "backoff" /\ outbox' = <<State("Reconnecting")>>
            /\ attempt' = NextAttempt /\ waited' = waited + d
            /\ NoConnection
            /\ UNCHANGED <<events, applied, state, pending, cursors>>

Dial ==
    /\ At("start") \/ At("dial")
    /\ phase' = "dialing" /\ outbox' = <<State("Dialing")>>
    /\ UNCHANGED <<app, state, nextId, pending, cursors, seed, attempt, waited,
                   server, posted, drops>>

(* No stdio configuration, or an upgrade request that cannot be built. *)
Misconfigured ==
    /\ IF Ws THEN At("dialing") ELSE At("start")
    /\ Fail
    /\ UNCHANGED <<nextId, seed, posted, drops>>

(* connect_async, or the spawn of the child, fails. *)
DialFails(d) ==
    /\ At("dialing")
    /\ IF Ws THEN Reconnect(d) ELSE Fail
    /\ phase' # "closed" => UNCHANGED <<commands, outcome>>
    /\ UNCHANGED <<nextId, seed, posted, drops>>

(* Wrong: the state of the last connection is carried over. *)
ConnectKeepsState ==
    /\ At("dialing")
    /\ phase' = "connected" /\ outbox' = <<State("Handshaking")>>
    /\ attempt' = 0 /\ waited' = 0
    /\ up' = TRUE
    /\ UNCHANGED <<app, state, nextId, pending, cursors, seed, asked, toClient,
                   position, ledger, answered, posted, drops>>

Connect ==
    /\ At("dialing")
    /\ phase' = "connected" /\ outbox' = <<State("Handshaking")>>
    /\ state' = "Handshaking"
    /\ attempt' = 0 /\ waited' = 0
    /\ up' = TRUE
    /\ UNCHANGED <<app, nextId, pending, cursors, seed, asked, toClient,
                   position, ledger, answered, posted, drops>>

(* The backoff is slept through. *)
Wake ==
    /\ At("backoff")
    /\ phase' = "dial"
    /\ UNCHANGED <<app, outbox, state, nextId, pending, cursors, seed, attempt,
                   waited, server, posted, drops>>

(* The end of the stream, a read error, a failed ping or the child's exit; *)
(* a WebSocket reconnects, a stdio transport is over with its child.       *)
StreamEnds(d) ==
    /\ At("connected") /\ commands = <<>>
    /\ ~up /\ toClient = <<>>
    /\ IF Ws THEN Reconnect(d) ELSE Fail
    /\ phase' # "closed" => UNCHANGED <<commands, outcome>>
    /\ UNCHANGED <<nextId, seed, posted, drops>>

-----------------------------------------------------------------------------
(*                        Commands, in run_live                            *)

NextCommand == At("connected") /\ commands # <<>> /\ Head(commands) # Disconnect

(* The replay bracket of OpenSession: the session's own cursor, or, once,  *)
(* the configured one.  OpenSessionFresh has none.                         *)
Bracket(s) ==
    IF s \in FreshSessions THEN 0 ELSE IF cursors[s] # 0 THEN cursors[s] ELSE seed

(* build_outbound: an id, and the bracket of a session/open. *)
Build(cmd) ==
    /\ nextId' = nextId + 1
    /\ seed' = IF cmd.kind = "open" /\ cmd.of \notin FreshSessions
                  /\ cursors[cmd.of] = 0
               THEN 0 ELSE seed

(* A connection the server has left may still swallow the frame. *)
SendCommand ==
    /\ NextCommand
    /\ LET cmd == Head(commands)
           after == IF cmd.kind = "open" THEN Bracket(cmd.of) ELSE NotOpen IN
       /\ Build(cmd)
       /\ pending' = pending \union {[id |-> nextId, cmd |-> cmd]}
       /\ asked' = IF up
                   THEN asked \union {[id |-> nextId, cmd |-> cmd, after |-> after]}
                   ELSE asked
    /\ commands' = Tail(commands)
    /\ UNCHANGED <<events, outcome, applied, phase, outbox, state,
                   cursors, attempt, waited, toClient, up, position, ledger,
                   answered, posted, drops>>

(* The write fails: the command is lost with its oneshot. *)
SendFails(d) ==
    /\ NextCommand
    /\ ~up
    /\ LET cmd == Head(commands) IN
       /\ Build(cmd)
       /\ IF Ws THEN Reconnect(d) ELSE Fail
       /\ phase' # "closed" =>
            /\ commands' = Tail(commands)
            /\ outcome' = [k \in Calls |->
                             IF cmd.kind = "call" /\ cmd.of = k
                             THEN "dropped" ELSE outcome[k]]
    /\ UNCHANGED <<posted, drops>>

TakeDisconnect ==
    /\ At("connected") /\ commands # <<>> /\ Head(commands) = Disconnect
    /\ nextId' = nextId + 1
    /\ Close(<<>>)
    /\ UNCHANGED <<seed, posted, drops>>

-----------------------------------------------------------------------------
(*                   Inbound frames, handle_inbound_text                   *)

(* run_live's select! is biased: a frame waits until no command does. *)
NextFrame(kind) ==
    /\ At("connected") /\ commands = <<>> /\ toClient # <<>>
    /\ Head(toClient).kind = kind
    /\ toClient' = Tail(toClient)

(* handle_response and fail_pending: the events that report the result of  *)
(* p's request.  A result that does not decode is only logged.             *)
Report(p, answer) ==
    CASE answer = "err" -> <<[kind |-> "error", id |-> p.id]>>
      [] answer = "ok" /\ p.cmd.kind = "open" ->
           <<[kind |-> "capability", session |-> p.cmd.of],
             [kind |-> "opened", session |-> p.cmd.of]>>
           \o (IF state = "Live" THEN <<>> ELSE <<State("Live")>>)
      [] answer = "ok" /\ p.cmd.kind = "other" ->
           <<[kind |-> "result", session |-> p.cmd.of]>>
      [] OTHER -> <<>>

(* Wrong: responses are taken to come in order. *)
MatchingOldest(id) == {p \in pending : \A q \in pending : p.id <= q.id}

(* The pending request a response is matched with. *)
Matching(id) == {p \in pending : p.id = id}

HandleResponse ==
    /\ NextFrame("response")
    /\ LET f == Head(toClient) IN
       IF Matching(f.id) = {}
       THEN UNCHANGED <<pending, outbox, state, outcome>>
       ELSE LET p == CHOOSE q \in Matching(f.id) : TRUE IN
            /\ pending' = pending \ {p}
            /\ outbox' = Report(p, f.answer)
            /\ state' = IF p.cmd.kind = "open" /\ f.answer = "ok"
                        THEN "Live" ELSE state
            /\ outcome' = IF p.cmd.kind # "call" THEN outcome
                          ELSE [outcome EXCEPT ![p.cmd.of] =
                                  IF f.answer = "ok" THEN "ok" ELSE "err"]
    /\ UNCHANGED <<commands, events, applied, phase, nextId, cursors,
                   seed, attempt, waited, asked, up, position, ledger, answered,
                   posted, drops>>

(* handle_notification: the cursor advances before the event is sent. *)
HandleDurable ==
    /\ NextFrame("durable")
    /\ LET f == Head(toClient) IN
       /\ cursors' = [cursors EXCEPT ![f.session] = f.cursor]
       /\ outbox' = <<f>>
    /\ UNCHANGED <<app, phase, state, nextId, pending, seed, attempt, waited,
                   asked, up, position, ledger, answered, posted, drops>>

HandleDelta ==
    /\ NextFrame("delta")
    /\ outbox' = <<Head(toClient)>>
    /\ UNCHANGED <<app, phase, state, nextId, pending, cursors, seed, attempt,
                   waited, asked, up, position, ledger, answered, posted, drops>>

-----------------------------------------------------------------------------
(*                     The server and the network (external)               *)

Deliver(f) == Len(toClient) < NetCap /\ toClient' = Append(toClient, f)

(* The server answers requests in any order.  A session it opens is        *)
(* followed from the bracket, or, without one, from where its ledger ends. *)
Answer(r, answer) ==
    /\ up /\ r \in asked
    /\ r.cmd.kind = "open" /\ r.after > ledger[r.cmd.of] => answer = "err"
    /\ Deliver([kind |-> "response", id |-> r.id, answer |-> answer])
    /\ asked' = asked \ {r}
    /\ position' = IF r.cmd.kind = "open" /\ answer # "err"
                   THEN [position EXCEPT ![r.cmd.of] =
                           IF r.after = 0 THEN ledger[r.cmd.of] ELSE r.after]
                   ELSE position
    /\ answered' = IF r.cmd.kind = "call"
                   THEN [answered EXCEPT ![r.cmd.of] = answer] ELSE answered
    /\ UNCHANGED <<app, task, up, ledger, posted, drops>>

(* A turn commits the next durable notification of its session. *)
Publish(s) ==
    /\ ledger[s] < MaxCursor
    /\ ledger' = [ledger EXCEPT ![s] = @ + 1]
    /\ UNCHANGED <<app, task, asked, toClient, up, position, answered, posted,
                   drops>>

(* It is sent, or replayed, on a connection that follows the session. *)
Notify(s) ==
    /\ up /\ position[s] < ledger[s]
    /\ position' = [position EXCEPT ![s] = @ + 1]
    /\ Deliver([kind |-> "durable", session |-> s, cursor |-> position[s] + 1])
    /\ UNCHANGED <<app, task, asked, up, ledger, answered, posted, drops>>

NotifyDelta ==
    /\ up /\ \E s \in Sessions : position[s] # NotOpen
    /\ Deliver([kind |-> "delta"])
    /\ UNCHANGED <<app, task, asked, up, position, ledger, answered, posted,
                   drops>>

(* The connection breaks; frames still under way may be lost with it. *)
Break ==
    /\ up /\ drops < MaxDrops
    /\ drops' = drops + 1
    /\ up' = FALSE /\ asked' = {}
    /\ position' = [s \in Sessions |-> NotOpen]
    /\ \E n \in 0..Len(toClient) : toClient' = SubSeq(toClient, 1, n)
    /\ UNCHANGED <<app, task, ledger, answered, posted>>

-----------------------------------------------------------------------------
DialEnds == Connect \/ Misconfigured \/ \E d \in Delays : DialFails(d)
CommandTaken == SendCommand \/ TakeDisconnect \/ \E d \in Delays : SendFails(d)
FrameHandled == HandleResponse \/ HandleDurable \/ HandleDelta

Next ==
    /\ \/ \E cmd \in Commands \union {Disconnect} : Post(cmd)
       \/ Consume
       \/ Emit \/ Dial \/ DialEnds \/ Wake \/ CommandTaken \/ FrameHandled
       \/ \E d \in Delays : StreamEnds(d)
       \/ \E r \in asked, a \in Answers : Answer(r, a)
       \/ \E s \in Sessions : Publish(s) \/ Notify(s)
       \/ NotifyDelta
       \/ Break
    /\ UNCHANGED transport

Spec == Init /\ [][Next]_vars

(* The runtime polls the task whenever it can go on, the UI thread drains  *)
(* the events it is woken for, and a live server answers however many      *)
(* notifications it sends in between.  Delays come from the clock: a task  *)
(* that fails again and again draws a positive one again and again.        *)
Fairness ==
    /\ WF_moving(Consume)
    /\ WF_moving(Emit) /\ WF_moving(Dial) /\ WF_moving(DialEnds) /\ WF_moving(Wake)
    /\ WF_moving(CommandTaken) /\ WF_moving(FrameHandled)
    /\ WF_moving(\E d \in Delays : StreamEnds(d))
    /\ SF_moving(\E r \in asked, a \in Answers : Answer(r, a))
    /\ SF_moving(\E d \in Delays \ {0} : DialFails(d))

FairSpec == Spec /\ Fairness

-----------------------------------------------------------------------------
(* A caller never gets the server's answer to another request, whatever    *)
(* order answers come in and however many requests earlier connections     *)
(* left pending (ids are never reused, jsonrpc next_id).                   *)
RepliesMatch ==
    \A k \in Calls :
        /\ outcome[k] = "ok" => answered[k] = "ok"
        /\ outcome[k] = "err" => answered[k] \in {"err", "garbled"}

(* Where a queue holds the durable notifications of s. *)
Of(q, s) == {i \in DOMAIN q : q[i].kind = "durable" /\ q[i].session = s}

(* The notification b of s comes after a, and is the next one unless a     *)
(* bracket was left out: there was no cursor, or s is opened fresh.        *)
Follows(s, a, b) == a < b /\ (s \notin FreshSessions => a = 0 \/ b = a + 1)

(* Those of s in q follow one another, the first of them a. *)
InOrder(q, s, a) ==
    /\ \A i \in Of(q, s) : (\A j \in Of(q, s) : i <= j) => Follows(s, a, q[i].cursor)
    /\ \A i, j \in Of(q, s) :
          i < j /\ (\A k \in Of(q, s) : k <= i \/ j <= k) =>
              Follows(s, q[i].cursor, q[j].cursor)

(* The last of them is b; a, if there is none. *)
Ends(q, s, a, b) ==
    /\ \A i \in Of(q, s) : (\A j \in Of(q, s) : j <= i) => b = q[i].cursor
    /\ Of(q, s) = {} => b = a

(* Across lost connections and full channels the app gets a session's      *)
(* durable notifications one after the other, none missing and none twice, *)
(* and the replay cursor is that of the newest one handed on.  Sessions    *)
(* opened fresh skip what their bracket would have replayed.               *)
NothingLost ==
    \A s \in Sessions : \E mid \in Cursors :
        /\ InOrder(events, s, applied[s]) /\ Ends(events, s, applied[s], mid)
        /\ InOrder(outbox, s, mid) /\ Ends(outbox, s, mid, cursors[s])

(* Live is announced for this connection only: the server has accepted a   *)
(* session/open on it, unless the connection is already gone.              *)
LiveMeansOpened ==
    phase = "connected" /\ state = "Live" /\ up =>
        \E s \in Sessions : position[s] # NotOpen

(* A transport that cannot reach the server gives up (RECONNECT_BUDGET).   *)
GivesUp == phase = "dialing" ~> phase \in {"connected", "closed"}

(* Every caller is answered, or told that its request is gone, so that an  *)
(* approval card never waits for ever (app/approvals.rs, ApprovalAsync-    *)
(* Outcome).                                                               *)
CallsSettle == \A k \in Calls : outcome[k] = "waiting" ~> outcome[k] # "waiting"

(* So it is over stdio, whose transport does not outlive its connection.   *)
StdioCallsSettle == ~Ws => CallsSettle
=============================================================================

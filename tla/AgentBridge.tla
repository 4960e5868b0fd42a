---------------------------- MODULE AgentBridge ----------------------------
(***************************************************************************)
(* OctosUiAgent (backend/octos_ui.rs): the bridge between the app, which   *)
(* speaks of local sessions and prompts, and the transport, which speaks   *)
(* of session keys and turns.  It keeps the maps between the two, posts    *)
(* commands without waiting, and, once per UI event, drains everything the *)
(* transport has queued into a batch of agent events that the app then     *)
(* handles one after the other.  The user acts only between two drains.    *)
(*                                                                         *)
(* A turn id is minted with its prompt and a session key with its session, *)
(* so each pair is one value here.  The transport and the server are       *)
(* external: commands arrive in order unless the transport loses one       *)
(* (`Lossy'), a notification that is durable is never lost but may be      *)
(* delivered again (`Replays'), an ephemeral one may never come.           *)
(*                                                                         *)
(* `session/open' and what answers it move nothing but the status label    *)
(* and `ready_sessions', which no code reads: they are left out.           *)
(***************************************************************************)
EXTENDS Naturals, Sequences, FiniteSets

CONSTANTS
    Sessions,       \* local sessions, each with its session key
    MaxPrompts,     \* bound: prompts the app sends
    Serial,         \* the server runs one turn of a session at a time
    Lossy,          \* a posted command may never reach the server
    Replays,        \* a durable notification may be delivered again
    WireCap         \* bound: commands on their way, and events until handled

ASSUME BridgeAssumption ==
    /\ MaxPrompts \in Nat /\ WireCap \in Nat \ {0}
    /\ Serial \in BOOLEAN /\ Lossy \in BOOLEAN /\ Replays \in BOOLEAN

Prompts == 1..MaxPrompts

(* OutboundCommand, the ones the agent posts. *)
Commands ==
    [kind : {"hydrate"}, session : Sessions]
      \union [kind : {"start", "interrupt"}, session : Sessions, prompt : Prompts]

(* TransportEvent.  An "rpcError" is of any method but session/open.        *)
(* `prompt' in a row is the turn that wrote it, which the agent does not   *)
(* look at.                                                                *)
TransportEvents ==
    {[kind |-> "rpcError"]}
      \union [kind : {"delta", "completed", "failed"}, prompt : Prompts]
      \union [kind : {"row"}, session : Sessions, prompt : Prompts]
      \union [kind : {"hydrated"}, session : Sessions]

(* AgentEvent.  Text, thinking and tool events are "delta". *)
AgentEvents ==
    [kind : {"delta", "complete", "error"}, prompt : Prompts]
      \union [kind : {"authoritative"}, prompt : Prompts, row : Prompts]

(* SessionResumeHydrated, posted to the app's action queue; the history it *)
(* carries is left out.                                                    *)
Hydrations == [session : Sessions]

VARIABLES
    \* OctosUiAgent
    known,          \* domain of session_keys, range of session_ids
    turnIds,        \* domain of turn_ids
    promptIds,      \* range of prompt_ids
    promptSessions, \* prompt_sessions
    lastPrompt,     \* PromptId::new's counter
    \* the UI thread
    phase,          \* "idle", "draining" the channel, "handling" the batch
    batch,          \* what handle_event has translated so far
    actions,        \* posted and not yet handled
    \* the transport
    commands, inbox,
    \* the server
    turn,           \* what has become of each turn
    rows,           \* turns whose assistant row it has stored
    \* history
    owner,          \* the session the app sent each prompt to
    closed          \* prompts whose terminal notification has been translated

agent == <<known, turnIds, promptIds, promptSessions, lastPrompt>>
ui == <<phase, batch, actions>>
server == <<turn, rows>>
bridgeVars == <<agent, ui, commands, inbox, server, owner, closed>>

(* Types, and the three prompt maps hold the same prompts: each arm of the *)
(* agent that changes one has to change all three.                         *)
TypeOK ==
    /\ known \subseteq Sessions
    /\ promptIds \subseteq Prompts
    /\ turnIds = promptIds /\ DOMAIN promptSessions = promptIds
    /\ \A p \in DOMAIN promptSessions : promptSessions[p] \in Sessions
    /\ lastPrompt \in 0..MaxPrompts
    /\ phase \in {"idle", "draining", "handling"}
    /\ batch \in Seq(AgentEvents) /\ actions \in Seq(Hydrations)
    /\ commands \in Seq(Commands) /\ inbox \in Seq(TransportEvents)
    /\ turn \in [Prompts -> {"unsent", "running", "ended"}]
    /\ rows \subseteq Prompts
    /\ owner \in [1..lastPrompt -> Sessions]
    /\ closed \subseteq Prompts

AgentInit ==
    /\ known = {} /\ turnIds = {} /\ promptIds = {}
    /\ promptSessions = <<>>

BridgeInit ==
    /\ AgentInit /\ lastPrompt = 0
    /\ phase = "idle" /\ batch = <<>> /\ actions = <<>>
    /\ commands = <<>> /\ inbox = <<>>
    /\ turn = [p \in Prompts |-> "unsent"] /\ rows = {}
    /\ owner = <<>> /\ closed = {}

-----------------------------------------------------------------------------
(*                     What the app asks of the agent                      *)

(* There is room in the model's command channel. *)
Room == Len(commands) < WireCap

(* create_session, for each of a sequence of fresh sessions in turn. *)
CreateSessions(new) ==
    /\ known' = known \union {new[i] : i \in DOMAIN new}
    /\ UNCHANGED <<turnIds, promptIds, promptSessions, lastPrompt, commands>>

(* resume_session: the mapping is reused if there is one. *)
ResumeSession(s) ==
    /\ Room
    /\ known' = known \union {s}
    /\ commands' = Append(commands, [kind |-> "hydrate", session |-> s])
    /\ UNCHANGED <<turnIds, promptIds, promptSessions, lastPrompt>>

(* send_prompt, to a session of this agent. *)
SendPrompt(s) ==
    LET p == lastPrompt + 1 IN
    /\ p \in Prompts /\ Room
    /\ lastPrompt' = p
    /\ turnIds' = turnIds \union {p}
    /\ promptIds' = promptIds \union {p}
    /\ promptSessions' =
         [q \in DOMAIN promptSessions \union {p} |->
            IF q = p THEN s ELSE promptSessions[q]]
    /\ commands' = Append(commands, [kind |-> "start", session |-> s, prompt |-> p])
    /\ owner' = [q \in 1..p |-> IF q = p THEN s ELSE owner[q]]
    /\ UNCHANGED known

(* Mutant: the first session of the client, as before W08. *)
InterruptFirst(p) == CHOOSE s \in known : TRUE

(* The session cancel_prompt names. *)
InterruptSession(p) == promptSessions[p]

Interruptible(p) == p \in turnIds /\ p \in DOMAIN promptSessions

(* cancel_prompt: nothing if the prompt is no longer mapped; the maps keep *)
(* it, the server will end the turn.                                       *)
CancelPrompt(p) ==
    /\ Room
    /\ commands' =
         IF Interruptible(p)
         THEN Append(commands, [kind |-> "interrupt",
                                session |-> InterruptSession(p), prompt |-> p])
         ELSE commands
    /\ UNCHANGED agent

(* connect_transport and the create_session calls of the clear_chat that    *)
(* always follows it: a new OctosUiAgent, whose maps are empty, takes the  *)
(* place of this one, and what was on its way is gone with the old runtime. *)
ReplaceAgent(new) ==
    /\ known' = {new[i] : i \in DOMAIN new}
    /\ turnIds' = {} /\ promptIds' = {}
    /\ promptSessions' = <<>>
    /\ commands' = <<>> /\ inbox' = <<>>
    /\ turn' = [p \in Prompts |-> IF turn[p] = "running" THEN "ended" ELSE turn[p]]
    /\ UNCHANGED <<lastPrompt, rows>>

-----------------------------------------------------------------------------
(*                              handle_event                               *)

HandleEvent ==
    /\ phase = "idle" /\ inbox # <<>>
    /\ phase' = "draining"
    /\ UNCHANGED <<agent, batch, actions, commands, inbox, server, owner, closed>>

Out(events) == batch' = batch \o events

(* The arms of `translate' and `translate_notification', for event `e' at  *)
(* the head of the channel.                                                *)
(* An error names no prompt, so an arbitrary one of those mapped takes it: *)
(* the first of a HashMap.  The maps keep it.                              *)
TranslateRpcError(e) ==
    /\ e.kind = "rpcError"
    /\ \/ \E p \in promptIds : Out(<<[kind |-> "error", prompt |-> p]>>)
       \/ promptIds = {} /\ UNCHANGED batch
    /\ UNCHANGED <<agent, actions, closed>>

TranslateDelta(e) ==
    /\ e.kind = "delta"
    /\ IF e.prompt \in promptIds THEN Out(<<e>>) ELSE UNCHANGED batch
    /\ UNCHANGED <<agent, actions, closed>>

(* The in-flight prompts of a session, any one of which may take the row. *)
InFlight(s) == {p \in DOMAIN promptSessions : promptSessions[p] = s}

TranslateRow(e) ==
    /\ e.kind = "row"
    /\ \/ \E p \in InFlight(e.session) :
            Out(<<[kind |-> "authoritative", prompt |-> p, row |-> e.prompt]>>)
       \/ InFlight(e.session) = {} /\ UNCHANGED batch
    /\ UNCHANGED <<agent, actions, closed>>

(* Mutants: a terminal that leaves one of the maps as it was. *)
ForgetKeepsTurn(p) ==
    /\ promptIds' = promptIds \ {p}
    /\ promptSessions' = [q \in DOMAIN promptSessions \ {p} |-> promptSessions[q]]
    /\ UNCHANGED turnIds

ForgetLooksUp(p) == UNCHANGED <<promptIds, turnIds, promptSessions>>

Forget(p) ==
    /\ promptIds' = promptIds \ {p}
    /\ turnIds' = turnIds \ {p}
    /\ promptSessions' = [q \in DOMAIN promptSessions \ {p} |-> promptSessions[q]]

(* TurnCompleted and TurnError. *)
TranslateTerminal(e) ==
    /\ e.kind \in {"completed", "failed"}
    /\ IF e.prompt \in promptIds
       THEN /\ Forget(e.prompt)
            /\ Out(<<[kind |-> IF e.kind = "completed" THEN "complete" ELSE "error",
                      prompt |-> e.prompt]>>)
       ELSE UNCHANGED <<promptIds, turnIds, promptSessions, batch>>
    /\ closed' = closed \union {e.prompt}
    /\ UNCHANGED <<known, lastPrompt, actions>>

TranslateHydrated(e) ==
    /\ e.kind = "hydrated"
    /\ actions' = IF e.session \in known
                  THEN Append(actions, [session |-> e.session])
                  ELSE actions
    /\ UNCHANGED <<agent, batch, closed>>

Translate ==
    /\ phase = "draining" /\ inbox # <<>>
    /\ inbox' = Tail(inbox)
    /\ LET e == Head(inbox) IN
         \/ TranslateRpcError(e) \/ TranslateDelta(e)    \/ TranslateRow(e)
         \/ TranslateTerminal(e) \/ TranslateHydrated(e)
    /\ UNCHANGED <<phase, commands, server, owner>>

(* try_recv finds the channel empty: the batch goes to the app. *)
Drained ==
    /\ phase = "draining" /\ inbox = <<>>
    /\ phase' = IF batch = <<>> THEN "idle" ELSE "handling"
    /\ UNCHANGED <<agent, batch, actions, commands, inbox, server, owner, closed>>

(* The app's loop takes the next event of the batch. *)
NextEvent(e) ==
    /\ phase = "handling" /\ e = Head(batch)
    /\ batch' = Tail(batch)
    /\ phase' = IF Tail(batch) = <<>> THEN "idle" ELSE "handling"

-----------------------------------------------------------------------------
(*              The transport and the server (external)                    *)

Deliver(e) ==
    /\ Len(inbox) + Len(batch) + Len(actions) < WireCap
    /\ inbox' = Append(inbox, e)
Failure == [kind |-> "rpcError"]

LoseCommand ==
    /\ Lossy /\ commands # <<>>
    /\ commands' = Tail(commands)
    /\ UNCHANGED <<agent, ui, inbox, server, owner, closed>>

ServeHydrate(c) ==
    /\ c.kind = "hydrate"
    /\ \/ Deliver([kind |-> "hydrated", session |-> c.session])
       \/ Deliver(Failure)
    /\ UNCHANGED server

ServeStart(c) ==
    /\ c.kind = "start"
    /\ \/ turn' = [turn EXCEPT ![c.prompt] = "running"] /\ UNCHANGED inbox
       \/ turn' = [turn EXCEPT ![c.prompt] = "ended"] /\ Deliver(Failure)
    /\ UNCHANGED rows

(* The interrupted turn ends as any other does. *)
ServeInterrupt(c) ==
    /\ c.kind = "interrupt"
    /\ UNCHANGED inbox \/ Deliver(Failure)
    /\ UNCHANGED server

Serve ==
    /\ commands # <<>> /\ commands' = Tail(commands)
    /\ LET c == Head(commands) IN
         ServeHydrate(c) \/ ServeStart(c) \/ ServeInterrupt(c)
    /\ UNCHANGED <<agent, ui, owner, closed>>

(* The turn whose output comes next. *)
Producing(p) ==
    /\ turn[p] = "running"
    /\ Serial => \A q \in 1..p-1 : owner[q] = owner[p] => turn[q] # "running"

Stream(p) ==
    /\ Producing(p)
    /\ Deliver([kind |-> "delta", prompt |-> p])
    /\ UNCHANGED <<agent, ui, commands, server, owner, closed>>

Row(p) == [kind |-> "row", session |-> owner[p], prompt |-> p]

Persist(p) ==
    /\ Producing(p) /\ p \notin rows
    /\ rows' = rows \union {p}
    /\ Deliver(Row(p))
    /\ UNCHANGED <<agent, ui, commands, turn, owner, closed>>

EndTurn(p) ==
    /\ Producing(p)
    /\ turn' = [turn EXCEPT ![p] = "ended"]
    /\ \E kind \in {"completed", "failed"} : Deliver([kind |-> kind, prompt |-> p])
    /\ UNCHANGED <<agent, ui, commands, rows, owner, closed>>

(* A durable notification once more, after a reconnect. *)
Replay(p) ==
    /\ Replays
    /\ \/ p \in rows /\ Deliver(Row(p))
       \/ p \in closed /\ \E kind \in {"completed", "failed"} :
                             Deliver([kind |-> kind, prompt |-> p])
    /\ UNCHANGED <<agent, ui, commands, server, owner, closed>>

(* Another request fails: `session/list', say. *)
OtherFails ==
    /\ Deliver(Failure)
    /\ UNCHANGED <<agent, ui, commands, server, owner, closed>>

EndTurns == \E p \in 1..lastPrompt : EndTurn(p)

(* While the UI thread drains and handles, the rest of the world waits:    *)
(* what would arrive meanwhile might as well have arrived before the drain *)
(* or after it, for the thread looks at nothing else.                      *)
Environment ==
    /\ phase = "idle"
    /\ \/ LoseCommand \/ Serve \/ OtherFails \/ EndTurns
       \/ \E p \in 1..lastPrompt : Stream(p) \/ Persist(p) \/ Replay(p)

-----------------------------------------------------------------------------
(*                 The agent under an app that may do anything             *)

Open ==
    /\ phase = "idle"
    /\ \/ \E s \in Sessions \ known : CreateSessions(<<s>>)
       \/ \E s \in Sessions : ResumeSession(s)
    /\ UNCHANGED <<ui, inbox, server, owner, closed>>

Send ==
    /\ phase = "idle"
    /\ \E s \in known : SendPrompt(s)
    /\ UNCHANGED <<ui, inbox, server, closed>>

Cancel ==
    /\ phase = "idle"
    /\ \E p \in 1..lastPrompt : CancelPrompt(p)
    /\ UNCHANGED <<ui, inbox, server, owner, closed>>

Replace ==
    /\ phase = "idle"
    /\ \E s \in Sessions : ReplaceAgent(<<s>>)
    /\ UNCHANGED <<ui, owner, closed>>

(* An event is handled, which may send a prompt. *)
Handle ==
    /\ phase = "handling" /\ NextEvent(Head(batch))
    /\ \/ UNCHANGED <<agent, commands, owner>>
       \/ \E s \in known : SendPrompt(s)
    /\ UNCHANGED <<actions, inbox, server, closed>>

Act ==
    /\ phase = "idle" /\ actions # <<>>
    /\ actions' = Tail(actions)
    /\ UNCHANGED <<agent, phase, batch, commands, inbox, server, owner, closed>>

BridgeNext ==
    \/ Open \/ Send \/ Cancel \/ Replace \/ Handle \/ Act
    \/ HandleEvent \/ Translate \/ Drained
    \/ Environment

BridgeSpec == BridgeInit /\ [][BridgeNext]_bridgeVars

-----------------------------------------------------------------------------
(* An interrupt names the session that owns its prompt, whatever other     *)
(* sessions are open and however the prompts interleave (W08).             *)
InterruptsOwner ==
    \A i \in DOMAIN commands :
      commands[i].kind = "interrupt" => commands[i].session = owner[commands[i].prompt]

(* Once a prompt's TurnCompleted or TurnError has been translated nothing   *)
(* more is said of it: no late delta, no row of another turn, no stray RPC *)
(* error and no second terminal, though the notification be delivered again. *)
NothingAfterTheEnd ==
    [][\A i \in Len(batch) + 1 .. Len(batch') :
         batch'[i].prompt \notin closed]_bridgeVars
=============================================================================

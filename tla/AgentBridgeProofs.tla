------------------------- MODULE AgentBridgeProofs -------------------------
(***************************************************************************)
(* Proofs about the agent bridge, for any number of sessions and prompts   *)
(* and with or without lost commands, replays and interleaved turns.       *)
(*                                                                         *)
(* Neither property is inductive.  An interrupt names the owner because    *)
(* the map it is read from agrees with the history of sends (Mapped), and  *)
(* nothing follows a terminal because the terminal's prompt leaves all     *)
(* three maps and is never mapped again (Gone), which needs that only      *)
(* prompts already sent have notifications on their way (Sent).            *)
(***************************************************************************)
EXTENDS AgentBridge, SequenceTheorems, TLAPS

Terminals == {"completed", "failed"}

Mapped == \A p \in promptIds : p \in 1..lastPrompt /\ promptSessions[p] = owner[p]

Gone == closed \subseteq 1..lastPrompt /\ closed \intersect promptIds = {}

SentEvent(e) == e.kind \in Terminals => e.prompt \in 1..lastPrompt

SentCommand(c) ==
    c.kind = "interrupt" => c.prompt \in 1..lastPrompt /\ c.session = owner[c.prompt]

(* The invariant by the state it is about: the agent's maps and the        *)
(* history of sends and terminals, the queues, the server.                 *)
MapsOK ==
    /\ known \subseteq Sessions
    /\ promptIds \subseteq Prompts
    /\ turnIds = promptIds /\ DOMAIN promptSessions = promptIds
    /\ \A p \in DOMAIN promptSessions : promptSessions[p] \in Sessions
    /\ lastPrompt \in 0..MaxPrompts
    /\ owner \in [1..lastPrompt -> Sessions]
    /\ Mapped /\ Gone

CommandsOK ==
    commands \in Seq(Commands) /\ \A i \in DOMAIN commands : SentCommand(commands[i])

InboxOK ==
    inbox \in Seq(TransportEvents) /\ \A i \in DOMAIN inbox : SentEvent(inbox[i])

AppOK ==
    /\ phase \in {"idle", "draining", "handling"}
    /\ phase = "handling" => batch # <<>>
    /\ batch \in Seq(AgentEvents) /\ actions \in Seq(Hydrations)

ServerOK ==
    turn \in [Prompts -> {"unsent", "running", "ended"}] /\ rows \subseteq Prompts

IInv == MapsOK /\ CommandsOK /\ InboxOK /\ AppOK /\ ServerOK

(* What NothingAfterTheEnd says of one step. *)
Said == \A i \in Len(batch) + 1 .. Len(batch') : batch'[i].prompt \notin closed

-----------------------------------------------------------------------------
(*                                Sequences                                *)

LEMMA AppendElements ==
    ASSUME NEW S, NEW q \in Seq(S), NEW e \in S
    PROVE  /\ Append(q, e) \in Seq(S)
           /\ \A i \in DOMAIN Append(q, e) :
                Append(q, e)[i] = e \/ (i \in DOMAIN q /\ Append(q, e)[i] = q[i])
<1>1. Append(q, e) \in Seq(S) /\ Len(Append(q, e)) = Len(q) + 1
    OBVIOUS
<1>2. DOMAIN Append(q, e) = 1 .. Len(q) + 1 /\ DOMAIN q = 1 .. Len(q) /\ Len(q) \in Nat
    BY <1>1, LenProperties
<1>3. \A i \in 1 .. Len(q) + 1 :
         Append(q, e)[i] = e \/ (i \in 1 .. Len(q) /\ Append(q, e)[i] = q[i])
    BY <1>2
<1> QED
    BY <1>1, <1>2, <1>3

LEMMA TailElements ==
    ASSUME NEW S, NEW q \in Seq(S), q # <<>>
    PROVE  /\ Tail(q) \in Seq(S)
           /\ \A i \in DOMAIN Tail(q) : i + 1 \in DOMAIN q /\ Tail(q)[i] = q[i + 1]
           /\ 1 \in DOMAIN q /\ Head(q) = q[1] /\ Head(q) \in S
           /\ Len(Tail(q)) < Len(q)
<1>1. /\ Len(q) \in Nat /\ Len(q) # 0 /\ DOMAIN q = 1 .. Len(q)
      /\ Tail(q) \in Seq(S) /\ Len(Tail(q)) = Len(q) - 1
      /\ \A i \in 1 .. Len(Tail(q)) : Tail(q)[i] = q[i + 1]
    BY HeadTailProperties, EmptySeq, LenProperties
<1>2. DOMAIN Tail(q) = 1 .. Len(q) - 1
    BY <1>1, LenProperties
<1>3. Head(q) = q[1] /\ Head(q) \in S
    BY HeadTailProperties
<1> QED
    BY <1>1, <1>2, <1>3

-----------------------------------------------------------------------------
LEMMA InitIInv == BridgeInit => IInv
<1> SUFFICES ASSUME BridgeInit PROVE IInv
    OBVIOUS
<1>1. MapsOK
    BY BridgeAssumption DEF BridgeInit, AgentInit, MapsOK, Mapped, Gone, Prompts
<1>2. CommandsOK /\ InboxOK /\ AppOK /\ ServerOK
    BY DEF BridgeInit, CommandsOK, InboxOK, AppOK, ServerOK
<1> QED
    BY <1>1, <1>2 DEF IInv

(* A prompt sent is new: it is mapped to the session it was sent to, and   *)
(* no notification of it is on its way yet.                                *)
LEMMA SendKeeps ==
    ASSUME IInv, NEW s \in known, SendPrompt(s), UNCHANGED <<inbox, closed>>
    PROVE  MapsOK' /\ CommandsOK' /\ InboxOK'
<1> DEFINE p == lastPrompt + 1
           c == [kind |-> "start", session |-> s, prompt |-> p]
<1> USE BridgeAssumption DEF Prompts, IInv
<1>1. /\ p \in Prompts /\ lastPrompt' = p /\ known' = known
      /\ lastPrompt \in Nat /\ s \in Sessions
    BY DEF SendPrompt, MapsOK
<1>2. /\ turnIds' = turnIds \union {p} /\ promptIds' = promptIds \union {p}
      /\ promptSessions' = [q \in DOMAIN promptSessions \union {p} |->
                              IF q = p THEN s ELSE promptSessions[q]]
      /\ commands' = Append(commands, c)
      /\ owner' = [q \in 1..p |-> IF q = p THEN s ELSE owner[q]]
    BY DEF SendPrompt
<1>3. MapsOK'
  <2>1. owner' \in [1..lastPrompt' -> Sessions]
      BY <1>1, <1>2 DEF MapsOK
  <2>2. /\ promptIds' \subseteq Prompts
        /\ turnIds' = promptIds' /\ DOMAIN promptSessions' = promptIds'
        /\ \A q \in DOMAIN promptSessions' : promptSessions'[q] \in Sessions
      BY <1>1, <1>2 DEF MapsOK
  <2>3. Mapped'
      BY <1>1, <1>2 DEF MapsOK, Mapped
  <2>4. Gone'
      BY <1>1, <1>2 DEF MapsOK, Gone
  <2> QED
      BY <1>1, <2>1, <2>2, <2>3, <2>4 DEF MapsOK
<1>4. CommandsOK'
  <2>1. c \in Commands /\ c.kind = "start"
      BY <1>1 DEF Commands
  <2>2. commands' \in Seq(Commands)
        /\ \A i \in DOMAIN commands' :
             commands'[i] = c \/ (i \in DOMAIN commands /\ commands'[i] = commands[i])
      BY <1>2, <2>1, AppendElements DEF CommandsOK
  <2>3. ASSUME NEW i \in DOMAIN commands' PROVE SentCommand(commands[i])'
    <3>1. CASE commands'[i] = c
        BY <2>1, <3>1 DEF SentCommand
    <3>2. CASE i \in DOMAIN commands /\ commands'[i] = commands[i]
        BY <1>1, <1>2, <3>2 DEF CommandsOK, SentCommand
    <3> QED
        BY <2>2, <3>1, <3>2
  <2> QED
      BY <2>2, <2>3 DEF CommandsOK
<1>5. InboxOK'
    BY <1>1 DEF InboxOK, SentEvent
<1> QED
    BY <1>3, <1>4, <1>5

-----------------------------------------------------------------------------
(*                               The queues                                *)

LEMMA DeliverKeeps ==
    ASSUME IInv, NEW e \in TransportEvents, SentEvent(e), Deliver(e),
           UNCHANGED lastPrompt
    PROVE  InboxOK'
<1>1. inbox' \in Seq(TransportEvents)
      /\ \A i \in DOMAIN inbox' :
           inbox'[i] = e \/ (i \in DOMAIN inbox /\ inbox'[i] = inbox[i])
    BY AppendElements DEF IInv, InboxOK, Deliver
<1>2. \A i \in DOMAIN inbox' : SentEvent(inbox[i])'
    BY <1>1 DEF IInv, InboxOK, SentEvent
<1> QED
    BY <1>1, <1>2 DEF InboxOK

LEMMA PostKeeps ==
    ASSUME IInv, NEW c \in Commands, SentCommand(c),
           commands' = Append(commands, c), UNCHANGED <<lastPrompt, owner>>
    PROVE  CommandsOK'
<1>1. commands' \in Seq(Commands)
      /\ \A i \in DOMAIN commands' :
           commands'[i] = c \/ (i \in DOMAIN commands /\ commands'[i] = commands[i])
    BY AppendElements DEF IInv, CommandsOK
<1>2. \A i \in DOMAIN commands' : SentCommand(commands[i])'
    BY <1>1 DEF IInv, CommandsOK, SentCommand
<1> QED
    BY <1>1, <1>2 DEF CommandsOK

LEMMA TakeCommandKeeps ==
    ASSUME IInv, commands # <<>>, commands' = Tail(commands),
           UNCHANGED <<lastPrompt, owner>>
    PROVE  CommandsOK' /\ Head(commands) \in Commands
<1>1. /\ commands' \in Seq(Commands) /\ Head(commands) \in Commands
      /\ \A i \in DOMAIN commands' :
           i + 1 \in DOMAIN commands /\ commands'[i] = commands[i + 1]
    BY TailElements DEF IInv, CommandsOK
<1>2. \A i \in DOMAIN commands' : SentCommand(commands[i])'
    BY <1>1 DEF IInv, CommandsOK, SentCommand
<1> QED
    BY <1>1, <1>2 DEF CommandsOK

LEMMA TakeEventKeeps ==
    ASSUME IInv, inbox # <<>>, inbox' = Tail(inbox), UNCHANGED lastPrompt
    PROVE  /\ InboxOK'
           /\ Head(inbox) \in TransportEvents /\ SentEvent(Head(inbox))
<1>1. /\ inbox' \in Seq(TransportEvents)
      /\ Head(inbox) \in TransportEvents
      /\ 1 \in DOMAIN inbox /\ Head(inbox) = inbox[1]
      /\ \A i \in DOMAIN inbox' :
           i + 1 \in DOMAIN inbox /\ inbox'[i] = inbox[i + 1]
    BY TailElements DEF IInv, InboxOK
<1>2. \A i \in DOMAIN inbox' : SentEvent(inbox[i])'
    BY <1>1 DEF IInv, InboxOK, SentEvent
<1> QED
    BY <1>1, <1>2 DEF IInv, InboxOK

(* One event joins the batch: nothing already there is disturbed, and if   *)
(* its prompt is not closed neither is that of anything added.             *)
LEMMA OutKeeps ==
    ASSUME IInv, phase = "draining", NEW x \in AgentEvents, x.prompt \notin closed,
           Out(<<x>>), UNCHANGED phase
    PROVE  batch' \in Seq(AgentEvents) /\ Said
<1>1. <<x>> \in Seq(AgentEvents) /\ Len(<<x>>) = 1 /\ <<x>>[1] = x
    OBVIOUS
<1>2. /\ batch' \in Seq(AgentEvents)
      /\ Len(batch) \in Nat /\ Len(batch') = Len(batch) + 1
      /\ \A i \in 1 .. Len(batch) + 1 :
            batch'[i] = IF i <= Len(batch) THEN batch[i] ELSE <<x>>[i - Len(batch)]
    BY <1>1, ConcatProperties, LenProperties DEF IInv, AppOK, Out
<1>3. batch'[Len(batch) + 1] = x
    BY <1>1, <1>2
<1>4. \A i \in Len(batch) + 1 .. Len(batch') : i = Len(batch) + 1
    BY <1>2
<1> QED
    BY <1>2, <1>3, <1>4 DEF Said

LEMMA QuietBatch == ASSUME IInv, UNCHANGED batch PROVE Said
  BY LenProperties DEF IInv, AppOK, Said

LEMMA NextEventKeeps ==
    ASSUME IInv, NextEvent(Head(batch)), UNCHANGED actions
    PROVE  AppOK' /\ Said
<1>1. /\ batch' \in Seq(AgentEvents) /\ Len(batch) \in Nat /\ Len(batch') \in Nat
      /\ Len(batch') < Len(batch)
    BY TailElements, LenProperties DEF IInv, AppOK, NextEvent
<1>2. AppOK'
    BY <1>1 DEF IInv, AppOK, NextEvent
<1> QED
    BY <1>1, <1>2 DEF Said

LEMMA Untouched ==
    ASSUME IInv
    PROVE  /\ UNCHANGED <<agent, owner, closed>> => MapsOK'
           /\ UNCHANGED <<commands, lastPrompt, owner>> => CommandsOK'
           /\ UNCHANGED <<inbox, lastPrompt>> => InboxOK'
           /\ UNCHANGED ui => AppOK' /\ Said
           /\ UNCHANGED server => ServerOK'
<1>1. UNCHANGED <<agent, owner, closed>> => MapsOK'
    BY DEF IInv, MapsOK, Mapped, Gone, agent
<1>2. UNCHANGED <<commands, lastPrompt, owner>> => CommandsOK'
    BY DEF IInv, CommandsOK, SentCommand
<1>3. UNCHANGED <<inbox, lastPrompt>> => InboxOK'
    BY DEF IInv, InboxOK, SentEvent
<1>4. UNCHANGED ui => AppOK' /\ Said
    BY QuietBatch DEF IInv, AppOK, ui
<1>5. UNCHANGED server => ServerOK'
    BY DEF IInv, ServerOK, server
<1> QED
    BY <1>1, <1>2, <1>3, <1>4, <1>5

-----------------------------------------------------------------------------
(*                                 The app                                 *)

LEMMA OpenStep == ASSUME IInv, Open PROVE IInv' /\ Said
<1>1. InboxOK' /\ AppOK' /\ Said /\ ServerOK'
    BY Untouched DEF Open, CreateSessions, ResumeSession
<1>2. MapsOK'
  <2>1. known' \subseteq Sessions
    <3>1. ASSUME NEW s \in Sessions, CreateSessions(<<s>>) PROVE known' = known \union {s}
        BY <3>1 DEF CreateSessions
    <3> QED
        BY <3>1 DEF IInv, MapsOK, Open, ResumeSession
  <2>2. UNCHANGED <<turnIds, promptIds, promptSessions, lastPrompt, owner, closed>>
      BY DEF Open, CreateSessions, ResumeSession
  <2> QED
      BY <2>1, <2>2 DEF IInv, MapsOK, Mapped, Gone
<1>3. CommandsOK'
  <2>1. CASE \E s \in Sessions \ known : CreateSessions(<<s>>)
      BY <2>1, Untouched DEF Open, CreateSessions
  <2>2. ASSUME NEW s \in Sessions, ResumeSession(s) PROVE CommandsOK'
    <3> DEFINE c == [kind |-> "hydrate", session |-> s]
    <3>1. c \in Commands /\ SentCommand(c)
        BY DEF Commands, SentCommand
    <3> QED
        BY <2>2, <3>1, PostKeeps DEF Open, ResumeSession
  <2> QED
      BY <2>1, <2>2 DEF Open
<1> QED
    BY <1>1, <1>2, <1>3 DEF IInv

LEMMA SendStep == ASSUME IInv, Send PROVE IInv' /\ Said
<1>1. AppOK' /\ Said /\ ServerOK'
    BY Untouched DEF Send
<1>2. MapsOK' /\ CommandsOK' /\ InboxOK'
    BY SendKeeps DEF Send
<1> QED
    BY <1>1, <1>2 DEF IInv

LEMMA CancelStep == ASSUME IInv, Cancel PROVE IInv' /\ Said
<1>1. UNCHANGED <<agent, ui, inbox, server, owner, closed>>
    BY DEF Cancel, CancelPrompt
<1>2. MapsOK' /\ InboxOK' /\ AppOK' /\ Said /\ ServerOK'
    BY <1>1, Untouched DEF agent
<1>3. CommandsOK'
  <2>1. PICK p \in 1..lastPrompt : CancelPrompt(p)
      BY DEF Cancel
  <2>2. CASE Interruptible(p)
    <3> DEFINE c == [kind |-> "interrupt", session |-> InterruptSession(p), prompt |-> p]
    <3>1. c \in Commands /\ SentCommand(c)
        BY <2>2 DEF IInv, MapsOK, Mapped, Interruptible, InterruptSession,
                    Commands, SentCommand
    <3> QED
        BY <1>1, <2>1, <2>2, <3>1, PostKeeps DEF CancelPrompt, agent
  <2>3. CASE ~Interruptible(p)
      BY <1>1, <2>1, <2>3, Untouched DEF CancelPrompt, agent
  <2> QED
      BY <2>2, <2>3
<1> QED
    BY <1>2, <1>3 DEF IInv

(* The new agent knows no prompt, and none is on its way to it. *)
LEMMA ReplaceStep == ASSUME IInv, Replace PROVE IInv' /\ Said
<1>1. PICK s \in Sessions : ReplaceAgent(<<s>>)
    BY DEF Replace
<1>2. UNCHANGED <<ui, owner, closed, lastPrompt, rows>>
    BY <1>1 DEF Replace, ReplaceAgent
<1>3. AppOK' /\ Said
    BY <1>2, Untouched
<1>4. MapsOK'
  <2>1. known' = {s}
      BY <1>1 DEF ReplaceAgent
  <2>2. turnIds' = {} /\ promptIds' = {} /\ promptSessions' = <<>>
      BY <1>1 DEF ReplaceAgent
  <2> QED
      BY <1>2, <2>1, <2>2 DEF IInv, MapsOK, Mapped, Gone
<1>5. CommandsOK' /\ InboxOK'
    BY <1>1 DEF ReplaceAgent, CommandsOK, InboxOK
<1>6. ServerOK'
    BY <1>1, <1>2 DEF IInv, ServerOK, ReplaceAgent
<1> QED
    BY <1>3, <1>4, <1>5, <1>6 DEF IInv

LEMMA HandleStep == ASSUME IInv, Handle PROVE IInv' /\ Said
<1>1. AppOK' /\ Said
    BY NextEventKeeps DEF Handle
<1>2. ServerOK'
    BY Untouched DEF Handle
<1>3. MapsOK' /\ CommandsOK' /\ InboxOK'
  <2>1. CASE UNCHANGED <<agent, commands, owner>>
      BY <2>1, Untouched DEF Handle, agent
  <2>2. CASE \E s \in known : SendPrompt(s)
      BY <2>2, SendKeeps DEF Handle
  <2> QED
      BY <2>1, <2>2 DEF Handle
<1> QED
    BY <1>1, <1>2, <1>3 DEF IInv

LEMMA ActStep == ASSUME IInv, Act PROVE IInv' /\ Said
<1>1. MapsOK' /\ CommandsOK' /\ InboxOK' /\ ServerOK' /\ Said
    BY Untouched, QuietBatch DEF Act, agent
<1>2. AppOK'
    BY TailElements DEF IInv, AppOK, Act
<1> QED
    BY <1>1, <1>2 DEF IInv

LEMMA DrainStep == ASSUME IInv, HandleEvent \/ Drained PROVE IInv' /\ Said
<1>1. MapsOK' /\ CommandsOK' /\ InboxOK' /\ ServerOK' /\ Said
    BY Untouched, QuietBatch DEF HandleEvent, Drained, agent
<1>2. AppOK'
    BY DEF IInv, AppOK, HandleEvent, Drained
<1> QED
    BY <1>1, <1>2 DEF IInv

-----------------------------------------------------------------------------
(*                             The translation                             *)

(* A prompt that is still mapped is not closed: it may be spoken of. *)
LEMMA MappedIsOpen == ASSUME IInv, NEW p \in promptIds PROVE p \in Prompts /\ p \notin closed
  BY DEF IInv, MapsOK, Gone

LEMMA TerminalKeeps ==
    ASSUME IInv, phase = "draining", UNCHANGED <<phase, owner>>,
           NEW e \in TransportEvents, SentEvent(e), TranslateTerminal(e)
    PROVE  MapsOK' /\ AppOK' /\ Said
<1>1. e.prompt \in 1..lastPrompt /\ UNCHANGED <<known, lastPrompt, owner, actions, phase>>
      /\ closed' = closed \union {e.prompt}
    BY DEF TranslateTerminal, SentEvent, Terminals
<1>2. CASE e.prompt \in promptIds
  <2> DEFINE x == [kind |-> IF e.kind = "completed" THEN "complete" ELSE "error",
                   prompt |-> e.prompt]
  <2>1. Forget(e.prompt) /\ Out(<<x>>)
      BY <1>2 DEF TranslateTerminal
  <2>2. x \in AgentEvents /\ x.prompt \notin closed
      BY <1>2, MappedIsOpen DEF AgentEvents
  <2>3. batch' \in Seq(AgentEvents) /\ Said
      BY <1>1, <2>1, <2>2, OutKeeps
  <2>4. MapsOK'
      BY <1>1, <2>1 DEF IInv, MapsOK, Mapped, Gone, Forget
  <2> QED
      BY <1>1, <2>3, <2>4 DEF IInv, AppOK
<1>3. CASE e.prompt \notin promptIds
  <2>1. UNCHANGED <<promptIds, turnIds, promptSessions, batch>>
      BY <1>3 DEF TranslateTerminal
  <2>2. MapsOK'
      BY <1>1, <1>3, <2>1 DEF IInv, MapsOK, Mapped, Gone
  <2> QED
      BY <1>1, <2>1, <2>2, QuietBatch DEF IInv, AppOK
<1> QED
    BY <1>2, <1>3

LEMMA TranslateStep == ASSUME IInv, Translate PROVE IInv' /\ Said
<1> DEFINE e == Head(inbox)
<1>1. /\ phase = "draining" /\ inbox # <<>> /\ inbox' = Tail(inbox)
      /\ UNCHANGED <<phase, commands, server, owner>>
      /\ \/ TranslateRpcError(e) \/ TranslateDelta(e) \/ TranslateRow(e)
         \/ TranslateTerminal(e) \/ TranslateHydrated(e)
    BY DEF Translate
<1>2. UNCHANGED lastPrompt
    BY <1>1 DEF TranslateRpcError, TranslateDelta, TranslateRow, TranslateTerminal,
                TranslateHydrated, agent
<1>3. e \in TransportEvents /\ SentEvent(e) /\ InboxOK'
    BY <1>1, <1>2, TakeEventKeeps
<1>4. CommandsOK' /\ ServerOK'
    BY <1>1, <1>2, Untouched
<1>5. MapsOK' /\ AppOK' /\ Said
  <2> SUFFICES ASSUME ~TranslateTerminal(e) PROVE MapsOK' /\ AppOK' /\ Said
      BY <1>1, <1>3, TerminalKeeps
  <2>1. UNCHANGED <<agent, closed>>
      BY <1>1 DEF TranslateRpcError, TranslateDelta, TranslateRow, TranslateHydrated
  <2>2. MapsOK'
      BY <1>1, <2>1, Untouched
  <2>3. ASSUME NEW x \in AgentEvents, x.prompt \in promptIds, Out(<<x>>),
               UNCHANGED actions
        PROVE  AppOK' /\ Said
      BY <1>1, <2>3, MappedIsOpen, OutKeeps DEF IInv, AppOK
  <2>4. ASSUME UNCHANGED batch, actions' \in Seq(Hydrations)
        PROVE  AppOK' /\ Said
      BY <1>1, <2>4, QuietBatch DEF IInv, AppOK
  <2>5. actions \in Seq(Hydrations)
      BY DEF IInv, AppOK
  <2>6. CASE TranslateRpcError(e)
    <3>1. ASSUME NEW p \in promptIds PROVE [kind |-> "error", prompt |-> p] \in AgentEvents
        BY MappedIsOpen DEF AgentEvents
    <3> QED
        BY <2>2, <2>3, <2>4, <2>5, <2>6, <3>1 DEF TranslateRpcError
  <2>7. CASE TranslateDelta(e)
    <3>1. ASSUME e.prompt \in promptIds PROVE e \in AgentEvents
        BY <1>3, <2>7 DEF AgentEvents, TransportEvents, TranslateDelta
    <3> QED
        BY <2>2, <2>3, <2>4, <2>5, <2>7, <3>1 DEF TranslateDelta
  <2>8. CASE TranslateRow(e)
    <3>1. e.prompt \in Prompts
        BY <1>3, <2>8 DEF TransportEvents, TranslateRow
    <3>2. ASSUME NEW p \in InFlight(e.session)
          PROVE  /\ p \in promptIds
                 /\ [kind |-> "authoritative", prompt |-> p, row |-> e.prompt] \in AgentEvents
        BY <3>1, MappedIsOpen DEF IInv, MapsOK, InFlight, AgentEvents
    <3> QED
        BY <2>2, <2>3, <2>4, <2>5, <2>8, <3>2 DEF TranslateRow
  <2>9. CASE TranslateHydrated(e)
    <3> DEFINE h == [session |-> e.session]
    <3>1. h \in Hydrations
        BY <1>3, <2>9 DEF TransportEvents, TranslateHydrated, Hydrations
    <3>2. Append(actions, h) \in Seq(Hydrations)
        BY <2>5, <3>1
    <3> QED
        BY <2>2, <2>4, <2>5, <2>9, <3>2 DEF TranslateHydrated
  <2> QED
      BY <1>1, <2>2, <2>6, <2>7, <2>8, <2>9
<1> QED
    BY <1>3, <1>4, <1>5 DEF IInv

-----------------------------------------------------------------------------
(*                      The transport and the server                       *)

(* What the environment never touches. *)
LEMMA EnvironmentLeaves ==
    Environment => UNCHANGED <<agent, ui, owner, closed>>
BY DEF Environment, LoseCommand, Serve, OtherFails, EndTurns, Stream, Persist,
       Replay, EndTurn

LEMMA FailureType == Failure \in TransportEvents /\ SentEvent(Failure)
BY DEF Failure, TransportEvents, SentEvent, Terminals

LEMMA RowType ==
    ASSUME IInv, NEW p \in 1..lastPrompt
    PROVE  /\ p \in Prompts
           /\ Row(p) \in TransportEvents /\ SentEvent(Row(p))
BY BridgeAssumption DEF IInv, MapsOK, Row, Prompts, TransportEvents, SentEvent, Terminals

LEMMA ServeStep == ASSUME IInv, Serve PROVE CommandsOK' /\ InboxOK' /\ ServerOK'
<1> DEFINE c == Head(commands)
<1>1. /\ commands # <<>> /\ commands' = Tail(commands)
      /\ ServeHydrate(c) \/ ServeStart(c) \/ ServeInterrupt(c)
      /\ UNCHANGED <<lastPrompt, owner>>
    BY DEF Serve, agent
<1>2. c \in Commands /\ CommandsOK'
    BY <1>1, TakeCommandKeeps
<1>3. Deliver(Failure) \/ UNCHANGED inbox => InboxOK'
    BY <1>1, FailureType, DeliverKeeps, Untouched
<1>4. CASE ServeHydrate(c)
  <2> DEFINE e == [kind |-> "hydrated", session |-> c.session]
  <2>1. e \in TransportEvents /\ SentEvent(e)
      BY <1>2, <1>4 DEF ServeHydrate, Commands, TransportEvents, SentEvent, Terminals
  <2> QED
      BY <1>1, <1>2, <1>3, <1>4, <2>1, DeliverKeeps, Untouched DEF ServeHydrate
<1>5. CASE ServeStart(c)
  <2>1. c.prompt \in Prompts
      BY <1>2, <1>5 DEF ServeStart, Commands
  <2>2. ServerOK'
      BY <1>5, <2>1 DEF IInv, ServerOK, ServeStart
  <2> QED
      BY <1>2, <1>3, <1>5, <2>2 DEF ServeStart
<1>6. CASE ServeInterrupt(c)
    BY <1>2, <1>3, <1>6, Untouched DEF ServeInterrupt
<1> QED
    BY <1>1, <1>4, <1>5, <1>6

LEMMA TurnStep ==
    ASSUME IInv, NEW p \in 1..lastPrompt,
           Stream(p) \/ Persist(p) \/ EndTurn(p) \/ Replay(p)
    PROVE  CommandsOK' /\ InboxOK' /\ ServerOK'
<1>1. UNCHANGED <<commands, lastPrompt, owner>>
    BY DEF Stream, Persist, EndTurn, Replay, agent
<1>2. CommandsOK'
    BY <1>1, Untouched
<1>3. InboxOK'
  <2>1. ASSUME NEW kind \in {"delta", "completed", "failed"}
        PROVE  /\ [kind |-> kind, prompt |-> p] \in TransportEvents
               /\ SentEvent([kind |-> kind, prompt |-> p])
      BY RowType DEF TransportEvents, SentEvent
  <2>2. CASE Stream(p)
      BY <1>1, <2>1, <2>2, DeliverKeeps DEF Stream
  <2>3. CASE Persist(p)
      BY <1>1, <2>3, RowType, DeliverKeeps DEF Persist
  <2>4. CASE EndTurn(p)
      BY <1>1, <2>1, <2>4, DeliverKeeps DEF EndTurn
  <2>5. CASE Replay(p)
      BY <1>1, <2>1, <2>5, RowType, DeliverKeeps DEF Replay
  <2> QED
      BY <2>2, <2>3, <2>4, <2>5
<1>4. ServerOK'
    BY RowType DEF IInv, ServerOK, Stream, Persist, EndTurn, Replay, server
<1> QED
    BY <1>2, <1>3, <1>4

LEMMA EnvironmentStep == ASSUME IInv, Environment PROVE IInv' /\ Said
<1>1. UNCHANGED <<lastPrompt, owner>> /\ MapsOK' /\ AppOK' /\ Said
    BY EnvironmentLeaves, Untouched DEF agent
<1>2. CommandsOK' /\ InboxOK' /\ ServerOK'
  <2>1. CASE LoseCommand
      BY <2>1, <1>1, TakeCommandKeeps, Untouched DEF LoseCommand
  <2>2. CASE OtherFails
      BY <2>2, <1>1, FailureType, DeliverKeeps, Untouched DEF OtherFails
  <2>3. CASE Serve
      BY <2>3, ServeStep
  <2>4. CASE EndTurns \/ \E p \in 1..lastPrompt : Stream(p) \/ Persist(p) \/ Replay(p)
      BY <2>4, TurnStep DEF EndTurns
  <2> QED
      BY <2>1, <2>2, <2>3, <2>4 DEF Environment
<1> QED
    BY <1>1, <1>2 DEF IInv

-----------------------------------------------------------------------------
LEMMA StepIInv == ASSUME IInv, [BridgeNext]_bridgeVars PROVE IInv' /\ Said
<1>1. CASE UNCHANGED bridgeVars
    BY <1>1, Untouched DEF bridgeVars, agent, IInv
<1>2. CASE BridgeNext
    BY <1>2, OpenStep, SendStep, CancelStep, ReplaceStep, HandleStep, ActStep,
       DrainStep, TranslateStep, EnvironmentStep DEF BridgeNext
<1> QED
    BY <1>1, <1>2

LEMMA Inductive == BridgeSpec => []IInv
<1>1. IInv /\ [BridgeNext]_bridgeVars => IInv'
    BY StepIInv
<1> QED
    BY <1>1, InitIInv, PTL DEF BridgeSpec

(* The types, and above all that the three prompt maps of the agent always *)
(* hold the same prompts: send_prompt and the terminal arms of the         *)
(* translation change them together.                                       *)
THEOREM TypeCorrect == BridgeSpec => []TypeOK
<1>1. IInv => TypeOK
  <2>1. IInv => closed \subseteq Prompts
      BY BridgeAssumption DEF IInv, MapsOK, Gone, Prompts
  <2> QED
      BY <2>1 DEF IInv, MapsOK, CommandsOK, InboxOK, AppOK, ServerOK, TypeOK
<1> QED
    BY <1>1, Inductive, PTL

(* However many sessions are open and prompts in flight, cancel_prompt     *)
(* interrupts the turn in the session its prompt was sent to.              *)
THEOREM InterruptsCorrect == BridgeSpec => []InterruptsOwner
<1>1. IInv => InterruptsOwner
    BY DEF IInv, CommandsOK, SentCommand, InterruptsOwner
<1> QED
    BY <1>1, Inductive, PTL

(* A prompt whose TurnCompleted or TurnError has been translated is never  *)
(* spoken of again, in whatever order and how often notifications arrive.  *)
THEOREM EndIsFinal == BridgeSpec => NothingAfterTheEnd
<1>1. IInv /\ [BridgeNext]_bridgeVars =>
        \A i \in Len(batch) + 1 .. Len(batch') : batch'[i].prompt \notin closed
    BY StepIInv DEF Said
<1> QED
    BY <1>1, Inductive, PTL DEF BridgeSpec, NothingAfterTheEnd
=============================================================================

----------------------------- MODULE HostProofs -----------------------------
(***************************************************************************)
(* Proofs about the live cards, the development loop and the monitor, for  *)
(* any number of cards, rounds, jobs, log lines and taps.                  *)
(*                                                                         *)
(* Cards: while a card is drawn its session does not change, and the draw  *)
(* knows whether there was one (Drawing); what a save publishes was        *)
(* renamed into place or the save has failed (Saved).                      *)
(* Development loop: whatever names a round's picture file for the next    *)
(* capture, the card on the screen is that round's (Aimed), since a card   *)
(* is shown and its capture armed in one step; so a picture shows the card *)
(* it is of, or nothing yet (Developed).                                   *)
(* Monitor: no two jobs hold one name, and a number once drawn is never    *)
(* drawn again (OwnNames).                                                 *)
(***************************************************************************)
EXTENDS MC_Host, SequenceLemmas, TLAPS

-----------------------------------------------------------------------------
(*                             The live cards                              *)

Messages == {Prose} \cup {Ledger(c) : c \in Ledgers} \cup {Lowered(c) : c \in Ledgers}
Chats == {q \in Seq(Messages) : Len(q) <= MaxMessages}
LiveCards == [card : Ledgers, cells : Nat, origin : 0..MaxLands]
Steps == {"idle", "create", "write", "rename", "publish"}
Stores == [mem : Lists, disk : Lists, vm : Lists, step : Steps, failed : BOOLEAN]

ChatTypes == chat \in [fg : Chats, bg : Chats]
SessionTypes ==
    /\ DOMAIN sessions \subseteq 1..MaxMessages
    /\ \A i \in DOMAIN sessions : sessions[i] \in LiveCards
SourceTypes ==
    /\ landed \in 0..MaxLands /\ observed \in [Ledgers -> {"pending", "ready"}]
    /\ reader \in [url : BOOLEAN, placed : BOOLEAN]
CardTypes == ChatTypes /\ SessionTypes /\ SourceTypes

StoreTypes == store \in Stores

(* A draw under way is of a card, and has found its session if it has one. *)
Drawing ==
    \/ draft = None
    \/ /\ draft.on /\ draft.item \in 1..MaxMessages /\ draft.card \in Ledgers
       /\ draft.origin \in 0..MaxLands
       /\ draft.new <=> Session(draft.item).card # draft.card

(* What is published was renamed into place, unless the save failed. *)
Saved == store.step = "publish" /\ ~store.failed => store.disk = store.mem

StoreInv == StoreTypes /\ ListSurvives /\ Saved
CardsInv == CardTypes /\ Drawing /\ StoreInv

-----------------------------------------------------------------------------
LEMMA NoList == <<>> \in Lists
  BY EmptySeq DEF Lists, IsInjective

LEMMA NewSession ==
    ASSUME NEW i, NEW s, sessions' = With(i, s)
    PROVE  /\ DOMAIN sessions' = DOMAIN sessions \cup {i} /\ sessions'[i] = s
           /\ \A j \in DOMAIN sessions : j # i => sessions'[j] = sessions[j]
  BY DEF With

(* The durable list with one write applied. *)
LEMMA AddedIsList == ASSUME StoreTypes, NEW r \in Refs PROVE Added(r) \in Lists
  <1>. DEFINE q == store.mem
  <1>1. q \in Seq(Refs) /\ \A i, j \in DOMAIN q : q[i] = q[j] => i = j
    BY DEF StoreTypes, Stores, Lists, IsInjective
  <1>. HIDE DEF q
  <1>2. CASE Contains(q, r)
    BY <1>1, <1>2 DEF Added, Lists, IsInjective, q
  <1>3. CASE ~Contains(q, r)
    <2>1. \A i \in 1..Len(q) : q[i] # r
      BY <1>3 DEF Contains
    <2>2. /\ Append(q, r) \in Seq(Refs) /\ Len(q) \in Nat /\ DOMAIN q = 1..Len(q)
          /\ DOMAIN Append(q, r) = 1..Len(q) + 1 /\ Append(q, r)[Len(q) + 1] = r
          /\ \A i \in 1..Len(q) : Append(q, r)[i] = q[i]
      BY <1>1, Appended
    <2>3. \A i, j \in DOMAIN Append(q, r) : Append(q, r)[i] = Append(q, r)[j] => i = j
      BY <1>1, <2>1, <2>2
    <2>4. Added(r) = Append(q, r)
      BY <1>3 DEF Added, q
    <2>. QED  BY <2>2, <2>3, <2>4 DEF Lists, IsInjective
  <1>. QED  BY <1>2, <1>3

LEMMA RemovedIsList == ASSUME StoreTypes, NEW r PROVE Removed(r) \in Lists
  <1>. DEFINE q == store.mem
  <1>1. q \in Seq(Refs) /\ \A i, j \in DOMAIN q : q[i] = q[j] => i = j
    BY DEF StoreTypes, Stores, Lists, IsInjective
  <1>. HIDE DEF q
  <1>2. Retain(q, Refs \ {r}) \in Seq(Refs)
    BY <1>1, RetainElements
  <1>3. \A i, j \in DOMAIN Retain(q, Refs \ {r}) :
          Retain(q, Refs \ {r})[i] = Retain(q, Refs \ {r})[j] => i = j
    BY <1>1, RetainDistinct
  <1>. QED  BY <1>2, <1>3 DEF Removed, Lists, IsInjective, q

(* A tap may add, remove, or change nothing. *)
LEMMA TapKeepsStore ==
    ASSUME StoreInv, Idle, NEW r \in Refs, NEW new \in {Added(r), Removed(r)}, store' = Apply(new)
    PROVE  StoreInv'
  <1>1. new \in Lists
    BY AddedIsList, RemovedIsList DEF StoreInv
  <1>2. store \in Stores /\ store.step = "idle" /\ store.disk \in Lists
        /\ (~store.failed => store.disk = store.mem)
    BY DEF StoreInv, StoreTypes, ListSurvives, Idle
  <1>3. CASE new = store.mem
    <2>1. store' = [store EXCEPT !.vm = store.mem]
      BY <1>3 DEF Apply
    <2>. QED  BY <1>2, <2>1 DEF StoreInv, StoreTypes, ListSurvives, Saved, Stores
  <1>4. CASE new # store.mem
    <2>1. store' = [store EXCEPT !.mem = new, !.step = "create"]
      BY <1>4 DEF Apply
    <2>. QED  BY <1>1, <1>2, <2>1 DEF StoreInv, StoreTypes, ListSurvives, Saved, Stores, Steps
  <1>. QED  BY <1>3, <1>4

LEMMA SaveKeepsStore == ASSUME StoreInv, Save PROVE StoreInv'
  <1>. USE DEF StoreInv, StoreTypes, ListSurvives, Saved, Stores, Steps
  <1>1. CASE CreateTemp
    BY <1>1 DEF CreateTemp, Step
  <1>2. CASE SaveFails
    BY <1>2 DEF SaveFails
  <1>3. CASE WriteAndSync
    BY <1>3 DEF WriteAndSync, Step
  <1>4. CASE RenameInto
    BY <1>4 DEF RenameInto
  <1>5. CASE Publish
    BY <1>5 DEF Publish
  <1>. QED  BY <1>1, <1>2, <1>3, <1>4, <1>5 DEF Save

LEMMA RestartKeepsStore == ASSUME StoreInv, Restart PROVE StoreInv'
  <1>1. PICK loaded \in Lists :
          store' = [store EXCEPT !.mem = loaded, !.disk = loaded, !.vm = loaded, !.step = "idle",
                                 !.failed = FALSE]
    BY NoList DEF Restart
  <1>. QED  BY <1>1 DEF StoreInv, StoreTypes, ListSurvives, Saved, Stores, Steps

-----------------------------------------------------------------------------
LEMMA NewestIs ==
    ASSUME ChatTypes
    PROVE  /\ chat.fg \in Seq(Messages) /\ Newest \in Nat /\ Newest <= MaxMessages
           /\ DOMAIN chat.fg = 1..Newest
  BY DEF ChatTypes, Chats, Newest

LEMMA SessionSet ==
    ASSUME SessionTypes, NEW i \in 1..MaxMessages, NEW s \in LiveCards, sessions' = With(i, s)
    PROVE  SessionTypes'
  <1>1. /\ DOMAIN sessions' = DOMAIN sessions \cup {i} /\ sessions'[i] = s
        /\ \A j \in DOMAIN sessions : j # i => sessions'[j] = sessions[j]
    BY NewSession
  <1>2. DOMAIN sessions' \subseteq 1..MaxMessages
    BY <1>1 DEF SessionTypes
  <1>3. ASSUME NEW j \in DOMAIN sessions' PROVE sessions'[j] \in LiveCards
    BY <1>1 DEF SessionTypes
  <1>. QED  BY <1>2, <1>3 DEF SessionTypes

LEMMA FreshCard ==
    /\ \A c \in Ledgers : Fresh(c) \in LiveCards
    /\ \A i : Session(i).card # NoCard => i \in DOMAIN sessions
  <1>1. 0 \in 0..MaxLands
    BY L0CardsAssumption
  <1>2. \A c \in Ledgers : Fresh(c) \in LiveCards
    BY <1>1 DEF Fresh, LiveCards
  <1>3. \A i : Session(i).card # NoCard => i \in DOMAIN sessions
    BY DEF Fresh, Session
  <1>. QED  BY <1>2, <1>3

(* A message joins the conversation. *)
LEMMA ArrivesKeeps ==
    ASSUME CardTypes, NEW m \in Messages, Arrives(m)
    PROVE  /\ ChatTypes' /\ SourceTypes' /\ Newest + 1 \in 1..MaxMessages
  <1>1. /\ chat' = [chat EXCEPT !.fg = Append(@, m)] /\ Newest < MaxMessages
        /\ UNCHANGED <<landed, observed, reader>>
    BY DEF Arrives
  <1>2. Append(chat.fg, m) \in Chats
    BY <1>1, NewestIs, Appended, L0CardsAssumption DEF CardTypes, Chats, Newest
  <1>3. ChatTypes'
    BY <1>1, <1>2 DEF CardTypes, ChatTypes
  <1>. QED  BY <1>1, <1>3, NewestIs, L0CardsAssumption DEF CardTypes, SourceTypes

(* A message rewritten is still a message. *)
LEMMA LoweredChat ==
    ASSUME ChatTypes, NEW i \in 1..MaxMessages, NEW c \in Ledgers
    PROVE  Lowering(i, c) \in [fg : Chats, bg : Chats]
  <1>1. CASE i <= Newest /\ chat.fg[i].kind # "ledger"
    <2>1. [chat.fg EXCEPT ![i] = Lowered(c)] \in Chats
      <3>1. Lowered(c) \in Messages
        BY DEF Messages
      <3>. QED  BY <1>1, <3>1, NewestIs DEF Chats, Newest
    <2>2. Lowering(i, c) = [chat EXCEPT !.fg = [chat.fg EXCEPT ![i] = Lowered(c)]]
      BY <1>1 DEF Lowering, ChatTypes
    <2>. QED  BY <2>1, <2>2 DEF ChatTypes
  <1>2. CASE ~(i <= Newest /\ chat.fg[i].kind # "ledger")
    BY <1>2 DEF Lowering, ChatTypes
  <1>. QED  BY <1>1, <1>2

(* A card that is tapped keeps its session. *)
LEMMA MovesKeeps ==
    ASSUME CardTypes, NEW i \in DOMAIN sessions, sessions' = Moves(i),
           chat' = chat \/ TapNow(i)
    PROVE  ChatTypes' /\ SessionTypes'
  <1>1. i \in 1..MaxMessages /\ sessions[i] \in LiveCards /\ Session(i) = sessions[i]
    BY DEF CardTypes, SessionTypes, Session
  <1>2. [Session(i) EXCEPT !.cells = @ + 1] \in LiveCards
    BY <1>1 DEF LiveCards
  <1>3. SessionTypes'
    BY <1>1, <1>2, SessionSet DEF CardTypes, Moves
  <1>4. Session(i).card \in Ledgers
    BY <1>1 DEF LiveCards
  <1>5. ChatTypes'
    BY <1>1, <1>4, LoweredChat DEF CardTypes, ChatTypes, TapNow
  <1>. QED  BY <1>3, <1>5

LEMMA LatestIs == ASSUME SessionTypes, DOMAIN sessions # {} PROVE Latest \in DOMAIN sessions
  <1>1. DOMAIN sessions \in SUBSET (0..MaxMessages)
    BY DEF SessionTypes
  <1>2. \E i \in DOMAIN sessions : \A j \in DOMAIN sessions : j <= i
    BY <1>1, Greatest, L0CardsAssumption
  <1>. QED  BY <1>2 DEF Latest

-----------------------------------------------------------------------------
LEMMA CardsInitially == CardsInit => CardsInv
  <1>. SUFFICES ASSUME CardsInit PROVE CardsInv
    OBVIOUS
  <1>1. ChatTypes
    BY EmptySeq, L0CardsAssumption DEF CardsInit, ChatTypes, Chats
  <1>2. SessionTypes /\ SourceTypes
    BY L0CardsAssumption DEF CardsInit, SessionTypes, SourceTypes
  <1>3. Drawing /\ StoreInv
    BY NoList
    DEF CardsInit, Drawing, StoreInv, StoreTypes, ListSurvives, Saved, Stores, Steps
  <1>. QED  BY <1>1, <1>2, <1>3 DEF CardsInv, CardTypes

(* Drawing begins. *)
LEMMA StartKeeps == ASSUME CardsInv, DrawStarts PROVE CardTypes' /\ Drawing'
  <1>1. UNCHANGED <<chat, sessions, landed, observed, reader>>
    BY DEF DrawStarts
  <1>2. CardTypes'
    BY <1>1 DEF CardsInv, CardTypes, ChatTypes, SessionTypes, SourceTypes
  <1>3. CASE draft' = draft
    BY <1>1, <1>2, <1>3 DEF CardsInv, Drawing, Session
  <1>4. CASE draft' # draft
    <2>. DEFINE i == Newest
                msg == chat.fg[i]
                old == Existing(i, msg.card)
                s == IF old THEN Session(i) ELSE Fresh(msg.card)
    <2>1. /\ i > 0 /\ msg.kind = "ledger"
          /\ draft' = [on |-> TRUE, item |-> i, card |-> msg.card, new |-> ~old,
                       cells |-> s.cells, rows |-> store.mem, guard |-> landed,
                       status |-> observed[msg.card],
                       origin |-> IF s.origin = 0 THEN landed ELSE s.origin]
      BY <1>4 DEF DrawStarts
    <2>2. i \in 1..MaxMessages /\ msg \in Messages
      BY <2>1, NewestIs DEF CardsInv, CardTypes
    <2>3. msg.card \in Ledgers
      BY <2>1, <2>2 DEF Messages, Prose, Lowered, Ledger
    <2>4. s \in LiveCards
      BY <2>3, FreshCard, L0CardsAssumption
      DEF CardsInv, CardTypes, SessionTypes, Existing, Session, Fresh
    <2>5. landed \in 0..MaxLands /\ s.origin \in 0..MaxLands
      BY <2>4 DEF CardsInv, CardTypes, SourceTypes, LiveCards
    <2>6. old \in BOOLEAN /\ (~old <=> Session(i).card # msg.card)
      BY DEF Existing
    <2>. HIDE DEF i, msg, old, s
    <2>7. /\ draft'.on /\ draft'.item = i /\ draft'.card = msg.card /\ draft'.new = ~old
          /\ draft'.origin = IF s.origin = 0 THEN landed ELSE s.origin
      BY <2>1
    <2>8. /\ draft'.on /\ draft'.item \in 1..MaxMessages /\ draft'.card \in Ledgers
          /\ draft'.origin \in 0..MaxLands
      BY <2>2, <2>3, <2>5, <2>7
    <2>9. draft'.new <=> Session(draft'.item).card # draft'.card
      BY <2>6, <2>7
    <2>. QED  BY <1>1, <1>2, <2>8, <2>9 DEF Drawing, Session
  <1>. QED  BY <1>2, <1>3, <1>4

(* It ends, and the card has its session. *)
LEMMA EndKeeps == ASSUME CardsInv, DrawEnds PROVE CardTypes' /\ Drawing'
  <1>. DEFINE d == draft
  <1>1. /\ d.on /\ draft' = None /\ UNCHANGED <<chat, landed, reader>>
        /\ observed' = [observed EXCEPT ![d.card] = Status(landed)]
        /\ IF d.new THEN Begin(d.item, d.card)
                    ELSE sessions' = With(d.item, Captured(Session(d.item), d.origin))
    BY DEF DrawEnds
  <1>2. /\ d.item \in 1..MaxMessages /\ d.card \in Ledgers /\ d.origin \in 0..MaxLands
        /\ d.new <=> Session(d.item).card # d.card
    BY <1>1 DEF CardsInv, Drawing, None
  <1>3. SessionTypes'
    <2>1. CASE d.new
      BY <1>1, <1>2, <2>1, FreshCard, SessionSet DEF CardsInv, CardTypes, Begin
    <2>2. CASE ~d.new
      <3>1. d.item \in DOMAIN sessions
        BY <1>2, <2>2, FreshCard, L0CardsAssumption
      <3>2. Captured(Session(d.item), d.origin) \in LiveCards
        BY <1>2, <3>1 DEF CardsInv, CardTypes, SessionTypes, Session, Captured, LiveCards
      <3>. QED  BY <1>1, <1>2, <2>2, <3>2, SessionSet DEF CardsInv, CardTypes
    <2>. QED  BY <2>1, <2>2
  <1>4. ChatTypes' /\ SourceTypes'
    BY <1>1, <1>2 DEF CardsInv, CardTypes, ChatTypes, SourceTypes, Status
  <1>. QED  BY <1>1, <1>3, <1>4 DEF CardTypes, Drawing

(* Every other step but a restart finds the draw under way as it left it,  *)
(* or none.                                                                *)
LEMMA CardsKeep == CardsInv /\ [CardsNext]_cardVars => CardsInv'
  <1>. SUFFICES ASSUME CardsInv, [CardsNext]_cardVars PROVE CardsInv'
    OBVIOUS
  <1>1. CardTypes /\ Drawing /\ StoreInv
    BY DEF CardsInv
  <1>2. ASSUME UNCHANGED store PROVE StoreInv'
    BY <1>1, <1>2 DEF StoreInv, StoreTypes, ListSurvives, Saved
  <1>3. ASSUME Idle, UNCHANGED draft PROVE Drawing'
    BY <1>3 DEF Idle, Drawing
  <1>4. ASSUME UNCHANGED <<draft, sessions>> PROVE Drawing'
    BY <1>1, <1>4 DEF Drawing, Session
  <1>5. ASSUME UNCHANGED <<chat, sessions, observed, reader>>, landed' \in 0..MaxLands PROVE CardTypes'
    BY <1>1, <1>5 DEF CardTypes, ChatTypes, SessionTypes, SourceTypes
  <1>6. landed \in 0..MaxLands
    BY <1>1 DEF CardTypes, SourceTypes
  <1>7. ASSUME NEW m \in Messages, MessageArrives(m) PROVE CardsInv'
    BY <1>1, <1>2, <1>3, <1>7, ArrivesKeeps
    DEF CardsInv, CardTypes, MessageArrives, Arrives, SessionTypes
  <1>8. ASSUME NEW c \in Ledgers, CardSeeded(c) PROVE CardsInv'
    <2>1. Ledger(c) \in Messages /\ Arrives(Ledger(c)) /\ sessions' = With(Newest + 1, Fresh(c))
      BY <1>8 DEF Messages, CardSeeded, Begin
    <2>2. CardTypes'
      BY <1>1, <2>1, ArrivesKeeps, SessionSet, FreshCard DEF CardTypes
    <2>. QED  BY <1>2, <1>3, <2>1, <2>2 DEF CardsInv, Arrives
  <1>9. ASSUME Switch \/ Wipe PROVE CardsInv'
    <2>1. ChatTypes'
      <3>1. chat.fg \in Chats /\ chat.bg \in Chats /\ <<>> \in Chats
        BY <1>1, EmptySeq, L0CardsAssumption DEF CardTypes, ChatTypes, Chats
      <3>2. chat' = [fg |-> chat.bg, bg |-> chat.fg] \/ chat' = [chat EXCEPT !.fg = <<>>]
        BY <1>9 DEF Switch, Wipe
      <3>. QED  BY <1>1, <3>1, <3>2 DEF CardTypes, ChatTypes
    <2>. QED
      BY <1>1, <1>2, <1>3, <1>9, <2>1
      DEF CardsInv, CardTypes, SessionTypes, SourceTypes, Switch, Wipe
  <1>10. ASSUME Restart PROVE CardsInv'
    <2>1. ChatTypes'
      BY <1>1, <1>10, EmptySeq, L0CardsAssumption DEF CardTypes, ChatTypes, Chats, Restart
    <2>2. SessionTypes' /\ SourceTypes' /\ Drawing'
      BY <1>10, L0CardsAssumption DEF Restart, SessionTypes, SourceTypes, Drawing
    <2>. QED  BY <1>1, <1>10, <2>1, <2>2, RestartKeepsStore DEF CardsInv, CardTypes
  <1>11. ASSUME DrawStarts \/ DrawEnds PROVE CardsInv'
    BY <1>1, <1>2, <1>11, StartKeeps, EndKeeps DEF CardsInv, DrawStarts, DrawEnds
  <1>12. ASSUME FetchLands PROVE CardsInv'
    BY <1>1, <1>2, <1>4, <1>5, <1>6, <1>12, L0CardsAssumption DEF CardsInv, FetchLands
  <1>13. ASSUME EpochPoll \/ Redraw \/ TypingEnds PROVE CardsInv'
    BY <1>1, <1>2, <1>4, <1>5, <1>6, <1>13 DEF CardsInv, EpochPoll, Redraw, TypingEnds
  <1>14. ASSUME NEW i \in DOMAIN sessions, Idle, sessions' = Moves(i), chat' = chat \/ TapNow(i),
                UNCHANGED <<landed, observed, draft, reader>>, StoreInv'
         PROVE  CardsInv'
    <2>1. ChatTypes' /\ SessionTypes'
      BY <1>1, <1>14, MovesKeeps
    <2>. QED  BY <1>1, <1>3, <1>14, <2>1 DEF CardsInv, CardTypes, SourceTypes
  <1>15. ASSUME TapCard PROVE CardsInv'
    BY <1>2, <1>14, <1>15 DEF TapCard
  <1>16. ASSUME Gesture PROVE CardsInv'
    BY <1>1, <1>2, <1>14, <1>16, LatestIs DEF Gesture, CardTypes
  <1>17. ASSUME NEW r \in Refs, ListTap(r) PROVE CardsInv'
    <2>1. StoreInv'
      BY <1>1, <1>17, TapKeepsStore DEF ListTap
    <2>. QED  BY <1>14, <1>17, <2>1 DEF ListTap
  <1>18. ASSUME Save PROVE CardsInv'
    BY <1>1, <1>4, <1>5, <1>6, <1>18, SaveKeepsStore DEF CardsInv, Save
  <1>19. ASSUME NEW open \in BOOLEAN, LinkTap(open) PROVE CardsInv'
    BY <1>1, <1>2, <1>4, <1>19
    DEF CardsInv, CardTypes, ChatTypes, SessionTypes, SourceTypes, LinkTap
  <1>20. ASSUME Place \/ Back PROVE CardsInv'
    BY <1>1, <1>2, <1>4, <1>20
    DEF CardsInv, CardTypes, ChatTypes, SessionTypes, SourceTypes, Place, Back
  <1>21. ASSUME UNCHANGED cardVars PROVE CardsInv'
    BY <1>1, <1>2, <1>4, <1>5, <1>6, <1>21 DEF CardsInv, cardVars
  <1>22. Prose \in Messages /\ \A c \in Ledgers : Ledger(c) \in Messages
    BY DEF Messages
  <1>. QED
    BY <1>7, <1>8, <1>9, <1>10, <1>11, <1>12, <1>13, <1>15, <1>16, <1>17, <1>18, <1>19, <1>20,
       <1>21, <1>22 DEF CardsNext

-----------------------------------------------------------------------------
LEMMA CardsTyped == CardsInv => CardsTypeOK /\ ListSurvives
  <1>. SUFFICES ASSUME CardsInv PROVE CardsTypeOK /\ ListSurvives
    OBVIOUS
  <1>1. \A q \in {chat.fg, chat.bg} : Len(q) <= MaxMessages
    BY DEF CardsInv, CardTypes, ChatTypes, Chats
  <1>2. \A i \in DOMAIN sessions : sessions[i].card \in Ledgers /\ sessions[i].origin <= MaxLands
    <2>1. ASSUME NEW i \in DOMAIN sessions
          PROVE  sessions[i].card \in Ledgers /\ sessions[i].origin \in 0..MaxLands
      BY DEF CardsInv, CardTypes, SessionTypes, LiveCards
    <2>. QED  BY <2>1
  <1>3. {store.mem, store.vm} \subseteq Lists /\ store.step \in Steps
    BY DEF CardsInv, StoreInv, StoreTypes, Stores
  <1>. QED
    BY <1>1, <1>2, <1>3 DEF CardsInv, CardTypes, SourceTypes, StoreInv, CardsTypeOK, Steps

KeptCells ==
    \A i \in DOMAIN sessions :
        (draft # draft' /\ i \in DOMAIN sessions' /\ sessions'[i].card = sessions[i].card)
            => sessions'[i].cells = sessions[i].cells

LEMMA RedrawKeeps == CardsInv /\ [CardsNext]_cardVars => KeptCells
  <1>. SUFFICES ASSUME CardsInv, [CardsNext]_cardVars PROVE KeptCells
    OBVIOUS
  <1>1. ASSUME UNCHANGED draft \/ UNCHANGED sessions \/ sessions' = <<>> PROVE KeptCells
    BY <1>1 DEF KeptCells
  <1>2. ASSUME DrawEnds PROVE KeptCells
    <2>. DEFINE d == draft
    <2>1. /\ d.on
          /\ IF d.new THEN sessions' = With(d.item, Fresh(d.card))
                      ELSE sessions' = With(d.item, Captured(Session(d.item), d.origin))
      BY <1>2 DEF DrawEnds, Begin
    <2>2. d.new <=> Session(d.item).card # d.card
      BY <2>1 DEF CardsInv, Drawing, None
    <2>. SUFFICES ASSUME NEW i \in DOMAIN sessions, sessions'[i].card = sessions[i].card
                  PROVE  sessions'[i].cells = sessions[i].cells
      BY DEF KeptCells
    <2>3. CASE i # d.item
      BY <2>1, <2>3, NewSession
    <2>4. CASE i = d.item /\ d.new
      <3>1. sessions'[i] = Fresh(d.card)
        BY <2>1, <2>4, NewSession
      <3>2. sessions'[i].card = d.card
        BY <3>1 DEF Fresh
      <3>. QED  BY <2>2, <2>4, <3>2 DEF Session
    <2>5. CASE i = d.item /\ ~d.new
      <3>1. sessions'[i] = Captured(sessions[i], d.origin)
        BY <2>1, <2>5, NewSession DEF Session
      <3>2. sessions[i] \in LiveCards
        BY DEF CardsInv, CardTypes, SessionTypes
      <3>. QED  BY <3>1, <3>2 DEF Captured, LiveCards
    <2>. QED  BY <2>3, <2>4, <2>5
  <1>3. ASSUME NEW m, Arrives(m) PROVE KeptCells
    BY <1>1, <1>3 DEF Arrives
  <1>4. ASSUME Switch \/ Wipe \/ Restart \/ DrawStarts \/ FetchLands \/ EpochPoll \/ Redraw
        PROVE  KeptCells
    BY <1>1, <1>4 DEF Switch, Wipe, Restart, DrawStarts, FetchLands, EpochPoll, Redraw
  <1>5. ASSUME TapCard \/ TypingEnds \/ Gesture \/ Save \/ Place \/ Back PROVE KeptCells
    BY <1>1, <1>5 DEF TapCard, TypingEnds, Gesture, Save, Place, Back
  <1>6. ASSUME NEW r, ListTap(r) \/ LinkTap(r) PROVE KeptCells
    BY <1>1, <1>6 DEF ListTap, LinkTap
  <1>7. ASSUME UNCHANGED cardVars PROVE KeptCells
    BY <1>1, <1>7 DEF cardVars
  <1>. QED
    BY <1>2, <1>3, <1>4, <1>5, <1>6, <1>7 DEF CardsNext, MessageArrives, CardSeeded

-----------------------------------------------------------------------------
(*                         The development loop                            *)

CameraTypes ==
    /\ pictures \in [1..Snap -> 0..MaxRounds]
    /\ critics \in [Rounds -> {"none", "settling", "scoring"}]
    /\ capture \in 0..Snap /\ drawnCard \in 0..MaxRounds
Aimed == capture \in Rounds => drawnCard = capture
Developed == \A r \in Rounds : pictures[r] \in {Nothing, r}

CameraInv == CameraTypes /\ Aimed /\ Developed /\ CriticSeesItsCard
RoundsInv == CameraInv /\ TextIsOwn

-----------------------------------------------------------------------------
LEMMA Files ==
    /\ Snap \in 1..Snap /\ Snap \in 0..Snap /\ Snap \notin Rounds
    /\ Nothing \notin Rounds /\ Nothing \in 0..Snap /\ Nothing \in 0..MaxRounds
    /\ \A r \in Rounds : r \in 1..Snap /\ r \in 0..Snap /\ r \in 0..MaxRounds
  BY DevLoopAssumption DEF Snap, Rounds, Nothing

LEMMA RoundsInitially == DevLoopInit => RoundsInv
  BY Files
  DEF DevLoopInit, RoundsInv, CameraInv, CameraTypes, Aimed, Developed, CriticSeesItsCard, TextIsOwn

(* A round's card is drawn and its capture armed in one step, or neither. *)
LEMMA CheckKeeps ==
    ASSUME CameraInv, NEW r \in Rounds, NEW renders \in BOOLEAN,
           SelfCheck(r, renders)
    PROVE  CameraInv'
  <1>1. CASE UNCHANGED camera
    BY <1>1 DEF camera, CameraInv, CameraTypes, Aimed, Developed, CriticSeesItsCard
  <1>2. CASE ~UNCHANGED camera
    <2>1. /\ drawnCard' = r /\ capture' = r
          /\ pictures' = [pictures EXCEPT ![r] = Nothing]
          /\ critics' = [critics EXCEPT ![r] = "settling"]
      BY <1>2 DEF SelfCheck, Arm
    <2>2. CameraTypes' /\ Aimed'
      BY <2>1, Files DEF CameraInv, CameraTypes, Aimed
    <2>3. \A q \in Rounds : /\ pictures'[q] = IF q = r THEN Nothing ELSE pictures[q]
                            /\ critics'[q] = IF q = r THEN "settling" ELSE critics[q]
      BY <2>1, Files DEF CameraInv, CameraTypes
    <2>4. Developed' /\ CriticSeesItsCard'
      BY <2>3 DEF CameraInv, Developed, CriticSeesItsCard
    <2>. QED  BY <2>2, <2>4 DEF CameraInv
  <1>. QED  BY <1>1, <1>2

LEMMA CameraStep == RoundsInv /\ [DevLoopNext]_devVars => CameraInv'
  <1>. SUFFICES ASSUME RoundsInv, [DevLoopNext]_devVars PROVE CameraInv'
    OBVIOUS
  <1>1. CameraInv
    BY DEF RoundsInv
  <1>2. ASSUME UNCHANGED <<capture, drawnCard, pictures, critics>> PROVE CameraInv'
    BY <1>1, <1>2 DEF CameraInv, CameraTypes, Aimed, Developed, CriticSeesItsCard
  <1>3. ASSUME NEW r \in Rounds, DevComplete(r) PROVE CameraInv'
    <2>1. UNCHANGED camera \/ \E renders \in BOOLEAN : SelfCheck(r, renders)
      BY <1>3 DEF DevComplete
    <2>. QED  BY <1>1, <1>2, <2>1, CheckKeeps DEF camera
  <1>4. ASSUME DrawPass PROVE CameraInv'
    <2>1. /\ capture # Nothing /\ pictures' = [pictures EXCEPT ![capture] = drawnCard]
          /\ UNCHANGED <<drawnCard, capture, critics>>
      BY <1>4 DEF DrawPass
    <2>2. CASE capture \in Rounds
      <3>1. drawnCard = capture
        BY <1>1, <2>2 DEF CameraInv, Aimed
      <3>2. \A q \in Rounds : pictures'[q] = IF q = capture THEN capture ELSE pictures[q]
        BY <1>1, <2>1, <3>1, Files DEF CameraInv, CameraTypes
      <3>3. CameraTypes'
        BY <1>1, <2>1, <2>2, <3>1, Files DEF CameraInv, CameraTypes
      <3>. QED
        BY <1>1, <2>1, <3>2, <3>3 DEF CameraInv, Aimed, Developed, CriticSeesItsCard
    <2>3. CASE capture \notin Rounds
      <3>1. \A q \in Rounds : pictures'[q] = pictures[q]
        BY <1>1, <2>1, <2>3, Files DEF CameraInv, CameraTypes
      <3>2. capture = Snap /\ drawnCard \in 0..MaxRounds
        BY <1>1, <2>1, <2>3, DevLoopAssumption DEF CameraInv, CameraTypes, Snap, Rounds, Nothing
      <3>3. CameraTypes'
        BY <1>1, <2>1, <3>2, Files DEF CameraInv, CameraTypes
      <3>. QED
        BY <1>1, <2>1, <3>1, <3>3 DEF CameraInv, Aimed, Developed, CriticSeesItsCard
    <2>. QED  BY <2>2, <2>3
  <1>5. ASSUME NEW r \in Rounds, CriticDisarms(r) PROVE CameraInv'
    <2>1. /\ capture' = Nothing /\ UNCHANGED <<drawnCard, pictures>>
          /\ critics' = [critics EXCEPT ![r] = IF pictures[r] = Nothing
                                               THEN "none" ELSE "scoring"]
      BY <1>5 DEF CriticDisarms
    <2>2. CameraTypes' /\ Aimed' /\ Developed'
      BY <1>1, <2>1, Files DEF CameraInv, CameraTypes, Aimed, Developed
    <2>3. CriticSeesItsCard'
      BY <1>1, <2>1 DEF CameraInv, CameraTypes, Developed, CriticSeesItsCard
    <2>. QED  BY <2>2, <2>3 DEF CameraInv
  <1>6. ASSUME NEW r \in Rounds, CriticScores(r) PROVE CameraInv'
    BY <1>1, <1>6 DEF CriticScores, CameraInv, CameraTypes, Aimed, Developed, CriticSeesItsCard
  <1>7. ASSUME SnapAsked \/ SnapEnds PROVE CameraInv'
    <2>1. /\ capture' \in {Snap, Nothing} /\ UNCHANGED <<drawnCard, critics>>
          /\ pictures' = pictures \/ pictures' = [pictures EXCEPT ![Snap] = Nothing]
      BY <1>7 DEF SnapAsked, SnapEnds
    <2>2. CameraTypes' /\ Aimed' /\ \A q \in Rounds : pictures'[q] = pictures[q]
      BY <1>1, <2>1, Files DEF CameraInv, CameraTypes, Aimed
    <2>. QED
      BY <1>1, <2>1, <2>2 DEF CameraInv, Developed, CriticSeesItsCard
  <1>. QED
    BY <1>2, <1>3, <1>4, <1>5, <1>6, <1>7
    DEF DevLoopNext, DevDelta, DevOther, DevError, OrphanEnds, TimePasses, Signal, HostFinds,
        camera, devVars

(* A turn that ends or is given up takes its text with it. *)
LEMMA TextStep == TextIsOwn /\ [DevLoopNext]_devVars => TextIsOwn'
  <1>. SUFFICES ASSUME TextIsOwn, [DevLoopNext]_devVars PROVE TextIsOwn'
    OBVIOUS
  <1>1. ASSUME UNCHANGED <<devText, devPrompt>> \/ devText' = {} PROVE TextIsOwn'
    BY <1>1 DEF TextIsOwn
  <1>2. ASSUME NEW r \in Rounds, DevDelta(r) PROVE TextIsOwn'
    BY <1>2, Files DEF DevDelta, TextIsOwn
  <1>3. ASSUME Signal PROVE TextIsOwn'
    <2>1. CASE Overdue
      BY <1>1, <1>3, <2>1 DEF Signal, KeptAfter
    <2>2. CASE ~Overdue
      <3>1. devText' = devText /\ (devPrompt' = devPrompt \/ devPrompt = Nothing)
        BY <1>3, <2>2 DEF Signal, KeptAfter
      <3>. QED  BY <3>1 DEF TextIsOwn
    <2>. QED  BY <2>1, <2>2
  <1>. QED
    BY <1>1, <1>2, <1>3
    DEF DevLoopNext, DevOther, DevComplete, DevError, OrphanEnds, CriticDisarms, CriticScores,
        TimePasses, DrawPass, HostFinds, SnapAsked, SnapEnds, devVars, turnVars

(* Turns, findings and critics keep to the rounds. *)
TurnTypes ==
    /\ devPrompt \in 0..devRound /\ devRound \in Rounds
    /\ devText \subseteq Rounds /\ late \in BOOLEAN
    /\ cardFile \in 0..MaxRounds /\ live \subseteq Rounds /\ surface \subseteq Rounds
CriticTypes ==
    /\ findings \in Seq(0..MaxRounds) /\ snap \in BOOLEAN /\ ferried \in 0..MaxHost
    /\ \A r \in Rounds : critics[r] # "none" => r < Cap
DevInv == RoundsInv /\ TurnTypes /\ CriticTypes

LEMMA DevInitially == DevLoopInit => DevInv
  <1>. SUFFICES ASSUME DevLoopInit PROVE DevInv
    OBVIOUS
  <1>1. 1 \in Rounds /\ 1 \in 0..1 /\ 0 \in 0..MaxRounds /\ 0 \in 0..MaxHost
    BY DevLoopAssumption DEF Rounds
  <1>2. TurnTypes
    BY <1>1 DEF DevLoopInit, TurnTypes, Nothing
  <1>3. CriticTypes
    BY <1>1, EmptySeq DEF DevLoopInit, CriticTypes
  <1>. QED  BY <1>2, <1>3, RoundsInitially DEF DevInv

LEMMA Found ==
    ASSUME CriticTypes, NEW r \in 0..MaxRounds
    PROVE  Append(findings, r) \in Seq(0..MaxRounds)
  BY DEF CriticTypes

LEMMA TurnStep == DevInv /\ [DevLoopNext]_devVars => TurnTypes'
  <1>. SUFFICES ASSUME DevInv, [DevLoopNext]_devVars PROVE TurnTypes'
    OBVIOUS
  <1>1. TurnTypes
    BY DEF DevInv
  <1>2. ASSUME UNCHANGED turnVars PROVE TurnTypes'
    BY <1>1, <1>2 DEF TurnTypes, turnVars
  <1>3. devRound \in Nat /\ 0 \in 0..devRound
    BY <1>1, DevLoopAssumption DEF TurnTypes, Rounds
  <1>4. ASSUME NEW r \in Rounds, DevDelta(r) \/ DevOther(r) \/ OrphanEnds(r) PROVE TurnTypes'
    BY <1>1, <1>4 DEF TurnTypes, DevDelta, DevOther, OrphanEnds
  <1>5. ASSUME NEW r \in Rounds, DevComplete(r) PROVE TurnTypes'
    <2>1. /\ live' = live \ {r} /\ devPrompt' = 0 /\ devText' = {} /\ late' = FALSE
          /\ cardFile' \in {r, cardFile} /\ UNCHANGED <<devRound, surface>>
      BY <1>5 DEF DevComplete, Nothing
    <2>. QED  BY <1>1, <1>3, <2>1, Files DEF TurnTypes
  <1>6. ASSUME NEW r \in Rounds, DevError(r) PROVE TurnTypes'
    BY <1>1, <1>3, <1>6 DEF TurnTypes, DevError, Nothing
  <1>7. ASSUME TimePasses PROVE TurnTypes'
    BY <1>1, <1>7 DEF TurnTypes, TimePasses
  <1>8. ASSUME Signal PROVE TurnTypes'
    <2>1. devText' \subseteq Rounds /\ UNCHANGED <<cardFile, surface>>
      BY <1>1, <1>8 DEF Signal, KeptAfter, TurnTypes
    <2>2. CASE devRound < MaxRounds /\ devRound' = devRound + 1 /\ devPrompt' = devRound + 1
               /\ live' = live \union {devRound + 1} /\ late' = FALSE
      <3>1. devRound + 1 \in Rounds /\ devRound + 1 \in 0..devRound + 1
        BY <1>1, <1>3, <2>2, DevLoopAssumption DEF TurnTypes, Rounds
      <3>. QED  BY <1>1, <2>1, <2>2, <3>1 DEF TurnTypes
    <2>3. CASE UNCHANGED <<devRound, live, late>> /\ devPrompt' \in {0, devPrompt}
      BY <1>1, <1>3, <2>1, <2>3 DEF TurnTypes
    <2>. QED  BY <1>8, <2>2, <2>3 DEF Signal, Nothing
  <1>. QED
    BY <1>2, <1>4, <1>5, <1>6, <1>7, <1>8
    DEF DevLoopNext, CriticDisarms, CriticScores, DrawPass, HostFinds, SnapAsked, SnapEnds, devVars

LEMMA CriticStep == DevInv /\ [DevLoopNext]_devVars => CriticTypes'
  <1>. SUFFICES ASSUME DevInv, [DevLoopNext]_devVars PROVE CriticTypes'
    OBVIOUS
  <1>1. CriticTypes /\ TurnTypes /\ CameraTypes
    BY DEF DevInv, RoundsInv, CameraInv
  <1>2. ASSUME UNCHANGED <<findings, snap, ferried, critics>> PROVE CriticTypes'
    BY <1>1, <1>2 DEF CriticTypes
  <1>3. ASSUME NEW r \in Rounds, DevComplete(r) PROVE CriticTypes'
    <2>1. r = devPrompt /\ UNCHANGED ferried
      BY <1>3 DEF DevComplete
    <2>2. CASE UNCHANGED <<findings, camera>>
      BY <1>2, <2>1, <2>2 DEF camera
    <2>3. ASSUME NEW renders \in BOOLEAN, SelfCheck(r, renders), devRound < Cap PROVE CriticTypes'
      <3>1. CASE findings' = Append(findings, r) /\ UNCHANGED camera
        BY <1>1, <2>1, <3>1, Found, Files DEF CriticTypes, camera
      <3>2. CASE critics' = [critics EXCEPT ![r] = "settling"] /\ UNCHANGED <<findings, snap>>
        <4>1. r < Cap
          BY <1>1, <2>1, <2>3, DevLoopAssumption DEF TurnTypes, Rounds
        <4>2. \A q \in Rounds : critics'[q] # "none" => q < Cap
          BY <1>1, <3>2, <4>1 DEF CriticTypes, CameraTypes
        <4>. QED  BY <1>1, <2>1, <3>2, <4>2 DEF CriticTypes
      <3>. QED  BY <2>3, <3>1, <3>2 DEF SelfCheck, BelowCap
    <2>. QED  BY <1>3, <2>2, <2>3 DEF DevComplete, SelfCheck, BelowCap
  <1>4. ASSUME Signal PROVE CriticTypes'
    <2>1. findings' = findings \/ (findings # <<>> /\ findings' = Tail(findings))
      BY <1>4 DEF Signal
    <2>2. findings' \in Seq(0..MaxRounds)
      BY <1>1, <2>1 DEF CriticTypes
    <2>. QED  BY <1>1, <1>4, <2>2 DEF CriticTypes, Signal, camera
  <1>5. ASSUME HostFinds PROVE CriticTypes'
    <2>1. ferried + 1 \in 0..MaxHost
      BY <1>1, <1>5, DevLoopAssumption DEF CriticTypes, HostFinds
    <2>. QED  BY <1>1, <1>5, <2>1, Found DEF CriticTypes, TurnTypes, HostFinds, camera
  <1>6. ASSUME NEW r \in Rounds, CriticDisarms(r) \/ CriticScores(r) PROVE CriticTypes'
    <2>1. /\ \A q \in Rounds : critics'[q] # "none" => critics[q] # "none"
          /\ UNCHANGED <<snap, ferried>>
          /\ findings' = findings \/ findings' = Append(findings, r)
      BY <1>1, <1>6 DEF CriticDisarms, CriticScores, CameraTypes
    <2>. QED  BY <1>1, <2>1, Found, Files DEF CriticTypes
  <1>7. ASSUME SnapAsked \/ SnapEnds PROVE CriticTypes'
    BY <1>1, <1>7 DEF CriticTypes, SnapAsked, SnapEnds
  <1>. QED
    BY <1>2, <1>3, <1>4, <1>5, <1>6, <1>7
    DEF DevLoopNext, DevDelta, DevOther, DevError, OrphanEnds, TimePasses, DrawPass, camera, devVars

LEMMA DevKeeps == DevInv /\ [DevLoopNext]_devVars => DevInv'
  BY CameraStep, TextStep, TurnStep, CriticStep DEF DevInv, RoundsInv

LEMMA DevTyped == DevInv => DevLoopTypeOK /\ RoundsDoNotMix
  <1>. SUFFICES ASSUME DevInv PROVE DevLoopTypeOK /\ RoundsDoNotMix
    OBVIOUS
  <1>1. \A r \in DOMAIN critics :
          critics[r] \in {"none", "settling", "scoring"} /\ (critics[r] # "none" => r < Cap)
    BY DEF DevInv, RoundsInv, CameraInv, CameraTypes, CriticTypes
  <1>2. DevLoopTypeOK
    BY <1>1 DEF DevInv, RoundsInv, CameraInv, CameraTypes, TurnTypes, CriticTypes, DevLoopTypeOK
  <1>. QED  BY <1>2 DEF DevInv, RoundsInv, CameraInv, RoundsDoNotMix

-----------------------------------------------------------------------------
(*                              The monitor                                *)

MonitorNext == RingNext \/ ShellNext \/ JobNext

(* The ring and its follower. *)
RingTypes ==
    /\ seq \in 0..MaxLines /\ holding \in [Loggers -> 0..MaxLines]
    /\ ring \in Seq(Lines) /\ Len(ring) <= LogCap
    /\ follower \in [on : BOOLEAN, last : 0..MaxLines, todo : Seq(Lines)]
    /\ seen \subseteq Lines

(* A command that has exited has written all it had to. *)
CommandInv ==
    /\ cmd \in [state : {"idle", "running", "exited", "killed", "answered"}, want : Nat, wrote : Nat,
                kept : BOOLEAN, out : 0..OutCap, ok : BOOLEAN]
    /\ cmd.wrote <= cmd.want
    /\ cmd.state = "exited" => cmd.wrote = cmd.want
    /\ ShellAnswerIsWhole

JobStates == {"idle", "try", "named", "stored", "done", "failed", "stopped", "passed"}
JobRecords ==
    [state : JobStates, kind : {"imagegen", "concept"}, try : 0..MaxTries, path : Int,
     best : -1..Best, bestPath : Int, scores : SUBSET (Int \X Int)]

HasName(r) == r.state \in {"named", "stored", "done"}

(* A name is drawn for one job and once. *)
OwnNames ==
    /\ \A j \in Jobs : HasName(job[j]) => job[j].path \in 0..genSeq - 1
    /\ \A j, k \in Jobs : HasName(job[j]) /\ HasName(job[k]) /\ job[j].path = job[k].path => j = k

Written == \A j \in Jobs : job[j].state \in {"stored", "done"} => job[j].path \in DOMAIN artifacts

JobInv ==
    /\ job \in [Jobs -> JobRecords]
    /\ genSeq \in Nat /\ DOMAIN artifacts \subseteq 0..genSeq - 1
    /\ OwnNames /\ Written /\ ArtifactIsOwn

MonitorInv == RingTypes /\ CommandInv /\ JobInv

-----------------------------------------------------------------------------
LEMMA RingKeeps == RingTypes /\ (RingNext \/ UNCHANGED ringVars) => RingTypes'
  <1>. SUFFICES ASSUME RingTypes, RingNext \/ UNCHANGED ringVars PROVE RingTypes'
    OBVIOUS
  <1>1. ASSUME UNCHANGED ringVars PROVE RingTypes'
    BY <1>1 DEF RingTypes, ringVars
  <1>2. ASSUME NEW t \in Loggers, Draws(t) PROVE RingTypes'
    BY <1>2, MonitorAssumption DEF RingTypes, Draws
  <1>3. ASSUME NEW t \in Loggers, Pushes(t) PROVE RingTypes'
    <2>1. holding[t] \in Lines /\ 0 \in 0..MaxLines
      BY <1>3, MonitorAssumption DEF RingTypes, Pushes, Lines
    <2>2. Trimmed(ring) \in Seq(Lines) /\ Len(Trimmed(ring)) + 1 <= LogCap
      BY MonitorAssumption DEF RingTypes, Trimmed
    <2>3. Append(Trimmed(ring), holding[t]) \in Seq(Lines)
          /\ Len(Append(Trimmed(ring), holding[t])) <= LogCap
      BY <2>1, <2>2
    <2>. QED  BY <1>3, <2>1, <2>3 DEF RingTypes, Pushes
  <1>4. ASSUME OpensStream PROVE RingTypes'
    <2>1. ASSUME Len(ring) > Backlog PROVE ring[Len(ring) - Backlog + 1] \in 0..MaxLines
      <3>1. Len(ring) \in Nat /\ Len(ring) - Backlog + 1 \in 1..Len(ring)
        BY <2>1, MonitorAssumption DEF RingTypes
      <3>. QED  BY <3>1, MonitorAssumption DEF RingTypes, Lines
    <2>. QED  BY <1>4, <2>1 DEF RingTypes, OpensStream
  <1>5. ASSUME DropsStream PROVE RingTypes'
    BY <1>5, EmptySeq DEF RingTypes, DropsStream
  <1>6. ASSUME Polls PROVE RingTypes'
    <2>1. Retain(ring, {n \in Lines : n > follower.last}) \in Seq(Lines)
      BY RetainElements DEF RingTypes
    <2>. QED  BY <1>6, <2>1 DEF RingTypes, Polls
  <1>7. ASSUME Sends PROVE RingTypes'
    <2>1. Head(follower.todo) \in Lines /\ Tail(follower.todo) \in Seq(Lines)
      BY <1>7 DEF RingTypes, Sends
    <2>2. Head(follower.todo) \in 0..MaxLines
      BY <2>1, MonitorAssumption DEF Lines
    <2>. QED  BY <1>7, <2>1, <2>2 DEF RingTypes, Sends, Cursor
  <1>. QED  BY <1>1, <1>2, <1>3, <1>4, <1>5, <1>6, <1>7 DEF RingNext

LEMMA CommandKeeps == CommandInv /\ (ShellNext \/ UNCHANGED cmd) => CommandInv'
  <1>. SUFFICES ASSUME CommandInv, ShellNext \/ UNCHANGED cmd PROVE CommandInv'
    OBVIOUS
  <1>. USE DEF CommandInv, ShellAnswerIsWhole
  <1>1. CASE UNCHANGED cmd
    BY <1>1
  <1>2. ASSUME NEW want \in 0..MaxOut, NEW kept \in BOOLEAN, Command(want, kept) PROVE CommandInv'
    <2>1. cmd' = [state |-> "running", want |-> want, wrote |-> 0, kept |-> kept, out |-> 0,
                  ok |-> FALSE]
      BY <1>2 DEF Command, Resting
    <2>2. want \in Nat /\ 0 <= want /\ 0 \in 0..OutCap
      BY MonitorAssumption
    <2>. QED  BY <2>1, <2>2
  <1>3. CASE Writes
    BY <1>3 DEF Writes
  <1>4. CASE Exits
    BY <1>4 DEF Exits
  <1>5. CASE Kills
    BY <1>5 DEF Kills
  <1>6. CASE Replies
    <2>1. PICK o, k :
            /\ o = (IF cmd.wrote > OutCap THEN OutCap ELSE cmd.wrote) /\ k = (cmd.state # "killed")
            /\ cmd' = [cmd EXCEPT !.state = "answered", !.out = o, !.ok = k]
      BY <1>6 DEF Replies
    <2>2. o \in 0..OutCap
      BY <2>1, MonitorAssumption
    <2>3. k \in BOOLEAN
      BY <2>1, Zenon
    <2>4. k => cmd.state = "exited"
      BY <1>6, <2>1 DEF Replies, Over
    <2>5. /\ cmd' \in [state : {"idle", "running", "exited", "killed", "answered"}, want : Nat,
                       wrote : Nat, kept : BOOLEAN, out : 0..OutCap, ok : BOOLEAN]
          /\ cmd'.wrote = cmd.wrote /\ cmd'.want = cmd.want /\ cmd'.state = "answered"
          /\ cmd'.out = o /\ cmd'.ok = k
      BY <2>1, <2>2, <2>3
    <2>. QED  BY <2>1, <2>4, <2>5
  <1>. QED  BY <1>1, <1>2, <1>3, <1>4, <1>5, <1>6 DEF ShellNext

-----------------------------------------------------------------------------
LEMMA AsleepIs == Asleep \in JobRecords /\ Asleep.state = "idle"
  <1>1. 0 \in 0..MaxTries /\ -1 \in -1..Best
    BY MonitorAssumption
  <1>. QED  BY <1>1 DEF Asleep, JobRecords, JobStates, NoPicture

LEMMA NextTry == ASSUME NEW r \in JobRecords PROVE AfterTry(r) \in JobRecords /\ ~HasName(AfterTry(r))
  <1>1. CASE r.try = MaxTries
    BY <1>1 DEF AfterTry, JobRecords, JobStates, HasName
  <1>2. CASE r.try # MaxTries
    <2>1. r.try + 1 \in 0..MaxTries
      BY <1>2, MonitorAssumption DEF JobRecords
    <2>. QED  BY <1>2, <2>1 DEF AfterTry, JobRecords, JobStates, HasName
  <1>. QED  BY <1>1, <1>2

(* A job that ends up without a name disturbs no other. *)
LEMMA Nameless ==
    ASSUME JobInv, NEW j \in Jobs, NEW r \in JobRecords, ~HasName(r),
           job' = [job EXCEPT ![j] = r], UNCHANGED <<genSeq, artifacts>>
    PROVE  JobInv'
  <1>1. job' \in [Jobs -> JobRecords] /\ \A k \in Jobs : job'[k] = IF k = j THEN r ELSE job[k]
    BY DEF JobInv
  <1>2. OwnNames'
    BY <1>1 DEF JobInv, OwnNames
  <1>3. ArtifactIsOwn' /\ Written'
    BY <1>1 DEF JobInv, ArtifactIsOwn, Written, HasName
  <1>. QED  BY <1>1, <1>2, <1>3 DEF JobInv

LEMMA JobKeeps == JobInv /\ (JobNext \/ UNCHANGED jobVars) => JobInv'
  <1>. SUFFICES ASSUME JobInv, JobNext \/ UNCHANGED jobVars PROVE JobInv'
    OBVIOUS
  <1>1. ASSUME UNCHANGED jobVars PROVE JobInv'
    BY <1>1 DEF JobInv, OwnNames, Written, ArtifactIsOwn, jobVars
  <1>2. ASSUME NEW j \in Jobs, NEW kind \in {"imagegen", "concept"}, Asked(j, kind) PROVE JobInv'
    <2>. DEFINE r == [Asleep EXCEPT !.state = "try", !.kind = kind, !.try = 1]
    <2>1. r \in JobRecords /\ ~HasName(r)
      <3>1. 1 \in 0..MaxTries
        BY MonitorAssumption
      <3>. QED  BY <3>1, AsleepIs DEF JobRecords, JobStates, HasName
    <2>. QED  BY <1>2, <2>1, Nameless DEF Asked
  <1>3. ASSUME NEW j \in Jobs, Named(j) PROVE JobInv'
    <2>1. /\ job' = [job EXCEPT ![j].state = "named", ![j].path = genSeq]
          /\ genSeq' = genSeq + 1 /\ UNCHANGED artifacts
      BY <1>3 DEF Named, NextName
    <2>2. job' \in [Jobs -> JobRecords]
      <3>1. [job[j] EXCEPT !.state = "named", !.path = genSeq] \in JobRecords
        <4>1. job[j] \in JobRecords /\ genSeq \in Int
          BY DEF JobInv
        <4>. QED  BY <4>1 DEF JobRecords, JobStates
      <3>2. job' = [job EXCEPT ![j] = [job[j] EXCEPT !.state = "named", !.path = genSeq]]
        BY <2>1 DEF JobInv
      <3>. QED  BY <3>1, <3>2 DEF JobInv
    <2>3. \A k \in Jobs : IF k = j THEN job'[k].state = "named" /\ job'[k].path = genSeq
                                   ELSE job'[k] = job[k]
      BY <2>1 DEF JobInv, JobRecords
    <2>4. genSeq \in Nat /\ DOMAIN artifacts' \subseteq 0..genSeq' - 1
      BY <2>1 DEF JobInv
    <2>5. OwnNames'
      <3>1. ASSUME NEW k \in Jobs, HasName(job'[k]) PROVE job'[k].path \in 0..genSeq' - 1
        BY <2>1, <2>3, <2>4, <3>1 DEF JobInv, OwnNames
      <3>2. ASSUME NEW k \in Jobs, NEW l \in Jobs, HasName(job'[k]), HasName(job'[l]),
                   job'[k].path = job'[l].path
            PROVE  k = l
        BY <2>3, <2>4, <3>2 DEF JobInv, OwnNames
      <3>. QED  BY <3>1, <3>2 DEF OwnNames, HasName
    <2>6. ArtifactIsOwn' /\ Written'
      BY <2>1, <2>3 DEF JobInv, ArtifactIsOwn, Written
    <2>. QED  BY <2>1, <2>2, <2>4, <2>5, <2>6 DEF JobInv
  <1>4. ASSUME NEW j \in Jobs, Stored(j) PROVE JobInv'
    <2>1. /\ job[j].state = "named" /\ UNCHANGED genSeq
          /\ artifacts' = [n \in DOMAIN artifacts \union {job[j].path} |->
                             IF n = job[j].path THEN <<j, job[j].try>> ELSE artifacts[n]]
          /\ job' = [job EXCEPT ![j].state = IF job[j].kind = "imagegen"
                                             THEN "done" ELSE "stored"]
      BY <1>4 DEF Stored
    <2>2. job' \in [Jobs -> JobRecords]
      BY <2>1 DEF JobInv, JobRecords, JobStates
    <2>3. \A k \in Jobs : /\ job'[k].path = job[k].path /\ job'[k].try = job[k].try
                          /\ k # j => job'[k].state = job[k].state
                          /\ HasName(job'[k]) => HasName(job[k])
      BY <2>1 DEF JobInv, JobRecords, HasName
    <2>4. job[j].path \in 0..genSeq - 1
      BY <2>1 DEF JobInv, OwnNames, HasName
    <2>5. OwnNames' /\ DOMAIN artifacts' \subseteq 0..genSeq' - 1
      BY <2>1, <2>3, <2>4 DEF JobInv, OwnNames
    <2>6. ASSUME NEW k \in Jobs, job'[k].state \in {"stored", "done"}
          PROVE  /\ artifacts'[job'[k].path] = <<k, job'[k].try>>
                 /\ job'[k].path \in DOMAIN artifacts'
      <3>1. CASE k = j
        <4>1. PICK n, t : n = job[j].path /\ t = job[j].try
          OBVIOUS
        <4>2. artifacts'[n] = <<j, t>> /\ n \in DOMAIN artifacts'
          BY <2>1, <4>1
        <4>3. job'[k].path = n /\ job'[k].try = t
          BY <2>3, <3>1, <4>1
        <4>. QED  BY <3>1, <4>2, <4>3
      <3>2. CASE k # j
        <4>1. job[k].state \in {"stored", "done"}
          BY <2>3, <2>6, <3>2
        <4>2. job[k].path # job[j].path
          BY <2>1, <3>2, <4>1 DEF JobInv, OwnNames, HasName
        <4>3. artifacts[job[k].path] = <<k, job[k].try>> /\ job[k].path \in DOMAIN artifacts
          BY <4>1 DEF JobInv, ArtifactIsOwn, Written
        <4>. QED  BY <2>1, <2>3, <4>2, <4>3
      <3>. QED  BY <3>1, <3>2
    <2>7. ArtifactIsOwn' /\ Written'
      BY <2>6 DEF ArtifactIsOwn, Written
    <2>. QED  BY <2>1, <2>2, <2>5, <2>7 DEF JobInv
  <1>5. ASSUME NEW j \in Jobs, TryFails(j) PROVE JobInv'
    <2>1. job[j] \in JobRecords
      BY DEF JobInv
    <2>2. /\ job' = [job EXCEPT ![j] = IF job[j].kind = "imagegen"
                                       THEN [job[j] EXCEPT !.state = "failed"]
                                       ELSE AfterTry(job[j])]
          /\ UNCHANGED <<genSeq, artifacts>>
      BY <1>5 DEF TryFails, JobInv
    <2>3. CASE job[j].kind = "imagegen"
      <3>1. [job[j] EXCEPT !.state = "failed"] \in JobRecords
            /\ ~HasName([job[j] EXCEPT !.state = "failed"])
        BY <2>1 DEF JobRecords, JobStates, HasName
      <3>. QED  BY <2>2, <2>3, <3>1, Nameless
    <2>4. CASE job[j].kind # "imagegen"
      BY <2>1, <2>2, <2>4, NextTry, Nameless
    <2>. QED  BY <2>3, <2>4
  <1>6. ASSUME NEW j \in Jobs, NEW s \in 0..Best, Scored(j, s) PROVE JobInv'
    <2>1. PICK r : /\ r = [Bettered(job[j], s) EXCEPT !.scores = @ \union {<<s, job[j].path>>}]
                   /\ job' = [job EXCEPT ![j] = IF s >= Best THEN [r EXCEPT !.state = "passed"]
                                                ELSE AfterTry(r)]
      BY <1>6 DEF Scored
    <2>2. job[j] \in JobRecords
      BY DEF JobInv
    <2>3. Bettered(job[j], s) \in JobRecords
      <3>1. s \in -1..Best
        BY MonitorAssumption
      <3>2. [job[j] EXCEPT !.best = s, !.bestPath = job[j].path] \in JobRecords
        BY <2>2, <3>1 DEF JobRecords
      <3>. QED  BY <2>2, <3>2 DEF Bettered
    <2>4. r \in JobRecords
      <3>1. <<s, job[j].path>> \in Int \X Int
        BY <2>2, MonitorAssumption DEF JobRecords
      <3>. QED  BY <2>1, <2>3, <3>1 DEF JobRecords
    <2>5. [r EXCEPT !.state = "passed"] \in JobRecords /\ ~HasName([r EXCEPT !.state = "passed"])
      BY <2>4 DEF JobRecords, JobStates, HasName
    <2>6. UNCHANGED <<genSeq, artifacts>>
      BY <1>6 DEF Scored
    <2>7. CASE s >= Best
      BY <2>1, <2>5, <2>6, <2>7, Nameless
    <2>8. CASE ~(s >= Best)
      BY <2>1, <2>4, <2>6, <2>8, NextTry, Nameless
    <2>. QED  BY <2>7, <2>8
  <1>. QED  BY <1>1, <1>2, <1>3, <1>4, <1>5, <1>6 DEF JobNext

-----------------------------------------------------------------------------
LEMMA MonitorInitially == MonitorInit => MonitorInv
  <1>. SUFFICES ASSUME MonitorInit PROVE MonitorInv
    OBVIOUS
  <1>1. RingTypes
    BY EmptySeq, MonitorAssumption DEF MonitorInit, RingTypes
  <1>2. CommandInv
    BY MonitorAssumption DEF MonitorInit, CommandInv, ShellAnswerIsWhole, Resting
  <1>3. JobInv
    <2>2. job \in [Jobs -> JobRecords] /\ \A j \in Jobs : job[j].state = "idle"
      BY AsleepIs DEF MonitorInit
    <2>. QED  BY <2>2 DEF MonitorInit, JobInv, OwnNames, Written, ArtifactIsOwn, HasName
  <1>. QED  BY <1>1, <1>2, <1>3 DEF MonitorInv

LEMMA MonitorKeeps == MonitorInv /\ [MonitorNext]_monVars => MonitorInv'
  <1>. SUFFICES ASSUME MonitorInv, [MonitorNext]_monVars PROVE MonitorInv'
    OBVIOUS
  <1>1. CASE RingNext
    BY <1>1, RingKeeps, CommandKeeps, JobKeeps
    DEF MonitorInv, RingNext, Draws, Pushes, OpensStream, DropsStream, Polls, Sends
  <1>2. CASE ShellNext
    BY <1>2, RingKeeps, CommandKeeps, JobKeeps
    DEF MonitorInv, ShellNext, Command, Writes, Exits, Kills, Replies
  <1>3. CASE JobNext
    BY <1>3, RingKeeps, CommandKeeps, JobKeeps
    DEF MonitorInv, JobNext, Asked, Named, Stored, TryFails, Scored
  <1>4. CASE UNCHANGED monVars
    BY <1>4, RingKeeps, CommandKeeps, JobKeeps DEF MonitorInv, monVars
  <1>. QED  BY <1>1, <1>2, <1>3, <1>4 DEF MonitorNext

LEMMA MonitorTyped == MonitorInv => MonitorTypeOK /\ ArtifactIsOwn /\ ShellAnswerIsWhole
  <1>. SUFFICES ASSUME MonitorInv PROVE MonitorTypeOK /\ ArtifactIsOwn /\ ShellAnswerIsWhole
    OBVIOUS
  <1>1. \A j \in Jobs : job[j].try \in 0..MaxTries /\ job[j].best \in -1..Best
    BY DEF MonitorInv, JobInv, JobRecords
  <1>. QED
    BY <1>1 DEF MonitorInv, RingTypes, CommandInv, JobInv, MonitorTypeOK

-----------------------------------------------------------------------------
(*                          The parts together                             *)

HostInv == CardsInv /\ DevInv /\ MonitorInv

LEMMA HostInitially == Init => HostInv
  BY CardsInitially, DevInitially, MonitorInitially DEF Init, HostInv

(* A step is a step of one part, and the others stand still. *)
LEMMA PartsStep ==
    [Next]_hostVars => [CardsNext]_cardVars /\ [DevLoopNext]_devVars /\ [MonitorNext]_monVars
  BY DEF Next, hostVars, MonitorNext

LEMMA HostKeeps == HostInv /\ [Next]_hostVars => HostInv'
  BY PartsStep, CardsKeep, DevKeeps, MonitorKeeps DEF HostInv

(* The variables of the cards, the development loop and the monitor keep   *)
(* their types; the durable list holds a reference at most once, the ring  *)
(* at most LOG_CAP lines, and no critic runs from the last round on.       *)
THEOREM HostTypeCorrect == Spec => []HostTypeOK
  <1>1. HostInv => HostTypeOK
    BY CardsTyped, DevTyped, MonitorTyped DEF HostInv, HostTypeOK
  <1>. QED  BY <1>1, HostInitially, HostKeeps, PTL DEF Spec

(* The list file survives a kill between any two system calls of a save    *)
(* (user_store.rs), an artifact is what its job made (monitor.rs, GEN_SEQ),*)
(* and a shell answer that reports success is whole (SHELL_OUT_CAP).       *)
THEOREM OutputIsAlwaysWhole == Spec => []OutputIsWhole
  <1>1. HostInv => OutputIsWhole
    BY CardsTyped, MonitorTyped DEF HostInv, OutputIsWhole
  <1>. QED  BY <1>1, HostInitially, HostKeeps, PTL DEF Spec

(* A card is cut from its own round's text and judged by its own picture,  *)
(* however many rounds, snapshots and hung turns cross (main.rs, the dev   *)
(* arms of the event loop; monitor.rs, arm_capture).                       *)
THEOREM RoundsAreKeptApart == Spec => []RoundsDoNotMix
  <1>1. HostInv => RoundsDoNotMix
    BY DevTyped DEF HostInv
  <1>. QED  BY <1>1, HostInitially, HostKeeps, PTL DEF Spec

(* A resolve is not a reset: no draw loses what a tap wrote into the       *)
(* session of its card (l0_card.rs, render_ledger), whatever lands, is     *)
(* tapped or restarted in between.                                         *)
THEOREM RedrawsKeepCells == Spec => RedrawKeepsCells
  <1>1. HostInv /\ [Next]_hostVars => [KeptCells]_cardVars
    BY PartsStep, RedrawKeeps DEF HostInv
  <1>. QED
    BY <1>1, HostInitially, HostKeeps, PTL DEF Spec, RedrawKeepsCells, KeptCells
=============================================================================

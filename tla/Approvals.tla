----------------------------- MODULE Approvals -----------------------------
(***************************************************************************)
(* Approvals: the store's slice (octos-app-store/approvals.rs), the pane   *)
(* that draws the cards (app/approvals.rs), the handle that sends          *)
(* `approval/respond` (ApprovalHandle::respond) and the arms of            *)
(* App::handle_actions that tie them together.                             *)
(*                                                                         *)
(* A click is made on a card drawn earlier, becomes an action, and the     *)
(* action a call to the server.  Meanwhile the server, other clients and   *)
(* its own scope rules decide or cancel the same approval, and a reconnect *)
(* replays what it said.  Replies and notifications reach the store by     *)
(* different ways, in either order.                                        *)
(*                                                                         *)
(* MaxClicks bounds the clicks and MaxReplays the replays.                 *)
(***************************************************************************)
EXTENDS Naturals, Sequences, FiniteSets, SequencesExt

CONSTANTS Ids, Decisions, MaxClicks, MaxReplays

ASSUME ApprovalsAssumption ==
    /\ IsFiniteSet(Ids)
    /\ Decisions \cap {"new", "open", "cancelled", "accepted", "refused", "dropped"} = {}

VARIABLES
    order,    \* pending_order
    card,     \* approval -> its ApprovalState, or absent from by_id
    cards,    \* the rows drawn last: [id, state] in order
    acts,     \* the ApprovalUiActions posted and not yet handled
    calls,    \* the responses in flight, each with its reply oneshot
    results,  \* the ApprovalAsyncActions posted and not yet handled
    ruling,   \* the server's: new, open, a decision, or cancelled
    notes,    \* its notifications on their way, in order
    taps,     \* the clicks so far
    replays   \* the replays so far

apprVars == <<order, card, cards, acts, calls, results, ruling, notes, taps, replays>>
slice == <<order, card>>

Absent == [at |-> "absent"]
Awaiting == [at |-> "Awaiting"]
Pending(d) == [at |-> "PendingResponse", decision |-> d]
Decided(d) == [at |-> "Decided", decision |-> d]
Failed(why) == [at |-> "Failed", why |-> why]
CardStates == {Absent, Awaiting, Failed("transport"), Failed("cancelled")}
              \cup {Pending(d) : d \in Decisions} \cup {Decided(d) : d \in Decisions}

ApprovalsInit ==
    /\ order = <<>> /\ card = [i \in Ids |-> Absent] /\ cards = <<>>
    /\ acts = <<>> /\ calls = {} /\ results = <<>>
    /\ ruling = [i \in Ids |-> "new"] /\ notes = <<>>
    /\ taps = 0 /\ replays = 0

Known(i) == card[i] # Absent
Queued(i) == \E n \in DOMAIN order : order[n] = i
Unqueued(i) ==
    IF Queued(i) THEN RemoveAt(order, CHOOSE n \in DOMAIN order : order[n] = i) ELSE order

-----------------------------------------------------------------------------
(* ApprovalsSlice: each operation ignores an approval it does not know.    *)

\* Mutant: asked again, the card starts over.
RequestedAgain(i) ==
    order' = Append(Unqueued(i), i) /\ card' = [card EXCEPT ![i] = Awaiting]

\* requested: asked again, as on a replay, the card keeps its state.
Requested(i) ==
    IF Known(i) THEN UNCHANGED slice
    ELSE order' = Append(order, i) /\ card' = [card EXCEPT ![i] = Awaiting]

Set(i, state) == card' = IF Known(i) THEN [card EXCEPT ![i] = state] ELSE card

PendingResponse(i, d) == Set(i, Pending(d)) /\ UNCHANGED order

\* A settled card leaves the queue.
Settled(i, state) == Set(i, state) /\ order' = IF Known(i) THEN Unqueued(i) ELSE order
\* failed: the card stays in the queue.
FailedBy(i, why) == Set(i, Failed(why)) /\ UNCHANGED order

-----------------------------------------------------------------------------
(* The server and its notifications.                                       *)

\* approval/requested
Ask(i) ==
    /\ ruling[i] = "new"
    /\ ruling' = [ruling EXCEPT ![i] = "open"]
    /\ notes' = Append(notes, [kind |-> "requested", id |-> i])
    /\ UNCHANGED <<slice, cards, acts, calls, results, taps, replays>>

\* Another client decides, or a scope rule (approval/decided, auto_resolved).
DecideElsewhere(i, d) ==
    /\ ruling[i] = "open"
    /\ ruling' = [ruling EXCEPT ![i] = d]
    /\ notes' = Append(notes, [kind |-> "decided", id |-> i, decision |-> d])
    /\ UNCHANGED <<slice, cards, acts, calls, results, taps, replays>>

Cancel(i) ==
    /\ ruling[i] = "open"
    /\ ruling' = [ruling EXCEPT ![i] = "cancelled"]
    /\ notes' = Append(notes, [kind |-> "cancelled", id |-> i])
    /\ UNCHANGED <<slice, cards, acts, calls, results, taps, replays>>

\* A replay after a reconnect says again that an approval was asked for.
Replay(i) ==
    /\ replays < MaxReplays /\ replays' = replays + 1
    /\ ruling[i] # "new"
    /\ notes' = Append(notes, [kind |-> "requested", id |-> i])
    /\ UNCHANGED <<slice, cards, acts, calls, results, ruling, taps>>

\* The first decision stands; a later one is refused with the recorded one,
\* and an answer to a cancelled approval without.
Respond(c) ==
    /\ c \in calls /\ calls' = calls \ {c}
    /\ LET r == ruling[c.id]
           reply == IF r = "open" THEN "accepted" ELSE IF r \in Decisions THEN r ELSE "refused"
       IN /\ ruling' = IF r = "open" THEN [ruling EXCEPT ![c.id] = c.decision] ELSE ruling
          /\ results' = Append(results, [id |-> c.id, decision |-> c.decision, reply |-> reply])
    /\ UNCHANGED <<slice, cards, acts, notes, taps, replays>>

\* The transport ends and drops the reply channel; the answer may or may not
\* have reached the server.
DropCall(c) ==
    /\ c \in calls /\ calls' = calls \ {c}
    /\ \/ UNCHANGED ruling
       \/ ruling[c.id] = "open" /\ ruling' = [ruling EXCEPT ![c.id] = c.decision]
    /\ results' = Append(results, [id |-> c.id, decision |-> c.decision, reply |-> "dropped"])
    /\ UNCHANGED <<slice, cards, acts, notes, taps, replays>>

\* state.rs, apply_protocol
FoldNote ==
    /\ notes # <<>> /\ notes' = Tail(notes)
    /\ LET n == Head(notes) IN
       CASE n.kind = "requested" -> Requested(n.id)
         [] n.kind = "decided" -> Settled(n.id, Decided(n.decision))
         [] OTHER -> Settled(n.id, Failed("cancelled"))
    /\ UNCHANGED <<cards, acts, calls, results, ruling, taps, replays>>

-----------------------------------------------------------------------------
(* The pane.                                                               *)

\* collect_visible_snapshots: the queue, then the settled cards in the order
\* of a hash map.
Settling == {i \in Ids : card[i].at \in {"Decided", "Failed"} /\ ~Contains(order, i)}
Visible == {order \o rest : rest \in SetToSeqs(Settling)}

DrawPane ==
    /\ \E rows \in Visible : cards' = [n \in DOMAIN rows |-> [id |-> rows[n], state |-> card[rows[n]]]]
    /\ UNCHANGED <<slice, acts, calls, results, ruling, notes, taps, replays>>

\* populate_card: the buttons are gone once the card is answered.
Answerable(state) == state.at = "Awaiting"

\* post_decision on the row of the moment with the index of the row clicked.
\* It refuses what is pending or decided.
Accepts(state) == state.at \notin {"PendingResponse", "Decided"}
ClickDecision(n, d) ==
    /\ taps < MaxClicks /\ taps' = taps + 1
    /\ Answerable(cards[n].state)
    /\ \E rows \in Visible :
         acts' = IF n \in DOMAIN rows /\ Accepts(card[rows[n]])
                 THEN Append(acts, [id |-> rows[n], decision |-> d])
                 ELSE acts
    /\ UNCHANGED <<slice, cards, calls, results, ruling, notes, replays>>

\* handle_actions: the card is marked before the call leaves.  A full or
\* closed channel fails the call at once.
HandleAct ==
    /\ acts # <<>> /\ acts' = Tail(acts)
    /\ LET a == Head(acts) IN
       /\ PendingResponse(a.id, a.decision)
       /\ \/ /\ calls' = calls \cup {[id |-> a.id, decision |-> a.decision, nr |-> Cardinality(calls)]}
             /\ UNCHANGED results
          \/ /\ results' = Append(results, [id |-> a.id, decision |-> a.decision, reply |-> "dropped"])
             /\ UNCHANGED calls
    /\ UNCHANGED <<cards, ruling, notes, taps, replays>>

\* Mutant: the answer of the user is shown, whatever was recorded.
OwnDecision(r) == r.decision

\* -32011 carries the recorded decision; without one the user's is shown.
ShownDecision(r) == IF r.reply \in Decisions THEN r.reply ELSE r.decision

HandleResult ==
    /\ results # <<>> /\ results' = Tail(results)
    /\ LET r == Head(results) IN
       IF r.reply = "dropped" THEN FailedBy(r.id, "transport")
       ELSE Settled(r.id, Decided(ShownDecision(r)))
    /\ UNCHANGED <<cards, acts, calls, ruling, notes, taps, replays>>

\* connect_transport drops the old agent's runtime, and with it the tasks
\* that wait for a reply: no result is ever posted.
ReplaceAgent ==
    /\ calls # {} /\ calls' = {}
    /\ UNCHANGED <<slice, cards, acts, results, ruling, notes, taps, replays>>

ApprovalsNext ==
    \/ \E i \in Ids : Ask(i) \/ Cancel(i) \/ Replay(i) \/ \E d \in Decisions : DecideElsewhere(i, d)
    \/ \E c \in calls : Respond(c) \/ DropCall(c)
    \/ FoldNote \/ DrawPane \/ HandleAct \/ HandleResult \/ ReplaceAgent
    \/ \E n \in DOMAIN cards, d \in Decisions : ClickDecision(n, d)

-----------------------------------------------------------------------------

\* The maps of the slice agree: what waits in the queue is known and waits
\* there once, and a card that can be answered is in it.
ApprovalsTypeOK ==
    /\ card \in [Ids -> CardStates]
    /\ IsInjective(order) /\ \A i \in ToSet(order) : Known(i) /\ card[i].at # "Decided"
    /\ \A i \in Ids : card[i] = Awaiting => Contains(order, i)

\* A card never shows a decision the server did not take: not the user's
\* late one over that of another client, of a scope rule, or of an earlier
\* click (main.rs, ApprovalAsyncAction).  Only after a cancellation the
\* server's refusal names none.
ShowsTheRuling ==
    \A i \in Ids : card[i].at = "Decided" => ruling[i] \in {card[i].decision, "cancelled"}

\* A replayed request never asks the user again what was answered
\* (approvals.rs, requested: "keeps the existing state").
AnsweredOnce ==
    [][\A i \in Ids : card[i].at \notin {"absent", "Awaiting"} => card'[i] # Awaiting]_slice

=============================================================================

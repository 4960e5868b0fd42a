---------------------------- MODULE RulingsShown ----------------------------
(***************************************************************************)
(* What the approval cards promise: a card asks once, after the server     *)
(* did, and then shows only what is true of the server's ruling, which is  *)
(* made once: a decision that was taken, or, after a cancellation, the     *)
(* user's own; and "cancelled" only if it was.  A card may also say that   *)
(* an answer is on its way or did not get through.                         *)
(***************************************************************************)
CONSTANTS Ids, Decisions

VARIABLES
    ruling,     \* the server's: new, open, a decision, or cancelled
    shown       \* the state of each card

vars == <<ruling, shown>>

Absent == [at |-> "absent"]
Awaiting == [at |-> "Awaiting"]
Failed(why) == [at |-> "Failed", why |-> why]

Init == ruling = [i \in Ids |-> "new"] /\ shown = [i \in Ids |-> Absent]

Request(i) == ruling[i] = "new" /\ ruling' = [ruling EXCEPT ![i] = "open"] /\ UNCHANGED shown

Rule(i) ==
    /\ ruling[i] = "open"
    /\ \E r \in Decisions \cup {"cancelled"} : ruling' = [ruling EXCEPT ![i] = r]
    /\ UNCHANGED shown

Turns(i, state) == shown' = [shown EXCEPT ![i] = state] /\ UNCHANGED ruling

Appear(i) == ruling[i] # "new" /\ shown[i] = Absent /\ Turns(i, Awaiting)

Answer(i) ==
    /\ shown[i] # Absent
    /\ \/ \E d \in Decisions : Turns(i, [at |-> "PendingResponse", decision |-> d])
       \/ Turns(i, Failed("transport"))

Publish(i) ==
    /\ shown[i] # Absent
    /\ \/ \E d \in Decisions : /\ ruling[i] \in {d, "cancelled"}
                               /\ Turns(i, [at |-> "Decided", decision |-> d])
       \/ ruling[i] = "cancelled" /\ Turns(i, Failed("cancelled"))

Next == \E i \in Ids : Request(i) \/ Rule(i) \/ Appear(i) \/ Answer(i) \/ Publish(i)

Spec == Init /\ [][Next]_vars
=============================================================================

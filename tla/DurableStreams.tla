--------------------------- MODULE DurableStreams ---------------------------
(***************************************************************************)
(* What the transport promises about a session's durable notifications:    *)
(* the app consumes them in the order the server committed them, none      *)
(* missing and none twice, whatever happens to the connections in between. *)
(* Only a session that is opened fresh, or that has no cursor yet, may     *)
(* skip some, and then older ones.                                         *)
(***************************************************************************)
EXTENDS Naturals

CONSTANTS
    Sessions,       \* session keys
    FreshSessions,  \* those opened without a replay bracket
    MaxCursor       \* bound: notifications of a session

VARIABLES
    committed,      \* the last notification the server committed, by session
    consumed        \* the last one the app consumed

vars == <<committed, consumed>>

Init == committed \in [Sessions -> 0..MaxCursor] /\ consumed = committed

Commit(s) ==
    /\ committed[s] < MaxCursor
    /\ committed' = [committed EXCEPT ![s] = @ + 1]
    /\ UNCHANGED consumed

Skips(s) == s \in FreshSessions \/ consumed[s] = 0

Consume(s) ==
    /\ \E c \in consumed[s] + 1..committed[s] :
         /\ ~Skips(s) => c = consumed[s] + 1
         /\ consumed' = [consumed EXCEPT ![s] = c]
    /\ UNCHANGED committed

Next == \E s \in Sessions : Commit(s) \/ Consume(s)

Spec == Init /\ [][Next]_vars
=============================================================================

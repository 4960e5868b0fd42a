---------------------------- MODULE MC_Transport ----------------------------
(* Transport on small instances; the .cfg files give the constants. *)
EXTENDS Transport, TLC

(* The sessions and the calls are interchangeable. *)
Symmetry == Permutations(Sessions) \union Permutations(Calls)

(* Calls to a server that publishes nothing and may be out of reach; or    *)
(* sessions followed without calls, over channels of one place.            *)
Bounds ==
    \/ \A s \in Sessions : ledger[s] = 0
    \/ /\ \A k \in Calls : outcome[k] = "unused"
       /\ Len(commands) <= 1 /\ waited = 0
=============================================================================

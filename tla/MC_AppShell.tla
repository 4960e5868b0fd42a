---------------------------- MODULE MC_AppShell ----------------------------
(* TLC's instances of AppShell: the sessions the app creates, and the old  *)
(* ones, are interchangeable among themselves.                             *)
EXTENDS AppShell, TLC

Symmetry == Permutations(Sessions \ Old) \union Permutations(Old)

(* Two prompts whatever else happens; or, with one session created and one *)
(* command and one event on their way at a time, all of them: enough for   *)
(* every repair the budgets allow and one more.                            *)
Bounds ==
    \/ lastPrompt <= 2
    \/ /\ Cardinality(minted) <= 1
       /\ Len(commands) <= 1
       /\ Len(inbox) + Len(batch) + Len(actions) <= 1
=============================================================================

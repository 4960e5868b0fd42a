---------------------------- MODULE Conversations ----------------------------
(***************************************************************************)
(* What the chat shell promises of the conversations it keeps: a session   *)
(* waits for one prompt at most, which was sent to it, and one it has      *)
(* stopped to wait for it never waits for again; the screen streams only   *)
(* while the session it shows waits, so that Cancel can end it; and of     *)
(* itself the shell asks again only so often.                              *)
(***************************************************************************)
EXTENDS Naturals

CONSTANTS Sessions, Budget

VARIABLES
    waits,      \* the prompt a session waits for, from 1; 0 for none
    front,      \* the session on the screen, as a set; {} before the first
    streams,    \* the screen streams
    lastPrompt, \* the prompts sent so far
    owner,      \* the session each was sent to
    retries     \* the prompts sent to a session since the user's last

prompts == <<lastPrompt, owner, retries>>
vars == <<waits, front, streams, prompts>>

Init ==
    /\ waits = [s \in Sessions |-> 0] /\ front = {} /\ streams = FALSE
    /\ lastPrompt = 0 /\ owner = <<>> /\ retries = [s \in Sessions |-> 0]

Send(s) ==
    /\ lastPrompt' = lastPrompt + 1
    /\ owner' = [p \in 1..lastPrompt + 1 |-> IF p = lastPrompt + 1 THEN s ELSE owner[p]]
    /\ waits' = [waits EXCEPT ![s] = lastPrompt + 1]
    /\ streams' = TRUE /\ UNCHANGED front

(* The user asks, on a screen that does not stream. *)
Ask(s) == s \in front /\ ~streams /\ Send(s) /\ retries' = [retries EXCEPT ![s] = 0]

(* An answer is refused: the shell asks again, in place of that prompt. *)
AskAgain(s) ==
    /\ s \in front /\ waits[s] # 0 /\ retries[s] <= Budget
    /\ Send(s) /\ retries' = [retries EXCEPT ![s] = @ + 1]

(* An answer has come, has failed or is not wanted any more. *)
Stop(s) ==
    /\ waits' = [waits EXCEPT ![s] = 0]
    /\ IF s \in front THEN streams' = FALSE ELSE UNCHANGED streams
    /\ UNCHANGED <<front, prompts>>

(* The stored conversation is shown instead of the answer under way. *)
Settle == streams' = FALSE /\ UNCHANGED <<waits, front, prompts>>

(* Another session comes to the screen, of the same apps or of new ones. *)
Move ==
    /\ \E s \in Sessions : front' = {s}
    /\ waits' \in {waits, [s \in Sessions |-> 0]}
    /\ streams' = FALSE /\ UNCHANGED prompts

Next == Settle \/ Move \/ \E s \in Sessions : Ask(s) \/ AskAgain(s) \/ Stop(s)

Spec == Init /\ [][Next]_vars
=============================================================================

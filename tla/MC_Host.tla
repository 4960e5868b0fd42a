------------------------------ MODULE MC_Host ------------------------------
(***************************************************************************)
(* The loops that must make progress, for TLC: the interactive ledgers of  *)
(* the chat list, the development loop, and the monitor's log tail, shell  *)
(* and image jobs.                                                         *)
(*                                                                         *)
(* A behaviour exercises one part, chosen at its start, and the other      *)
(* parts keep their initial values: no step of one part reads or writes    *)
(* the variables of another.  The fairness is asked of the part exercised. *)
(***************************************************************************)
EXTENDS L0Cards, DevLoop, Monitor

VARIABLE part

hostVars == <<cardVars, devVars, monVars, part>>

Init ==
    /\ CardsInit /\ DevLoopInit /\ MonitorInit
    /\ part \in {"ledgers", "dev", "tail", "shell", "jobs"}

Next ==
    /\ \/ part = "ledgers" /\ CardsNext /\ UNCHANGED <<devVars, monVars>>
       \/ part = "dev" /\ DevLoopNext /\ UNCHANGED <<cardVars, monVars>>
       \/ part = "tail" /\ RingNext /\ UNCHANGED <<cardVars, devVars>>
       \/ part = "shell" /\ ShellNext /\ UNCHANGED <<cardVars, devVars>>
       \/ part = "jobs" /\ JobNext /\ UNCHANGED <<cardVars, devVars>>
    /\ UNCHANGED part

(* The UI thread draws a dirty list, ends its own handlers and fires its   *)
(* timers; the heartbeat of the ferry thread wakes it, and time passes;    *)
(* the monitor's threads run on, and its browser connects again and again. *)
Fairness ==
    /\ WF_cardVars(part = "ledgers" /\ DrawStarts) /\ WF_cardVars(part = "ledgers" /\ DrawEnds)
    /\ WF_cardVars(part = "ledgers" /\ EpochPoll) /\ WF_cardVars(part = "ledgers" /\ TypingEnds)
    /\ WF_cardVars(part = "ledgers" /\ Save)
    /\ WF_devVars(part = "dev" /\ Signal) /\ WF_devVars(part = "dev" /\ TimePasses)
    /\ \A t \in Loggers : WF_monVars(part = "tail" /\ Pushes(t))
    /\ WF_monVars(part = "tail" /\ OpensStream)
    /\ SF_monVars(part = "tail" /\ Polls) /\ SF_monVars(part = "tail" /\ Sends)

Spec == Init /\ [][Next]_hostVars /\ Fairness

(* The shapes of the parts. *)
HostTypeOK == CardsTypeOK /\ DevLoopTypeOK /\ MonitorTypeOK

(* What the host writes out is whole and its own: the list file after any  *)
(* crash or failed save, a picture under its name, a shell command's       *)
(* answer.                                                                 *)
OutputIsWhole == ListSurvives /\ ArtifactIsOwn /\ ShellAnswerIsWhole

(* FetchReachesScreen (L0Cards), where the ledgers are exercised: what has *)
(* landed and what was tapped reaches the screen.                          *)
LedgersCatchUp == part = "ledgers" => FetchReachesScreen

(* TurnsAreGivenUp (DevLoop), where the development loop is exercised: a   *)
(* hung turn is abandoned.                                                 *)
DevTurnsAreGivenUp == part = "dev" => TurnsAreGivenUp
=============================================================================

------------------------------ MODULE DevLoop ------------------------------
(***************************************************************************)
(* The dev-goal harness of main.rs and the visual critic of monitor.rs, as *)
(* built for Android.  A mission starts round 1: a session of its own and  *)
(* one prompt.  A finished round writes its card to a file, checks it and  *)
(* either asks for a correction or shows the card, arms a capture of the   *)
(* framebuffer and leaves a thread to score the picture.  Findings wait in *)
(* DEV_FINDINGS until no turn is in flight.  The host may add findings and *)
(* anyone may ask for a snapshot, which uses the same capture variable.    *)
(*                                                                         *)
(* A prompt is known by its round.  Its text is known by the round too.    *)
(***************************************************************************)
EXTENDS Integers, Sequences

CONSTANTS
    Cap,            \* the round from which the critics are silent (8)
    MaxRounds,      \* bound: rounds
    MaxHost         \* bound: findings from the host

ASSUME DevLoopAssumption ==
    Cap \in Nat /\ MaxRounds \in Nat \ {0} /\ MaxHost \in Nat

Rounds == 1..MaxRounds
Nothing == 0
Snap == MaxRounds + 1       \* the file of a snapshot

VARIABLES
    devPrompt,  \* App.dev_prompt
    devText,    \* App.dev_text: the rounds it has text of
    devRound,   \* App.dev_round
    late,       \* 480 s have passed since dev_turn_started
    findings,   \* DEV_FINDINGS: the round each one is about
    cardFile,   \* dev_card.splash: the round that wrote it
    live,       \* the turns the server still runs
    drawnCard,  \* the card on the screen
    surface,    \* the rounds whose text has reached CHAT_DATA
    capture,    \* MAKEPAD_WRITE_FRAMEBUFFER_PNG: the round or Snap it names
    pictures,   \* per file, the card it shows
    critics,    \* spawn_ux_critic's threads: "settling" or "scoring"
    snap,       \* a /snapshot request waits for its picture
    ferried     \* findings the host has sent

turnVars == <<devPrompt, devText, devRound, late, cardFile, live, surface>>
camera == <<drawnCard, capture, pictures, critics, snap>>
devVars == <<turnVars, findings, camera, ferried>>

(* Types, and the critics' threads are those of rounds below the cap.      *)
DevLoopTypeOK ==
    /\ devPrompt \in 0..devRound /\ devRound \in Rounds
    /\ devText \subseteq Rounds /\ late \in BOOLEAN
    /\ findings \in Seq(0..MaxRounds) /\ cardFile \in 0..MaxRounds
    /\ live \subseteq Rounds /\ surface \subseteq Rounds
    /\ drawnCard \in 0..MaxRounds /\ capture \in 0..Snap
    /\ pictures \in [1..Snap -> 0..MaxRounds]
    /\ \A r \in DOMAIN critics :
         critics[r] \in {"none", "settling", "scoring"}
           /\ (critics[r] # "none" => r < Cap)
    /\ snap \in BOOLEAN /\ ferried \in 0..MaxHost

DevLoopInit ==
    /\ devPrompt = 1 /\ devText = {} /\ devRound = 1 /\ late = FALSE
    /\ findings = <<>> /\ cardFile = Nothing /\ live = {1}
    /\ drawnCard = Nothing /\ surface = {}
    /\ capture = Nothing /\ pictures = [f \in 1..Snap |-> Nothing]
    /\ critics = [r \in Rounds |-> "none"] /\ snap = FALSE /\ ferried = 0

-----------------------------------------------------------------------------
(*                      Agent events of a dev turn                         *)

(* TextDelta.  A prompt that is no app's and no longer dev_prompt's is     *)
(* taken for the foreground's.                                             *)
DevDelta(r) ==
    /\ r \in live
    /\ IF r = devPrompt
       THEN devText' = devText \union {r} /\ UNCHANGED surface
       ELSE surface' = surface \union {r} /\ UNCHANGED devText
    /\ UNCHANGED <<devPrompt, devRound, late, findings, cardFile, live, camera, ferried>>

(* TextAuthoritative and ThinkingDelta, whose arms do not know dev_prompt. *)
DevOther(r) ==
    /\ r \in live
    /\ surface' = surface \union {r}
    /\ UNCHANGED <<devPrompt, devText, devRound, late, findings, cardFile, live,
                   camera, ferried>>

(* Mutant: the critic arms the capture of the round before.                *)
ArmStale(r) ==
    /\ capture' = IF r > 1 THEN r - 1 ELSE r
    /\ pictures' = [pictures EXCEPT ![r] = Nothing]

(* arm_capture, on the UI thread before the redraw. *)
Arm(r) ==
    /\ capture' = r
    /\ pictures' = [pictures EXCEPT ![r] = Nothing]

(* From the last round on the self-check asks for nothing more. *)
BelowCap == devRound < Cap

(* The in-process critic: a card that does not render is a finding; one    *)
(* that does goes on the screen and to the visual critic.                  *)
SelfCheck(r, renders) ==
    \/ /\ ~BelowCap
       /\ UNCHANGED <<findings, camera>>
    \/ /\ BelowCap /\ ~renders
       /\ findings' = Append(findings, r)
       /\ UNCHANGED camera
    \/ /\ BelowCap /\ renders
       /\ drawnCard' = r
       /\ Arm(r)
       /\ critics' = [critics EXCEPT ![r] = "settling"]
       /\ UNCHANGED <<findings, snap>>

(* TurnComplete of the dev prompt: with a card between the markers or not, *)
(* and with a card file that can be written or not.                        *)
DevComplete(r) ==
    /\ r \in live /\ r = devPrompt
    /\ live' = live \ {r}
    /\ devPrompt' = Nothing /\ devText' = {} /\ late' = FALSE
    /\ \/ UNCHANGED <<cardFile, findings, camera>>
       \/ /\ cardFile' \in {r, cardFile}
          /\ \E renders \in BOOLEAN : SelfCheck(r, renders)
    /\ UNCHANGED <<devRound, surface, ferried>>

(* PromptError of the dev prompt. *)
DevError(r) ==
    /\ r \in live /\ r = devPrompt
    /\ live' = live \ {r}
    /\ devPrompt' = Nothing /\ devText' = {}
    /\ UNCHANGED <<devRound, late, cardFile, surface, findings, camera, ferried>>

(* The end of a turn the harness has given up: an orphan's, which the      *)
(* shell takes for the foreground's.                                       *)
OrphanEnds(r) ==
    /\ r \in live /\ r # devPrompt
    /\ live' = live \ {r}
    /\ surface' = surface \union {r}
    /\ UNCHANGED <<devPrompt, devText, devRound, late, cardFile, findings, camera, ferried>>

-----------------------------------------------------------------------------
(*                              The UI thread                              *)

TimePasses ==
    /\ devPrompt # Nothing /\ ~late
    /\ late' = TRUE
    /\ UNCHANGED <<devPrompt, devText, devRound, cardFile, live, surface, findings,
                   camera, ferried>>

(* Mutant: there is no watchdog. *)
NeverOverdue == FALSE

(* The watchdog finds a turn older than 480 s. *)
Overdue == devPrompt # Nothing /\ late

KeptAfter(timedOut) == IF timedOut THEN {} ELSE devText

(* A signal, which the ferry thread sends every 30 s: the watchdog, then   *)
(* one finding if no turn is in flight, in a fresh session.                *)
Signal ==
    /\ LET prompt == IF Overdue THEN Nothing ELSE devPrompt
       IN  \/ /\ prompt = Nothing /\ findings # <<>> /\ devRound < MaxRounds
              /\ devRound' = devRound + 1 /\ devPrompt' = devRound + 1
              /\ live' = live \union {devRound + 1}
              /\ findings' = Tail(findings) /\ late' = FALSE
           \/ /\ prompt # Nothing \/ findings = <<>> \/ devRound = MaxRounds
              /\ devPrompt' = prompt
              /\ UNCHANGED <<devRound, live, findings, late>>
    /\ devText' = KeptAfter(Overdue)
    /\ UNCHANGED <<cardFile, surface, camera, ferried>>

(* A draw pass: the framebuffer goes to the file the variable names. *)
DrawPass ==
    /\ capture # Nothing
    /\ pictures' = [pictures EXCEPT ![capture] = drawnCard]
    /\ UNCHANGED <<turnVars, findings, drawnCard, capture, critics, snap, ferried>>

-----------------------------------------------------------------------------
(*                              Other threads                              *)

(* The ferry: the host's findings are about the card it has read.  With no *)
(* card there is nothing to find.                                          *)
HostFinds ==
    /\ ferried < MaxHost /\ cardFile # Nothing
    /\ findings' = Append(findings, cardFile) /\ ferried' = ferried + 1
    /\ UNCHANGED <<turnVars, camera>>

(* The critic disarms whatever is armed, and reads its own file. *)
CriticDisarms(r) ==
    /\ critics[r] = "settling"
    /\ capture' = Nothing
    /\ critics' = [critics EXCEPT ![r] = IF pictures[r] = Nothing
                                         THEN "none" ELSE "scoring"]
    /\ UNCHANGED <<turnVars, findings, drawnCard, pictures, snap, ferried>>

(* ux_score answers: a low score is a finding; a failure is none. *)
CriticScores(r) ==
    /\ critics[r] = "scoring"
    /\ critics' = [critics EXCEPT ![r] = "none"]
    /\ \/ UNCHANGED findings
       \/ r < Cap /\ findings' = Append(findings, r)
    /\ UNCHANGED <<turnVars, drawnCard, capture, pictures, snap, ferried>>

(* /snapshot. *)
SnapAsked ==
    /\ ~snap
    /\ snap' = TRUE /\ capture' = Snap
    /\ pictures' = [pictures EXCEPT ![Snap] = Nothing]
    /\ UNCHANGED <<turnVars, findings, drawnCard, critics, ferried>>

(* The picture is there, or 10 s have passed. *)
SnapEnds ==
    /\ snap
    /\ snap' = FALSE /\ capture' = Nothing
    /\ UNCHANGED <<turnVars, findings, drawnCard, pictures, critics, ferried>>

DevLoopNext ==
    \/ \E r \in Rounds :
         \/ DevDelta(r) \/ DevOther(r)
         \/ DevComplete(r) \/ DevError(r) \/ OrphanEnds(r)
         \/ CriticDisarms(r) \/ CriticScores(r)
    \/ TimePasses \/ Signal \/ DrawPass \/ HostFinds \/ SnapAsked \/ SnapEnds

-----------------------------------------------------------------------------
(* dev_text holds text of the turn in flight and of no other: a turn that  *)
(* was given up leaves nothing that a later card could be cut from.        *)
TextIsOwn == devText \subseteq {devPrompt} \ {Nothing}

(* The picture a critic scores shows the card of its own round, whatever   *)
(* rounds and snapshots arm and disarm the same variable meanwhile         *)
(* (monitor.rs, arm_capture).                                              *)
CriticSeesItsCard ==
    \A r \in Rounds : critics[r] = "scoring" => pictures[r] = r

(* However turns hang, come late and cross, the rounds do not mix: a card  *)
(* is cut from its own round's text and judged by its own picture.         *)
RoundsDoNotMix == TextIsOwn /\ CriticSeesItsCard

(* A hung turn is abandoned, never waited on (main.rs, the watchdog): the  *)
(* slot of a turn in flight is free again in the end, whatever the server  *)
(* does.                                                                   *)
TurnsAreGivenUp == \A r \in Rounds : devPrompt = r ~> devPrompt # r
=============================================================================

----------------------------- MODULE AppShell -----------------------------
(***************************************************************************)
(* The chat shell of main.rs over the agent bridge: the open apps, each an *)
(* octos session with at most one prompt in flight, the one of them that   *)
(* is in the foreground, and the single chat surface (CHAT_DATA) they all  *)
(* share.  The user submits, cancels, clears, opens and switches apps and  *)
(* resumes sessions; agent events arrive for whichever app asked, which    *)
(* need not be the one on the screen any more.                             *)
(*                                                                         *)
(* The AMA router is off in this commit (`ama_session' is never set), so a *)
(* submit goes straight to the foreground session and the AMA arms are     *)
(* dead; the dev-goal harness needs a launch variable.  Neither is here.   *)
(* Of the text on the screen only what has been received for the turn that *)
(* streams decides anything, and only by being there; messages, and the    *)
(* snapshots of them that apps keep, are left out.                         *)
(***************************************************************************)
EXTENDS AgentBridge

CONSTANTS
    Old,        \* sessions the server has from earlier launches
    Domains,    \* domain apps that clear_chat opens
    Budget,     \* L0_REPAIR_BUDGET
    MaxApps     \* bound: apps open at once

ASSUME ShellAssumption ==
    /\ Old \subseteq Sessions
    /\ Budget \in Nat /\ MaxApps \in Nat /\ Domains \in 1..MaxApps

None == 0   \* no prompt

VARIABLES
    apps,       \* App.apps
    fg,         \* App.foreground, from 1; 0 before the first session opens
    chat,       \* CHAT_DATA
    minted,     \* SessionId::new's counter: the sessions created so far
    repairs     \* repair prompts sent to a session since its last submit

shell == <<apps, fg, chat>>
vars == <<bridgeVars, shell, minted, repairs>>

AppRecord(s) == [session |-> s, prompt |-> None, l0 |-> 0, lint |-> FALSE]

AppRecords == [session : Sessions, prompt : Prompts \union {None},
               l0 : 0..Budget, lint : BOOLEAN]

(* CHAT_DATA: is_streaming, and whether there is a streaming_text and an   *)
(* authoritative_text.                                                     *)
Chats == [streaming : BOOLEAN, text : BOOLEAN, row : BOOLEAN]

EmptyChat == [streaming |-> FALSE, text |-> FALSE, row |-> FALSE]

(* Types; and the apps hold distinct sessions, all of them the agent's, so *)
(* no prompt is ever sent to a session that a replaced agent knew.         *)
ShellTypeOK ==
    /\ TypeOK
    /\ apps \in Seq(AppRecords) /\ Len(apps) <= MaxApps
    /\ fg \in 0..Len(apps) /\ (fg = 0 => apps = <<>>)
    /\ chat \in Chats
    /\ minted \subseteq Sessions \ Old
    /\ \A i, j \in DOMAIN apps : apps[i].session = apps[j].session => i = j
    /\ \A i \in DOMAIN apps : apps[i].session \in known

Init ==
    /\ BridgeInit
    /\ apps = <<>> /\ fg = 0 /\ chat = EmptyChat /\ minted = {}
    /\ repairs = [s \in Sessions |-> 0]

-----------------------------------------------------------------------------
Foreground == apps[fg]
SetPrompt(i, p) == [apps EXCEPT ![i].prompt = p]

(* app_of_prompt: 0 for an orphan, whose app has moved on. *)
AppOfPrompt(p) ==
    IF \E i \in DOMAIN apps : apps[i].prompt = p
    THEN CHOOSE i \in DOMAIN apps :
           /\ apps[i].prompt = p
           /\ \A j \in 1..i-1 : apps[j].prompt # p
    ELSE 0

(* Mutant: no guard for background apps. *)
NeverInBackground(p) == FALSE

(* Orphans count as foreground. *)
InBackground(p) == AppOfPrompt(p) \notin {0, fg}

(* Mutant: is_streaming is not reset. *)
SurfaceStreams == [EmptyChat EXCEPT !.streaming = chat.streaming]

(* What wipe_chat_surface and restore_from leave of the turn that streamed. *)
Surface == EmptyChat

Fresh(n) == {new \in [1..n -> Sessions \ (Old \union minted)] :
               \A i, j \in 1..n : new[i] = new[j] => i = j}
Mint(new) == minted' = minted \union {new[i] : i \in DOMAIN new}

-----------------------------------------------------------------------------
(*                                The user                                 *)

(* submit_prompt, which does nothing while a turn streams. *)
Submit ==
    /\ phase = "idle" /\ fg # 0 /\ ~chat.streaming
    /\ SendPrompt(Foreground.session)
    /\ chat' = [chat EXCEPT !.streaming = TRUE, !.text = FALSE, !.row = FALSE]
    /\ apps' = [apps EXCEPT ![fg].prompt = lastPrompt', ![fg].l0 = 0,
                            ![fg].lint = FALSE]
    /\ repairs' = [repairs EXCEPT ![Foreground.session] = 0]
    /\ UNCHANGED <<fg, minted, ui, inbox, server, closed>>

(* cancel_request: what was streamed becomes a message; authoritative_text *)
(* stays.                                                                  *)
CancelRequest ==
    /\ phase = "idle" /\ fg # 0 /\ Foreground.prompt # None
    /\ CancelPrompt(Foreground.prompt)
    /\ apps' = SetPrompt(fg, None)
    /\ chat' = [chat EXCEPT !.streaming = FALSE, !.text = FALSE]
    /\ UNCHANGED <<fg, minted, repairs, ui, inbox, server, owner, closed>>

OpenDomainApps(new) ==
    /\ apps' = [i \in DOMAIN new |-> AppRecord(new[i])]
    /\ fg' = 1
    /\ chat' = EmptyChat
    /\ Mint(new)

(* clear_chat: the domain apps anew, each with a new session.  No turn of  *)
(* the old ones is cancelled.                                              *)
ClearChat ==
    /\ phase = "idle"
    /\ \E new \in Fresh(Domains) : CreateSessions(new) /\ OpenDomainApps(new)
    /\ UNCHANGED <<repairs, ui, inbox, server, owner, closed>>

(* A login or a scanned provisioning code: connect_transport, clear_chat. *)
Relogin ==
    /\ phase = "idle" /\ fg # 0
    /\ \E new \in Fresh(Domains) : ReplaceAgent(new) /\ OpenDomainApps(new)
    /\ UNCHANGED <<repairs, ui, owner, closed>>

OpenNewApp ==
    /\ phase = "idle" /\ fg # 0 /\ Len(apps) < MaxApps
    /\ \E new \in Fresh(1) :
         /\ CreateSessions(new)
         /\ apps' = Append(apps, AppRecord(new[1]))
         /\ Mint(new)
    /\ fg' = Len(apps) + 1
    /\ chat' = EmptyChat
    /\ UNCHANGED <<repairs, ui, inbox, server, owner, closed>>

(* switch_to_app, for the composer's switch control: the next app. *)
SwitchToApp ==
    /\ phase = "idle" /\ Len(apps) > 1
    /\ fg' = (fg % Len(apps)) + 1
    /\ chat' = Surface
    /\ UNCHANGED <<agent, commands, apps, minted, repairs, ui, inbox, server,
                   owner, closed>>

(* Mutant: a record is pushed without looking for the session's. *)
FocusPushes(s) ==
    /\ Len(apps) < MaxApps
    /\ apps' = Append(apps, AppRecord(s)) /\ fg' = Len(apps) + 1

(* focus_session *)
Focus(s) ==
    \/ \E i \in DOMAIN apps :
         apps[i].session = s /\ fg' = i /\ UNCHANGED apps
    \/ /\ \A i \in DOMAIN apps : apps[i].session # s
       /\ Len(apps) < MaxApps
       /\ apps' = Append(apps, AppRecord(s)) /\ fg' = Len(apps) + 1

(* SessionListAction::Selected, for a session the server has listed. *)
Select ==
    /\ phase = "idle" /\ fg # 0
    /\ \E s \in Old \union known : ResumeSession(s) /\ Focus(s)
    /\ chat' = EmptyChat
    /\ UNCHANGED <<minted, repairs, ui, inbox, server, owner, closed>>

(* SessionResumeHydrated, handled with the actions of a later UI event. *)
ResumeHydrated ==
    /\ phase = "idle" /\ actions # <<>>
    /\ actions' = Tail(actions)
    /\ LET h == Head(actions) IN
         chat' = IF fg # 0 /\ Foreground.session = h.session
                 THEN [chat EXCEPT !.streaming = FALSE]
                 ELSE chat
    /\ UNCHANGED <<agent, commands, apps, fg, minted, repairs, phase, batch, inbox,
                   server, owner, closed>>

-----------------------------------------------------------------------------
(*                 The arms of the agent-event loop, for event e           *)

TextAuthoritative(e) ==
    /\ e.kind = "authoritative"
    /\ chat' = IF InBackground(e.prompt) THEN chat ELSE [chat EXCEPT !.row = TRUE]
    /\ UNCHANGED <<agent, commands, owner, apps, fg, repairs>>

TextDelta(e) ==
    /\ e.kind = "delta"
    /\ chat' = IF InBackground(e.prompt) THEN chat
               ELSE [chat EXCEPT !.text = TRUE]
    /\ UNCHANGED <<agent, commands, owner, apps, fg, repairs>>

(* The turn of an app that has left the screen ends: no text is kept. *)
BackgroundEnds(e) ==
    /\ e.kind \in {"complete", "error"} /\ InBackground(e.prompt)
    /\ apps' = SetPrompt(AppOfPrompt(e.prompt), None)
    /\ UNCHANGED <<agent, commands, owner, fg, chat, repairs>>

(* There is an answer: the stored row or else the streamed text. *)
Content == chat.row \/ chat.text

(* Mutant: an L0 refusal is not counted. *)
RepairUncounted(i) ==
    \/ ~apps[i].lint /\ apps' = [apps EXCEPT ![i].lint = TRUE,
                                             ![i].prompt = lastPrompt',
                                             ![fg].prompt = lastPrompt']
    \/ apps[i].l0 < Budget /\ apps' = [apps EXCEPT ![i].prompt = lastPrompt',
                                                   ![fg].prompt = lastPrompt']

(* App i's card is refused: a lint or security repair once, an L0 repair   *)
(* as long as the budget lasts.                                            *)
Repair(i) ==
    \/ ~apps[i].lint /\ apps' = [apps EXCEPT ![i].lint = TRUE,
                                             ![i].prompt = lastPrompt',
                                             ![fg].prompt = lastPrompt']
    \/ apps[i].l0 < Budget /\ apps' = [apps EXCEPT ![i].l0 = @ + 1,
                                                   ![i].prompt = lastPrompt',
                                                   ![fg].prompt = lastPrompt']

(* TurnComplete in the foreground, or of an orphan: the answer is stored,  *)
(* or discarded as incomplete, and a refused card goes back to its app.    *)
TurnComplete(e) ==
    /\ e.kind = "complete" /\ ~InBackground(e.prompt)
    /\ \/ /\ chat' = Surface
          /\ apps' = SetPrompt(fg, None)
          /\ UNCHANGED <<agent, commands, owner, repairs>>
       \/ LET i == AppOfPrompt(e.prompt) IN
          /\ Content /\ i # 0
          /\ SendPrompt(apps[i].session)
          /\ Repair(i)
          /\ chat' = [Surface EXCEPT !.streaming = TRUE]
          /\ repairs' = [repairs EXCEPT ![apps[i].session] = @ + 1]
    /\ UNCHANGED fg

(* Mutant: is_streaming is not reset. *)
PromptErrorStreams(e) ==
    /\ e.kind = "error" /\ ~InBackground(e.prompt)
    /\ apps' = SetPrompt(fg, None)
    /\ UNCHANGED <<agent, commands, owner, chat, fg, repairs>>

(* PromptError in the foreground, or of an orphan; streaming_text stays. *)
PromptError(e) ==
    /\ e.kind = "error" /\ ~InBackground(e.prompt)
    /\ chat' = [chat EXCEPT !.streaming = FALSE]
    /\ apps' = SetPrompt(fg, None)
    /\ UNCHANGED <<agent, commands, owner, fg, repairs>>

HandleAgentEvent ==
    /\ phase = "handling"
    /\ LET e == Head(batch) IN
         /\ NextEvent(e)
         /\ \/ TextAuthoritative(e) \/ TextDelta(e)    \/ BackgroundEnds(e)
            \/ TurnComplete(e)      \/ PromptError(e)
    /\ UNCHANGED <<minted, actions, inbox, server, closed>>

-----------------------------------------------------------------------------
Bridge ==
    /\ HandleEvent \/ Translate \/ Drained \/ Environment
    /\ UNCHANGED <<shell, minted, repairs>>

Next ==
    \/ Submit \/ CancelRequest \/ ClearChat \/ Relogin \/ OpenNewApp
    \/ SwitchToApp \/ Select \/ ResumeHydrated
    \/ HandleAgentEvent \/ Bridge

Spec == Init /\ [][Next]_vars

(* The UI thread runs whenever the waker has signalled it, and a server    *)
(* that is up answers each request and ends each turn.  Room on the wire,  *)
(* a bound of the model, comes and goes: hence strong fairness.            *)
Fairness ==
    /\ WF_vars(Bridge /\ (HandleEvent \/ Translate \/ Drained))
    /\ WF_vars(HandleAgentEvent)
    /\ WF_vars(ResumeHydrated)
    /\ SF_vars(Bridge /\ Serve)
    /\ \A p \in Prompts : SF_vars(Bridge /\ p <= lastPrompt /\ EndTurn(p))

FairSpec == Spec /\ Fairness

-----------------------------------------------------------------------------
(* Whenever a submit would be refused because a turn streams, the          *)
(* foreground app has a prompt in flight, so that Cancel can abort it: the *)
(* way out that submit_prompt's comment promises.                          *)
CanRecover == chat.streaming => fg # 0 /\ Foreground.prompt # None

(* No two apps wait for the same prompt: app_of_prompt, which stops at the *)
(* first, then never routes an event to the wrong app.                     *)
OneOwner ==
    \A i, j \in DOMAIN apps :
      apps[i].prompt = apps[j].prompt /\ apps[i].prompt # None => i = j

(* However turns fail, overlap or change apps, a submit is followed by no  *)
(* more automatic prompts than the L0 budget and the one lint repair.      *)
RepairBounded == \A s \in Sessions : repairs[s] <= Budget + 1

(* A turn that streams comes to an end, if no command is lost and the      *)
(* server ends its turns: no terminal event goes to the wrong place.       *)
StreamingEnds == chat.streaming ~> ~chat.streaming

(* `is_streaming' is set for the whole window from submit to TurnComplete. *)
WindowCovered == fg # 0 /\ Foreground.prompt # None => chat.streaming

(* A stored row goes to the prompt whose turn wrote it. *)
RowsReachTheirTurn ==
    \A i \in DOMAIN batch :
      batch[i].kind = "authoritative" => batch[i].prompt = batch[i].row
=============================================================================

--------------------------- MODULE AppShellProofs ---------------------------
(***************************************************************************)
(* Proofs about the chat shell, for any number of sessions, apps, prompts  *)
(* and repairs, over a bridge that may lose commands, replay notifications *)
(* and interleave turns.                                                   *)
(*                                                                         *)
(* The shell is one of the apps the bridge is proved under: IInv of        *)
(* AgentBridgeProofs holds here too, and with it that every event the loop *)
(* handles is of a prompt.  Owned is what OneOwner and CanRecover need:    *)
(* only prompts already sent are waited for, so a new one belongs to       *)
(* nobody yet.  Counted is what RepairBounded needs: while an app waits    *)
(* for a prompt, the repairs of its session are those its record counts.   *)
(***************************************************************************)
EXTENDS AppShell, AgentBridgeProofs

Placed ==
    /\ apps \in Seq(AppRecords) /\ Len(apps) <= MaxApps
    /\ fg \in 0..Len(apps) /\ (fg = 0 => apps = <<>>)
    /\ chat \in Chats

Minted ==
    /\ minted \subseteq Sessions \ Old /\ known \subseteq Old \cup minted
    /\ \A i, j \in DOMAIN apps : apps[i].session = apps[j].session => i = j
    /\ \A i \in DOMAIN apps : apps[i].session \in known

Owned ==
    /\ \A i \in DOMAIN apps : apps[i].prompt # None => apps[i].prompt \in 1..lastPrompt
    /\ OneOwner /\ CanRecover

(* The repairs a record counts. *)
Spent(a) == a.l0 + (IF a.lint = TRUE THEN 1 ELSE 0)

Counted ==
    /\ repairs \in [Sessions -> Nat] /\ RepairBounded
    /\ \A i \in DOMAIN apps :
         apps[i].prompt # None => repairs[apps[i].session] <= Spent(apps[i])

ShellInv == Placed /\ Minted /\ Owned /\ Counted

Inv == IInv /\ ShellInv

-----------------------------------------------------------------------------
(*                              App records                                *)

LEMMA OneApp ==
    ASSUME NEW i \in DOMAIN apps, NEW a \in AppRecords, apps \in Seq(AppRecords),
           apps' = [apps EXCEPT ![i] = a]
    PROVE  /\ apps' \in Seq(AppRecords) /\ Len(apps') = Len(apps)
           /\ DOMAIN apps' = DOMAIN apps
           /\ apps'[i] = a /\ \A j \in DOMAIN apps : j # i => apps'[j] = apps[j]
<1>1. i \in 1..Len(apps) /\ DOMAIN apps = 1..Len(apps)
    BY LenProperties
<1> QED
    BY <1>1, ExceptSeq

LEMMA Domain ==
    ASSUME Placed
    PROVE  /\ DOMAIN apps = 1..Len(apps) /\ Len(apps) \in Nat
           /\ fg \in Nat /\ (fg # 0 => fg \in DOMAIN apps)
           /\ \A i \in DOMAIN apps : apps[i] \in AppRecords
BY LenProperties, ElementOfSeq DEF Placed

(* An event goes to an app that waits for its prompt, or to none. *)
LEMMA Routed ==
    ASSUME Placed, OneOwner, NEW p \in Prompts, AppOfPrompt(p) # 0
    PROVE  AppOfPrompt(p) \in DOMAIN apps /\ apps[AppOfPrompt(p)].prompt = p
<1>1. PICK i \in DOMAIN apps : apps[i].prompt = p
    BY DEF AppOfPrompt
<1>2. p # None
    BY DEF Prompts, None
<1>3. \A j \in 1..i-1 : j \in DOMAIN apps /\ j # i
    BY Domain, <1>1
<1>4. \A j \in 1..i-1 : apps[j].prompt # p
    BY <1>1, <1>2, <1>3 DEF OneOwner
<1> QED
    BY <1>1, <1>4 DEF AppOfPrompt

(* The new prompt is nobody's. *)
LEMMA SentIsNew ==
    ASSUME IInv, NEW s, SendPrompt(s)
    PROVE  /\ lastPrompt' = lastPrompt + 1 /\ lastPrompt \in Nat
           /\ lastPrompt' \in Prompts /\ lastPrompt' # None
           /\ known' = known
BY BridgeAssumption DEF SendPrompt, IInv, MapsOK, Prompts, None

-----------------------------------------------------------------------------
(*                                The user                                 *)

(* One app takes the new prompt, the others keep theirs. *)
LEMMA OneTakes ==
    ASSUME Inv, NEW i \in DOMAIN apps, NEW s, SendPrompt(s), DOMAIN apps' = DOMAIN apps,
           apps'[i].prompt = lastPrompt', \A j \in DOMAIN apps : j # i => apps'[j] = apps[j]
    PROVE  /\ OneOwner'
           /\ \A j \in DOMAIN apps' : apps'[j].prompt # None => apps'[j].prompt \in 1..lastPrompt'
<1>1. lastPrompt' = lastPrompt + 1 /\ lastPrompt \in Nat
    BY SentIsNew DEF Inv
<1>2. \A j \in DOMAIN apps : apps[j].prompt # None => apps[j].prompt \in 1..lastPrompt
    BY DEF Inv, ShellInv, Owned
<1>3. \A j \in DOMAIN apps : apps[j].prompt # lastPrompt'
    BY <1>1, <1>2 DEF None
<1>4. \A j \in DOMAIN apps : j # i => apps'[j].prompt # lastPrompt'
    BY <1>3
<1>5. OneOwner'
    BY <1>4 DEF Inv, ShellInv, Owned, OneOwner
<1>6. ASSUME NEW j \in DOMAIN apps', apps'[j].prompt # None PROVE apps'[j].prompt \in 1..lastPrompt'
  <2>1. CASE j = i
      BY <1>1, <2>1
  <2>2. CASE j # i
      BY <1>1, <1>2, <1>6, <2>2
  <2> QED
      BY <2>1, <2>2
<1> QED
    BY <1>5, <1>6

-----------------------------------------------------------------------------
(*                                The user                                 *)

(* Submit gives the app in the foreground a record with the new prompt. *)
LEMMA SubmitTakes ==
    ASSUME Inv, Submit
    PROVE  \E a \in AppRecords :
             /\ apps' = [apps EXCEPT ![fg] = a]
             /\ a.session = apps[fg].session /\ a.prompt = lastPrompt' /\ Spent(a) = 0
<1> DEFINE s == apps[fg].session
           b == [apps[fg] EXCEPT !.prompt = lastPrompt']
           c == [b EXCEPT !.l0 = 0]
           a == [c EXCEPT !.lint = FALSE]
<1>1. /\ fg # 0 /\ SendPrompt(s)
      /\ apps' = [apps EXCEPT ![fg].prompt = lastPrompt', ![fg].l0 = 0, ![fg].lint = FALSE]
    BY DEF Submit, Foreground
<1>2. /\ lastPrompt' = lastPrompt + 1 /\ lastPrompt \in Nat /\ lastPrompt' \in Prompts
      /\ lastPrompt' # None /\ known' = known
    BY <1>1, SentIsNew DEF Inv
<1>3. fg \in DOMAIN apps /\ apps[fg] \in AppRecords /\ fg \in Nat
    BY <1>1, Domain DEF Inv, ShellInv
<1>4. a \in AppRecords /\ s \in Sessions /\ a.session = s /\ a.prompt = lastPrompt' /\ Spent(a) = 0
  <2>1. b \in AppRecords /\ b.session = s /\ b.prompt = lastPrompt'
      BY <1>2, <1>3 DEF AppRecords
  <2> HIDE DEF b
  <2>2. c \in AppRecords /\ c.session = s /\ c.prompt = lastPrompt' /\ c.l0 = 0
      BY <2>1, ShellAssumption DEF AppRecords
  <2> HIDE DEF c
  <2>3. a \in AppRecords /\ a.session = s /\ a.prompt = lastPrompt' /\ a.l0 = 0 /\ a.lint = FALSE
      BY <2>2 DEF AppRecords
  <2> HIDE DEF a
  <2> QED
      BY <1>3, <2>3 DEF AppRecords, Spent
<1>5. apps' = [apps EXCEPT ![fg] = a]
    BY <1>1, <1>3
<1> HIDE DEF a
<1> QED
    BY <1>4, <1>5

LEMMA SubmitStep == ASSUME Inv, Submit PROVE ShellInv'
<1> DEFINE s == apps[fg].session
<1>1. /\ fg # 0 /\ SendPrompt(s) /\ UNCHANGED <<fg, minted>>
      /\ chat' = [chat EXCEPT !.streaming = TRUE, !.text = FALSE, !.row = FALSE]
      /\ repairs' = [repairs EXCEPT ![s] = 0]
    BY DEF Submit, Foreground
<1>2. /\ lastPrompt' = lastPrompt + 1 /\ lastPrompt \in Nat /\ lastPrompt' \in Prompts
      /\ lastPrompt' # None /\ known' = known
    BY <1>1, SentIsNew DEF Inv
<1>3. fg \in DOMAIN apps /\ apps[fg] \in AppRecords /\ fg \in Nat
    BY <1>1, Domain DEF Inv, ShellInv
<1>4. s \in Sessions
    BY <1>3 DEF AppRecords
<1>5. PICK a \in AppRecords :
        /\ apps' = [apps EXCEPT ![fg] = a]
        /\ a.session = s /\ a.prompt = lastPrompt' /\ Spent(a) = 0
    BY SubmitTakes
<1>6. /\ apps' \in Seq(AppRecords) /\ Len(apps') = Len(apps) /\ DOMAIN apps' = DOMAIN apps
      /\ apps'[fg] = a /\ \A j \in DOMAIN apps : j # fg => apps'[j] = apps[j]
    BY <1>3, <1>5, OneApp DEF Inv, ShellInv, Placed
<1>7. Placed'
    BY <1>1, <1>3, <1>6 DEF Inv, ShellInv, Placed, Chats
<1>8. Minted'
    BY <1>1, <1>2, <1>4, <1>5, <1>6 DEF Inv, ShellInv, Minted
<1>9. Owned'
  <2>1. CanRecover'
      BY <1>1, <1>2, <1>3, <1>4, <1>5, <1>6 DEF CanRecover, Foreground
  <2> QED
      BY <1>1, <1>3, <1>4, <1>5, <1>6, <2>1, OneTakes DEF Owned
<1>10. Counted'
  <2>1. repairs \in [Sessions -> Nat] /\ repairs' \in [Sessions -> Nat] /\ repairs'[s] = 0
      BY <1>1, <1>4, <1>5 DEF Inv, ShellInv, Counted
  <2>2. RepairBounded'
      BY <1>1, <1>4, <1>5, <2>1, ShellAssumption DEF Inv, ShellInv, Counted, RepairBounded
  <2>3. \A j \in DOMAIN apps : j # fg => apps[j].session # s /\ apps[j].session \in Sessions
      BY <1>3, Domain DEF Inv, ShellInv, Minted, AppRecords
  <2>4. ASSUME NEW i \in DOMAIN apps', apps'[i].prompt # None
        PROVE  repairs'[apps'[i].session] <= Spent(apps'[i])
    <3>1. CASE i = fg
      <4>1. apps'[i] = a /\ a.session = s
          BY <1>4, <1>5, <1>6, <3>1
      <4> QED
          BY <1>4, <1>5, <2>1, <4>1
    <3>2. CASE i # fg
        BY <1>1, <1>6, <2>1, <2>3, <2>4, <3>2 DEF Inv, ShellInv, Counted
    <3> QED
        BY <3>1, <3>2
  <2> QED
      BY <2>1, <2>2, <2>4 DEF Counted
<1> QED
    BY <1>7, <1>8, <1>9, <1>10 DEF ShellInv

(* An app stops waiting: nothing else of what it is changes. *)
LEMMA OneStops ==
    ASSUME Inv, NEW i \in DOMAIN apps, apps' = SetPrompt(i, None), chat' \in Chats,
           chat'.streaming = TRUE => chat.streaming = TRUE /\ i # fg,
           UNCHANGED <<known, minted, fg, repairs, lastPrompt>>
    PROVE  ShellInv'
<1> DEFINE a == [apps[i] EXCEPT !.prompt = None]
<1>1. apps[i] \in AppRecords
    BY Domain DEF Inv, ShellInv
<1>2. a \in AppRecords /\ a.prompt = None /\ a.session = apps[i].session
    BY <1>1 DEF AppRecords
<1>3. /\ apps' \in Seq(AppRecords) /\ Len(apps') = Len(apps) /\ DOMAIN apps' = DOMAIN apps
      /\ apps'[i] = a /\ \A j \in DOMAIN apps : j # i => apps'[j] = apps[j]
    BY <1>2, OneApp DEF Inv, ShellInv, Placed, SetPrompt
<1>4. \A j \in DOMAIN apps :
         /\ apps'[j].session = apps[j].session
         /\ apps'[j].prompt # None => apps'[j] = apps[j]
    BY <1>2, <1>3
<1>5. Placed'
    BY <1>3, Domain DEF Inv, ShellInv, Placed
<1>6. Minted'
    BY <1>3, <1>4 DEF Inv, ShellInv, Minted
<1>7. Owned'
  <2>1. OneOwner'
      BY <1>3, <1>4 DEF Inv, ShellInv, Owned, OneOwner
  <2>2. CanRecover'
      BY <1>3, Domain DEF Inv, ShellInv, Owned, CanRecover, Foreground, Chats, Placed
  <2> QED
      BY <1>3, <1>4, <2>1, <2>2 DEF Inv, ShellInv, Owned
<1>8. Counted'
    BY <1>3, <1>4 DEF Inv, ShellInv, Counted, RepairBounded
<1> QED
    BY <1>5, <1>6, <1>7, <1>8 DEF ShellInv

(* Only the screen changes, and it streams only if it did. *)
LEMMA OnlyTheScreen ==
    ASSUME Inv, chat' \in Chats, chat'.streaming = TRUE => chat.streaming = TRUE,
           UNCHANGED <<known, apps, minted, fg, repairs, lastPrompt>>
    PROVE  ShellInv'
<1>1. Placed' /\ Minted' /\ Counted'
    BY DEF Inv, ShellInv, Placed, Minted, Counted, RepairBounded
<1>2. Owned'
    BY DEF Inv, ShellInv, Owned, OneOwner, CanRecover, Foreground, Placed, Chats
<1> QED
    BY <1>1, <1>2 DEF ShellInv

(* Without an app in the foreground there is none at all. *)
LEMMA NoneStops ==
    ASSUME Inv, fg = 0 PROVE SetPrompt(fg, None) = apps
BY DEF Inv, ShellInv, Placed, SetPrompt

(* The app in the foreground, if there is one, stops waiting. *)
LEMMA ForegroundStops ==
    ASSUME Inv, apps' = SetPrompt(fg, None), chat' \in Chats, chat'.streaming = FALSE,
           UNCHANGED <<known, minted, fg, repairs, lastPrompt>>
    PROVE  ShellInv'
<1>1. CASE fg = 0
    BY <1>1, NoneStops, OnlyTheScreen
<1>2. CASE fg # 0
    BY <1>2, OneStops, Domain DEF Inv, ShellInv
<1> QED
    BY <1>1, <1>2

LEMMA CancelRequestStep == ASSUME Inv, CancelRequest PROVE ShellInv'
BY ForegroundStops DEF CancelRequest, CancelPrompt, agent, Inv, ShellInv, Placed, Chats

(* New sessions are of nobody yet, and their apps wait for nothing. *)
LEMMA DomainAppsStep ==
    ASSUME Inv, NEW new \in Fresh(Domains), OpenDomainApps(new), UNCHANGED repairs,
           known' \in {known \cup {new[i] : i \in DOMAIN new}, {new[i] : i \in DOMAIN new}}
    PROVE  ShellInv'
<1>1. /\ DOMAIN new = 1..Domains /\ Domains \in Nat /\ Domains # 0 /\ Domains <= MaxApps
      /\ \A i \in 1..Domains : new[i] \in Sessions \ (Old \cup minted)
      /\ \A i, j \in 1..Domains : new[i] = new[j] => i = j
    BY ShellAssumption DEF Fresh
<1>2. /\ apps' = [i \in 1..Domains |-> AppRecord(new[i])]
      /\ fg' = 1 /\ chat' = EmptyChat /\ minted' = minted \cup {new[i] : i \in 1..Domains}
    BY <1>1 DEF OpenDomainApps, Mint
<1>3. \A i \in 1..Domains : /\ AppRecord(new[i]) \in AppRecords
                            /\ AppRecord(new[i]).session = new[i]
                            /\ AppRecord(new[i]).prompt = None
    BY <1>1, ShellAssumption DEF AppRecord, AppRecords
<1>4. apps' \in Seq(AppRecords) /\ Len(apps') = Domains /\ DOMAIN apps' = 1..Domains
    BY <1>1, <1>2, <1>3
<1>5. \A i \in 1..Domains : apps'[i].session = new[i] /\ apps'[i].prompt = None
    BY <1>2, <1>3
<1>6. Placed'
    BY <1>1, <1>2, <1>4 DEF Placed, EmptyChat, Chats
<1>7. Minted'
    BY <1>1, <1>2, <1>4, <1>5 DEF Inv, ShellInv, Minted
<1>8. Owned' /\ Counted'
    BY <1>2, <1>4, <1>5 DEF Inv, ShellInv, Owned, OneOwner, CanRecover, EmptyChat, Counted,
       RepairBounded
<1> QED
    BY <1>6, <1>7, <1>8 DEF ShellInv

(* A record is pushed for a session no app has, and comes to the front. *)
LEMMA PushStep ==
    ASSUME Inv, NEW s \in Sessions, Len(apps) < MaxApps,
           \A i \in DOMAIN apps : apps[i].session # s,
           apps' = Append(apps, AppRecord(s)), fg' = Len(apps) + 1, chat' = EmptyChat,
           known' = known \cup {s}, minted \subseteq minted', minted' \subseteq Sessions \ Old,
           s \in Old \cup minted', UNCHANGED <<repairs, lastPrompt>>
    PROVE  ShellInv'
<1>1. AppRecord(s) \in AppRecords /\ AppRecord(s).session = s /\ AppRecord(s).prompt = None
    BY ShellAssumption DEF AppRecord, AppRecords
<1>2. Len(apps) \in Nat /\ apps \in Seq(AppRecords) /\ DOMAIN apps = 1..Len(apps)
    BY Domain DEF Inv, ShellInv, Placed
<1>3. /\ apps' \in Seq(AppRecords) /\ Len(apps') = Len(apps) + 1
      /\ DOMAIN apps' = 1..Len(apps) + 1
      /\ apps'[Len(apps) + 1] = AppRecord(s)
      /\ \A i \in 1..Len(apps) : apps'[i] = apps[i]
    BY <1>1, <1>2, AppendProperties, LenProperties
<1>4. Placed'
    BY <1>2, <1>3, ShellAssumption DEF Placed, EmptyChat, Chats
<1>5. Minted'
    BY <1>1, <1>2, <1>3 DEF Inv, ShellInv, Minted
<1>6. Owned'
    BY <1>1, <1>2, <1>3 DEF Inv, ShellInv, Owned, OneOwner, CanRecover, EmptyChat
<1>7. Counted'
    BY <1>1, <1>2, <1>3 DEF Inv, ShellInv, Counted, RepairBounded
<1> QED
    BY <1>4, <1>5, <1>6, <1>7 DEF ShellInv

LEMMA NewAppStep == ASSUME Inv, OpenNewApp PROVE ShellInv'
<1>1. PICK new \in Fresh(1) : /\ CreateSessions(new) /\ Mint(new)
                              /\ apps' = Append(apps, AppRecord(new[1]))
    BY DEF OpenNewApp
<1>2. DOMAIN new = {1} /\ new[1] \in Sessions \ (Old \cup minted)
    BY <1>1 DEF Fresh
<1>3. known' = known \cup {new[1]} /\ minted' = minted \cup {new[1]} /\ lastPrompt' = lastPrompt
    BY <1>1, <1>2 DEF CreateSessions, Mint
<1>4. \A i \in DOMAIN apps : apps[i].session # new[1]
    BY <1>2 DEF Inv, ShellInv, Minted
<1> QED
    BY <1>1, <1>2, <1>3, <1>4, PushStep DEF OpenNewApp, Inv, ShellInv, Minted

(* Another app comes to the front of a screen that does not stream. *)
LEMMA ComesToFront ==
    ASSUME Inv, fg' \in DOMAIN apps, chat' = EmptyChat, NEW s \in Old \cup known,
           known' = known \cup {s} \/ known' = known, UNCHANGED <<apps, minted, repairs, lastPrompt>>
    PROVE  ShellInv'
<1>1. Placed'
    BY Domain DEF Inv, ShellInv, Placed, EmptyChat, Chats
<1>2. Minted'
    BY DEF Inv, ShellInv, Minted
<1>3. Owned' /\ Counted'
    BY DEF Inv, ShellInv, Owned, OneOwner, CanRecover, EmptyChat, Counted, RepairBounded
<1> QED
    BY <1>1, <1>2, <1>3 DEF ShellInv

LEMMA SwitchStep == ASSUME Inv, SwitchToApp PROVE ShellInv'
<1>1. Len(apps) \in Nat /\ Len(apps) > 1 /\ DOMAIN apps = 1..Len(apps) /\ fg \in Nat
    BY Domain DEF Inv, ShellInv, SwitchToApp
<1>2. (fg % Len(apps)) + 1 \in 1..Len(apps)
    BY <1>1
<1>3. known' = known /\ UNCHANGED <<apps, minted, repairs, lastPrompt>>
    BY DEF SwitchToApp, agent
<1>4. PICK s \in known : TRUE
    BY <1>1 DEF Inv, ShellInv, Minted
<1> QED
    BY <1>1, <1>2, <1>3, <1>4, ComesToFront DEF SwitchToApp, Surface

LEMMA SelectStep == ASSUME Inv, Select PROVE ShellInv'
<1>1. PICK s \in Old \cup known : ResumeSession(s) /\ Focus(s)
    BY DEF Select
<1>2. s \in Sessions /\ known' = known \cup {s} /\ chat' = EmptyChat
      /\ UNCHANGED <<minted, repairs, lastPrompt>>
    BY <1>1, ShellAssumption DEF Select, ResumeSession, Inv, IInv, MapsOK
<1>3. CASE \E i \in DOMAIN apps : fg' = i /\ UNCHANGED apps
    BY <1>2, <1>3, ComesToFront
<1>4. CASE /\ \A i \in DOMAIN apps : apps[i].session # s
           /\ Len(apps) < MaxApps
           /\ apps' = Append(apps, AppRecord(s)) /\ fg' = Len(apps) + 1
    BY <1>1, <1>2, <1>4, PushStep DEF Inv, ShellInv, Minted
<1> QED
    BY <1>1, <1>3, <1>4 DEF Focus

LEMMA ResumeStep == ASSUME Inv, ResumeHydrated PROVE ShellInv'
<1>1. UNCHANGED <<known, apps, minted, fg, repairs, lastPrompt>>
    BY DEF ResumeHydrated, agent
<1>2. chat' \in {chat, [chat EXCEPT !.streaming = FALSE]}
    BY DEF ResumeHydrated
<1>3. chat' \in Chats /\ (chat'.streaming = TRUE => chat.streaming = TRUE)
    BY <1>2 DEF Inv, ShellInv, Placed, Chats
<1> QED
    BY <1>1, <1>3, OnlyTheScreen

-----------------------------------------------------------------------------
(*                            The agent events                             *)

LEMMA EventType ==
    ASSUME IInv, NEW e, NextEvent(e) PROVE e \in AgentEvents /\ e.prompt \in Prompts
<1>1. e \in AgentEvents
    BY TailElements DEF NextEvent, IInv, AppOK
<1> QED
    BY <1>1 DEF AgentEvents

(* An event that stays in the foreground is of the app there, or orphaned. *)
LEMMA AtTheFront ==
    ASSUME Inv, NEW p \in Prompts, ~InBackground(p), AppOfPrompt(p) # 0
    PROVE  AppOfPrompt(p) = fg /\ fg \in DOMAIN apps /\ apps[fg].prompt = p
BY Routed DEF InBackground, Inv, ShellInv, Owned

LEMMA TextStep ==
    ASSUME Inv, NEW e, TextAuthoritative(e) \/ TextDelta(e), UNCHANGED minted
    PROVE  ShellInv'
<1>1. UNCHANGED <<known, apps, minted, fg, repairs, lastPrompt>>
    BY DEF TextAuthoritative, TextDelta, agent
<1>2. chat' \in {chat, [chat EXCEPT !.row = TRUE], [chat EXCEPT !.text = TRUE]}
    BY DEF TextAuthoritative, TextDelta
<1>3. chat' \in Chats /\ (chat'.streaming = TRUE => chat.streaming = TRUE)
    BY <1>2 DEF Inv, ShellInv, Placed, Chats
<1> QED
    BY <1>1, <1>3, OnlyTheScreen

LEMMA BackgroundStep ==
    ASSUME Inv, NEW e, e.prompt \in Prompts, BackgroundEnds(e), UNCHANGED minted
    PROVE  ShellInv'
<1>1. /\ AppOfPrompt(e.prompt) # 0 /\ AppOfPrompt(e.prompt) # fg
      /\ apps' = SetPrompt(AppOfPrompt(e.prompt), None)
      /\ UNCHANGED <<known, chat, minted, fg, repairs, lastPrompt>>
    BY DEF BackgroundEnds, InBackground, agent
<1>2. AppOfPrompt(e.prompt) \in DOMAIN apps
    BY <1>1, Routed DEF Inv, ShellInv, Owned
<1>3. chat' \in Chats
    BY <1>1 DEF Inv, ShellInv, Placed
<1> QED
    BY <1>1, <1>2, <1>3, OneStops

(* A repair gives that app the new prompt and counts one more. *)
LEMMA RepairTakes ==
    ASSUME Inv, NEW e, e.prompt \in Prompts, ~InBackground(e.prompt), AppOfPrompt(e.prompt) = fg,
           fg # 0, SendPrompt(apps[fg].session), Repair(fg)
    PROVE  /\ fg \in DOMAIN apps /\ apps[fg].prompt = e.prompt
           /\ \E a \in AppRecords :
                /\ apps' = [apps EXCEPT ![fg] = a] /\ a.session = apps[fg].session
                /\ a.prompt = lastPrompt' /\ Spent(a) = Spent(apps[fg]) + 1
<1> DEFINE s == apps[fg].session
<1>1. fg \in DOMAIN apps /\ apps[fg] \in AppRecords /\ apps[fg].prompt = e.prompt /\ s \in Sessions
    BY AtTheFront, Domain DEF Inv, ShellInv, AppRecords
<1>2. /\ lastPrompt' = lastPrompt + 1 /\ lastPrompt \in Nat /\ lastPrompt' \in Prompts
      /\ lastPrompt' # None /\ known' = known
    BY SentIsNew DEF Inv
<1>3. \E a \in AppRecords :
        /\ apps' = [apps EXCEPT ![fg] = a]
        /\ a.session = s /\ a.prompt = lastPrompt' /\ Spent(a) = Spent(apps[fg]) + 1
  <2>1. CASE /\ ~apps[fg].lint
             /\ apps' = [apps EXCEPT ![fg].lint = TRUE, ![fg].prompt = lastPrompt',
                                     ![fg].prompt = lastPrompt']
    <3> DEFINE b == [apps[fg] EXCEPT !.lint = TRUE]
               c == [b EXCEPT !.prompt = lastPrompt']
               a == [c EXCEPT !.prompt = lastPrompt']
    <3>1. b \in AppRecords /\ b.session = s /\ b.l0 = apps[fg].l0 /\ b.lint = TRUE
        BY <1>1 DEF AppRecords
    <3> HIDE DEF b
    <3>2. c \in AppRecords /\ c.session = s /\ c.l0 = apps[fg].l0 /\ c.lint = TRUE
        BY <1>2, <3>1 DEF AppRecords
    <3> HIDE DEF c
    <3>3. /\ a \in AppRecords /\ a.session = s /\ a.l0 = apps[fg].l0 /\ a.lint = TRUE
          /\ a.prompt = lastPrompt'
        BY <1>2, <3>2 DEF AppRecords
    <3>4. apps' = [apps EXCEPT ![fg] = a]
        BY <1>1, <2>1 DEF b, c
    <3> HIDE DEF a
    <3>5. apps[fg].lint # TRUE
        BY <2>1
    <3>6. Spent(a) = Spent(apps[fg]) + 1
      <4>1. Spent(a) = apps[fg].l0 + 1
          BY <3>3, Zenon DEF Spent
      <4>2. Spent(apps[fg]) = apps[fg].l0 + 0
          BY <3>5, Zenon DEF Spent
      <4>3. apps[fg].l0 \in Nat
          BY <1>1, ShellAssumption DEF AppRecords
      <4> QED
          BY <4>1, <4>2, <4>3
    <3> QED
        BY <3>3, <3>4, <3>6
  <2>2. CASE /\ apps[fg].l0 < Budget
             /\ apps' = [apps EXCEPT ![fg].l0 = @ + 1, ![fg].prompt = lastPrompt',
                                     ![fg].prompt = lastPrompt']
    <3> DEFINE b == [apps[fg] EXCEPT !.l0 = @ + 1]
               c == [b EXCEPT !.prompt = lastPrompt']
               a == [c EXCEPT !.prompt = lastPrompt']
    <3>1. b \in AppRecords /\ b.session = s /\ b.l0 = apps[fg].l0 + 1 /\ b.lint = apps[fg].lint
        BY <1>1, <2>2, ShellAssumption DEF AppRecords
    <3> HIDE DEF b
    <3>2. c \in AppRecords /\ c.session = s /\ c.l0 = apps[fg].l0 + 1 /\ c.lint = apps[fg].lint
        BY <1>2, <3>1 DEF AppRecords
    <3> HIDE DEF c
    <3>3. /\ a \in AppRecords /\ a.session = s /\ a.l0 = apps[fg].l0 + 1 /\ a.lint = apps[fg].lint
          /\ a.prompt = lastPrompt'
        BY <1>2, <3>2 DEF AppRecords
    <3>4. apps' = [apps EXCEPT ![fg] = a]
        BY <1>1, <2>2 DEF b, c
    <3> HIDE DEF a
    <3>5. (a.lint = TRUE) <=> (apps[fg].lint = TRUE)
        BY <3>3, Zenon
    <3>6. Spent(a) = Spent(apps[fg]) + 1
        BY <1>1, <3>3, <3>5 DEF Spent, AppRecords
    <3> QED
        BY <3>3, <3>4, <3>6
  <2> QED
      BY <2>1, <2>2 DEF Repair
<1> QED
    BY <1>1, <1>3

(* A repair is counted by the record whose app it was sent for. *)
LEMMA RepairStep ==
    ASSUME Inv, NEW e, e.prompt \in Prompts, ~InBackground(e.prompt), AppOfPrompt(e.prompt) = fg,
           fg # 0, SendPrompt(apps[fg].session), Repair(fg),
           chat' = [Surface EXCEPT !.streaming = TRUE],
           repairs' = [repairs EXCEPT ![apps[fg].session] = @ + 1], UNCHANGED <<fg, minted>>
    PROVE  ShellInv'
<1> DEFINE s == apps[fg].session
<1>1. fg \in DOMAIN apps /\ apps[fg] \in AppRecords /\ apps[fg].prompt = e.prompt /\ s \in Sessions
    BY AtTheFront, Domain DEF Inv, ShellInv, AppRecords
<1>2. /\ lastPrompt' = lastPrompt + 1 /\ lastPrompt \in Nat /\ lastPrompt' \in Prompts
      /\ lastPrompt' # None /\ known' = known
    BY SentIsNew DEF Inv
<1>3. PICK a \in AppRecords :
        /\ apps' = [apps EXCEPT ![fg] = a]
        /\ a.session = s /\ a.prompt = lastPrompt' /\ Spent(a) = Spent(apps[fg]) + 1
    BY RepairTakes
<1>4. /\ apps' \in Seq(AppRecords) /\ Len(apps') = Len(apps) /\ DOMAIN apps' = DOMAIN apps
      /\ apps'[fg] = a /\ \A j \in DOMAIN apps : j # fg => apps'[j] = apps[j]
    BY <1>1, <1>3, OneApp DEF Inv, ShellInv, Placed
<1>5. Placed'
    BY <1>4, Domain DEF Inv, ShellInv, Placed, Chats, Surface, EmptyChat
<1>6. Minted'
    BY <1>2, <1>3, <1>4 DEF Inv, ShellInv, Minted
<1>7. Owned'
  <2>1. CanRecover'
      BY <1>2, <1>3, <1>4 DEF CanRecover, Foreground
  <2> QED
      BY <1>1, <1>3, <1>4, <2>1, OneTakes DEF Owned
<1>8. Counted'
  <2>1. /\ Spent(apps[fg]) \in Nat /\ Spent(a) <= Budget + 1 /\ repairs[s] \in Nat
        /\ repairs[s] <= Spent(apps[fg])
      BY <1>1, ShellAssumption DEF Inv, ShellInv, Counted, Spent, AppRecords, Prompts, None
  <2>2. repairs' \in [Sessions -> Nat] /\ repairs'[s] = repairs[s] + 1
      BY <1>1, <2>1 DEF Inv, ShellInv, Counted
  <2>3. RepairBounded'
      BY <1>1, <1>3, <2>1, <2>2, ShellAssumption DEF Inv, ShellInv, Counted, RepairBounded
  <2>4. \A j \in DOMAIN apps : j # fg => apps[j].session # s /\ apps[j].session \in Sessions
      BY <1>1, Domain DEF Inv, ShellInv, Minted, AppRecords
  <2>5. ASSUME NEW i \in DOMAIN apps', apps'[i].prompt # None
        PROVE  repairs'[apps'[i].session] <= Spent(apps'[i])
    <3>1. CASE i = fg
        BY <1>3, <1>4, <2>1, <2>2, <3>1
    <3>2. CASE i # fg
        BY <1>4, <2>2, <2>4, <2>5, <3>2 DEF Inv, ShellInv, Counted
    <3> QED
        BY <3>1, <3>2
  <2> QED
      BY <2>2, <2>3, <2>5 DEF Counted
<1> QED
    BY <1>5, <1>6, <1>7, <1>8 DEF ShellInv

LEMMA ForegroundStep ==
    ASSUME Inv, NEW e, e.prompt \in Prompts, TurnComplete(e) \/ PromptError(e), UNCHANGED minted
    PROVE  ShellInv'
<1>1. CASE chat' = Surface /\ apps' = SetPrompt(fg, None)
           /\ UNCHANGED <<agent, commands, owner, repairs, fg>>
    BY <1>1, ForegroundStops DEF agent, Surface, EmptyChat, Chats
<1>2. CASE PromptError(e)
    BY <1>2, ForegroundStops DEF PromptError, agent, Inv, ShellInv, Placed, Chats
<1>3. CASE TurnComplete(e) /\ ~(chat' = Surface /\ apps' = SetPrompt(fg, None)
           /\ UNCHANGED <<agent, commands, owner, repairs, fg>>)
  <2> DEFINE i == AppOfPrompt(e.prompt)
  <2>1. /\ ~InBackground(e.prompt) /\ i # 0 /\ SendPrompt(apps[i].session) /\ Repair(i)
        /\ chat' = [Surface EXCEPT !.streaming = TRUE]
        /\ repairs' = [repairs EXCEPT ![apps[i].session] = @ + 1]
        /\ UNCHANGED fg
      BY <1>3 DEF TurnComplete
  <2>2. i = fg
      BY <2>1, AtTheFront
  <2> QED
      BY <2>1, <2>2, RepairStep
<1> QED
    BY <1>1, <1>2, <1>3

LEMMA HandleEventStep == ASSUME Inv, HandleAgentEvent PROVE ShellInv'
<1>1. PICK e : /\ NextEvent(e) /\ UNCHANGED minted
               /\ \/ TextAuthoritative(e) \/ TextDelta(e) \/ BackgroundEnds(e)
                  \/ TurnComplete(e) \/ PromptError(e)
    BY DEF HandleAgentEvent
<1>2. e.prompt \in Prompts
    BY <1>1, EventType DEF Inv
<1> QED
    BY <1>1, <1>2, TextStep, BackgroundStep, ForegroundStep

-----------------------------------------------------------------------------
(*                     The bridge under this very app                      *)

LEMMA Remaps ==
    ASSUME Inv, NEW new \in Fresh(Domains), UNCHANGED <<ui, owner, closed, lastPrompt, rows>>,
           ReplaceAgent(new)
    PROVE  IInv'
<1>1. {new[i] : i \in DOMAIN new} \subseteq Sessions
    BY DEF Fresh
<1>2. MapsOK'
  <2>1. /\ known' \subseteq Sessions
        /\ turnIds' = {} /\ promptIds' = {} /\ promptSessions' = <<>>
      BY <1>1 DEF ReplaceAgent
  <2> QED
      BY <2>1 DEF Inv, IInv, MapsOK, Mapped, Gone
<1>3. CommandsOK' /\ InboxOK'
    BY DEF ReplaceAgent, CommandsOK, InboxOK
<1>4. ServerOK' /\ AppOK'
    BY DEF Inv, IInv, ServerOK, ReplaceAgent, AppOK, ui
<1> QED
    BY <1>2, <1>3, <1>4 DEF IInv

LEMMA Opens ==
    ASSUME Inv, NEW n \in Nat, NEW new \in Fresh(n), CreateSessions(new),
           UNCHANGED <<ui, inbox, server, owner, closed>>
    PROVE  IInv'
<1>1. known' \subseteq Sessions /\ UNCHANGED <<turnIds, promptIds, promptSessions, lastPrompt, commands>>
    BY DEF Fresh, CreateSessions, Inv, IInv, MapsOK
<1>2. MapsOK'
    BY <1>1 DEF Inv, IInv, MapsOK, Mapped, Gone
<1> QED
    BY <1>1, <1>2, Untouched DEF Inv, IInv

(* The shell asks nothing of the agent that the app of BridgeNext may not. *)
LEMMA BridgeKeeps == ASSUME Inv, Next PROVE IInv'
<1>1. CASE Submit
  <2>1. apps[fg].session \in known
      BY <1>1, Domain DEF Submit, Inv, ShellInv, Minted
  <2>2. Send
      BY <1>1, <2>1 DEF Submit, Foreground, Send
  <2> QED
      BY <2>2, SendStep DEF Inv
<1>2. CASE CancelRequest
  <2>1. apps[fg].prompt \in 1..lastPrompt
      BY <1>2, Domain DEF CancelRequest, Foreground, Inv, ShellInv, Owned
  <2>2. Cancel
      BY <1>2, <2>1 DEF CancelRequest, Foreground, Cancel
  <2> QED
      BY <2>2, CancelStep DEF Inv
<1>3. CASE ClearChat \/ OpenNewApp
    BY <1>3, Opens, ShellAssumption DEF ClearChat, OpenNewApp
<1>4. CASE Relogin
    BY <1>4, Remaps DEF Relogin, ReplaceAgent
<1>5. CASE SwitchToApp
  <2>1. UNCHANGED bridgeVars
      BY <1>5 DEF SwitchToApp, bridgeVars
  <2> QED
      BY <2>1, StepIInv DEF Inv
<1>6. CASE Select
  <2>1. Open
      BY <1>6, ShellAssumption DEF Select, Open, Inv, IInv, MapsOK
  <2> QED
      BY <2>1, OpenStep DEF Inv
<1>7. CASE ResumeHydrated
  <2>1. Act
      BY <1>7 DEF ResumeHydrated, Act
  <2> QED
      BY <2>1, ActStep DEF Inv
<1>8. CASE HandleAgentEvent
  <2>1. PICK e : /\ NextEvent(e) /\ e = Head(batch)
                 /\ \/ TextAuthoritative(e) \/ TextDelta(e) \/ BackgroundEnds(e)
                    \/ TurnComplete(e) \/ PromptError(e)
      BY <1>8 DEF HandleAgentEvent
  <2>2. e.prompt \in Prompts
      BY <2>1, EventType DEF Inv
  <2>3. UNCHANGED <<agent, commands, owner>> \/ \E s \in known : SendPrompt(s)
    <3>1. CASE TextAuthoritative(e) \/ TextDelta(e) \/ BackgroundEnds(e) \/ PromptError(e)
        BY <3>1 DEF TextAuthoritative, TextDelta, BackgroundEnds, PromptError
    <3>2. CASE TurnComplete(e)
      <4>1. ASSUME AppOfPrompt(e.prompt) # 0, ~InBackground(e.prompt)
            PROVE  apps[AppOfPrompt(e.prompt)].session \in known
          BY <2>2, <4>1, AtTheFront DEF Inv, ShellInv, Minted
      <4> QED
          BY <3>2, <4>1 DEF TurnComplete
    <3> QED
        BY <2>1, <3>1, <3>2
  <2>4. Handle
      BY <1>8, <2>1, <2>3 DEF HandleAgentEvent, Handle
  <2> QED
      BY <2>4, HandleStep DEF Inv
<1>9. CASE Bridge
    BY <1>9, DrainStep, TranslateStep, EnvironmentStep DEF Bridge, Inv
<1> QED
    BY <1>1, <1>2, <1>3, <1>4, <1>5, <1>6, <1>7, <1>8, <1>9 DEF Next

LEMMA ShellKeeps == ASSUME Inv, Next PROVE ShellInv'
<1>1. CASE ClearChat
    BY <1>1, DomainAppsStep DEF ClearChat, CreateSessions
<1>2. CASE Relogin
    BY <1>2, DomainAppsStep DEF Relogin, ReplaceAgent
<1>3. CASE Bridge
  <2>1. known' = known /\ lastPrompt' = lastPrompt
      BY <1>3, EnvironmentLeaves DEF Bridge, HandleEvent, Translate, TranslateRpcError,
         TranslateDelta, TranslateRow, TranslateTerminal, TranslateHydrated, Drained, agent
  <2>2. chat' = chat /\ UNCHANGED <<apps, minted, fg, repairs>>
      BY <1>3 DEF Bridge, shell
  <2>3. chat' \in Chats
      BY <2>2 DEF Inv, ShellInv, Placed
  <2> QED
      BY <2>1, <2>2, <2>3, OnlyTheScreen
<1> QED
    BY <1>1, <1>2, <1>3, SubmitStep, CancelRequestStep, NewAppStep, SwitchStep, SelectStep,
       ResumeStep, HandleEventStep DEF Next

LEMMA InitInv == Init => Inv
<1> SUFFICES ASSUME Init PROVE Inv
    OBVIOUS
<1>1. IInv
    BY InitIInv DEF Init
<1>2. apps = <<>> /\ Len(apps) = 0 /\ DOMAIN apps = {} /\ fg = 0 /\ chat = EmptyChat
    BY DEF Init
<1>3. Placed
    BY <1>2, ShellAssumption DEF Placed, EmptyChat, Chats
<1>4. Minted /\ Owned /\ Counted
    BY <1>2, ShellAssumption DEF Init, BridgeInit, AgentInit, Minted, Owned, OneOwner,
       CanRecover, EmptyChat, Counted, RepairBounded
<1> QED
    BY <1>1, <1>3, <1>4 DEF Inv, ShellInv

LEMMA InvStep == ASSUME Inv, [Next]_vars PROVE Inv'
<1>1. CASE Next
    BY <1>1, BridgeKeeps, ShellKeeps DEF Inv
<1>2. CASE UNCHANGED vars
  <2>1. UNCHANGED bridgeVars /\ UNCHANGED <<known, apps, chat, minted, fg, repairs, lastPrompt>>
      BY <1>2 DEF vars, bridgeVars, agent, shell
  <2>2. chat' \in Chats /\ chat' = chat
      BY <2>1 DEF Inv, ShellInv, Placed
  <2> QED
      BY <2>1, <2>2, StepIInv, OnlyTheScreen DEF Inv
<1> QED
    BY <1>1, <1>2

LEMMA ShellInductive == Spec => []Inv
<1>1. Inv /\ [Next]_vars => Inv'
    BY InvStep
<1> QED
    BY <1>1, InitInv, PTL DEF Spec

(* The apps hold distinct sessions, all of them known to the agent of the  *)
(* moment: clear_chat, a new login, a resumed session and open_new_app     *)
(* never leave an app whose prompts would go to a session of another       *)
(* agent.                                                                  *)
THEOREM ShellTypeCorrect == Spec => []ShellTypeOK
<1>1. Inv => ShellTypeOK
  <2>1. IInv => closed \subseteq Prompts
      BY BridgeAssumption DEF IInv, MapsOK, Gone, Prompts
  <2>2. IInv => TypeOK
      BY <2>1 DEF IInv, MapsOK, CommandsOK, InboxOK, AppOK, ServerOK, TypeOK
  <2> QED
      BY <2>2 DEF Inv, ShellInv, Placed, Minted, ShellTypeOK
<1> QED
    BY <1>1, ShellInductive, PTL

(* However prompts fail, are cancelled, overlap or outlive their app, no   *)
(* event of app_of_prompt has two apps to go to.                           *)
THEOREM OwnersAreUnique == Spec => []OneOwner
<1>1. Inv => OneOwner
    BY DEF Inv, ShellInv, Owned
<1> QED
    BY <1>1, ShellInductive, PTL

(* A screen that streams has a prompt to cancel, through every switch,     *)
(* resume and repair.                                                      *)
THEOREM AlwaysRecovers == Spec => []CanRecover
<1>1. Inv => CanRecover
    BY DEF Inv, ShellInv, Owned
<1> QED
    BY <1>1, ShellInductive, PTL

(* Whatever cards are refused in whatever order, a submit is followed by   *)
(* no more repair prompts than the budgets allow.                          *)
THEOREM RepairsAreBounded == Spec => []RepairBounded
<1>1. Inv => RepairBounded
    BY DEF Inv, ShellInv, Counted
<1> QED
    BY <1>1, ShellInductive, PTL

(* And what the agent promises any app holds under this one: a cancel      *)
(* interrupts the turn in the session its prompt was sent to.              *)
THEOREM ShellInterruptsOwner == Spec => []InterruptsOwner
<1>1. Inv => InterruptsOwner
    BY DEF Inv, IInv, CommandsOK, SentCommand, InterruptsOwner
<1> QED
    BY <1>1, ShellInductive, PTL
-----------------------------------------------------------------------------
(*               The shell keeps what Conversations promises               *)

WaitsOf(q) ==
    [s \in Sessions |->
       IF \E i \in DOMAIN q : q[i].session = s
       THEN q[CHOOSE i \in DOMAIN q : q[i].session = s].prompt
       ELSE None]

Front == IF fg = 0 THEN {} ELSE {apps[fg].session}

Promise == INSTANCE Conversations
  WITH waits <- WaitsOf(apps), front <- Front, streams <- chat.streaming, retries <- repairs

Promised == [Promise!Next]_(Promise!vars)

Apart(q) == \A i, j \in DOMAIN q : q[i].session = q[j].session => i = j

LEMMA WaitsIs ==
    ASSUME NEW q, Apart(q), NEW i \in DOMAIN q, q[i].session \in Sessions
    PROVE  WaitsOf(q)[q[i].session] = q[i].prompt
<1>1. (CHOOSE j \in DOMAIN q : q[j].session = q[i].session) = i
    BY DEF Apart
<1> QED
    BY <1>1 DEF WaitsOf

LEMMA NobodyWaits ==
    ASSUME NEW q, NEW s \in Sessions, \A i \in DOMAIN q : q[i].session # s
    PROVE  WaitsOf(q)[s] = None
BY DEF WaitsOf

(* When one app's prompt changes, so does what its session waits for. *)
LEMMA OneWaits ==
    ASSUME NEW q, NEW r, Apart(q), DOMAIN r = DOMAIN q, NEW i \in DOMAIN q,
           \A j \in DOMAIN q : q[j].session \in Sessions,
           r[i].session = q[i].session, \A j \in DOMAIN q : j # i => r[j] = q[j]
    PROVE  WaitsOf(r) = [WaitsOf(q) EXCEPT ![q[i].session] = r[i].prompt]
<1>1. \A j \in DOMAIN q : r[j].session = q[j].session
    OBVIOUS
<1>2. Apart(r)
    BY <1>1 DEF Apart
<1>3. ASSUME NEW s \in Sessions
      PROVE  WaitsOf(r)[s] = IF s = q[i].session THEN r[i].prompt ELSE WaitsOf(q)[s]
  <2>1. CASE \A j \in DOMAIN q : q[j].session # s
    <3>1. WaitsOf(q)[s] = None /\ s # q[i].session
        BY <2>1, NobodyWaits
    <3>2. WaitsOf(r)[s] = None
        BY <1>1, <2>1, NobodyWaits
    <3> QED
        BY <3>1, <3>2
  <2>2. CASE \E j \in DOMAIN q : q[j].session = s
    <3>1. PICK j \in DOMAIN q : q[j].session = s
        BY <2>2
    <3>2. WaitsOf(r)[s] = r[j].prompt /\ WaitsOf(q)[s] = q[j].prompt
        BY <1>1, <1>2, <3>1, WaitsIs
    <3>3. s = q[i].session <=> j = i
        BY <3>1 DEF Apart
    <3> QED
        BY <3>2, <3>3
  <2> QED
      BY <2>1, <2>2
<1>4. WaitsOf(r) = [s \in Sessions |-> IF s = q[i].session THEN r[i].prompt ELSE WaitsOf(q)[s]]
    BY <1>3 DEF WaitsOf
<1>5. [WaitsOf(q) EXCEPT ![q[i].session] = r[i].prompt]
        = [s \in Sessions |-> IF s = q[i].session THEN r[i].prompt ELSE WaitsOf(q)[s]]
    BY DEF WaitsOf
<1> QED
    BY <1>4, <1>5

LEMMA AppsApart ==
    ASSUME Inv
    PROVE  /\ Apart(apps) /\ \A i \in DOMAIN apps : apps[i].session \in Sessions
           /\ (fg # 0 => fg \in DOMAIN apps) /\ chat.streaming \in BOOLEAN
BY Domain DEF Inv, ShellInv, Minted, Placed, Apart, AppRecords, Chats

(* Nothing that the promise speaks of changes, but that a screen may cease *)
(* to stream.                                                              *)
LEMMA ScreenKept ==
    ASSUME UNCHANGED <<apps, fg, lastPrompt, owner, repairs>>,
           chat'.streaming \in {chat.streaming, FALSE}
    PROVE  Promised
<1>1. WaitsOf(apps)' = WaitsOf(apps) /\ Front' = Front
    BY DEF WaitsOf, Front
<1>2. CASE chat'.streaming = chat.streaming
    BY <1>1, <1>2 DEF Promised, Promise!vars, Promise!prompts
<1>3. CASE chat'.streaming = FALSE
  <2>1. Promise!Settle
      BY <1>1, <1>3 DEF Promise!Settle, Promise!prompts
  <2> QED
      BY <2>1 DEF Promised, Promise!Next
<1> QED
    BY <1>2, <1>3

(* The session in the foreground is sent a prompt. *)
LEMMA FrontSends ==
    ASSUME Inv, fg # 0, fg' = fg, SendPrompt(apps[fg].session), chat'.streaming = TRUE,
           NEW a \in AppRecords, apps' = [apps EXCEPT ![fg] = a],
           a.session = apps[fg].session, a.prompt = lastPrompt'
    PROVE  apps[fg].session \in Front /\ Promise!Send(apps[fg].session)
<1> DEFINE s == apps[fg].session
<1>1. fg \in DOMAIN apps /\ Apart(apps) /\ \A i \in DOMAIN apps : apps[i].session \in Sessions
    BY AppsApart
<1>2. /\ DOMAIN apps' = DOMAIN apps /\ apps'[fg] = a
      /\ \A j \in DOMAIN apps : j # fg => apps'[j] = apps[j]
    BY <1>1, OneApp DEF Inv, ShellInv, Placed
<1>3. WaitsOf(apps)' = [WaitsOf(apps) EXCEPT ![s] = lastPrompt']
  <2>1. PICK r : r = apps'
      OBVIOUS
  <2>2. /\ DOMAIN r = DOMAIN apps /\ r[fg].session = s /\ r[fg].prompt = lastPrompt'
        /\ \A j \in DOMAIN apps : j # fg => r[j] = apps[j]
      BY <1>2, <2>1
  <2>3. WaitsOf(r) = [WaitsOf(apps) EXCEPT ![s] = r[fg].prompt]
      BY <1>1, <2>2, OneWaits
  <2>4. WaitsOf(apps)' = WaitsOf(r)
      BY <2>1 DEF WaitsOf
  <2> QED
      BY <2>2, <2>3, <2>4
<1>4. Front = {s} /\ Front' = {s}
    BY <1>2 DEF Front
<1>5. /\ lastPrompt' = lastPrompt + 1
      /\ owner' = [p \in 1..lastPrompt + 1 |-> IF p = lastPrompt + 1 THEN s ELSE owner[p]]
    BY DEF SendPrompt
<1> QED
    BY <1>3, <1>4, <1>5 DEF Promise!Send

LEMMA SubmitAsks == ASSUME Inv, Submit PROVE Promised
<1> DEFINE s == apps[fg].session
<1>1. /\ fg # 0 /\ fg' = fg /\ ~chat.streaming /\ SendPrompt(s)
      /\ chat' = [chat EXCEPT !.streaming = TRUE, !.text = FALSE, !.row = FALSE]
      /\ repairs' = [repairs EXCEPT ![s] = 0]
    BY DEF Submit, Foreground
<1>2. chat'.streaming = TRUE
    BY <1>1 DEF Inv, ShellInv, Placed, Chats
<1>3. PICK a \in AppRecords : /\ apps' = [apps EXCEPT ![fg] = a]
                              /\ a.session = s /\ a.prompt = lastPrompt'
    BY SubmitTakes
<1>4. s \in Sessions /\ s \in Front /\ Promise!Send(s)
    BY <1>1, <1>2, <1>3, FrontSends, AppsApart
<1>5. Promise!Ask(s)
    BY <1>1, <1>4 DEF Promise!Ask
<1> QED
    BY <1>4, <1>5 DEF Promised, Promise!Next

LEMMA RepairAsks ==
    ASSUME Inv, NEW e, e.prompt \in Prompts, ~InBackground(e.prompt), AppOfPrompt(e.prompt) = fg,
           fg # 0, SendPrompt(apps[fg].session), Repair(fg),
           chat' = [Surface EXCEPT !.streaming = TRUE],
           repairs' = [repairs EXCEPT ![apps[fg].session] = @ + 1], fg' = fg
    PROVE  Promised
<1> DEFINE s == apps[fg].session
<1>1. PICK a \in AppRecords :
        /\ fg \in DOMAIN apps /\ apps[fg].prompt = e.prompt
        /\ apps' = [apps EXCEPT ![fg] = a] /\ a.session = s
        /\ a.prompt = lastPrompt' /\ Spent(a) = Spent(apps[fg]) + 1
    BY RepairTakes
<1>2. chat'.streaming = TRUE
    BY DEF Surface, EmptyChat
<1>3. s \in Sessions /\ s \in Front /\ Promise!Send(s)
    BY <1>1, <1>2, FrontSends, AppsApart
<1>4. WaitsOf(apps)[s] # 0
    BY <1>1, AppsApart, WaitsIs DEF Prompts
<1>5. repairs[s] <= Budget
  <2>1. apps[fg] \in AppRecords /\ apps[fg].prompt # None
      BY <1>1, Domain DEF Inv, ShellInv, Prompts, None
  <2>2. /\ Spent(apps[fg]) \in Nat /\ Spent(a) <= Budget + 1
        /\ repairs[s] \in Nat /\ repairs[s] <= Spent(apps[fg])
      BY <1>1, <1>3, <2>1, ShellAssumption DEF Inv, ShellInv, Counted, Spent, AppRecords
  <2> QED
      BY <1>1, <2>2, ShellAssumption
<1>6. Promise!AskAgain(s)
    BY <1>3, <1>4, <1>5 DEF Promise!AskAgain
<1> QED
    BY <1>3, <1>6 DEF Promised, Promise!Next

(* An app stops waiting; if it is the one in the foreground, its screen    *)
(* stops streaming.                                                        *)
LEMMA AppStops ==
    ASSUME Inv, NEW i \in DOMAIN apps, apps' = SetPrompt(i, None),
           UNCHANGED <<fg, lastPrompt, owner, repairs>>,
           chat'.streaming = IF i = fg THEN FALSE ELSE chat.streaming
    PROVE  Promised
<1> DEFINE a == [apps[i] EXCEPT !.prompt = None]
           s == apps[i].session
<1>1. /\ Apart(apps) /\ \A j \in DOMAIN apps : apps[j].session \in Sessions
      /\ (fg # 0 => fg \in DOMAIN apps)
    BY AppsApart
<1>2. a \in AppRecords /\ a.prompt = None /\ a.session = s
    BY Domain DEF Inv, ShellInv, AppRecords
<1>3. /\ DOMAIN apps' = DOMAIN apps /\ apps'[i] = a
      /\ \A j \in DOMAIN apps : j # i => apps'[j] = apps[j]
    BY <1>2, OneApp DEF Inv, ShellInv, Placed, SetPrompt
<1>4. WaitsOf(apps)' = [WaitsOf(apps) EXCEPT ![s] = 0]
  <2>1. PICK r : r = apps'
      OBVIOUS
  <2>2. /\ DOMAIN r = DOMAIN apps /\ r[i].session = s /\ r[i].prompt = None
        /\ \A j \in DOMAIN apps : j # i => r[j] = apps[j]
      BY <1>2, <1>3, <2>1
  <2>3. WaitsOf(r) = [WaitsOf(apps) EXCEPT ![s] = r[i].prompt]
      BY <1>1, <2>2, OneWaits
  <2>4. WaitsOf(apps)' = WaitsOf(r)
      BY <2>1 DEF WaitsOf
  <2> QED
      BY <2>2, <2>3, <2>4 DEF None
<1>5. Front' = Front /\ (s \in Front <=> i = fg)
  <2>1. \A j \in DOMAIN apps : apps'[j].session = apps[j].session
      BY <1>2, <1>3
  <2>2. fg # 0 => (apps[fg].session = s <=> i = fg)
      BY <1>1 DEF Apart
  <2>3. i # 0
      BY Domain DEF Inv, ShellInv
  <2> QED
      BY <1>1, <2>1, <2>2, <2>3 DEF Front
<1>6. Promise!Stop(s)
    BY <1>4, <1>5 DEF Promise!Stop, Promise!prompts
<1> QED
    BY <1>1, <1>6 DEF Promised, Promise!Next

(* The app in the foreground, if there is one, stops waiting. *)
LEMMA FrontStops ==
    ASSUME Inv, apps' = SetPrompt(fg, None), chat'.streaming = FALSE,
           UNCHANGED <<fg, lastPrompt, owner, repairs>>
    PROVE  Promised
<1>1. CASE fg = 0
    BY <1>1, NoneStops, ScreenKept
<1>2. CASE fg # 0
    BY <1>2, AppStops, AppsApart
<1> QED
    BY <1>1, <1>2

LEMMA CancelStops == ASSUME Inv, CancelRequest PROVE Promised
<1>1. /\ apps' = SetPrompt(fg, None) /\ UNCHANGED <<fg, lastPrompt, owner, repairs>>
      /\ chat' = [chat EXCEPT !.streaming = FALSE, !.text = FALSE]
    BY DEF CancelRequest, CancelPrompt, agent
<1>2. chat'.streaming = FALSE
    BY <1>1 DEF Inv, ShellInv, Placed, Chats
<1> QED
    BY <1>1, <1>2, FrontStops

(* Another session comes to the screen, and nobody stops waiting or all do. *)
LEMMA ScreenMoves ==
    ASSUME NEW s \in Sessions, Front' = {s}, chat'.streaming = FALSE,
           UNCHANGED <<lastPrompt, owner, repairs>>,
           WaitsOf(apps)' \in {WaitsOf(apps), [r \in Sessions |-> 0]}
    PROVE  Promised
<1>1. Promise!Move
    BY DEF Promise!Move, Promise!prompts
<1> QED
    BY <1>1 DEF Promised, Promise!Next

(* New apps in the place of all others wait for nothing. *)
LEMMA DomainAppsMove ==
    ASSUME Inv, NEW new \in Fresh(Domains), OpenDomainApps(new),
           UNCHANGED <<lastPrompt, owner, repairs>>
    PROVE  Promised
<1>1. /\ DOMAIN new = 1..Domains /\ 1 \in 1..Domains
      /\ \A i \in 1..Domains : new[i] \in Sessions
      /\ \A i, j \in 1..Domains : new[i] = new[j] => i = j
    BY ShellAssumption DEF Fresh
<1>2. apps' = [i \in 1..Domains |-> AppRecord(new[i])] /\ fg' = 1 /\ chat' = EmptyChat
    BY <1>1 DEF OpenDomainApps
<1>3. /\ DOMAIN apps' = 1..Domains
      /\ \A i \in 1..Domains : apps'[i].session = new[i] /\ apps'[i].prompt = None
    BY <1>2 DEF AppRecord
<1>4. Apart(apps')
    BY <1>1, <1>3 DEF Apart
<1>5. \A s \in Sessions : WaitsOf(apps')[s] = 0
  <2>1. ASSUME NEW s \in Sessions, NEW i \in DOMAIN apps', apps'[i].session = s
        PROVE  WaitsOf(apps')[s] = 0
      BY <1>3, <1>4, <2>1, WaitsIs DEF None
  <2>2. ASSUME NEW s \in Sessions, \A i \in DOMAIN apps' : apps'[i].session # s
        PROVE  WaitsOf(apps')[s] = 0
      BY <2>2, NobodyWaits DEF None
  <2> QED
      BY <2>1, <2>2
<1>6. WaitsOf(apps)' = [s \in Sessions |-> 0]
    BY <1>5 DEF WaitsOf
<1>7. Front' = {new[1]} /\ chat'.streaming = FALSE
    BY <1>1, <1>2, <1>3 DEF Front, EmptyChat
<1> QED
    BY <1>1, <1>6, <1>7, ScreenMoves

(* A record is pushed for a session no app has, and comes to the front. *)
LEMMA PushMoves ==
    ASSUME Inv, NEW s \in Sessions, \A i \in DOMAIN apps : apps[i].session # s,
           apps' = Append(apps, AppRecord(s)), fg' = Len(apps) + 1, chat' = EmptyChat,
           UNCHANGED <<lastPrompt, owner, repairs>>
    PROVE  Promised
<1>1. AppRecord(s) \in AppRecords /\ AppRecord(s).session = s /\ AppRecord(s).prompt = None
    BY ShellAssumption DEF AppRecord, AppRecords
<1>2. Len(apps) \in Nat /\ apps \in Seq(AppRecords) /\ DOMAIN apps = 1..Len(apps)
    BY Domain DEF Inv, ShellInv, Placed
<1>3. /\ DOMAIN apps' = 1..Len(apps) + 1
      /\ apps'[Len(apps) + 1] = AppRecord(s)
      /\ \A i \in 1..Len(apps) : apps'[i] = apps[i]
    BY <1>1, <1>2, AppendProperties, LenProperties
<1>4. Apart(apps) /\ \A i \in DOMAIN apps : apps[i].session \in Sessions
    BY AppsApart
<1>5. Apart(apps')
    BY <1>1, <1>2, <1>3, <1>4 DEF Apart
<1>6. ASSUME NEW r \in Sessions PROVE WaitsOf(apps')[r] = WaitsOf(apps)[r]
  <2>1. CASE r = s
    <3>1. WaitsOf(apps)[s] = None
        BY NobodyWaits
    <3>2. PICK i \in DOMAIN apps' : apps'[i].session = s /\ apps'[i].prompt = None
        BY <1>1, <1>2, <1>3
    <3>3. WaitsOf(apps')[s] = None
        BY <1>5, <3>2, WaitsIs
    <3> QED
        BY <2>1, <3>1, <3>3
  <2>2. CASE \E i \in DOMAIN apps : apps[i].session = r
    <3>1. PICK i \in DOMAIN apps : apps[i].session = r
        BY <2>2
    <3>2. i \in DOMAIN apps' /\ apps'[i] = apps[i]
        BY <1>2, <1>3
    <3>3. WaitsOf(apps)[r] = apps[i].prompt
        BY <1>4, <3>1, WaitsIs
    <3>4. WaitsOf(apps')[r] = apps'[i].prompt
        BY <1>5, <3>1, <3>2, WaitsIs
    <3> QED
        BY <3>2, <3>3, <3>4
  <2>3. CASE r # s /\ \A i \in DOMAIN apps : apps[i].session # r
    <3>1. \A i \in DOMAIN apps' : apps'[i].session # r
        BY <1>1, <1>2, <1>3, <2>3
    <3> QED
        BY <2>3, <3>1, NobodyWaits
  <2> QED
      BY <2>1, <2>2, <2>3
<1>7. WaitsOf(apps)' = WaitsOf(apps)
    BY <1>6 DEF WaitsOf
<1>8. Front' = {s} /\ chat'.streaming = FALSE
    BY <1>1, <1>2, <1>3 DEF Front, EmptyChat
<1> QED
    BY <1>7, <1>8, ScreenMoves

(* Another of the apps comes to the front. *)
LEMMA FrontMoves ==
    ASSUME Inv, fg' \in DOMAIN apps, chat' = EmptyChat, UNCHANGED <<apps, lastPrompt, owner, repairs>>
    PROVE  Promised
<1>1. WaitsOf(apps)' = WaitsOf(apps) /\ chat'.streaming = FALSE
    BY DEF WaitsOf, EmptyChat
<1>2. apps[fg'].session \in Sessions /\ fg' # 0
    BY AppsApart, Domain DEF Inv, ShellInv
<1>3. Front' = {apps[fg'].session}
    BY <1>2 DEF Front
<1> QED
    BY <1>1, <1>2, <1>3, ScreenMoves

LEMMA UserKeepsPromise ==
    ASSUME Inv, Submit \/ CancelRequest \/ ClearChat \/ Relogin \/ OpenNewApp \/ SwitchToApp \/ Select
                  \/ ResumeHydrated
    PROVE  Promised
<1>1. CASE ClearChat
    BY <1>1, DomainAppsMove DEF ClearChat, CreateSessions
<1>2. CASE Relogin
    BY <1>2, DomainAppsMove DEF Relogin, ReplaceAgent
<1>3. CASE OpenNewApp
  <2>1. PICK new \in Fresh(1) : CreateSessions(new) /\ apps' = Append(apps, AppRecord(new[1]))
      BY <1>3 DEF OpenNewApp
  <2>2. new[1] \in Sessions \ (Old \cup minted) /\ lastPrompt' = lastPrompt
      BY <2>1 DEF Fresh, CreateSessions
  <2>3. \A i \in DOMAIN apps : apps[i].session # new[1]
      BY <2>2 DEF Inv, ShellInv, Minted
  <2> QED
      BY <1>3, <2>1, <2>2, <2>3, PushMoves DEF OpenNewApp
<1>4. CASE SwitchToApp
  <2>1. Len(apps) \in Nat /\ Len(apps) > 1 /\ DOMAIN apps = 1..Len(apps) /\ fg \in Nat
      BY <1>4, Domain DEF Inv, ShellInv, SwitchToApp
  <2>2. (fg % Len(apps)) + 1 \in 1..Len(apps)
      BY <2>1
  <2> QED
      BY <1>4, <2>1, <2>2, FrontMoves DEF SwitchToApp, agent, Surface
<1>5. CASE Select
  <2>1. PICK s \in Old \cup known : ResumeSession(s) /\ Focus(s)
      BY <1>5 DEF Select
  <2>2. s \in Sessions /\ chat' = EmptyChat /\ UNCHANGED <<repairs, lastPrompt, owner>>
      BY <1>5, <2>1, ShellAssumption DEF Select, ResumeSession, Inv, IInv, MapsOK
  <2>3. CASE \E i \in DOMAIN apps : fg' = i /\ UNCHANGED apps
      BY <2>2, <2>3, FrontMoves
  <2>4. CASE /\ \A i \in DOMAIN apps : apps[i].session # s
             /\ apps' = Append(apps, AppRecord(s)) /\ fg' = Len(apps) + 1
      BY <2>2, <2>4, PushMoves
  <2> QED
      BY <2>1, <2>3, <2>4 DEF Focus
<1>6. CASE ResumeHydrated
  <2>1. chat' \in {chat, [chat EXCEPT !.streaming = FALSE]} /\ UNCHANGED <<apps, fg, lastPrompt, owner, repairs>>
      BY <1>6 DEF ResumeHydrated, agent
  <2>2. chat'.streaming \in {chat.streaming, FALSE}
      BY <2>1 DEF Inv, ShellInv, Placed, Chats
  <2> QED
      BY <2>1, <2>2, ScreenKept
<1> QED
    BY <1>1, <1>2, <1>3, <1>4, <1>5, <1>6, SubmitAsks, CancelStops

LEMMA EventsKeepPromise == ASSUME Inv, HandleAgentEvent PROVE Promised
<1>1. PICK e : /\ NextEvent(e)
               /\ \/ TextAuthoritative(e) \/ TextDelta(e) \/ BackgroundEnds(e)
                  \/ TurnComplete(e) \/ PromptError(e)
    BY DEF HandleAgentEvent
<1>2. e.prompt \in Prompts
    BY <1>1, EventType DEF Inv
<1>3. CASE TextAuthoritative(e) \/ TextDelta(e)
  <2>1. UNCHANGED <<apps, fg, lastPrompt, owner, repairs>>
      BY <1>3 DEF TextAuthoritative, TextDelta, agent
  <2>2. chat' \in {chat, [chat EXCEPT !.row = TRUE], [chat EXCEPT !.text = TRUE]}
      BY <1>3 DEF TextAuthoritative, TextDelta
  <2>3. chat'.streaming = chat.streaming
      BY <2>2 DEF Inv, ShellInv, Placed, Chats
  <2> QED
      BY <2>1, <2>3, ScreenKept
<1>4. CASE BackgroundEnds(e)
  <2>1. /\ AppOfPrompt(e.prompt) # 0 /\ AppOfPrompt(e.prompt) # fg
        /\ apps' = SetPrompt(AppOfPrompt(e.prompt), None)
        /\ UNCHANGED <<fg, lastPrompt, owner, chat, repairs>>
      BY <1>4 DEF BackgroundEnds, InBackground, agent
  <2>2. AppOfPrompt(e.prompt) \in DOMAIN apps
      BY <1>2, <2>1, Routed DEF Inv, ShellInv, Owned
  <2> QED
      BY <2>1, <2>2, AppStops
<1>5. CASE PromptError(e)
  <2>1. chat'.streaming = FALSE
      BY <1>5 DEF PromptError, Inv, ShellInv, Placed, Chats
  <2> QED
      BY <1>5, <2>1, FrontStops DEF PromptError, agent
<1>6. CASE chat' = Surface /\ apps' = SetPrompt(fg, None)
           /\ UNCHANGED <<agent, commands, owner, repairs, fg>>
    BY <1>6, FrontStops DEF agent, Surface, EmptyChat
<1>7. CASE TurnComplete(e) /\ ~(chat' = Surface /\ apps' = SetPrompt(fg, None)
           /\ UNCHANGED <<agent, commands, owner, repairs, fg>>)
  <2> DEFINE i == AppOfPrompt(e.prompt)
  <2>1. /\ ~InBackground(e.prompt) /\ i # 0 /\ SendPrompt(apps[i].session) /\ Repair(i)
        /\ chat' = [Surface EXCEPT !.streaming = TRUE]
        /\ repairs' = [repairs EXCEPT ![apps[i].session] = @ + 1]
        /\ UNCHANGED fg
      BY <1>7 DEF TurnComplete
  <2>2. i = fg
      BY <1>2, <2>1, AtTheFront
  <2> QED
      BY <1>2, <2>1, <2>2, RepairAsks
<1> QED
    BY <1>1, <1>3, <1>4, <1>5, <1>6, <1>7

LEMMA PromiseStep == Inv /\ [Next]_vars => Promised
<1> SUFFICES ASSUME Inv, [Next]_vars PROVE Promised
    OBVIOUS
<1>1. CASE Bridge
  <2>1. UNCHANGED <<apps, fg, chat, repairs>>
      BY <1>1 DEF Bridge, shell
  <2>2. UNCHANGED <<lastPrompt, owner>>
      BY <1>1, EnvironmentLeaves DEF Bridge, HandleEvent, Translate, TranslateRpcError,
         TranslateDelta, TranslateRow, TranslateTerminal, TranslateHydrated, Drained, agent
  <2> QED
      BY <2>1, <2>2, ScreenKept
<1>2. CASE UNCHANGED vars
    BY <1>2, ScreenKept DEF vars, bridgeVars, agent, shell
<1> QED
    BY <1>1, <1>2, UserKeepsPromise, EventsKeepPromise DEF Next

LEMMA PromiseInit == Init => Promise!Init
<1> SUFFICES ASSUME Init PROVE Promise!Init
    OBVIOUS
<1>1. apps = <<>> /\ DOMAIN apps = {} /\ fg = 0 /\ chat.streaming = FALSE
    BY DEF Init, EmptyChat
<1>2. WaitsOf(apps) = [s \in Sessions |-> 0]
    BY <1>1 DEF WaitsOf, None
<1> QED
    BY <1>1, <1>2 DEF Init, BridgeInit, Promise!Init, Front

(* Through every cancel, switch, resume, repair and login the shell keeps  *)
(* conversations as Conversations has it: what a session waits for was     *)
(* sent to it and was not given up before, a screen streams only while its *)
(* session waits, and no session is asked again beyond the budget.         *)
THEOREM KeepsConversations == Spec => Promise!Spec
<1> QED
    BY InitInv, InvStep, PromiseInit, PromiseStep, PTL DEF Spec, Promise!Spec, Promised
=============================================================================

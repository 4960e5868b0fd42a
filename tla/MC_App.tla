------------------------------- MODULE MC_App -------------------------------
(***************************************************************************)
(* The app for TLC: the store with its readers, the session list and the   *)
(* task dock; the slices that share no state with them; and a card's way   *)
(* from the answer that holds it to what is drawn.                         *)
(*                                                                         *)
(* A behaviour exercises one part, chosen at its start, and the other      *)
(* parts keep their initial values.  Four parts are of the store: what     *)
(* lights the rows with the lists that replace them, with the dock, with   *)
(* clicks and deletions, and the notices.  Their properties are proved for *)
(* all of it in AppProofs.  Of the others no step reads or writes the      *)
(* variables of another, so that the product of the parts would add        *)
(* nothing but interleavings of steps that commute.                        *)
(***************************************************************************)
EXTENDS AppParts, NodeBuffer

CONSTANTS s1, s2, t1, t2, k1, a1, i1, p1, p2, f1, f2, f3

MCSessionOf == [i \in {t1, t2, a1} |-> s1]
MCTurnOf == [k \in {k1} |-> t1]
MCOrder == <<f1, f2, f3>>
MCCategory == [f \in {f1, f2, f3} |-> IF f = f3 THEN "image" ELSE "report"]
MCSearches == {{f1, f2, f3}, {f1}}

-----------------------------------------------------------------------------
(* Answers: one or two blocks, each whole, a block and prose, or a block    *)
(* and another that is cut short.                                          *)

Whole(word, body) == <<Fence(word), LineEnd>> \o body \o <<CloseFence>>
JsonPlan == Whole("json", <<Tok("head"), Tok("tail")>>)
Blocks == {Whole("runsplash", <<NameLine("a"), Code>>),
           Whole("runsplash", <<NameLine("b"), NetCode>>),
           Whole("runplan", <<Tok("head"), Tok("tail")>>),
           Whole("runplan", <<Tok("other")>>)}
MCDrafts == {b \o c : b \in Blocks \cup {JsonPlan}, c \in Blocks \cup {<<Tok("text")>>}}
            \cup {b \o SubSeq(c, 1, 3) : b, c \in {x \in Blocks : Len(x) = 5}}
            \cup {Whole("runhtml", <<NameLine("a"), Code>>)}

-----------------------------------------------------------------------------
(* Bodies: two embeds of one card, a bounded counter beside an embed, a    *)
(* counter without a key and an unknown embed, an embed in an embed; and   *)
(* the shapes of a root with a photo in it.                                *)

Bounded == [step |-> 1, dfl |-> 1, min |-> 0, max |-> 2]
MCRegistry ==
    [navigate |->
       <<Prop("dest"), Prop("mode"), StateRead("view", 0), Button("set", <<"view">>, 3, NoKnobs),
         Button("set", <<"view">>, 2, NoKnobs), Emit("end", Unset)>>,
     trip |->
       <<StateRead("leg", 0), Button("inc", <<"leg">>, Unset, NoKnobs),
         Embed("navigate", [dest |-> Prop("place"), mode |-> StateRead("leg", 0)],
               [end |-> [key |-> <<"leg">>, val |-> 0]])>>]
Nav(key) == Embed("navigate", [dest |-> StateRead("dest", 0)], [end |-> [key |-> <<key>>, val |-> Unset]])
MCParts ==
    { <<Nav("x"), Nav("y"), StateRead("x", 0), StateRead("view", 0)>>,
      <<StateRead("zoom", 1), Button("inc", <<"zoom">>, Unset, Bounded),
        Button("dec", <<"zoom">>, Unset, Bounded), Button("set", <<"dest">>, 1, NoKnobs), Nav("z")>>,
      <<StateRead("count", 0), Button("inc", <<>>, Unset, NoKnobs), Button("reset", <<>>, Unset, NoKnobs),
        Embed("nosuch", <<>>, <<>>)>>,
      <<Embed("trip", [place |-> StateRead("dest", 0)], <<>>), StateRead("leg", 0),
        Button("set", <<"dest">>, 1, NoKnobs)>> }
Child(image, h) == [image |-> image, h |-> h, crop |-> FALSE]
Shapes == {[root |-> r, early |-> e, kids |-> <<Child(TRUE, Fill), Child(FALSE, h)>>] :
             r \in {Fit, Fill, 700, 1500}, e \in BOOLEAN, h \in {Fill, 40, 920}}
MCBodies == {[parts |-> p, geometry |-> [root |-> Fit, early |-> TRUE, kids |-> <<>>]] : p \in MCParts}
            \cup {[parts |-> <<>>, geometry |-> g] : g \in Shapes}
Empty == [parts |-> <<>>, geometry |-> [root |-> Fit, early |-> TRUE,
                                        kids |-> <<Child(TRUE, Fill), Child(FALSE, 40)>>]]

-----------------------------------------------------------------------------
(* Plans of one section, with every kind of block and argument.            *)

NoArgs == [count |-> NoValue, names |-> <<>>, ticker |-> "", range |-> NoValue,
           title |-> NoValue, label |-> NoValue]
Sect(block, args) == [block |-> block, args |-> args]
PlanOf(kind, where, photo, zh, section) ==
    [kind |-> kind, place |-> where, photo |-> photo, zh |-> zh, unknownField |-> FALSE,
     sections |-> <<section>>]
Counts == {NoValue, 0, 9, 30}
WeatherSects ==
    {Sect(b, NoArgs) : b \in {"CurrentConditions", "AirQualityField", "SunMoon", "Nonsense"}}
    \cup {Sect("Forecast", [NoArgs EXCEPT !.count = n]) : n \in Counts}
    \cup {Sect(b, [NoArgs EXCEPT !.names = t]) :
            b \in {"Details", "Attractions"}, t \in {<<>>, <<"aqi", "pressure">>, <<"wind", "moon">>}}
NewsSects ==
    {Sect("LeadStory", NoArgs)}
    \cup {Sect(b, [NoArgs EXCEPT !.count = n, !.title = t, !.label = l]) : b \in {"Masthead", "StoryFeed"},
            n \in {NoValue, 0, 30}, t \in {NoValue, "", "News today", CallLike}, l \in {NoValue, CallLike}}
StockSects ==
    {Sect("MoversList", [NoArgs EXCEPT !.count = n, !.names = u]) :
        n \in Counts, u \in {<<>>, <<"AAPL", "NVDA">>, <<"BRK-B">>}}
    \cup {Sect(b, [NoArgs EXCEPT !.ticker = t, !.range = r]) : b \in {"QuoteHeader", "PriceChart"},
            t \in {"", "AAPL", "BRK-B"}, r \in {NoValue, "5d", "2w"}}
    \cup {Sect("StatGrid", [NoArgs EXCEPT !.ticker = "AAPL", !.names = t]) :
            t \in {<<>>, <<"price", "open">>, <<"beta">>}}
MCPlans ==
    {PlanOf("weather", p, ph, z, s) :
        p \in {"", "Kyoto"}, ph \in {NoValue, "a bridge"}, z \in BOOLEAN, s \in WeatherSects}
    \cup {PlanOf("news", "", NoValue, z, s) : z \in BOOLEAN, s \in NewsSects}
    \cup {PlanOf("stock", "", NoValue, FALSE, s) : s \in StockSects}

-----------------------------------------------------------------------------
(* Two forecasts, a walk of the calendar over a leap year, small trees.    *)

MCForecasts == << [code |-> 61, lo |-> <<-3, 2>>, hi |-> <<5, 9>>, date |-> <<2024, 2, 29>>],
                  [code |-> 0, lo |-> <<4, 1>>, hi |-> <<15, 11>>, date |-> <<2024, 3, 1>>] >>
MCSymbols == <<"AAPL">>
MCFirst == <<2000, 2, 27>>
MCLast == <<2001, 3, 2>>
Leaves == {[kind |-> k, attr |-> a, kids |-> <<>>] : k \in {"none", "text"}, a \in {1, 2}}
Boxes(S, n) == {[kind |-> k, attr |-> 0, kids |-> q] : k \in {"none", "col"}, q \in SeqOf(S, n)}
MCTrees == Boxes(Leaves \cup Boxes(Leaves, 1), 2)
Bare == [kind |-> "none", attr |-> 0, kids |-> <<>>]

-----------------------------------------------------------------------------
VARIABLE part

cardParts == <<drawnVars, tree>>
appVars == <<lightVars, paneVars, cardParts, part>>

\* The choices a part makes at its start are only made where it is exercised.
Init ==
    /\ part \in {"work", "dock", "notices", "list", "approvals", "signin", "llm", "views",
                 "text", "body", "plan", "native", "calendar", "tree"}
    /\ PartsInit
    /\ (part # "body" => \A item \in Items : bodies[item] = Empty)
    /\ (part # "signin" => config = NoProfile /\ solo = NoProfile)
    /\ (part # "llm" => kernel = Blank("absent", FALSE))
    /\ BufferInit /\ (part # "tree" => tree = Bare)

-----------------------------------------------------------------------------
Opened == \E s \in Sessions : SessionOpened(s)

\* Notifications while lists arrive ...
Work ==
    /\ \/ (Opened \/ FoldTurn \/ FoldTool \/ FoldTask \/ Missed) /\ UNCHANGED listVars
       \/ ServeList \/ Hydrated
    /\ UNCHANGED expanded

\* ... and, none being missed, while the dock is toggled.
Dock ==
    \/ /\ Opened \/ FoldTurn \/ FoldTool \/ FoldTask \/ FoldProgress
       /\ UNCHANGED <<listVars, expanded>>
    \/ ToggleDock /\ UNCHANGED <<storeVars, listVars>>

Notices ==
    /\ Announced \/ ShowToast \/ DismissToast \/ \E to \in Links \ {"Idle"} : FoldConnection(to)
    /\ UNCHANGED <<listVars, expanded>>

\* The whole session list while turns go on.
List ==
    /\ \/ SessionListNext
       \/ FoldTurn /\ UNCHANGED listVars
       \/ \E target \in {"Home", "Content"} : NavigateTo(target) /\ UNCHANGED listVars
    /\ UNCHANGED expanded

StoreParts ==
    /\ \/ part = "work" /\ Work
       \/ part = "dock" /\ Dock
       \/ part = "notices" /\ Notices
       \/ part = "list" /\ List
    /\ UNCHANGED <<paneVars, cardParts>>

SignIn == Boots \/ SignOut \/ Threads \/ Handlers

Panes ==
    /\ \/ part = "approvals" /\ ApprovalsNext /\ UNCHANGED <<loginVars, viewVars>>
       \/ part = "signin" /\ SignIn /\ UNCHANGED <<apprVars, viewVars>>
       \/ part = "llm" /\ ProvisionsLlm /\ UNCHANGED <<apprVars, viewVars>>
       \/ part = "views" /\ ViewsNext /\ UNCHANGED <<apprVars, loginVars>>
    /\ UNCHANGED <<lightVars, cardParts>>

\* The tree part only evaluates the trees of its initial states.
CardSteps ==
    /\ \/ part = "text" /\ TextNext /\ UNCHANGED <<bodyVars, planVars, nativeVars>>
       \/ part = "body" /\ BodyNext /\ UNCHANGED <<textVars, planVars, nativeVars>>
       \/ part = "plan" /\ PlanNext /\ UNCHANGED <<textVars, bodyVars, nativeVars>>
       \/ part = "native" /\ CardNext /\ UNCHANGED <<date, textVars, bodyVars, planVars>>
       \/ part = "calendar" /\ DayPasses /\ UNCHANGED <<cardReads, textVars, bodyVars, planVars>>
    /\ UNCHANGED <<lightVars, paneVars, tree>>

Next == (StoreParts \/ Panes \/ CardSteps) /\ UNCHANGED part

Spec == Init /\ [][Next]_appVars

(* The two computations a native card rests on give what they stand for,   *)
(* on every day and every tree of the instance.                            *)
AlgorithmsAgree == CalendarAgrees /\ []TreeSurvives
=============================================================================

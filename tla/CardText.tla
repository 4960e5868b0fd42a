------------------------------ MODULE CardText ------------------------------
(***************************************************************************)
(* From the text of an answer to cards: the fences of main.rs              *)
(* (card_splash_body and its helpers, the streaming and the completed      *)
(* display, the card archive).                                             *)
(*                                                                         *)
(* An answer is a sequence of tokens.  A fence is any three backquotes     *)
(* with the word after them; "nl" ends the line of an opening fence.  In a *)
(* block, "name" is the name directive, "code" and "net" are widget code   *)
(* without and with the low-level net API, "head" and "tail" the halves of *)
(* a plan that lowers, "other" JSON that does not.  A closing fence may be *)
(* missing at the end only, as when the answer is cut short.               *)
(*                                                                         *)
(* MaxTurns bounds the turns, MaxLost the deltas lost in transit.          *)
(***************************************************************************)
EXTENDS Naturals, Sequences, FiniteSets, SequencesExt

CONSTANTS Drafts,     \* what the model may answer: token sequences
          PlanName,    \* the name of a card lowered from a plan
          MaxTurns, MaxLost

Fence(word) == [k |-> "fence", v |-> word]
Tok(kind) == [k |-> kind, v |-> ""]
NameLine(n) == [k |-> "name", v |-> n]
IsFence(tok) == tok.k = "fence"
OpensWith(words) == {Fence(w) : w \in words}
SplashFence == Fence("runsplash")
PlanFence == Fence("runplan")
CloseFence == Fence("")
LineEnd == Tok("nl")
Code == Tok("code")
NetCode == Tok("net")
LiveFences == {SplashFence, PlanFence}

\* The block that opens at i ends at c.
Spans(t, i, c) ==
    /\ c \in i + 2 .. Len(t) /\ t[i + 1] = LineEnd /\ t[c] = CloseFence
    /\ \A j \in i + 1 .. c - 1 : ~IsFence(t[j])

\* A live block has a line of its own to open and a bare fence to close it;
\* one that is cut short is the last.
Paired(t) ==
    \A i \in DOMAIN t : t[i] \in LiveFences =>
      /\ i < Len(t) => t[i + 1] = LineEnd
      /\ \/ \E c \in DOMAIN t : Spans(t, i, c)
         \/ \A j \in i + 1 .. Len(t) : ~IsFence(t[j])

ASSUME DraftsAssumption == \A d \in Drafts : d \in Seq(ToSet(d)) /\ Paired(d)

VARIABLES
    answer,    \* the tokens of the turn the model has yet to send
    durable,   \* the answer as the kernel stored it so far
    phase,     \* none, turn, or repair: the turn in flight
    turn,      \* its number
    streamed,  \* streaming_text
    message,   \* the last message of CHAT_DATA an answer became
    saved,     \* saved_stream_cards: [substrate, name]
    archive,   \* the directory a2app_cards: file -> the last body written, with its turn
    index,     \* index.jsonl: the lines appended
    attempted, \* repair_attempted
    lost       \* deltas lost so far

textVars == <<answer, durable, phase, turn, streamed, message, saved, archive,
              index, attempted, lost>>

-----------------------------------------------------------------------------
(* Fences.  A position of 0 is None.                                       *)

First(t, from, S) == LET hits == {i \in from .. Len(t) : t[i] \in S} IN
                     IF hits = {} THEN 0 ELSE CHOOSE i \in hits : \A j \in hits : i <= j
Last1(t, S) == LET hits == {i \in DOMAIN t : t[i] \in S} IN
               IF hits = {} THEN 0 ELSE CHOOSE i \in hits : \A j \in hits : j <= i
AnyFence(t) == {t[i] : i \in {j \in DOMAIN t : IsFence(t[j])}}
Closes(t, from) == First(t, from, AnyFence(t))

\* The block an opening fence at i begins: from its line's end to the next
\* fence; close is 0 when there is none.
Block(t, i) ==
    LET nl == First(t, i + 1, {LineEnd})
        close == IF nl = 0 THEN 0 ELSE Closes(t, nl + 1)
    IN [nl |-> nl, close |-> close,
        body |-> IF nl = 0 THEN <<>> ELSE SubSeq(t, nl + 1, IF close = 0 THEN Len(t) ELSE close - 1)]

NoBody == <<Tok("none")>>

\* fenced_body: the body of the first block the fence opens.
FencedBody(t, words) ==
    LET i == First(t, 1, IF words = {""} THEN AnyFence(t) ELSE OpensWith(words)) IN
    IF i = 0 \/ Block(t, i).close = 0 THEN NoBody ELSE Block(t, i).body

\* A plan as lower_plan sees it.
IsJson(body) == body \in {<<Tok("head"), Tok("tail")>>, <<Tok("other")>>}
Lowers(body) == body = <<Tok("head"), Tok("tail")>>
LoweredPlan == <<NameLine(PlanName), Code>>
ErrorCard == <<Code>>

\* extract_runplan_body: a runplan block, or any other block that lowers.
PlanBody(t) ==
    IF FencedBody(t, {"runplan"}) # NoBody THEN FencedBody(t, {"runplan"})
    ELSE IF Lowers(FencedBody(t, {"json"})) THEN FencedBody(t, {"json"})
    ELSE IF Lowers(FencedBody(t, {""})) THEN FencedBody(t, {""})
    ELSE NoBody

\* card_splash_body: the first runsplash block, or a plan's card.
SplashBody(t) ==
    LET splash == FencedBody(t, {"runsplash"})
        plan == PlanBody(t)
    IN IF splash # NoBody THEN splash
       ELSE IF plan = NoBody \/ ~IsJson(plan) THEN NoBody
       ELSE IF Lowers(plan) THEN LoweredPlan ELSE ErrorCard

HtmlBody(t) == FencedBody(t, {"runhtml"})

\* extract_card_name, extract_html_card_name: a directive above any code.
NameOf(body) ==
    LET n == SelectSeq(body, LAMBDA tok : tok.k = "name") IN
    IF n = <<>> \/ Head(body).k # "name" THEN "" ELSE Head(n).v

\* Where the next runsplash block of t opens when n tokens are left to read.
NextCard(t, n) == First(t, Len(t) - n + 1, OpensWith({"runsplash"}))

\* extract_all_runsplash_bodies, of the last n tokens
BodiesOf(t) ==
    LET bodies[n \in 0 .. Len(t)] ==
          LET i == NextCard(t, n)
              b == Block(t, i)
          IN IF i = 0 \/ b.close = 0 THEN {} ELSE {b.body} \cup bodies[Len(t) - b.close]
    IN bodies
AllBodies(t) == BodiesOf(t)[Len(t)]

\* runsplash_body_forbidden, on what normalize_splash_for_scan leaves.
Forbidden(body) == Contains(body, NetCode)
Barred(t) == \E body \in AllBodies(t) : Forbidden(body)

-----------------------------------------------------------------------------
(* The display.                                                            *)

Building == Tok("building")
Notice == Tok("notice")

\* Mutant: the first open fence instead of the last.
DeferFirst(t, word) ==
    LET i == First(t, 1, OpensWith({word})) IN
    IF i = 0 \/ Block(t, i).close # 0 THEN t ELSE Append(SubSeq(t, 1, i - 1), Building)

\* defer_unclosed_runsplash, defer_unclosed_runplan
Deferred(t, word) ==
    LET i == Last1(t, OpensWith({word})) IN
    IF i = 0 \/ Block(t, i).close # 0 THEN t ELSE Append(SubSeq(t, 1, i - 1), Building)

\* materialize_runplan_for_display: the first plan, where it lowers.
Materialized(t) ==
    LET i == First(t, 1, OpensWith({"runplan"}))
        b == Block(t, i)
    IN IF i = 0 \/ b.close = 0 \/ ~Lowers(b.body) THEN t
       ELSE SubSeq(t, 1, i - 1) \o <<SplashFence, LineEnd>> \o LoweredPlan
              \o SubSeq(t, b.close, Len(t))

\* neutralize_forbidden_cards: every closed block.
NeutralOf(t) ==
    LET neutral[n \in 0 .. Len(t)] ==
          LET from == Len(t) - n + 1
              i == NextCard(t, n)
              b == Block(t, i)
          IN IF i = 0 \/ b.close = 0 THEN SubSeq(t, from, Len(t))
             ELSE (IF Forbidden(b.body) THEN Append(SubSeq(t, from, i - 1), Notice)
                                        ELSE SubSeq(t, from, b.close))
                    \o neutral[Len(t) - b.close]
    IN neutral
Neutralized(t) == NeutralOf(t)[Len(t)]

\* resolve_a2app_card: without a runsplash block, a plan's card takes the
\* place of the whole message.  (Its work within a block is CardBody's.)
Resolved(t) ==
    IF First(t, 1, OpensWith({"runsplash"})) # 0 \/ SplashBody(t) = NoBody THEN t
    ELSE <<SplashFence, LineEnd>> \o SplashBody(t) \o <<CloseFence>>

\* The draw of the answer under way, and of a message, which
\* refresh_a2app_templates repeats.
StreamShown(t) == Resolved(Neutralized(Deferred(Materialized(Deferred(t, "runplan")), "runsplash")))
MessageShown(t) == Resolved(Materialized(t))

\* Mutant: the plan is lowered, what is blocked stays in.
StoredPlain(t) == Materialized(t)

\* The text a completed turn is stored under.
StoredText(t) == Neutralized(Materialized(t))

-----------------------------------------------------------------------------
(* The archive.                                                            *)

Card(substrate, body) == [substrate |-> substrate, name |-> NameOf(body), body |-> body]

SplashCard(t) == IF SplashBody(t) = NoBody \/ Barred(t) THEN {} ELSE {Card("runsplash", SplashBody(t))}
HtmlCard(t) == IF HtmlBody(t) = NoBody THEN {} ELSE {Card("runhtml", HtmlBody(t))}
CardsOf(t) == {c \in SplashCard(t) \cup HtmlCard(t) : c.name # ""}

File(c) == <<c.substrate, c.name>>

\* save_card_artifact: the body, and a line of the index.
SaveCards(cs) ==
    /\ archive' = [f \in DOMAIN archive \cup {File(c) : c \in cs} |->
                     IF \E c \in cs : File(c) = f
                     THEN [body |-> (CHOOSE c \in cs : File(c) = f).body, turn |-> turn]
                     ELSE archive[f]]
    /\ index' = index \o SetToSeq({<<File(c), turn>> : c \in cs})

\* save_completed_stream_cards: once for each name.
NewCards(t) == {c \in CardsOf(t) : File(c) \notin saved}

SaveStream(t) == SaveCards(NewCards(t)) /\ saved' = saved \cup {File(c) : c \in NewCards(t)}

-----------------------------------------------------------------------------
(* Turns.                                                                  *)

TextInit ==
    /\ answer = <<>> /\ durable = <<>> /\ phase = "none" /\ turn = 0
    /\ streamed = <<>> /\ message = <<>> /\ saved = {} /\ archive = <<>> /\ index = <<>>
    /\ attempted = FALSE /\ lost = 0

Asks(kind) ==
    /\ turn < MaxTurns /\ turn' = turn + 1
    /\ phase' = kind /\ answer' \in Drafts /\ durable' = <<>>

\* submit_prompt: the set of saved cards begins anew.
SubmitText ==
    /\ phase = "none" /\ Asks("turn")
    /\ streamed' = <<>> /\ saved' = {} /\ attempted' = FALSE
    /\ UNCHANGED <<message, archive, index, lost>>

\* TextDelta; a delta may be lost in transit.
AppendDelta ==
    /\ phase # "none" /\ answer # <<>>
    /\ answer' = Tail(answer) /\ durable' = Append(durable, Head(answer))
    /\ \/ streamed' = Append(streamed, Head(answer)) /\ SaveStream(streamed') /\ UNCHANGED lost
       \/ /\ lost < MaxLost /\ lost' = lost + 1
          /\ UNCHANGED <<streamed, saved, archive, index>>
    /\ UNCHANGED <<phase, turn, message, attempted>>

Complains(t) == Barred(t) \/ (PlanBody(t) = NoBody /\ SplashBody(t) # NoBody)

\* TurnComplete: what the kernel stored is preferred.  The lint may complain
\* of a card the model wrote; one repair for each prompt.
CompleteText ==
    /\ phase # "none" /\ answer = <<>>
    /\ \E t \in {durable, streamed} :
         /\ t = durable \/ durable = streamed
         /\ SaveCards(CardsOf(t))
         /\ message' = IF t = <<>> THEN message ELSE StoredText(t)
         /\ \/ phase' = "none" /\ UNCHANGED <<answer, durable, turn, attempted>>
            \/ ~attempted /\ Complains(t) /\ Asks("repair") /\ attempted' = TRUE
    /\ streamed' = <<>>
    /\ UNCHANGED <<saved, lost>>

\* cancel_request, or a turn that stalled and was cancelled: what came is
\* kept as it is.
CancelText ==
    /\ phase # "none" /\ phase' = "none"
    /\ message' = IF streamed = <<>> THEN message ELSE streamed
    /\ streamed' = <<>> /\ answer' = <<>>
    /\ UNCHANGED <<durable, turn, saved, archive, index, attempted, lost>>

TextNext == SubmitText \/ AppendDelta \/ CompleteText \/ CancelText

TextSpec == TextInit /\ [][TextNext]_textVars

-----------------------------------------------------------------------------

BlocksClosed(t) == \A i \in DOMAIN t : t[i] \in LiveFences => Block(t, i).close # 0

\* At no point of a stream does a half-written card reach the renderer, or the
\* source of a plan that is not finished the screen, whichever blocks came
\* before, unless the delta with a closing fence was lost
\* (defer_unclosed_runsplash, defer_unclosed_runplan).
WholeCardsOnly == lost = 0 => BlocksClosed(StreamShown(streamed))

\* A finished card with the low-level API is drawn neither while the answer
\* streams nor from a completed turn's message (neutralize_forbidden_cards,
\* "EVERY forbidden block").
BlockedStaysOut ==
    \A body \in AllBodies(StreamShown(streamed)) : ~Forbidden(body)

\* Only whole cards, and only cards that may run, are on the screen.
ScreenIsClean == WholeCardsOnly /\ BlockedStaysOut

PlansIn(t) == Cardinality({i \in DOMAIN t : t[i] = PlanFence})

\* The message a turn leaves shows what the stream showed last: nothing
\* flickers or changes when the turn completes, unless a delta was lost, the
\* answer was cut short in a block or it holds two plans.
CompletionKeepsTheScreen ==
    [][CompleteText /\ durable = streamed /\ streamed # <<>>
         /\ BlocksClosed(streamed) /\ PlansIn(streamed) < 2
         => MessageShown(message') = StreamShown(streamed)]_textVars

=============================================================================

------------------------------ MODULE L0Cards ------------------------------
(***************************************************************************)
(* Live cards (app/l0_card.rs, app/user_store.rs, ChatList of main.rs).    *)
(*                                                                         *)
(* A message holds a card's ledger.  Drawing it realizes the ledger        *)
(* against the session of the message's index -- its cells, its captured   *)
(* values -- against the user's durable list and against what the sources  *)
(* have fetched; a cache suppresses the work while nothing changed.  Taps  *)
(* and gestures write cells or the list.  A fetch lands on another thread  *)
(* at any time, in the middle of a draw too; the process may be killed     *)
(* between the system calls of a save.                                     *)
(*                                                                         *)
(* A source's value is the number of fetches that have landed, 0 while the *)
(* first is in flight; a card's cells are the number of taps they took.    *)
(***************************************************************************)
EXTENDS Integers, Sequences, SequencesExt, Retained

CONSTANTS Ledgers,      \* ledgers of generated cards
          RefusedCards,      \* those the checker refuses: drawn as an empty surface
          Refs,         \* references a durable list can hold
          NoCard,       \* no session, no ledger
          MaxLands,     \* bound: fetches that land
          MaxTaps,      \* bound: taps and gestures
          MaxMessages,  \* bound: messages of one conversation
          MaxSwitches   \* bound: changes of app, wipes

ASSUME L0CardsAssumption ==
    /\ NoCard \notin Ledgers /\ RefusedCards \subseteq Ledgers
    /\ {MaxLands, MaxTaps, MaxMessages, MaxSwitches} \subseteq Nat

VARIABLES chat,      \* the messages of the foreground app, and of the other one
          sessions,  \* SESSIONS: message index -> live card
          landed,    \* the data fetch epoch: what the sources answer now
          observed,  \* SOURCE_STATES: did a ledger's source answer when last asked
          list,      \* ChatList: render cache, the drawn card, timers
          draft,     \* the draw under way
          store,     \* user.json: in memory, on disk, in the VM, the temp file
          reader,    \* the reader overlay: its page, and whether it is placed
          spent      \* bounds

cardVars == <<chat, sessions, landed, observed, list, draft, store, reader, spent>>

None == [on |-> FALSE]
Prose == [kind |-> "prose", card |-> NoCard]
Ledger(c) == [kind |-> "ledger", card |-> c]
Lowered(c) == [kind |-> "lowered", card |-> c]

Fresh(c) == [card |-> c, cells |-> 0, origin |-> 0]
Session(i) == IF i \in DOMAIN sessions THEN sessions[i] ELSE Fresh(NoCard)

(* The sessions once the one of message i is s. *)
With(i, s) == [j \in DOMAIN sessions \cup {i} |-> IF j = i THEN s ELSE sessions[j]]

Begin(i, c) == sessions' = With(i, Fresh(c))

Newest == Len(chat.fg)

(* What a card shows: its cells, the origin it captured, the rows of the   *)
(* durable list, the values of its source, and the source's $state.        *)
CardsInit ==
    /\ chat = [fg |-> <<>>, bg |-> <<>>]
    /\ sessions = <<>>
    /\ landed = 0
    /\ observed = [c \in Ledgers |-> "pending"]
    /\ list = [cache |-> None, bumped |-> FALSE, seen |-> 0, typing |-> FALSE,
               dirty |-> FALSE, shown |-> None]
    /\ draft = None
    /\ store = [mem |-> <<>>, disk |-> <<>>, vm |-> <<>>, step |-> "idle", failed |-> FALSE]
    /\ reader = [url |-> FALSE, placed |-> TRUE]
    /\ spent = [taps |-> 0, switches |-> 0]

Idle == draft = None /\ store.step = "idle"
Tapped == [spent EXCEPT !.taps = @ + 1]
Switched == [spent EXCEPT !.switches = @ + 1]

(* CHAT_GENERATION moves: the next draw drops the cache. *)
Bumped == [list EXCEPT !.bumped = TRUE, !.dirty = TRUE]

(***************************************************************************)
(* The conversation, as far as the cards see it.                           *)
(***************************************************************************)
Arrives(m) ==
    /\ Idle
    /\ Newest < MaxMessages
    /\ chat' = [chat EXCEPT !.fg = Append(@, m)]
    /\ list' = Bumped
    /\ UNCHANGED <<landed, observed, draft, store, reader, spent>>

MessageArrives(m) == Arrives(m) /\ UNCHANGED sessions

(* A card seeded at start or by the development loop gets its session with *)
(* its message.                                                            *)
CardSeeded(c) == Arrives(Ledger(c)) /\ Begin(Newest + 1, c)

Switch ==
    /\ Idle
    /\ spent.switches < MaxSwitches
    /\ chat' = [fg |-> chat.bg, bg |-> chat.fg]
    /\ list' = Bumped
    /\ spent' = Switched
    /\ UNCHANGED <<sessions, landed, observed, draft, store, reader>>

Wipe ==
    /\ Idle
    /\ spent.switches < MaxSwitches
    /\ chat' = [chat EXCEPT !.fg = <<>>]
    /\ list' = Bumped
    /\ spent' = Switched
    /\ UNCHANGED <<sessions, landed, observed, draft, store, reader>>

(***************************************************************************)
(* Drawing.  Begun with the key of the cache; the rows, the guards and the *)
(* $state are read first, the values the kit lowers to are read last.      *)
(***************************************************************************)
Status(e) == IF e = 0 THEN "pending" ELSE "ready"

\* Mutant: a resolve always starts afresh.
ExistingRaw(i, c) == FALSE

(* The session a resolve works on: the one of this index, if it is this    *)
(* ledger's -- a resolve is not a reset -- and otherwise a fresh one.      *)
Existing(i, c) == Session(i).card = c

Key(i, e) == [on |-> TRUE, item |-> i, msg |-> chat.fg[i], epoch |-> e]

(* Nothing the card depends on has changed; while a keystroke's rebuild is *)
(* awaited, a landed fetch is no change.                                   *)
Cached(c, i) == c.on /\ c = Key(i, IF list.typing THEN c.epoch ELSE landed)

DrawStarts ==
    LET i == Newest
        msg == chat.fg[i]
        held == IF list.bumped THEN None ELSE list.cache
        kept == [list EXCEPT !.bumped = FALSE, !.dirty = FALSE, !.cache = held] IN
    /\ Idle
    /\ list.dirty
    /\ \/ i = 0 /\ list' = [kept EXCEPT !.shown = None] /\ UNCHANGED draft
       \/ i > 0 /\ Cached(held, i) /\ list' = kept /\ UNCHANGED draft
       \/ /\ i > 0 /\ ~Cached(held, i) /\ (msg.kind # "ledger" \/ msg.card \in RefusedCards)
          /\ list' = [kept EXCEPT !.cache = Key(i, landed), !.shown = None]
          /\ UNCHANGED draft
       \/ /\ i > 0 /\ ~Cached(held, i) /\ msg.kind = "ledger" /\ msg.card \notin RefusedCards
          /\ list' = kept
          /\ LET old == Existing(i, msg.card)
                 s == IF old THEN Session(i) ELSE Fresh(msg.card) IN
             draft' = [on |-> TRUE, item |-> i, card |-> msg.card, new |-> ~old,
                       cells |-> s.cells, rows |-> store.mem, guard |-> landed,
                       status |-> observed[msg.card],
                       origin |-> IF s.origin = 0 THEN landed ELSE s.origin]
    /\ UNCHANGED <<chat, sessions, landed, observed, store, reader, spent>>

(* What the realization captured is written into the session, where there  *)
(* is one, and only into a cell that does not exist; a new card's session  *)
(* begins after that.                                                      *)
Captured(s, v) == IF s.origin = 0 THEN [s EXCEPT !.origin = v] ELSE s

DrawEnds ==
    LET d == draft IN
    /\ d.on
    /\ observed' = [observed EXCEPT ![d.card] = Status(landed)]
    /\ IF d.new THEN Begin(d.item, d.card)
                ELSE sessions' = With(d.item, Captured(Session(d.item), d.origin))
    /\ list' = [list EXCEPT !.cache = Key(d.item, landed),
                            !.shown = [on |-> TRUE, item |-> d.item, card |-> d.card,
                                       cells |-> d.cells, rows |-> d.rows, fields |-> store.vm,
                                       guard |-> d.guard, tile |-> landed,
                                       status |-> d.status, origin |-> d.origin]]
    /\ draft' = None
    /\ UNCHANGED <<chat, landed, store, reader, spent>>

FetchLands ==
    /\ landed < MaxLands
    /\ landed' = landed + 1
    /\ UNCHANGED <<chat, sessions, observed, list, draft, store, reader, spent>>

\* Mutant: the list is drawn again from the cache.
PolledOnly == [list EXCEPT !.seen = landed, !.dirty = TRUE]

(* The list is drawn on demand: once a second it asks whether a fetch has  *)
(* landed since it asked last, drops the cache and has itself drawn.       *)
Polled == [list EXCEPT !.seen = landed, !.dirty = TRUE, !.cache = None]

EpochPoll ==
    /\ Idle
    /\ list.seen # landed
    /\ list' = Polled
    /\ UNCHANGED <<chat, sessions, landed, observed, draft, store, reader, spent>>

(* Something else -- a scroll, an animation -- has the list drawn. *)
Redraw ==
    /\ Idle
    /\ ~list.dirty
    /\ list' = [list EXCEPT !.dirty = TRUE]
    /\ UNCHANGED <<chat, sessions, landed, observed, draft, store, reader, spent>>

(***************************************************************************)
(* Taps.  A keystroke's redraw waits for a timer.                          *)
(***************************************************************************)
(* Rewritten: any message that holds no ledger becomes the lowered card.   *)
Lowering(i, c) ==
    IF i <= Newest /\ chat.fg[i].kind # "ledger"
      THEN [chat EXCEPT !.fg[i] = Lowered(c)] ELSE chat

Moves(i) == With(i, [Session(i) EXCEPT !.cells = @ + 1])

TapNow(i) == chat' = Lowering(i, Session(i).card) /\ list' = Bumped

TapCard ==
    /\ Idle /\ list.shown.on
    /\ spent.taps < MaxTaps
    /\ list.shown.item \in DOMAIN sessions
    /\ sessions' = Moves(list.shown.item)
    /\ \/ TapNow(list.shown.item)
       \/ chat' = chat /\ list' = [list EXCEPT !.typing = TRUE]
    /\ spent' = Tapped
    /\ UNCHANGED <<landed, observed, draft, store, reader>>

TypingEnds ==
    /\ Idle /\ list.typing
    /\ list' = [Bumped EXCEPT !.typing = FALSE]
    /\ UNCHANGED <<chat, sessions, landed, observed, draft, store, reader, spent>>

(* A system gesture goes to the card with the greatest index. *)
Latest == CHOOSE i \in DOMAIN sessions : \A j \in DOMAIN sessions : j <= i

Gesture ==
    /\ Idle /\ ~reader.url
    /\ spent.taps < MaxTaps
    /\ DOMAIN sessions # {}
    /\ sessions' = Moves(Latest)
    /\ TapNow(Latest)
    /\ spent' = Tapped
    /\ UNCHANGED <<landed, observed, draft, store, reader>>

(***************************************************************************)
(* Durable writes: the list in memory, the file through a temporary one    *)
(* and a rename, the VM's copy, and then the card's redraw.                *)
(***************************************************************************)
Added(r) == IF Contains(store.mem, r) THEN store.mem ELSE Append(store.mem, r)
Removed(r) == Retain(store.mem, Refs \ {r})

Apply(new) ==
    IF new = store.mem THEN [store EXCEPT !.vm = store.mem]
    ELSE [store EXCEPT !.mem = new, !.step = "create"]

ListTap(r) ==
    /\ Idle /\ list.shown.on
    /\ spent.taps < MaxTaps
    /\ list.shown.item \in DOMAIN sessions
    /\ \E new \in {Added(r), Removed(r)} : store' = Apply(new)
    /\ sessions' = Moves(list.shown.item)
    /\ TapNow(list.shown.item)
    /\ spent' = Tapped
    /\ UNCHANGED <<landed, observed, draft, reader>>

Step(from, to) == store.step = from /\ store' = [store EXCEPT !.step = to]

\* Mutant: the list itself is opened for writing.
CreateInPlace == store.step = "create" /\ store' = [store EXCEPT !.step = "write", !.disk = <<"torn">>]

CreateTemp == Step("create", "write")
WriteAndSync == Step("write", "rename")
RenameInto == /\ store.step = "rename"
              /\ store' = [store EXCEPT !.disk = store.mem, !.step = "publish", !.failed = FALSE]

(* The temporary file goes, the list stays in memory only. *)
SaveFails == /\ store.step \in {"create", "write", "rename"}
             /\ store' = [store EXCEPT !.step = "publish", !.failed = TRUE]

Publish == store.step = "publish" /\ store' = [store EXCEPT !.vm = store.mem, !.step = "idle"]

Save ==
    /\ CreateTemp \/ SaveFails \/ WriteAndSync \/ RenameInto \/ Publish
    /\ UNCHANGED <<chat, sessions, landed, observed, list, draft, reader, spent>>

(* The lists a user can have; a file that does not load is none. *)
Lists == {q \in Seq(Refs) : IsInjective(q)}

(* The process is killed and started again.  The conversation is restored, *)
(* its cards' sessions are not; the list is loaded and published first.    *)
Restart ==
    /\ spent.switches < MaxSwitches
    /\ chat' = [fg |-> chat.fg, bg |-> <<>>]
    /\ sessions' = <<>>
    /\ landed' = 0
    /\ observed' = [c \in Ledgers |-> "pending"]
    /\ list' = [cache |-> None, bumped |-> TRUE, seen |-> 0, typing |-> FALSE,
                dirty |-> TRUE, shown |-> None]
    /\ draft' = None
    /\ LET loaded == IF store.disk \in Lists THEN store.disk ELSE <<>> IN
       store' = [store EXCEPT !.mem = loaded, !.disk = loaded, !.vm = loaded, !.step = "idle",
                                !.failed = FALSE]
    /\ reader' = [url |-> FALSE, placed |-> TRUE]
    /\ spent' = Switched

(***************************************************************************)
(* The reader overlay: a card names a page, the next event places it, back *)
(* closes it.                                                              *)
(***************************************************************************)
LinkTap(open) ==
    /\ Idle /\ list.shown.on
    /\ spent.taps < MaxTaps
    /\ reader' = [url |-> open, placed |-> ~open]
    /\ list' = Bumped
    /\ spent' = Tapped
    /\ UNCHANGED <<chat, sessions, landed, observed, draft, store>>

Place ==
    /\ Idle /\ reader.url /\ ~reader.placed
    /\ reader' = [reader EXCEPT !.placed = TRUE]
    /\ UNCHANGED <<chat, sessions, landed, observed, list, draft, store, spent>>

Back ==
    /\ Idle /\ reader.url
    /\ reader' = [reader EXCEPT !.url = FALSE]
    /\ UNCHANGED <<chat, sessions, landed, observed, list, draft, store, spent>>

CardsNext ==
    \/ \E c \in Ledgers : MessageArrives(Ledger(c)) \/ CardSeeded(c)
    \/ MessageArrives(Prose)
    \/ Switch \/ Wipe \/ Restart
    \/ DrawStarts \/ DrawEnds \/ FetchLands \/ EpochPoll \/ Redraw
    \/ TapCard \/ TypingEnds \/ Gesture
    \/ \E r \in Refs : ListTap(r)
    \/ Save
    \/ \E open \in BOOLEAN : LinkTap(open)
    \/ Place \/ Back

-----------------------------------------------------------------------------
(* The types; a reference is on the durable list at most once, for rows    *)
(* are keyed by it (apply, user_store.rs).                                 *)
CardsTypeOK ==
    /\ \A q \in {chat.fg, chat.bg} : Len(q) <= MaxMessages
    /\ \A i \in DOMAIN sessions : sessions[i].card \in Ledgers /\ sessions[i].origin <= MaxLands
    /\ landed \in 0 .. MaxLands
    /\ observed \in [Ledgers -> {"pending", "ready"}]
    /\ {store.mem, store.vm} \subseteq Lists
    /\ store.step \in {"idle", "create", "write", "rename", "publish"}
    /\ reader \in [url : BOOLEAN, placed : BOOLEAN]

(* A resolve is not a reset: no draw, whatever caused it, loses a cell a   *)
(* tap has written into the session of the card it draws (render_ledger).  *)
RedrawKeepsCells ==
    [][\A i \in DOMAIN sessions :
         (draft # draft' /\ i \in DOMAIN sessions' /\ sessions'[i].card = sessions[i].card)
            => sessions'[i].cells = sessions[i].cells]_cardVars

(* A kill at any point of a save leaves a file that loads, and unless the  *)
(* last save failed it holds what the user was shown (save).               *)
ListSurvives ==
    /\ store.disk \in Lists
    /\ (store.step = "idle" /\ ~store.failed) => store.disk = store.mem

(* What has landed, and what was tapped, reaches the screen, also when it  *)
(* lands in the middle of a draw (the epoch poll of ChatList).             *)
Current ==
    LET c == chat.fg[Newest].card
        s == list.shown IN
    (Newest > 0 /\ chat.fg[Newest].kind = "ledger" /\ c \notin RefusedCards) =>
      /\ s.on /\ s.item = Newest /\ s.card = c
      /\ s.tile = landed /\ s.guard = landed
      /\ s.cells = Session(Newest).cells /\ s.rows = store.mem
FetchReachesScreen == []<>Current
=============================================================================

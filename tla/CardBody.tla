------------------------------ MODULE CardBody ------------------------------
(***************************************************************************)
(* What substitute_card_state (main.rs) makes of the body of a runsplash   *)
(* card before the renderer gets it, and what the presses of its buttons   *)
(* do to the card's state (SplashAction::Notify in handle_actions).        *)
(*                                                                         *)
(* A body is its live parts in the order of the text -- state reads,       *)
(* buttons, props, emits, embedded cards -- and its geometry: the height   *)
(* of the root, whether it is written before the first brace, and the      *)
(* heights of what is inside.  A state key is a sequence: its prefixes and *)
(* its name.  A value is a number, as the counters of cards are; 0 is the  *)
(* text of a key without a value.                                          *)
(*                                                                         *)
(* The name line and comments have no part in either and are left out.     *)
(***************************************************************************)
EXTENDS Integers, Sequences, FiniteSets, SequencesExt, Retained

CONSTANTS Bodies,     \* the cards a message can hold
          Registry,   \* embeddable_card: name -> body parts
          Items,      \* message indices
          MaxPresses, \* bounds the presses
          MaxWork     \* bounds the parts and embeds of a composed card

MAX_CARD_EMBED_DEPTH == 4
FULLBLEED_CARD_HEIGHT == 1200
FULLBLEED_FALLBACK_HEIGHT == 1500

VARIABLES bodies,   \* item -> the body of its card
          values,   \* a2app_state: item -> its CardState
          presses

bodyVars == <<bodies, values, presses>>

Unset == -1

\* `author` is the embedded instance whose text a part comes from, 0 the host,
\* Unset before it is known.  It is kept for the properties only.
NoKnobs == [step |-> 1, dfl |-> 0, min |-> Unset, max |-> Unset]
Part(op, key) == [op |-> op, key |-> key, author |-> Unset, dfl |-> 0, ev |-> "", val |-> Unset,
                  knobs |-> NoKnobs, props |-> <<>>, on |-> <<>>]
StateRead(key, dfl) == [Part("read", <<key>>) EXCEPT !.dfl = dfl]
Literal(n) == [Part("literal", <<>>) EXCEPT !.val = n]
Button(ev, key, val, knobs) == [Part("button", key) EXCEPT !.ev = ev, !.val = val, !.knobs = knobs]
Prop(k) == Part("prop", <<k>>)
Emit(event, val) == [Part("emit", <<event>>) EXCEPT !.val = val]
Embed(use, props, on) == [Part("embed", <<use>>) EXCEPT !.props = props, !.on = on]

-----------------------------------------------------------------------------
(* Composition: Card{ use props on }.                                      *)

Each(q, F(_)) == [i \in DOMAIN q |-> F(q[i])]

Authored(p, inst) == [p EXCEPT !.author = IF p.author = Unset THEN inst ELSE p.author]
Signed(p, inst) == [Authored(p, inst) EXCEPT !.props = Each(p.props, LAMBDA x : Authored(x, inst))]

\* namespace_child_state: the reads and the keyed writes of a child, the reads
\* and the handler keys of the cards it embeds.  A write without a key is not
\* touched.
Prefix(inst) == <<"_c", inst>>
Prefixed(key, inst) == IF key = <<>> THEN key ELSE <<Prefix(inst)>> \o key
Renamed(p, inst) == [p EXCEPT !.key = Prefixed(p.key, inst)]
OwnState(p, inst) ==
    CASE p.op \in {"read", "button"} -> Renamed(p, inst)
      [] p.op = "embed" ->
           [p EXCEPT !.props = Each(p.props, LAMBDA x : IF x.op = "read" THEN Renamed(x, inst) ELSE x),
                     !.on = Each(p.on, LAMBDA h : [h EXCEPT !.key = Prefixed(h.key, inst)])]
      [] OTHER -> p

\* Mutant: only the reads are renamed.
ReadsOnly(parts, inst) ==
    Each(parts, LAMBDA p : Signed(IF p.op = "read" THEN Renamed(p, inst) ELSE p, inst))

Namespaced(parts, inst) == Each(parts, LAMBDA p : Signed(OwnState(p, inst), inst))

\* substitute_props: an unbound prop is "0".
Bound(x, props) ==
    IF x.op # "prop" THEN x ELSE IF x.key[1] \in DOMAIN props THEN props[x.key[1]] ELSE Literal(0)
WithProps(parts, e) ==
    Each(parts, LAMBDA p : IF p.op = "embed"
                           THEN [p EXCEPT !.props = Each(p.props, LAMBDA x : Bound(x, e.props))]
                           ELSE Bound(p, e.props))

\* rewrite_child_emits: a `set` of the host's key, or of a key nobody reads.
Handled(p, inst, e) ==
    LET ev == p.key[1]
        h == e.on[ev]
        value == IF h.val # Unset THEN h.val ELSE IF p.val # Unset THEN p.val ELSE 1
    IN IF ev \in DOMAIN e.on THEN Authored(Button("set", h.key, value, NoKnobs), e.author)
       ELSE Authored(Button("set", <<Prefix(inst), "unhandled", ev>>, 1, NoKnobs), inst)
WithEmits(parts, inst, e) == Each(parts, LAMBDA p : IF p.op = "emit" THEN Handled(p, inst, e) ELSE p)

\* Mutant: the props are bound before the namespace is.
BoundFirst(parts, inst, e) == WithEmits(Namespaced(WithProps(parts, e), inst), inst, e)

\* expand_one_card: the child's own state is renamed before the host's wiring
\* comes in.
Wired(parts, inst, e) == WithEmits(WithProps(Namespaced(parts, inst), e), inst, e)

(***************************************************************************)
(* expand_card_embeds with expand_one_card, whose recursion is the work    *)
(* that is left: what an embed expands to comes before the rest of the     *)
(* text.  Instances are numbered across all levels, from 0 in the code and *)
(* from 1 here.                                                            *)
(***************************************************************************)
AtDepth(parts, depth) == Each(parts, LAMBDA p : [part |-> p, depth |-> depth])
Expand(work) ==
    LET p == Head(work.todo).part
        depth == Head(work.todo).depth
        rest == Tail(work.todo)
    IN IF work.todo = <<>> THEN work
       ELSE IF p.op # "embed" \/ depth >= MAX_CARD_EMBED_DEPTH
       THEN [work EXCEPT !.done = Append(work.done, p), !.todo = rest]
       ELSE IF p.key[1] \notin DOMAIN Registry
       THEN [work EXCEPT !.done = Append(work.done, Part("unknown", p.key)), !.todo = rest]
       ELSE [work EXCEPT !.todo = AtDepth(Wired(Registry[p.key[1]], work.next, p), depth + 1) \o rest,
                         !.next = work.next + 1]
Started(parts) ==
    [done |-> <<>>, next |-> 1, todo |-> AtDepth(Each(parts, LAMBDA p : Signed(p, 0)), 0)]
ExpandedBy(parts) ==
    LET f[n \in 0 .. MaxWork] == IF n = 0 THEN Started(parts) ELSE Expand(f[n - 1])
    IN f
Expanded(parts) == ExpandedBy(parts)[MaxWork]
Composed(parts) == Expanded(parts).done

(***************************************************************************)
(* What the text of a card can say: a state key there is one name, a value *)
(* a number, and a prop is bound to a read, a literal or a prop.  Its      *)
(* embeds come to an end, and MaxWork is enough for each body.             *)
(***************************************************************************)
AKey(key) == key = <<Head(key)>>
AText(p) ==
    /\ DOMAIN p = DOMAIN Part("", <<>>) /\ p.author = Unset /\ p.val \in Int /\ p.dfl \in Int
    /\ p.knobs \in [step : Int, dfl : Int, min : Int, max : Int]
    /\ p.op = "read" => AKey(p.key)
    /\ p.op = "button" => p.ev \in {"inc", "dec", "reset", "set"} /\ (p.key # <<>> => AKey(p.key))
AnEmbed(p) ==
    /\ \A k \in DOMAIN p.props : AText(p.props[k]) /\ p.props[k].op \in {"read", "literal", "prop"}
    /\ \A ev \in DOMAIN p.on : DOMAIN p.on[ev] = {"key", "val"} /\ AKey(p.on[ev].key) /\ p.on[ev].val \in Int
ACard(parts) ==
    /\ parts \in Seq(ToSet(parts))
    /\ \A i \in DOMAIN parts : AText(parts[i]) /\ (parts[i].op = "embed" => AnEmbed(parts[i]))
AGeometry(g) ==
    /\ DOMAIN g = {"root", "early", "kids"} /\ g.root \in Int /\ g.kids \in Seq(ToSet(g.kids))
    /\ \A i \in DOMAIN g.kids : g.kids[i] \in [image : BOOLEAN, h : Int, crop : BOOLEAN]

ASSUME CardsAssumption ==
    /\ \A b \in Bodies : ACard(b.parts) /\ AGeometry(b.geometry)
    /\ \A use \in DOMAIN Registry : ACard(Registry[use])
    /\ MaxWork \in Nat /\ \A b \in Bodies : Expanded(b.parts).todo = <<>>

-----------------------------------------------------------------------------
(* Geometry.  Heights are numbers, "Fit" and "Fill" are 0 and -1.          *)

Fit == 0
Fill == -1

\* card_root_height: the first number of at least 700, root or not.
Heights(g) == <<g.root>> \o Each(g.kids, LAMBDA k : k.h)
Explicit(g) == LET big == Retain(Heights(g), {h \in ToSet(Heights(g)) : h >= 700})
               IN IF big = <<>> THEN Unset ELSE Head(big)

\* pin_fullbleed_root_height
Pinned(g) == IF Explicit(g) = Unset /\ g.root = Fill /\ g.early
             THEN [g EXCEPT !.root = FULLBLEED_FALLBACK_HEIGHT] ELSE g

\* force_fullbleed_image_fit, rewrite_image_fit_crop; nothing without an image.
Raised(h) == IF h = 700 THEN FULLBLEED_CARD_HEIGHT ELSE h
Fitted(g) ==
    LET r == [g EXCEPT !.root = Raised(@), !.kids = Each(@, LAMBDA k : [k EXCEPT !.h = Raised(@)])]
        full == IF Explicit(r) = Unset THEN FULLBLEED_CARD_HEIGHT ELSE Explicit(r)
    IN IF \A i \in DOMAIN g.kids : ~g.kids[i].image THEN g
       ELSE [r EXCEPT !.kids = Each(@, LAMBDA k :
               IF k.image /\ k.h = Fill THEN [k EXCEPT !.h = full, !.crop = TRUE] ELSE k)]

\* The root is pinned before the images are fitted.
Geometry(g) == Fitted(Pinned(g))

-----------------------------------------------------------------------------
(* State.                                                                  *)

State(item, key) == IF key \in DOMAIN values[item] THEN values[item][key] ELSE Unset

\* substitute_state_keys
TextOf(item, p) ==
    CASE p.op = "read" -> IF State(item, p.key) = Unset THEN p.dfl ELSE State(item, p.key)
      [] p.op = "literal" -> p.val
      [] OTHER -> 0

\* A message's card as it is drawn, for each body.
Cards == [b \in Bodies |-> Composed(b.parts)]
Drawn(item) == Cards[bodies[item]]

Clamp(n, knobs) ==
    LET low == IF knobs.min = Unset \/ n >= knobs.min THEN n ELSE knobs.min IN
    IF knobs.max = Unset \/ low <= knobs.max THEN low ELSE knobs.max

\* The counter operations; a `set` without a value changes nothing.
Pressed(p, now) ==
    CASE p.ev = "inc" -> Clamp(now + p.knobs.step, p.knobs)
      [] p.ev = "dec" -> Clamp(now - p.knobs.step, p.knobs)
      [] p.ev = "reset" -> p.knobs.dfl
      [] OTHER -> p.val

\* CardState::set
Stored(state, key, value) ==
    [k \in DOMAIN state \cup {key} |-> IF k = key THEN value ELSE state[k]]

KeyOfButton(p) == IF p.key = <<>> THEN <<"count">> ELSE p.key

BodyInit ==
    /\ bodies \in [Items -> Bodies]
    /\ values = [i \in Items |-> <<>>]
    /\ presses = 0

\* A press, tagged with its message (tag_notify_calls), and the redraw of
\* refresh_a2app_templates.
Press(item, i) ==
    LET p == Drawn(item)[i]
        now == IF State(item, KeyOfButton(p)) = Unset THEN p.knobs.dfl ELSE State(item, KeyOfButton(p))
    IN /\ presses < MaxPresses /\ presses' = presses + 1
       /\ p.op = "button"
       /\ values' = IF p.ev = "set" /\ p.val = Unset THEN values
                    ELSE [values EXCEPT ![item] = Stored(@, KeyOfButton(p), Pressed(p, now))]
       /\ UNCHANGED bodies

BodyNext == \E item \in Items : \E i \in DOMAIN Drawn(item) : Press(item, i)

-----------------------------------------------------------------------------

\* A button changes what the card it was written in shows, and that alone: of
\* the host, the cards it embeds, however deep, two embeds of one card, and the
\* cards of other messages, none changes another's text (namespace_child_state,
\* tag_notify_calls).  A write without a key is not the embedded card's own.
PressIsLocal ==
    [][\A item \in Items : \A i \in DOMAIN Drawn(item) :
         LET b == Drawn(item)[i] IN
         Press(item, i) /\ (b.key # <<>> \/ b.author = 0) =>
           \A it \in Items : \A j \in DOMAIN Drawn(it) :
             LET p == Drawn(it)[j] IN
             (it # item \/ p.author # b.author) => TextOf(it, p) = TextOf(it, p)']_values

\* A key of the host's, or one that only instance `author` has.
Scoped(key, author) ==
    IF author = 0 THEN Len(key) = 1 ELSE Len(key) >= 2 /\ key[1] = Prefix(author)

\* What a card binds to a prop reads that card's state, and what it wires to an
\* event writes it, however deep the card it embeds is (expand_one_card, "ORDER
\* MATTERS").
WiringIsTheHosts ==
    \A item \in Items : \A i \in DOMAIN Drawn(item) :
      LET p == Drawn(item)[i] IN
      p.op \in {"read", "button"} /\ p.key # <<>> => Scoped(p.key, p.author)

Steps(item, key) == {p \in ToSet(Drawn(item)) : p.op = "button" /\ KeyOfButton(p) = key}
Clamped(steps, p) ==
    /\ \A q \in steps : q.knobs = p.knobs /\ q.ev # "set"
    /\ p.knobs.min # Unset /\ p.knobs.max # Unset /\ p.knobs.dfl \in p.knobs.min .. p.knobs.max

\* A counter stays within the bounds all its buttons give it, when what `reset`
\* restores is within them.
SteppersStay ==
    \A item \in Items : \A key \in DOMAIN values[item] : \A p \in Steps(item, key) :
      Clamped(Steps(item, key), p) => values[item][key] \in p.knobs.min .. p.knobs.max

\* "so root == image always holds" (force_fullbleed_image_fit): a full-bleed
\* photo is as high as the root that holds it, once nothing else in the card
\* names a height of 700 or more and the root's own is not hidden behind
\* another attribute's braces.
PhotoCoversCard ==
    \A item \in Items :
      LET g == bodies[item].geometry
          out == Geometry(g)
      IN (/\ g.root >= 700 \/ (g.root = Fill /\ g.early)
          /\ \A i \in DOMAIN g.kids : g.kids[i].h < 700) =>
           \A i \in DOMAIN out.kids : g.kids[i].image /\ g.kids[i].h = Fill
              => out.kids[i].h = out.root /\ out.kids[i].crop

\* A composed card is the one its author wrote: its events are the host's, its
\* counters stay bounded, its photo covers it.
ComposedAsWritten == WiringIsTheHosts /\ SteppersStay /\ PhotoCoversCard

=============================================================================

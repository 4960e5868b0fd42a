----------------------------- MODULE CardProofs -----------------------------
(***************************************************************************)
(* Proofs about what becomes of a card: a body with the cards it embeds is *)
(* composed as it was written, and a press stays in its card; the two      *)
(* lowerings of every plan agree; a native card shows one forecast,        *)
(* whatever the services, the fields it reads and the evaluations that     *)
(* overlap; the days of its calendar follow each other.                    *)
(***************************************************************************)
EXTENDS CardText, CardBody, PlanLower, NativeCard, SequenceLemmas, TLAPS

(***************************************************************************)
(* Bodies.  What a text says is written under its instance's keys, signed  *)
(* with its author, bound to what the host brings and handled by it: every *)
(* part of the result says only what its author may (Says), and so does    *)
(* the result of any number of expansions, by induction over the work.     *)
(***************************************************************************)
PartFields == DOMAIN Part("", <<>>)
Buttons == {"inc", "dec", "reset", "set"}
KnobNumbers == [step : Int, dfl : Int, min : Int, max : Int]

(* A part without an author, with the keys of instance inst.               *)
Unsigned(p, inst) ==
    /\ DOMAIN p = PartFields /\ p.author = Unset /\ p.val \in Int /\ p.dfl \in Int /\ p.knobs \in KnobNumbers
    /\ p.op = "read" => p.key # <<>> /\ Scoped(p.key, inst)
    /\ p.op = "button" => p.ev \in Buttons /\ (p.key # <<>> => Scoped(p.key, inst))
Wires(p, inst) ==
    /\ \A k \in DOMAIN p.props : Unsigned(p.props[k], inst) /\ p.props[k].op \in {"read", "literal", "prop"}
    /\ \A ev \in DOMAIN p.on : /\ p.on[ev].key # <<>> /\ Scoped(p.on[ev].key, inst)
                               /\ p.on[ev].val \in Int

(* What a composed part says: a read and a keyed write name a key of their *)
(* author's.                                                               *)
Says(p) ==
    /\ DOMAIN p = PartFields /\ p.val \in Int /\ p.dfl \in Int /\ p.knobs \in KnobNumbers
    /\ p.op = "button" => p.ev \in Buttons
    /\ p.op \in {"read", "button"} /\ p.key # <<>> => p.author \in Nat /\ Scoped(p.key, p.author)
Brings(p) ==
    /\ p.author \in Nat
    /\ \A k \in DOMAIN p.props : Says(p.props[k]) /\ p.props[k].op \in {"read", "literal", "prop"}
    /\ \A ev \in DOMAIN p.on : /\ p.on[ev].key # <<>> /\ Scoped(p.on[ev].key, p.author)
                               /\ p.on[ev].val \in Int
Good(p) == Says(p) /\ (p.op = "embed" => Brings(p))

LEMMA ThePartFields == PartFields = {"op", "key", "author", "dfl", "ev", "val", "knobs", "props", "on"}
  BY DEF PartFields, Part

LEMMA KeysOfHost == ASSUME NEW key, AKey(key) PROVE key # <<>> /\ Scoped(key, 0)
  <1>1. key = <<Head(key)>> /\ Len(<<Head(key)>>) = 1 /\ <<Head(key)>> # <<>>
    BY DEF AKey
  <1>. QED  BY <1>1 DEF Scoped

LEMMA KeysOfInstance ==
    ASSUME NEW key, AKey(key), NEW inst \in Nat \ {0}
    PROVE  Prefixed(key, inst) # <<>> /\ Scoped(Prefixed(key, inst), inst)
  <1>1. PICK h : key = <<h>> /\ key # <<>>
    BY DEF AKey
  <1>2. Prefixed(key, inst) = <<Prefix(inst)>> \o <<h>>
    BY <1>1 DEF Prefixed
  <1>3. /\ Len(<<Prefix(inst)>> \o <<h>>) = 2 /\ (<<Prefix(inst)>> \o <<h>>)[1] = Prefix(inst)
        /\ <<Prefix(inst)>> \o <<h>> # <<>>
    BY Pair
  <1>. QED  BY <1>2, <1>3 DEF Scoped

(* A part signed by its instance.                                          *)
LEMMA AuthoredSays ==
    ASSUME NEW inst \in Nat, NEW p, Unsigned(p, inst)
    PROVE  Says(Authored(p, inst)) /\ Authored(p, inst).op = p.op
  <1>. DEFINE q == Authored(p, inst)
  <1>1. q = [p EXCEPT !.author = inst]
    BY DEF Unsigned, Authored
  <1>2. /\ DOMAIN q = PartFields /\ q.op = p.op /\ q.key = p.key /\ q.author = inst /\ q.dfl = p.dfl
        /\ q.ev = p.ev /\ q.val = p.val /\ q.knobs = p.knobs
    BY <1>1, ThePartFields DEF Unsigned
  <1>. HIDE DEF q
  <1>. QED  BY <1>2 DEF q, Unsigned, Says

LEMMA SignedIsGood ==
    ASSUME NEW inst \in Nat, NEW p, Unsigned(p, inst), p.op = "embed" => Wires(p, inst)
    PROVE  Good(Signed(p, inst)) /\ Signed(p, inst).op = p.op
  <1>. DEFINE q == Authored(p, inst)
              r == Signed(p, inst)
  <1>1. q = [p EXCEPT !.author = inst] /\ DOMAIN p = PartFields
    BY DEF Unsigned, Authored
  <1>2. DOMAIN q = PartFields /\ q.op = p.op /\ q.author = inst /\ q.on = p.on
    BY <1>1, ThePartFields
  <1>3. r = [q EXCEPT !.props = [i \in DOMAIN p.props |-> Authored(p.props[i], inst)]]
    BY DEF Signed, Each
  <1>4. /\ DOMAIN r = PartFields /\ r.op = q.op /\ r.key = q.key /\ r.author = q.author /\ r.dfl = q.dfl
        /\ r.ev = q.ev /\ r.val = q.val /\ r.knobs = q.knobs /\ r.on = q.on
        /\ r.props = [i \in DOMAIN p.props |-> Authored(p.props[i], inst)]
    BY <1>2, <1>3, ThePartFields
  <1>5. Says(q)
    BY AuthoredSays
  <1>. HIDE DEF q, r
  <1>6. Says(r)
    BY <1>4, <1>5 DEF Says
  <1>7. ASSUME r.op = "embed" PROVE Brings(r)
    <2>1. Wires(p, inst)
      BY <1>2, <1>4, <1>7
    <2>2. ASSUME NEW k \in DOMAIN r.props
          PROVE  Says(r.props[k]) /\ r.props[k].op \in {"read", "literal", "prop"}
      <3>1. k \in DOMAIN p.props /\ r.props[k] = Authored(p.props[k], inst)
        BY <1>4
      <3>2. Unsigned(p.props[k], inst) /\ p.props[k].op \in {"read", "literal", "prop"}
        BY <2>1, <3>1 DEF Wires
      <3>3. Says(Authored(p.props[k], inst)) /\ Authored(p.props[k], inst).op = p.props[k].op
        BY <3>2, AuthoredSays
      <3>. QED  BY <3>1, <3>2, <3>3
    <2>3. r.author = inst /\ r.on = p.on
      BY <1>2, <1>4
    <2>4. \A ev \in DOMAIN r.on : r.on[ev].key # <<>> /\ Scoped(r.on[ev].key, r.author) /\ r.on[ev].val \in Int
      BY <2>1, <2>3 DEF Wires
    <2>. QED  BY <2>2, <2>3, <2>4 DEF Brings
  <1>8. r.op = p.op /\ Good(r)
    BY <1>2, <1>4, <1>6, <1>7 DEF Good
  <1>. QED  BY <1>8 DEF r

(* The keys of a text are the host's as they stand, and the instance's once *)
(* they are renamed.                                                        *)
LEMMA HostIsUnsigned == ASSUME NEW p, AText(p) PROVE Unsigned(p, 0)
  <1>1. p.op = "read" => p.key # <<>> /\ Scoped(p.key, 0)
    BY KeysOfHost DEF AText
  <1>2. p.op = "button" => p.ev \in Buttons /\ (p.key # <<>> => Scoped(p.key, 0))
    BY KeysOfHost DEF AText, Buttons
  <1>3. DOMAIN p = PartFields /\ p.author = Unset /\ p.val \in Int /\ p.dfl \in Int /\ p.knobs \in KnobNumbers
    BY DEF AText, PartFields, KnobNumbers
  <1>. QED  BY <1>1, <1>2, <1>3 DEF Unsigned

LEMMA HostIsGood == ASSUME NEW p, AText(p), p.op = "embed" => AnEmbed(p) PROVE Good(Signed(p, 0))
  <1>1. Unsigned(p, 0)
    BY HostIsUnsigned
  <1>2. AnEmbed(p) => Wires(p, 0)
    BY HostIsUnsigned, KeysOfHost DEF AnEmbed, Wires
  <1>. QED  BY <1>1, <1>2, SignedIsGood

LEMMA RenamedIsUnsigned ==
    ASSUME NEW inst \in Nat \ {0}, NEW p, AText(p), p.op \in {"read", "button"}
    PROVE  Unsigned(Renamed(p, inst), inst) /\ Renamed(p, inst).op = p.op
  <1>. DEFINE q == Renamed(p, inst)
  <1>1. DOMAIN p = PartFields /\ q = [p EXCEPT !.key = Prefixed(p.key, inst)]
    BY DEF AText, PartFields, Renamed
  <1>2. /\ DOMAIN q = PartFields /\ q.op = p.op /\ q.key = Prefixed(p.key, inst) /\ q.author = p.author
        /\ q.dfl = p.dfl /\ q.ev = p.ev /\ q.val = p.val /\ q.knobs = p.knobs
    BY <1>1, ThePartFields
  <1>. HIDE DEF q
  <1>3. q.author = Unset /\ q.val \in Int /\ q.dfl \in Int /\ q.knobs \in KnobNumbers
    BY <1>2 DEF AText, KnobNumbers
  <1>4. AKey(p.key) => q.key # <<>> /\ Scoped(q.key, inst)
    BY <1>2, KeysOfInstance
  <1>5. p.key = <<>> => q.key = <<>>
    BY <1>2 DEF Prefixed
  <1>6. /\ q.op = "read" => AKey(p.key)
        /\ q.op = "button" => q.ev \in Buttons /\ (p.key # <<>> => AKey(p.key))
    BY <1>2 DEF AText, Buttons
  <1>7. Unsigned(q, inst)
    BY <1>2, <1>3, <1>4, <1>5, <1>6 DEF Unsigned
  <1>. QED  BY <1>2, <1>7 DEF q

LEMMA OtherIsUnsigned ==
    ASSUME NEW inst, NEW p, AText(p), p.op \notin {"read", "button"}
    PROVE  Unsigned(p, inst)
  <1>1. DOMAIN p = PartFields /\ p.author = Unset /\ p.val \in Int /\ p.dfl \in Int /\ p.knobs \in KnobNumbers
    BY DEF AText, PartFields, KnobNumbers
  <1>. QED  BY <1>1 DEF Unsigned

LEMMA InstanceIsGood ==
    ASSUME NEW inst \in Nat \ {0}, NEW p, AText(p), p.op = "embed" => AnEmbed(p)
    PROVE  /\ Good(Signed(OwnState(p, inst), inst))
           /\ Signed(OwnState(p, inst), inst).op = p.op
  <1>. DEFINE q == OwnState(p, inst)
  <1>1. CASE p.op \in {"read", "button"}
    <2>1. q = Renamed(p, inst) /\ Unsigned(q, inst) /\ q.op = p.op
      BY <1>1, RenamedIsUnsigned DEF OwnState
    <2>. HIDE DEF q
    <2>2. q.op # "embed"
      BY <1>1, <2>1
    <2>3. Good(Signed(q, inst)) /\ Signed(q, inst).op = p.op
      BY <2>1, <2>2, SignedIsGood
    <2>. QED  BY <2>3 DEF q
  <1>2. CASE p.op = "embed"
    <2>. DEFINE props == [k \in DOMAIN p.props |->
                            IF p.props[k].op = "read" THEN Renamed(p.props[k], inst) ELSE p.props[k]]
                on == [ev \in DOMAIN p.on |-> [p.on[ev] EXCEPT !.key = Prefixed(p.on[ev].key, inst)]]
    <2>1. q = [[p EXCEPT !.props = props] EXCEPT !.on = on] /\ DOMAIN p = PartFields /\ AnEmbed(p)
      BY <1>2 DEF OwnState, Each, AText, PartFields
    <2>2. /\ DOMAIN q = PartFields /\ q.op = p.op /\ q.key = p.key /\ q.author = p.author /\ q.dfl = p.dfl
          /\ q.ev = p.ev /\ q.val = p.val /\ q.knobs = p.knobs /\ q.props = props /\ q.on = on
      <3>. HIDE DEF q, props, on
      <3>. QED  BY <2>1, ThePartFields
    <2>3. Unsigned(q, inst)
      <3>1. Unsigned(p, inst)
        BY <1>2, OtherIsUnsigned
      <3>. HIDE DEF q, props, on
      <3>. QED  BY <1>2, <2>2, <3>1 DEF Unsigned
    <2>4. ASSUME NEW k \in DOMAIN q.props
          PROVE  Unsigned(q.props[k], inst) /\ q.props[k].op \in {"read", "literal", "prop"}
      <3>1. /\ k \in DOMAIN p.props
            /\ q.props[k] = IF p.props[k].op = "read" THEN Renamed(p.props[k], inst) ELSE p.props[k]
        <4>. HIDE DEF q
        <4>. QED  BY <2>2
      <3>2. AText(p.props[k]) /\ p.props[k].op \in {"read", "literal", "prop"}
        BY <2>1, <3>1 DEF AnEmbed
      <3>. HIDE DEF q
      <3>3. CASE p.props[k].op = "read"
        BY <3>1, <3>2, <3>3, RenamedIsUnsigned
      <3>4. CASE p.props[k].op # "read"
        BY <3>1, <3>2, <3>4, OtherIsUnsigned
      <3>. QED  BY <3>3, <3>4
    <2>5. ASSUME NEW ev \in DOMAIN q.on
          PROVE  q.on[ev].key # <<>> /\ Scoped(q.on[ev].key, inst) /\ q.on[ev].val \in Int
      <3>1. ev \in DOMAIN p.on /\ q.on[ev] = [p.on[ev] EXCEPT !.key = Prefixed(p.on[ev].key, inst)]
        <4>. HIDE DEF q
        <4>. QED  BY <2>2
      <3>2. AKey(p.on[ev].key) /\ p.on[ev].val \in Int /\ DOMAIN p.on[ev] = {"key", "val"}
        BY <2>1, <3>1 DEF AnEmbed
      <3>3. q.on[ev].key = Prefixed(p.on[ev].key, inst) /\ q.on[ev].val = p.on[ev].val
        <4>. HIDE DEF q
        <4>. QED  BY <3>1, <3>2
      <3>. QED  BY <3>2, <3>3, KeysOfInstance
    <2>. HIDE DEF q
    <2>6. Wires(q, inst)
      BY <2>4, <2>5 DEF Wires
    <2>7. Good(Signed(q, inst)) /\ Signed(q, inst).op = p.op
      BY <2>2, <2>3, <2>6, SignedIsGood
    <2>. QED  BY <2>7 DEF q
  <1>3. CASE p.op \notin {"read", "button", "embed"}
    <2>1. q = p /\ Unsigned(p, inst)
      BY <1>3, OtherIsUnsigned DEF OwnState
    <2>2. Good(Signed(p, inst)) /\ Signed(p, inst).op = p.op
      BY <1>3, <2>1, SignedIsGood
    <2>. QED  BY <2>1, <2>2
  <1>. QED  BY <1>1, <1>2, <1>3

-----------------------------------------------------------------------------
(* What the host brings to an embed is good, so a part that is bound and   *)
(* handled is.                                                             *)
LEMMA MadePart ==
    /\ \A n \in Int : Says(Literal(n)) /\ Literal(n).op = "literal"
    /\ \A key : Says(Part("unknown", key)) /\ Part("unknown", key).op = "unknown"
  <1>1. NoKnobs \in KnobNumbers /\ Unset \in Int
    BY DEF NoKnobs, KnobNumbers, Unset
  <1>2. ASSUME NEW n \in Int PROVE Says(Literal(n)) /\ Literal(n).op = "literal"
    <2>1. /\ DOMAIN Literal(n) = PartFields /\ Literal(n).op = "literal" /\ Literal(n).val = n
          /\ Literal(n).dfl = 0 /\ Literal(n).knobs = NoKnobs
      BY ThePartFields DEF Literal, Part
    <2>. QED  BY <1>1, <2>1 DEF Says
  <1>3. ASSUME NEW key PROVE Says(Part("unknown", key)) /\ Part("unknown", key).op = "unknown"
    <2>1. /\ DOMAIN Part("unknown", key) = PartFields /\ Part("unknown", key).op = "unknown"
          /\ Part("unknown", key).val = Unset /\ Part("unknown", key).dfl = 0
          /\ Part("unknown", key).knobs = NoKnobs
      BY ThePartFields DEF Part
    <2>. QED  BY <1>1, <2>1 DEF Says
  <1>. QED  BY <1>2, <1>3

LEMMA MadeButton ==
    ASSUME NEW key, NEW val \in Int, NEW author \in Nat, Scoped(key, author)
    PROVE  /\ Says(Authored(Button("set", key, val, NoKnobs), author))
           /\ Authored(Button("set", key, val, NoKnobs), author).op = "button"
  <1>. DEFINE p == Button("set", key, val, NoKnobs)
  <1>1. NoKnobs \in KnobNumbers
    BY DEF NoKnobs, KnobNumbers, Unset
  <1>2. /\ DOMAIN p = PartFields /\ p.op = "button" /\ p.key = key /\ p.ev = "set" /\ p.val = val
        /\ p.dfl = 0 /\ p.knobs = NoKnobs /\ p.author = Unset
    BY ThePartFields DEF Button, Part
  <1>. HIDE DEF p
  <1>3. Unsigned(p, author)
    BY <1>1, <1>2 DEF Unsigned, Buttons
  <1>4. Says(Authored(p, author)) /\ Authored(p, author).op = p.op
    BY <1>3, AuthoredSays
  <1>. QED  BY <1>2, <1>4 DEF p

LEMMA BoundSays ==
    ASSUME NEW e, Brings(e), NEW x, Says(x)
    PROVE  /\ Says(Bound(x, e.props))
           /\ x.op # "prop" => Bound(x, e.props) = x
           /\ x.op = "prop" => Bound(x, e.props).op \in {"read", "literal", "prop"}
  <1>1. 0 \in Int
    OBVIOUS
  <1>. QED  BY <1>1, MadePart DEF Bound, Brings

PropsOf(p, e) ==
    IF p.op = "embed" THEN [p EXCEPT !.props = Each(p.props, LAMBDA x : Bound(x, e.props))]
                      ELSE Bound(p, e.props)

LEMMA BoundIsGood == ASSUME NEW e, Brings(e), NEW p, Good(p) PROVE Good(PropsOf(p, e))
  <1>1. CASE p.op # "embed"
    <2>1. Says(Bound(p, e.props)) /\ Bound(p, e.props).op # "embed"
      BY <1>1, BoundSays DEF Good
    <2>. QED  BY <1>1, <2>1 DEF Good, PropsOf
  <1>2. CASE p.op = "embed"
    <2>. DEFINE props == [i \in DOMAIN p.props |-> Bound(p.props[i], e.props)]
                q == [p EXCEPT !.props = props]
    <2>1. Says(p) /\ Brings(p) /\ DOMAIN p = PartFields
      BY <1>2 DEF Good, Says
    <2>2. /\ DOMAIN q = PartFields /\ q.op = p.op /\ q.key = p.key /\ q.author = p.author /\ q.dfl = p.dfl
          /\ q.ev = p.ev /\ q.val = p.val /\ q.knobs = p.knobs /\ q.on = p.on /\ q.props = props
      <3>. HIDE DEF props
      <3>. QED  BY <2>1, ThePartFields
    <2>. HIDE DEF q
    <2>3. Says(q)
      BY <2>1, <2>2 DEF Says
    <2>4. ASSUME NEW k \in DOMAIN q.props
          PROVE  Says(q.props[k]) /\ q.props[k].op \in {"read", "literal", "prop"}
      <3>1. k \in DOMAIN p.props /\ q.props[k] = Bound(p.props[k], e.props)
        BY <2>2
      <3>2. Says(p.props[k]) /\ p.props[k].op \in {"read", "literal", "prop"}
        BY <2>1, <3>1 DEF Brings
      <3>3. PICK x : x = p.props[k]
        OBVIOUS
      <3>4. Says(Bound(x, e.props)) /\ (x.op # "prop" => Bound(x, e.props) = x)
            /\ (x.op = "prop" => Bound(x, e.props).op \in {"read", "literal", "prop"})
        BY <3>2, <3>3, BoundSays
      <3>. QED  BY <3>1, <3>2, <3>3, <3>4
    <2>5. Brings(q)
      BY <2>1, <2>2, <2>4 DEF Brings
    <2>6. Good(q)
      BY <2>3, <2>5 DEF Good
    <2>. QED  BY <1>2, <2>6 DEF q, Each, PropsOf
  <1>. QED  BY <1>1, <1>2

LEMMA HandledIsGood ==
    ASSUME NEW e, Brings(e), NEW inst \in Nat \ {0}, NEW p, Says(p)
    PROVE  Good(Handled(p, inst, e))
  <1>. DEFINE ev == p.key[1]
              h == e.on[ev]
              value == IF h.val # Unset THEN h.val ELSE IF p.val # Unset THEN p.val ELSE 1
              b == Button("set", h.key, value, NoKnobs)
              key == <<Prefix(inst), "unhandled", ev>>
              c == Button("set", key, 1, NoKnobs)
  <1>1. CASE ev \in DOMAIN e.on
    <2>1. h.key # <<>> /\ Scoped(h.key, e.author) /\ h.val \in Int /\ p.val \in Int /\ e.author \in Nat
      BY <1>1 DEF Brings, Says
    <2>2. value \in Int
      BY <2>1
    <2>. HIDE DEF h, value
    <2>3. Says(Authored(b, e.author)) /\ Authored(b, e.author).op = "button"
      BY <2>1, <2>2, MadeButton
    <2>4. Handled(p, inst, e) = Authored(b, e.author)
      BY <1>1 DEF Handled, h, value
    <2>. QED  BY <2>3, <2>4 DEF Good
  <1>2. CASE ev \notin DOMAIN e.on
    <2>1. Len(key) = 3 /\ key[1] = Prefix(inst)
      OBVIOUS
    <2>. HIDE DEF key
    <2>2. Scoped(key, inst) /\ 1 \in Int /\ inst \in Nat
      BY <2>1 DEF Scoped
    <2>3. Says(Authored(c, inst)) /\ Authored(c, inst).op = "button"
      BY <2>2, MadeButton
    <2>4. Handled(p, inst, e) = Authored(c, inst)
      BY <1>2 DEF Handled, key
    <2>. QED  BY <2>3, <2>4 DEF Good
  <1>. QED  BY <1>1, <1>2

-----------------------------------------------------------------------------
(* Texts: sequences of good parts, and the work that is left of one.       *)
AllGood(q) == \E T : q \in Seq(T) /\ \A p \in T : Good(p)
AllSay(q) == \E T : q \in Seq(T) /\ \A p \in T : Says(p)
Remaining(q) == \E T : q \in Seq(T) /\ \A t \in T : Good(t.part)
Working(w) ==
    /\ DOMAIN w = {"done", "next", "todo"}
    /\ AllSay(w.done) /\ w.next \in Nat \ {0} /\ Remaining(w.todo)

LEMMA WiredIsGood ==
    ASSUME NEW parts, ACard(parts), NEW inst \in Nat \ {0}, NEW e, Brings(e)
    PROVE  AllGood(Wired(parts, inst, e))
  <1>. DEFINE A(p) == Signed(OwnState(p, inst), inst)
              B(p) == PropsOf(p, e)
              C(p) == IF p.op = "emit" THEN Handled(p, inst, e) ELSE p
              T == {C(B(A(p))) : p \in ToSet(parts)}
  <1>1. ASSUME NEW p \in ToSet(parts) PROVE Good(C(B(A(p))))
    <2>1. PICK i \in DOMAIN parts : p = parts[i]
      BY DEF ToSet
    <2>2. AText(p) /\ (p.op = "embed" => AnEmbed(p))
      BY <2>1 DEF ACard
    <2>3. Good(A(p))
      BY <2>2, InstanceIsGood
    <2>4. PICK a : a = A(p)
      OBVIOUS
    <2>. HIDE DEF A
    <2>5. Good(B(a))
      BY <2>3, <2>4, BoundIsGood
    <2>6. PICK b : b = B(a)
      OBVIOUS
    <2>7. Good(C(b))
      BY <2>5, <2>6, HandledIsGood DEF Good
    <2>. QED  BY <2>4, <2>6, <2>7
  <1>2. Wired(parts, inst, e) = [i \in DOMAIN parts |-> C(B(A(parts[i])))]
    BY DEF Wired, WithEmits, WithProps, Namespaced, Each, PropsOf
  <1>. HIDE DEF A, B, C
  <1>3. [i \in DOMAIN parts |-> C(B(A(parts[i])))] \in Seq(T)
    <2>1. parts \in Seq(ToSet(parts)) /\ DOMAIN parts = 1 .. Len(parts) /\ Len(parts) \in Nat
      BY DEF ACard
    <2>2. \A i \in 1 .. Len(parts) : C(B(A(parts[i]))) \in T
      BY <2>1 DEF ToSet
    <2>. HIDE DEF T
    <2>. QED  BY <2>1, <2>2
  <1>4. \A p \in T : Good(p)
    BY <1>1
  <1>. HIDE DEF T
  <1>. QED  BY <1>2, <1>3, <1>4 DEF AllGood

(* The work an embed leaves is good.                                       *)
LEMMA Deepened ==
    ASSUME NEW q, AllGood(q), NEW depth
    PROVE  Remaining(AtDepth(q, depth))
  <1>1. PICK T : q \in Seq(T) /\ \A p \in T : Good(p)
    BY DEF AllGood
  <1>. DEFINE U == {[part |-> p, depth |-> depth] : p \in T}
  <1>2. \A t \in U : Good(t.part)
    BY <1>1
  <1>3. AtDepth(q, depth) = [i \in DOMAIN q |-> [part |-> q[i], depth |-> depth]]
    BY DEF AtDepth, Each
  <1>4. DOMAIN q = 1 .. Len(q) /\ Len(q) \in Nat /\ \A i \in 1 .. Len(q) : [part |-> q[i], depth |-> depth] \in U
    BY <1>1
  <1>. HIDE DEF U
  <1>5. AtDepth(q, depth) \in Seq(U)
    BY <1>3, <1>4
  <1>. QED  BY <1>2, <1>5 DEF Remaining

LEMMA StartedWorks == ASSUME NEW parts, ACard(parts) PROVE Working(Started(parts))
  <1>. DEFINE q == Each(parts, LAMBDA p : Signed(p, 0))
              T == {Signed(p, 0) : p \in ToSet(parts)}
  <1>1. ASSUME NEW p \in ToSet(parts) PROVE Good(Signed(p, 0))
    <2>1. PICK i \in DOMAIN parts : p = parts[i]
      BY DEF ToSet
    <2>2. AText(p) /\ (p.op = "embed" => AnEmbed(p))
      BY <2>1 DEF ACard
    <2>. QED  BY <2>2, HostIsGood
  <1>2. \A p \in T : Good(p)
    BY <1>1
  <1>3. q = [i \in DOMAIN parts |-> Signed(parts[i], 0)]
    BY DEF Each
  <1>4. parts \in Seq(ToSet(parts)) /\ DOMAIN parts = 1 .. Len(parts) /\ Len(parts) \in Nat
    BY DEF ACard
  <1>5. \A i \in 1 .. Len(parts) : Signed(parts[i], 0) \in T
    BY <1>4 DEF ToSet
  <1>. HIDE DEF T, q
  <1>6. q \in Seq(T)
    BY <1>3, <1>4, <1>5
  <1>7. AllGood(q)
    BY <1>2, <1>6 DEF AllGood
  <1>8. Remaining(AtDepth(q, 0))
    BY <1>7, Deepened
  <1>9. AllSay(<<>>)
    <2>1. PICK E : E = {}
      OBVIOUS
    <2>2. <<>> \in Seq(E) /\ \A p \in E : Says(p)
      BY <2>1, EmptySeq
    <2>. QED  BY <2>2 DEF AllSay
  <1>10. /\ DOMAIN Started(parts) = {"done", "next", "todo"} /\ Started(parts).done = <<>>
         /\ Started(parts).next = 1 /\ Started(parts).todo = AtDepth(q, 0)
    BY DEF Started, q
  <1>. QED  BY <1>8, <1>9, <1>10 DEF Working

LEMMA Joined == ASSUME NEW a, Remaining(a), NEW b, Remaining(b) PROVE Remaining(a \o b)
  <1>1. PICK T : a \in Seq(T) /\ \A t \in T : Good(t.part)
    BY DEF Remaining
  <1>2. PICK U : b \in Seq(U) /\ \A t \in U : Good(t.part)
    BY DEF Remaining
  <1>. DEFINE V == T \cup U
  <1>3. a \in Seq(V) /\ b \in Seq(V)
    BY <1>1, <1>2
  <1>4. \A t \in V : Good(t.part)
    BY <1>1, <1>2
  <1>. HIDE DEF V
  <1>5. a \o b \in Seq(V)
    BY <1>3
  <1>. QED  BY <1>4, <1>5 DEF Remaining

LEMMA DoneSays == ASSUME NEW q, AllSay(q), NEW p, Says(p) PROVE AllSay(Append(q, p))
  <1>1. PICK T : q \in Seq(T) /\ \A x \in T : Says(x)
    BY DEF AllSay
  <1>. DEFINE V == T \cup {p}
  <1>2. q \in Seq(V) /\ p \in V
    BY <1>1
  <1>3. \A x \in V : Says(x)
    BY <1>1
  <1>. HIDE DEF V
  <1>4. Append(q, p) \in Seq(V)
    BY <1>2
  <1>. QED  BY <1>3, <1>4 DEF AllSay

LEMMA ExpandWorks == ASSUME NEW w, Working(w) PROVE Working(Expand(w))
  <1>. DEFINE p == Head(w.todo).part
              depth == Head(w.todo).depth
              rest == Tail(w.todo)
  <1>1. CASE w.todo = <<>>
    <2>1. Expand(w) = w
      BY <1>1 DEF Expand
    <2>. QED  BY <2>1
  <1>2. CASE w.todo # <<>>
    <2>1. PICK T : w.todo \in Seq(T) /\ \A t \in T : Good(t.part)
      BY DEF Working, Remaining
    <2>2. Head(w.todo) \in T /\ rest \in Seq(T)
      BY <1>2, <2>1, TailElements
    <2>3. Good(p) /\ Remaining(rest)
      BY <2>1, <2>2 DEF Remaining
    <2>4. DOMAIN w = {"done", "next", "todo"} /\ AllSay(w.done) /\ w.next \in Nat \ {0}
      BY DEF Working
    <2>5. Says(p)
      BY <2>3 DEF Good
    <2>6. CASE p.op # "embed" \/ depth >= MAX_CARD_EMBED_DEPTH
      <3>1. Expand(w) = [w EXCEPT !.done = Append(w.done, p), !.todo = rest]
        BY <1>2, <2>6 DEF Expand
      <3>. HIDE DEF p, rest
      <3>2. /\ DOMAIN Expand(w) = {"done", "next", "todo"} /\ Expand(w).done = Append(w.done, p)
            /\ Expand(w).next = w.next /\ Expand(w).todo = rest
        BY <2>4, <3>1
      <3>3. AllSay(Append(w.done, p))
        BY <2>4, <2>5, DoneSays
      <3>. QED  BY <2>3, <2>4, <3>2, <3>3 DEF Working
    <2>7. CASE p.op = "embed" /\ ~(depth >= MAX_CARD_EMBED_DEPTH) /\ p.key[1] \notin DOMAIN Registry
      <3>1. Expand(w) = [w EXCEPT !.done = Append(w.done, Part("unknown", p.key)), !.todo = rest]
        BY <1>2, <2>7 DEF Expand
      <3>2. PICK u : u = Part("unknown", p.key) /\ Says(u)
        BY MadePart
      <3>. HIDE DEF p, rest
      <3>3. /\ DOMAIN Expand(w) = {"done", "next", "todo"} /\ Expand(w).done = Append(w.done, u)
            /\ Expand(w).next = w.next /\ Expand(w).todo = rest
        BY <2>4, <3>1, <3>2
      <3>4. AllSay(Append(w.done, u))
        BY <2>4, <3>2, DoneSays
      <3>. QED  BY <2>3, <2>4, <3>3, <3>4 DEF Working
    <2>8. CASE p.op = "embed" /\ ~(depth >= MAX_CARD_EMBED_DEPTH) /\ p.key[1] \in DOMAIN Registry
      <3>. DEFINE card == Registry[p.key[1]]
                  wired == Wired(card, w.next, p)
                  more == AtDepth(wired, depth + 1)
      <3>1. Expand(w) = [w EXCEPT !.todo = more \o rest, !.next = w.next + 1]
        BY <1>2, <2>8 DEF Expand
      <3>2. ACard(card)
        BY <2>8, CardsAssumption
      <3>3. Brings(p)
        BY <2>3, <2>8 DEF Good
      <3>. HIDE DEF p, rest, card
      <3>4. AllGood(wired)
        BY <2>4, <3>2, <3>3, WiredIsGood
      <3>. HIDE DEF wired
      <3>5. Remaining(more)
        BY <3>4, Deepened
      <3>. HIDE DEF more
      <3>6. Remaining(more \o rest)
        BY <2>3, <3>5, Joined
      <3>7. /\ DOMAIN Expand(w) = {"done", "next", "todo"} /\ Expand(w).done = w.done
            /\ Expand(w).next = w.next + 1 /\ Expand(w).todo = more \o rest
        BY <2>4, <3>1
      <3>8. w.next + 1 \in Nat \ {0}
        BY <2>4
      <3>. QED  BY <2>4, <3>6, <3>7, <3>8 DEF Working
    <2>. QED  BY <2>6, <2>7, <2>8
  <1>. QED  BY <1>1, <1>2

(* The recursion of ExpandedBy is well defined.                            *)
LEMMA ExpansionUnfolds ==
    ASSUME NEW parts
    PROVE  \A n \in 0 .. MaxWork :
             ExpandedBy(parts)[n] = IF n = 0 THEN Started(parts) ELSE Expand(ExpandedBy(parts)[n - 1])
  <1>. DEFINE Rec(f, n) == IF n = 0 THEN Started(parts) ELSE Expand(f[n - 1])
              Fits(f, m) == f = [n \in 0 .. m |-> Rec(f, n)]
              S == {m \in Nat : \E f : Fits(f, m)}
  <1>1. 0 \in S
    <2>1. Fits([n \in 0 .. 0 |-> Started(parts)], 0)
      OBVIOUS
    <2>. QED  BY <2>1
  <1>2. ASSUME NEW m \in Nat, m \in S PROVE m + 1 \in S
    <2>1. PICK f : Fits(f, m)
      BY <1>2
    <2>. DEFINE g == [n \in 0 .. m + 1 |-> IF n = m + 1 THEN Rec(f, n) ELSE f[n]]
    <2>2. \A n \in 0 .. m + 1 : n # 0 => n - 1 \in 0 .. m /\ g[n - 1] = f[n - 1]
      OBVIOUS
    <2>3. ASSUME NEW n \in 0 .. m + 1 PROVE g[n] = Rec(g, n)
      <3>1. g[n] = IF n = m + 1 THEN Rec(f, n) ELSE f[n]
        OBVIOUS
      <3>2. Rec(g, n) = Rec(f, n)
        <4>. HIDE DEF g
        <4>. QED  BY <2>2
      <3>3. n # m + 1 => f[n] = Rec(f, n)
        <4>1. n # m + 1 => n \in 0 .. m
          OBVIOUS
        <4>. HIDE DEF Rec
        <4>. QED  BY <2>1, <4>1
      <3>. HIDE DEF Rec, g
      <3>. QED  BY <3>1, <3>2, <3>3
    <2>4. Fits(g, m + 1)
      <3>1. g = [n \in 0 .. m + 1 |-> g[n]]
        OBVIOUS
      <3>. HIDE DEF g, Rec
      <3>. QED  BY <2>3, <3>1
    <2>5. \E h : Fits(h, m + 1)
      <3>. HIDE DEF g, Fits
      <3>. QED  BY <2>4
    <2>. HIDE DEF Fits
    <2>. QED  BY <2>5
  <1>3. MaxWork \in S
    <2>. HIDE DEF S
    <2>1. Nat \subseteq S
      BY <1>1, <1>2, Induct
    <2>. QED  BY <2>1, CardsAssumption
  <1>4. \E f : Fits(f, MaxWork)
    BY <1>3
  <1>. DEFINE r == CHOOSE f : Fits(f, MaxWork)
  <1>5. ExpandedBy(parts) = r
    BY DEF ExpandedBy
  <1>6. Fits(r, MaxWork)
    <2>. HIDE DEF Fits
    <2>. QED  BY <1>4
  <1>. HIDE DEF r
  <1>. QED  BY <1>5, <1>6

(* Whatever a card embeds, and however deep, its parts say what they should. *)
LEMMA ComposedSays == ASSUME NEW parts, ACard(parts) PROVE AllSay(Composed(parts))
  <1>. DEFINE W(n) == ExpandedBy(parts)[n]
              S == {n \in Nat : n <= MaxWork => Working(W(n))}
  <1>1. MaxWork \in Nat
    BY CardsAssumption
  <1>2. /\ W(0) = Started(parts)
        /\ \A n \in Nat : n + 1 <= MaxWork => W(n + 1) = Expand(W(n))
    <2>1. \A n \in 0 .. MaxWork : W(n) = IF n = 0 THEN Started(parts) ELSE Expand(W(n - 1))
      BY ExpansionUnfolds
    <2>. HIDE DEF W
    <2>2. ASSUME NEW n \in Nat, n + 1 <= MaxWork PROVE W(n + 1) = Expand(W(n))
      <3>1. n + 1 \in 0 .. MaxWork /\ n + 1 # 0 /\ (n + 1) - 1 = n
        BY <1>1, <2>2
      <3>. QED  BY <2>1, <3>1
    <2>. QED  BY <1>1, <2>1, <2>2
  <1>. HIDE DEF W
  <1>3. 0 \in S
    BY <1>2, StartedWorks
  <1>4. ASSUME NEW n \in Nat, n \in S PROVE n + 1 \in S
    <2>. SUFFICES ASSUME n + 1 <= MaxWork PROVE Working(W(n + 1))
      OBVIOUS
    <2>1. Working(W(n)) /\ W(n + 1) = Expand(W(n))
      BY <1>1, <1>2, <1>4
    <2>. QED  BY <2>1, ExpandWorks
  <1>5. Nat \subseteq S
    <2>. HIDE DEF S
    <2>. QED  BY <1>3, <1>4, Induct
  <1>6. Working(W(MaxWork))
    BY <1>1, <1>5
  <1>. QED  BY <1>6 DEF Working, Composed, Expanded, W

(* What a card binds and wires is its own, when it is drawn.               *)
LEMMA DrawnSays ==
    ASSUME bodies \in [Items -> Bodies], NEW item \in Items
    PROVE  Drawn(item) \in Seq(ToSet(Drawn(item))) /\ \A i \in DOMAIN Drawn(item) : Says(Drawn(item)[i])
  <1>1. PICK b \in Bodies : b = bodies[item]
    OBVIOUS
  <1>2. Drawn(item) = Composed(b.parts)
    BY <1>1 DEF Drawn, Cards
  <1>3. AllSay(Composed(b.parts))
    BY CardsAssumption, ComposedSays
  <1>4. PICK T : Drawn(item) \in Seq(T) /\ \A p \in T : Says(p)
    BY <1>2, <1>3 DEF AllSay
  <1>. DEFINE q == Drawn(item)
  <1>5. q \in Seq(T)
    BY <1>4
  <1>. HIDE DEF q
  <1>6. DOMAIN q = 1 .. Len(q) /\ Len(q) \in Nat /\ \A i \in DOMAIN q : q[i] \in T /\ q[i] \in ToSet(q)
    BY <1>5 DEF ToSet
  <1>7. q \in Seq(ToSet(q))
    BY <1>5, <1>6
  <1>. QED  BY <1>4, <1>6, <1>7 DEF q

-----------------------------------------------------------------------------
(* Geometry: while what is inside is lower than 700, the one explicit      *)
(* height is the root's.                                                   *)
LEMMA RootIsExplicit ==
    ASSUME NEW g, AGeometry(g), \A i \in DOMAIN g.kids : g.kids[i].h < 700
    PROVE  Explicit(g) = IF g.root >= 700 THEN g.root ELSE Unset
  <1>. DEFINE a == <<g.root>>
              b == Each(g.kids, LAMBDA k : k.h)
              keep == {h \in ToSet(Heights(g)) : h >= 700}
  <1>1. a \in Seq(Int) /\ Len(a) = 1 /\ a[1] = g.root /\ g.root \in Int
    BY DEF AGeometry
  <1>2. b \in Seq(Int) /\ DOMAIN b = DOMAIN g.kids /\ \A i \in DOMAIN b : b[i] = g.kids[i].h
    <2>1. g.kids \in Seq(ToSet(g.kids)) /\ \A i \in DOMAIN g.kids : g.kids[i].h \in Int
      BY DEF AGeometry
    <2>2. b = [i \in DOMAIN g.kids |-> g.kids[i].h]
      BY DEF Each
    <2>3. DOMAIN g.kids = 1 .. Len(g.kids) /\ Len(g.kids) \in Nat
      BY <2>1
    <2>. HIDE DEF b
    <2>. QED  BY <2>1, <2>2, <2>3
  <1>3. Heights(g) = a \o b
    BY DEF Heights
  <1>. HIDE DEF a, b
  <1>4. /\ a \o b \in Seq(Int) /\ Len(a \o b) = Len(a) + Len(b)
        /\ \A i \in 1 .. Len(a) + Len(b) : (a \o b)[i] = IF i <= Len(a) THEN a[i] ELSE b[i - Len(a)]
    BY <1>1, <1>2, ConcatProperties, Zenon
  <1>5. PICK q : q = Heights(g)
    OBVIOUS
  <1>6. /\ q \in Seq(Int) /\ 1 \in DOMAIN q /\ q[1] = g.root
        /\ \A i \in DOMAIN q : i # 1 => q[i] < 700
    <2>1. Len(b) \in Nat /\ DOMAIN b = 1 .. Len(b) /\ DOMAIN q = 1 .. Len(b) + 1
      BY <1>1, <1>2, <1>3, <1>4, <1>5
    <2>2. q \in Seq(Int) /\ 1 \in DOMAIN q /\ q[1] = g.root
      BY <1>1, <1>3, <1>4, <1>5, <2>1
    <2>3. ASSUME NEW i \in DOMAIN q, i # 1 PROVE q[i] < 700
      <3>1. i - 1 \in DOMAIN b /\ q[i] = b[i - 1]
        BY <1>1, <1>3, <1>4, <1>5, <2>1, <2>3
      <3>. QED  BY <1>2, <3>1
    <2>. QED  BY <2>2, <2>3
  <1>7. PICK z : z = Retain(q, keep)
    OBVIOUS
  <1>8. keep = {h \in ToSet(q) : h >= 700}
    BY <1>5
  <1>9. \A i \in DOMAIN q : q[i] \in keep <=> q[i] >= 700
    BY <1>8 DEF ToSet
  <1>10. Explicit(g) = IF z = <<>> THEN Unset ELSE Head(z)
    BY <1>5, <1>7 DEF Explicit
  <1>. HIDE DEF keep
  <1>11. /\ z \in Seq(Int)
         /\ \A i \in DOMAIN z : \E k \in DOMAIN q : z[i] = q[k] /\ q[k] \in keep
         /\ \A k \in DOMAIN q : q[k] \in keep => \E i \in DOMAIN z : z[i] = q[k]
    BY <1>6, <1>7, RetainElements
  <1>12. \A i \in DOMAIN z : z[i] = g.root /\ g.root >= 700
    <2>1. \A k \in DOMAIN q : q[k] >= 700 => k = 1
      BY <1>6
    <2>. QED  BY <1>6, <1>9, <1>11, <2>1
  <1>13. CASE g.root >= 700
    <2>1. PICK i \in DOMAIN z : z[i] = q[1]
      BY <1>6, <1>9, <1>11, <1>13
    <2>2. z # <<>> /\ 1 \in DOMAIN z /\ Head(z) = z[1]
      BY <1>11, <2>1
    <2>. QED  BY <1>10, <1>12, <1>13, <2>2
  <1>14. CASE ~(g.root >= 700)
    <2>1. DOMAIN z = {}
      BY <1>12, <1>14
    <2>2. z = <<>>
      BY <1>11, <2>1
    <2>. QED  BY <1>10, <1>14, <2>2
  <1>. QED  BY <1>13, <1>14

(* A photo in a card that is pinned, or fixed, is fitted to its root.      *)
LEMMA PhotoFitsRoot ==
    ASSUME NEW g, AGeometry(g), g.root >= 700, \A i \in DOMAIN g.kids : g.kids[i].h < 700
    PROVE  \A i \in DOMAIN Fitted(g).kids : g.kids[i].image /\ g.kids[i].h = Fill
             => Fitted(g).kids[i].h = Fitted(g).root /\ Fitted(g).kids[i].crop
  <1>. DEFINE kids == [i \in DOMAIN g.kids |-> [g.kids[i] EXCEPT !.h = Raised(g.kids[i].h)]]
              r == [[g EXCEPT !.root = Raised(g.root)] EXCEPT !.kids = kids]
              full == IF Explicit(r) = Unset THEN FULLBLEED_CARD_HEIGHT ELSE Explicit(r)
              last == [i \in DOMAIN kids |-> IF kids[i].image /\ kids[i].h = Fill
                                             THEN [kids[i] EXCEPT !.h = full, !.crop = TRUE] ELSE kids[i]]
  <1>1. /\ DOMAIN g = {"root", "early", "kids"} /\ g.root \in Int /\ g.kids \in Seq(ToSet(g.kids))
        /\ \A i \in DOMAIN g.kids : g.kids[i] \in [image : BOOLEAN, h : Int, crop : BOOLEAN]
    BY DEF AGeometry
  <1>2. ASSUME NEW i \in DOMAIN g.kids
        PROVE  kids[i] = g.kids[i]
    <2>1. g.kids[i].h # 700 /\ Raised(g.kids[i].h) = g.kids[i].h
      BY <1>1 DEF Raised
    <2>2. g.kids[i] = [g.kids[i] EXCEPT !.h = g.kids[i].h]
      BY <1>1
    <2>. QED  BY <2>1, <2>2
  <1>3. kids = g.kids
    <2>1. g.kids = [i \in DOMAIN g.kids |-> g.kids[i]]
      BY <1>1
    <2>. QED  BY <1>2, <2>1
  <1>. HIDE DEF kids
  <1>4. DOMAIN r = {"root", "early", "kids"} /\ r.root = Raised(g.root) /\ r.kids = kids
    BY <1>1
  <1>5. r.root \in Int /\ r.root >= 700
    BY <1>1, <1>4 DEF Raised, FULLBLEED_CARD_HEIGHT
  <1>. HIDE DEF r
  <1>6. AGeometry(r) /\ \A i \in DOMAIN r.kids : r.kids[i].h < 700
    BY <1>1, <1>3, <1>4, <1>5 DEF AGeometry
  <1>7. full = r.root
    BY <1>5, <1>6, RootIsExplicit DEF Unset
  <1>. HIDE DEF full
  <1>8. ASSUME NEW j \in DOMAIN g.kids, g.kids[j].image
        PROVE  Fitted(g) = [r EXCEPT !.kids = last]
    <2>1. Fitted(g) = [r EXCEPT !.kids = Each(r.kids, LAMBDA k :
               IF k.image /\ k.h = Fill THEN [k EXCEPT !.h = full, !.crop = TRUE] ELSE k)]
      BY <1>8 DEF Fitted, r, kids, full, Each
    <2>. QED  BY <1>4, <2>1 DEF Each
  <1>9. ASSUME NEW i \in DOMAIN Fitted(g).kids, g.kids[i].image, g.kids[i].h = Fill, i \in DOMAIN g.kids
        PROVE  Fitted(g).kids[i].h = Fitted(g).root /\ Fitted(g).kids[i].crop
    <2>. HIDE DEF last
    <2>1. Fitted(g).root = r.root /\ Fitted(g).kids = last
      BY <1>4, <1>8, <1>9
    <2>2. last[i] = [g.kids[i] EXCEPT !.h = full, !.crop = TRUE]
      BY <1>3, <1>9 DEF last
    <2>3. last[i].h = full /\ last[i].crop = TRUE
      BY <1>1, <1>9, <2>2
    <2>. QED  BY <1>7, <2>1, <2>3
  <1>10. DOMAIN Fitted(g).kids = DOMAIN g.kids
    <2>1. CASE \A i \in DOMAIN g.kids : ~g.kids[i].image
      BY <2>1 DEF Fitted
    <2>2. CASE \E i \in DOMAIN g.kids : g.kids[i].image
      <3>1. Fitted(g) = [r EXCEPT !.kids = last]
        BY <1>8, <2>2
      <3>. QED  BY <1>3, <1>4, <3>1
    <2>. QED  BY <2>1, <2>2
  <1>. QED  BY <1>9, <1>10

LEMMA PhotosCover ==
    ASSUME NEW g, AGeometry(g), g.root >= 700 \/ (g.root = Fill /\ g.early),
           \A i \in DOMAIN g.kids : g.kids[i].h < 700
    PROVE  \A i \in DOMAIN Geometry(g).kids : g.kids[i].image /\ g.kids[i].h = Fill
             => Geometry(g).kids[i].h = Geometry(g).root /\ Geometry(g).kids[i].crop
  <1>1. Explicit(g) = IF g.root >= 700 THEN g.root ELSE Unset
    BY RootIsExplicit
  <1>2. DOMAIN g = {"root", "early", "kids"} /\ g.root \in Int
    BY DEF AGeometry
  <1>3. CASE g.root >= 700
    <2>1. Pinned(g) = g
      BY <1>1, <1>2, <1>3 DEF Pinned, Unset
    <2>. QED  BY <1>3, <2>1, PhotoFitsRoot DEF Geometry
  <1>4. CASE ~(g.root >= 700)
    <2>1. PICK p : p = [g EXCEPT !.root = FULLBLEED_FALLBACK_HEIGHT]
      OBVIOUS
    <2>2. Pinned(g) = p
      BY <1>1, <1>4, <2>1 DEF Pinned
    <2>3. DOMAIN p = {"root", "early", "kids"} /\ p.root = FULLBLEED_FALLBACK_HEIGHT /\ p.kids = g.kids
      BY <1>2, <2>1
    <2>4. AGeometry(p) /\ p.root >= 700
      BY <2>3 DEF AGeometry, FULLBLEED_FALLBACK_HEIGHT
    <2>5. \A i \in DOMAIN Fitted(p).kids : p.kids[i].image /\ p.kids[i].h = Fill
             => Fitted(p).kids[i].h = Fitted(p).root /\ Fitted(p).kids[i].crop
      BY <2>3, <2>4, PhotoFitsRoot
    <2>. QED  BY <2>2, <2>3, <2>5 DEF Geometry
  <1>. QED  BY <1>3, <1>4

-----------------------------------------------------------------------------
BodySpec == BodyInit /\ [][BodyNext]_bodyVars

Counted ==
    /\ bodies \in [Items -> Bodies] /\ DOMAIN values = Items
    /\ \A item \in Items : \A key \in DOMAIN values[item] : values[item][key] \in Int
BodyInv == Counted /\ SteppersStay

LEMMA ClampIsBetween ==
    ASSUME NEW n \in Int, NEW knobs \in KnobNumbers
    PROVE  /\ Clamp(n, knobs) \in Int
           /\ (/\ knobs.min # Unset /\ knobs.max # Unset
               /\ knobs.dfl \in knobs.min .. knobs.max) => Clamp(n, knobs) \in knobs.min .. knobs.max
  BY DEF Clamp, KnobNumbers, Unset

Wrote(item, key, n) == values' = [values EXCEPT ![item] = Stored(values[item], key, n)]

(* What a press writes, and where.                                         *)
LEMMA PressWrites ==
    ASSUME Counted, NEW item \in Items, NEW i \in DOMAIN Drawn(item), Press(item, i)
    PROVE  \E p, n :
             /\ p = Drawn(item)[i] /\ p.op = "button" /\ Says(p) /\ n \in Int
             /\ p.ev # "set" => n \in {Clamp(m, p.knobs) : m \in Int} \cup {p.knobs.dfl}
             /\ \/ values' = values
                \/ Wrote(item, KeyOfButton(p), n)
  <1>1. PICK p : p = Drawn(item)[i]
    OBVIOUS
  <1>2. Says(p) /\ p.op = "button"
    BY <1>1, DrawnSays DEF Counted, Press
  <1>. DEFINE s == State(item, KeyOfButton(p))
              now == IF s = Unset THEN p.knobs.dfl ELSE s
              n == Pressed(p, now)
  <1>3. p.knobs.dfl \in Int /\ p.knobs.step \in Int /\ p.knobs \in KnobNumbers /\ p.val \in Int
        /\ p.ev \in Buttons
    BY <1>2 DEF Says, KnobNumbers
  <1>4. s \in Int
    BY DEF State, Counted, Unset
  <1>5. now \in Int
    BY <1>3, <1>4
  <1>6. values' = IF p.ev = "set" /\ p.val = Unset THEN values
                  ELSE [values EXCEPT ![item] = Stored(values[item], KeyOfButton(p), n)]
    BY <1>1 DEF Press
  <1>. HIDE DEF now
  <1>7. n \in Int /\ (p.ev # "set" => n \in {Clamp(m, p.knobs) : m \in Int} \cup {p.knobs.dfl})
    <2>1. now + p.knobs.step \in Int /\ now - p.knobs.step \in Int
      BY <1>3, <1>5
    <2>2. CASE p.ev = "inc"
      <3>1. n = Clamp(now + p.knobs.step, p.knobs)
        BY <2>2 DEF Pressed
      <3>. HIDE DEF n
      <3>. QED  BY <1>3, <2>1, <3>1, ClampIsBetween
    <2>3. CASE p.ev = "dec"
      <3>1. n = Clamp(now - p.knobs.step, p.knobs)
        BY <2>3 DEF Pressed
      <3>. HIDE DEF n
      <3>. QED  BY <1>3, <2>1, <3>1, ClampIsBetween
    <2>4. CASE p.ev = "reset"
      BY <1>3, <2>4 DEF Pressed
    <2>5. CASE p.ev = "set"
      BY <1>3, <2>5 DEF Pressed
    <2>. QED  BY <1>3, <2>2, <2>3, <2>4, <2>5 DEF Buttons
  <1>. HIDE DEF n
  <1>8. \/ values' = values
        \/ Wrote(item, KeyOfButton(p), n)
    BY <1>6 DEF Wrote
  <1>. QED  BY <1>1, <1>2, <1>7, <1>8

(* Only the key of the button that was pressed changes, in its own card.   *)
LEMMA PressTouches ==
    ASSUME Counted, NEW item \in Items, NEW key, NEW n \in Int,
           Wrote(item, key, n)
    PROVE  /\ DOMAIN values' = Items
           /\ \A it \in Items : it # item => values'[it] = values[it]
           /\ DOMAIN values'[item] = DOMAIN values[item] \cup {key} /\ values'[item][key] = n
           /\ \A k \in DOMAIN values[item] : k # key => values'[item][k] = values[item][k]
  <1>1. DOMAIN values' = Items /\ values'[item] = Stored(values[item], key, n)
        /\ \A it \in Items : it # item => values'[it] = values[it]
    BY DEF Counted, Wrote
  <1>. QED  BY <1>1 DEF Stored

LEMMA CountedStays == ASSUME Counted, [BodyNext]_bodyVars PROVE Counted'
  <1>1. CASE UNCHANGED bodyVars
    BY <1>1 DEF Counted, bodyVars
  <1>2. ASSUME NEW item \in Items, NEW i \in DOMAIN Drawn(item), Press(item, i) PROVE Counted'
    <2>1. bodies' = bodies
      BY <1>2 DEF Press
    <2>2. PICK p, n : /\ n \in Int
                      /\ \/ values' = values
                         \/ Wrote(item, KeyOfButton(p), n)
      BY <1>2, PressWrites
    <2>3. CASE values' = values
      BY <2>1, <2>3 DEF Counted
    <2>4. CASE Wrote(item, KeyOfButton(p), n)
      <3>1. PICK key : key = KeyOfButton(p)
        OBVIOUS
      <3>2. /\ DOMAIN values' = Items
            /\ \A it \in Items : it # item => values'[it] = values[it]
            /\ DOMAIN values'[item] = DOMAIN values[item] \cup {key} /\ values'[item][key] = n
            /\ \A k \in DOMAIN values[item] : k # key => values'[item][k] = values[item][k]
        BY <2>2, <2>4, <3>1, PressTouches
      <3>3. ASSUME NEW it \in Items, NEW k \in DOMAIN values'[it] PROVE values'[it][k] \in Int
        <4>1. CASE it # item
          BY <3>2, <3>3, <4>1 DEF Counted
        <4>2. CASE it = item
          BY <2>2, <3>2, <3>3, <4>2 DEF Counted
        <4>. QED  BY <4>1, <4>2
      <3>. QED  BY <2>1, <3>2, <3>3 DEF Counted
    <2>. QED  BY <2>2, <2>3, <2>4
  <1>. QED  BY <1>1, <1>2 DEF BodyNext

LEMMA SteppersStayOn == ASSUME BodyInv, [BodyNext]_bodyVars PROVE SteppersStay'
  <1>1. CASE UNCHANGED bodyVars
    <2>1. values' = values /\ \A it \in Items : \A key : Steps(it, key)' = Steps(it, key)
      BY <1>1 DEF Steps, Drawn, Cards, KeyOfButton, bodyVars
    <2>. QED  BY <2>1 DEF BodyInv, SteppersStay, Clamped
  <1>2. ASSUME NEW item \in Items, NEW i \in DOMAIN Drawn(item), Press(item, i) PROVE SteppersStay'
    <2>1. bodies' = bodies
      BY <1>2 DEF Press
    <2>2. PICK p, n :
             /\ p = Drawn(item)[i] /\ p.op = "button" /\ Says(p) /\ n \in Int
             /\ p.ev # "set" => n \in {Clamp(m, p.knobs) : m \in Int} \cup {p.knobs.dfl}
             /\ \/ values' = values
                \/ Wrote(item, KeyOfButton(p), n)
      BY <1>2, PressWrites DEF BodyInv
    <2>0. \A it \in Items : \A key : Steps(it, key)' = Steps(it, key)
      BY <2>1 DEF Steps, Drawn, Cards, KeyOfButton
    <2>3. SUFFICES ASSUME NEW it \in Items, NEW key \in DOMAIN values'[it],
                          NEW s \in Steps(it, key), Clamped(Steps(it, key), s)
                   PROVE  values'[it][key] \in s.knobs.min .. s.knobs.max
      BY <2>0 DEF SteppersStay, Clamped
    <2>4. key \in DOMAIN values[it] => values[it][key] \in s.knobs.min .. s.knobs.max
      BY <2>3 DEF BodyInv, SteppersStay
    <2>5. CASE values' = values
      BY <2>4, <2>5
    <2>6. CASE Wrote(item, KeyOfButton(p), n)
      <3>1. PICK k : k = KeyOfButton(p)
        OBVIOUS
      <3>2. /\ \A x \in Items : x # item => values'[x] = values[x]
            /\ DOMAIN values'[item] = DOMAIN values[item] \cup {k} /\ values'[item][k] = n
            /\ \A x \in DOMAIN values[item] : x # k => values'[item][x] = values[item][x]
        BY <2>2, <2>6, <3>1, PressTouches DEF BodyInv
      <3>3. CASE it # item \/ key # k
        BY <2>4, <3>2, <3>3
      <3>4. CASE it = item /\ key = k
        <4>1. p \in Steps(it, key)
          BY <2>2, <3>1, <3>4 DEF Steps, ToSet
        <4>2. p.knobs = s.knobs /\ p.ev # "set" /\ p.knobs \in KnobNumbers
          BY <2>2, <2>3, <4>1 DEF Says, Clamped
        <4>3. n \in p.knobs.min .. p.knobs.max
          <5>1. p.knobs.min # Unset /\ p.knobs.max # Unset /\ p.knobs.dfl \in p.knobs.min .. p.knobs.max
            BY <2>3, <4>2 DEF Clamped
          <5>2. CASE n = p.knobs.dfl
            BY <5>1, <5>2
          <5>3. CASE n # p.knobs.dfl
            <6>1. PICK m \in Int : n = Clamp(m, p.knobs)
              BY <2>2, <4>2, <5>3
            <6>. QED  BY <4>2, <5>1, <6>1, ClampIsBetween
          <5>. QED  BY <5>2, <5>3
        <4>. QED  BY <3>2, <3>4, <4>2, <4>3
      <3>. QED  BY <3>3, <3>4
    <2>. QED  BY <2>2, <2>5, <2>6
  <1>. QED  BY <1>1, <1>2 DEF BodyNext

LEMMA BodyInvHolds == BodySpec => []BodyInv
  <1>1. BodyInit => BodyInv
    <2>. SUFFICES ASSUME BodyInit PROVE BodyInv
      OBVIOUS
    <2>1. \A item \in Items : values[item] = <<>> /\ DOMAIN values[item] = {}
      BY DEF BodyInit
    <2>2. Counted
      BY <2>1 DEF BodyInit, Counted
    <2>3. SteppersStay
      BY <2>1 DEF SteppersStay
    <2>. QED  BY <2>2, <2>3 DEF BodyInv
  <1>2. BodyInv /\ [BodyNext]_bodyVars => BodyInv'
    BY CountedStays, SteppersStayOn DEF BodyInv
  <1>. QED  BY <1>1, <1>2, PTL DEF BodySpec

(* Of every set of cards, nested in each other as they may be: what a card *)
(* binds and wires reads and writes its own state, its bounded counters    *)
(* stay bounded, and its photos are as high as its root (ComposedAsWritten *)
(* of CardBody).                                                           *)
THEOREM CardsAreAsWritten == BodySpec => []ComposedAsWritten
  <1>1. BodyInv => ComposedAsWritten
    <2>. SUFFICES ASSUME BodyInv PROVE ComposedAsWritten
      OBVIOUS
    <2>1. WiringIsTheHosts
      BY DrawnSays DEF BodyInv, Counted, WiringIsTheHosts, Says
    <2>2. PhotoCoversCard
      <3>1. \A item \in Items : AGeometry(bodies[item].geometry)
        BY CardsAssumption DEF BodyInv, Counted
      <3>. QED  BY <3>1, PhotosCover DEF PhotoCoversCard
    <2>. QED  BY <2>1, <2>2 DEF BodyInv, ComposedAsWritten
  <1>. QED  BY <1>1, BodyInvHolds, PTL

(* A press changes what its own card shows and nothing else, for all cards *)
(* embedded in each other and all presses (PressIsLocal of CardBody).      *)
THEOREM PressesStayLocal == BodySpec => PressIsLocal
  <1>1. ASSUME BodyInv, NEW item \in Items, NEW i \in DOMAIN Drawn(item), Press(item, i),
               Drawn(item)[i].key # <<>> \/ Drawn(item)[i].author = 0,
               NEW it \in Items, NEW j \in DOMAIN Drawn(it),
               it # item \/ Drawn(it)[j].author # Drawn(item)[i].author
        PROVE  TextOf(it, Drawn(it)[j]) = TextOf(it, Drawn(it)[j])'
    <2>1. PICK p, n :
             /\ p = Drawn(item)[i] /\ p.op = "button" /\ Says(p) /\ n \in Int
             /\ \/ values' = values
                \/ Wrote(item, KeyOfButton(p), n)
      BY <1>1, PressWrites DEF BodyInv
    <2>2. PICK q : q = Drawn(it)[j]
      OBVIOUS
    <2>3. q = Drawn(it)[j]' /\ bodies' = bodies
      BY <1>1, <2>2 DEF Press, Drawn, Cards
    <2>4. Says(q)
      BY <1>1, <2>2, DrawnSays DEF BodyInv, Counted
    <2>5. PICK k : k = KeyOfButton(p)
      OBVIOUS
    <2>6. q.op = "read" /\ it = item => q.key # k
      <3>. SUFFICES ASSUME q.op = "read", it = item, q.key = k PROVE FALSE
        OBVIOUS
      <3>1. q.author # p.author
        BY <1>1, <2>1, <2>2
      <3>2. Len(<<"count">>) = 1 /\ <<"count">> # <<>>
        OBVIOUS
      <3>3. k # <<>> /\ p.author \in Nat /\ Scoped(k, p.author)
        <4>1. CASE p.key # <<>>
          BY <2>1, <2>5, <4>1 DEF Says, KeyOfButton
        <4>2. CASE p.key = <<>>
          <5>1. p.author = 0 /\ k = <<"count">>
            BY <1>1, <2>1, <2>5, <4>2 DEF KeyOfButton
          <5>. QED  BY <3>2, <5>1 DEF Scoped
        <4>. QED  BY <4>1, <4>2
      <3>4. q.author \in Nat /\ Scoped(k, q.author)
        BY <2>4, <3>3 DEF Says
      <3>5. Prefix(q.author) = Prefix(p.author) => q.author = p.author
        BY DEF Prefix
      <3>6. CASE q.author = 0 \/ p.author = 0
        <4>1. Len(k) = 1 /\ Len(k) >= 2
          BY <3>1, <3>3, <3>4, <3>6 DEF Scoped
        <4>2. ~(1 >= 2)
          OBVIOUS
        <4>. QED  BY <4>1, <4>2, Zenon
      <3>7. CASE q.author # 0 /\ p.author # 0
        <4>1. k[1] = Prefix(q.author) /\ k[1] = Prefix(p.author)
          BY <3>3, <3>4, <3>7 DEF Scoped
        <4>. QED  BY <3>1, <3>5, <4>1
      <3>. QED  BY <3>6, <3>7
    <2>7. q.op = "read" => State(it, q.key)' = State(it, q.key)
      <3>. SUFFICES ASSUME q.op = "read" PROVE State(it, q.key)' = State(it, q.key)
        OBVIOUS
      <3>1. CASE values' = values
        BY <3>1 DEF State
      <3>2. CASE Wrote(item, KeyOfButton(p), n)
        <4>1. /\ \A x \in Items : x # item => values'[x] = values[x]
              /\ DOMAIN values'[item] = DOMAIN values[item] \cup {k}
              /\ \A x \in DOMAIN values[item] : x # k => values'[item][x] = values[item][x]
          BY <1>1, <2>1, <2>5, <3>2, PressTouches DEF BodyInv
        <4>. QED  BY <2>6, <4>1 DEF State
      <3>. QED  BY <2>1, <3>1, <3>2
    <2>8. TextOf(it, q)' = TextOf(it, q)
      BY <2>7 DEF TextOf
    <2>. QED  BY <2>2, <2>3, <2>8
  <1>2. BodyInv /\ [BodyNext]_bodyVars =>
        [\A item \in Items : \A i \in DOMAIN Drawn(item) :
         LET b == Drawn(item)[i] IN
         Press(item, i) /\ (b.key # <<>> \/ b.author = 0) =>
           \A it \in Items : \A j \in DOMAIN Drawn(it) :
             LET p == Drawn(it)[j] IN
             (it # item \/ p.author # b.author) => TextOf(it, p) = TextOf(it, p)']_values
    BY <1>1
  <1>. QED  BY <1>2, BodyInvHolds, PTL DEF BodySpec, PressIsLocal

-----------------------------------------------------------------------------
(* Plans. *)
PlanSpec == PlanInit /\ [][PlanNext]_planVars

(* Each directory holds lowerings of plans that were accepted. *)
PlanInv ==
    /\ \A name \in DOMAIN archived : archived[name].card = Lower(archived[name].plan)
    /\ \A name \in DOMAIN published :
         /\ published[name].plan \in Plans /\ Accepted(published[name].plan)
         /\ published[name].card = Plain(published[name].plan)

(* Two sections agree when the second is the first but for what the native *)
(* renderer lacks, and nothing in it is taken for a call.                  *)
Agrees(widgets, nodes, s) ==
    /\ nodes = (widgets \ Missing(s)) \cup Instead(s)
    /\ \A item \in nodes : item # Own(CallLike)

-----------------------------------------------------------------------------
LEMMA CallsAreNoText == \A h, a, w : Live(h, a) # Own(w)
  BY DEF Live, Own

LEMMA CallsDiffer ==
    \A h, a, k, b : Live(h, a) = Live(k, b) <=> h = k /\ a = b
  BY DEF Live

LEMMA WordingsAreTheirs ==
    ASSUME NEW v, NEW block, NEW field, NEW zh, v # CallLike, block # "own"
    PROVE  /\ Wording(v, block, field, zh) # Own(CallLike)
           /\ \A h, a : Wording(v, block, field, zh) # Live(h, a)
  BY DEF Wording, Own, Live

LEMMA AsWritten ==
    ASSUME NEW S, \A item \in S : item # Own(CallLike) PROVE {Written(n) : n \in S} = S
  BY DEF Written

-----------------------------------------------------------------------------
LEMMA WeatherAgrees ==
    ASSUME NEW s, NEW zh, s.block \notin Unplotted, ~RefusedSection("weather", s)
    PROVE  Agrees(WeatherSection(s, zh), WeatherNodes(s, zh), s)
  <1>1. s.block \in {"CurrentConditions", "Forecast", "AirQualityField", "SunMoon", "Details"}
    BY DEF RefusedSection, Unplotted
  <1>2. CASE s.block = "CurrentConditions"
    <2>1. WeatherSection(s, zh) = Conditions /\ WeatherNodes(s, zh) = Conditions
      BY <1>2 DEF WeatherSection, WeatherNodes
    <2>2. Missing(s) = {} /\ Instead(s) = {}
      BY <1>2 DEF Missing, Instead
    <2>3. \A item \in Conditions : item # Own(CallLike)
      BY CallsAreNoText DEF Conditions, Lives
    <2>. QED  BY <2>1, <2>2, <2>3 DEF Agrees
  <1>3. CASE s.block = "Forecast"
    <2>. DEFINE S == UNION {ForecastRow(d) : d \in 0 .. Within(Or(s.args.count, 7), 1, 7) - 1}
    <2>1. WeatherSection(s, zh) = S /\ WeatherNodes(s, zh) = S
      BY <1>3 DEF WeatherSection, WeatherNodes, DaysFor
    <2>2. Missing(s) = {} /\ Instead(s) = {}
      BY <1>3 DEF Missing, Instead
    <2>3. \A d : \A item \in ForecastRow(d) : item # Own(CallLike)
      BY CallsAreNoText DEF ForecastRow
    <2>4. \A item \in S : item # Own(CallLike)
      BY <2>3
    <2>. HIDE DEF S
    <2>. QED  BY <2>1, <2>2, <2>4 DEF Agrees
  <1>4. CASE s.block = "AirQualityField"
    <2>. DEFINE w == Wording(NoValue, s.block, "caption", zh)
                map == {Live("basemap", <<>>), Live("aqicontour", <<>>)}
    <2>1. WeatherSection(s, zh) = map \cup {w} /\ WeatherNodes(s, zh) = {TileCall("aqi"), w}
      BY <1>4 DEF WeatherSection, WeatherNodes
    <2>2. Missing(s) = map /\ Instead(s) = {TileCall("aqi")}
      BY <1>4 DEF Missing, Instead
    <2>3. w # Own(CallLike) /\ w \notin map
      BY <1>4 DEF Wording, Own, Live, CallLike
    <2>4. TileCall("aqi") # Own(CallLike)
      BY CallsAreNoText DEF TileCall
    <2>. HIDE DEF w, map
    <2>. QED  BY <2>1, <2>2, <2>3, <2>4 DEF Agrees
  <1>5. CASE s.block = "SunMoon"
    <2>. DEFINE S == SunAndMoon(zh) \cup {Wording(NoValue, s.block, "caption", zh)}
    <2>1. WeatherSection(s, zh) = S /\ WeatherNodes(s, zh) = S
      BY <1>5 DEF WeatherSection, WeatherNodes
    <2>2. Missing(s) = {} /\ Instead(s) = {}
      BY <1>5 DEF Missing, Instead
    <2>3. \A item \in SunAndMoon(zh) : item # Own(CallLike)
      BY CallsAreNoText DEF SunAndMoon, Lives
    <2>4. Wording(NoValue, s.block, "caption", zh) # Own(CallLike)
      BY <1>5 DEF Wording, Own, CallLike
    <2>5. \A item \in S : item # Own(CallLike)
      BY <2>3, <2>4
    <2>. HIDE DEF S
    <2>. QED  BY <2>1, <2>2, <2>5 DEF Agrees
  <1>6. CASE s.block = "Details"
    <2>. DEFINE N == ToSet(s.args.names)
    <2>1. WeatherSection(s, zh) = {TileCall(k) : k \in N}
      BY <1>6 DEF WeatherSection
    <2>2. WeatherNodes(s, zh) = {TileCall(k) : k \in N \cap (Tiles \ {"pressure"})}
      BY <1>6 DEF WeatherNodes, TileNodes
    <2>3. N \subseteq Tiles
      BY <1>6 DEF RefusedSection
    <2>4. Missing(s) = {TileCall("pressure")} /\ Instead(s) = {}
      BY <1>6 DEF Missing, Instead
    <2>5. \A k : TileCall(k) # Own(CallLike)
      BY CallsAreNoText DEF TileCall
    <2>6. \A k : TileCall(k) = TileCall("pressure") => k = "pressure"
      BY DEF TileCall, Live
    <2>. HIDE DEF N
    <2>7. WeatherNodes(s, zh) = WeatherSection(s, zh) \ {TileCall("pressure")}
      BY <2>1, <2>2, <2>3, <2>6
    <2>8. \A item \in WeatherNodes(s, zh) : item # Own(CallLike)
      BY <2>2, <2>5
    <2>. QED  BY <2>4, <2>7, <2>8 DEF Agrees
  <1>. QED  BY <1>1, <1>2, <1>3, <1>4, <1>5, <1>6

LEMMA NewsAgrees ==
    ASSUME NEW s, NEW zh, ~RefusedSection("news", s),
           s.args.title # CallLike, s.args.label # CallLike
    PROVE  Agrees(NewsSection(s, zh), NewsNodes(s, zh), s)
  <1>1. s.block \in {"Masthead", "LeadStory", "StoryFeed"}
    BY DEF RefusedSection
  <1>2. \A r : \A item \in Story(r) : item # Own(CallLike)
    BY CallsAreNoText DEF Story
  <1>3. CASE s.block = "Masthead"
    <2>. DEFINE S == {Wording(s.args.label, s.block, "label", zh), Wording(s.args.title, s.block, "title", zh)}
    <2>1. NewsSection(s, zh) = S /\ NewsNodes(s, zh) = S
      BY <1>3 DEF NewsSection, NewsNodes
    <2>2. Missing(s) = {} /\ Instead(s) = {}
      BY <1>3 DEF Missing, Instead
    <2>3. \A item \in S : item # Own(CallLike)
      BY <1>3, WordingsAreTheirs
    <2>. HIDE DEF S
    <2>. QED  BY <2>1, <2>2, <2>3 DEF Agrees
  <1>4. CASE s.block = "LeadStory"
    <2>. DEFINE S == {Live("news", <<0, "comments">>), Live("news", <<0, "url">>)}
    <2>1. NewsSection(s, zh) = Story(0) \cup S /\ NewsNodes(s, zh) = Story(0)
      BY <1>4 DEF NewsSection, NewsNodes
    <2>2. Missing(s) = S /\ Instead(s) = {}
      BY <1>4 DEF Missing, Instead
    <2>3. Story(0) \cap S = {}
      BY CallsDiffer DEF Story
    <2>. HIDE DEF S
    <2>. QED  BY <1>2, <2>1, <2>2, <2>3 DEF Agrees
  <1>5. CASE s.block = "StoryFeed"
    <2>. DEFINE T == Stories(Within(Or(s.args.count, 7), 1, 20))
                w == Wording(s.args.label, s.block, "label", zh)
    <2>1. NewsSection(s, zh) = T \cup {w} /\ NewsNodes(s, zh) = T \cup {w}
      BY <1>5 DEF NewsSection, NewsNodes, StoriesFor
    <2>2. Missing(s) = {} /\ Instead(s) = {}
      BY <1>5 DEF Missing, Instead
    <2>3. w # Own(CallLike)
      BY <1>5, WordingsAreTheirs
    <2>4. \A item \in T : item # Own(CallLike)
      BY <1>2 DEF Stories
    <2>. HIDE DEF T, w
    <2>. QED  BY <2>1, <2>2, <2>3, <2>4 DEF Agrees
  <1>. QED  BY <1>1, <1>3, <1>4, <1>5

LEMMA StockAgrees ==
    ASSUME NEW s, NEW zh, s.block \notin Unplotted, ~RefusedSection("stock", s),
           s.args.title # CallLike, s.args.label # CallLike
    PROVE  Agrees(StockSection(s, zh), StockNodes(s, zh), s)
  <1>1. s.block \in {"MoversList", "QuoteHeader", "StatGrid"}
    BY DEF RefusedSection, Unplotted
  <1>2. CASE s.block = "MoversList"
    <2>. DEFINE T == MoversRows(Within(Or(s.args.count, 10), 1, 10), s.args.names)
                W == {Wording(s.args.label, s.block, "label", zh), Wording(s.args.title, s.block, "title", zh)}
    <2>1. StockSection(s, zh) = T \cup W /\ StockNodes(s, zh) = T \cup W
      BY <1>2 DEF StockSection, StockNodes, MoversFor, Universe
    <2>2. Missing(s) = {} /\ Instead(s) = {}
      BY <1>2 DEF Missing, Instead
    <2>3. \A item \in W : item # Own(CallLike)
      BY <1>2, WordingsAreTheirs
    <2>4. \A r, u : \A item \in MoversRow(r, u) : item # Own(CallLike)
      BY CallsAreNoText DEF MoversRow
    <2>5. \A item \in T : item # Own(CallLike)
      BY <2>4 DEF MoversRows
    <2>. HIDE DEF T, W
    <2>. QED  BY <2>1, <2>2, <2>3, <2>5 DEF Agrees
  <1>3. CASE s.block = "QuoteHeader"
    <2>. DEFINE range == OrText(s.args.range, "1d")
                S == {Live("stock", <<s.args.ticker, "currency">>), Live("stockrange", <<s.args.ticker, range, "up">>)}
                Q == Quote(s.args.ticker, range)
    <2>1. StockSection(s, zh) = Q \cup S /\ StockNodes(s, zh) = Q
      BY <1>3 DEF StockSection, StockNodes
    <2>2. Missing(s) = S /\ Instead(s) = {}
      BY <1>3 DEF Missing, Instead
    <2>3. Q \cap S = {}
      BY CallsDiffer DEF Quote
    <2>4. \A item \in Q : item # Own(CallLike)
      BY CallsAreNoText DEF Quote
    <2>. HIDE DEF S, Q
    <2>. QED  BY <2>1, <2>2, <2>3, <2>4 DEF Agrees
  <1>4. CASE s.block = "StatGrid"
    <2>. DEFINE N == ToSet(s.args.names)
                G == {Live("stock", <<s.args.ticker, k>>) : k \in N}
    <2>1. StockSection(s, zh) = G
      BY <1>4 DEF StockSection
    <2>2. N \subseteq Stats
      BY <1>4 DEF RefusedSection
    <2>3. StockNodes(s, zh) = {Live("stock", <<s.args.ticker, k>>) : k \in N \cap Stats}
      BY <1>4 DEF StockNodes
    <2>4. Missing(s) = {} /\ Instead(s) = {}
      BY <1>4 DEF Missing, Instead
    <2>5. \A item \in G : item # Own(CallLike)
      BY CallsAreNoText
    <2>6. StockNodes(s, zh) = G
      <3>. HIDE DEF N
      <3>1. N \cap Stats = N
        BY <2>2
      <3>. QED  BY <2>3, <3>1
    <2>. HIDE DEF G
    <2>. QED  BY <2>1, <2>4, <2>5, <2>6 DEF Agrees
  <1>. QED  BY <1>1, <1>2, <1>3, <1>4

(* Section by section, an accepted plan's two lowerings agree. *)
LEMMA SectionsAgree ==
    ASSUME NEW plan, Accepted(plan), NEW i \in DOMAIN plan.sections,
           plan.sections[i].block \notin Unplotted,
           CallLike \notin {plan.sections[i].args.title, plan.sections[i].args.label}
    PROVE  {Written(n) : n \in SectionNodes(plan, i)}
             = (Section(plan, i) \ Missing(plan.sections[i])) \cup Instead(plan.sections[i])
  <1>. DEFINE s == plan.sections[i]
  <1>1. plan.kind \in {"weather", "news", "stock"} /\ ~RefusedSection(plan.kind, s)
    BY DEF Accepted
  <1>2. s.block \notin Unplotted /\ s.args.title # CallLike /\ s.args.label # CallLike
    OBVIOUS
  <1>3. Agrees(Section(plan, i), SectionNodes(plan, i), s)
    <2>1. CASE plan.kind = "weather"
      BY <1>1, <1>2, <2>1, WeatherAgrees DEF Section, SectionNodes
    <2>2. CASE plan.kind = "news"
      BY <1>1, <1>2, <2>2, NewsAgrees DEF Section, SectionNodes
    <2>3. CASE plan.kind = "stock"
      BY <1>1, <1>2, <2>3, StockAgrees DEF Section, SectionNodes
    <2>. QED  BY <1>1, <2>1, <2>2, <2>3
  <1>. HIDE DEF s
  <1>. QED  BY <1>3, AsWritten DEF Agrees, s

-----------------------------------------------------------------------------
LEMMA PlansInitially == PlanInit => PlanInv
  BY DEF PlanInit, PlanInv

LEMMA PlansKeep == PlanInv /\ [PlanNext]_planVars => PlanInv'
  <1>. SUFFICES ASSUME PlanInv, [PlanNext]_planVars PROVE PlanInv'
    OBVIOUS
  <1>1. CASE UNCHANGED planVars
    BY <1>1 DEF planVars, PlanInv
  <1>2. ASSUME NEW plan \in Plans, SavePlan(plan) PROVE PlanInv'
    <2>. DEFINE name == NameOfPlan(plan)
    <2>1. /\ Accepted(plan)
          /\ \/ published' = published
             \/ published' = Put2(published, name, [plan |-> plan, card |-> Plain(plan)])
          /\ \/ archived' = archived
             \/ archived' = Put2(archived, name, [plan |-> plan, card |-> Lower(plan)])
      BY <1>2 DEF SavePlan
    <2>. HIDE DEF name
    <2>2. \A n \in DOMAIN archived' : archived'[n].card = Lower(archived'[n].plan)
      BY <2>1 DEF PlanInv, Put2
    <2>3. \A n \in DOMAIN published' :
            /\ published'[n].plan \in Plans /\ Accepted(published'[n].plan)
            /\ published'[n].card = Plain(published'[n].plan)
      BY <2>1 DEF PlanInv, Put2
    <2>. QED  BY <2>2, <2>3 DEF PlanInv
  <1>. QED  BY <1>1, <1>2 DEF PlanNext

LEMMA PlansAgree == PlanInv => BackendsAgree
  <1>. SUFFICES ASSUME PlanInv, NEW name \in DOMAIN archived \cap DOMAIN published,
                       published[name].plan = archived[name].plan,
                       NEW i \in 1 .. Len(archived[name].plan.sections),
                       archived[name].plan.sections[i].block \notin Unplotted,
                       CallLike \notin {archived[name].plan.sections[i].args.title,
                                        archived[name].plan.sections[i].args.label}
                PROVE  published[name].card[i]
                         = (archived[name].card[i] \ Missing(archived[name].plan.sections[i]))
                             \cup Instead(archived[name].plan.sections[i])
    BY DEF BackendsAgree
  <1>1. PICK plan : plan = archived[name].plan
    OBVIOUS
  <1>2. plan \in Plans /\ Accepted(plan)
        /\ archived[name].card = Lower(plan) /\ published[name].card = Plain(plan)
    BY <1>1 DEF PlanInv
  <1>3. Len(plan.sections) \in Nat /\ DOMAIN plan.sections = 1 .. Len(plan.sections)
    BY <1>2, PlansAssumption, LenProperties
  <1>4. i \in DOMAIN plan.sections /\ i \in 0 .. Len(plan.sections) /\ i # 0
    BY <1>1, <1>3
  <1>5. archived[name].card[i] = Section(plan, i)
    BY <1>2, <1>4 DEF Lower
  <1>6. published[name].card[i] = {Written(n) : n \in SectionNodes(plan, i)}
    BY <1>2, <1>4 DEF Plain
  <1>7. {Written(n) : n \in SectionNodes(plan, i)}
          = (Section(plan, i) \ Missing(plan.sections[i])) \cup Instead(plan.sections[i])
    BY <1>1, <1>2, <1>4, SectionsAgree
  <1>. QED  BY <1>1, <1>5, <1>6, <1>7

(* Of every section whose title and label are not calls, the two lowerings *)
(* draw the same live calls and say the same, but for what a backend has   *)
(* no block for (plan/nodes.rs, common.rs).                                *)
THEOREM BothBackendsAgree == PlanSpec => []BackendsAgree
  BY PlansInitially, PlansKeep, PlansAgree, PTL DEF PlanSpec

-----------------------------------------------------------------------------
NativeSpec == NativeInit /\ [][NativeNext]_nativeVars

Versions == 0 .. Len(Forecasts)
Haves == [Urls -> Versions]
Reads == [field : Fields, value : {Value(f, have) : f \in Fields, have \in Haves}]
Evals == [stage : {"new", "eval", "encoded", "shown", "freed"}, field : Fields \cup {"none"},
          todo : Seq(Urls), asks : Urls \cup {"none"}, have : Haves, got : Seq(Reads), failed : BOOLEAN]

NativeTypes ==
    /\ service \in 1 .. Len(Forecasts) /\ cache \in Haves /\ clash \subseteq Urls
    /\ evals \in [Renders -> Evals]

(* What has been read of a forecast that one answer brought. *)
OfForecast(v) == [NoAnswers EXCEPT !["forecast"] = v]

(* A request is the next one of the field being read, and leaves room for it. *)
ReadOK(e) ==
    /\ Len(e.got) <= MaxReads /\ (e.field # "none" => Len(e.got) < MaxReads)
    /\ e.asks # "none" => e.field # "none" /\ e.todo # <<>> /\ e.asks = Head(e.todo)
    /\ e.field \in Weather => e.todo = <<>> \/ (e.todo = <<"forecast">> /\ e.have = NoAnswers)

(* While no two evaluations asked at once, one asks for the forecast, and  *)
(* only while the cache has none: the forecast that came first is read by  *)
(* every evaluation none of whose requests failed.                         *)
OneAsks ==
    /\ \A q, r \in Renders : evals[q].asks = "forecast" /\ evals[r].asks = "forecast" => q = r
    /\ cache["forecast"] # 0 => \A r \in Renders : evals[r].asks # "forecast"
ReadFirst(e) ==
    ~e.failed =>
      /\ e.field \in Weather /\ e.todo = <<>> =>
           cache["forecast"] # 0 /\ e.have = OfForecast(cache["forecast"])
      /\ \A i \in DOMAIN e.got : e.got[i].field \in Weather =>
           cache["forecast"] # 0 /\ e.got[i].value = Value(e.got[i].field, OfForecast(cache["forecast"]))

NativeInv ==
    /\ NativeTypes /\ \A r \in Renders : ReadOK(evals[r])
    /\ "forecast" \notin clash => OneAsks /\ \A r \in Renders : ReadFirst(evals[r])

-----------------------------------------------------------------------------
LEMMA NativeConstants ==
    /\ Symbols \in Seq(Urls) /\ <<"forecast">> \in Seq(Urls) /\ "forecast" \in Urls
    /\ "none" \notin Urls /\ "none" \notin Fields /\ NoAnswers \in Haves
    /\ Len(Forecasts) \in Nat \ {0} /\ MaxReads \in Nat
    /\ \A f \in Fields : Needs(f) \in Seq(Urls)
    /\ \A f \in Weather : Needs(f) = <<"forecast">>
  <1>1. Len(Forecasts) \in Nat \ {0} /\ MaxReads \in Nat /\ "none" \notin Fields
    BY NativeCardAssumption, LenProperties, EmptySeq
  <1>2. Symbols \in [1 .. Len(Symbols) -> Urls] /\ Len(Symbols) \in Nat
    BY NativeCardAssumption, LenProperties DEF Urls, ToSet
  <1>3. Symbols \in Seq(Urls) /\ <<"forecast">> \in Seq(Urls) /\ "forecast" \in Urls
    BY <1>2, SeqDef DEF Urls
  <1>4. "none" \notin Urls
    BY NativeCardAssumption DEF Urls
  <1>5. NoAnswers \in Haves
    BY <1>1 DEF NoAnswers, Haves, Versions
  <1>6. (\A f \in Fields : Needs(f) \in Seq(Urls)) /\ \A f \in Weather : Needs(f) = <<"forecast">>
    BY <1>3 DEF Needs
  <1>. QED  BY <1>1, <1>3, <1>4, <1>5, <1>6

LEMMA FirstOfTodo ==
    ASSUME NEW e \in Evals, e.todo # <<>>
    PROVE  Head(e.todo) \in Urls /\ Tail(e.todo) \in Seq(Urls) /\ Head(e.todo) # "none"
           /\ (e.todo = <<"forecast">> => Head(e.todo) = "forecast" /\ Tail(e.todo) = <<>>)
  <1>1. e.todo \in Seq(Urls)
    BY DEF Evals
  <1>2. Head(e.todo) \in Urls /\ Tail(e.todo) \in Seq(Urls)
    BY <1>1, HeadTailProperties
  <1>3. Head(<<"forecast">>) = "forecast" /\ Tail(<<"forecast">>) = <<>>
    OBVIOUS
  <1>. QED  BY <1>2, <1>3, NativeConstants

LEMMA NativeInitially == NativeInit => NativeInv
  <1>. SUFFICES ASSUME NativeInit PROVE NativeInv
    OBVIOUS
  <1>1. Start \in Evals /\ Start.got = <<>> /\ Start.asks = "none" /\ Start.field = "none"
    BY NativeConstants, EmptySeq DEF Start, Evals
  <1>2. NativeTypes
    BY <1>1, NativeConstants DEF NativeInit, NativeTypes
  <1>3. ReadOK(Start)
    BY <1>1, NativeConstants DEF ReadOK, Weather
  <1>4. ReadFirst(Start)
    BY <1>1, NativeConstants DEF ReadFirst, Weather
  <1>5. OneAsks
    BY <1>1, NativeConstants DEF NativeInit, OneAsks, NoAnswers
  <1>. QED  BY <1>2, <1>3, <1>4, <1>5 DEF NativeInit, NativeInv

-----------------------------------------------------------------------------
(* A step that changes one evaluation and leaves the cache alone: what is  *)
(* to be said of that evaluation only.                                     *)
LEMMA OneEvaluation ==
    ASSUME NativeInv, NEW r \in Renders, NEW e \in Evals, evals' = [evals EXCEPT ![r] = e],
           UNCHANGED <<service, cache>>, clash' \subseteq Urls, clash \subseteq clash',
           ReadOK(e), "forecast" \notin clash' => ReadFirst(e),
           e.asks = "forecast" /\ "forecast" \notin clash' =>
             \/ evals[r].asks = "forecast"
             \/ cache["forecast"] = 0 /\ \A q \in Renders : evals[q].asks # "forecast"
    PROVE  NativeInv'
  <1>1. NativeTypes'
    BY DEF NativeInv, NativeTypes
  <1>2. evals'[r] = e /\ \A q \in Renders : q # r => evals'[q] = evals[q]
    BY DEF NativeInv, NativeTypes
  <1>3. \A q \in Renders : ReadOK(evals'[q])
    BY <1>2 DEF NativeInv
  <1>4. ASSUME "forecast" \notin clash'
        PROVE  OneAsks' /\ \A q \in Renders : ReadFirst(evals[q])'
    <2>1. OneAsks /\ \A q \in Renders : ReadFirst(evals[q])
      BY <1>4 DEF NativeInv
    <2>2. \A q \in Renders : ReadFirst(evals'[q])
      BY <1>2, <1>4, <2>1
    <2>3. \A q \in Renders : ReadFirst(evals[q])'
      BY <2>2 DEF ReadFirst
    <2>4. OneAsks'
      BY <1>2, <1>4, <2>1 DEF OneAsks
    <2>. QED  BY <2>3, <2>4
  <1>5. \A q \in Renders : ReadOK(evals[q])'
    BY <1>3 DEF ReadOK
  <1>. QED  BY <1>1, <1>4, <1>5 DEF NativeInv

LEMMA ViewsCreated == ASSUME NativeInv, NEW r \in Renders, CreateView(r) PROVE NativeInv'
  <1>. DEFINE e == [evals[r] EXCEPT !.stage = "eval"]
  <1>1. evals' = [evals EXCEPT ![r] = e] /\ evals[r] \in Evals
    BY DEF CreateView, NativeInv, NativeTypes
  <1>2. e \in Evals /\ e.asks = evals[r].asks /\ e.got = evals[r].got /\ e.todo = evals[r].todo
        /\ e.field = evals[r].field /\ e.have = evals[r].have /\ e.failed = evals[r].failed
    BY <1>1 DEF Evals
  <1>. HIDE DEF e
  <1>3. ReadOK(e) /\ ("forecast" \notin clash => ReadFirst(e))
    BY <1>2 DEF NativeInv, ReadOK, ReadFirst
  <1>. QED  BY <1>1, <1>2, <1>3, OneEvaluation DEF CreateView, NativeInv, NativeTypes

LEMMA Encodes == ASSUME NativeInv, NEW r \in Renders, Encode(r) \/ ShowTree(r) PROVE NativeInv'
  <1>1. PICK st \in {"encoded", "shown", "freed"} : evals' = [evals EXCEPT ![r].stage = st]
    BY DEF Encode, ShowTree
  <1>. DEFINE e == [evals[r] EXCEPT !.stage = st]
  <1>2. evals' = [evals EXCEPT ![r] = e] /\ evals[r] \in Evals
    BY <1>1 DEF NativeInv, NativeTypes
  <1>3. e \in Evals /\ e.asks = evals[r].asks /\ e.got = evals[r].got /\ e.todo = evals[r].todo
        /\ e.field = evals[r].field /\ e.have = evals[r].have /\ e.failed = evals[r].failed
    BY <1>2 DEF Evals
  <1>. HIDE DEF e
  <1>4. ReadOK(e) /\ ("forecast" \notin clash => ReadFirst(e))
    BY <1>3 DEF NativeInv, ReadOK, ReadFirst
  <1>5. UNCHANGED <<service, cache, clash>>
    BY DEF Encode, ShowTree
  <1>. QED  BY <1>2, <1>3, <1>4, <1>5, OneEvaluation DEF NativeInv, NativeTypes

LEMMA FieldsRead == ASSUME NativeInv, NEW r \in Renders, NEW f \in Fields, ReadField(r, f) PROVE NativeInv'
  <1>. DEFINE e == [evals[r] EXCEPT !.field = f, !.todo = Needs(f), !.have = NoAnswers]
  <1>1. evals' = [evals EXCEPT ![r] = e] /\ evals[r] \in Evals
    BY DEF ReadField, NativeInv, NativeTypes
  <1>2. e \in Evals /\ e.asks = evals[r].asks /\ e.got = evals[r].got /\ e.todo = Needs(f)
        /\ e.field = f /\ e.have = NoAnswers /\ e.failed = evals[r].failed
    BY <1>1, NativeConstants DEF Evals
  <1>. HIDE DEF e
  <1>3. evals[r].field = "none" /\ evals[r].asks = "none" /\ Len(evals[r].got) < MaxReads
    BY DEF ReadField, NativeInv, ReadOK
  <1>4. ReadOK(e)
    BY <1>2, <1>3, NativeConstants DEF NativeInv, ReadOK
  <1>5. "forecast" \notin clash => ReadFirst(e)
    <2>1. f \in Weather => e.todo # <<>>
      <3>1. <<"forecast">> # <<>>
        OBVIOUS
      <3>. QED  BY <1>2, <3>1, NativeConstants
    <2>. QED  BY <1>2, <2>1 DEF NativeInv, ReadFirst
  <1>6. UNCHANGED <<service, cache, clash>> /\ e.asks # "forecast"
    BY <1>2, <1>3 DEF ReadField
  <1>. QED  BY <1>1, <1>2, <1>4, <1>5, <1>6, OneEvaluation DEF NativeInv, NativeTypes

LEMMA Hits == ASSUME NativeInv, NEW r \in Renders, Hit(r) PROVE NativeInv'
  <1>. DEFINE u == Next1(r)
              e == [evals[r] EXCEPT !.todo = Tail(@), !.have[u] = cache[u]]
  <1>1. evals' = [evals EXCEPT ![r] = e] /\ evals[r] \in Evals /\ UNCHANGED <<service, cache, clash>>
    BY DEF Hit, NativeInv, NativeTypes
  <1>2. evals[r].field # "none" /\ evals[r].asks = "none" /\ evals[r].todo # <<>> /\ cache[u] # 0
    BY DEF Hit, Ready
  <1>3. u \in Urls /\ Tail(evals[r].todo) \in Seq(Urls) /\ u = Head(evals[r].todo)
        /\ (evals[r].todo = <<"forecast">> => u = "forecast" /\ Tail(evals[r].todo) = <<>>)
    BY <1>1, <1>2, FirstOfTodo DEF Next1
  <1>4. [evals[r].have EXCEPT ![u] = cache[u]] \in Haves
    BY <1>1, <1>3 DEF NativeInv, NativeTypes, Haves, Evals
  <1>5. e \in Evals /\ e.asks = "none" /\ e.got = evals[r].got /\ e.todo = Tail(evals[r].todo)
        /\ e.field = evals[r].field /\ e.have = [evals[r].have EXCEPT ![u] = cache[u]]
        /\ e.failed = evals[r].failed
    BY <1>1, <1>2, <1>3, <1>4 DEF Evals
  <1>. HIDE DEF e, u
  <1>6. e.field \in Weather =>
          /\ e.todo = <<>> /\ cache["forecast"] # 0 /\ e.have = OfForecast(cache["forecast"])
    <2>. SUFFICES ASSUME e.field \in Weather
                  PROVE  e.todo = <<>> /\ cache["forecast"] # 0 /\ e.have = OfForecast(cache["forecast"])
      OBVIOUS
    <2>1. evals[r].todo = <<"forecast">> /\ evals[r].have = NoAnswers
      BY <1>2, <1>5 DEF NativeInv, ReadOK
    <2>. QED  BY <1>2, <1>3, <1>5, <2>1 DEF OfForecast
  <1>7. ReadOK(e)
    BY <1>2, <1>5, <1>6 DEF NativeInv, ReadOK
  <1>8. "forecast" \notin clash => ReadFirst(e)
    BY <1>5, <1>6 DEF NativeInv, ReadFirst
  <1>9. "none" # "forecast"
    OBVIOUS
  <1>. QED  BY <1>1, <1>5, <1>7, <1>8, <1>9, OneEvaluation DEF NativeInv, NativeTypes

LEMMA RequestAsked == ASSUME NativeInv, NEW r \in Renders, AskFor(r) PROVE NativeInv'
  <1>. DEFINE u == Next1(r)
              e == [evals[r] EXCEPT !.asks = u]
  <1>1. evals' = [evals EXCEPT ![r] = e] /\ evals[r] \in Evals /\ UNCHANGED <<service, cache>>
    BY DEF AskFor, NativeInv, NativeTypes
  <1>2. evals[r].field # "none" /\ evals[r].todo # <<>> /\ cache[u] = 0
    BY DEF AskFor, Ready
  <1>3. u \in Urls /\ u = Head(evals[r].todo)
    BY <1>1, <1>2, FirstOfTodo DEF Next1
  <1>4. e \in Evals /\ e.asks = u /\ e.got = evals[r].got /\ e.todo = evals[r].todo
        /\ e.field = evals[r].field /\ e.have = evals[r].have /\ e.failed = evals[r].failed
    BY <1>1, <1>3 DEF Evals
  <1>5. clash' = IF \E q \in Renders : evals[q].asks = u THEN clash \cup {u} ELSE clash
    BY DEF AskFor
  <1>. HIDE DEF e, u
  <1>6. clash \subseteq clash' /\ clash' \subseteq Urls
        /\ (u \notin clash' => \A q \in Renders : evals[q].asks # u)
    BY <1>3, <1>5 DEF NativeInv, NativeTypes
  <1>7. ReadOK(e)
    BY <1>2, <1>3, <1>4 DEF NativeInv, ReadOK
  <1>8. "forecast" \notin clash' => ReadFirst(e)
    BY <1>4, <1>6 DEF NativeInv, ReadFirst
  <1>. QED  BY <1>1, <1>2, <1>4, <1>6, <1>7, <1>8, OneEvaluation

LEMMA ReadingEnds == ASSUME NativeInv, NEW r \in Renders, ReadEnds(r) PROVE NativeInv'
  <1>. DEFINE g == [field |-> evals[r].field, value |-> Value(evals[r].field, evals[r].have)]
              e == [evals[r] EXCEPT !.field = "none", !.got = Append(@, g)]
  <1>1. evals' = [evals EXCEPT ![r] = e] /\ evals[r] \in Evals /\ UNCHANGED <<service, cache, clash>>
    BY DEF ReadEnds, NativeInv, NativeTypes
  <1>2. evals[r].field # "none" /\ evals[r].asks = "none" /\ evals[r].todo = <<>>
    BY DEF ReadEnds
  <1>3. g \in Reads
    BY <1>1, <1>2 DEF Reads, Evals
  <1>4. evals[r].got \in Seq(Reads)
    BY <1>1 DEF Evals
  <1>. HIDE DEF g
  <1>5. /\ Append(evals[r].got, g) \in Seq(Reads)
        /\ Len(Append(evals[r].got, g)) = Len(evals[r].got) + 1 /\ Len(evals[r].got) \in Nat
        /\ \A i \in DOMAIN Append(evals[r].got, g) :
             Append(evals[r].got, g)[i] = g
             \/ (i \in DOMAIN evals[r].got /\ Append(evals[r].got, g)[i] = evals[r].got[i])
    <2>1. \A i \in 1 .. Len(evals[r].got) + 1 : i = Len(evals[r].got) + 1 \/ i \in 1 .. Len(evals[r].got)
      BY <1>4, LenProperties
    <2>. QED  BY <1>3, <1>4, <2>1, AppendProperties, Appended
  <1>6. e \in Evals /\ e.asks = "none" /\ e.got = Append(evals[r].got, g) /\ e.todo = evals[r].todo
        /\ e.field = "none" /\ e.have = evals[r].have /\ e.failed = evals[r].failed
    BY <1>1, <1>2, <1>5 DEF Evals
  <1>. HIDE DEF e
  <1>7. Len(evals[r].got) < MaxReads
    BY <1>2 DEF NativeInv, ReadOK
  <1>8. ReadOK(e)
    BY <1>5, <1>6, <1>7, NativeConstants DEF ReadOK, Weather
  <1>9. ASSUME "forecast" \notin clash, ~e.failed, NEW i \in DOMAIN e.got, e.got[i].field \in Weather
        PROVE  cache["forecast"] # 0 /\ e.got[i].value = Value(e.got[i].field, OfForecast(cache["forecast"]))
    <2>1. ReadFirst(evals[r]) /\ ~evals[r].failed
      BY <1>6, <1>9 DEF NativeInv
    <2>2. CASE e.got[i] = g
      <3>1. evals[r].field \in Weather /\ e.got[i].value = Value(evals[r].field, evals[r].have)
            /\ e.got[i].field = evals[r].field
        BY <1>9, <2>2 DEF g
      <3>. QED  BY <1>2, <2>1, <3>1 DEF ReadFirst
    <2>3. CASE i \in DOMAIN evals[r].got /\ e.got[i] = evals[r].got[i]
      BY <1>9, <2>1, <2>3 DEF ReadFirst
    <2>. QED  BY <1>5, <1>6, <2>2, <2>3
  <1>10. "forecast" \notin clash => ReadFirst(e)
    BY <1>6, <1>9, NativeConstants DEF ReadFirst, Weather
  <1>11. "none" # "forecast"
    OBVIOUS
  <1>. QED  BY <1>1, <1>6, <1>8, <1>10, <1>11, OneEvaluation DEF NativeInv, NativeTypes

(* A request ends with v, 0 when it failed. *)
Ended(e, v, b) == [e EXCEPT !.asks = "none", !.todo = Tail(@), !.have[e.asks] = v, !.failed = b]

LEMMA Answering ==
    ASSUME NativeInv, NEW r \in Renders, NEW v \in Versions, evals[r].asks # "none",
           NEW b \in BOOLEAN, NEW e, e = Ended(evals[r], v, b)
    PROVE  /\ e \in Evals /\ e.asks = "none" /\ e.got = evals[r].got /\ e.failed = b
           /\ e.field = evals[r].field /\ ReadOK(e)
           /\ e.field \in Weather => e.todo = <<>> /\ evals[r].asks = "forecast" /\ e.have = OfForecast(v)
  <1>. DEFINE u == evals[r].asks
  <1>1. evals[r] \in Evals /\ ReadOK(evals[r])
    BY DEF NativeInv, NativeTypes
  <1>2. evals[r].field # "none" /\ evals[r].todo # <<>> /\ u = Head(evals[r].todo)
    BY <1>1 DEF ReadOK
  <1>3. u \in Urls /\ Tail(evals[r].todo) \in Seq(Urls)
        /\ (evals[r].todo = <<"forecast">> => u = "forecast" /\ Tail(evals[r].todo) = <<>>)
    BY <1>1, <1>2, FirstOfTodo
  <1>4. [evals[r].have EXCEPT ![u] = v] \in Haves
    BY <1>1, <1>3 DEF Haves, Evals
  <1>5. e \in Evals /\ e.asks = "none" /\ e.got = evals[r].got /\ e.todo = Tail(evals[r].todo)
        /\ e.field = evals[r].field /\ e.have = [evals[r].have EXCEPT ![u] = v]
        /\ e.failed = b
    BY <1>1, <1>2, <1>3, <1>4 DEF Evals, Ended
  <1>6. e.field \in Weather => e.todo = <<>> /\ u = "forecast" /\ e.have = OfForecast(v)
    BY <1>1, <1>2, <1>3, <1>5 DEF ReadOK, OfForecast
  <1>7. ReadOK(e)
    BY <1>1, <1>2, <1>5, <1>6 DEF ReadOK
  <1>. QED  BY <1>5, <1>6, <1>7

LEMMA Fails == ASSUME NativeInv, NEW r \in Renders, FailedRead(r) PROVE NativeInv'
  <1>0. PICK b \in BOOLEAN : b = TRUE
    OBVIOUS
  <1>. DEFINE e == Ended(evals[r], 0, b)
  <1>1. evals[r].asks # "none" /\ UNCHANGED <<service, cache, clash>>
    BY DEF FailedRead
  <1>2. evals' = [evals EXCEPT ![r] = e]
    BY <1>0 DEF FailedRead, Answers, Ended, NativeInv, NativeTypes
  <1>3. 0 \in Versions
    BY NativeConstants DEF Versions
  <1>. HIDE DEF e
  <1>4. e \in Evals /\ e.asks = "none" /\ e.failed = b /\ ReadOK(e)
    <2>1. e = Ended(evals[r], 0, b)
      BY DEF e
    <2>2. PICK v \in Versions : v = 0
      BY <1>3
    <2>3. e = Ended(evals[r], v, b)
      BY <2>1, <2>2
    <2>4. b \in BOOLEAN /\ evals[r].asks # "none"
      BY <1>0, <1>1
    <2>5. /\ e \in Evals /\ e.asks = "none" /\ e.got = evals[r].got /\ e.failed = b
          /\ e.field = evals[r].field /\ ReadOK(e)
      BY <2>2, <2>3, <2>4, Answering
    <2>. QED  BY <2>5
  <1>5. ReadFirst(e)
    BY <1>0, <1>4 DEF ReadFirst
  <1>6. "none" # "forecast"
    OBVIOUS
  <1>. QED  BY <1>1, <1>2, <1>4, <1>5, <1>6, OneEvaluation DEF NativeInv, NativeTypes

LEMMA Arrives == ASSUME NativeInv, NEW r \in Renders, Answered(r) PROVE NativeInv'
  <1>1. PICK u : u = evals[r].asks
    OBVIOUS
  <1>2. PICK v : v = Version(u)
    OBVIOUS
  <1>. DEFINE e == Ended(evals[r], v, evals[r].failed)
  <1>3. u # "none" /\ cache' = [cache EXCEPT ![u] = v] /\ UNCHANGED <<service, clash>>
    BY <1>1, <1>2 DEF Answered, Insert
  <1>4. evals[r] \in Evals /\ u \in Urls /\ evals \in [Renders -> Evals] /\ cache \in Haves
    BY <1>1, <1>3 DEF NativeInv, NativeTypes, Evals
  <1>5. evals' = [evals EXCEPT ![r] = e]
    <2>1. evals' = [evals EXCEPT ![r].asks = "none", ![r].todo = Tail(@), ![r].have[u] = v]
      BY <1>1, <1>2 DEF Answered, Answers
    <2>2. [evals[r] EXCEPT !.asks = "none", !.todo = Tail(@), !.have[u] = v] = e
      BY <1>1, <1>4 DEF Evals, Ended
    <2>. QED  BY <2>1, <2>2, <1>4
  <1>6. v \in Versions /\ v # 0 /\ (u = "forecast" => v = service)
    BY <1>2, NativeConstants DEF Version, Versions, NativeInv, NativeTypes
  <1>7. evals[r].failed \in BOOLEAN
    BY <1>4 DEF Evals
  <1>8. /\ e \in Evals /\ e.asks = "none" /\ e.got = evals[r].got /\ e.failed = evals[r].failed
        /\ e.field = evals[r].field /\ ReadOK(e)
        /\ e.field \in Weather => e.todo = <<>> /\ u = "forecast" /\ e.have = OfForecast(v)
    <2>1. e = Ended(evals[r], v, evals[r].failed)
      BY DEF e
    <2>2. evals[r].asks # "none"
      BY <1>1, <1>3
    <2>. HIDE DEF e
    <2>3. /\ e \in Evals /\ e.asks = "none" /\ e.got = evals[r].got /\ e.failed = evals[r].failed
          /\ e.field = evals[r].field /\ ReadOK(e)
          /\ e.field \in Weather => e.todo = <<>> /\ evals[r].asks = "forecast" /\ e.have = OfForecast(v)
      BY <1>6, <1>7, <2>1, <2>2, Answering
    <2>. QED  BY <1>1, <2>3
  <1>. HIDE DEF e
  <1>9. cache' \in Haves /\ cache'[u] = v /\ \A w \in Urls : w # u => cache'[w] = cache[w]
    BY <1>3, <1>4, <1>6 DEF Haves
  <1>10. NativeTypes'
    BY <1>3, <1>4, <1>5, <1>8, <1>9 DEF NativeInv, NativeTypes
  <1>11. evals'[r] = e /\ \A q \in Renders : q # r => evals'[q] = evals[q]
    BY <1>4, <1>5
  <1>12. \A q \in Renders : ReadOK(evals[q])'
    BY <1>8, <1>11 DEF NativeInv, ReadOK
  <1>13. ASSUME "forecast" \notin clash
         PROVE  OneAsks' /\ \A q \in Renders : ReadFirst(evals[q])'
    <2>1. OneAsks /\ \A q \in Renders : ReadFirst(evals[q])
      BY <1>13 DEF NativeInv
    <2>2. CASE u = "forecast"
      <3>1. cache["forecast"] = 0 /\ \A q \in Renders : q # r => evals[q].asks # "forecast"
        BY <1>1, <2>1, <2>2 DEF OneAsks
      <3>2. OneAsks'
        BY <1>8, <1>11, <3>1 DEF OneAsks
      <3>3. cache'["forecast"] = v
        BY <1>9, <2>2
      <3>4. ASSUME NEW q \in Renders PROVE ReadFirst(evals[q])'
        <4>1. CASE q = r
          <5>1. ~e.failed => \A i \in DOMAIN e.got : e.got[i].field \notin Weather
            BY <1>8, <2>1, <3>1 DEF ReadFirst
          <5>. QED  BY <1>6, <1>8, <1>11, <3>3, <4>1, <5>1 DEF ReadFirst
        <4>2. CASE q # r
          <5>1. ~evals[q].failed =>
                  /\ ~(evals[q].field \in Weather /\ evals[q].todo = <<>>)
                  /\ \A i \in DOMAIN evals[q].got : evals[q].got[i].field \notin Weather
            BY <2>1, <3>1 DEF ReadFirst
          <5>. QED  BY <1>11, <4>2, <5>1 DEF ReadFirst
        <4>. QED  BY <4>1, <4>2
      <3>. QED  BY <3>2, <3>4
    <2>3. CASE u # "forecast"
      <3>1. cache'["forecast"] = cache["forecast"]
        BY <1>9, <2>3, NativeConstants
      <3>2. OneAsks'
        BY <1>8, <1>11, <2>1, <3>1 DEF OneAsks
      <3>3. ASSUME NEW q \in Renders PROVE ReadFirst(evals[q])'
        <4>1. CASE q = r
          BY <1>8, <1>11, <2>1, <2>3, <3>1, <4>1 DEF ReadFirst
        <4>2. CASE q # r
          BY <1>11, <2>1, <3>1, <4>2 DEF ReadFirst
        <4>. QED  BY <4>1, <4>2
      <3>. QED  BY <3>2, <3>3
    <2>. QED  BY <2>2, <2>3
  <1>. QED  BY <1>3, <1>10, <1>12, <1>13 DEF NativeInv

LEMMA NativeKeeps == NativeInv /\ [CardNext]_cardReads => NativeInv'
  <1>. SUFFICES ASSUME NativeInv, [CardNext]_cardReads PROVE NativeInv'
    OBVIOUS
  <1>1. CASE UNCHANGED <<cache, evals, clash>> /\ service' \in 1 .. Len(Forecasts)
    BY <1>1 DEF NativeInv, NativeTypes, ReadOK, OneAsks, ReadFirst
  <1>2. CASE UNCHANGED cardReads
    BY <1>1, <1>2 DEF cardReads, NativeInv, NativeTypes
  <1>3. CASE ServiceMoves
    BY <1>1, <1>3, NativeConstants DEF ServiceMoves, NativeInv, NativeTypes
  <1>. QED  BY <1>2, <1>3, ViewsCreated, Hits, RequestAsked, Arrives, Fails, ReadingEnds, Encodes,
                FieldsRead DEF CardNext

LEMMA NativeTypesHold == NativeInv => NativeTypeOK
  <1>. SUFFICES ASSUME NativeInv PROVE NativeTypeOK
    OBVIOUS
  <1>1. cache \in [Urls -> 0 .. Len(Forecasts)]
    BY DEF NativeInv, NativeTypes, Haves, Versions
  <1>2. \A r \in Renders : Len(evals[r].got) <= MaxReads /\ evals[r].asks \in Urls \cup {"none"}
    BY DEF NativeInv, NativeTypes, Evals, ReadOK
  <1>. QED  BY <1>1, <1>2 DEF NativeInv, NativeTypes, NativeTypeOK

LEMMA OneForecast == NativeInv => ReadsAgree
  <1>. SUFFICES ASSUME NativeInv, NEW r \in Renders, ~evals[r].failed, "forecast" \notin clash
                PROVE  \E v \in 1 .. Len(Forecasts) :
                         \A i \in DOMAIN evals[r].got :
                            evals[r].got[i].field \in Weather =>
                               evals[r].got[i].value = Value(evals[r].got[i].field, OfForecast(v))
    BY DEF ReadsAgree, OfForecast
  <1>1. ReadFirst(evals[r])
    BY DEF NativeInv
  <1>2. cache["forecast"] \in 0 .. Len(Forecasts)
    BY NativeConstants DEF NativeInv, NativeTypes, Haves, Versions
  <1>3. CASE cache["forecast"] # 0
    <2>1. cache["forecast"] \in 1 .. Len(Forecasts)
      BY <1>2, <1>3, NativeConstants
    <2>. QED  BY <1>1, <2>1 DEF ReadFirst
  <1>4. CASE cache["forecast"] = 0
    <2>1. 1 \in 1 .. Len(Forecasts)
      BY NativeConstants
    <2>2. \A i \in DOMAIN evals[r].got : evals[r].got[i].field \notin Weather
      BY <1>1, <1>4 DEF ReadFirst
    <2>. QED  BY <2>1, <2>2
  <1>. QED  BY <1>3, <1>4

LEMMA NativeStays == NativeInv /\ [NativeNext]_nativeVars => NativeInv'
  BY NativeKeeps DEF NativeNext, nativeVars, cardReads

(* The cache, its requests and what each evaluation has read keep their    *)
(* shapes (fetch.rs, lib.rs).                                              *)
THEOREM NativeTypeCorrect == NativeSpec => []NativeTypeOK
  BY NativeInitially, NativeStays, NativeTypesHold, PTL DEF NativeSpec

(* One card shows one forecast: what it reads of the sky and of the week   *)
(* is of one answer, however often the service moves on between its reads  *)
(* and however the evaluations of other cards fill the cache; unless a     *)
(* request failed or two asked at once (fetch.rs).                         *)
THEOREM OneForecastEach == NativeSpec => []ReadsAgree
  BY NativeInitially, NativeStays, OneForecast, PTL DEF NativeSpec

-----------------------------------------------------------------------------
(* The days of the years before y, which begin in March, and of a year's   *)
(* months before m.                                                        *)
YearStart(y) == (y \div 400) * 146097
                + ((y - (y \div 400) * 400) * 365 + (y - (y \div 400) * 400) \div 4 - (y - (y \div 400) * 400) \div 100)
MonthStart(m) == (153 * (IF m > 2 THEN m - 3 ELSE m + 9) + 2) \div 5

(* From the 1st of March of year 0 to the 1st of January 1970. *)
Epoch == 719469

LEMMA Parts ==
    ASSUME NEW y \in Int, NEW m \in 1..12, NEW d \in Int
    PROVE  DaysFromCivil(y, m, d) = YearStart(IF m <= 2 THEN y - 1 ELSE y) + MonthStart(m) + d - Epoch
  <1>1. PICK x \in Int : x = IF m <= 2 THEN y - 1 ELSE y
    OBVIOUS
  <1>2. DaysFromCivil(y, m, d) = (x \div 400) * 146097
          + ((x - (x \div 400) * 400) * 365 + (x - (x \div 400) * 400) \div 4 - (x - (x \div 400) * 400) \div 100
             + (MonthStart(m) + d - 1)) - 719468
    BY <1>1 DEF DaysFromCivil, MonthStart
  <1>. QED  BY <1>1, <1>2, SMT DEF YearStart, MonthStart, Epoch

LEMMA EpochIsInt == Epoch \in Int
  BY SMT DEF Epoch

LEMMA YearsFollow ==
    ASSUME NEW y \in Int
    PROVE  YearStart(y + 1) = YearStart(y) + (IF Leap(y + 1) THEN 366 ELSE 365)
  <1>1. PICK e \in Int, r \in 0..399 : y = 400 * e + r
    <2>1. y = 400 * (y \div 400) + (y % 400) /\ y % 400 \in 0..399 /\ y \div 400 \in Int
      OBVIOUS
    <2>. QED  BY <2>1
  <1>2. y \div 400 = e
    BY <1>1
  <1>3. YearStart(y) = e * 146097 + (r * 365 + r \div 4 - r \div 100)
    BY <1>1, <1>2 DEF YearStart
  <1>4. CASE r = 399
    <2>1. (y + 1) \div 400 = e + 1 /\ (y + 1) % 400 = 0
      BY <1>1, <1>4
    <2>2. YearStart(y + 1) = (e + 1) * 146097
      BY <1>1, <1>4, <2>1 DEF YearStart
    <2>. QED  BY <1>3, <1>4, <2>1, <2>2 DEF Leap
  <1>5. CASE r # 399
    <2>1. (y + 1) \div 400 = e
      BY <1>1, <1>5
    <2>2. YearStart(y + 1) = e * 146097 + ((r + 1) * 365 + (r + 1) \div 4 - (r + 1) \div 100)
      BY <1>1, <2>1 DEF YearStart
    <2>3. (y + 1) % 4 = (r + 1) % 4 /\ (y + 1) % 100 = (r + 1) % 100 /\ (y + 1) % 400 # 0
      BY <1>1, <1>5
    <2>4. (r + 1) \div 4 = r \div 4 + (IF (r + 1) % 4 = 0 THEN 1 ELSE 0)
      OBVIOUS
    <2>5. (r + 1) \div 100 = r \div 100 + (IF (r + 1) % 100 = 0 THEN 1 ELSE 0)
      OBVIOUS
    <2>6. (r + 1) % 100 = 0 => (r + 1) % 4 = 0
      OBVIOUS
    <2>. QED  BY <1>3, <2>2, <2>3, <2>4, <2>5, <2>6 DEF Leap
  <1>. QED  BY <1>4, <1>5

(* Over the end of a month or not, from one day to the next it is one. *)
LEMMA DaysFollow ==
    ASSUME NEW y \in Int, NEW m \in 1..12, NEW d \in 1..31, d <= LastOf(y, m)
    PROVE  LET t == Tomorrow(<<y, m, d>>) IN
           /\ t \in Dates
           /\ DaysFromCivil(t[1], t[2], t[3]) = DaysFromCivil(y, m, d) + 1
  <1>1. CASE d < LastOf(y, m)
    <2>1. Tomorrow(<<y, m, d>>) = <<y, m, d + 1>>
      BY <1>1 DEF Tomorrow
    <2>2. d + 1 \in 1..31
      BY <1>1 DEF LastOf
    <2>3. DaysFromCivil(y, m, d + 1) = DaysFromCivil(y, m, d) + 1
      <3>1. YearStart(IF m <= 2 THEN y - 1 ELSE y) \in Int /\ MonthStart(m) \in Int
        BY DEF YearStart, MonthStart
      <3>2. PICK x : x = YearStart(IF m <= 2 THEN y - 1 ELSE y)
        OBVIOUS
      <3>3. DaysFromCivil(y, m, d + 1) = x + MonthStart(m) + (d + 1) - Epoch
        BY <2>2, <3>2, Parts
      <3>4. DaysFromCivil(y, m, d) = x + MonthStart(m) + d - Epoch
        BY <3>2, Parts
      <3>. QED  BY <3>1, <3>2, <3>3, <3>4, EpochIsInt
    <2>4. d + 1 <= LastOf(y, m)
      BY <1>1 DEF LastOf
    <2>. QED  BY <2>1, <2>2, <2>3, <2>4 DEF Dates
  <1>2. CASE d = LastOf(y, m) /\ m < 12
    <2>1. Tomorrow(<<y, m, d>>) = <<y, m + 1, 1>>
      BY <1>2 DEF Tomorrow
    <2>2. <<y, m + 1, 1>> \in Dates
      BY <1>2 DEF Dates, LastOf
    <2>3. DaysFromCivil(y, m + 1, 1) = DaysFromCivil(y, m, d) + 1
      <3>1. YearStart(y) = YearStart(y - 1) + (IF Leap(y) THEN 366 ELSE 365)
        <4>1. y - 1 \in Int /\ (y - 1) + 1 = y
          OBVIOUS
        <4>. QED  BY <4>1, YearsFollow
      <3>2. YearStart(y) \in Int /\ YearStart(y - 1) \in Int
        BY DEF YearStart
      <3>3. CASE m = 2
        <4>1. d = IF Leap(y) THEN 29 ELSE 28
          BY <1>2, <3>3 DEF LastOf
        <4>2. MonthStart(2) = 337 /\ MonthStart(3) = 0
          BY DEF MonthStart
        <4>3. DaysFromCivil(y, 3, 1) = YearStart(y) + MonthStart(3) + 1 - Epoch
          BY Parts
        <4>4. DaysFromCivil(y, 2, d) = YearStart(y - 1) + MonthStart(2) + d - Epoch
          BY Parts
        <4>. QED  BY <3>1, <3>2, <3>3, <4>1, <4>2, <4>3, <4>4, EpochIsInt
      <3>4. CASE m # 2
        <4>1. MonthStart(m + 1) = MonthStart(m) + d
          BY <1>2, <3>4 DEF MonthStart, LastOf
        <4>2. MonthStart(m) \in Int
          BY DEF MonthStart
        <4>3. PICK x \in {y - 1, y} : x = (IF m <= 2 THEN y - 1 ELSE y) /\ x = (IF m + 1 <= 2 THEN y - 1 ELSE y)
          BY <3>4
        <4>4. DaysFromCivil(y, m + 1, 1) = YearStart(x) + MonthStart(m + 1) + 1 - Epoch
          BY <1>2, <4>3, Parts
        <4>5. DaysFromCivil(y, m, d) = YearStart(x) + MonthStart(m) + d - Epoch
          BY <4>3, Parts
        <4>6. YearStart(x) \in Int
          BY <3>2, <4>3
        <4>. QED  BY <4>1, <4>2, <4>4, <4>5, <4>6, EpochIsInt
      <3>. QED  BY <3>3, <3>4
    <2>. QED  BY <2>1, <2>2, <2>3
  <1>3. CASE d = LastOf(y, m) /\ m = 12
    <2>1. Tomorrow(<<y, m, d>>) = <<y + 1, 1, 1>>
      BY <1>3 DEF Tomorrow
    <2>2. <<y + 1, 1, 1>> \in Dates
      BY DEF Dates, LastOf
    <2>3. DaysFromCivil(y + 1, 1, 1) = DaysFromCivil(y, m, d) + 1
      <3>1. d = 31 /\ MonthStart(1) = 306 /\ MonthStart(12) = 275
        BY <1>3 DEF LastOf, MonthStart
      <3>2. YearStart(y) \in Int
        BY DEF YearStart
      <3>3. DaysFromCivil(y + 1, 1, 1) = YearStart((y + 1) - 1) + MonthStart(1) + 1 - Epoch
        BY Parts
      <3>4. DaysFromCivil(y, 12, d) = YearStart(y) + MonthStart(12) + d - Epoch
        BY Parts
      <3>. QED  BY <1>3, <3>1, <3>2, <3>3, <3>4, EpochIsInt
    <2>. QED  BY <2>1, <2>2, <2>3
  <1>4. LastOf(y, m) \in 28..31
    BY DEF LastOf
  <1>. QED  BY <1>1, <1>2, <1>3, <1>4

(* The weekday a forecast's date is given moves on by one from each day to *)
(* the next, on every day of the calendar: month ends, leap days and       *)
(* centuries (fetch.rs, days_from_civil).                                  *)
THEOREM CalendarMovesOn == NativeSpec => CalendarAgrees
  <1>. DEFINE Nr(d) == DaysFromCivil(d[1], d[2], d[3])
  <1>1. NativeInit => date \in Dates
    BY CalendarAssumption DEF NativeInit
  <1>2. ASSUME date \in Dates, DayPasses PROVE date' \in Dates /\ Nr(date') = Nr(date) + 1
    <2>1. PICK y \in Int, m \in 1..12, d \in 1..31 : date = <<y, m, d>> /\ d <= LastOf(y, m)
      BY <1>2 DEF Dates
    <2>2. PICK t : t = Tomorrow(<<y, m, d>>)
      OBVIOUS
    <2>3. t \in Dates /\ DaysFromCivil(t[1], t[2], t[3]) = DaysFromCivil(y, m, d) + 1
      BY <2>1, <2>2, DaysFollow
    <2>4. date' = t
      BY <1>2, <2>1, <2>2 DEF DayPasses
    <2>. QED  BY <2>1, <2>3, <2>4
  <1>3. date \in Dates /\ [NativeNext]_nativeVars => (date \in Dates)'
    BY <1>2 DEF NativeNext, nativeVars
  <1>4. date \in Dates /\ [NativeNext]_nativeVars => [Nr(date') = Nr(date) + 1]_date
    BY <1>2 DEF NativeNext, nativeVars
  <1>. QED  BY <1>1, <1>3, <1>4, PTL DEF NativeSpec, CalendarAgrees

-----------------------------------------------------------------------------
(***************************************************************************)
(* Texts.  What the display makes of a text is followed block by block.  A *)
(* block is where its fences are, so the same tokens in another place have *)
(* the same blocks (the Shift lemmas).  The scans are unfolded once; what  *)
(* they leave is clean and tidy by induction over the tokens left to read. *)
(* A tidy text's blocks are whole but for a last one: of what has come of  *)
(* an answer, lowering its plan, holding back what is unfinished and       *)
(* taking out what is barred each keep it tidy (CardText).                 *)
(***************************************************************************)
(* What a text is made of.                                                 *)
OwnTokens == {CloseFence, SplashFence, LineEnd, Notice, Building, Code, NameLine(PlanName)}
TextTokens == OwnTokens \cup UNION {ToSet(d) : d \in Drafts}

(* i is where an element of S first comes from a place on.                 *)
FirstAt(t, from, S, i) == i \in from .. Len(t) /\ t[i] \in S /\ \A j \in from .. i - 1 : t[j] \notin S
FenceAt(t, from, i) == i \in from .. Len(t) /\ IsFence(t[i]) /\ \A j \in from .. i - 1 : ~IsFence(t[j])

LEMMA FirstIs ==
    ASSUME NEW T, NEW t \in Seq(T), NEW from \in Nat \ {0}, NEW S
    PROVE  \/ First(t, from, S) = 0 /\ \A j \in from .. Len(t) : t[j] \notin S
           \/ First(t, from, S) \in Nat \ {0} /\ FirstAt(t, from, S, First(t, from, S))
  <1>. DEFINE hits == {i \in from .. Len(t) : t[i] \in S}
  <1>1. hits \in SUBSET Nat /\ Len(t) \in Nat
    OBVIOUS
  <1>2. First(t, from, S) = IF hits = {} THEN 0 ELSE CHOOSE i \in hits : \A j \in hits : i <= j
    BY DEF First
  <1>3. CASE hits = {}
    BY <1>2, <1>3
  <1>4. CASE hits # {}
    <2>1. \E i \in hits : \A j \in hits : i <= j
      <3>. HIDE DEF hits
      <3>. QED  BY <1>1, <1>4, Least
    <2>2. PICK i : i = First(t, from, S)
      OBVIOUS
    <2>3. i \in hits /\ \A j \in hits : i <= j
      <3>. HIDE DEF hits
      <3>. QED  BY <1>2, <1>4, <2>1, <2>2
    <2>4. FirstAt(t, from, S, i) /\ i \in Nat \ {0}
      BY <1>1, <2>3 DEF FirstAt
    <2>. QED  BY <2>2, <2>4
  <1>. QED  BY <1>3, <1>4

LEMMA FirstUnique ==
    ASSUME NEW T, NEW t \in Seq(T), NEW from \in Nat \ {0}, NEW S, NEW i, FirstAt(t, from, S, i)
    PROVE  First(t, from, S) = i
  <1>1. Len(t) \in Nat /\ i \in Nat
    BY DEF FirstAt
  <1>2. First(t, from, S) # 0
    BY FirstIs DEF FirstAt
  <1>3. PICK k : k = First(t, from, S)
    OBVIOUS
  <1>4. FirstAt(t, from, S, k) /\ k \in Nat
    BY <1>2, <1>3, FirstIs
  <1>. QED  BY <1>1, <1>3, <1>4 DEF FirstAt

LEMMA NoFirst ==
    ASSUME NEW T, NEW t \in Seq(T), NEW from \in Nat \ {0}, NEW S, \A j \in from .. Len(t) : t[j] \notin S
    PROVE  First(t, from, S) = 0
  BY FirstIs DEF FirstAt

LEMMA ClosesIs ==
    ASSUME NEW T, NEW t \in Seq(T), NEW from \in Nat \ {0}
    PROVE  \/ Closes(t, from) = 0 /\ \A j \in from .. Len(t) : ~IsFence(t[j])
           \/ Closes(t, from) \in Nat \ {0} /\ FenceAt(t, from, Closes(t, from))
  <1>1. \A j \in from .. Len(t) : t[j] \in AnyFence(t) <=> IsFence(t[j])
    BY DEF AnyFence
  <1>2. PICK c : c = Closes(t, from)
    OBVIOUS
  <1>3. \/ c = 0 /\ \A j \in from .. Len(t) : t[j] \notin AnyFence(t)
        \/ c \in Nat \ {0} /\ FirstAt(t, from, AnyFence(t), c)
    BY <1>2, FirstIs DEF Closes
  <1>4. CASE c = 0 /\ \A j \in from .. Len(t) : t[j] \notin AnyFence(t)
    BY <1>1, <1>2, <1>4
  <1>5. CASE c \in Nat \ {0} /\ FirstAt(t, from, AnyFence(t), c)
    <2>1. c \in from .. Len(t) /\ t[c] \in AnyFence(t) /\ \A j \in from .. c - 1 : t[j] \notin AnyFence(t)
      BY <1>5 DEF FirstAt
    <2>2. \A j \in from .. c - 1 : j \in from .. Len(t)
      BY <2>1
    <2>3. FenceAt(t, from, c)
      BY <1>1, <2>1, <2>2 DEF FenceAt
    <2>. QED  BY <1>2, <1>5, <2>3
  <1>. QED  BY <1>3, <1>4, <1>5

LEMMA ClosesUnique ==
    ASSUME NEW T, NEW t \in Seq(T), NEW from \in Nat \ {0}, NEW c, FenceAt(t, from, c)
    PROVE  Closes(t, from) = c
  <1>1. PICK k : k = Closes(t, from)
    OBVIOUS
  <1>2. \/ k = 0 /\ \A j \in from .. Len(t) : ~IsFence(t[j])
        \/ k \in Nat \ {0} /\ FenceAt(t, from, k)
    BY <1>1, ClosesIs
  <1>3. Len(t) \in Nat /\ c \in Nat
    BY DEF FenceAt
  <1>. QED  BY <1>1, <1>2, <1>3 DEF FenceAt

LEMMA NoCloses ==
    ASSUME NEW T, NEW t \in Seq(T), NEW from \in Nat \ {0}, \A j \in from .. Len(t) : ~IsFence(t[j])
    PROVE  Closes(t, from) = 0
  BY ClosesIs DEF FenceAt

-----------------------------------------------------------------------------
(* Blocks. *)
(* The three ways a block may end, and where.                              *)
Line == {LineEnd}
LEMMA BlockIs ==
    ASSUME NEW T, NEW t \in Seq(T), NEW i \in Nat
    PROVE  \/ /\ Block(t, i).close = 0
              /\ \/ \A j \in i + 1 .. Len(t) : t[j] \notin Line
                 \/ \E l \in Nat \ {0} : /\ FirstAt(t, i + 1, Line, l)
                                        /\ \A j \in l + 1 .. Len(t) : ~IsFence(t[j])
           \/ \E l, c \in Nat \ {0} :
                /\ FirstAt(t, i + 1, Line, l) /\ FenceAt(t, l + 1, c)
                /\ Block(t, i).close = c /\ Block(t, i).body = SubSeq(t, l + 1, c - 1)
  <1>1. PICK l : l = First(t, i + 1, Line)
    OBVIOUS
  <1>2. PICK c : c = Closes(t, l + 1)
    OBVIOUS
  <1>3. i + 1 \in Nat \ {0}
    OBVIOUS
  <1>4. \/ l = 0 /\ \A j \in i + 1 .. Len(t) : t[j] \notin Line
        \/ l \in Nat \ {0} /\ FirstAt(t, i + 1, Line, l)
    BY <1>1, <1>3, FirstIs
  <1>5. CASE l = 0 /\ \A j \in i + 1 .. Len(t) : t[j] \notin Line
    <2>1. Block(t, i).close = 0
      BY <1>1, <1>5 DEF Block, Line
    <2>. QED  BY <1>5, <2>1
  <1>6. CASE l \in Nat \ {0} /\ FirstAt(t, i + 1, Line, l)
    <2>1. /\ Block(t, i).close = c
          /\ Block(t, i).body = SubSeq(t, l + 1, IF c = 0 THEN Len(t) ELSE c - 1)
      BY <1>1, <1>2, <1>6 DEF Block, Line
    <2>2. \/ c = 0 /\ \A j \in l + 1 .. Len(t) : ~IsFence(t[j])
          \/ c \in Nat \ {0} /\ FenceAt(t, l + 1, c)
      <3>1. l + 1 \in Nat \ {0}
        BY <1>6
      <3>. QED  BY <1>2, <3>1, ClosesIs
    <2>3. CASE c = 0 /\ \A j \in l + 1 .. Len(t) : ~IsFence(t[j])
      BY <1>6, <2>1, <2>3
    <2>4. CASE c \in Nat \ {0} /\ FenceAt(t, l + 1, c)
      BY <1>6, <2>1, <2>4
    <2>. QED  BY <2>2, <2>3, <2>4
  <1>. QED  BY <1>4, <1>5, <1>6

LEMMA BlockClosed ==
    ASSUME NEW T, NEW t \in Seq(T), NEW i \in Nat, NEW l, NEW c,
           FirstAt(t, i + 1, Line, l), FenceAt(t, l + 1, c)
    PROVE  Block(t, i).close = c /\ Block(t, i).body = SubSeq(t, l + 1, c - 1)
  <1>1. i + 1 \in Nat \ {0} /\ l \in Nat /\ l + 1 \in Nat \ {0} /\ l # 0 /\ c \in Nat /\ c # 0
    BY DEF FirstAt, FenceAt
  <1>2. First(t, i + 1, Line) = l /\ Closes(t, l + 1) = c
    BY <1>1, FirstUnique, ClosesUnique
  <1>. QED  BY <1>1, <1>2 DEF Block, Line

LEMMA BlockOpen ==
    ASSUME NEW T, NEW t \in Seq(T), NEW i \in Nat,
           \/ \A j \in i + 1 .. Len(t) : t[j] \notin Line
           \/ \E l : FirstAt(t, i + 1, Line, l) /\ \A j \in l + 1 .. Len(t) : ~IsFence(t[j])
    PROVE  Block(t, i).close = 0
  <1>1. i + 1 \in Nat \ {0}
    OBVIOUS
  <1>2. CASE \A j \in i + 1 .. Len(t) : t[j] \notin Line
    <2>1. First(t, i + 1, Line) = 0
      BY <1>1, <1>2, NoFirst
    <2>. QED  BY <2>1 DEF Block, Line
  <1>3. CASE \E l : FirstAt(t, i + 1, Line, l) /\ \A j \in l + 1 .. Len(t) : ~IsFence(t[j])
    <2>1. PICK l : FirstAt(t, i + 1, Line, l) /\ \A j \in l + 1 .. Len(t) : ~IsFence(t[j])
      BY <1>3
    <2>2. l + 1 \in Nat \ {0} /\ First(t, i + 1, Line) = l
      BY <1>1, <2>1, FirstUnique DEF FirstAt
    <2>3. Closes(t, l + 1) = 0
      BY <2>1, <2>2, NoCloses
    <2>. QED  BY <2>2, <2>3 DEF Block, Line
  <1>. QED  BY <1>2, <1>3

(* The same tokens in another place have the same blocks.                  *)
LEMMA FirstShifts ==
    ASSUME NEW T, NEW t \in Seq(T), NEW u \in Seq(T), NEW from \in Nat \ {0}, NEW d \in Int,
           from + d \in Nat \ {0}, NEW S, NEW i, FirstAt(t, from, S, i), i + d <= Len(u),
           \A j \in from .. i : u[j + d] = t[j]
    PROVE  FirstAt(u, from + d, S, i + d)
  <1>1. i \in Nat /\ from <= i /\ Len(u) \in Nat /\ t[i] \in S /\ \A j \in from .. i - 1 : t[j] \notin S
    BY DEF FirstAt
  <1>2. i + d \in from + d .. Len(u) /\ u[i + d] \in S
    BY <1>1
  <1>3. ASSUME NEW j \in from + d .. i + d - 1 PROVE u[j] \notin S
    <2>1. j - d \in from .. i - 1 /\ j - d \in from .. i /\ (j - d) + d = j
      BY <1>1
    <2>. QED  BY <1>1, <2>1
  <1>. QED  BY <1>2, <1>3 DEF FirstAt

LEMMA FenceShifts ==
    ASSUME NEW T, NEW t \in Seq(T), NEW u \in Seq(T), NEW from \in Nat \ {0}, NEW d \in Int,
           from + d \in Nat \ {0}, NEW i, FenceAt(t, from, i), i + d <= Len(u),
           \A j \in from .. i : u[j + d] = t[j]
    PROVE  FenceAt(u, from + d, i + d)
  <1>1. i \in Nat /\ from <= i /\ Len(u) \in Nat /\ IsFence(t[i]) /\ \A j \in from .. i - 1 : ~IsFence(t[j])
    BY DEF FenceAt
  <1>2. i + d \in from + d .. Len(u) /\ IsFence(u[i + d])
    BY <1>1
  <1>3. ASSUME NEW j \in from + d .. i + d - 1 PROVE ~IsFence(u[j])
    <2>1. j - d \in from .. i - 1 /\ j - d \in from .. i /\ (j - d) + d = j
      BY <1>1
    <2>. QED  BY <1>1, <2>1
  <1>. QED  BY <1>2, <1>3 DEF FenceAt

LEMMA SubSeqShifts ==
    ASSUME NEW T, NEW t \in Seq(T), NEW u \in Seq(T), NEW a \in Nat \ {0}, NEW b \in Nat, NEW d \in Int,
           a + d \in Nat \ {0}, b <= Len(t), b + d <= Len(u), a <= b + 1,
           \A j \in a .. b : u[j + d] = t[j]
    PROVE  SubSeq(u, a + d, b + d) = SubSeq(t, a, b)
  <1>. DEFINE x == SubSeq(u, a + d, b + d)
              y == SubSeq(t, a, b)
  <1>1. /\ y \in Seq(T) /\ Len(y) = b - a + 1
        /\ \A j \in 1 .. b - a + 1 : y[j] = t[a + j - 1]
    OBVIOUS
  <1>2. b + d \in Int /\ a + d <= b + d + 1 /\ (b + d) - (a + d) + 1 = b - a + 1
    OBVIOUS
  <1>3. /\ x \in Seq(T) /\ Len(x) = b - a + 1
        /\ \A j \in 1 .. b - a + 1 : x[j] = u[a + d + j - 1]
    BY <1>2
  <1>4. ASSUME NEW j \in 1 .. b - a + 1 PROVE x[j] = y[j]
    <2>1. a + j - 1 \in a .. b /\ (a + j - 1) + d = a + d + j - 1
      OBVIOUS
    <2>. HIDE DEF x, y
    <2>. QED  BY <1>1, <1>3, <2>1
  <1>. HIDE DEF x, y
  <1>5. x = y
    BY <1>1, <1>3, <1>4, SeqEqual
  <1>. QED  BY <1>5 DEF x, y

LEMMA BlockShifts ==
    ASSUME NEW T, NEW t \in Seq(T), NEW u \in Seq(T), NEW i \in Nat, NEW d \in Int, i + d \in Nat,
           Block(t, i).close # 0, Block(t, i).close + d <= Len(u),
           \A j \in i + 1 .. Block(t, i).close : u[j + d] = t[j]
    PROVE  /\ Block(u, i + d).close = Block(t, i).close + d
           /\ Block(u, i + d).body = Block(t, i).body
           /\ Block(t, i).close \in i + 2 .. Len(t)
  <1>1. PICK l, c \in Nat \ {0} :
          /\ FirstAt(t, i + 1, Line, l) /\ FenceAt(t, l + 1, c)
          /\ Block(t, i).close = c /\ Block(t, i).body = SubSeq(t, l + 1, c - 1)
    BY BlockIs
  <1>2. l \in i + 1 .. Len(t) /\ c \in l + 1 .. Len(t) /\ Len(t) \in Nat /\ Len(u) \in Nat
    BY <1>1 DEF FirstAt, FenceAt
  <1>3. /\ i + 1 \in Nat \ {0} /\ l + 1 \in Nat \ {0} /\ (i + 1) + d = (i + d) + 1 /\ (i + d) + 1 \in Nat \ {0}
        /\ (l + 1) + d = (l + d) + 1 /\ (l + d) + 1 \in Nat \ {0} /\ c - 1 \in Nat /\ l + 1 <= (c - 1) + 1
        /\ (c - 1) + d = (c + d) - 1 /\ (c - 1) + d <= Len(u) /\ c - 1 <= Len(t) /\ l + d <= Len(u)
        /\ c + d <= Len(u)
    BY <1>1, <1>2
  <1>4. \A j \in i + 1 .. c : u[j + d] = t[j]
    BY <1>1
  <1>5. FirstAt(u, (i + d) + 1, Line, l + d)
    <2>1. \A j \in i + 1 .. l : u[j + d] = t[j]
      BY <1>2, <1>4
    <2>. QED  BY <1>1, <1>3, <2>1, FirstShifts
  <1>6. FenceAt(u, (l + d) + 1, c + d)
    <2>1. \A j \in l + 1 .. c : u[j + d] = t[j]
      BY <1>2, <1>4
    <2>. QED  BY <1>1, <1>3, <2>1, FenceShifts
  <1>7. SubSeq(u, (l + d) + 1, (c + d) - 1) = SubSeq(t, l + 1, c - 1)
    <2>1. \A j \in l + 1 .. c - 1 : u[j + d] = t[j]
      BY <1>2, <1>4
    <2>2. SubSeq(u, (l + 1) + d, (c - 1) + d) = SubSeq(t, l + 1, c - 1)
      BY <1>3, <2>1, SubSeqShifts
    <2>. QED  BY <1>3, <2>2
  <1>8. Block(u, i + d).close = c + d /\ Block(u, i + d).body = SubSeq(u, (l + d) + 1, (c + d) - 1)
    <2>1. PICK k, m, e : k = i + d /\ m = l + d /\ e = c + d
      OBVIOUS
    <2>2. k \in Nat /\ FirstAt(u, k + 1, Line, m) /\ FenceAt(u, m + 1, e)
      BY <1>5, <1>6, <2>1
    <2>3. Block(u, k).close = e /\ Block(u, k).body = SubSeq(u, m + 1, e - 1)
      BY <2>2, BlockClosed
    <2>. QED  BY <2>1, <2>3
  <1>. QED  BY <1>1, <1>2, <1>7, <1>8

LEMMA OpenShifts ==
    ASSUME NEW T, NEW t \in Seq(T), NEW u \in Seq(T), NEW i \in Nat, NEW d \in Int, i + d \in Nat,
           Block(t, i).close = 0, Len(u) = Len(t) + d,
           \A j \in i + 1 .. Len(t) : u[j + d] = t[j]
    PROVE  Block(u, i + d).close = 0
  <1>0. Len(t) \in Nat /\ Len(u) \in Nat
    OBVIOUS
  <1>1. \/ \A j \in i + 1 .. Len(t) : t[j] \notin Line
        \/ \E l \in Nat \ {0} : /\ FirstAt(t, i + 1, Line, l)
                               /\ \A j \in l + 1 .. Len(t) : ~IsFence(t[j])
    BY BlockIs
  <1>2. \A j \in i + d + 1 .. Len(u) : j - d \in i + 1 .. Len(t) /\ (j - d) + d = j /\ u[j] = t[j - d]
    BY <1>0
  <1>3. CASE \A j \in i + 1 .. Len(t) : t[j] \notin Line
    <2>1. \A j \in (i + d) + 1 .. Len(u) : u[j] \notin Line
      BY <1>2, <1>3
    <2>. QED  BY <2>1, BlockOpen
  <1>4. CASE \E l \in Nat \ {0} : /\ FirstAt(t, i + 1, Line, l)
                                 /\ \A j \in l + 1 .. Len(t) : ~IsFence(t[j])
    <2>1. PICK l \in Nat \ {0} : FirstAt(t, i + 1, Line, l) /\ \A j \in l + 1 .. Len(t) : ~IsFence(t[j])
      BY <1>4
    <2>2. l \in i + 1 .. Len(t)
      BY <2>1 DEF FirstAt
    <2>3. /\ i + 1 \in Nat \ {0} /\ (i + 1) + d = (i + d) + 1 /\ (i + d) + 1 \in Nat \ {0}
          /\ l + d <= Len(u) /\ i + 1 .. l \subseteq i + 1 .. Len(t)
          /\ \A j \in i + 1 .. l : u[j + d] = t[j]
      <3>1. i + 1 \in Nat \ {0} /\ (i + 1) + d = (i + d) + 1 /\ (i + d) + 1 \in Nat \ {0}
        OBVIOUS
      <3>2. l + d <= Len(u) /\ i + 1 .. l \subseteq i + 1 .. Len(t)
        BY <1>0, <2>2
      <3>. QED  BY <3>1, <3>2
    <2>4. FirstAt(u, (i + d) + 1, Line, l + d)
      BY <2>1, <2>3, FirstShifts
    <2>5. \A j \in (l + d) + 1 .. Len(u) : ~IsFence(u[j])
      <3>1. \A j \in (l + d) + 1 .. Len(u) : j \in i + d + 1 .. Len(u) /\ j - d \in l + 1 .. Len(t)
        BY <1>0, <2>2
      <3>. QED  BY <1>2, <2>1, <3>1
    <2>. QED  BY <2>4, <2>5, BlockOpen
  <1>. QED  BY <1>1, <1>3, <1>4

-----------------------------------------------------------------------------
(* The scans for cards. *)
ScanEnded(t, n) == NextCard(t, n) = 0 \/ Block(t, NextCard(t, n)).close = 0
LeftAfter(t, n) == Len(t) - Block(t, NextCard(t, n)).close
From(t, n) == Len(t) - n + 1

(* A scan moves on.                                                        *)
LEMMA ScanMoves ==
    ASSUME NEW T, NEW t \in Seq(T), NEW n \in 0 .. Len(t)
    PROVE  /\ From(t, n) \in Nat \ {0} /\ Len(t) \in Nat
           /\ ~ScanEnded(t, n) => /\ LeftAfter(t, n) \in 0 .. n - 1
                              /\ FirstAt(t, From(t, n), OpensWith({"runsplash"}), NextCard(t, n))
                              /\ NextCard(t, n) \in From(t, n) .. Len(t)
                              /\ Block(t, NextCard(t, n)).close \in NextCard(t, n) + 2 .. Len(t)
           /\ NextCard(t, n) = 0 => \A j \in From(t, n) .. Len(t) : t[j] \notin OpensWith({"runsplash"})
           /\ NextCard(t, n) # 0 => FirstAt(t, From(t, n), OpensWith({"runsplash"}), NextCard(t, n))
  <1>. DEFINE S == OpensWith({"runsplash"})
  <1>1. Len(t) \in Nat /\ From(t, n) \in Nat \ {0}
    BY DEF From
  <1>2. PICK i : i = NextCard(t, n)
    OBVIOUS
  <1>3. \/ i = 0 /\ \A j \in From(t, n) .. Len(t) : t[j] \notin S
        \/ i \in Nat \ {0} /\ FirstAt(t, From(t, n), S, i)
    <2>1. i = First(t, From(t, n), S)
      BY <1>2 DEF NextCard, From
    <2>. HIDE DEF S
    <2>. QED  BY <1>1, <2>1, FirstIs
  <1>4. ASSUME i # 0, Block(t, i).close # 0
        PROVE  i \in From(t, n) .. Len(t) /\ Block(t, i).close \in i + 2 .. Len(t)
    <2>1. i \in Nat \ {0} /\ i \in From(t, n) .. Len(t)
      BY <1>3, <1>4 DEF FirstAt
    <2>2. PICK l, c \in Nat \ {0} :
            FirstAt(t, i + 1, Line, l) /\ FenceAt(t, l + 1, c) /\ Block(t, i).close = c
      BY <1>4, <2>1, BlockIs
    <2>3. l >= i + 1 /\ c >= l + 1 /\ c <= Len(t)
      BY <1>1, <2>1, <2>2 DEF FirstAt, FenceAt
    <2>. QED  BY <1>1, <2>1, <2>2, <2>3
  <1>5. ASSUME ~ScanEnded(t, n) PROVE LeftAfter(t, n) \in 0 .. n - 1
    <2>1. i # 0 /\ Block(t, i).close # 0
      BY <1>2, <1>5 DEF ScanEnded
    <2>2. PICK c : c = Block(t, i).close
      OBVIOUS
    <2>3. i \in From(t, n) .. Len(t) /\ c \in i + 2 .. Len(t)
      BY <1>4, <2>1, <2>2
    <2>4. Len(t) - c \in 0 .. n - 1
      BY <1>1, <2>3 DEF From
    <2>. QED  BY <1>2, <2>2, <2>4 DEF LeftAfter
  <1>. QED  BY <1>1, <1>2, <1>3, <1>4, <1>5 DEF ScanEnded

LEMMA BodiesUnfold ==
    ASSUME NEW T, NEW t \in Seq(T)
    PROVE  \A n \in 0 .. Len(t) :
             BodiesOf(t)[n] = IF ScanEnded(t, n) THEN {}
                              ELSE {Block(t, NextCard(t, n)).body} \cup BodiesOf(t)[LeftAfter(t, n)]
  <1>. DEFINE Rec(f, n) == IF ScanEnded(t, n) THEN {}
                           ELSE {Block(t, NextCard(t, n)).body} \cup f[LeftAfter(t, n)]
              Fits(f, m) == f = [n \in 0 .. m |-> Rec(f, n)]
              S == {m \in Nat : m <= Len(t) => \E f : Fits(f, m)}
  <1>0. Len(t) \in Nat /\ \A n \in 0 .. Len(t) : ~ScanEnded(t, n) => LeftAfter(t, n) \in 0 .. n - 1
    BY ScanMoves
  <1>1. 0 \in S
    <2>1. ScanEnded(t, 0)
      <3>1. 0 \in 0 .. Len(t)
        BY <1>0
      <3>2. ~ScanEnded(t, 0) => LeftAfter(t, 0) \in 0 .. 0 - 1
        BY <1>0, <3>1
      <3>. QED  BY <3>2
    <2>2. Fits([n \in 0 .. 0 |-> {}], 0)
      BY <2>1
    <2>3. \E f : Fits(f, 0)
      <3>. HIDE DEF Fits
      <3>. QED  BY <2>2
    <2>. HIDE DEF Fits
    <2>. QED  BY <2>3
  <1>2. ASSUME NEW m \in Nat, m \in S PROVE m + 1 \in S
    <2>. SUFFICES ASSUME m + 1 <= Len(t) PROVE \E f : Fits(f, m + 1)
      OBVIOUS
    <2>1. PICK f : Fits(f, m)
      <3>. HIDE DEF Fits
      <3>. QED  BY <1>0, <1>2
    <2>. DEFINE g == [n \in 0 .. m + 1 |-> IF n = m + 1 THEN Rec(f, n) ELSE f[n]]
    <2>2. ASSUME NEW n \in 0 .. m + 1, ~ScanEnded(t, n) PROVE g[LeftAfter(t, n)] = f[LeftAfter(t, n)]
      <3>1. LeftAfter(t, n) \in 0 .. m
        BY <1>0, <2>2
      <3>. QED  BY <3>1
    <2>3. ASSUME NEW n \in 0 .. m + 1 PROVE g[n] = Rec(g, n)
      <3>1. g[n] = IF n = m + 1 THEN Rec(f, n) ELSE f[n]
        OBVIOUS
      <3>2. Rec(g, n) = Rec(f, n)
        <4>. HIDE DEF g
        <4>. QED  BY <2>2
      <3>3. n # m + 1 => f[n] = Rec(f, n)
        <4>1. n # m + 1 => n \in 0 .. m
          OBVIOUS
        <4>. HIDE DEF Rec
        <4>. QED  BY <2>1, <4>1
      <3>. HIDE DEF Rec, g
      <3>. QED  BY <3>1, <3>2, <3>3
    <2>4. Fits(g, m + 1)
      <3>1. g = [n \in 0 .. m + 1 |-> g[n]]
        OBVIOUS
      <3>. HIDE DEF g, Rec
      <3>. QED  BY <2>3, <3>1
    <2>. HIDE DEF g, Fits
    <2>. QED  BY <2>4
  <1>3. \E f : Fits(f, Len(t))
    <2>. HIDE DEF S
    <2>1. Nat \subseteq S
      BY <1>1, <1>2, Induct
    <2>. USE DEF S
    <2>. HIDE DEF Fits
    <2>. QED  BY <1>0, <2>1
  <1>. DEFINE r == CHOOSE f : Fits(f, Len(t))
  <1>4. BodiesOf(t) = r
    BY DEF BodiesOf, ScanEnded, LeftAfter
  <1>5. Fits(r, Len(t))
    <2>. HIDE DEF Fits
    <2>. QED  BY <1>3
  <1>. HIDE DEF r
  <1>. QED  BY <1>4, <1>5

Piece(t, n) == LET i == NextCard(t, n)  b == Block(t, i) IN
    IF Forbidden(b.body) THEN Append(SubSeq(t, From(t, n), i - 1), Notice)
                         ELSE SubSeq(t, From(t, n), b.close)

LEMMA NeutralUnfolds ==
    ASSUME NEW T, NEW t \in Seq(T)
    PROVE  \A n \in 0 .. Len(t) :
             NeutralOf(t)[n] = IF ScanEnded(t, n) THEN SubSeq(t, From(t, n), Len(t))
                               ELSE Piece(t, n) \o NeutralOf(t)[LeftAfter(t, n)]
  <1>. DEFINE Rec(f, n) == IF ScanEnded(t, n) THEN SubSeq(t, From(t, n), Len(t))
                           ELSE Piece(t, n) \o f[LeftAfter(t, n)]
              Fits(f, m) == f = [n \in 0 .. m |-> Rec(f, n)]
              S == {m \in Nat : m <= Len(t) => \E f : Fits(f, m)}
  <1>0. Len(t) \in Nat /\ \A n \in 0 .. Len(t) : ~ScanEnded(t, n) => LeftAfter(t, n) \in 0 .. n - 1
    BY ScanMoves
  <1>1. 0 \in S
    <2>1. ScanEnded(t, 0)
      <3>1. 0 \in 0 .. Len(t)
        BY <1>0
      <3>2. ~ScanEnded(t, 0) => LeftAfter(t, 0) \in 0 .. 0 - 1
        BY <1>0, <3>1
      <3>. QED  BY <3>2
    <2>. DEFINE h == [n \in 0 .. 0 |-> SubSeq(t, From(t, n), Len(t))]
    <2>a. ASSUME NEW n \in 0 .. 0 PROVE h[n] = Rec(h, n)
      <3>1. n = 0
        OBVIOUS
      <3>2. h[n] = SubSeq(t, From(t, n), Len(t))
        BY Zenon
      <3>. HIDE DEF h
      <3>. QED  BY <2>1, <3>1, <3>2
    <2>2. Fits(h, 0)
      <3>1. h = [n \in 0 .. 0 |-> h[n]]
        OBVIOUS
      <3>. HIDE DEF h, Rec
      <3>. QED  BY <2>a, <3>1
    <2>3. \E f : Fits(f, 0)
      <3>. HIDE DEF Fits
      <3>. QED  BY <2>2
    <2>. HIDE DEF Fits
    <2>. QED  BY <2>3
  <1>2. ASSUME NEW m \in Nat, m \in S PROVE m + 1 \in S
    <2>. SUFFICES ASSUME m + 1 <= Len(t) PROVE \E f : Fits(f, m + 1)
      OBVIOUS
    <2>1. PICK f : Fits(f, m)
      <3>. HIDE DEF Fits
      <3>. QED  BY <1>0, <1>2
    <2>. DEFINE g == [n \in 0 .. m + 1 |-> IF n = m + 1 THEN Rec(f, n) ELSE f[n]]
    <2>2. ASSUME NEW n \in 0 .. m + 1, ~ScanEnded(t, n) PROVE g[LeftAfter(t, n)] = f[LeftAfter(t, n)]
      <3>1. LeftAfter(t, n) \in 0 .. m
        BY <1>0, <2>2
      <3>. QED  BY <3>1
    <2>3. ASSUME NEW n \in 0 .. m + 1 PROVE g[n] = Rec(g, n)
      <3>1. g[n] = IF n = m + 1 THEN Rec(f, n) ELSE f[n]
        OBVIOUS
      <3>2. Rec(g, n) = Rec(f, n)
        <4>. HIDE DEF g
        <4>. QED  BY <2>2
      <3>3. n # m + 1 => f[n] = Rec(f, n)
        <4>1. n # m + 1 => n \in 0 .. m
          OBVIOUS
        <4>. HIDE DEF Rec
        <4>. QED  BY <2>1, <4>1
      <3>. HIDE DEF Rec, g
      <3>. QED  BY <3>1, <3>2, <3>3
    <2>4. Fits(g, m + 1)
      <3>1. g = [n \in 0 .. m + 1 |-> g[n]]
        OBVIOUS
      <3>. HIDE DEF g, Rec
      <3>. QED  BY <2>3, <3>1
    <2>. HIDE DEF g, Fits
    <2>. QED  BY <2>4
  <1>3. \E f : Fits(f, Len(t))
    <2>. HIDE DEF S
    <2>1. Nat \subseteq S
      BY <1>1, <1>2, Induct
    <2>. USE DEF S
    <2>. HIDE DEF Fits
    <2>. QED  BY <1>0, <2>1
  <1>. DEFINE r == CHOOSE f : Fits(f, Len(t))
  <1>4. NeutralOf(t) = r
    BY DEF NeutralOf, ScanEnded, LeftAfter, Piece, From
  <1>5. Fits(r, Len(t))
    <2>. HIDE DEF Fits
    <2>. QED  BY <1>3
  <1>. HIDE DEF r
  <1>. QED  BY <1>4, <1>5

LEMMA TheTokens ==
    /\ CloseFence \in TextTokens /\ SplashFence \in TextTokens /\ LineEnd \in TextTokens
    /\ Notice \in TextTokens /\ Building \in TextTokens /\ Code \in TextTokens
    /\ NameLine(PlanName) \in TextTokens
  <1>1. OwnTokens \subseteq TextTokens
    BY DEF TextTokens
  <1>2. /\ CloseFence \in OwnTokens /\ SplashFence \in OwnTokens /\ LineEnd \in OwnTokens
        /\ Notice \in OwnTokens /\ Building \in OwnTokens /\ Code \in OwnTokens
        /\ NameLine(PlanName) \in OwnTokens
    BY DEF OwnTokens
  <1>. QED  BY <1>1, <1>2

(* What a scan leaves of a text: tokens of the text and notices.           *)
LEMMA NeutralTokens ==
    ASSUME NEW t \in Seq(TextTokens)
    PROVE  \A n \in 0 .. Len(t) :
             /\ NeutralOf(t)[n] \in Seq(TextTokens)
             /\ \A j \in DOMAIN NeutralOf(t)[n] :
                  \/ NeutralOf(t)[n][j] = Notice
                  \/ \E k \in From(t, n) .. Len(t) : NeutralOf(t)[n][j] = t[k]
  <1>. DEFINE N(n) == NeutralOf(t)[n]
              P(n) == /\ N(n) \in Seq(TextTokens)
                      /\ \A j \in DOMAIN N(n) : \/ N(n)[j] = Notice
                                                \/ \E k \in From(t, n) .. Len(t) : N(n)[j] = t[k]
              S == {n \in Nat : n <= Len(t) => P(n)}
  <1>0. Len(t) \in Nat
    OBVIOUS
  <1>1. ASSUME NEW n \in Nat, \A k \in 0 .. n - 1 : k \in S PROVE n \in S
    <2>. SUFFICES ASSUME n <= Len(t) PROVE P(n)
      OBVIOUS
    <2>1. /\ n \in 0 .. Len(t) /\ From(t, n) \in Nat \ {0} /\ From(t, n) = Len(t) - n + 1
      BY <1>0 DEF From
    <2>2. CASE ScanEnded(t, n)
      <3>1. N(n) = SubSeq(t, From(t, n), Len(t))
        BY <2>1, <2>2, NeutralUnfolds
      <3>2. PICK f : f = From(t, n)
        OBVIOUS
      <3>3. f \in 1 .. Len(t) + 1
        BY <1>0, <2>1, <3>2
      <3>4. /\ SubSeq(t, f, Len(t)) \in Seq(TextTokens) /\ Len(SubSeq(t, f, Len(t))) = Len(t) - f + 1
            /\ \A j \in 1 .. Len(t) - f + 1 : SubSeq(t, f, Len(t))[j] = t[f + j - 1]
        BY <1>0, <3>3
      <3>5. \A j \in 1 .. Len(t) - f + 1 : f + j - 1 \in f .. Len(t)
        BY <1>0, <3>3
      <3>. HIDE DEF N
      <3>6. DOMAIN N(n) = 1 .. Len(t) - f + 1
        BY <3>1, <3>2, <3>4
      <3>. QED  BY <3>1, <3>2, <3>4, <3>5, <3>6
    <2>3. CASE ~ScanEnded(t, n)
      <3>1. PICK i, c, m, f : i = NextCard(t, n) /\ c = Block(t, i).close /\ m = LeftAfter(t, n) /\ f = From(t, n)
        OBVIOUS
      <3>2. /\ m = Len(t) - c /\ i \in f .. Len(t) /\ c \in i + 2 .. Len(t) /\ m \in 0 .. n - 1
            /\ f \in 1 .. Len(t) + 1
        BY <1>0, <2>1, <2>3, <3>1, ScanMoves DEF LeftAfter
      <3>3. N(n) = Piece(t, n) \o N(m)
        BY <2>1, <2>3, <3>1, NeutralUnfolds
      <3>4. P(m) /\ From(t, m) = c + 1
        <4>1. m \in S /\ m <= Len(t)
          BY <1>0, <1>1, <2>1, <3>2
        <4>2. From(t, m) = c + 1
          BY <1>0, <3>2 DEF From
        <4>. QED  BY <4>1, <4>2
      <3>5. PICK p : p = Piece(t, n)
        OBVIOUS
      <3>6. /\ p \in Seq(TextTokens)
            /\ \A j \in DOMAIN p : p[j] = Notice \/ \E k \in f .. c : p[j] = t[k]
        <4>1. CASE p = SubSeq(t, f, c)
          <5>1. p \in Seq(TextTokens) /\ DOMAIN p = 1 .. c - f + 1 /\ \A j \in 1 .. c - f + 1 : p[j] = t[f + j - 1]
            BY <1>0, <3>2, <4>1
          <5>2. \A j \in 1 .. c - f + 1 : f + j - 1 \in f .. c
            BY <1>0, <3>2
          <5>. QED  BY <5>1, <5>2
        <4>2. CASE p = Append(SubSeq(t, f, i - 1), Notice)
          <5>1. PICK x : x = SubSeq(t, f, i - 1)
            OBVIOUS
          <5>2. x \in Seq(TextTokens) /\ DOMAIN x = 1 .. i - f /\ \A j \in 1 .. i - f : x[j] = t[f + j - 1]
            BY <1>0, <3>2, <5>1
          <5>3. PICK e : e = Notice
            OBVIOUS
          <5>4. /\ Append(x, e) \in Seq(TextTokens)
                /\ \A j \in DOMAIN Append(x, e) : Append(x, e)[j] = e \/ (j \in DOMAIN x /\ Append(x, e)[j] = x[j])
            <6>1. x \in Seq(TextTokens) /\ e \in TextTokens
              BY <5>2, <5>3, TheTokens
            <6>. QED  BY <6>1, AppendElements
          <5>5. \A j \in 1 .. i - f : f + j - 1 \in f .. c
            BY <3>2
          <5>. QED  BY <4>2, <5>1, <5>2, <5>3, <5>4, <5>5
        <4>. QED  BY <3>1, <3>5, <4>1, <4>2 DEF Piece
      <3>. HIDE DEF N
      <3>7. PICK r : r = N(m)
        OBVIOUS
      <3>8. /\ p \o r \in Seq(TextTokens) /\ DOMAIN (p \o r) = 1 .. Len(p) + Len(r)
            /\ Len(p) \in Nat /\ Len(r) \in Nat /\ DOMAIN p = 1 .. Len(p) /\ DOMAIN r = 1 .. Len(r)
            /\ \A j \in 1 .. Len(p) + Len(r) : (p \o r)[j] = IF j <= Len(p) THEN p[j] ELSE r[j - Len(p)]
        BY <3>4, <3>6, <3>7, ConcatProperties, LenProperties
      <3>9. ASSUME NEW j \in 1 .. Len(p) + Len(r)
            PROVE  (p \o r)[j] = Notice \/ \E k \in f .. Len(t) : (p \o r)[j] = t[k]
        <4>0. f .. c \subseteq f .. Len(t) /\ c + 1 .. Len(t) \subseteq f .. Len(t)
          BY <1>0, <3>2
        <4>1. CASE j <= Len(p)
          <5>1. j \in DOMAIN p /\ (p \o r)[j] = p[j]
            BY <3>8, <4>1
          <5>. QED  BY <3>6, <4>0, <5>1
        <4>2. CASE ~(j <= Len(p))
          <5>1. j - Len(p) \in DOMAIN r /\ (p \o r)[j] = r[j - Len(p)]
            BY <3>8, <4>2
          <5>2. r[j - Len(p)] = Notice \/ \E k \in c + 1 .. Len(t) : r[j - Len(p)] = t[k]
            BY <3>4, <3>7, <5>1
          <5>. QED  BY <4>0, <5>1, <5>2
        <4>. QED  BY <4>1, <4>2
      <3>. QED  BY <3>1, <3>3, <3>5, <3>7, <3>8, <3>9
    <2>. QED  BY <2>2, <2>3
  <1>2. Nat \subseteq S
    <2>. HIDE DEF S
    <2>. QED  BY <1>1, StrongInduct
  <1>. QED
    <2>1. ASSUME NEW n \in 0 .. Len(t) PROVE P(n)
      BY <1>0, <1>2
    <2>. QED  BY <2>1 DEF N

Splashes == OpensWith({"runsplash"})

LEMMA SkipFirst ==
    ASSUME NEW T, NEW t \in Seq(T), NEW from \in Nat \ {0}, NEW mid \in Nat \ {0}, from <= mid, NEW S,
           mid <= Len(t) + 1, \A j \in from .. mid - 1 : t[j] \notin S
    PROVE  First(t, from, S) = First(t, mid, S)
  <1>0. Len(t) \in Nat
    OBVIOUS
  <1>1. PICK i : i = First(t, mid, S)
    OBVIOUS
  <1>2. \/ i = 0 /\ \A j \in mid .. Len(t) : t[j] \notin S
        \/ i \in Nat \ {0} /\ FirstAt(t, mid, S, i)
    BY <1>1, FirstIs
  <1>3. CASE i = 0 /\ \A j \in mid .. Len(t) : t[j] \notin S
    <2>1. \A j \in from .. Len(t) : t[j] \notin S
      BY <1>0, <1>3
    <2>. QED  BY <1>1, <1>3, <2>1, NoFirst
  <1>4. CASE i \in Nat \ {0} /\ FirstAt(t, mid, S, i)
    <2>1. FirstAt(t, from, S, i)
      <3>1. i \in mid .. Len(t) /\ t[i] \in S /\ \A j \in mid .. i - 1 : t[j] \notin S
        BY <1>4 DEF FirstAt
      <3>2. i \in from .. Len(t) /\ \A j \in from .. i - 1 : t[j] \notin S
        BY <1>0, <3>1
      <3>. QED  BY <3>1, <3>2 DEF FirstAt
    <2>. QED  BY <1>1, <2>1, FirstUnique
  <1>. QED  BY <1>2, <1>3, <1>4

(* A scan passes what has no card ...                                      *)
LEMMA ScanSkips ==
    ASSUME NEW T, NEW q \in Seq(T), NEW p \in Seq(T), NEW r \in Seq(T),
           \A j \in 1 .. Len(p) : p[j] \notin Splashes
    PROVE  BodiesOf(q \o (p \o r))[Len(p \o r)] = BodiesOf(q \o (p \o r))[Len(r)]
  <1>1. PICK u : u = q \o (p \o r)
    OBVIOUS
  <1>2. /\ u \in Seq(T) /\ Len(u) = Len(q) + Len(p) + Len(r) /\ Len(p \o r) = Len(p) + Len(r)
        /\ Len(q) \in Nat /\ Len(p) \in Nat /\ Len(r) \in Nat
        /\ \A j \in 1 .. Len(p) : u[Len(q) + j] = p[j]
    BY <1>1, Between, LenProperties
  <1>3. PICK a, b, m : a = Len(q) + 1 /\ b = Len(q) + Len(p) + 1 /\ m = Len(p) + Len(r)
    OBVIOUS
  <1>4. /\ a \in Nat \ {0} /\ b \in Nat \ {0} /\ a <= b /\ b <= Len(u) + 1
        /\ Len(u) - m + 1 = a /\ Len(u) - Len(r) + 1 = b
        /\ m \in 0 .. Len(u) /\ Len(r) \in 0 .. Len(u)
    BY <1>2, <1>3
  <1>5. \A j \in a .. b - 1 : u[j] \notin Splashes
    <2>1. \A j \in a .. b - 1 : j - Len(q) \in 1 .. Len(p) /\ Len(q) + (j - Len(q)) = j
      BY <1>2, <1>3
    <2>. QED  BY <1>2, <2>1
  <1>6. First(u, a, Splashes) = First(u, b, Splashes)
    BY <1>2, <1>4, <1>5, SkipFirst
  <1>7. NextCard(u, m) = NextCard(u, Len(r))
    BY <1>4, <1>6 DEF NextCard, Splashes
  <1>8. ScanEnded(u, m) = ScanEnded(u, Len(r)) /\ LeftAfter(u, m) = LeftAfter(u, Len(r))
    BY <1>7 DEF ScanEnded, LeftAfter
  <1>9. BodiesOf(u)[m] = BodiesOf(u)[Len(r)]
    <2>1. \A n \in 0 .. Len(u) :
            BodiesOf(u)[n] = IF ScanEnded(u, n) THEN {}
                             ELSE {Block(u, NextCard(u, n)).body} \cup BodiesOf(u)[LeftAfter(u, n)]
      BY <1>2, BodiesUnfold
    <2>. QED  BY <1>4, <1>7, <1>8, <2>1
  <1>. QED  BY <1>1, <1>2, <1>3, <1>9

Copies(p, t, from, to) == Len(p) = to - from + 1 /\ \A j \in 1 .. Len(p) : p[j] = t[from + j - 1]

(* ... finds a card where it is ...                                        *)
LEMMA ScanFinds ==
    ASSUME NEW T, NEW t \in Seq(T), NEW q \in Seq(T), NEW r \in Seq(T), NEW p \in Seq(T),
           NEW n \in 0 .. Len(t), ~ScanEnded(t, n),
           Copies(p, t, From(t, n), Block(t, NextCard(t, n)).close)
    PROVE  BodiesOf(q \o (p \o r))[Len(p \o r)]
             = {Block(t, NextCard(t, n)).body} \cup BodiesOf(q \o (p \o r))[Len(r)]
  <1>1. PICK u : u = q \o (p \o r)
    OBVIOUS
  <1>2. /\ u \in Seq(T) /\ Len(u) = Len(q) + Len(p) + Len(r) /\ Len(p \o r) = Len(p) + Len(r)
        /\ Len(q) \in Nat /\ Len(p) \in Nat /\ Len(r) \in Nat
        /\ \A j \in 1 .. Len(p) : u[Len(q) + j] = p[j]
    <2>1. /\ q \o (p \o r) \in Seq(T) /\ Len(p \o r) = Len(p) + Len(r)
          /\ Len(q \o (p \o r)) = Len(q) + Len(p) + Len(r)
          /\ \A j \in 1 .. Len(p) : (q \o (p \o r))[Len(q) + j] = p[j]
      BY Between
    <2>2. Len(q) \in Nat /\ Len(p) \in Nat /\ Len(r) \in Nat
      BY LenProperties
    <2>. QED  BY <1>1, <2>1, <2>2
  <1>3. PICK i, c, f : i = NextCard(t, n) /\ c = Block(t, i).close /\ f = From(t, n)
    OBVIOUS
  <1>4. /\ FirstAt(t, f, Splashes, i) /\ f = Len(t) - n + 1 /\ Len(t) \in Nat
        /\ f \in 1 .. Len(t) + 1 /\ i \in f .. Len(t) /\ c \in i + 2 .. Len(t)
    <2>1. From(t, n) \in 1 .. Len(t) + 1 /\ From(t, n) = Len(t) - n + 1 /\ Len(t) \in Nat
      BY DEF From
    <2>. QED  BY <1>3, <2>1, ScanMoves DEF Splashes
  <1>5. PICK d, m : d = Len(q) + 1 - f /\ m = Len(p) + Len(r)
    OBVIOUS
  <1>6. Len(p) = c - f + 1 /\ \A j \in 1 .. c - f + 1 : p[j] = t[f + j - 1]
    BY <1>3 DEF Copies
  <1>7. /\ d \in Int /\ m \in 0 .. Len(u) /\ f + d \in Nat \ {0} /\ Len(u) - m + 1 = f + d
        /\ i + d \in Nat \ {0} /\ i + d <= Len(u) /\ c + d <= Len(u) /\ Len(u) - (c + d) = Len(r)
        /\ f \in Nat \ {0} /\ i \in Nat /\ c # 0 /\ c + d \in Nat \ {0}
    <2>1. PICK lt, lu, lq, lp, lr : /\ lt = Len(t) /\ lu = Len(u) /\ lq = Len(q) /\ lp = Len(p) /\ lr = Len(r)
      OBVIOUS
    <2>2. /\ lt \in Nat /\ lq \in Nat /\ lp \in Nat /\ lr \in Nat /\ lu = lq + lp + lr
          /\ lp = c - f + 1 /\ d = lq + 1 - f /\ m = lp + lr
          /\ f \in 1 .. lt + 1 /\ i \in f .. lt /\ c \in i + 2 .. lt
      BY <1>2, <1>4, <1>5, <1>6, <2>1
    <2>3. /\ d \in Int /\ m \in 0 .. lu /\ f + d \in Nat \ {0} /\ lu - m + 1 = f + d
          /\ i + d \in Nat \ {0} /\ i + d <= lu /\ c + d <= lu /\ lu - (c + d) = lr
          /\ f \in Nat \ {0} /\ i \in Nat /\ c # 0 /\ c + d \in Nat \ {0}
      BY <2>2
    <2>. QED  BY <2>1, <2>3
  <1>8. ASSUME NEW j \in f .. c PROVE u[j + d] = t[j]
    <2>1. PICK k : k = j - f + 1
      OBVIOUS
    <2>2. k \in 1 .. c - f + 1 /\ Len(q) + k = j + d /\ f + k - 1 = j
      BY <1>2, <1>4, <1>5, <2>1
    <2>3. u[Len(q) + k] = p[k] /\ p[k] = t[f + k - 1]
      BY <1>2, <1>6, <2>2
    <2>. QED  BY <2>2, <2>3
  <1>9. NextCard(u, m) = i + d
    <2>0. f .. i \subseteq f .. c
      BY <1>4
    <2>1. \A j \in f .. i : u[j + d] = t[j]
      BY <1>8, <2>0
    <2>2. FirstAt(u, f + d, Splashes, i + d)
      BY <1>2, <1>4, <1>7, <2>1, FirstShifts
    <2>3. First(u, f + d, Splashes) = i + d
      BY <1>2, <1>7, <2>2, FirstUnique
    <2>. QED  BY <1>7, <2>3 DEF NextCard, Splashes
  <1>10. Block(u, i + d).close = c + d /\ Block(u, i + d).body = Block(t, i).body
    <2>0. i + 1 .. c \subseteq f .. c
      BY <1>4
    <2>1. \A j \in i + 1 .. c : u[j + d] = t[j]
      BY <1>8, <2>0
    <2>2. /\ Block(t, i).close # 0 /\ Block(t, i).close + d <= Len(u) /\ i + d \in Nat
          /\ \A j \in i + 1 .. Block(t, i).close : u[j + d] = t[j]
      BY <1>3, <1>7, <2>1
    <2>3. /\ Block(u, i + d).close = Block(t, i).close + d
          /\ Block(u, i + d).body = Block(t, i).body
      <3>1. u \in Seq(T) /\ d \in Int /\ i \in Nat
        BY <1>2, <1>7
      <3>. QED  BY <2>2, <3>1, BlockShifts, Zenon
    <2>. QED  BY <1>3, <2>3
  <1>11. ~ScanEnded(u, m) /\ LeftAfter(u, m) = Len(r)
    BY <1>7, <1>9, <1>10 DEF ScanEnded, LeftAfter
  <1>12. BodiesOf(u)[m] = {Block(t, i).body} \cup BodiesOf(u)[Len(r)]
    <2>1. \A k \in 0 .. Len(u) :
            BodiesOf(u)[k] = IF ScanEnded(u, k) THEN {}
                             ELSE {Block(u, NextCard(u, k)).body} \cup BodiesOf(u)[LeftAfter(u, k)]
      BY <1>2, BodiesUnfold
    <2>. QED  BY <1>7, <1>9, <1>10, <1>11, <2>1
  <1>. QED  BY <1>1, <1>2, <1>3, <1>5, <1>12

(* ... and finds none in what a scan had left.                             *)
LEMMA ScanEnds ==
    ASSUME NEW T, NEW t \in Seq(T), NEW q \in Seq(T), NEW r \in Seq(T),
           NEW n \in 0 .. Len(t), ScanEnded(t, n), r = SubSeq(t, From(t, n), Len(t))
    PROVE  BodiesOf(q \o r)[Len(r)] = {}
  <1>1. PICK u, f, i, d : u = q \o r /\ f = From(t, n) /\ i = NextCard(t, n) /\ d = Len(q) + 1 - f
    OBVIOUS
  <1>2. /\ u \in Seq(T) /\ Len(u) = Len(q) + Len(r) /\ Len(q) \in Nat /\ Len(r) \in Nat
        /\ \A k \in 1 .. Len(q) + Len(r) : u[k] = IF k <= Len(q) THEN q[k] ELSE r[k - Len(q)]
    BY <1>1, ConcatProperties, LenProperties
  <1>3. Len(t) \in Nat /\ f = Len(t) - n + 1 /\ f \in 1 .. Len(t) + 1
    BY <1>1 DEF From
  <1>4. Len(r) = n /\ \A j \in 1 .. n : r[j] = t[f + j - 1]
    <2>1. Len(t) - f + 1 = n
      BY <1>3
    <2>. QED  BY <1>1, <1>3, <2>1
  <1>5. /\ d \in Int /\ f + d = Len(q) + 1 /\ f + d \in Nat \ {0} /\ Len(u) = Len(t) + d
        /\ Len(u) - n + 1 = f + d /\ n \in 0 .. Len(u) /\ f \in Nat \ {0}
    <2>1. PICK lt, lu, lq, lr : lt = Len(t) /\ lu = Len(u) /\ lq = Len(q) /\ lr = Len(r)
      OBVIOUS
    <2>2. /\ lt \in Nat /\ lq \in Nat /\ lr = n /\ lu = lq + lr /\ d = lq + 1 - f
          /\ f = lt - n + 1 /\ n \in 0 .. lt
      BY <1>1, <1>2, <1>3, <1>4, <2>1
    <2>3. /\ d \in Int /\ f + d = lq + 1 /\ f + d \in Nat \ {0} /\ lu = lt + d
          /\ lu - n + 1 = f + d /\ n \in 0 .. lu /\ f \in Nat \ {0}
      BY <2>2
    <2>. QED  BY <2>1, <2>3
  <1>6. ASSUME NEW j \in f .. Len(t) PROVE u[j + d] = t[j]
    <2>1. PICK k : k = j - f + 1
      OBVIOUS
    <2>2. k \in 1 .. n /\ j + d = Len(q) + k /\ f + k - 1 = j /\ ~(Len(q) + k <= Len(q))
          /\ Len(q) + k \in 1 .. Len(q) + Len(r) /\ (Len(q) + k) - Len(q) = k
      BY <1>1, <1>2, <1>3, <1>4, <2>1
    <2>3. u[j + d] = r[k] /\ r[k] = t[f + k - 1]
      <3>1. PICK x : x = j + d
        OBVIOUS
      <3>2. x \in 1 .. Len(q) + Len(r) /\ ~(x <= Len(q)) /\ x - Len(q) = k
        BY <2>2, <3>1
      <3>3. u[x] = r[k]
        BY <1>2, <3>2
      <3>. QED  BY <1>4, <2>2, <3>1, <3>3
    <2>. QED  BY <2>2, <2>3
  <1>7. ScanEnded(u, n)
    <2>1. CASE i = 0
      <3>1. \A j \in f .. Len(t) : t[j] \notin Splashes
        BY <1>1, <2>1, ScanMoves DEF Splashes
      <3>2. ASSUME NEW j \in f + d .. Len(u) PROVE u[j] \notin Splashes
        <4>1. j - d \in f .. Len(t) /\ (j - d) + d = j
          BY <1>3, <1>5
        <4>. QED  BY <1>6, <3>1, <4>1
      <3>3. First(u, f + d, Splashes) = 0
        BY <1>2, <1>5, <3>2, NoFirst
      <3>. QED  BY <1>5, <3>3 DEF ScanEnded, NextCard, Splashes
    <2>2. CASE i # 0
      <3>1. FirstAt(t, f, Splashes, i) /\ Block(t, i).close = 0
        BY <1>1, <2>2, ScanMoves DEF Splashes, ScanEnded
      <3>2. i \in f .. Len(t)
        BY <3>1 DEF FirstAt
      <3>3. i \in Nat /\ i + d \in Nat /\ i + d <= Len(u)
        BY <1>3, <1>5, <3>2
      <3>4. FirstAt(u, f + d, Splashes, i + d)
        <4>1. \A j \in f .. i : u[j + d] = t[j]
          BY <1>3, <1>6, <3>2
        <4>. QED  BY <1>2, <1>5, <3>1, <3>3, <4>1, FirstShifts
      <3>5. First(u, f + d, Splashes) = i + d
        BY <1>2, <1>5, <3>4, FirstUnique
      <3>6. Block(u, i + d).close = 0
        <4>1. \A j \in i + 1 .. Len(t) : u[j + d] = t[j]
          BY <1>3, <1>6, <3>2
        <4>2. u \in Seq(T) /\ Len(u) = Len(t) + d /\ d \in Int
          BY <1>2, <1>5
        <4>. QED  BY <3>1, <3>3, <4>1, <4>2, OpenShifts
      <3>7. NextCard(u, n) = i + d
        BY <1>5, <3>5 DEF NextCard, Splashes
      <3>. QED  BY <3>6, <3>7 DEF ScanEnded
    <2>. QED  BY <2>1, <2>2
  <1>8. BodiesOf(u)[n] = {}
    <2>1. \A k \in 0 .. Len(u) :
            BodiesOf(u)[k] = IF ScanEnded(u, k) THEN {}
                             ELSE {Block(u, NextCard(u, k)).body} \cup BodiesOf(u)[LeftAfter(u, k)]
      BY <1>2, BodiesUnfold
    <2>. QED  BY <1>5, <1>7, <2>1
  <1>. QED  BY <1>1, <1>4, <1>8

(* What becomes of the text up to the next card's end.                     *)
LEMMA PieceIs ==
    ASSUME NEW t \in Seq(TextTokens), NEW n \in 0 .. Len(t), ~ScanEnded(t, n)
    PROVE  /\ Piece(t, n) \in Seq(TextTokens)
           /\ \/ /\ ~Forbidden(Block(t, NextCard(t, n)).body)
                 /\ Copies(Piece(t, n), t, From(t, n), Block(t, NextCard(t, n)).close)
              \/ /\ \E x \in Seq(TextTokens) : /\ Piece(t, n) = Append(x, Notice)
                                          /\ Copies(x, t, From(t, n), NextCard(t, n) - 1)
                 /\ \A j \in 1 .. Len(Piece(t, n)) : Piece(t, n)[j] \notin Splashes
  <1>1. PICK i, c, f : i = NextCard(t, n) /\ c = Block(t, i).close /\ f = From(t, n)
    OBVIOUS
  <1>2. /\ FirstAt(t, f, Splashes, i) /\ Len(t) \in Nat /\ f \in Nat \ {0}
        /\ i \in f .. Len(t) /\ c \in i + 2 .. Len(t)
    BY <1>1, ScanMoves DEF Splashes
  <1>3. CASE ~Forbidden(Block(t, i).body)
    <2>1. Piece(t, n) = SubSeq(t, f, c)
      BY <1>1, <1>3 DEF Piece
    <2>2. SubSeq(t, f, c) \in Seq(TextTokens) /\ Copies(SubSeq(t, f, c), t, f, c)
      BY <1>2 DEF Copies
    <2>. QED  BY <1>1, <1>3, <2>1, <2>2
  <1>4. CASE Forbidden(Block(t, i).body)
    <2>1. PICK x, e : x = SubSeq(t, f, i - 1) /\ e = Notice
      OBVIOUS
    <2>2. Piece(t, n) = Append(x, e)
      BY <1>1, <1>4, <2>1 DEF Piece
    <2>3. x \in Seq(TextTokens) /\ Copies(x, t, f, i - 1) /\ Len(x) = i - f
      BY <1>2, <2>1 DEF Copies
    <2>4. e \in TextTokens /\ e \notin Splashes
      BY <2>1, TheTokens DEF Splashes, OpensWith, Fence, Tok, Notice
    <2>5. /\ Append(x, e) \in Seq(TextTokens) /\ Len(x) \in Nat /\ DOMAIN Append(x, e) = 1 .. Len(x) + 1
          /\ Append(x, e)[Len(x) + 1] = e /\ \A j \in 1 .. Len(x) : Append(x, e)[j] = x[j]
      BY <2>3, <2>4, Appended
    <2>6. ASSUME NEW j \in 1 .. Len(x) PROVE x[j] \notin Splashes
      <3>1. f + j - 1 \in f .. i - 1 /\ x[j] = t[f + j - 1]
        BY <1>2, <2>3 DEF Copies
      <3>. QED  BY <1>2, <3>1 DEF FirstAt
    <2>7. \A j \in 1 .. Len(x) + 1 : Append(x, e)[j] \notin Splashes
      BY <2>4, <2>5, <2>6
    <2>8. Len(Append(x, e)) = Len(x) + 1
      BY <2>5
    <2>. QED  BY <1>1, <2>1, <2>2, <2>3, <2>5, <2>7, <2>8
  <1>. QED  BY <1>3, <1>4

(* What a scan leaves has no forbidden body, whatever comes before it.     *)
LEMMA NeutralIsClean ==
    ASSUME NEW t \in Seq(TextTokens)
    PROVE  \A n \in 0 .. Len(t) : \A q \in Seq(TextTokens) :
             \A b \in BodiesOf(q \o NeutralOf(t)[n])[Len(NeutralOf(t)[n])] : ~Forbidden(b)
  <1>. DEFINE N(n) == NeutralOf(t)[n]
              P(n) == \A q \in Seq(TextTokens) : \A b \in BodiesOf(q \o N(n))[Len(N(n))] : ~Forbidden(b)
              S == {n \in Nat : n <= Len(t) => P(n)}
  <1>0. Len(t) \in Nat
    OBVIOUS
  <1>1. ASSUME NEW n \in Nat, \A k \in 0 .. n - 1 : k \in S PROVE n \in S
    <2>. SUFFICES ASSUME n <= Len(t), NEW q \in Seq(TextTokens)
                  PROVE  \A b \in BodiesOf(q \o N(n))[Len(N(n))] : ~Forbidden(b)
      OBVIOUS
    <2>1. n \in 0 .. Len(t)
      BY <1>0
    <2>2. CASE ScanEnded(t, n)
      <3>1. N(n) = SubSeq(t, From(t, n), Len(t)) /\ N(n) \in Seq(TextTokens)
        BY <2>1, <2>2, NeutralUnfolds, NeutralTokens
      <3>2. PICK r : r = N(n)
        OBVIOUS
      <3>3. BodiesOf(q \o r)[Len(r)] = {}
        <4>1. r \in Seq(TextTokens) /\ r = SubSeq(t, From(t, n), Len(t))
          BY <3>1, <3>2
        <4>. HIDE DEF N
        <4>. QED  BY <2>1, <2>2, <4>1, ScanEnds
      <3>. QED  BY <3>2, <3>3
    <2>3. CASE ~ScanEnded(t, n)
      <3>1. PICK m, p : m = LeftAfter(t, n) /\ p = Piece(t, n)
        OBVIOUS
      <3>2. N(n) = p \o N(m)
        BY <2>1, <2>3, <3>1, NeutralUnfolds
      <3>3. m \in 0 .. n - 1 /\ m \in 0 .. Len(t)
        <4>1. m \in 0 .. n - 1
          BY <2>1, <2>3, <3>1, ScanMoves
        <4>. QED  BY <1>0, <2>1, <4>1
      <3>4. P(m)
        BY <1>1, <3>3
      <3>5. PICK r : r = N(m)
        OBVIOUS
      <3>6. r \in Seq(TextTokens) /\ p \in Seq(TextTokens)
        BY <2>1, <2>3, <3>1, <3>3, <3>5, NeutralTokens, PieceIs
      <3>. HIDE DEF N
      <3>7. \A b \in BodiesOf(q \o (p \o r))[Len(r)] : ~Forbidden(b)
        <4>1. q \o p \in Seq(TextTokens) /\ q \o (p \o r) = (q \o p) \o r
          BY <3>6, Between
        <4>. QED  BY <3>4, <3>5, <4>1
      <3>8. CASE /\ ~Forbidden(Block(t, NextCard(t, n)).body)
                 /\ Copies(p, t, From(t, n), Block(t, NextCard(t, n)).close)
        <4>1. BodiesOf(q \o (p \o r))[Len(p \o r)]
                = {Block(t, NextCard(t, n)).body} \cup BodiesOf(q \o (p \o r))[Len(r)]
          BY <2>1, <2>3, <3>6, <3>8, ScanFinds
        <4>. QED  BY <3>2, <3>5, <3>7, <3>8, <4>1
      <3>9. CASE \A j \in 1 .. Len(p) : p[j] \notin Splashes
        <4>1. BodiesOf(q \o (p \o r))[Len(p \o r)] = BodiesOf(q \o (p \o r))[Len(r)]
          BY <3>6, <3>9, ScanSkips
        <4>. QED  BY <3>2, <3>5, <3>7, <4>1
      <3>. QED  BY <2>1, <2>3, <3>1, <3>8, <3>9, PieceIs
    <2>. QED  BY <2>2, <2>3
  <1>2. Nat \subseteq S
    <2>. HIDE DEF S
    <2>. QED  BY <1>1, StrongInduct
  <1>. QED
    <2>1. ASSUME NEW n \in 0 .. Len(t) PROVE P(n)
      BY <1>0, <1>2
    <2>. QED  BY <2>1 DEF N

LEMMA NeutralizedIsClean ==
    ASSUME NEW t \in Seq(TextTokens)
    PROVE  /\ Neutralized(t) \in Seq(TextTokens)
           /\ \A b \in AllBodies(Neutralized(t)) : ~Forbidden(b)
  <1>1. Len(t) \in 0 .. Len(t) /\ <<>> \in Seq(TextTokens)
    OBVIOUS
  <1>2. PICK r : r = NeutralOf(t)[Len(t)]
    OBVIOUS
  <1>3. r \in Seq(TextTokens)
    BY <1>1, <1>2, NeutralTokens
  <1>4. <<>> \o r = r
    BY <1>3, ConcatEmptySeq
  <1>5. \A b \in BodiesOf(<<>> \o r)[Len(r)] : ~Forbidden(b)
    BY <1>1, <1>2, NeutralIsClean
  <1>. QED  BY <1>2, <1>3, <1>4, <1>5 DEF Neutralized, AllBodies

-----------------------------------------------------------------------------
(* The card of a plan. *)
(* Where a block spans from an opening fence to its end.                   *)
LEMMA SpansIs ==
    ASSUME NEW T, NEW t \in Seq(T), NEW i \in Nat, NEW c, Spans(t, i, c)
    PROVE  Block(t, i).close = c /\ Block(t, i).body = SubSeq(t, i + 2, c - 1) /\ c \in Nat \ {0}
  <1>1. /\ c \in i + 2 .. Len(t) /\ t[i + 1] = LineEnd /\ t[c] = CloseFence /\ Len(t) \in Nat
        /\ \A j \in i + 1 .. c - 1 : ~IsFence(t[j])
    BY DEF Spans
  <1>2. IsFence(CloseFence)
    BY DEF IsFence, Fence, CloseFence
  <1>3. PICK l : l = i + 1
    OBVIOUS
  <1>4. FirstAt(t, i + 1, Line, l)
    BY <1>1, <1>3 DEF FirstAt, Line
  <1>5. FenceAt(t, l + 1, c)
    <2>1. l + 1 = i + 2 /\ \A j \in l + 1 .. c - 1 : j \in i + 1 .. c - 1
      BY <1>1, <1>3
    <2>. QED  BY <1>1, <1>2, <2>1 DEF FenceAt
  <1>6. Block(t, i).close = c /\ Block(t, i).body = SubSeq(t, l + 1, c - 1)
    BY <1>4, <1>5, BlockClosed
  <1>7. l + 1 = i + 2
    BY <1>3
  <1>. QED  BY <1>1, <1>6, <1>7

Framed(body) == <<SplashFence, LineEnd>> \o body \o <<CloseFence>>

LEMMA FramedIs ==
    ASSUME NEW body \in Seq(TextTokens)
    PROVE  /\ Framed(body) \in Seq(TextTokens) /\ Len(Framed(body)) = Len(body) + 3
           /\ Framed(body)[1] = SplashFence /\ Framed(body)[2] = LineEnd
           /\ \A j \in 1 .. Len(body) : Framed(body)[2 + j] = body[j]
           /\ Framed(body)[Len(body) + 3] = CloseFence
  <1>1. PICK a, z : a = <<SplashFence, LineEnd>> /\ z = <<CloseFence>>
    OBVIOUS
  <1>2. /\ a \in Seq(TextTokens) /\ Len(a) = 2 /\ a[1] = SplashFence /\ a[2] = LineEnd
        /\ z \in Seq(TextTokens) /\ Len(z) = 1 /\ z[1] = CloseFence
    BY <1>1, TheTokens
  <1>3. Framed(body) = a \o (body \o z)
    <2>1. Framed(body) = (a \o body) \o z
      BY <1>1 DEF Framed
    <2>. QED  BY <1>2, <2>1, Between
  <1>4. PICK x : x = body \o z
    OBVIOUS
  <1>5. /\ x \in Seq(TextTokens) /\ Len(x) = Len(body) + 1 /\ Len(body) \in Nat
        /\ \A j \in 1 .. Len(body) + 1 : x[j] = IF j <= Len(body) THEN body[j] ELSE z[j - Len(body)]
    <2>1. body \in Seq(TextTokens) /\ z \in Seq(TextTokens)
      BY <1>2
    <2>2. /\ body \o z \in Seq(TextTokens) /\ Len(body \o z) = Len(body) + Len(z) /\ Len(body) \in Nat
          /\ \A j \in 1 .. Len(body) + Len(z) :
               (body \o z)[j] = IF j <= Len(body) THEN body[j] ELSE z[j - Len(body)]
      BY <2>1, ConcatProperties
    <2>. QED  BY <1>2, <1>4, <2>2
  <1>6. /\ a \o x \in Seq(TextTokens) /\ Len(a \o x) = 2 + Len(x)
        /\ \A j \in 1 .. 2 + Len(x) : (a \o x)[j] = IF j <= 2 THEN a[j] ELSE x[j - 2]
    <2>1. x \in Seq(TextTokens) /\ a \in Seq(TextTokens)
      BY <1>2, <1>5
    <2>2. /\ a \o x \in Seq(TextTokens) /\ Len(a \o x) = Len(a) + Len(x)
          /\ \A j \in 1 .. Len(a) + Len(x) :
               (a \o x)[j] = IF j <= Len(a) THEN a[j] ELSE x[j - Len(a)]
      BY <2>1, ConcatProperties
    <2>. QED  BY <1>2, <2>2
  <1>7. PICK y, n : y = a \o x /\ n = Len(body)
    OBVIOUS
  <1>8. /\ y \in Seq(TextTokens) /\ Len(y) = n + 3 /\ n \in Nat
        /\ \A j \in 1 .. n + 3 : y[j] = IF j <= 2 THEN a[j] ELSE x[j - 2]
        /\ \A j \in 1 .. n + 1 : x[j] = IF j <= n THEN body[j] ELSE z[j - n]
    BY <1>5, <1>6, <1>7
  <1>9. y[1] = a[1] /\ y[2] = a[2] /\ y[n + 3] = z[1]
    <2>1. y[1] = a[1] /\ y[2] = a[2]
      BY <1>8
    <2>2. n + 3 \in 1 .. n + 3 /\ ~(n + 3 <= 2) /\ (n + 3) - 2 = n + 1 /\ n + 1 \in 1 .. n + 1
          /\ ~(n + 1 <= n) /\ (n + 1) - n = 1
      BY <1>8
    <2>3. y[n + 3] = x[n + 1] /\ x[n + 1] = z[1]
      <3>1. PICK k, m : k = n + 3 /\ m = n + 1
        OBVIOUS
      <3>. QED  BY <1>8, <2>2, <3>1
    <2>. QED  BY <2>1, <2>3
  <1>10. ASSUME NEW j \in 1 .. n PROVE y[2 + j] = body[j]
    <2>1. 2 + j \in 1 .. n + 3 /\ ~(2 + j <= 2) /\ (2 + j) - 2 = j /\ j \in 1 .. n + 1 /\ j <= n
      BY <1>8
    <2>2. PICK k : k = 2 + j
      OBVIOUS
    <2>. QED  BY <1>8, <2>1, <2>2
  <1>. QED  BY <1>2, <1>3, <1>4, <1>7, <1>8, <1>9, <1>10

LEMMA OwnBodies ==
    ASSUME NEW body \in {LoweredPlan, ErrorCard}
    PROVE  /\ body \in Seq(TextTokens) /\ Len(body) \in 1 .. 2
           /\ \A j \in 1 .. Len(body) : body[j] \in {NameLine(PlanName), Code}
  <1>1. CASE body = LoweredPlan
    <2>1. body = <<NameLine(PlanName), Code>>
      BY <1>1 DEF LoweredPlan
    <2>2. body \in Seq(TextTokens) /\ Len(body) = 2 /\ body[1] = NameLine(PlanName) /\ body[2] = Code
      BY <2>1, TheTokens
    <2>3. \A j \in 1 .. 2 : j = 1 \/ j = 2
      OBVIOUS
    <2>. QED  BY <2>2, <2>3
  <1>2. CASE body = ErrorCard
    <2>1. body = <<Code>>
      BY <1>2 DEF ErrorCard
    <2>2. body \in Seq(TextTokens) /\ Len(body) = 1 /\ body[1] = Code
      BY <2>1, TheTokens
    <2>3. \A j \in 1 .. 1 : j = 1
      OBVIOUS
    <2>. QED  BY <2>2, <2>3
  <1>. QED  BY <1>1, <1>2

LEMMA Kinds ==
    /\ IsFence(CloseFence) /\ IsFence(SplashFence) /\ IsFence(PlanFence)
    /\ ~IsFence(NameLine(PlanName)) /\ ~IsFence(Code) /\ ~IsFence(LineEnd) /\ ~IsFence(Notice) /\ ~IsFence(Building)
    /\ CloseFence \notin LiveFences /\ PlanFence \notin Splashes
    /\ Splashes = {SplashFence} /\ LiveFences = {SplashFence, PlanFence}
    /\ NetCode # NameLine(PlanName) /\ NetCode # Code
  <1>1. Splashes = {SplashFence}
    BY DEF Splashes, OpensWith, SplashFence
  <1>. QED  BY <1>1 DEF IsFence, Fence, Tok, NameLine, Building, LiveFences, CloseFence, SplashFence, PlanFence,
                 LineEnd, Code, NetCode, Notice

(* The card of a plan that takes the place of a message.                   *)
LEMMA FramedIsClean ==
    ASSUME NEW body \in {LoweredPlan, ErrorCard}
    PROVE  /\ Spans(Framed(body), 1, Len(body) + 3)
           /\ \A j \in 2 .. Len(Framed(body)) : Framed(body)[j] \notin LiveFences
           /\ \A b \in AllBodies(Framed(body)) : ~Forbidden(b)
  <1>1. PICK x, n : x = Framed(body) /\ n = Len(body)
    OBVIOUS
  <1>2. /\ x \in Seq(TextTokens) /\ n \in 1 .. 2 /\ Len(x) = n + 3
        /\ x[1] = SplashFence /\ x[2] = LineEnd /\ x[n + 3] = CloseFence
        /\ \A j \in 1 .. n : x[2 + j] = body[j]
        /\ \A j \in 1 .. n : body[j] \in {NameLine(PlanName), Code}
    BY <1>1, FramedIs, OwnBodies
  <1>3. ASSUME NEW j \in 3 .. n + 2 PROVE x[j] \in {NameLine(PlanName), Code}
    <2>1. j - 2 \in 1 .. n /\ 2 + (j - 2) = j
      BY <1>2
    <2>. QED  BY <1>2, <2>1
  <1>4. ASSUME NEW j \in 2 .. n + 3 PROVE x[j] \notin LiveFences /\ (j # n + 3 => ~IsFence(x[j]))
    <2>1. j = 2 \/ j \in 3 .. n + 2 \/ j = n + 3
      BY <1>2
    <2>. QED  BY <1>2, <1>3, <2>1, Kinds
  <1>5. Spans(x, 1, n + 3)
    <2>1. n + 3 \in 1 + 2 .. Len(x) /\ 1 + 1 = 2 /\ \A j \in 1 + 1 .. (n + 3) - 1 : j \in 2 .. n + 3 /\ j # n + 3
      BY <1>2
    <2>. QED  BY <1>2, <1>4, <2>1 DEF Spans
  <1>6. /\ Block(x, 1).close = n + 3 /\ Block(x, 1).body = SubSeq(x, 3, n + 2)
    <2>1. Block(x, 1).close = n + 3 /\ Block(x, 1).body = SubSeq(x, 1 + 2, (n + 3) - 1)
      <3>1. PICK i, c : i = 1 /\ c = n + 3
        OBVIOUS
      <3>2. i \in Nat /\ x \in Seq(TextTokens) /\ Spans(x, i, c)
        BY <1>2, <1>5, <3>1
      <3>3. Block(x, i).close = c /\ Block(x, i).body = SubSeq(x, i + 2, c - 1)
        BY <3>2, SpansIs
      <3>. QED  BY <3>1, <3>3
    <2>2. 1 + 2 = 3 /\ (n + 3) - 1 = n + 2
      BY <1>2
    <2>. QED  BY <2>1, <2>2
  <1>7. ~Forbidden(SubSeq(x, 3, n + 2))
    <2>1. Len(SubSeq(x, 3, n + 2)) = n /\ \A j \in 1 .. n : SubSeq(x, 3, n + 2)[j] = x[j + 2]
      BY <1>2
    <2>2. NetCode \notin {NameLine(PlanName), Code}
      BY Kinds
    <2>3. ASSUME NEW j \in 1 .. n PROVE SubSeq(x, 3, n + 2)[j] # NetCode
      <3>1. j + 2 \in 3 .. n + 2
        BY <1>2
      <3>2. x[j + 2] \in {NameLine(PlanName), Code}
        BY <1>3, <3>1
      <3>. QED  BY <2>1, <2>2, <3>2
    <2>. QED  BY <2>1, <2>3 DEF Forbidden, Contains
  <1>8. NextCard(x, Len(x)) = 1
    <2>1. FirstAt(x, 1, Splashes, 1)
      BY <1>2, Kinds DEF FirstAt
    <2>2. First(x, 1, Splashes) = 1
      <3>1. PICK o : o = 1
        OBVIOUS
      <3>2. o \in Nat \ {0} /\ x \in Seq(TextTokens) /\ FirstAt(x, o, Splashes, o)
        BY <1>2, <2>1, <3>1
      <3>3. First(x, o, Splashes) = o
        BY <3>2, FirstUnique
      <3>. QED  BY <3>1, <3>3
    <2>3. Len(x) - Len(x) + 1 = 1
      BY <1>2
    <2>. QED  BY <2>2, <2>3 DEF NextCard, Splashes
  <1>9. ~ScanEnded(x, Len(x)) /\ LeftAfter(x, Len(x)) = 0
    BY <1>2, <1>6, <1>8 DEF ScanEnded, LeftAfter
  <1>10. AllBodies(x) = {SubSeq(x, 3, n + 2)}
    <2>1. \A k \in 0 .. Len(x) :
            BodiesOf(x)[k] = IF ScanEnded(x, k) THEN {}
                             ELSE {Block(x, NextCard(x, k)).body} \cup BodiesOf(x)[LeftAfter(x, k)]
      BY <1>2, BodiesUnfold
    <2>2. 0 \in 0 .. Len(x) /\ Len(x) \in 0 .. Len(x)
      BY <1>2
    <2>3. ScanEnded(x, 0)
      <3>1. ~ScanEnded(x, 0) => LeftAfter(x, 0) \in 0 .. 0 - 1
        BY <1>2, <2>2, ScanMoves
      <3>. QED  BY <3>1
    <2>4. BodiesOf(x)[0] = {}
      BY <2>1, <2>2, <2>3
    <2>. QED  BY <1>6, <1>8, <1>9, <2>1, <2>2, <2>4 DEF AllBodies
  <1>11. \A j \in 2 .. Len(x) : x[j] \notin LiveFences
    BY <1>2, <1>4
  <1>. QED  BY <1>1, <1>5, <1>7, <1>10, <1>11

LEMMA ResolvedIs ==
    ASSUME NEW t
    PROVE  Resolved(t) = t \/ \E body \in {LoweredPlan, ErrorCard} : Resolved(t) = Framed(body)
  <1>. SUFFICES ASSUME First(t, 1, Splashes) = 0, SplashBody(t) # NoBody
                PROVE  \E body \in {LoweredPlan, ErrorCard} : Resolved(t) = Framed(body)
    BY DEF Resolved, Splashes
  <1>1. FencedBody(t, {"runsplash"}) = NoBody
    <2>1. {"runsplash"} # {""}
      OBVIOUS
    <2>. QED  BY <2>1 DEF FencedBody, Splashes
  <1>2. SplashBody(t) \in {LoweredPlan, ErrorCard}
    BY <1>1 DEF SplashBody
  <1>3. Resolved(t) = Framed(SplashBody(t))
    BY DEF Resolved, Splashes, Framed
  <1>. QED  BY <1>2, <1>3

-----------------------------------------------------------------------------
(* Tidy texts. *)
(* Every live block of t is whole, but for a last one that opens with one of *)
(* open; none of its plans is one of barred.                               *)
WholeBlock(t, i, barred) ==
    \E c \in Nat : Spans(t, i, c) /\ (t[i] = PlanFence => SubSeq(t, i + 2, c - 1) \notin barred)
IsOpen(t, i) == (i < Len(t) => t[i + 1] = LineEnd) /\ \A j \in i + 1 .. Len(t) : ~IsFence(t[j])
Tidy(t, barred, open) ==
    \A i \in 1 .. Len(t) : t[i] \in LiveFences =>
      WholeBlock(t, i, barred) \/ (t[i] \in open /\ IsOpen(t, i))

LEMMA SpansShift ==
    ASSUME NEW T, NEW t \in Seq(T), NEW u \in Seq(T), NEW i \in Nat \ {0}, NEW c \in Nat, Spans(t, i, c),
           NEW d \in Int, i + d \in Nat \ {0}, c + d <= Len(u), \A j \in i .. c : u[j + d] = t[j]
    PROVE  Spans(u, i + d, c + d) /\ SubSeq(u, (i + d) + 2, (c + d) - 1) = SubSeq(t, i + 2, c - 1)
  <1>1. /\ c \in i + 2 .. Len(t) /\ t[i + 1] = LineEnd /\ t[c] = CloseFence /\ Len(t) \in Nat /\ Len(u) \in Nat
        /\ \A j \in i + 1 .. c - 1 : ~IsFence(t[j])
    BY DEF Spans
  <1>2. u[(i + d) + 1] = t[i + 1] /\ u[c + d] = t[c]
    <2>1. i + 1 \in i .. c /\ c \in i .. c /\ (i + 1) + d = (i + d) + 1
      BY <1>1
    <2>2. PICK k : k = i + 1
      OBVIOUS
    <2>3. u[k + d] = t[k] /\ u[c + d] = t[c]
      BY <2>1, <2>2
    <2>. QED  BY <2>1, <2>2, <2>3
  <1>3. ASSUME NEW j \in (i + d) + 1 .. (c + d) - 1 PROVE ~IsFence(u[j])
    <2>1. j - d \in i + 1 .. c - 1 /\ j - d \in i .. c /\ (j - d) + d = j
      BY <1>1
    <2>. QED  BY <1>1, <2>1
  <1>4. c + d \in (i + d) + 2 .. Len(u)
    BY <1>1
  <1>5. SubSeq(u, (i + 2) + d, (c - 1) + d) = SubSeq(t, i + 2, c - 1)
    <2>1. PICK a, b : a = i + 2 /\ b = c - 1
      OBVIOUS
    <2>2. /\ a \in Nat \ {0} /\ b \in Nat /\ a + d \in Nat \ {0} /\ b <= Len(t) /\ b + d <= Len(u) /\ a <= b + 1
          /\ a .. b \subseteq i .. c
      BY <1>1, <2>1
    <2>3. SubSeq(u, a + d, b + d) = SubSeq(t, a, b)
      <3>1. \A j \in a .. b : u[j + d] = t[j]
        BY <2>2
      <3>. QED  BY <2>2, <3>1, SubSeqShifts
    <2>. QED  BY <2>1, <2>3
  <1>6. (i + 2) + d = (i + d) + 2 /\ (c - 1) + d = (c + d) - 1
    BY <1>1
  <1>. QED  BY <1>1, <1>2, <1>3, <1>4, <1>5, <1>6 DEF Spans

(* The same for a block and for one that is open.                          *)
LEMMA WholeShifts ==
    ASSUME NEW T, NEW t \in Seq(T), NEW u \in Seq(T), NEW i \in Nat \ {0}, NEW d \in Int, NEW hi \in Nat,
           i <= hi, i + d \in Nat \ {0}, hi + d <= Len(u), NEW barred,
           \E c \in Nat : c <= hi /\ Spans(t, i, c) /\ (t[i] = PlanFence => SubSeq(t, i + 2, c - 1) \notin barred),
           \A j \in i .. hi : u[j + d] = t[j]
    PROVE  WholeBlock(u, i + d, barred)
  <1>1. PICK c \in Nat : /\ c <= hi /\ Spans(t, i, c)
                         /\ t[i] = PlanFence => SubSeq(t, i + 2, c - 1) \notin barred
    OBVIOUS
  <1>2. c \in i .. hi /\ c + d \in Nat /\ c + d <= Len(u) /\ Len(u) \in Nat
    BY <1>1 DEF Spans
  <1>3. ASSUME NEW j \in i .. c PROVE u[j + d] = t[j]
    <2>1. j \in i .. hi
      BY <1>2
    <2>. QED  BY <2>1
  <1>4. Spans(u, i + d, c + d) /\ SubSeq(u, (i + d) + 2, (c + d) - 1) = SubSeq(t, i + 2, c - 1)
    BY <1>1, <1>2, <1>3, SpansShift
  <1>5. u[i + d] = t[i]
    OBVIOUS
  <1>. QED  BY <1>1, <1>2, <1>4, <1>5 DEF WholeBlock

LEMMA IsOpenShifts ==
    ASSUME NEW T, NEW t \in Seq(T), NEW u \in Seq(T), NEW i \in 1 .. Len(t), NEW d \in Int,
           i + d \in Nat \ {0}, Len(u) = Len(t) + d, IsOpen(t, i), \A j \in i .. Len(t) : u[j + d] = t[j]
    PROVE  IsOpen(u, i + d)
  <1>1. Len(t) \in Nat /\ (i < Len(t) => t[i + 1] = LineEnd) /\ \A j \in i + 1 .. Len(t) : ~IsFence(t[j])
    BY DEF IsOpen
  <1>2. ASSUME i + d < Len(u) PROVE u[(i + d) + 1] = LineEnd
    <2>1. i + 1 \in i .. Len(t) /\ (i + 1) + d = (i + d) + 1 /\ i < Len(t)
      BY <1>1, <1>2
    <2>2. PICK k : k = i + 1
      OBVIOUS
    <2>3. u[k + d] = t[k]
      BY <2>1, <2>2
    <2>. QED  BY <1>1, <2>1, <2>2, <2>3
  <1>3. ASSUME NEW j \in (i + d) + 1 .. Len(u) PROVE ~IsFence(u[j])
    <2>1. j - d \in i + 1 .. Len(t) /\ j - d \in i .. Len(t) /\ (j - d) + d = j
      BY <1>1
    <2>. QED  BY <1>1, <2>1
  <1>. QED  BY <1>2, <1>3 DEF IsOpen

(* What follows a tidy text may be cut short.                              *)
LEMMA TidyConcat ==
    ASSUME NEW T, NEW p \in Seq(T), NEW q \in Seq(T), NEW barred, NEW open,
           Tidy(p, barred, {}), Tidy(q, barred, open)
    PROVE  Tidy(p \o q, barred, open)
  <1>1. PICK u : u = p \o q
    OBVIOUS
  <1>2. /\ u \in Seq(T) /\ Len(u) = Len(p) + Len(q) /\ Len(p) \in Nat /\ Len(q) \in Nat
        /\ \A i \in 1 .. Len(p) + Len(q) : u[i] = IF i <= Len(p) THEN p[i] ELSE q[i - Len(p)]
    BY <1>1, ConcatProperties, LenProperties
  <1>3. PICK a, b : a = Len(p) /\ b = Len(q)
    OBVIOUS
  <1>4. /\ a \in Nat /\ b \in Nat /\ Len(u) = a + b
        /\ \A i \in 1 .. a : u[i] = p[i]
        /\ \A i \in 1 .. b : u[i + a] = q[i]
    <2>1. \A i \in 1 .. a : i \in 1 .. a + b /\ i <= a
      BY <1>2, <1>3
    <2>2. ASSUME NEW i \in 1 .. b PROVE u[i + a] = q[i]
      <3>1. i + a \in 1 .. a + b /\ ~(i + a <= a) /\ (i + a) - a = i
        BY <1>2, <1>3
      <3>2. PICK k : k = i + a
        OBVIOUS
      <3>. QED  BY <1>2, <1>3, <3>1, <3>2
    <2>. QED  BY <1>2, <1>3, <2>1, <2>2
  <1>5. ASSUME NEW i \in 1 .. Len(u), u[i] \in LiveFences
        PROVE  WholeBlock(u, i, barred) \/ (u[i] \in open /\ IsOpen(u, i))
    <2>1. CASE i <= a
      <3>1. i \in 1 .. a /\ p[i] \in LiveFences
        BY <1>4, <1>5, <2>1
      <3>2. WholeBlock(p, i, barred)
        BY <1>3, <3>1 DEF Tidy
      <3>3. PICK c \in Nat : Spans(p, i, c) /\ (p[i] = PlanFence => SubSeq(p, i + 2, c - 1) \notin barred)
        BY <3>2 DEF WholeBlock
      <3>4. c <= a
        BY <1>3, <3>3 DEF Spans
      <3>5. \A j \in i .. a : u[j + 0] = p[j]
        BY <1>4, <3>1
      <3>6. PICK z : z = 0
        OBVIOUS
      <3>7. /\ i \in Nat \ {0} /\ z \in Int /\ a \in Nat /\ i <= a /\ i + z \in Nat \ {0} /\ a + z <= Len(u)
            /\ i + z = i /\ \A j \in i .. a : u[j + z] = p[j]
        BY <1>4, <3>1, <3>5, <3>6
      <3>8. WholeBlock(u, i + z, barred)
        BY <1>2, <3>3, <3>4, <3>7, WholeShifts
      <3>. QED  BY <3>7, <3>8
    <2>2. CASE ~(i <= a)
      <3>1. PICK k : k = i - a
        OBVIOUS
      <3>2. k \in 1 .. b /\ k + a = i /\ k \in Nat \ {0} /\ a \in Int /\ k + a \in Nat \ {0} /\ b + a <= Len(u)
            /\ Len(u) = Len(q) + a /\ k <= b
        BY <1>3, <1>4, <2>2, <3>1
      <3>3. u[i] = q[k]
        BY <1>4, <3>2
      <3>4. WholeBlock(q, k, barred) \/ (q[k] \in open /\ IsOpen(q, k))
        BY <1>3, <1>5, <3>2, <3>3 DEF Tidy
      <3>5. \A j \in k .. b : u[j + a] = q[j]
        BY <1>4, <3>2
      <3>6. CASE WholeBlock(q, k, barred)
        <4>1. PICK c \in Nat : Spans(q, k, c) /\ (q[k] = PlanFence => SubSeq(q, k + 2, c - 1) \notin barred)
          BY <3>6 DEF WholeBlock
        <4>2. c <= b
          BY <1>3, <4>1 DEF Spans
        <4>3. WholeBlock(u, k + a, barred)
          BY <1>2, <1>4, <3>2, <3>5, <4>1, <4>2, WholeShifts
        <4>. QED  BY <3>2, <4>3
      <3>7. CASE q[k] \in open /\ IsOpen(q, k)
        <4>1. IsOpen(u, k + a)
          BY <1>2, <1>3, <3>2, <3>5, <3>7, IsOpenShifts
        <4>. QED  BY <3>2, <3>3, <3>7, <4>1
      <3>. QED  BY <3>4, <3>6, <3>7
    <2>. QED  BY <2>1, <2>2
  <1>. QED  BY <1>1, <1>5 DEF Tidy

LEMMA TidyWindow ==
    ASSUME NEW T, NEW t \in Seq(T), NEW p \in Seq(T), NEW a \in Nat \ {0}, NEW b \in Nat, a <= b + 1,
           b <= Len(t), Copies(p, t, a, b), NEW barred,
           \A i \in a .. b : t[i] \in LiveFences =>
             \E c \in Nat : c <= b /\ Spans(t, i, c) /\ (t[i] = PlanFence => SubSeq(t, i + 2, c - 1) \notin barred)
    PROVE  Tidy(p, barred, {})
  <1>1. Len(p) = b - a + 1 /\ \A j \in 1 .. Len(p) : p[j] = t[a + j - 1]
    BY DEF Copies
  <1>2. PICK d : d = 1 - a
    OBVIOUS
  <1>3. d \in Int /\ b + d = Len(p)
    BY <1>1, <1>2
  <1>4. ASSUME NEW j \in a .. b PROVE p[j + d] = t[j]
    <2>1. PICK k : k = j + d
      OBVIOUS
    <2>2. k \in 1 .. Len(p) /\ a + k - 1 = j
      BY <1>1, <1>2, <2>1
    <2>. QED  BY <1>1, <2>1, <2>2
  <1>5. ASSUME NEW k \in 1 .. Len(p), p[k] \in LiveFences PROVE WholeBlock(p, k, barred)
    <2>1. PICK i : i = k - d
      OBVIOUS
    <2>2. i \in a .. b /\ i + d = k /\ i \in Nat \ {0} /\ i <= b /\ i + d \in Nat \ {0} /\ b + d <= Len(p)
      BY <1>1, <1>2, <1>3, <2>1
    <2>3. t[i] \in LiveFences /\ \A j \in i .. b : p[j + d] = t[j]
      BY <1>4, <1>5, <2>2
    <2>4. \E c \in Nat : c <= b /\ Spans(t, i, c) /\ (t[i] = PlanFence => SubSeq(t, i + 2, c - 1) \notin barred)
      BY <2>2, <2>3
    <2>5. WholeBlock(p, i + d, barred)
      BY <1>3, <2>2, <2>3, <2>4, WholeShifts
    <2>. QED  BY <2>2, <2>5
  <1>. QED  BY <1>5 DEF Tidy

LEMMA TidySuffix ==
    ASSUME NEW T, NEW t \in Seq(T), NEW p \in Seq(T), NEW a \in 1 .. Len(t) + 1, Copies(p, t, a, Len(t)),
           NEW barred, NEW open, Tidy(t, barred, open)
    PROVE  Tidy(p, barred, open)
  <1>1. Len(p) = Len(t) - a + 1 /\ \A j \in 1 .. Len(p) : p[j] = t[a + j - 1]
    BY DEF Copies
  <1>2. PICK d, b : d = 1 - a /\ b = Len(t)
    OBVIOUS
  <1>3. d \in Int /\ b \in Nat /\ b + d = Len(p)
    BY <1>1, <1>2
  <1>4. ASSUME NEW j \in a .. b PROVE p[j + d] = t[j]
    <2>1. PICK k : k = j + d
      OBVIOUS
    <2>2. k \in 1 .. Len(p) /\ a + k - 1 = j
      BY <1>1, <1>2, <2>1
    <2>. QED  BY <1>1, <2>1, <2>2
  <1>5. ASSUME NEW k \in 1 .. Len(p), p[k] \in LiveFences
        PROVE  WholeBlock(p, k, barred) \/ (p[k] \in open /\ IsOpen(p, k))
    <2>1. PICK i : i = k - d
      OBVIOUS
    <2>2. i \in a .. b /\ i \in 1 .. b /\ i + d = k /\ i \in Nat \ {0} /\ i <= b /\ i + d \in Nat \ {0} /\ b + d <= Len(p)
      BY <1>1, <1>2, <1>3, <2>1
    <2>3. t[i] \in LiveFences /\ t[i] = p[k] /\ \A j \in i .. b : p[j + d] = t[j]
      BY <1>4, <1>5, <2>2
    <2>4. WholeBlock(t, i, barred) \/ (t[i] \in open /\ IsOpen(t, i))
      BY <1>2, <2>2, <2>3 DEF Tidy
    <2>5. CASE WholeBlock(t, i, barred)
      <3>1. PICK c \in Nat : Spans(t, i, c) /\ (t[i] = PlanFence => SubSeq(t, i + 2, c - 1) \notin barred)
        BY <2>5 DEF WholeBlock
      <3>2. c <= b
        BY <1>2, <3>1 DEF Spans
      <3>3. WholeBlock(p, i + d, barred)
        BY <1>3, <2>2, <2>3, <3>1, <3>2, WholeShifts
      <3>. QED  BY <2>2, <3>3
    <2>6. CASE t[i] \in open /\ IsOpen(t, i)
      <3>1. i \in 1 .. Len(t) /\ Len(p) = Len(t) + d /\ \A j \in i .. Len(t) : p[j + d] = t[j]
        BY <1>2, <1>3, <2>2, <2>3
      <3>2. IsOpen(p, i + d)
        BY <1>3, <2>2, <2>6, <3>1, IsOpenShifts
      <3>. QED  BY <2>2, <2>3, <2>6, <3>2
    <2>. QED  BY <2>4, <2>5, <2>6
  <1>. QED  BY <1>5 DEF Tidy

LEMMA TidyAppend ==
    ASSUME NEW T, NEW x \in Seq(T), NEW e \in T, e \notin LiveFences, NEW barred, Tidy(x, barred, {})
    PROVE  Append(x, e) \in Seq(T) /\ Tidy(Append(x, e), barred, {})
  <1>1. PICK z : z = <<e>>
    OBVIOUS
  <1>2. z \in Seq(T) /\ Len(z) = 1 /\ z[1] = e /\ Append(x, e) = x \o z
    BY <1>1, AppendIsConcat
  <1>3. \A i \in 1 .. Len(z) : z[i] \notin LiveFences
    BY <1>2
  <1>4. Tidy(z, barred, {})
    BY <1>3 DEF Tidy
  <1>5. Tidy(x \o z, barred, {}) /\ x \o z \in Seq(T)
    BY <1>2, <1>4, TidyConcat, ConcatProperties
  <1>. QED  BY <1>2, <1>5

(* A block before a fence ends before it.                                  *)
LEMMA WholeBefore ==
    ASSUME NEW T, NEW t \in Seq(T), NEW barred, NEW open, Tidy(t, barred, open),
           NEW i \in 1 .. Len(t), t[i] \in LiveFences, NEW f \in i + 1 .. Len(t), t[f] \in LiveFences
    PROVE  \E c \in Nat : /\ c <= f - 1 /\ Spans(t, i, c)
                          /\ t[i] = PlanFence => SubSeq(t, i + 2, c - 1) \notin barred
  <1>1. WholeBlock(t, i, barred)
    <2>1. IsFence(t[f])
      BY Kinds
    <2>2. ~IsOpen(t, i)
      BY <2>1 DEF IsOpen
    <2>. QED  BY <2>2 DEF Tidy
  <1>2. PICK c \in Nat : Spans(t, i, c) /\ (t[i] = PlanFence => SubSeq(t, i + 2, c - 1) \notin barred)
    BY <1>1 DEF WholeBlock
  <1>3. /\ c \in i + 2 .. Len(t) /\ t[c] = CloseFence /\ \A j \in i + 1 .. c - 1 : ~IsFence(t[j])
    BY <1>2 DEF Spans
  <1>4. IsFence(t[f]) /\ t[f] # CloseFence
    BY Kinds
  <1>5. ~(f \in i + 1 .. c - 1) /\ f # c
    BY <1>3, <1>4
  <1>6. c <= f - 1
    BY <1>3, <1>5
  <1>. QED  BY <1>2, <1>6

LEMMA ClosedIsWhole ==
    ASSUME NEW T, NEW t \in Seq(T), NEW i \in 1 .. Len(t), NEW barred
    PROVE  /\ IsOpen(t, i) => Block(t, i).close = 0
           /\ WholeBlock(t, i, barred) => Block(t, i).close # 0
           /\ \A c \in Nat : Spans(t, i, c) => Block(t, i).close = c /\ Block(t, i).body = SubSeq(t, i + 2, c - 1)
  <1>1. i \in Nat /\ Len(t) \in Nat
    OBVIOUS
  <1>2. ASSUME IsOpen(t, i) PROVE Block(t, i).close = 0
    <2>1. CASE i < Len(t)
      <3>1. PICK l : l = i + 1
        OBVIOUS
      <3>2. FirstAt(t, i + 1, Line, l)
        BY <1>1, <1>2, <2>1, <3>1 DEF IsOpen, FirstAt, Line
      <3>3. \A j \in l + 1 .. Len(t) : ~IsFence(t[j])
        <4>1. \A j \in l + 1 .. Len(t) : j \in i + 1 .. Len(t)
          BY <1>1, <3>1
        <4>. QED  BY <1>2, <4>1 DEF IsOpen
      <3>. QED  BY <1>1, <3>2, <3>3, BlockOpen
    <2>2. CASE ~(i < Len(t))
      <3>1. \A j \in i + 1 .. Len(t) : t[j] \notin Line
        BY <1>1, <2>2
      <3>. QED  BY <1>1, <3>1, BlockOpen
    <2>. QED  BY <2>1, <2>2
  <1>3. \A c \in Nat : Spans(t, i, c) =>
          Block(t, i).close = c /\ Block(t, i).body = SubSeq(t, i + 2, c - 1) /\ c \in Nat \ {0}
    BY <1>1, SpansIs
  <1>4. WholeBlock(t, i, barred) => Block(t, i).close # 0
    BY <1>3 DEF WholeBlock
  <1>. QED  BY <1>2, <1>3, <1>4

(* What a scan leaves of a tidy text is tidy.                              *)
LEMMA NeutralIsTidy ==
    ASSUME NEW t \in Seq(TextTokens), NEW barred, Tidy(t, barred, {})
    PROVE  \A n \in 0 .. Len(t) : Tidy(NeutralOf(t)[n], barred, {})
  <1>. DEFINE N(n) == NeutralOf(t)[n]
              S == {n \in Nat : n <= Len(t) => Tidy(N(n), barred, {})}
  <1>0. Len(t) \in Nat
    OBVIOUS
  <1>1. ASSUME NEW n \in Nat, \A k \in 0 .. n - 1 : k \in S PROVE n \in S
    <2>. SUFFICES ASSUME n <= Len(t) PROVE Tidy(N(n), barred, {})
      OBVIOUS
    <2>1. n \in 0 .. Len(t)
      BY <1>0
    <2>2. CASE ScanEnded(t, n)
      <3>1. PICK r, a : r = N(n) /\ a = From(t, n)
        OBVIOUS
      <3>2. r = SubSeq(t, a, Len(t)) /\ r \in Seq(TextTokens)
        BY <2>1, <2>2, <3>1, NeutralUnfolds, NeutralTokens
      <3>3. a \in 1 .. Len(t) + 1
        BY <1>0, <2>1, <3>1 DEF From
      <3>4. Copies(r, t, a, Len(t))
        BY <1>0, <3>2, <3>3 DEF Copies
      <3>5. Tidy(r, barred, {})
        BY <3>2, <3>3, <3>4, TidySuffix
      <3>. QED  BY <3>1, <3>5
    <2>3. CASE ~ScanEnded(t, n)
      <3>1. PICK m, p, s, c, f : /\ m = LeftAfter(t, n) /\ p = Piece(t, n) /\ s = NextCard(t, n)
                                 /\ c = Block(t, s).close /\ f = From(t, n)
        OBVIOUS
      <3>2. N(n) = p \o N(m)
        BY <2>1, <2>3, <3>1, NeutralUnfolds
      <3>3. m \in 0 .. n - 1 /\ m \in 0 .. Len(t)
        <4>1. m \in 0 .. n - 1
          BY <2>1, <2>3, <3>1, ScanMoves
        <4>. QED  BY <1>0, <2>1, <4>1
      <3>4. Tidy(N(m), barred, {}) /\ N(m) \in Seq(TextTokens) /\ p \in Seq(TextTokens)
        BY <1>1, <2>1, <2>3, <3>1, <3>3, NeutralTokens, PieceIs
      <3>. HIDE DEF N
      <3>5. /\ f \in Nat \ {0} /\ s \in f .. Len(t) /\ c \in s + 2 .. Len(t) /\ t[s] \in Splashes
            /\ s \in 1 .. Len(t)
        <4>1. f \in Nat \ {0} /\ s \in f .. Len(t) /\ c \in s + 2 .. Len(t) /\ FirstAt(t, f, Splashes, s)
          BY <2>1, <2>3, <3>1, ScanMoves DEF Splashes
        <4>. QED  BY <1>0, <4>1 DEF FirstAt
      <3>6. t[s] \in LiveFences
        BY <3>5, Kinds
      <3>7. ASSUME NEW i \in f .. s - 1, t[i] \in LiveFences
            PROVE  \E e \in Nat : /\ e <= s - 1 /\ Spans(t, i, e)
                                  /\ t[i] = PlanFence => SubSeq(t, i + 2, e - 1) \notin barred
        <4>1. i \in 1 .. Len(t) /\ s \in i + 1 .. Len(t)
          BY <1>0, <3>5
        <4>. QED  BY <3>6, <3>7, <4>1, WholeBefore
      <3>8. Spans(t, s, c) /\ (t[s] = PlanFence => SubSeq(t, s + 2, c - 1) \notin barred)
        <4>1. WholeBlock(t, s, barred)
          BY <3>5, <3>6 DEF Tidy
        <4>2. PICK e \in Nat : Spans(t, s, e) /\ (t[s] = PlanFence => SubSeq(t, s + 2, e - 1) \notin barred)
          BY <4>1 DEF WholeBlock
        <4>3. e = c
          BY <3>1, <3>5, <4>2, ClosedIsWhole
        <4>. QED  BY <4>2, <4>3
      <3>9. CASE Copies(p, t, f, c)
        <4>1. ASSUME NEW i \in f .. c, t[i] \in LiveFences
              PROVE  \E e \in Nat : /\ e <= c /\ Spans(t, i, e)
                                    /\ t[i] = PlanFence => SubSeq(t, i + 2, e - 1) \notin barred
          <5>1. CASE i \in f .. s - 1
            <6>1. PICK e \in Nat : /\ e <= s - 1 /\ Spans(t, i, e)
                                   /\ t[i] = PlanFence => SubSeq(t, i + 2, e - 1) \notin barred
              BY <3>7, <4>1, <5>1
            <6>2. e <= c
              BY <1>0, <3>5, <6>1
            <6>. QED  BY <6>1, <6>2
          <5>2. CASE i = s
            <6>1. c \in Nat /\ c <= c
              BY <1>0, <3>5
            <6>. QED  BY <3>8, <5>2, <6>1
          <5>3. CASE i \in s + 1 .. c
            <6>1. t[c] = CloseFence /\ \A j \in s + 1 .. c - 1 : ~IsFence(t[j])
              BY <3>8 DEF Spans
            <6>2. i = c \/ i \in s + 1 .. c - 1
              BY <3>5, <5>3
            <6>. QED  BY <4>1, <6>1, <6>2, Kinds
          <5>4. i \in f .. s - 1 \/ i = s \/ i \in s + 1 .. c
            BY <3>5
          <5>. QED  BY <5>1, <5>2, <5>3, <5>4
        <4>2. c \in Nat /\ c <= Len(t) /\ f <= c + 1
          BY <1>0, <3>5
        <4>3. Tidy(p, barred, {})
          BY <3>4, <3>5, <3>9, <4>1, <4>2, TidyWindow
        <4>. QED  BY <3>2, <3>4, <4>3, TidyConcat
      <3>10. CASE \E x \in Seq(TextTokens) : p = Append(x, Notice) /\ Copies(x, t, f, s - 1)
        <4>1. PICK x \in Seq(TextTokens) : p = Append(x, Notice) /\ Copies(x, t, f, s - 1)
          BY <3>10
        <4>2. PICK b : b = s - 1
          OBVIOUS
        <4>3. b \in Nat /\ b <= Len(t) /\ f <= b + 1
          BY <1>0, <3>5, <4>2
        <4>4. Tidy(x, barred, {})
          BY <3>5, <3>7, <4>1, <4>2, <4>3, TidyWindow
        <4>5. Notice \in TextTokens /\ Notice \notin LiveFences
          BY TheTokens, Kinds
        <4>6. Tidy(p, barred, {})
          BY <4>1, <4>4, <4>5, TidyAppend
        <4>. QED  BY <3>2, <3>4, <4>6, TidyConcat
      <3>. QED  BY <2>1, <2>3, <3>1, <3>9, <3>10, PieceIs
    <2>. QED  BY <2>2, <2>3
  <1>2. Nat \subseteq S
    <2>. HIDE DEF S
    <2>. QED  BY <1>1, StrongInduct
  <1>. QED
    <2>1. ASSUME NEW n \in 0 .. Len(t) PROVE Tidy(N(n), barred, {})
      BY <1>0, <1>2
    <2>. QED  BY <2>1 DEF N

-----------------------------------------------------------------------------
(* The steps of the display. *)
LEMMA LastIs ==
    ASSUME NEW T, NEW t \in Seq(T), NEW S
    PROVE  \/ Last1(t, S) = 0 /\ \A j \in 1 .. Len(t) : t[j] \notin S
           \/ /\ Last1(t, S) \in 1 .. Len(t) /\ t[Last1(t, S)] \in S
              /\ \A j \in Last1(t, S) + 1 .. Len(t) : t[j] \notin S
  <1>. DEFINE hits == {i \in DOMAIN t : t[i] \in S}
  <1>1. hits \in SUBSET (0 .. Len(t)) /\ Len(t) \in Nat /\ DOMAIN t = 1 .. Len(t)
    OBVIOUS
  <1>2. Last1(t, S) = IF hits = {} THEN 0 ELSE CHOOSE i \in hits : \A j \in hits : j <= i
    BY DEF Last1
  <1>3. CASE hits = {}
    BY <1>1, <1>2, <1>3
  <1>4. CASE hits # {}
    <2>1. \E i \in hits : \A j \in hits : j <= i
      <3>. HIDE DEF hits
      <3>. QED  BY <1>1, <1>4, Greatest
    <2>2. PICK i : i = Last1(t, S)
      OBVIOUS
    <2>3. i \in hits /\ \A j \in hits : j <= i
      <3>. HIDE DEF hits
      <3>. QED  BY <1>2, <1>4, <2>1, <2>2
    <2>4. i \in 1 .. Len(t) /\ t[i] \in S /\ \A j \in i + 1 .. Len(t) : t[j] \notin S
      BY <1>1, <2>3
    <2>. QED  BY <2>2, <2>4
  <1>. QED  BY <1>3, <1>4

(* Once what is unfinished is held back, no block that opens with word is open. *)
LEMMA DeferredIsTidy ==
    ASSUME NEW t \in Seq(TextTokens), NEW open, Tidy(t, {}, open), NEW word, Fence(word) \in LiveFences
    PROVE  /\ Deferred(t, word) \in Seq(TextTokens) /\ Tidy(Deferred(t, word), {}, open \ {Fence(word)})
           /\ (\A i \in 1 .. Len(t) : t[i] \in LiveFences => Block(t, i).close # 0) => Deferred(t, word) = t
  <1>1. PICK i, F : i = Last1(t, {F}) /\ F = Fence(word)
    OBVIOUS
  <1>2. Deferred(t, word) = IF i = 0 \/ Block(t, i).close # 0 THEN t ELSE Append(SubSeq(t, 1, i - 1), Building)
    BY <1>1 DEF Deferred, OpensWith
  <1>3. \/ i = 0 /\ \A j \in 1 .. Len(t) : t[j] # F
        \/ i \in 1 .. Len(t) /\ t[i] = F /\ \A j \in i + 1 .. Len(t) : t[j] # F
    BY <1>1, LastIs
  <1>4. Len(t) \in Nat /\ F \in LiveFences
    BY <1>1
  <1>5. CASE i = 0
    <2>1. Tidy(t, {}, open \ {F})
      BY <1>3, <1>5 DEF Tidy
    <2>. QED  BY <1>1, <1>2, <1>5, <2>1
  <1>6. CASE i # 0 /\ Block(t, i).close # 0
    <2>1. i \in 1 .. Len(t) /\ ~IsOpen(t, i)
      BY <1>3, <1>6, ClosedIsWhole
    <2>2. ASSUME NEW k \in 1 .. Len(t), t[k] = F PROVE ~IsOpen(t, k)
      <3>1. k <= i
        BY <1>3, <1>6, <2>2
      <3>2. CASE k = i
        BY <2>1, <3>2
      <3>3. CASE k < i
        <4>1. i \in k + 1 .. Len(t) /\ IsFence(t[i])
          BY <1>3, <1>4, <1>6, <3>3, Kinds
        <4>. QED  BY <4>1 DEF IsOpen
      <3>. QED  BY <2>1, <3>1, <3>2, <3>3
    <2>3. Tidy(t, {}, open \ {F})
      BY <2>2 DEF Tidy
    <2>. QED  BY <1>1, <1>2, <1>6, <2>3
  <1>7. CASE i # 0 /\ Block(t, i).close = 0
    <2>0. PICK x, b : x = SubSeq(t, 1, i - 1) /\ b = i - 1
      OBVIOUS
    <2>1. i \in 1 .. Len(t) /\ t[i] = F /\ t[i] \in LiveFences
      BY <1>3, <1>4, <1>7
    <2>2. x \in Seq(TextTokens) /\ Copies(x, t, 1, b) /\ b \in Nat /\ b <= Len(t) /\ 1 <= b + 1
      BY <1>4, <2>0, <2>1 DEF Copies
    <2>3. ASSUME NEW k \in 1 .. b, t[k] \in LiveFences
          PROVE  \E c \in Nat : c <= b /\ Spans(t, k, c) /\ (t[k] = PlanFence => SubSeq(t, k + 2, c - 1) \notin {})
      <3>1. k \in 1 .. Len(t) /\ i \in k + 1 .. Len(t)
        BY <1>4, <2>0, <2>1
      <3>. QED  BY <2>0, <2>1, <2>3, <3>1, WholeBefore
    <2>4. Tidy(x, {}, {})
      <3>1. PICK a : a = 1
        OBVIOUS
      <3>2. /\ a \in Nat \ {0} /\ a <= b + 1 /\ Copies(x, t, a, b)
            /\ \A k \in a .. b : t[k] \in LiveFences =>
                 \E c \in Nat : c <= b /\ Spans(t, k, c) /\ (t[k] = PlanFence => SubSeq(t, k + 2, c - 1) \notin {})
        BY <2>2, <2>3, <3>1
      <3>. QED  BY <2>2, <3>2, TidyWindow
    <2>5. Building \in TextTokens /\ Building \notin LiveFences
      BY TheTokens, Kinds
    <2>6. Append(x, Building) \in Seq(TextTokens) /\ Tidy(Append(x, Building), {}, {})
      BY <2>2, <2>4, <2>5, TidyAppend
    <2>7. Tidy(Append(x, Building), {}, open \ {F})
      BY <2>6 DEF Tidy
    <2>8. ~(\A k \in 1 .. Len(t) : t[k] \in LiveFences => Block(t, k).close # 0)
      BY <1>7, <2>1
    <2>. QED  BY <1>1, <1>2, <1>7, <2>0, <2>6, <2>7, <2>8
  <1>. QED  BY <1>5, <1>6, <1>7

PlanOpens == OpensWith({"runplan"})

(* The display's plan: the first, where it lowers.                         *)
LEMMA MaterializedIs ==
    ASSUME NEW t \in Seq(TextTokens)
    PROVE  \/ /\ Materialized(t) = t
              /\ \/ \A j \in 1 .. Len(t) : t[j] # PlanFence
                 \/ \E i \in 1 .. Len(t) : /\ t[i] = PlanFence /\ \A j \in 1 .. i - 1 : t[j] # PlanFence
                                           /\ Block(t, i).close = 0 \/ ~Lowers(Block(t, i).body)
           \/ \E i \in 1 .. Len(t) :
                /\ t[i] = PlanFence /\ \A j \in 1 .. i - 1 : t[j] # PlanFence
                /\ Block(t, i).close # 0 /\ Lowers(Block(t, i).body)
                /\ Materialized(t) = SubSeq(t, 1, i - 1) \o <<SplashFence, LineEnd>> \o LoweredPlan
                                       \o SubSeq(t, Block(t, i).close, Len(t))
  <1>0. PlanOpens = {PlanFence} /\ Len(t) \in Nat
    BY DEF PlanOpens, OpensWith, PlanFence
  <1>1. PICK i, o : i = First(t, o, PlanOpens) /\ o = 1
    OBVIOUS
  <1>2. \/ i = 0 /\ \A j \in o .. Len(t) : t[j] \notin PlanOpens
        \/ i \in Nat \ {0} /\ FirstAt(t, o, PlanOpens, i)
    <2>1. o \in Nat \ {0}
      BY <1>1
    <2>. QED  BY <1>1, <2>1, FirstIs
  <1>3. Materialized(t) = IF i = 0 \/ Block(t, i).close = 0 \/ ~Lowers(Block(t, i).body) THEN t
                          ELSE SubSeq(t, 1, i - 1) \o <<SplashFence, LineEnd>> \o LoweredPlan
                                 \o SubSeq(t, Block(t, i).close, Len(t))
    BY <1>1 DEF Materialized, PlanOpens
  <1>4. CASE i = 0
    BY <1>0, <1>1, <1>2, <1>3, <1>4
  <1>5. CASE i # 0
    <2>1. i \in 1 .. Len(t) /\ t[i] = PlanFence /\ \A j \in 1 .. i - 1 : t[j] # PlanFence
      BY <1>0, <1>1, <1>2, <1>5 DEF FirstAt
    <2>. QED  BY <1>3, <1>5, <2>1
  <1>. QED  BY <1>4, <1>5

LEMMA CloseInside ==
    ASSUME NEW T, NEW t \in Seq(T), NEW i \in 1 .. Len(t), Block(t, i).close # 0
    PROVE  Block(t, i).close \in i + 2 .. Len(t)
  <1>1. PICK l, c \in Nat \ {0} :
          FirstAt(t, i + 1, Line, l) /\ FenceAt(t, l + 1, c) /\ Block(t, i).close = c
    BY BlockIs
  <1>. QED  BY <1>1 DEF FirstAt, FenceAt

(* What the display makes of a text is a text again.                       *)
LEMMA MaterializedIsText ==
    ASSUME NEW t \in Seq(TextTokens)
    PROVE  Materialized(t) \in Seq(TextTokens)
  <1>1. CASE Materialized(t) = t
    BY <1>1
  <1>2. CASE \E i \in 1 .. Len(t) :
                /\ Block(t, i).close # 0
                /\ Materialized(t) = SubSeq(t, 1, i - 1) \o <<SplashFence, LineEnd>> \o LoweredPlan
                                       \o SubSeq(t, Block(t, i).close, Len(t))
    <2>1. PICK i \in 1 .. Len(t) :
                /\ Block(t, i).close # 0
                /\ Materialized(t) = SubSeq(t, 1, i - 1) \o <<SplashFence, LineEnd>> \o LoweredPlan
                                       \o SubSeq(t, Block(t, i).close, Len(t))
      BY <1>2
    <2>2. PICK c, x, a, b, y : /\ c = Block(t, i).close /\ x = SubSeq(t, 1, i - 1)
                               /\ a = <<SplashFence, LineEnd>> /\ b = LoweredPlan /\ y = SubSeq(t, c, Len(t))
      OBVIOUS
    <2>3. c \in i + 2 .. Len(t)
      BY <2>1, <2>2, CloseInside
    <2>4. x \in Seq(TextTokens) /\ y \in Seq(TextTokens)
      BY <2>2, <2>3
    <2>5. a \in Seq(TextTokens) /\ b \in Seq(TextTokens)
      BY <2>2, TheTokens, OwnBodies
    <2>6. Materialized(t) = ((x \o a) \o b) \o y
      BY <2>1, <2>2
    <2>7. x \o a \in Seq(TextTokens)
      BY <2>4, <2>5, ConcatProperties
    <2>8. (x \o a) \o b \in Seq(TextTokens)
      BY <2>5, <2>7, ConcatProperties
    <2>9. ((x \o a) \o b) \o y \in Seq(TextTokens)
      BY <2>4, <2>8, ConcatProperties
    <2>. QED  BY <2>6, <2>9
  <1>. QED  BY <1>1, <1>2, MaterializedIs

LEMMA Regroup == \A q, p, r \in Seq(TextTokens) : q \o (p \o r) = (q \o p) \o r
  <1>. SUFFICES ASSUME NEW q \in Seq(TextTokens), NEW p \in Seq(TextTokens), NEW r \in Seq(TextTokens)
                PROVE  q \o (p \o r) = (q \o p) \o r
    OBVIOUS
  <1>. QED  BY ConcatAssociative

(* Its plan has become a card of its own, with all that came before and after. *)
LEMMA MaterializedParts ==
    ASSUME NEW t \in Seq(TextTokens), NEW i \in 1 .. Len(t), NEW c \in Nat, Spans(t, i, c),
           Materialized(t) = SubSeq(t, 1, i - 1) \o <<SplashFence, LineEnd>> \o LoweredPlan
                               \o SubSeq(t, c, Len(t))
    PROVE  \E x, y \in Seq(TextTokens) :
             /\ Copies(x, t, 1, i - 1) /\ Copies(y, t, c + 1, Len(t))
             /\ Materialized(t) = x \o (Framed(LoweredPlan) \o y)
  <1>1. c \in i + 2 .. Len(t) /\ t[c] = CloseFence /\ Len(t) \in Nat
    BY DEF Spans
  <1>2. PICK x, a, b, z, y, w :
          /\ x = SubSeq(t, 1, i - 1) /\ a = <<SplashFence, LineEnd>> /\ b = LoweredPlan
          /\ z = <<CloseFence>> /\ y = SubSeq(t, c + 1, Len(t)) /\ w = SubSeq(t, c, Len(t))
    OBVIOUS
  <1>3. x \in Seq(TextTokens) /\ Copies(x, t, 1, i - 1)
    BY <1>1, <1>2 DEF Copies
  <1>4. y \in Seq(TextTokens) /\ Copies(y, t, c + 1, Len(t)) /\ Len(y) = Len(t) - c
    BY <1>1, <1>2 DEF Copies
  <1>5. w \in Seq(TextTokens) /\ Len(w) = Len(t) - c + 1 /\ \A j \in 1 .. Len(t) - c + 1 : w[j] = t[c + j - 1]
    BY <1>1, <1>2
  <1>6. z \in Seq(TextTokens) /\ Len(z) = 1 /\ z[1] = CloseFence
    BY <1>2, TheTokens
  <1>7. w = z \o y
    <2>1. /\ z \o y \in Seq(TextTokens) /\ Len(z \o y) = 1 + (Len(t) - c)
          /\ \A j \in 1 .. 1 + (Len(t) - c) : (z \o y)[j] = IF j <= 1 THEN z[j] ELSE y[j - 1]
      <3>1. /\ z \o y \in Seq(TextTokens) /\ Len(z \o y) = Len(z) + Len(y)
            /\ \A j \in 1 .. Len(z) + Len(y) : (z \o y)[j] = IF j <= Len(z) THEN z[j] ELSE y[j - Len(z)]
        BY <1>4, <1>6, ConcatProperties
      <3>. QED  BY <1>4, <1>6, <3>1
    <2>2. PICK v, n : v = z \o y /\ n = Len(t) - c + 1
      OBVIOUS
    <2>3. /\ v \in Seq(TextTokens) /\ Len(v) = n /\ n \in Nat /\ Len(w) = n
          /\ \A j \in 1 .. n : v[j] = IF j <= 1 THEN z[j] ELSE y[j - 1]
      BY <1>1, <1>5, <2>1, <2>2
    <2>4. ASSUME NEW j \in 1 .. n PROVE w[j] = v[j]
      <3>1. w[j] = t[c + j - 1]
        BY <1>5, <2>2
      <3>2. CASE j = 1
        <4>1. c + j - 1 = c
          BY <1>1, <3>2
        <4>. QED  BY <1>1, <1>6, <2>3, <3>1, <3>2, <4>1
      <3>3. CASE j # 1
        <4>1. PICK k : k = j - 1
          OBVIOUS
        <4>2. k \in 1 .. Len(y) /\ (c + 1) + k - 1 = c + j - 1 /\ ~(j <= 1)
          BY <1>1, <1>4, <2>2, <3>3, <4>1
        <4>3. y[k] = t[(c + 1) + k - 1]
          BY <1>4, <4>2 DEF Copies
        <4>. QED  BY <2>3, <3>1, <4>1, <4>2, <4>3
      <3>. QED  BY <3>2, <3>3
    <2>5. w = v
      BY <1>5, <2>3, <2>4, SeqEqual
    <2>. QED  BY <2>2, <2>5
  <1>8. a \in Seq(TextTokens) /\ b \in Seq(TextTokens)
    BY <1>2, TheTokens, OwnBodies
  <1>9. ((x \o a) \o b) \o (z \o y) = x \o (((a \o b) \o z) \o y)
    <2>1. (x \o a) \o b = x \o (a \o b) /\ a \o b \in Seq(TextTokens)
      BY <1>3, <1>8, Between
    <2>2. PICK k : k = a \o b
      OBVIOUS
    <2>3. PICK e : e = z \o y
      OBVIOUS
    <2>4. k \in Seq(TextTokens) /\ e \in Seq(TextTokens)
      BY <1>4, <1>6, <2>1, <2>2, <2>3, ConcatProperties
    <2>5. k \o (z \o y) = (k \o z) \o y
      <3>1. y \in Seq(TextTokens) /\ z \in Seq(TextTokens)
        BY <1>4, <1>6
      <3>. QED  BY <2>4, <3>1, Regroup, Zenon
    <2>6. x \o (k \o e) = (x \o k) \o e
      <3>1. x \in Seq(TextTokens)
        BY <1>3
      <3>. QED  BY <2>4, <3>1, Regroup, Zenon
    <2>. QED  BY <2>1, <2>2, <2>3, <2>5, <2>6
  <1>10. Framed(LoweredPlan) = (a \o b) \o z
    BY <1>2 DEF Framed
  <1>11. Materialized(t) = ((x \o a) \o b) \o w
    BY <1>2
  <1>12. Materialized(t) = x \o (Framed(LoweredPlan) \o y)
    BY <1>7, <1>9, <1>10, <1>11
  <1>. QED  BY <1>3, <1>4, <1>12

LEMMA FramedIsTidy ==
    ASSUME NEW body \in {LoweredPlan, ErrorCard}, NEW barred
    PROVE  Framed(body) \in Seq(TextTokens) /\ Tidy(Framed(body), barred, {})
  <1>1. PICK x, o, c : x = Framed(body) /\ o = 1 /\ c = Len(body) + 3
    OBVIOUS
  <1>2. /\ x \in Seq(TextTokens) /\ c \in Nat /\ Spans(x, o, c) /\ x[o] = SplashFence
        /\ \A j \in 2 .. Len(x) : x[j] \notin LiveFences
    BY <1>1, OwnBodies, FramedIs, FramedIsClean
  <1>3. SplashFence # PlanFence
    BY Kinds
  <1>4. WholeBlock(x, o, barred)
    BY <1>2, <1>3 DEF WholeBlock
  <1>5. ASSUME NEW j \in 1 .. Len(x), x[j] \in LiveFences PROVE WholeBlock(x, j, barred)
    <2>1. j = o \/ j \in 2 .. Len(x)
      BY <1>1, <1>2
    <2>. QED  BY <1>2, <1>4, <1>5, <2>1
  <1>. QED  BY <1>1, <1>2, <1>5 DEF Tidy

(* A plan that has become a card leaves the other blocks as they are.      *)
LEMMA MaterializedIsTidy ==
    ASSUME NEW t \in Seq(TextTokens), NEW barred, NEW open, Tidy(t, barred, open)
    PROVE  Tidy(Materialized(t), barred, open)
  <1>1. CASE Materialized(t) = t
    BY <1>1
  <1>2. CASE \E i \in 1 .. Len(t) :
                /\ t[i] = PlanFence /\ Block(t, i).close # 0
                /\ Materialized(t) = SubSeq(t, 1, i - 1) \o <<SplashFence, LineEnd>> \o LoweredPlan
                                       \o SubSeq(t, Block(t, i).close, Len(t))
    <2>1. PICK i \in 1 .. Len(t) :
                /\ t[i] = PlanFence /\ Block(t, i).close # 0
                /\ Materialized(t) = SubSeq(t, 1, i - 1) \o <<SplashFence, LineEnd>> \o LoweredPlan
                                       \o SubSeq(t, Block(t, i).close, Len(t))
      BY <1>2
    <2>2. PICK c : c = Block(t, i).close
      OBVIOUS
    <2>3. c \in Nat /\ Spans(t, i, c)
      <3>1. ~IsOpen(t, i)
        BY <2>1, ClosedIsWhole
      <3>2. WholeBlock(t, i, barred)
        BY <2>1, <3>1, Kinds DEF Tidy
      <3>3. PICK e \in Nat : Spans(t, i, e)
        BY <3>2 DEF WholeBlock
      <3>4. e = c
        BY <2>2, <3>3, ClosedIsWhole
      <3>. QED  BY <3>3, <3>4
    <2>4. PICK x, y \in Seq(TextTokens) :
             /\ Copies(x, t, 1, i - 1) /\ Copies(y, t, c + 1, Len(t))
             /\ Materialized(t) = x \o (Framed(LoweredPlan) \o y)
      BY <2>1, <2>2, <2>3, MaterializedParts
    <2>5. Tidy(x, barred, {})
      <3>1. PICK a, b : a = 1 /\ b = i - 1
        OBVIOUS
      <3>2. ASSUME NEW k \in a .. b, t[k] \in LiveFences
            PROVE  \E e \in Nat : e <= b /\ Spans(t, k, e) /\ (t[k] = PlanFence => SubSeq(t, k + 2, e - 1) \notin barred)
        <4>1. k \in 1 .. Len(t) /\ i \in k + 1 .. Len(t) /\ t[i] \in LiveFences
          BY <2>1, <3>1, Kinds
        <4>. QED  BY <3>1, <3>2, <4>1, WholeBefore
      <3>3. a \in Nat \ {0} /\ b \in Nat /\ a <= b + 1 /\ b <= Len(t) /\ Copies(x, t, a, b)
        BY <2>4, <3>1
      <3>. QED  BY <2>4, <3>2, <3>3, TidyWindow
    <2>6. Tidy(y, barred, open)
      <3>1. PICK a : a = c + 1
        OBVIOUS
      <3>2. a \in 1 .. Len(t) + 1 /\ Copies(y, t, a, Len(t))
        BY <2>3, <2>4, <3>1 DEF Spans
      <3>. QED  BY <2>4, <3>2, TidySuffix
    <2>7. PICK f : f = Framed(LoweredPlan)
      OBVIOUS
    <2>8. f \in Seq(TextTokens) /\ Tidy(f, barred, {})
      BY <2>7, FramedIsTidy
    <2>9. Tidy(f \o y, barred, open) /\ f \o y \in Seq(TextTokens)
      BY <2>4, <2>6, <2>8, TidyConcat, ConcatProperties
    <2>10. PICK g : g = f \o y
      OBVIOUS
    <2>11. Tidy(x \o g, barred, open)
      BY <2>4, <2>5, <2>9, <2>10, TidyConcat
    <2>. QED  BY <2>4, <2>7, <2>10, <2>11
  <1>. QED  BY <1>1, <1>2, MaterializedIs

LEMMA PairedIsTidy ==
    ASSUME NEW t \in Seq(TextTokens), Paired(t)
    PROVE  Tidy(t, {}, LiveFences)
  <1>1. ASSUME NEW i \in 1 .. Len(t), t[i] \in LiveFences
        PROVE  WholeBlock(t, i, {}) \/ IsOpen(t, i)
    <2>1. /\ i < Len(t) => t[i + 1] = LineEnd
          /\ \/ \E c \in DOMAIN t : Spans(t, i, c)
             \/ \A j \in i + 1 .. Len(t) : ~IsFence(t[j])
      BY <1>1 DEF Paired
    <2>2. CASE \E c \in DOMAIN t : Spans(t, i, c)
      <3>1. PICK c \in DOMAIN t : Spans(t, i, c)
        BY <2>2
      <3>2. c \in Nat
        OBVIOUS
      <3>. QED  BY <3>1, <3>2 DEF WholeBlock
    <2>3. CASE \A j \in i + 1 .. Len(t) : ~IsFence(t[j])
      BY <2>1, <2>3 DEF IsOpen
    <2>. QED  BY <2>1, <2>2, <2>3
  <1>. QED  BY <1>1 DEF Tidy

LEMMA TidyIsClosed ==
    ASSUME NEW t \in Seq(TextTokens), NEW barred, Tidy(t, barred, {})
    PROVE  BlocksClosed(t)
  <1>1. ASSUME NEW i \in 1 .. Len(t), t[i] \in LiveFences PROVE Block(t, i).close # 0
    <2>1. WholeBlock(t, i, barred)
      BY <1>1 DEF Tidy
    <2>. QED  BY <2>1, ClosedIsWhole
  <1>2. DOMAIN t = 1 .. Len(t)
    OBVIOUS
  <1>. QED  BY <1>1, <1>2 DEF BlocksClosed

LEMMA ClosedIsTidy ==
    ASSUME NEW t \in Seq(TextTokens), Paired(t), BlocksClosed(t)
    PROVE  Tidy(t, {}, {})
  <1>1. Tidy(t, {}, LiveFences) /\ DOMAIN t = 1 .. Len(t)
    BY PairedIsTidy
  <1>2. ASSUME NEW i \in 1 .. Len(t), t[i] \in LiveFences PROVE ~IsOpen(t, i)
    <2>1. Block(t, i).close # 0
      BY <1>1, <1>2 DEF BlocksClosed
    <2>. QED  BY <2>1, ClosedIsWhole
  <1>. QED  BY <1>1, <1>2 DEF Tidy

LEMMA DeferredIsText ==
    ASSUME NEW t \in Seq(TextTokens), NEW word
    PROVE  Deferred(t, word) \in Seq(TextTokens)
  <1>1. PICK i, F : i = Last1(t, F) /\ F = OpensWith({word})
    OBVIOUS
  <1>2. Deferred(t, word) = IF i = 0 \/ Block(t, i).close # 0 THEN t ELSE Append(SubSeq(t, 1, i - 1), Building)
    BY <1>1 DEF Deferred
  <1>3. i = 0 \/ i \in 1 .. Len(t)
    BY <1>1, LastIs
  <1>4. CASE i \in 1 .. Len(t)
    <2>1. PICK x, e : x = SubSeq(t, 1, i - 1) /\ e = Building
      OBVIOUS
    <2>2. x \in Seq(TextTokens) /\ e \in TextTokens
      BY <1>4, <2>1, TheTokens
    <2>3. Append(x, e) \in Seq(TextTokens)
      BY <2>2
    <2>. QED  BY <1>2, <2>1, <2>3
  <1>. QED  BY <1>2, <1>3, <1>4

(* What the stream shows, step by step.                                    *)
LEMMA Shown ==
    ASSUME NEW t
    PROVE  \E v, w : /\ Fence(v) = PlanFence /\ Fence(w) = SplashFence
                     /\ StreamShown(t) = Resolved(Neutralized(Deferred(Materialized(Deferred(t, v)), w)))
  <1>1. PICK v, w : v = "runplan" /\ w = "runsplash"
    OBVIOUS
  <1>2. Fence(v) = PlanFence /\ Fence(w) = SplashFence
    BY <1>1, Zenon DEF PlanFence, SplashFence
  <1>3. StreamShown(t) = Resolved(Neutralized(Deferred(Materialized(Deferred(t, v)), w)))
    BY <1>1, Zenon DEF StreamShown
  <1>. QED  BY <1>2, <1>3

LEMMA ResolvedIsClean ==
    ASSUME NEW n \in Seq(TextTokens), \A b \in AllBodies(n) : ~Forbidden(b)
    PROVE  \A b \in AllBodies(Resolved(n)) : ~Forbidden(b)
  BY ResolvedIs, FramedIsClean

LEMMA ResolvedIsClosed ==
    ASSUME NEW n \in Seq(TextTokens), Tidy(n, {}, {})
    PROVE  BlocksClosed(Resolved(n))
  <1>1. CASE Resolved(n) = n
    BY <1>1, TidyIsClosed
  <1>2. CASE \E body \in {LoweredPlan, ErrorCard} : Resolved(n) = Framed(body)
    BY <1>2, FramedIsTidy, TidyIsClosed
  <1>. QED  BY <1>1, <1>2, ResolvedIs

LEMMA StreamIsClean ==
    ASSUME NEW t \in Seq(TextTokens)
    PROVE  \A b \in AllBodies(StreamShown(t)) : ~Forbidden(b)
  <1>1. PICK v, w : StreamShown(t) = Resolved(Neutralized(Deferred(Materialized(Deferred(t, v)), w)))
    BY Shown
  <1>2. PICK a : a = Deferred(t, v)
    OBVIOUS
  <1>3. PICK m : m = Materialized(a)
    OBVIOUS
  <1>4. PICK d, n : d = Deferred(m, w) /\ n = Neutralized(d)
    OBVIOUS
  <1>5. a \in Seq(TextTokens)
    BY <1>2, DeferredIsText
  <1>6. m \in Seq(TextTokens)
    BY <1>3, <1>5, MaterializedIsText
  <1>7. d \in Seq(TextTokens)
    BY <1>4, <1>6, DeferredIsText
  <1>8. n \in Seq(TextTokens) /\ \A b \in AllBodies(n) : ~Forbidden(b)
    BY <1>4, <1>7, NeutralizedIsClean
  <1>9. \A b \in AllBodies(Resolved(n)) : ~Forbidden(b)
    BY <1>8, ResolvedIsClean
  <1>. QED  BY <1>1, <1>2, <1>3, <1>4, <1>9

LEMMA NeutralizedIsTidy ==
    ASSUME NEW t \in Seq(TextTokens), NEW barred, Tidy(t, barred, {})
    PROVE  Neutralized(t) \in Seq(TextTokens) /\ Tidy(Neutralized(t), barred, {})
  <1>1. Len(t) \in 0 .. Len(t)
    OBVIOUS
  <1>2. Tidy(NeutralOf(t)[Len(t)], barred, {})
    BY <1>1, NeutralIsTidy
  <1>. QED  BY <1>2, NeutralizedIsClean DEF Neutralized

LEMMA StreamIsClosed ==
    ASSUME NEW t \in Seq(TextTokens), Paired(t)
    PROVE  BlocksClosed(StreamShown(t))
  <1>1. PICK v, w : /\ Fence(v) = PlanFence /\ Fence(w) = SplashFence
                    /\ StreamShown(t) = Resolved(Neutralized(Deferred(Materialized(Deferred(t, v)), w)))
    BY Shown
  <1>2. PICK a : a = Deferred(t, v)
    OBVIOUS
  <1>3. PICK m : m = Materialized(a)
    OBVIOUS
  <1>4. PICK d, n : d = Deferred(m, w) /\ n = Neutralized(d)
    OBVIOUS
  <1>5. a \in Seq(TextTokens) /\ Tidy(a, {}, LiveFences \ {PlanFence})
    <2>1. Tidy(t, {}, LiveFences) /\ Fence(v) \in LiveFences
      BY <1>1, PairedIsTidy, Kinds
    <2>. QED  BY <1>1, <1>2, <2>1, DeferredIsTidy
  <1>6. m \in Seq(TextTokens) /\ Tidy(m, {}, LiveFences \ {PlanFence})
    BY <1>3, <1>5, MaterializedIsText, MaterializedIsTidy
  <1>7. d \in Seq(TextTokens) /\ Tidy(d, {}, {})
    <2>1. (LiveFences \ {PlanFence}) \ {Fence(w)} = {} /\ Fence(w) \in LiveFences
      BY <1>1, Kinds
    <2>2. PICK open : open = LiveFences \ {PlanFence}
      OBVIOUS
    <2>3. d \in Seq(TextTokens) /\ Tidy(d, {}, open \ {Fence(w)})
      BY <1>4, <1>6, <2>1, <2>2, DeferredIsTidy
    <2>. QED  BY <2>1, <2>2, <2>3
  <1>8. n \in Seq(TextTokens) /\ Tidy(n, {}, {})
    BY <1>4, <1>7, NeutralizedIsTidy
  <1>9. BlocksClosed(Resolved(n))
    BY <1>8, ResolvedIsClosed
  <1>. QED  BY <1>1, <1>2, <1>3, <1>4, <1>9

Lowering == <<Tok("head"), Tok("tail")>>

LEMMA LowersIs == \A b : Lowers(b) <=> b = Lowering
  BY DEF Lowers, Lowering

(* Where no plan is left to lower, the display leaves the text as it is.   *)
LEMMA NothingToLower ==
    ASSUME NEW t \in Seq(TextTokens), Tidy(t, {Lowering}, {})
    PROVE  Materialized(t) = t
  <1>1. ASSUME NEW i \in 1 .. Len(t), t[i] = PlanFence, Lowers(Block(t, i).body) PROVE FALSE
    <2>1. WholeBlock(t, i, {Lowering})
      BY <1>1, Kinds DEF Tidy
    <2>2. PICK c \in Nat : Spans(t, i, c) /\ SubSeq(t, i + 2, c - 1) \notin {Lowering}
      BY <1>1, <2>1 DEF WholeBlock
    <2>3. Block(t, i).body = SubSeq(t, i + 2, c - 1)
      BY <2>2, ClosedIsWhole
    <2>. QED  BY <1>1, <2>2, <2>3, LowersIs
  <1>. QED  BY <1>1, MaterializedIs

LEMMA TwoPlans ==
    ASSUME NEW t \in Seq(TextTokens), PlansIn(t) < 2, NEW i \in 1 .. Len(t), NEW j \in 1 .. Len(t),
           t[i] = PlanFence, t[j] = PlanFence
    PROVE  i = j
  <1>. SUFFICES ASSUME i # j PROVE FALSE
    OBVIOUS
  <1>1. PICK P : P = {k \in DOMAIN t : t[k] = PlanFence}
    OBVIOUS
  <1>2. P \subseteq 1 .. Len(t) /\ i \in P /\ j \in P /\ Len(t) \in Nat
    BY <1>1
  <1>3. IsFiniteSet(P) /\ Cardinality(P) \in Nat
    <2>1. IsFiniteSet(1 .. Len(t))
      <3>1. PICK a, b : a = 1 /\ b = Len(t)
        OBVIOUS
      <3>2. a \in Int /\ b \in Int
        BY <1>2, <3>1
      <3>3. IsFiniteSet(a .. b)
        BY <3>2, FS_Interval
      <3>. QED  BY <3>1, <3>3
    <2>2. IsFiniteSet(P)
      BY <1>2, <2>1, FS_Subset
    <2>. QED  BY <2>2, FS_CardinalityType
  <1>4. IsFiniteSet({i}) /\ Cardinality({i}) = 1
    BY FS_Singleton
  <1>5. PICK Q : Q = {i} \cup {j}
    OBVIOUS
  <1>6. IsFiniteSet(Q) /\ Cardinality(Q) = 2
    <2>1. j \notin {i}
      OBVIOUS
    <2>2. IsFiniteSet({i} \cup {j}) /\ Cardinality({i} \cup {j}) = Cardinality({i}) + 1
      BY <1>4, <2>1, FS_AddElement
    <2>3. IsFiniteSet(Q) /\ Cardinality(Q) = Cardinality({i}) + 1
      BY <1>5, <2>2, Zenon
    <2>. QED  BY <1>4, <2>3
  <1>7. Cardinality(Q) <= Cardinality(P)
    <2>1. Q \subseteq P
      BY <1>2, <1>5
    <2>. QED  BY <1>3, <2>1, FS_Subset
  <1>8. Cardinality(P) < 2
    BY <1>1 DEF PlansIn
  <1>. QED  BY <1>3, <1>6, <1>7, <1>8

(* Once the display has lowered the one plan, none is left.                *)
LEMMA OnePlanLowered ==
    ASSUME NEW t \in Seq(TextTokens), Tidy(t, {}, {}), PlansIn(t) < 2
    PROVE  Tidy(Materialized(t), {Lowering}, {})
  <1>1. CASE /\ Materialized(t) = t
             /\ \A j \in 1 .. Len(t) : t[j] # PlanFence
    BY <1>1 DEF Tidy, WholeBlock
  <1>2. CASE /\ Materialized(t) = t
             /\ \E i \in 1 .. Len(t) : /\ t[i] = PlanFence
                                       /\ Block(t, i).close = 0 \/ ~Lowers(Block(t, i).body)
    <2>1. PICK i \in 1 .. Len(t) : /\ t[i] = PlanFence
                                   /\ Block(t, i).close = 0 \/ ~Lowers(Block(t, i).body)
      BY <1>2
    <2>2. ASSUME NEW k \in 1 .. Len(t), t[k] \in LiveFences PROVE WholeBlock(t, k, {Lowering})
      <3>1. PICK c \in Nat : Spans(t, k, c)
        BY <2>2 DEF Tidy, WholeBlock
      <3>2. CASE t[k] = PlanFence
        <4>1. k = i
          BY <2>1, <3>2, TwoPlans
        <4>2. Block(t, k).close # 0 /\ Block(t, k).body = SubSeq(t, k + 2, c - 1)
          <5>1. c # 0
            BY <3>1 DEF Spans
          <5>. QED  BY <3>1, <5>1, ClosedIsWhole
        <4>3. SubSeq(t, k + 2, c - 1) # Lowering
          BY <2>1, <4>1, <4>2, LowersIs
        <4>. QED  BY <3>1, <4>3 DEF WholeBlock
      <3>3. CASE t[k] # PlanFence
        BY <3>1, <3>3 DEF WholeBlock
      <3>. QED  BY <3>2, <3>3
    <2>. QED  BY <1>2, <2>2 DEF Tidy
  <1>3. CASE \E i \in 1 .. Len(t) :
                /\ t[i] = PlanFence /\ Block(t, i).close # 0
                /\ Materialized(t) = SubSeq(t, 1, i - 1) \o <<SplashFence, LineEnd>> \o LoweredPlan
                                       \o SubSeq(t, Block(t, i).close, Len(t))
    <2>1. PICK i \in 1 .. Len(t) :
                /\ t[i] = PlanFence /\ Block(t, i).close # 0
                /\ Materialized(t) = SubSeq(t, 1, i - 1) \o <<SplashFence, LineEnd>> \o LoweredPlan
                                       \o SubSeq(t, Block(t, i).close, Len(t))
      BY <1>3
    <2>2. PICK c : c = Block(t, i).close
      OBVIOUS
    <2>3. c \in Nat /\ Spans(t, i, c)
      <3>1. PICK e \in Nat : Spans(t, i, e)
        BY <2>1, Kinds DEF Tidy, WholeBlock
      <3>2. e = c
        BY <2>2, <3>1, ClosedIsWhole
      <3>. QED  BY <3>1, <3>2
    <2>4. PICK x, y \in Seq(TextTokens) :
             /\ Copies(x, t, 1, i - 1) /\ Copies(y, t, c + 1, Len(t))
             /\ Materialized(t) = x \o (Framed(LoweredPlan) \o y)
      BY <2>1, <2>2, <2>3, MaterializedParts
    <2>5. \A j \in 1 .. Len(x) : x[j] # PlanFence
      <3>1. ASSUME NEW j \in 1 .. Len(x), x[j] = PlanFence PROVE FALSE
        <4>1. j \in 1 .. i - 1 /\ 1 + j - 1 = j /\ x[j] = t[1 + j - 1]
          BY <2>4 DEF Copies
        <4>2. j \in 1 .. Len(t) /\ t[j] = PlanFence /\ j # i
          BY <3>1, <4>1
        <4>. QED  BY <2>1, <4>2, TwoPlans
      <3>. QED  BY <3>1
    <2>6. \A j \in 1 .. Len(y) : y[j] # PlanFence
      <3>1. ASSUME NEW j \in 1 .. Len(y), y[j] = PlanFence PROVE FALSE
        <4>1. Len(y) = Len(t) - (c + 1) + 1 /\ y[j] = t[(c + 1) + j - 1] /\ c \in i + 2 .. Len(t)
          BY <2>3, <2>4 DEF Copies, Spans
        <4>2. PICK k : k = (c + 1) + j - 1
          OBVIOUS
        <4>3. k \in 1 .. Len(t) /\ t[k] = PlanFence /\ k # i
          BY <3>1, <4>1, <4>2
        <4>. QED  BY <2>1, <4>3, TwoPlans
      <3>. QED  BY <3>1
    <2>7. PICK f, g : f = Framed(LoweredPlan) /\ g = f \o y
      OBVIOUS
    <2>8. f \in Seq(TextTokens) /\ \A j \in 1 .. Len(f) : f[j] # PlanFence
      <3>1. /\ f \in Seq(TextTokens) /\ f[1] = SplashFence /\ \A j \in 2 .. Len(f) : f[j] \notin LiveFences
        BY <2>7, OwnBodies, FramedIs, FramedIsClean
      <3>2. \A j \in 1 .. Len(f) : j = 1 \/ j \in 2 .. Len(f)
        BY <3>1
      <3>3. SplashFence # PlanFence /\ PlanFence \in LiveFences
        BY Kinds
      <3>. QED  BY <3>1, <3>2, <3>3
    <2>9. g \in Seq(TextTokens) /\ \A j \in 1 .. Len(g) : g[j] # PlanFence
      <3>1. /\ f \o y \in Seq(TextTokens) /\ Len(f \o y) = Len(f) + Len(y) /\ Len(f) \in Nat /\ Len(y) \in Nat
            /\ \A j \in 1 .. Len(f) + Len(y) : (f \o y)[j] = IF j <= Len(f) THEN f[j] ELSE y[j - Len(f)]
        BY <2>4, <2>8, ConcatProperties
      <3>2. ASSUME NEW j \in 1 .. Len(f) + Len(y) PROVE (f \o y)[j] # PlanFence
        <4>1. j \in 1 .. Len(f) \/ (~(j <= Len(f)) /\ j - Len(f) \in 1 .. Len(y))
          BY <3>1
        <4>. QED  BY <2>6, <2>8, <3>1, <4>1
      <3>. QED  BY <2>7, <3>1, <3>2
    <2>10. \A j \in 1 .. Len(x \o g) : (x \o g)[j] # PlanFence
      <3>1. /\ Len(x \o g) = Len(x) + Len(g) /\ Len(x) \in Nat /\ Len(g) \in Nat
            /\ \A j \in 1 .. Len(x) + Len(g) : (x \o g)[j] = IF j <= Len(x) THEN x[j] ELSE g[j - Len(x)]
        BY <2>4, <2>9, ConcatProperties
      <3>2. ASSUME NEW j \in 1 .. Len(x) + Len(g) PROVE (x \o g)[j] # PlanFence
        <4>1. j \in 1 .. Len(x) \/ (~(j <= Len(x)) /\ j - Len(x) \in 1 .. Len(g))
          BY <3>1
        <4>. QED  BY <2>5, <2>9, <3>1, <4>1
      <3>. QED  BY <3>1, <3>2
    <2>11. Materialized(t) = x \o g
      BY <2>4, <2>7
    <2>12. Tidy(Materialized(t), {}, {})
      BY MaterializedIsTidy
    <2>13. PICK m : m = Materialized(t)
      OBVIOUS
    <2>14. Tidy(m, {}, {}) /\ \A j \in 1 .. Len(m) : m[j] # PlanFence
      BY <2>10, <2>11, <2>12, <2>13
    <2>15. Tidy(m, {Lowering}, {})
      BY <2>14 DEF Tidy, WholeBlock
    <2>. QED  BY <2>13, <2>15
  <1>. QED  BY <1>1, <1>2, <1>3, MaterializedIs

(* An answer that is whole is shown the same once it is stored.            *)
LEMMA StoredIsShown ==
    ASSUME NEW t \in Seq(TextTokens), Paired(t), BlocksClosed(t), PlansIn(t) < 2
    PROVE  MessageShown(StoredText(t)) = StreamShown(t)
  <1>1. PICK v, w : /\ Fence(v) = PlanFence /\ Fence(w) = SplashFence
                    /\ StreamShown(t) = Resolved(Neutralized(Deferred(Materialized(Deferred(t, v)), w)))
    BY Shown
  <1>2. Tidy(t, {}, {})
    BY ClosedIsTidy
  <1>3. Deferred(t, v) = t
    <2>1. Fence(v) \in LiveFences /\ \A i \in 1 .. Len(t) : t[i] \in LiveFences => Block(t, i).close # 0
      <3>1. DOMAIN t = 1 .. Len(t)
        OBVIOUS
      <3>. QED  BY <1>1, <3>1, Kinds DEF BlocksClosed
    <2>. QED  BY <1>2, <2>1, DeferredIsTidy
  <1>4. PICK m : m = Materialized(t)
    OBVIOUS
  <1>5. m \in Seq(TextTokens) /\ Tidy(m, {}, {}) /\ Tidy(m, {Lowering}, {})
    BY <1>2, <1>4, MaterializedIsText, MaterializedIsTidy, OnePlanLowered
  <1>6. Deferred(m, w) = m
    <2>1. BlocksClosed(m) /\ DOMAIN m = 1 .. Len(m)
      BY <1>5, TidyIsClosed
    <2>2. Fence(w) \in LiveFences /\ \A i \in 1 .. Len(m) : m[i] \in LiveFences => Block(m, i).close # 0
      BY <1>1, <2>1, Kinds DEF BlocksClosed
    <2>. QED  BY <1>5, <2>2, DeferredIsTidy
  <1>7. PICK n : n = Neutralized(m)
    OBVIOUS
  <1>8. n \in Seq(TextTokens) /\ Tidy(n, {Lowering}, {})
    BY <1>5, <1>7, NeutralizedIsTidy
  <1>9. Materialized(n) = n
    BY <1>8, NothingToLower
  <1>10. StreamShown(t) = Resolved(n)
    BY <1>1, <1>3, <1>4, <1>6, <1>7
  <1>11. StoredText(t) = n
    BY <1>4, <1>7 DEF StoredText
  <1>12. MessageShown(n) = Resolved(n)
    BY <1>9 DEF MessageShown
  <1>. QED  BY <1>10, <1>11, <1>12

(* What has come of an answer is as tidy as the answer.                    *)
LEMMA PrefixIsPaired ==
    ASSUME NEW p \in Seq(TextTokens), NEW s \in Seq(TextTokens), Paired(p \o s)
    PROVE  Paired(p)
  <1>1. PICK u : u = p \o s
    OBVIOUS
  <1>2. /\ u \in Seq(TextTokens) /\ Len(u) = Len(p) + Len(s) /\ Len(p) \in Nat /\ Len(s) \in Nat
        /\ DOMAIN p = 1 .. Len(p) /\ DOMAIN u = 1 .. Len(u)
    BY <1>1, ConcatProperties
  <1>3. ASSUME NEW j \in 1 .. Len(p) PROVE u[j] = p[j] /\ j \in DOMAIN u
    <2>1. \A k \in 1 .. Len(p) + Len(s) : (p \o s)[k] = IF k <= Len(p) THEN p[k] ELSE s[k - Len(p)]
      BY ConcatProperties
    <2>2. j \in 1 .. Len(p) + Len(s) /\ j <= Len(p)
      BY <1>2
    <2>. QED  BY <1>1, <1>2, <2>1, <2>2
  <1>4. ASSUME NEW i \in DOMAIN p, p[i] \in LiveFences
        PROVE  /\ i < Len(p) => p[i + 1] = LineEnd
               /\ \/ \E c \in DOMAIN p : Spans(p, i, c)
                  \/ \A j \in i + 1 .. Len(p) : ~IsFence(p[j])
    <2>1. /\ i < Len(u) => u[i + 1] = LineEnd
          /\ \/ \E c \in DOMAIN u : Spans(u, i, c)
             \/ \A j \in i + 1 .. Len(u) : ~IsFence(u[j])
      <3>1. i \in DOMAIN u /\ u[i] \in LiveFences
        BY <1>2, <1>3, <1>4
      <3>. QED  BY <1>1, <3>1 DEF Paired
    <2>2. ASSUME i < Len(p) PROVE p[i + 1] = LineEnd
      <3>1. i + 1 \in 1 .. Len(p) /\ i < Len(u)
        BY <1>2, <2>2
      <3>. QED  BY <1>3, <2>1, <3>1
    <2>3. CASE \E c \in DOMAIN u : Spans(u, i, c)
      <3>1. PICK c \in DOMAIN u : Spans(u, i, c)
        BY <2>3
      <3>2. /\ c \in i + 2 .. Len(u) /\ u[i + 1] = LineEnd /\ u[c] = CloseFence
            /\ \A j \in i + 1 .. c - 1 : ~IsFence(u[j])
        BY <3>1 DEF Spans
      <3>3. CASE c <= Len(p)
        <4>1. c \in DOMAIN p /\ c \in i + 2 .. Len(p) /\ i + 1 \in 1 .. Len(p)
              /\ i + 1 .. c - 1 \subseteq 1 .. Len(p)
          BY <1>2, <3>2, <3>3
        <4>2. p[i + 1] = LineEnd /\ p[c] = CloseFence /\ \A j \in i + 1 .. c - 1 : ~IsFence(p[j])
          BY <1>2, <1>3, <3>2, <4>1
        <4>3. Spans(p, i, c)
          BY <4>1, <4>2 DEF Spans
        <4>. QED  BY <2>2, <4>1, <4>3
      <3>4. CASE ~(c <= Len(p))
        <4>1. ASSUME NEW j \in i + 1 .. Len(p) PROVE ~IsFence(p[j])
          <5>1. j \in 1 .. Len(p) /\ j \in i + 1 .. c - 1
            BY <1>2, <3>2, <3>4
          <5>. QED  BY <1>3, <3>2, <5>1
        <4>. QED  BY <2>2, <4>1
      <3>. QED  BY <3>3, <3>4
    <2>4. CASE \A j \in i + 1 .. Len(u) : ~IsFence(u[j])
      <3>1. ASSUME NEW j \in i + 1 .. Len(p) PROVE ~IsFence(p[j])
        <4>1. j \in 1 .. Len(p) /\ j \in i + 1 .. Len(u)
          BY <1>2
        <4>. QED  BY <1>3, <2>4, <4>1
      <3>. QED  BY <2>2, <3>1
    <2>. QED  BY <2>1, <2>3, <2>4
  <1>. QED  BY <1>4 DEF Paired

LEMMA DraftIsText ==
    ASSUME NEW d \in Drafts
    PROVE  d \in Seq(TextTokens) /\ Paired(d)
  <1>1. d \in Seq(ToSet(d)) /\ Paired(d)
    BY DraftsAssumption
  <1>2. ToSet(d) \subseteq TextTokens
    <2>1. ToSet(d) \in {ToSet(e) : e \in Drafts}
      OBVIOUS
    <2>. QED  BY <2>1 DEF TextTokens
  <1>3. \A i \in 1 .. Len(d) : d[i] \in TextTokens
    BY <1>1, <1>2
  <1>4. d \in [1 .. Len(d) -> TextTokens] /\ Len(d) \in Nat
    BY <1>1, <1>3
  <1>. QED  BY <1>1, <1>4

-----------------------------------------------------------------------------
(* Turns. *)
(* The text of a turn in flight, as far as the screen depends on it.       *)
IsText ==
    /\ answer \in Seq(TextTokens) /\ durable \in Seq(TextTokens) /\ streamed \in Seq(TextTokens) /\ lost \in Nat
    /\ phase # "none" => durable \o answer \in Drafts
    /\ phase # "none" /\ lost = 0 => streamed = durable
    /\ phase = "none" => streamed = <<>>

LEMMA TextStarts == TextInit => IsText
  BY DEF TextInit, IsText

LEMMA AskedIsText ==
    ASSUME NEW kind, kind # "none", Asks(kind), streamed' = <<>>, lost' = lost, lost \in Nat
    PROVE  IsText'
  <1>1. answer' \in Drafts /\ durable' = <<>> /\ phase' # "none"
    BY DEF Asks
  <1>2. answer' \in Seq(TextTokens) /\ <<>> \in Seq(TextTokens) /\ durable' \o answer' = answer'
    <2>1. answer' \in Seq(TextTokens)
      BY <1>1, DraftIsText
    <2>2. <<>> \o answer' = answer'
      BY <2>1, ConcatEmptySeq
    <2>. QED  BY <1>1, <2>1, <2>2
  <1>. QED  BY <1>1, <1>2 DEF IsText

LEMMA TextStep == IsText /\ [TextNext]_textVars => IsText'
  <1>. SUFFICES ASSUME IsText, [TextNext]_textVars PROVE IsText'
    OBVIOUS
  <1>1. CASE SubmitText
    BY <1>1, AskedIsText DEF SubmitText, IsText
  <1>2. CASE AppendDelta
    <2>1. /\ answer # <<>> /\ answer' = Tail(answer) /\ durable' = Append(durable, Head(answer))
          /\ phase' = phase /\ phase # "none"
          /\ \/ streamed' = Append(streamed, Head(answer)) /\ lost' = lost
             \/ lost' = lost + 1 /\ streamed' = streamed
      BY <1>2 DEF AppendDelta
    <2>2. Head(answer) \in TextTokens /\ answer' \in Seq(TextTokens) /\ durable' \in Seq(TextTokens) /\ streamed' \in Seq(TextTokens)
      <3>1. answer \in Seq(TextTokens) /\ durable \in Seq(TextTokens) /\ streamed \in Seq(TextTokens)
        BY DEF IsText
      <3>2. Head(answer) \in TextTokens /\ Tail(answer) \in Seq(TextTokens)
        BY <2>1, <3>1
      <3>3. PICK h : h = Head(answer)
        OBVIOUS
      <3>4. Append(durable, h) \in Seq(TextTokens) /\ Append(streamed, h) \in Seq(TextTokens)
        BY <3>1, <3>2, <3>3
      <3>5. streamed' \in Seq(TextTokens)
        BY <2>1, <3>1, <3>3, <3>4
      <3>. QED  BY <2>1, <3>2, <3>3, <3>4, <3>5
    <2>3. durable' \o answer' = durable \o answer
      <3>1. PICK h, r : h = Head(answer) /\ r = Tail(answer)
        OBVIOUS
      <3>2. h \in TextTokens /\ r \in Seq(TextTokens) /\ durable \in Seq(TextTokens) /\ <<h>> \in Seq(TextTokens)
        BY <2>1, <2>2, <3>1 DEF IsText
      <3>3. answer = <<h>> \o r
        BY <2>1, <3>1, HeadAndTail DEF IsText
      <3>4. Append(durable, h) = durable \o <<h>>
        BY <3>2, AppendIsConcat
      <3>5. PICK z : z = <<h>>
        OBVIOUS
      <3>6. durable \o (z \o r) = (durable \o z) \o r
        BY <3>2, <3>5, Regroup, Zenon
      <3>. QED  BY <2>1, <3>1, <3>3, <3>4, <3>5, <3>6
    <2>4. durable' \o answer' \in Drafts
      BY <2>1, <2>3 DEF IsText
    <2>5. lost' \in Nat /\ (lost' = 0 => streamed' = durable')
      <3>1. lost \in Nat /\ (lost = 0 => streamed = durable)
        BY <2>1 DEF IsText
      <3>2. CASE streamed' = Append(streamed, Head(answer)) /\ lost' = lost
        BY <2>1, <3>1, <3>2
      <3>3. CASE lost' = lost + 1
        BY <3>1, <3>3
      <3>. QED  BY <2>1, <3>2, <3>3
    <2>6. phase' # "none"
      BY <2>1
    <2>. QED  BY <2>2, <2>4, <2>5, <2>6, Zenon DEF IsText
  <1>3. CASE CompleteText
    <2>1. streamed' = <<>> /\ lost' = lost
      BY <1>3 DEF CompleteText
    <2>2. \/ phase' = "none" /\ answer' = answer /\ durable' = durable
          \/ Asks("repair")
      BY <1>3 DEF CompleteText
    <2>3. CASE phase' = "none" /\ answer' = answer /\ durable' = durable
      BY <2>1, <2>3 DEF IsText
    <2>4. CASE Asks("repair")
      BY <2>1, <2>4, AskedIsText DEF IsText
    <2>. QED  BY <2>2, <2>3, <2>4
  <1>4. CASE CancelText
    BY <1>4 DEF CancelText, IsText
  <1>5. CASE UNCHANGED textVars
    BY <1>5 DEF textVars, IsText
  <1>. QED  BY <1>1, <1>2, <1>3, <1>4, <1>5 DEF TextNext

LEMMA StreamIsPaired ==
    ASSUME IsText, lost = 0 \/ durable = streamed
    PROVE  Paired(streamed)
  <1>1. CASE phase = "none"
    BY <1>1 DEF IsText, Paired
  <1>2. CASE phase # "none"
    <2>1. durable \o answer \in Drafts /\ streamed = durable
      BY <1>2 DEF IsText
    <2>2. Paired(durable \o answer)
      BY <2>1, DraftIsText
    <2>. QED  BY <2>1, <2>2, PrefixIsPaired DEF IsText
  <1>. QED  BY <1>1, <1>2

LEMMA TextIsClean == IsText => ScreenIsClean
  <1>. SUFFICES ASSUME IsText PROVE ScreenIsClean
    OBVIOUS
  <1>1. streamed \in Seq(TextTokens)
    BY DEF IsText
  <1>2. BlockedStaysOut
    BY <1>1, StreamIsClean DEF BlockedStaysOut
  <1>3. WholeCardsOnly
    <2>1. ASSUME lost = 0 PROVE BlocksClosed(StreamShown(streamed))
      BY <1>1, <2>1, StreamIsPaired, StreamIsClosed
    <2>. QED  BY <2>1 DEF WholeCardsOnly
  <1>. QED  BY <1>2, <1>3 DEF ScreenIsClean

KeepsShown == CompleteText /\ durable = streamed /\ streamed # <<>>
           /\ BlocksClosed(streamed) /\ PlansIn(streamed) < 2
           => MessageShown(message') = StreamShown(streamed)

LEMMA CompletedIsShown == IsText => KeepsShown
  <1>. SUFFICES ASSUME IsText, CompleteText, durable = streamed, streamed # <<>>,
                       BlocksClosed(streamed), PlansIn(streamed) < 2
                PROVE  MessageShown(message') = StreamShown(streamed)
    BY DEF KeepsShown
  <1>1. message' = StoredText(streamed)
    BY DEF CompleteText
  <1>2. streamed \in Seq(TextTokens) /\ Paired(streamed)
    BY StreamIsPaired DEF IsText
  <1>3. MessageShown(StoredText(streamed)) = StreamShown(streamed)
    BY <1>2, StoredIsShown
  <1>. QED  BY <1>1, <1>3

LEMMA AlwaysText == TextSpec => []IsText
  BY TextStarts, TextStep, PTL DEF TextSpec

(* Of any answer whose fences pair up, cut off anywhere: while no delta is *)
(* lost every card and plan on the screen is whole, and whatever is lost no*)
(* card on it uses the low-level API (ScreenIsClean of CardText).          *)
THEOREM ScreenStaysClean == TextSpec => []ScreenIsClean
  BY AlwaysText, TextIsClean, PTL

(* Of any such answer that came whole, with one plan or none: the message the *)
(* turn leaves is drawn as the stream was (CompletionKeepsTheScreen of     *)
(* CardText).                                                              *)
THEOREM CompletionChangesNothing == TextSpec => CompletionKeepsTheScreen
  <1>1. TextSpec => [][KeepsShown]_textVars
    BY AlwaysText, CompletedIsShown, PTL DEF TextSpec
  <1>. QED  BY <1>1 DEF CompletionKeepsTheScreen, KeepsShown
=============================================================================

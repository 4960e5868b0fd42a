--------------------------- MODULE SequenceLemmas ---------------------------
(***************************************************************************)
(* Facts about sequences that the proofs of several components need.       *)
(***************************************************************************)
EXTENDS Retained, Integers, SequencesExt, WellFoundedInduction, FiniteSetTheorems, SequenceTheorems, TLAPS

(* Every set of numbers has a least element. *)
LEMMA Least == ASSUME NEW T \in SUBSET Nat, T # {} PROVE \E x \in T : \A y \in T : x <= y
  <1>. DEFINE F == {0..n : n \in T}
  <1>1. F \subseteq FiniteSubsetsOf(Nat) /\ F # {}
    <2>1. \A n \in T : 0..n \in SUBSET Nat
      OBVIOUS
    <2>2. \A n \in T : IsFiniteSet(0..n)
      BY FS_Interval
    <2>. QED  BY <2>1, <2>2 DEF FiniteSubsetsOf
  <1>2. \E x \in F : \A y \in F : ~(<<y, x>> \in StrictSubsetOrdering(Nat))
    <2>. HIDE DEF F
    <2>1. IsWellFoundedOn(StrictSubsetOrdering(Nat), FiniteSubsetsOf(Nat))
      BY FS_StrictSubsetOrderingWellFounded
    <2>. QED  BY <2>1, <1>1, WFMin
  <1>3. PICK m \in T : \A y \in F : ~(<<y, 0..m>> \in StrictSubsetOrdering(Nat))
    BY <1>2
  <1>4. ASSUME NEW n \in T, n < m PROVE FALSE
    <2>1. 0..n \subseteq 0..m /\ 0..n # 0..m /\ 0..m \in SUBSET Nat /\ 0..n \in SUBSET Nat
      <3>1. m \in 0..m /\ m \notin 0..n
        BY <1>4
      <3>. QED  BY <3>1, <1>4
    <2>2. <<0..n, 0..m>> \in StrictSubsetOrdering(Nat)
      BY <2>1 DEF StrictSubsetOrdering
    <2>. QED  BY <1>3, <2>2
  <1>. QED  BY <1>4

(* Induction over a set of numbers. *)
LEMMA Induct == ASSUME NEW S, 0 \in S, \A n \in Nat : n \in S => n + 1 \in S PROVE Nat \subseteq S
  <1>. SUFFICES ASSUME Nat \ S # {} PROVE FALSE
    OBVIOUS
  <1>1. PICK x \in Nat \ S : \A y \in Nat \ S : x <= y
    <2>1. Nat \ S \in SUBSET Nat
      OBVIOUS
    <2>. QED  BY <2>1, Least
  <1>2. x # 0 /\ x - 1 \in Nat
    BY <1>1
  <1>3. x - 1 \in S
    BY <1>1, <1>2
  <1>. QED  BY <1>1, <1>2, <1>3

(* Induction over a set of numbers, from all that are less.                *)
LEMMA StrongInduct ==
    ASSUME NEW S, \A n \in Nat : (\A k \in 0 .. n - 1 : k \in S) => n \in S
    PROVE  Nat \subseteq S
  <1>. SUFFICES ASSUME Nat \ S # {} PROVE FALSE
    OBVIOUS
  <1>1. PICK x \in Nat \ S : \A y \in Nat \ S : x <= y
    <2>1. Nat \ S \in SUBSET Nat
      OBVIOUS
    <2>. QED  BY <2>1, Least
  <1>2. \A k \in 0 .. x - 1 : k \in S
    BY <1>1
  <1>. QED  BY <1>1, <1>2

(* A nonempty set of numbers up to m has a greatest element. *)
LEMMA Greatest ==
    ASSUME NEW m \in Nat, NEW T \in SUBSET (0..m), T # {}
    PROVE  \E x \in T : \A y \in T : y <= x
  <1>. DEFINE U == {m - x : x \in T}
  <1>1. U \in SUBSET Nat /\ U # {}
    <2>1. \A x \in T : x \in 0..m /\ m - x \in Nat
      OBVIOUS
    <2>. QED  BY <2>1
  <1>2. PICK u \in U : \A v \in U : u <= v
    <2>. HIDE DEF U
    <2>. QED  BY <1>1, Least
  <1>3. PICK x \in T : u = m - x
    BY <1>2
  <1>4. ASSUME NEW y \in T PROVE y <= x
    <2>1. u <= m - y
      BY <1>2
    <2>. QED  BY <1>3, <2>1
  <1>. QED  BY <1>4

-----------------------------------------------------------------------------
(* The recursion of RetainedOf is well defined. *)
LEMMA RetainedUnfolds ==
    ASSUME NEW T, NEW q \in Seq(T), NEW keep
    PROVE  \A n \in 0..Len(q) :
             RetainedOf(q, keep)[n] =
               IF n = 0 THEN <<>>
               ELSE IF q[n] \in keep THEN Append(RetainedOf(q, keep)[n - 1], q[n])
                                     ELSE RetainedOf(q, keep)[n - 1]
  <1>. DEFINE Rec(f, n) == IF n = 0 THEN <<>>
                           ELSE IF q[n] \in keep THEN Append(f[n - 1], q[n]) ELSE f[n - 1]
              Fits(f, m) == f = [n \in 0..m |-> Rec(f, n)]
              S == {m \in Nat : \E f : Fits(f, m)}
  <1>1. 0 \in S
    <2>1. Fits([n \in 0..0 |-> <<>>], 0)
      OBVIOUS
    <2>. QED  BY <2>1
  <1>2. ASSUME NEW m \in Nat, m \in S PROVE m + 1 \in S
    <2>1. PICK f : Fits(f, m)
      BY <1>2
    <2>. DEFINE g == [n \in 0..m + 1 |-> IF n = m + 1 THEN Rec(f, n) ELSE f[n]]
    <2>2. \A n \in 0..m + 1 : n # 0 => n - 1 \in 0..m /\ g[n - 1] = f[n - 1]
      OBVIOUS
    <2>3. ASSUME NEW n \in 0..m + 1 PROVE g[n] = Rec(g, n)
      <3>1. g[n] = IF n = m + 1 THEN Rec(f, n) ELSE f[n]
        OBVIOUS
      <3>2. Rec(g, n) = Rec(f, n)
        <4>. HIDE DEF g
        <4>. QED  BY <2>2
      <3>3. n # m + 1 => f[n] = Rec(f, n)
        <4>1. n # m + 1 => n \in 0..m
          OBVIOUS
        <4>. HIDE DEF Rec
        <4>. QED  BY <2>1, <4>1
      <3>. HIDE DEF Rec, g
      <3>. QED  BY <3>1, <3>2, <3>3
    <2>4. Fits(g, m + 1)
      <3>1. g = [n \in 0..m + 1 |-> g[n]]
        OBVIOUS
      <3>. HIDE DEF g, Rec
      <3>. QED  BY <2>3, <3>1
    <2>5. \E h : Fits(h, m + 1)
      <3>. HIDE DEF g, Fits
      <3>. QED  BY <2>4
    <2>. HIDE DEF Fits
    <2>. QED  BY <2>5
  <1>3. Len(q) \in S
    <2>. HIDE DEF S
    <2>1. Nat \subseteq S
      BY <1>1, <1>2, Induct
    <2>. QED  BY <2>1
  <1>4. \E f : Fits(f, Len(q))
    BY <1>3
  <1>. DEFINE r == CHOOSE f : Fits(f, Len(q))
  <1>5. RetainedOf(q, keep) = r
    BY DEF RetainedOf
  <1>6. Fits(r, Len(q))
    <2>. HIDE DEF Fits
    <2>. QED  BY <1>4
  <1>. HIDE DEF r
  <1>. QED  BY <1>5, <1>6

LEMMA Appended ==
    ASSUME NEW T, NEW q \in Seq(T), NEW e \in T
    PROVE  /\ Append(q, e) \in Seq(T) /\ Len(q) \in Nat /\ DOMAIN q = 1..Len(q)
           /\ DOMAIN Append(q, e) = 1..Len(q) + 1 /\ Append(q, e)[Len(q) + 1] = e
           /\ \A i \in 1..Len(q) : Append(q, e)[i] = q[i]
  BY AppendProperties, LenProperties

(* What is kept is of the sequence and of the set, and all of that is kept. *)
LEMMA RetainedElements ==
    ASSUME NEW T, NEW q \in Seq(T), NEW keep
    PROVE  \A n \in 0..Len(q) :
             /\ RetainedOf(q, keep)[n] \in Seq(T) /\ Len(RetainedOf(q, keep)[n]) <= n
             /\ \A i \in DOMAIN RetainedOf(q, keep)[n] : \E k \in 1..n :
                  RetainedOf(q, keep)[n][i] = q[k] /\ q[k] \in keep
             /\ \A k \in 1..n : q[k] \in keep =>
                  \E i \in DOMAIN RetainedOf(q, keep)[n] : RetainedOf(q, keep)[n][i] = q[k]
  <1>. DEFINE R(m) == RetainedOf(q, keep)[m]
              P(m) == /\ R(m) \in Seq(T) /\ Len(R(m)) <= m
                      /\ \A i \in DOMAIN R(m) : \E k \in 1..m : R(m)[i] = q[k] /\ q[k] \in keep
                      /\ \A k \in 1..m : q[k] \in keep => \E i \in DOMAIN R(m) : R(m)[i] = q[k]
              S == {m \in Nat : m <= Len(q) => P(m)}
  <1>1. /\ R(0) = <<>>
        /\ \A m \in Nat : m + 1 <= Len(q) =>
             R(m + 1) = IF q[m + 1] \in keep THEN Append(R(m), q[m + 1]) ELSE R(m)
    <2>1. Len(q) \in Nat
      OBVIOUS
    <2>2. \A m \in 0..Len(q) : R(m) = IF m = 0 THEN <<>>
                 ELSE IF q[m] \in keep THEN Append(R(m - 1), q[m]) ELSE R(m - 1)
      BY RetainedUnfolds
    <2>. HIDE DEF R
    <2>3. ASSUME NEW m \in Nat, m + 1 <= Len(q)
          PROVE  R(m + 1) = IF q[m + 1] \in keep THEN Append(R(m), q[m + 1]) ELSE R(m)
      <3>1. m + 1 \in 0..Len(q) /\ m + 1 # 0 /\ (m + 1) - 1 = m
        BY <2>1, <2>3
      <3>. QED  BY <2>2, <3>1
    <2>. QED  BY <2>1, <2>2, <2>3
  <1>. HIDE DEF R
  <1>2. 0 \in S
    <2>1. 1..0 = {} /\ DOMAIN R(0) = {} /\ Len(R(0)) = 0
      BY <1>1
    <2>3. R(0) \in Seq(T)
      BY <1>1, EmptySeq
    <2>2. P(0)
      BY <2>1, <2>3
    <2>. QED  BY <2>2
  <1>3. ASSUME NEW m \in Nat, m \in S PROVE m + 1 \in S
    <2>. SUFFICES ASSUME m + 1 <= Len(q) PROVE P(m + 1)
      OBVIOUS
    <2>0. Len(q) \in Nat /\ m <= Len(q) /\ m + 1 \in 1..Len(q)
      OBVIOUS
    <2>1. P(m) /\ q[m + 1] \in T /\ m + 1 \in 1..m + 1
          /\ \A k \in 1..m + 1 : k \in 1..m \/ k = m + 1
      <3>1. P(m)
        BY <1>3, <2>0
      <3>2. q[m + 1] \in T
        BY <2>0
      <3>. QED  BY <3>1, <3>2
    <2>2. CASE q[m + 1] \notin keep
      <3>1. R(m + 1) = R(m)
        BY <1>1, <2>2
      <3>. QED  BY <2>1, <2>2, <3>1
    <2>3. CASE q[m + 1] \in keep
      <3>1. R(m + 1) = Append(R(m), q[m + 1])
        BY <1>1, <2>3
      <3>2. /\ R(m + 1) \in Seq(T) /\ Len(R(m)) \in Nat /\ DOMAIN R(m) = 1..Len(R(m))
            /\ DOMAIN R(m + 1) = 1..Len(R(m)) + 1 /\ R(m + 1)[Len(R(m)) + 1] = q[m + 1]
            /\ \A i \in 1..Len(R(m)) : R(m + 1)[i] = R(m)[i]
        <4>1. PICK z, e : z = R(m) /\ e = q[m + 1]
          OBVIOUS
        <4>2. z \in Seq(T) /\ e \in T /\ R(m + 1) = Append(z, e)
          BY <2>1, <3>1, <4>1
        <4>3. /\ Append(z, e) \in Seq(T) /\ Len(z) \in Nat /\ DOMAIN z = 1..Len(z)
              /\ DOMAIN Append(z, e) = 1..Len(z) + 1 /\ Append(z, e)[Len(z) + 1] = e
              /\ \A i \in 1..Len(z) : Append(z, e)[i] = z[i]
          BY <4>2, Appended
        <4>. QED  BY <4>1, <4>2, <4>3
      <3>3. Len(R(m + 1)) <= m + 1
        BY <2>1, <3>1, <3>2
      <3>4. ASSUME NEW i \in DOMAIN R(m + 1)
            PROVE  \E k \in 1..m + 1 : R(m + 1)[i] = q[k] /\ q[k] \in keep
        <4>1. CASE i = Len(R(m)) + 1
          BY <2>1, <2>3, <3>2, <4>1
        <4>2. CASE i # Len(R(m)) + 1
          <5>1. i \in DOMAIN R(m) /\ R(m + 1)[i] = R(m)[i]
            BY <3>2, <4>2
          <5>2. PICK k \in 1..m : R(m)[i] = q[k] /\ q[k] \in keep
            BY <2>1, <5>1
          <5>. QED  BY <5>1, <5>2
        <4>. QED  BY <4>1, <4>2
      <3>5. ASSUME NEW k \in 1..m + 1, q[k] \in keep
            PROVE  \E i \in DOMAIN R(m + 1) : R(m + 1)[i] = q[k]
        <4>1. CASE k = m + 1
          BY <3>2, <4>1
        <4>2. CASE k # m + 1
          <5>1. PICK i \in DOMAIN R(m) : R(m)[i] = q[k]
            BY <2>1, <3>5, <4>2
          <5>2. i \in DOMAIN R(m + 1) /\ R(m + 1)[i] = R(m)[i]
            BY <3>2, <5>1
          <5>. QED  BY <5>1, <5>2
        <4>. QED  BY <4>1, <4>2
      <3>. QED  BY <3>2, <3>3, <3>4, <3>5
    <2>. QED  BY <2>2, <2>3
  <1>4. Nat \subseteq S
    <2>. HIDE DEF S
    <2>. QED  BY <1>2, <1>3, Induct
  <1>. QED
    <2>1. ASSUME NEW m \in 0..Len(q) PROVE P(m)
      <3>1. m \in Nat /\ m <= Len(q)
        OBVIOUS
      <3>. QED  BY <1>4, <3>1
    <2>. QED  BY <2>1 DEF R

LEMMA RetainElements ==
    ASSUME NEW T, NEW q \in Seq(T), NEW keep
    PROVE  /\ Retain(q, keep) \in Seq(T) /\ Len(Retain(q, keep)) <= Len(q)
           /\ \A i \in DOMAIN Retain(q, keep) :
                \E k \in DOMAIN q : Retain(q, keep)[i] = q[k] /\ q[k] \in keep
           /\ \A k \in DOMAIN q : q[k] \in keep =>
                \E i \in DOMAIN Retain(q, keep) : Retain(q, keep)[i] = q[k]
  <1>. DEFINE n == Len(q)
              z == RetainedOf(q, keep)[n]
  <1>1. n \in 0..Len(q) /\ DOMAIN q = 1..n /\ Retain(q, keep) = z
    BY DEF Retain
  <1>. HIDE DEF n
  <1>2. z \in Seq(T) /\ Len(z) <= n
    BY <1>1, RetainedElements
  <1>3. \A i \in DOMAIN z : \E k \in 1..n : z[i] = q[k] /\ q[k] \in keep
    BY <1>1, RetainedElements
  <1>4. \A k \in 1..n : q[k] \in keep => \E i \in DOMAIN z : z[i] = q[k]
    BY <1>1, RetainedElements
  <1>. HIDE DEF z
  <1>. QED  BY <1>1, <1>2, <1>3, <1>4 DEF n

(* Distinct elements stay distinct. *)
LEMMA RetainDistinct ==
    ASSUME NEW T, NEW q \in Seq(T), NEW keep, \A i, j \in DOMAIN q : q[i] = q[j] => i = j
    PROVE  \A i, j \in DOMAIN Retain(q, keep) : Retain(q, keep)[i] = Retain(q, keep)[j] => i = j
  <1>. DEFINE R(n) == RetainedOf(q, keep)[n]
              P(n) == \A i, j \in DOMAIN R(n) : R(n)[i] = R(n)[j] => i = j
              S == {n \in Nat : n <= Len(q) => P(n)}
  <1>1. ASSUME NEW n \in 0..Len(q)
        PROVE  /\ R(n) \in Seq(T)
               /\ \A i \in DOMAIN R(n) : \E k \in 1..n : R(n)[i] = q[k]
               /\ R(n) = IF n = 0 THEN <<>>
                         ELSE IF q[n] \in keep THEN Append(R(n - 1), q[n]) ELSE R(n - 1)
    BY RetainedElements, RetainedUnfolds
  <1>. HIDE DEF R
  <1>2. 0 \in S
    BY <1>1
  <1>3. ASSUME NEW n \in Nat, n \in S PROVE n + 1 \in S
    <2>. SUFFICES ASSUME n + 1 <= Len(q) PROVE P(n + 1)
      OBVIOUS
    <2>1. /\ n + 1 \in 0..Len(q) /\ n \in 0..Len(q) /\ n + 1 # 0 /\ (n + 1) - 1 = n
          /\ P(n) /\ q[n + 1] \in T /\ DOMAIN q = 1..Len(q)
      BY <1>3
    <2>2. R(n + 1) = IF q[n + 1] \in keep THEN Append(R(n), q[n + 1]) ELSE R(n)
      BY <1>1, <2>1
    <2>3. CASE R(n + 1) = R(n)
      BY <2>1, <2>3
    <2>4. CASE R(n + 1) = Append(R(n), q[n + 1])
      <3>1. /\ Len(R(n)) \in Nat /\ DOMAIN R(n) = 1..Len(R(n))
            /\ DOMAIN R(n + 1) = 1..Len(R(n)) + 1 /\ R(n + 1)[Len(R(n)) + 1] = q[n + 1]
            /\ \A i \in 1..Len(R(n)) : R(n + 1)[i] = R(n)[i]
        <4>1. PICK z, e : z = R(n) /\ e = q[n + 1]
          OBVIOUS
        <4>2. z \in Seq(T) /\ e \in T /\ R(n + 1) = Append(z, e)
          BY <1>1, <2>1, <2>4, <4>1
        <4>3. /\ Append(z, e) \in Seq(T) /\ Len(z) \in Nat /\ DOMAIN z = 1..Len(z)
              /\ DOMAIN Append(z, e) = 1..Len(z) + 1 /\ Append(z, e)[Len(z) + 1] = e
              /\ \A i \in 1..Len(z) : Append(z, e)[i] = z[i]
          BY <4>2, Appended
        <4>. QED  BY <4>1, <4>2, <4>3
      <3>2. ASSUME NEW i \in DOMAIN R(n) PROVE R(n)[i] # q[n + 1]
        <4>1. PICK k \in 1..n : R(n)[i] = q[k]
          BY <1>1, <2>1
        <4>2. k \in DOMAIN q /\ n + 1 \in DOMAIN q /\ k # n + 1
          BY <2>1
        <4>. QED  BY <4>1, <4>2
      <3>. QED  BY <2>1, <3>1, <3>2
    <2>. QED  BY <2>2, <2>3, <2>4
  <1>4. Nat \subseteq S
    <2>. HIDE DEF S
    <2>. QED  BY <1>2, <1>3, Induct
  <1>5. Len(q) \in S
    BY <1>4
  <1>. QED  BY <1>5 DEF R, Retain

-----------------------------------------------------------------------------
(* Queues and lists.                                                       *)

(* Without one of its elements a sequence that has each once has each once. *)
LEMMA RemovedOnce ==
    ASSUME NEW S, NEW q \in Seq(S), IsInjective(q), NEW i \in DOMAIN q
    PROVE  /\ RemoveAt(q, i) \in Seq(S) /\ IsInjective(RemoveAt(q, i))
           /\ ToSet(RemoveAt(q, i)) = ToSet(q) \ {q[i]}
  <1>. DEFINE r == RemoveAt(q, i)
  <1>1. i \in 1..Len(q) /\ Len(q) \in Nat
    OBVIOUS
  <1>2. /\ r \in Seq(S) /\ Len(r) = Len(q) - 1
        /\ \A j \in 1..Len(r) : r[j] = IF j < i THEN q[j] ELSE q[j + 1]
    <2>. DEFINE a == SubSeq(q, 1, i - 1)
                b == SubSeq(q, i + 1, Len(q))
    <2>1. /\ a \in Seq(S) /\ Len(a) = i - 1
          /\ \A j \in 1..(i - 1) : a[j] = q[j]
      BY <1>1
    <2>2. /\ b \in Seq(S) /\ Len(b) = Len(q) - i
          /\ \A j \in 1..(Len(q) - i) : b[j] = q[i + j]
      BY <1>1
    <2>3. r = a \o b
      BY DEF RemoveAt
    <2>. HIDE DEF a, b, r
    <2>4. r \in Seq(S) /\ Len(r) = Len(q) - 1
      BY <1>1, <2>1, <2>2, <2>3
    <2>5. ASSUME NEW j \in 1..Len(r) PROVE r[j] = IF j < i THEN q[j] ELSE q[j + 1]
      <3>1. CASE j < i
        BY <1>1, <2>1, <2>2, <2>3, <2>4, <3>1
      <3>2. CASE ~(j < i)
        <4>0. j \in 1..(Len(a) + Len(b)) /\ j > Len(a)
          BY <1>1, <2>1, <2>2, <2>4, <3>2
        <4>1. r[j] = b[j - (i - 1)]
          <5>1. (a \o b)[j] = b[j - Len(a)]
            BY <2>1, <2>2, <4>0, ConcatProperties
          <5>. QED  BY <5>1, <2>1, <2>3
        <4>2. j - (i - 1) \in 1..(Len(q) - i) /\ i + (j - (i - 1)) = j + 1
          BY <1>1, <2>4, <3>2
        <4>3. b[j - (i - 1)] = q[i + (j - (i - 1))]
          BY <2>2, <4>2
        <4>. QED  BY <4>1, <4>2, <4>3, <3>2
      <3>. QED  BY <3>1, <3>2
    <2>. QED  BY <2>4, <2>5
  <1>. HIDE DEF r
  <1>3. DOMAIN r = 1..Len(r) /\ DOMAIN q = 1..Len(q)
    BY <1>1, <1>2
  <1>4. \A a, b \in 1..Len(q) : q[a] = q[b] => a = b
    BY <1>3 DEF IsInjective
  <1>5. \A a, b \in DOMAIN r : r[a] = r[b] => a = b
    BY <1>1, <1>2, <1>3, <1>4
  <1>6. IsInjective(r)
    BY <1>5 DEF IsInjective
  <1>7. ToSet(r) \subseteq ToSet(q) \ {q[i]}
    <2>. SUFFICES ASSUME NEW j \in 1..Len(r) PROVE r[j] \in ToSet(q) \ {q[i]}
      BY <1>3 DEF ToSet
    <2>. DEFINE k == IF j < i THEN j ELSE j + 1
    <2>1. k \in 1..Len(q) /\ k # i /\ r[j] = q[k]
      BY <1>1, <1>2
    <2>. QED  BY <2>1, <1>1, <1>3, <1>4 DEF ToSet
  <1>8. ToSet(q) \ {q[i]} \subseteq ToSet(r)
    <2>. SUFFICES ASSUME NEW k \in 1..Len(q), q[k] # q[i] PROVE q[k] \in ToSet(r)
      BY <1>3 DEF ToSet
    <2>. DEFINE j == IF k < i THEN k ELSE k - 1
    <2>1. k # i
      OBVIOUS
    <2>2. j \in 1..Len(r) /\ r[j] = q[k]
      BY <1>1, <1>2, <2>1
    <2>. QED  BY <2>2, <1>3 DEF ToSet
  <1>. QED  BY <1>2, <1>6, <1>7, <1>8 DEF r

LEMMA AppendElements ==
    ASSUME NEW S, NEW q \in Seq(S), NEW e \in S
    PROVE  /\ Append(q, e) \in Seq(S)
           /\ \A i \in DOMAIN Append(q, e) :
                Append(q, e)[i] = e \/ (i \in DOMAIN q /\ Append(q, e)[i] = q[i])
  <1>1. Append(q, e) \in Seq(S) /\ Len(Append(q, e)) = Len(q) + 1
    OBVIOUS
  <1>2. DOMAIN q = 1..Len(q) /\ DOMAIN Append(q, e) = 1..(Len(q) + 1) /\ Len(q) \in Nat
    BY <1>1
  <1>3. ASSUME NEW i \in 1..(Len(q) + 1) PROVE Append(q, e)[i] = e \/ (i \in 1..Len(q) /\ Append(q, e)[i] = q[i])
    BY <1>2
  <1>. QED  BY <1>1, <1>2, <1>3

LEMMA TailElements ==
    ASSUME NEW S, NEW q \in Seq(S), q # <<>>
    PROVE  /\ Tail(q) \in Seq(S) /\ Head(q) \in S
           /\ 1 \in DOMAIN q /\ Head(q) = q[1]
           /\ \A i \in DOMAIN Tail(q) : i + 1 \in DOMAIN q /\ Tail(q)[i] = q[i + 1]
  <1>1. /\ Tail(q) \in Seq(S) /\ Head(q) \in S /\ Head(q) = q[1]
        /\ Len(q) \in Nat /\ Len(q) # 0 /\ Len(Tail(q)) = Len(q) - 1
        /\ DOMAIN q = 1..Len(q) /\ DOMAIN Tail(q) = 1..Len(Tail(q))
    OBVIOUS
  <1>2. \A i \in 1..(Len(q) - 1) : Tail(q)[i] = q[i + 1]
    OBVIOUS
  <1>. QED  BY <1>1, <1>2

LEMMA RemoveElements ==
    ASSUME NEW S, NEW q \in Seq(S), NEW i \in DOMAIN q
    PROVE  /\ RemoveAt(q, i) \in Seq(S)
           /\ \A n \in DOMAIN RemoveAt(q, i) : \E m \in DOMAIN q : RemoveAt(q, i)[n] = q[m]
  <1>. DEFINE a == SubSeq(q, 1, i - 1)
              b == SubSeq(q, i + 1, Len(q))
  <1>1. i \in 1..Len(q) /\ Len(q) \in Nat /\ DOMAIN q = 1..Len(q)
    OBVIOUS
  <1>2. /\ a \in Seq(S) /\ Len(a) = i - 1
        /\ \A j \in 1..(i - 1) : a[j] = q[j]
    BY <1>1
  <1>3. /\ b \in Seq(S) /\ Len(b) = Len(q) - i
        /\ \A j \in 1..(Len(q) - i) : b[j] = q[i + j]
    BY <1>1
  <1>4. RemoveAt(q, i) = a \o b
    BY DEF RemoveAt
  <1>. HIDE DEF a, b
  <1>5. /\ a \o b \in Seq(S) /\ DOMAIN (a \o b) = 1..(Len(a) + Len(b))
        /\ \A j \in 1..(Len(a) + Len(b)) :
             (a \o b)[j] = IF j <= Len(a) THEN a[j] ELSE b[j - Len(a)]
    BY <1>2, <1>3, ConcatProperties
  <1>6. ASSUME NEW j \in 1..(Len(a) + Len(b)) PROVE \E m \in 1..Len(q) : (a \o b)[j] = q[m]
    <2>1. CASE j <= Len(a)
      BY <1>1, <1>2, <1>5, <2>1
    <2>2. CASE ~(j <= Len(a))
      <3>1. j - Len(a) \in 1..(Len(q) - i) /\ i + (j - Len(a)) \in 1..Len(q)
        BY <1>1, <1>2, <1>3, <2>2
      <3>2. b[j - Len(a)] = q[i + (j - Len(a))]
        BY <1>3, <3>1
      <3>. QED  BY <1>5, <2>2, <3>1, <3>2
    <2>. QED  BY <2>1, <2>2
  <1>. QED  BY <1>1, <1>4, <1>5, <1>6

(* An injective sequence as long as a finite set is large has all of it.   *)
LEMMA ListedOnce ==
    ASSUME NEW S, IsFiniteSet(S)
    PROVE  SetToSeq(S) \in Seq(S) /\ \A x \in S : \E i \in DOMAIN SetToSeq(S) : SetToSeq(S)[i] = x
  <1>. DEFINE D == 1..Cardinality(S)
              q == SetToSeq(S)
  <1>1. Cardinality(S) \in Nat /\ ExistsBijection(D, S)
    BY FS_CardinalityType
  <1>2. PICK f \in [D -> S] : IsInjective(f)
    BY <1>1 DEF ExistsBijection, Bijection, Injection
  <1>3. q \in [D -> S] /\ IsInjective(q)
    BY <1>2 DEF SetToSeq
  <1>4. IsFiniteSet(D) /\ Cardinality(D) = Cardinality(S)
    BY <1>1, FS_Interval
  <1>5. q \in Injection(D, S)
    BY <1>3 DEF Injection
  <1>6. q \in Surjection(D, S)
    BY <1>4, <1>5, FS_Injection
  <1>7. DOMAIN q = D
    BY <1>3
  <1>8. \A x \in S : \E i \in D : q[i] = x
    BY <1>6 DEF Surjection
  <1>9. q \in Seq(S)
    BY <1>1, <1>3, SeqDef
  <1>. QED  BY <1>7, <1>8, <1>9

(* Two elements, one after the other. *)
LEMMA Pair ==
    ASSUME NEW x, NEW y
    PROVE  Len(<<x>> \o <<y>>) = 2 /\ (<<x>> \o <<y>>)[1] = x /\ <<x>> \o <<y>> # <<>>
  <1>1. <<x>> \in Seq({x, y}) /\ <<y>> \in Seq({x, y}) /\ Len(<<x>>) = 1 /\ Len(<<y>>) = 1 /\ <<x>>[1] = x
    OBVIOUS
  <1>. DEFINE a == <<x>>
              b == <<y>>
              S == {x, y}
  <1>2. a \in Seq(S) /\ b \in Seq(S) /\ Len(a) = 1 /\ Len(b) = 1 /\ a[1] = x
    BY <1>1
  <1>. HIDE DEF a, b, S
  <1>3. /\ a \o b \in Seq(S) /\ Len(a \o b) = Len(a) + Len(b)
        /\ \A i \in 1 .. Len(a) + Len(b) : (a \o b)[i] = IF i <= Len(a) THEN a[i] ELSE b[i - Len(a)]
    BY <1>2, ConcatProperties, Zenon
  <1>4. a \o b # <<>> /\ Len(a \o b) = 2 /\ (a \o b)[1] = x
    BY <1>2, <1>3
  <1>. QED  BY <1>4 DEF a, b

(* A sequence between two others keeps its elements, further on. *)
LEMMA Between ==
    ASSUME NEW T, NEW q \in Seq(T), NEW p \in Seq(T), NEW r \in Seq(T)
    PROVE  /\ p \o r \in Seq(T) /\ q \o p \in Seq(T) /\ q \o (p \o r) \in Seq(T)
           /\ q \o (p \o r) = (q \o p) \o r
           /\ Len(p \o r) = Len(p) + Len(r) /\ Len(q \o p) = Len(q) + Len(p)
           /\ Len(q \o (p \o r)) = Len(q) + Len(p) + Len(r)
           /\ \A j \in 1 .. Len(p) : (q \o (p \o r))[Len(q) + j] = p[j]
  <1>1. /\ p \o r \in Seq(T) /\ q \o p \in Seq(T) /\ q \o (p \o r) \in Seq(T)
        /\ Len(p \o r) = Len(p) + Len(r) /\ Len(q \o p) = Len(q) + Len(p)
        /\ Len(q) \in Nat /\ Len(p) \in Nat /\ Len(r) \in Nat
    BY ConcatProperties, LenProperties
  <1>2. q \o (p \o r) = (q \o p) \o r
    BY ConcatAssociative
  <1>3. PICK x : x = p \o r
    OBVIOUS
  <1>4. x \in Seq(T) /\ Len(x) = Len(p) + Len(r)
    BY <1>1, <1>3
  <1>5. /\ Len(q \o x) = Len(q) + Len(x)
        /\ \A k \in 1 .. Len(q) + Len(x) : (q \o x)[k] = IF k <= Len(q) THEN q[k] ELSE x[k - Len(q)]
    <2>1. x \in Seq(T)
      BY <1>4
    <2>. QED  BY <2>1, ConcatProperties
  <1>6. ASSUME NEW j \in 1 .. Len(p) PROVE (q \o x)[Len(q) + j] = p[j]
    <2>1. Len(q) + j \in 1 .. Len(q) + Len(x) /\ ~(Len(q) + j <= Len(q)) /\ (Len(q) + j) - Len(q) = j
      BY <1>1, <1>4
    <2>2. (q \o x)[Len(q) + j] = x[j]
      <3>1. PICK k : k = Len(q) + j
        OBVIOUS
      <3>. QED  BY <1>5, <2>1, <3>1
    <2>3. j \in 1 .. Len(p) + Len(r) /\ j <= Len(p)
      BY <1>1
    <2>4. (p \o r)[j] = p[j]
      BY <2>3, ConcatProperties
    <2>. QED  BY <1>3, <2>2, <2>4
  <1>. QED  BY <1>1, <1>2, <1>3, <1>4, <1>5, <1>6

(* A sequence is its head and its tail. *)
LEMMA HeadAndTail ==
    ASSUME NEW T, NEW q \in Seq(T), q # <<>>
    PROVE  q = <<Head(q)>> \o Tail(q)
  <1>1. PICK h, r, z : h = Head(q) /\ r = Tail(q) /\ z = <<h>>
    OBVIOUS
  <1>2. /\ h \in T /\ h = q[1] /\ r \in Seq(T) /\ Len(r) = Len(q) - 1 /\ Len(q) \in Nat
        /\ \A i \in 1 .. Len(r) : r[i] = q[i + 1]
    BY <1>1, HeadTailProperties
  <1>3. z \in Seq(T) /\ Len(z) = 1 /\ z[1] = h
    BY <1>1, <1>2
  <1>4. /\ z \o r \in Seq(T) /\ Len(z \o r) = Len(z) + Len(r)
        /\ \A i \in 1 .. Len(z) + Len(r) : (z \o r)[i] = IF i <= Len(z) THEN z[i] ELSE r[i - Len(z)]
    <2>1. z \in Seq(T) /\ r \in Seq(T)
      BY <1>2, <1>3
    <2>. QED  BY <2>1, ConcatProperties
  <1>5. PICK u : u = z \o r
    OBVIOUS
  <1>6. /\ u \in Seq(T) /\ Len(u) = Len(q)
        /\ \A i \in 1 .. Len(q) : u[i] = IF i <= 1 THEN z[i] ELSE r[i - 1]
    BY <1>2, <1>3, <1>4, <1>5
  <1>7. ASSUME NEW i \in 1 .. Len(q) PROVE u[i] = q[i]
    <2>1. CASE i = 1
      BY <1>2, <1>3, <1>6, <2>1
    <2>2. CASE i # 1
      <3>1. PICK k : k = i - 1
        OBVIOUS
      <3>2. k \in 1 .. Len(r) /\ k + 1 = i /\ ~(i <= 1)
        BY <1>2, <2>2, <3>1
      <3>. QED  BY <1>2, <1>6, <3>1, <3>2
    <2>. QED  BY <2>1, <2>2
  <1>8. u = q
    BY <1>6, <1>7, SeqEqual
  <1>. QED  BY <1>1, <1>5, <1>8
=============================================================================

--------------------------- MODULE SequenceLemmas ---------------------------
(***************************************************************************)
(* What FlattenSeq() and SetToSeq() of SequencesExt return, for all their  *)
(* arguments.  FlattenSeq() is recursive over the places of a sequence; it *)
(* is reasoned about by the least place at which a claim fails, a minimum  *)
(* that the well-foundedness of the natural numbers provides as a fact     *)
(* about a set.  Sequences without repetition and with no element in       *)
(* common repeat nothing when they are joined.  A set put in order has all *)
(* its elements, each once: the number of those ahead of an element tells  *)
(* its place.                                                              *)
(***************************************************************************)
EXTENDS Ordering, SequencesExt, SequenceTheorems, FiniteSetTheorems, TLAPS

\* The order of the natural numbers, as a set of pairs.
LessThan == {ss \in Nat \X Nat : ss[1] < ss[2]}

\* A set of natural numbers has a least one.
LEMMA LeastNumber ==
    ASSUME NEW S, S \subseteq Nat, S # {}
    PROVE  \E m \in S : \A n \in S : m <= n
<1>1. IsWellFoundedOn(LessThan, Nat)
  BY NatLessThanWellFounded DEF OpToRel, LessThan
<1>2. PICK m \in S : \A n \in S : ~ (<<n, m>> \in LessThan)
  BY <1>1, WFMin
<1>3. \A n \in S : ~ (n < m)
  BY <1>2 DEF LessThan
<1> QED  BY <1>3

\* A function on the first numbers is a sequence.
LEMMA FunctionIsSeq ==
    ASSUME NEW S, NEW n \in Nat, NEW f \in [1 .. n -> S]
    PROVE  f \in Seq(S) /\ Len(f) = n
BY SeqDef

\* What is appended is added to the elements.
LEMMA RangeOfAppend ==
    ASSUME NEW S, NEW s \in Seq(S), NEW x
    PROVE  Range(Append(s, x)) = Range(s) \cup {x}
<1>1. s \in Seq(S \cup {x})
  BY SeqMonotonic
<1>2. /\ Len(s) \in Nat /\ DOMAIN s = 1 .. Len(s)
      /\ DOMAIN Append(s, x) = 1 .. Len(s) + 1
      /\ \A i \in 1 .. Len(s) : Append(s, x)[i] = s[i]
      /\ Append(s, x)[Len(s) + 1] = x
  BY <1>1, AppendProperties
<1>3. 1 .. Len(s) + 1 = 1 .. Len(s) \cup {Len(s) + 1}
  BY <1>2
<1> QED  BY <1>2, <1>3 DEF Range

\* The head is an element, and so are those of the tail.
LEMMA RangeOfTail ==
    ASSUME NEW S, NEW s \in Seq(S), s # <<>>
    PROVE  Range(s) = {Head(s)} \cup Range(Tail(s))
<1>1. /\ Len(s) \in Nat /\ Len(s) # 0 /\ DOMAIN s = 1 .. Len(s)
      /\ DOMAIN Tail(s) = 1 .. Len(s) - 1
      /\ \A i \in 1 .. Len(s) - 1 : Tail(s)[i] = s[i + 1]
      /\ Head(s) = s[1]
  BY HeadTailProperties
<1>2. ASSUME NEW i \in 1 .. Len(s), i # 1  PROVE i - 1 \in 1 .. Len(s) - 1 /\ s[i] = Tail(s)[i - 1]
  BY <1>1, <1>2
<1>3. ASSUME NEW i \in 1 .. Len(s) - 1  PROVE i + 1 \in 1 .. Len(s) /\ s[i + 1] = Tail(s)[i]
  BY <1>1, <1>3
<1>4. 1 \in 1 .. Len(s)
  BY <1>1
<1>5. Range(s) \subseteq {Head(s)} \cup Range(Tail(s))
  <2> SUFFICES ASSUME NEW i \in 1 .. Len(s), s[i] # Head(s)  PROVE s[i] \in Range(Tail(s))
    BY <1>1 DEF Range
  <2>1. i - 1 \in DOMAIN Tail(s) /\ s[i] = Tail(s)[i - 1]
    BY <1>1, <1>2
  <2> QED  BY <2>1 DEF Range
<1>6. {Head(s)} \cup Range(Tail(s)) \subseteq Range(s)
  BY <1>1, <1>3, <1>4 DEF Range
<1> QED  BY <1>5, <1>6

\* f has in every place what the places before it make together.
Joins(f, s, k) ==
    \A i \in 1 .. k : f[i] = IF i = 1 THEN s[i] ELSE f[i - 1] \o s[i]

\* The joins of a sequence of sequences exist.
LEMMA JoinsExist ==
    ASSUME NEW S, NEW s \in Seq(Seq(S))
    PROVE  \E f \in [1 .. Len(s) -> Seq(S)] : Joins(f, s, Len(s))
<1> DEFINE Without == {k \in 0 .. Len(s) : ~ \E f \in [1 .. k -> Seq(S)] : Joins(f, s, k)}
<1>1. Len(s) \in Nat /\ \A i \in 1 .. Len(s) : s[i] \in Seq(S)
  OBVIOUS
<1>2. SUFFICES ASSUME Without # {}  PROVE FALSE
  <2>1. Len(s) \in 0 .. Len(s)
    BY <1>1
  <2> QED  BY <1>2, <2>1
<1>3. PICK m \in Without : \A n \in Without : m <= n
  <2>1. Without \subseteq Nat
    OBVIOUS
  <2> HIDE DEF Without
  <2> QED  BY <1>2, <2>1, LeastNumber
<1>4. m # 0
  <2>1. [i \in 1 .. 0 |-> <<>>] \in [1 .. 0 -> Seq(S)]
    OBVIOUS
  <2>2. Joins([i \in 1 .. 0 |-> <<>>], s, 0)
    BY DEF Joins
  <2>3. ~ \E f \in [1 .. m -> Seq(S)] : Joins(f, s, m)
    BY <1>3
  <2> QED  BY <2>1, <2>2, <2>3
<1>5. m \in 1 .. Len(s) /\ m - 1 \in 0 .. Len(s)
  BY <1>1, <1>3, <1>4
<1>6. PICK g \in [1 .. m - 1 -> Seq(S)] : Joins(g, s, m - 1)
  <2>1. m - 1 \notin Without
    <3> HIDE DEF Without
    <3> QED  BY <1>3, <1>5
  <2> QED  BY <1>5, <2>1
<1> DEFINE h == [i \in 1 .. m |-> IF i < m THEN g[i]
                                 ELSE IF m = 1 THEN s[m] ELSE g[m - 1] \o s[m]]
<1>7. h \in [1 .. m -> Seq(S)]
  <2>1. s[m] \in Seq(S)
    BY <1>1, <1>5
  <2>2. ASSUME m # 1  PROVE g[m - 1] \o s[m] \in Seq(S)
    <3>1. m - 1 \in 1 .. m - 1
      BY <1>5, <2>2
    <3>2. g[m - 1] \in Seq(S)
      BY <1>6, <3>1
    <3> QED  BY <2>1, <3>2
  <2>3. ASSUME NEW i \in 1 .. m, i < m  PROVE g[i] \in Seq(S)
    <3>1. i \in 1 .. m - 1
      BY <1>5, <2>3
    <3> QED  BY <1>6, <3>1
  <2> QED  BY <2>1, <2>2, <2>3
<1>8. Joins(h, s, m)
  <2> SUFFICES ASSUME NEW i \in 1 .. m
               PROVE  h[i] = IF i = 1 THEN s[i] ELSE h[i - 1] \o s[i]
    BY DEF Joins
  <2>1. CASE i < m
    <3>1. i \in 1 .. m - 1 /\ (i # 1 => i - 1 \in 1 .. m /\ i - 1 < m)
      BY <1>5, <2>1
    <3>2. g[i] = IF i = 1 THEN s[i] ELSE g[i - 1] \o s[i]
      BY <1>6, <3>1 DEF Joins
    <3> QED  BY <2>1, <3>1, <3>2
  <2>2. CASE i = m
    <3>1. m # 1 => m - 1 \in 1 .. m /\ m - 1 < m
      BY <1>5
    <3>2. h[i] = IF m = 1 THEN s[m] ELSE g[m - 1] \o s[m]
      BY <1>5, <2>2
    <3>3. m # 1 => h[m - 1] = g[m - 1]
      BY <3>1
    <3> QED  BY <2>2, <3>2, <3>3
  <2> QED  BY <1>5, <2>1, <2>2
<1> QED  BY <1>3, <1>7, <1>8

\* FlattenSeq() is the last of the joins.
LEMMA FlattenJoins ==
    ASSUME NEW S, NEW s \in Seq(Seq(S)), Len(s) # 0
    PROVE  \E f \in [1 .. Len(s) -> Seq(S)] : Joins(f, s, Len(s)) /\ FlattenSeq(s) = f[Len(s)]
<1> DEFINE Joint(f) == [i \in 1 .. Len(s) |-> IF i = 1 THEN s[i] ELSE f[i - 1] \o s[i]]
           c == CHOOSE f : f = Joint(f)
<1>1. Len(s) \in Nat /\ \A i \in 1 .. Len(s) : s[i] \in Seq(S)
  OBVIOUS
<1>2. c = Joint(c)
  <2>1. PICK f \in [1 .. Len(s) -> Seq(S)] : Joins(f, s, Len(s))
    BY JoinsExist
  <2>2. f = Joint(f)
    BY <2>1 DEF Joins
  <2> QED  BY <2>2
<1>3. FlattenSeq(s) = c[Len(s)]
  BY DEF FlattenSeq
<1> HIDE DEF c
<1>4. DOMAIN c = 1 .. Len(s)
  BY <1>2
<1>5. Joins(c, s, Len(s))
  BY <1>2 DEF Joins
<1>6. \A i \in 1 .. Len(s) : c[i] \in Seq(S)
  <2> DEFINE Others == {i \in 1 .. Len(s) : c[i] \notin Seq(S)}
  <2> SUFFICES ASSUME Others # {}  PROVE FALSE
    OBVIOUS
  <2>1. PICK m \in Others : \A n \in Others : m <= n
    <3>1. Others \subseteq Nat
      OBVIOUS
    <3> HIDE DEF Others
    <3> QED  BY <3>1, LeastNumber
  <2>2. m \in 1 .. Len(s) /\ c[m] \notin Seq(S)
    OBVIOUS
  <2>3. c[m] = IF m = 1 THEN s[m] ELSE c[m - 1] \o s[m]
    BY <1>5, <2>2 DEF Joins
  <2>4. m # 1 => m - 1 \in 1 .. Len(s)
    BY <1>1, <2>2
  <2>5. m # 1 => c[m - 1] \in Seq(S)
    <3>1. m - 1 \notin Others
      <4> HIDE DEF Others
      <4> QED  BY <1>1, <2>1, <2>2
    <3> QED  BY <2>4, <3>1
  <2>6. s[m] \in Seq(S)
    BY <1>1, <2>2
  <2> QED  BY <2>2, <2>3, <2>5, <2>6
<1>7. c \in [1 .. Len(s) -> Seq(S)]
  <2>1. c = [i \in 1 .. Len(s) |-> c[i]]
    BY <1>2
  <2> QED  BY <1>6, <2>1
<1> QED  BY <1>3, <1>5, <1>7

\* FlattenSeq() of sequences has their elements and no others.
LEMMA FlattenSeqProperties ==
    ASSUME NEW S, NEW s \in Seq(Seq(S))
    PROVE  /\ FlattenSeq(s) \in Seq(S)
           /\ \A e : e \in Range(FlattenSeq(s)) <=> \E i \in 1 .. Len(s) : e \in Range(s[i])
<1>1. Len(s) \in Nat /\ \A i \in 1 .. Len(s) : s[i] \in Seq(S)
  OBVIOUS
<1>2. CASE Len(s) = 0
  <2>1. s = <<>> /\ FlattenSeq(s) = <<>>
    BY <1>2 DEF FlattenSeq
  <2>2. \A e : e \notin Range(<<>>)
    BY DEF Range
  <2>3. FlattenSeq(s) \in Seq(S)
    BY <2>1, EmptySeq
  <2> QED  BY <1>2, <2>1, <2>2, <2>3
<1>3. CASE Len(s) # 0
  <2>1. PICK f \in [1 .. Len(s) -> Seq(S)] :
               Joins(f, s, Len(s)) /\ FlattenSeq(s) = f[Len(s)]
    BY <1>3, FlattenJoins
  <2>2. Len(s) \in 1 .. Len(s)
    BY <1>1, <1>3
  <2> DEFINE Whole(k) == \A e : e \in Range(f[k]) <=> \E i \in 1 .. k : e \in Range(s[i])
  <2>3. \A k \in 1 .. Len(s) : Whole(k)
    <3> DEFINE Others == {k \in 1 .. Len(s) : ~ Whole(k)}
    <3> SUFFICES ASSUME Others # {}  PROVE FALSE
      OBVIOUS
    <3>1. PICK m \in Others : \A n \in Others : m <= n
      <4>1. Others \subseteq Nat
        <5> HIDE DEF Whole
        <5> QED  OBVIOUS
      <4> HIDE DEF Others
      <4> QED  BY <4>1, LeastNumber
    <3>2. m \in 1 .. Len(s) /\ ~ Whole(m)
      OBVIOUS
    <3>3. f[m] = IF m = 1 THEN s[m] ELSE f[m - 1] \o s[m]
      BY <2>1, <3>2 DEF Joins
    <3>4. CASE m = 1
      <4>1. 1 .. m = {1}
        BY <3>4
      <4> QED  BY <3>2, <3>3, <3>4, <4>1
    <3>5. CASE m # 1
      <4>1. m - 1 \in 1 .. Len(s) /\ 1 .. m = 1 .. m - 1 \cup {m}
        BY <1>1, <3>2, <3>5
      <4>2. m - 1 \notin Others
        <5> HIDE DEF Others
        <5> QED  BY <1>1, <3>1, <3>2
      <4>3. Whole(m - 1)
        BY <4>1, <4>2
      <4>4. Range(f[m]) = Range(f[m - 1]) \cup Range(s[m])
        <5>1. f[m - 1] \in Seq(S) /\ s[m] \in Seq(S)
          BY <1>1, <3>2, <4>1
        <5> QED  BY <3>3, <3>5, <5>1, RangeConcatenation
      <4> QED  BY <3>2, <4>1, <4>3, <4>4
    <3> QED  BY <3>4, <3>5
  <2> QED  BY <2>1, <2>2, <2>3
<1> QED  BY <1>2, <1>3

\* SetToSeq() of a finite set has its elements and no others, each once.
LEMMA SetToSeqProperties ==
    ASSUME NEW S, IsFiniteSet(S)
    PROVE  /\ SetToSeq(S) \in Seq(S)
           /\ IsInjective(SetToSeq(S))
           /\ Range(SetToSeq(S)) = S
<1> DEFINE n == Cardinality(S)
           q == SetToSeq(S)
<1>1. n \in Nat /\ ExistsBijection(1 .. n, S)
  BY FS_CardinalityType
<1>2. PICK f \in [1 .. n -> S] : IsInjective(f)
  BY <1>1 DEF ExistsBijection, Bijection, Injection
<1>3. q \in [1 .. n -> S] /\ IsInjective(q)
  BY <1>2 DEF SetToSeq
<1> HIDE DEF q
<1>4. Range(q) \subseteq S
  BY <1>3 DEF Range
<1>5. q \in Bijection(1 .. n, Range(q))
  BY <1>3 DEF Bijection, Injection, Surjection, Range
<1>6. Cardinality(Range(q)) = n
  BY <1>1, <1>5, FS_CountingElements DEF ExistsBijection
<1>7. Range(q) = S
  BY <1>4, <1>6, FS_Subset
<1>8. q \in Seq(S)
  BY <1>1, <1>3
<1> QED  BY <1>3, <1>7, <1>8 DEF q

\* Two sequences with no element in common, each without repetition, have none together.
LEMMA ConcatInjective ==
    ASSUME NEW S, NEW s \in Seq(S), NEW t \in Seq(S), IsInjective(s), IsInjective(t),
           Range(s) \cap Range(t) = {}
    PROVE  IsInjective(s \o t)
<1>1. /\ Len(s) \in Nat /\ DOMAIN s = 1 .. Len(s) /\ Len(t) \in Nat /\ DOMAIN t = 1 .. Len(t)
      /\ DOMAIN (s \o t) = 1 .. Len(s) + Len(t)
  BY ConcatProperties
<1>2. \A i \in DOMAIN (s \o t) :
         \/ i \in DOMAIN s /\ (s \o t)[i] = s[i]
         \/ i - Len(s) \in DOMAIN t /\ (s \o t)[i] = t[i - Len(s)]
  BY <1>1, ConcatProperties
<1> DEFINE c == s \o t
<1> HIDE DEF c
<1>3. ASSUME NEW i \in DOMAIN c, NEW j \in DOMAIN c, c[i] = c[j]  PROVE i = j
  <2>1. i \in Int /\ j \in Int
    BY <1>1 DEF c
  <2>2. \/ i \in DOMAIN s /\ c[i] = s[i]
        \/ i - Len(s) \in DOMAIN t /\ c[i] = t[i - Len(s)]
    BY <1>2 DEF c
  <2>3. \/ j \in DOMAIN s /\ c[j] = s[j]
        \/ j - Len(s) \in DOMAIN t /\ c[j] = t[j - Len(s)]
    BY <1>2 DEF c
  <2>4. \A k \in DOMAIN s, l \in DOMAIN t : s[k] # t[l]
    BY DEF Range
  <2>5. \A k, l \in DOMAIN s : s[k] = s[l] => k = l
    BY DEF IsInjective
  <2>6. \A k, l \in DOMAIN t : t[k] = t[l] => k = l
    BY DEF IsInjective
  <2>7. ASSUME i - Len(s) = j - Len(s)  PROVE i = j
    BY <1>1, <2>1, <2>7
  <2> QED  BY <1>3, <2>2, <2>3, <2>4, <2>5, <2>6, <2>7
<1> QED  BY <1>3 DEF IsInjective, c

\* FlattenSeq() of sequences that have no element in common, each without
\* repetition, repeats nothing.
LEMMA FlattenInjective ==
    ASSUME NEW S, NEW s \in Seq(Seq(S)),
           \A i \in 1 .. Len(s) : IsInjective(s[i]),
           \A i, j \in 1 .. Len(s) : Range(s[i]) \cap Range(s[j]) # {} => i = j
    PROVE  IsInjective(FlattenSeq(s))
<1>1. Len(s) \in Nat /\ \A i \in 1 .. Len(s) : s[i] \in Seq(S)
  OBVIOUS
<1>2. CASE Len(s) = 0
  <2>1. s = <<>> /\ FlattenSeq(s) = <<>>
    BY <1>2 DEF FlattenSeq
  <2> QED  BY <2>1 DEF IsInjective
<1>3. CASE Len(s) # 0
  <2>1. PICK f \in [1 .. Len(s) -> Seq(S)] :
               Joins(f, s, Len(s)) /\ FlattenSeq(s) = f[Len(s)]
    BY <1>3, FlattenJoins
  <2>2. Len(s) \in 1 .. Len(s)
    BY <1>1, <1>3
  <2> DEFINE Good(k) == /\ IsInjective(f[k])
                        /\ \A e \in Range(f[k]) : \E i \in 1 .. k : e \in Range(s[i])
  <2>3. \A k \in 1 .. Len(s) : Good(k)
    <3> DEFINE Others == {k \in 1 .. Len(s) : ~ Good(k)}
    <3> SUFFICES ASSUME Others # {}  PROVE FALSE
      OBVIOUS
    <3>1. PICK m \in Others : \A n \in Others : m <= n
      <4>1. Others \subseteq Nat
        <5> HIDE DEF Good
        <5> QED  OBVIOUS
      <4> HIDE DEF Others
      <4> QED  BY <4>1, LeastNumber
    <3>2. m \in 1 .. Len(s) /\ ~ Good(m)
      OBVIOUS
    <3>3. f[m] = IF m = 1 THEN s[m] ELSE f[m - 1] \o s[m]
      BY <2>1, <3>2 DEF Joins
    <3>4. CASE m = 1
      <4>1. m \in 1 .. m
        BY <3>4
      <4> QED  BY <3>2, <3>3, <3>4, <4>1
    <3>5. CASE m # 1
      <4>1. m - 1 \in 1 .. Len(s) /\ 1 .. m = 1 .. m - 1 \cup {m} /\ m \notin 1 .. m - 1
        BY <1>1, <3>2, <3>5
      <4>2. m - 1 \notin Others
        <5> HIDE DEF Others
        <5> QED  BY <1>1, <3>1, <3>2
      <4>3. Good(m - 1)
        BY <4>1, <4>2
      <4>4. f[m - 1] \in Seq(S) /\ s[m] \in Seq(S)
        BY <1>1, <3>2, <4>1
      <4>5. Range(f[m]) = Range(f[m - 1]) \cup Range(s[m])
        BY <3>3, <3>5, <4>4, RangeConcatenation
      <4>6. Range(f[m - 1]) \cap Range(s[m]) = {}
        <5> SUFFICES ASSUME NEW e \in Range(f[m - 1]), e \in Range(s[m])  PROVE FALSE
          OBVIOUS
        <5>1. PICK i \in 1 .. m - 1 : e \in Range(s[i])
          BY <4>3
        <5>2. i \in 1 .. Len(s)
          BY <1>1, <3>2, <4>1, <5>1
        <5>3. Range(s[i]) \cap Range(s[m]) # {}
          BY <5>1
        <5>4. i = m
          BY <3>2, <5>2, <5>3
        <5> QED  BY <4>1, <5>4
      <4>7. IsInjective(f[m - 1]) /\ IsInjective(s[m])
        BY <3>2, <4>3
      <4>8. IsInjective(f[m])
        <5> DEFINE a == f[m - 1]
                   b == s[m]
        <5>1. a \in Seq(S) /\ b \in Seq(S) /\ IsInjective(a) /\ IsInjective(b) /\ Range(a) \cap Range(b) = {}
          BY <4>4, <4>6, <4>7
        <5>2. f[m] = a \o b
          BY <3>3, <3>5
        <5> HIDE DEF a, b
        <5> QED  BY <5>1, <5>2, ConcatInjective
      <4> QED  BY <3>2, <4>1, <4>3, <4>5, <4>8
    <3> QED  BY <3>4, <3>5
  <2> QED  BY <2>1, <2>2, <2>3
<1> QED  BY <1>2, <1>3

-----------------------------------------------------------------------------
(* Elements in order *)

\* before says of any two elements of S which one comes first.
Orders(before, S) ==
    /\ \A x \in S : <<x, x>> \notin before
    /\ \A x, y \in S : x # y => <<x, y>> \in before \/ <<y, x>> \in before
    /\ \A x, y, z \in S : <<x, y>> \in before /\ <<y, z>> \in before => <<x, z>> \in before

\* The elements of S that come before x.
Ahead(S, before, x) == {y \in S : <<y, x>> \in before}

\* Each element has its own number of elements ahead of it, and they are all the
\* numbers below the size of the set.
LEMMA RanksAreUnique ==
    ASSUME NEW S, IsFiniteSet(S), NEW before, Orders(before, S)
    PROVE  /\ \A x \in S : Cardinality(Ahead(S, before, x)) \in 0 .. Cardinality(S) - 1
           /\ \A x, y \in S : Cardinality(Ahead(S, before, x)) = Cardinality(Ahead(S, before, y)) => x = y
           /\ \A i \in 0 .. Cardinality(S) - 1 : \E x \in S : Cardinality(Ahead(S, before, x)) = i
<1> DEFINE n == Cardinality(S)
           N == 0 .. n - 1
           r == [x \in S |-> Cardinality(Ahead(S, before, x))]
<1>1. n \in Nat
  BY FS_CardinalityType
<1>2. ASSUME NEW x \in S  PROVE Cardinality(Ahead(S, before, x)) \in N
  <2> DEFINE A == Ahead(S, before, x)
             B == S \ {x}
  <2>1. IsFiniteSet(B) /\ Cardinality(B) = n - 1
    BY FS_RemoveElement
  <2>2. A \subseteq B
    BY DEF Ahead, Orders
  <2> HIDE DEF A, B
  <2>3. IsFiniteSet(A) /\ Cardinality(A) <= n - 1
    BY <2>1, <2>2, FS_Subset
  <2>4. Cardinality(A) \in Nat
    BY <2>3, FS_CardinalityType
  <2> QED  BY <1>1, <2>3, <2>4 DEF A
<1>3. ASSUME NEW x \in S, NEW y \in S, <<x, y>> \in before
      PROVE  Cardinality(Ahead(S, before, x)) # Cardinality(Ahead(S, before, y))
  <2> DEFINE A == Ahead(S, before, x)
             B == Ahead(S, before, y)
  <2>1. A \subseteq B /\ x \in B /\ x \notin A
    BY <1>3 DEF Ahead, Orders
  <2>2. B \subseteq S
    BY DEF Ahead
  <2> HIDE DEF A, B
  <2>3. IsFiniteSet(B)
    BY <2>2, FS_Subset
  <2>4. Cardinality(A) # Cardinality(B)
    BY <2>1, <2>3, FS_Subset
  <2> QED  BY <2>4 DEF A, B
<1>4. ASSUME NEW x \in S, NEW y \in S, Cardinality(Ahead(S, before, x)) = Cardinality(Ahead(S, before, y))
      PROVE  x = y
  BY <1>3, <1>4 DEF Orders
<1>5. r \in Injection(S, N)
  <2>1. r \in [S -> N]
    BY <1>2
  <2>2. IsInjective(r)
    BY <1>4 DEF IsInjective
  <2> HIDE DEF r, N
  <2> QED  BY <2>1, <2>2 DEF Injection
<1>6. IsFiniteSet(N) /\ Cardinality(N) = n
  BY <1>1, FS_Interval
<1>7. r \in Surjection(S, N)
  <2> HIDE DEF r, N
  <2> QED  BY <1>5, <1>6, FS_Injection
<1>8. ASSUME NEW i \in N  PROVE \E x \in S : Cardinality(Ahead(S, before, x)) = i
  <2>1. \E x \in S : r[x] = i
    <3> HIDE DEF r, N
    <3> QED  BY <1>7 DEF Surjection
  <2> QED  BY <2>1
<1> QED  BY <1>2, <1>4, <1>8

\* A set in order has its elements and no others, each once.
LEMMA InOrderProperties ==
    ASSUME NEW S, IsFiniteSet(S), NEW before, Orders(before, S)
    PROVE  /\ InOrder(S, before) \in Seq(S) /\ Len(InOrder(S, before)) = Cardinality(S)
           /\ IsInjective(InOrder(S, before))
           /\ Range(InOrder(S, before)) = S
           /\ \A i \in 1 .. Cardinality(S) : Cardinality(Ahead(S, before, InOrder(S, before)[i])) = i - 1
<1> DEFINE n == Cardinality(S)
           rank(x) == Cardinality(Ahead(S, before, x))
           f == InOrder(S, before)
<1>1. n \in Nat
  BY FS_CardinalityType
<1>2. \A i \in 1 .. n : i - 1 \in 0 .. n - 1
  BY <1>1
<1>3. \A i \in 1 .. n : \E x \in S : rank(x) = i - 1
  BY <1>2, RanksAreUnique
<1>4. f = [i \in 1 .. n |-> CHOOSE x \in S : rank(x) = i - 1]
  BY DEF InOrder, Ahead
<1> HIDE DEF f, rank
<1>5. \A i \in 1 .. n : f[i] \in S /\ rank(f[i]) = i - 1
  BY <1>3, <1>4
<1>6. f \in [1 .. n -> S]
  <2>1. f = [i \in 1 .. n |-> f[i]]
    BY <1>4
  <2> QED  BY <1>5, <2>1
<1>7. f \in Seq(S) /\ Len(f) = n
  BY <1>1, <1>6, FunctionIsSeq
<1>8. IsInjective(f)
  <2> SUFFICES ASSUME NEW i \in 1 .. n, NEW j \in 1 .. n, f[i] = f[j]  PROVE i = j
    BY <1>6 DEF IsInjective
  <2>1. i - 1 = j - 1
    BY <1>5
  <2> QED  BY <1>1, <2>1
<1>9. Range(f) = S
  <2>1. ASSUME NEW x \in S  PROVE x \in Range(f)
    <3>1. rank(x) \in 0 .. n - 1
      BY RanksAreUnique DEF rank
    <3>2. rank(x) + 1 \in 1 .. n /\ (rank(x) + 1) - 1 = rank(x)
      BY <1>1, <3>1
    <3>3. rank(f[rank(x) + 1]) = rank(x) /\ f[rank(x) + 1] \in S
      BY <1>5, <3>2
    <3>4. f[rank(x) + 1] = x
      BY <3>3, RanksAreUnique DEF rank
    <3> QED  BY <1>6, <3>2, <3>4 DEF Range
  <2>2. Range(f) \subseteq S
    BY <1>6 DEF Range
  <2> QED  BY <2>1, <2>2
<1> QED  BY <1>5, <1>7, <1>8, <1>9 DEF f, rank

\* Numbers in ascending order.
LEMMA AscendingProperties ==
    ASSUME NEW S, S \subseteq Int, IsFiniteSet(S)
    PROVE  /\ Ascending(S) \in Seq(S)
           /\ IsInjective(Ascending(S))
           /\ Range(Ascending(S)) = S
<1> DEFINE before == {pair \in S \X S : pair[1] < pair[2]}
<1>1. \A x, y : <<x, y>> \in before <=> x \in S /\ y \in S /\ x < y
  OBVIOUS
<1>2. Ascending(S) = InOrder(S, before)
  BY DEF Ascending
<1> HIDE DEF before
<1>3. Orders(before, S)
  BY <1>1 DEF Orders
<1> QED  BY <1>2, <1>3, InOrderProperties

\* The numbers up to n are in order.
LEMMA AscendingNumbers ==
    ASSUME NEW n \in Nat
    PROVE  Ascending(1 .. n) = [i \in 1 .. n |-> i]
<1> DEFINE S == 1 .. n
           before == {pair \in S \X S : pair[1] < pair[2]}
           f == Ascending(S)
<1>1. \A x, y : <<x, y>> \in before <=> x \in S /\ y \in S /\ x < y
  OBVIOUS
<1>2. f = InOrder(S, before)
  BY DEF Ascending
<1>3. IsFiniteSet(S) /\ Cardinality(S) = n
  BY FS_Interval
<1> HIDE DEF before
<1>4. Orders(before, S)
  BY <1>1 DEF Orders
<1>5. ASSUME NEW x \in S  PROVE Cardinality(Ahead(S, before, x)) = x - 1
  <2>1. Ahead(S, before, x) = 1 .. x - 1
    BY <1>1 DEF Ahead
  <2>2. Cardinality(1 .. x - 1) = x - 1
    BY FS_Interval
  <2> QED  BY <2>1, <2>2
<1> HIDE DEF f
<1>6. f \in Seq(S) /\ Len(f) = n /\ \A i \in 1 .. n : Cardinality(Ahead(S, before, f[i])) = i - 1
  BY <1>2, <1>3, <1>4, InOrderProperties
<1>7. \A i \in 1 .. n : f[i] = i
  <2> SUFFICES ASSUME NEW i \in 1 .. n  PROVE f[i] = i
    OBVIOUS
  <2>1. f[i] \in S
    BY <1>6
  <2>2. f[i] - 1 = i - 1
    BY <1>5, <1>6, <2>1
  <2> QED  BY <2>1, <2>2
<1>8. f = [i \in 1 .. n |-> f[i]]
  BY <1>6
<1> QED  BY <1>7, <1>8 DEF f

=============================================================================

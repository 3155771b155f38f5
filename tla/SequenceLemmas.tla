--------------------------- MODULE SequenceLemmas ---------------------------
(***************************************************************************)
(* What the operators on sequences that Gate and Controls are built from   *)
(* do to the elements of a sequence.  FlattenSeq is a recursive function:  *)
(* its value is found by induction, which SetInduction gives without an    *)
(* operator as a parameter.                                                *)
(***************************************************************************)
EXTENDS SequencesExt, FiniteSetTheorems, SequenceTheorems, TLAPS

\* Induction over the natural numbers, for a set in place of a predicate: a
\* smallest counterexample would make k |-> k - 1 an injection of a finite set
\* into itself that does not reach its greatest element.
LEMMA SetInduction ==
    ASSUME NEW S, 0 \in S, \A n \in Nat : n \in S => n + 1 \in S
    PROVE  Nat \subseteq S
<1> SUFFICES ASSUME NEW n \in Nat, n \notin S PROVE FALSE
  OBVIOUS
<1> DEFINE T == {k \in 0..n : k \notin S}
           f == [k \in T |-> k - 1]
<1>1. IsFiniteSet(T)
  <2>1. IsFiniteSet(0..n)
    BY FS_Interval
  <2> QED
    BY <2>1, FS_Subset
<1>2. \A k \in T : k - 1 \in T
  OBVIOUS
<1>3. f \in Injection(T, T)
  BY <1>2 DEF Injection, IsInjective
<1>4. f \in Surjection(T, T)
  BY <1>1, <1>3, FS_Injection
<1>5. n \in T
  OBVIOUS
<1>6. PICK k \in T : f[k] = n
  BY <1>4, <1>5 DEF Surjection
<1> QED
  BY <1>6

\* The elements of a concatenation are those of its parts.
LEMMA ElementsOfConcat ==
    ASSUME NEW S, NEW a \in Seq(S), NEW b \in Seq(S)
    PROVE  a \o b \in Seq(S) /\ ToSet(a \o b) = ToSet(a) \cup ToSet(b)
<1>1. /\ a \o b \in Seq(S) /\ Len(a \o b) = Len(a) + Len(b)
      /\ \A i \in 1..(Len(a) + Len(b)) :
            (a \o b)[i] = IF i <= Len(a) THEN a[i] ELSE b[i - Len(a)]
  BY ConcatProperties
<1>2. /\ Len(a) \in Nat /\ Len(b) \in Nat /\ DOMAIN a = 1..Len(a) /\ DOMAIN b = 1..Len(b)
      /\ DOMAIN (a \o b) = 1..(Len(a) + Len(b))
  BY <1>1, LenProperties
<1>3. ASSUME NEW i \in 1..Len(a) PROVE a[i] \in ToSet(a \o b)
  <2>1. i \in DOMAIN (a \o b) /\ (a \o b)[i] = a[i]
    BY <1>1, <1>2
  <2> QED
    BY <2>1 DEF ToSet
<1>4. ASSUME NEW i \in 1..Len(b) PROVE b[i] \in ToSet(a \o b)
  <2>1. i + Len(a) \in DOMAIN (a \o b) /\ (a \o b)[i + Len(a)] = b[i]
    BY <1>1, <1>2
  <2> QED
    BY <2>1 DEF ToSet
<1>5. ASSUME NEW i \in 1..(Len(a) + Len(b)) PROVE (a \o b)[i] \in ToSet(a) \cup ToSet(b)
  <2>1. CASE i <= Len(a)
    BY <1>1, <1>2, <2>1 DEF ToSet
  <2>2. CASE ~(i <= Len(a))
    <3>1. i - Len(a) \in 1..Len(b) /\ (a \o b)[i] = b[i - Len(a)]
      BY <1>1, <1>2, <2>2
    <3> QED
      BY <1>2, <3>1 DEF ToSet
  <2> QED
    BY <2>1, <2>2
<1> QED
  BY <1>1, <1>2, <1>3, <1>4, <1>5 DEF ToSet

\* g is the recursive function in the definition of FlattenSeq, up to m.
Joins(seqs, g, m) ==
    \A i \in 1..m : g[i] = IF i = 1 THEN seqs[i] ELSE g[i-1] \o seqs[i]

\* The joins of the first m sequences extend to one sequence more.
LEMMA JoinsExtend ==
    ASSUME NEW S, NEW seqs \in Seq(Seq(S)), NEW m \in Nat, m + 1 <= Len(seqs),
           NEW g \in [1..m -> Seq(S)], Joins(seqs, g, m)
    PROVE  \E h \in [1..(m+1) -> Seq(S)] : Joins(seqs, h, m + 1)
<1> DEFINE last == IF m = 0 THEN seqs[1] ELSE g[m] \o seqs[m+1]
           h == [i \in 1..(m+1) |-> IF i = m + 1 THEN last ELSE g[i]]
<1>1. seqs[m+1] \in Seq(S)
  BY LenProperties, ElementOfSeq
<1>2. last \in Seq(S)
  <2>1. CASE m = 0
    BY <1>1, <2>1
  <2>2. CASE m # 0
    <3>1. g[m] \in Seq(S)
      BY <2>2
    <3> QED
      BY <1>1, <2>2, <3>1, ConcatProperties
  <2> QED
    BY <2>1, <2>2
<1> HIDE DEF last
<1>3. h \in [1..(m+1) -> Seq(S)]
  BY <1>2
<1>4. ASSUME NEW i \in 1..(m+1) PROVE h[i] = IF i = 1 THEN seqs[i] ELSE h[i-1] \o seqs[i]
  <2>1. CASE i = m + 1
    <3>1. h[i] = last
      BY <2>1
    <3>2. CASE m = 0
      BY <2>1, <3>1, <3>2 DEF last
    <3>3. CASE m # 0
      <4>1. i # 1 /\ i - 1 = m /\ h[m] = g[m]
        BY <2>1, <3>3
      <4> QED
        BY <2>1, <3>1, <3>3, <4>1 DEF last
    <3> QED
      BY <3>2, <3>3
  <2>2. CASE i # m + 1
    <3>1. i \in 1..m /\ h[i] = g[i]
      BY <2>2
    <3>2. i # 1 => h[i-1] = g[i-1]
      BY <2>2
    <3> QED
      BY <3>1, <3>2 DEF Joins
  <2> QED
    BY <2>1, <2>2
<1> QED
  BY <1>3, <1>4 DEF Joins

\* The recursive function of FlattenSeq exists.
LEMMA JoinsExist ==
    ASSUME NEW S, NEW seqs \in Seq(Seq(S))
    PROVE  \E g \in [1..Len(seqs) -> Seq(S)] : Joins(seqs, g, Len(seqs))
<1> DEFINE Good == {m \in Nat : m <= Len(seqs) => \E g \in [1..m -> Seq(S)] : Joins(seqs, g, m)}
<1>1. 0 \in Good
  <2>1. [i \in 1..0 |-> <<>>] \in [1..0 -> Seq(S)]
    OBVIOUS
  <2>2. Joins(seqs, [i \in 1..0 |-> <<>>], 0)
    BY DEF Joins
  <2> QED
    BY <2>1, <2>2
<1>2. ASSUME NEW m \in Nat, m \in Good PROVE m + 1 \in Good
  <2> SUFFICES ASSUME m + 1 <= Len(seqs)
               PROVE  \E h \in [1..(m+1) -> Seq(S)] : Joins(seqs, h, m + 1)
    OBVIOUS
  <2>1. PICK g \in [1..m -> Seq(S)] : Joins(seqs, g, m)
    <3>1. Len(seqs) \in Nat
      BY LenProperties
    <3> QED
      BY <1>2, <3>1
  <2> QED
    BY <2>1, JoinsExtend
<1>3. Len(seqs) \in Good
  <2> HIDE DEF Good
  <2> QED
    BY <1>1, <1>2, SetInduction, LenProperties
<1> QED
  BY <1>3, LenProperties

\* The elements of the first n sequences.
ElementsTo(seqs, n) == UNION {ToSet(seqs[i]) : i \in 1..n}

\* Its value at n holds the elements of the first n sequences.
LEMMA JoinedElements ==
    ASSUME NEW S, NEW seqs \in Seq(Seq(S)), NEW g, Joins(seqs, g, Len(seqs)),
           NEW n \in 1..Len(seqs)
    PROVE  g[n] \in Seq(S) /\ ToSet(g[n]) = ElementsTo(seqs, n)
<1> DEFINE Right == {m \in Nat : m \in 1..Len(seqs) =>
               g[m] \in Seq(S) /\ ToSet(g[m]) = ElementsTo(seqs, m)}
<1>1. 0 \in Right
  OBVIOUS
<1>2. ASSUME NEW m \in Nat, m \in Right PROVE m + 1 \in Right
  <2> SUFFICES ASSUME m + 1 \in 1..Len(seqs)
               PROVE  /\ g[m+1] \in Seq(S)
                      /\ ToSet(g[m+1]) = ElementsTo(seqs, m + 1)
    OBVIOUS
  <2>1. seqs[m+1] \in Seq(S) /\ Len(seqs) \in Nat
    BY LenProperties, ElementOfSeq
  <2>2. CASE m = 0
    <3>1. g[1] = seqs[1]
      BY <2>1, <2>2 DEF Joins
    <3>2. 1..1 = {1}
      OBVIOUS
    <3>3. UNION {ToSet(seqs[i]) : i \in {1}} = ToSet(seqs[1])
      OBVIOUS
    <3> QED
      BY <2>1, <2>2, <3>1, <3>2, <3>3 DEF ElementsTo
  <2>3. CASE m # 0
    <3>1. m + 1 # 1 /\ (m + 1) - 1 = m /\ m \in 1..Len(seqs)
      BY <2>1, <2>3
    <3>2. g[m+1] = g[m] \o seqs[m+1]
      BY <3>1 DEF Joins
    <3>3. g[m] \in Seq(S) /\ ToSet(g[m]) = ElementsTo(seqs, m)
      BY <1>2, <3>1
    <3>4. g[m+1] \in Seq(S) /\ ToSet(g[m+1]) = ToSet(g[m]) \cup ToSet(seqs[m+1])
      BY <2>1, <3>2, <3>3, ElementsOfConcat
    <3>5. 1..(m+1) = (1..m) \cup {m+1}
      OBVIOUS
    <3>6. UNION {ToSet(seqs[i]) : i \in (1..m) \cup {m+1}}
            = (UNION {ToSet(seqs[i]) : i \in 1..m}) \cup ToSet(seqs[m+1])
      OBVIOUS
    <3> QED
      BY <3>3, <3>4, <3>5, <3>6 DEF ElementsTo
  <2> QED
    BY <2>2, <2>3
<1>3. n \in Right
  <2>1. n \in Nat
    BY LenProperties
  <2> HIDE DEF Right
  <2> QED
    BY <1>1, <1>2, <2>1, SetInduction
<1> QED
  BY <1>3, LenProperties

\* FlattenSeq gives a sequence of the elements of its sequences.
LEMMA FlattenProperties ==
    ASSUME NEW S, NEW seqs \in Seq(Seq(S))
    PROVE  /\ FlattenSeq(seqs) \in Seq(S)
           /\ \A x : x \in ToSet(FlattenSeq(seqs)) <=> \E i \in DOMAIN seqs : x \in ToSet(seqs[i])
<1>1. CASE Len(seqs) = 0
  <2>1. seqs = <<>> /\ FlattenSeq(seqs) = <<>>
    BY <1>1, EmptySeq DEF FlattenSeq
  <2>2. DOMAIN seqs = {} /\ ToSet(<<>>) = {}
    BY <2>1 DEF ToSet
  <2>3. <<>> \in Seq(S)
    OBVIOUS
  <2> QED
    BY <2>1, <2>2, <2>3
<1>2. CASE Len(seqs) # 0
  <2> DEFINE n == Len(seqs)
             Body(g) == [i \in 1..n |-> IF i = 1 THEN seqs[i] ELSE g[i-1] \o seqs[i]]
             flatten == CHOOSE g : g = Body(g)
  <2>1. PICK g \in [1..n -> Seq(S)] : Joins(seqs, g, n)
    BY JoinsExist
  <2>2. g = Body(g)
    BY <2>1 DEF Joins
  <2>3. flatten = Body(flatten)
    BY <2>2
  <2>4. FlattenSeq(seqs) = flatten[n]
    BY <1>2 DEF FlattenSeq
  <2> HIDE DEF flatten
  <2>5. Joins(seqs, flatten, n)
    BY <2>3 DEF Joins
  <2>6. DOMAIN seqs = 1..n /\ n \in 1..n
    BY <1>2, LenProperties
  <2>7. flatten[n] \in Seq(S) /\ ToSet(flatten[n]) = ElementsTo(seqs, n)
    BY <2>5, <2>6, JoinedElements
  <2> QED
    BY <2>4, <2>6, <2>7 DEF ElementsTo
<1> QED
  BY <1>1, <1>2

\* A nonempty set of positions has a last one.
LEMMA GreatestExists ==
    ASSUME NEW n \in Nat, NEW T \in SUBSET (1..n), T # {}
    PROVE  \E i \in T : \A j \in T : j <= i
<1> DEFINE Good == {m \in Nat : \A U \in SUBSET (1..m) :
                       U # {} => \E i \in U : \A j \in U : j <= i}
<1>1. 0 \in Good
  <2>1. 1..0 = {}
    OBVIOUS
  <2> QED
    BY <2>1
<1>2. ASSUME NEW m \in Nat, m \in Good PROVE m + 1 \in Good
  <2> SUFFICES ASSUME NEW U \in SUBSET (1..(m+1)), U # {}
               PROVE  \E i \in U : \A j \in U : j <= i
    OBVIOUS
  <2>1. CASE m + 1 \in U
    BY <2>1
  <2>2. CASE m + 1 \notin U
    <3>1. U \in SUBSET (1..m)
      BY <2>2
    <3> QED
      BY <1>2, <3>1
  <2> QED
    BY <2>1, <2>2
<1>3. n \in Good
  <2> HIDE DEF Good
  <2> QED
    BY <1>1, <1>2, SetInduction
<1> QED
  BY <1>3

\* So is there a least one.
LEMMA LeastExists ==
    ASSUME NEW n \in Nat, NEW T \in SUBSET (1..n), T # {}
    PROVE  \E i \in T : \A j \in T : i <= j
<1> DEFINE R == {m \in 1..n : (n + 1) - m \in T}
<1>1. PICK k \in T : TRUE
  OBVIOUS
<1>2. (n + 1) - k \in R
  <2>1. (n + 1) - k \in 1..n /\ (n + 1) - ((n + 1) - k) = k
    OBVIOUS
  <2> QED
    BY <2>1
<1>3. R \in SUBSET (1..n) /\ R # {}
  BY <1>2
<1>4. PICK m \in R : \A j \in R : j <= m
  <2> HIDE DEF R
  <2> QED
    BY <1>3, GreatestExists
<1>5. ASSUME NEW j \in T PROVE (n + 1) - m <= j
  <2>1. (n + 1) - j \in 1..n /\ (n + 1) - ((n + 1) - j) = j
    OBVIOUS
  <2>2. (n + 1) - j \in R
    BY <2>1
  <2>3. (n + 1) - j <= m
    BY <1>4, <2>2
  <2> QED
    BY <2>1, <2>3
<1> QED
  BY <1>4, <1>5

\* SetToSeq gives a sequence of the elements of a finite set.
LEMMA SetToSeqElements ==
    ASSUME NEW T, IsFiniteSet(T)
    PROVE  SetToSeq(T) \in Seq(T) /\ ToSet(SetToSeq(T)) = T
<1> DEFINE n == Cardinality(T)
           s == SetToSeq(T)
<1>1. n \in Nat /\ ExistsBijection(1..n, T)
  BY FS_CardinalityType
<1>2. \E f \in [1..n -> T] : IsInjective(f)
  BY <1>1 DEF ExistsBijection, Bijection, Injection
<1>3. s \in Injection(1..n, T)
  BY <1>2 DEF SetToSeq, Injection
<1>4. Cardinality(1..n) = n
  BY <1>1, FS_Interval
<1> HIDE DEF s
<1>5. s \in Surjection(1..n, T)
  BY <1>3, <1>4, FS_Injection
<1>6. s \in Seq(T) /\ DOMAIN s = 1..n
  BY <1>1, <1>5, IsASeq DEF Surjection
<1>7. ToSet(s) = T
  BY <1>5, <1>6 DEF Surjection, ToSet
<1> QED
  BY <1>6, <1>7 DEF s

\* Append adds one element.
LEMMA AppendElements ==
    ASSUME NEW S, NEW s \in Seq(S), NEW x \in S
    PROVE  Append(s, x) \in Seq(S) /\ ToSet(Append(s, x)) = ToSet(s) \cup {x}
<1>1. /\ Append(s, x) \in Seq(S) /\ Len(Append(s, x)) = Len(s) + 1
      /\ \A i \in 1..Len(s) : Append(s, x)[i] = s[i]
      /\ Append(s, x)[Len(s) + 1] = x
  BY AppendProperties
<1>2. Len(s) \in Nat /\ DOMAIN s = 1..Len(s) /\ DOMAIN Append(s, x) = 1..(Len(s) + 1)
  BY <1>1, LenProperties
<1>3. ASSUME NEW y \in ToSet(s) \cup {x} PROVE y \in ToSet(Append(s, x))
  BY <1>1, <1>2 DEF ToSet
<1>4. ASSUME NEW y \in ToSet(Append(s, x)) PROVE y \in ToSet(s) \cup {x}
  <2>1. PICK i \in 1..(Len(s) + 1) : y = Append(s, x)[i]
    BY <1>2 DEF ToSet
  <2>2. CASE i = Len(s) + 1
    BY <1>1, <2>1, <2>2
  <2>3. CASE i # Len(s) + 1
    BY <1>1, <1>2, <2>1, <2>3 DEF ToSet
  <2> QED
    BY <2>2, <2>3
<1> QED
  BY <1>1, <1>3, <1>4

\* The elements of a sequence are its head and those of its tail.
LEMMA HeadAndTail ==
    ASSUME NEW S, NEW s \in Seq(S), s # <<>>
    PROVE  /\ Head(s) \in S /\ Tail(s) \in Seq(S)
           /\ ToSet(s) = {Head(s)} \cup ToSet(Tail(s))
<1>1. /\ Head(s) \in S /\ Head(s) = s[1] /\ Tail(s) \in Seq(S)
      /\ Len(Tail(s)) = Len(s) - 1
      /\ \A i \in 1..Len(Tail(s)) : Tail(s)[i] = s[i+1]
  BY HeadTailProperties, ElementOfSeq, LenProperties
<1>2. /\ Len(s) \in Nat \ {0} /\ DOMAIN s = 1..Len(s)
      /\ DOMAIN Tail(s) = 1..(Len(s) - 1)
  BY <1>1, LenProperties, EmptySeq
<1>3. ASSUME NEW y \in ToSet(s) PROVE y \in {Head(s)} \cup ToSet(Tail(s))
  <2>1. PICK i \in 1..Len(s) : y = s[i]
    BY <1>2 DEF ToSet
  <2>2. CASE i = 1
    BY <1>1, <2>1, <2>2
  <2>3. CASE i # 1
    <3>1. i - 1 \in DOMAIN Tail(s) /\ y = Tail(s)[i - 1]
      BY <1>1, <1>2, <2>1, <2>3
    <3> QED
      BY <3>1 DEF ToSet
  <2> QED
    BY <2>2, <2>3
<1>4. ASSUME NEW y \in ToSet(Tail(s)) PROVE y \in ToSet(s)
  <2>1. PICK i \in 1..(Len(s) - 1) : y = Tail(s)[i]
    BY <1>2 DEF ToSet
  <2>2. i + 1 \in DOMAIN s /\ y = s[i + 1]
    BY <1>1, <1>2, <2>1
  <2> QED
    BY <2>2 DEF ToSet
<1>5. Head(s) \in ToSet(s)
  BY <1>1, <1>2 DEF ToSet
<1> QED
  BY <1>1, <1>3, <1>4, <1>5
=============================================================================

--------------------------- MODULE TestRunProofs ----------------------------
(*****************************************************************************)
(* What holds of every run of a test program: whatever tests, environments  *)
(* and command lines there are, and whatever user code does in however many *)
(* of its calls; and, for that, what the folds of TestRun compute, for every*)
(* registration and every draw of the generator.  The induction over a fold is*)
(* over the number of elements that were folded so far, in the form of a set*)
(* of numbers that holds 0 and each successor.                              *)
(*****************************************************************************)
EXTENDS TestRun, SequenceTheorems, FiniteSetTheorems, WellFoundedInduction, TLAPS

(***************************************************************************)
(* Folds in general.                                                        *)
(***************************************************************************)
\* Induction up to n, for a set.
LEMMA Induction ==
  ASSUME NEW n \in Nat, NEW S, 0 \in S, \A k \in 0 .. n - 1 : k \in S => k + 1 \in S
  PROVE  \A k \in 0 .. n : k \in S
<1> DEFINE T == {k \in 0 .. n : k \notin S}
<1>1. SUFFICES ASSUME T # {} PROVE FALSE
  OBVIOUS
<1>2. T \subseteq Nat
  OBVIOUS
<1>3. IsWellFoundedOn(OpToRel(<, Nat), Nat)
  BY NatLessThanWellFounded
<1>4. PICK t \in T : \A y \in T : ~(<<y, t>> \in OpToRel(<, Nat))
  BY <1>1, <1>2, <1>3, WFMin
<1>5. \A y \in T : ~(y < t)
  BY <1>2, <1>4 DEF OpToRel
<1>6. t \in Nat /\ t # 0 /\ t <= n /\ t \notin S
  <2>1. t \in 0 .. n /\ t \notin S
    BY <1>4
  <2>2. QED
    BY <2>1
<1>7. t - 1 \in 0 .. n - 1 /\ t - 1 \in 0 .. n /\ t - 1 < t
  BY <1>6
<1>8. t - 1 \in S
  BY <1>5, <1>7
<1>9. t - 1 + 1 \in S
  BY <1>7, <1>8
<1>10. QED
  BY <1>6, <1>9

\* The last of the first k numbers.
LEMMA LastOfFirst ==
  ASSUME NEW k \in Nat, NEW s \in SUBSET (1 .. k + 1), k + 1 \in s
  PROVE  Max(s) = k + 1 /\ s \ {k + 1} \in SUBSET (1 .. k)
<1>1. \A x \in s : x <= k + 1 /\ x \in Nat
  OBVIOUS
<1>2. \E x \in s : \A y \in s : x >= y
  BY <1>1
<1>3. Max(s) \in s /\ \A y \in s : Max(s) >= y
  BY <1>2 DEF Max
<1>4. Max(s) = k + 1
  <2>1. Max(s) <= k + 1 /\ Max(s) \in Nat /\ Max(s) >= k + 1
    BY <1>1, <1>3
  <2>2. QED
    BY <2>1
<1>5. QED
  BY <1>4

\* A step of a fold is a function F of the position and of what the positions
\* before it have given, in A: the recursion of FoldLeft has a solution.
Folds(g, n, base, F) ==
  \A s \in SUBSET (1 .. n) : g[s] = IF s = {} THEN base ELSE F[<<Max(s), g[s \ {Max(s)}]>>]

LEMMA FoldExists ==
  ASSUME NEW n \in Nat, NEW A, NEW base \in A, NEW F \in [(1 .. n) \X A -> A]
  PROVE  \E g \in [SUBSET (1 .. n) -> A] : Folds(g, n, base, F)
<1> DEFINE S == {k \in 0 .. n : \E g \in [SUBSET (1 .. k) -> A] : Folds(g, k, base, F)}
<1>1. 0 \in S
  <2> DEFINE g == [s \in SUBSET (1 .. 0) |-> base]
  <2>1. g \in [SUBSET (1 .. 0) -> A]
    OBVIOUS
  <2>2. Folds(g, 0, base, F)
    BY DEF Folds
  <2>3. QED
    BY <2>1, <2>2
<1>2. ASSUME NEW k \in 0 .. n - 1, k \in S PROVE k + 1 \in S
  <2>1. PICK g \in [SUBSET (1 .. k) -> A] : Folds(g, k, base, F)
    BY <1>2
  <2> DEFINE h == [s \in SUBSET (1 .. k + 1) |->
                     IF k + 1 \in s THEN F[<<k + 1, g[s \ {k + 1}]>>] ELSE g[s]]
  <2>2. k \in Nat /\ k + 1 \in 1 .. n /\ k + 1 \in 0 .. n
    OBVIOUS
  <2>3. \A s \in SUBSET (1 .. k + 1) : IF k + 1 \in s THEN s \ {k + 1} \in SUBSET (1 .. k)
                                      ELSE s \in SUBSET (1 .. k)
    BY <2>2
  <2>4. h \in [SUBSET (1 .. k + 1) -> A]
    BY <2>2, <2>3
  <2>5. ASSUME NEW s \in SUBSET (1 .. k + 1)
        PROVE  h[s] = IF s = {} THEN base ELSE F[<<Max(s), h[s \ {Max(s)}]>>]
    <3>1. CASE k + 1 \in s
      <4>1. Max(s) = k + 1 /\ s \ {k + 1} \in SUBSET (1 .. k)
        BY <2>2, <3>1, LastOfFirst
      <4>2. s \ {k + 1} \in SUBSET (1 .. k + 1) /\ k + 1 \notin s \ {k + 1}
        OBVIOUS
      <4>3. h[s \ {k + 1}] = g[s \ {k + 1}]
        BY <4>2
      <4>4. h[s] = F[<<k + 1, g[s \ {k + 1}]>>]
        BY <3>1
      <4> HIDE DEF h
      <4>5. QED
        BY <3>1, <4>1, <4>3, <4>4
    <3>2. CASE k + 1 \notin s
      <4>1. s \in SUBSET (1 .. k)
        BY <2>3, <3>2
      <4>2. g[s] = IF s = {} THEN base ELSE F[<<Max(s), g[s \ {Max(s)}]>>]
        BY <2>1, <4>1 DEF Folds
      <4>3. s \ {Max(s)} \in SUBSET (1 .. k + 1) /\ k + 1 \notin s \ {Max(s)}
        BY <3>2
      <4>4. h[s \ {Max(s)}] = g[s \ {Max(s)}] /\ h[s] = g[s]
        BY <3>2, <4>3
      <4> HIDE DEF h
      <4>5. QED
        BY <4>2, <4>4
    <3>3. QED
      BY <3>1, <3>2
  <2> HIDE DEF h
  <2>6. Folds(h, k + 1, base, F)
    BY <2>5 DEF Folds
  <2>7. QED
    BY <2>2, <2>4, <2>6
<1>3. \A k \in 0 .. n : k \in S
  <2> HIDE DEF S
  <2>1. QED
    BY <1>1, <1>2, Induction
<1>4. n \in S
  <2> HIDE DEF S
  <2>1. n \in 0 .. n
    OBVIOUS
  <2>2. QED
    BY <1>3, <2>1
<1>5. QED
  BY <1>4

\* The first k numbers, and the last of them.
LEMMA PrefixStep ==
  ASSUME NEW k \in Nat
  PROVE  /\ 1 .. k + 1 # {} /\ Max(1 .. k + 1) = k + 1
         /\ (1 .. k + 1) \ {Max(1 .. k + 1)} = 1 .. k
<1>1. k + 1 \in 1 .. k + 1
  OBVIOUS
<1>2. Max(1 .. k + 1) = k + 1
  BY <1>1, LastOfFirst
<1>3. (1 .. k + 1) \ {k + 1} = 1 .. k
  OBVIOUS
<1>4. QED
  BY <1>1, <1>2, <1>3

\* Some of the first n numbers have a largest.
LEMMA MaxExists ==
  ASSUME NEW n \in Nat
  PROVE  \A s \in SUBSET (1 .. n) : s # {} => Max(s) \in s /\ s \ {Max(s)} \in SUBSET (1 .. n)
<1> DEFINE S == {k \in 0 .. n : \A s \in SUBSET (1 .. k) : s # {} => Max(s) \in s}
<1>1. 0 \in S
  <2>1. 0 \in 0 .. n /\ 1 .. 0 = {}
    OBVIOUS
  <2>2. QED
    BY <2>1
<1>2. ASSUME NEW k \in 0 .. n - 1, k \in S PROVE k + 1 \in S
  <2>1. k \in Nat /\ k + 1 \in 0 .. n
    OBVIOUS
  <2>2. SUFFICES ASSUME NEW s \in SUBSET (1 .. k + 1), s # {} PROVE Max(s) \in s
    BY <2>1
  <2>3. CASE k + 1 \in s
    BY <2>1, <2>3, LastOfFirst
  <2>4. CASE k + 1 \notin s
    <3>1. s \in SUBSET (1 .. k)
      BY <2>1, <2>4
    <3>2. QED
      BY <1>2, <2>2, <3>1
  <2>5. QED
    BY <2>3, <2>4
<1>3. n \in S
  <2> HIDE DEF S
  <2>1. \A k \in 0 .. n : k \in S
    BY <1>1, <1>2, Induction
  <2>2. n \in 0 .. n
    OBVIOUS
  <2>3. QED
    BY <2>1, <2>2
<1>4. QED
  BY <1>3

(***************************************************************************)
(* The suites.                                                              *)
(***************************************************************************)
Names == {info[1] : info \in ToSet(Registered)}
InfoAt(k) == Registered[k]

\* Registered is a sequence, of tests that have different names.
LEMMA RegisteredFacts ==
  /\ Len(Registered) \in Nat /\ DOMAIN Registered = 1 .. Len(Registered)
  /\ \A k \in 1 .. Len(Registered) : InfoAt(k)[1] \in Names /\ InfoAt(k)[2] \in Tests
  /\ \A t \in Tests : \E k \in 1 .. Len(Registered) : InfoAt(k)[2] = t
  /\ \A s \in Names : \E k \in 1 .. Len(Registered) : InfoAt(k)[1] = s
  /\ \A k \in 1 .. Len(Registered) : Info(InfoAt(k)[2]) = InfoAt(k)
<1>1. Registered \in Seq(ToSet(Registered))
  BY RegisteredAssumption
<1>2. Len(Registered) \in Nat /\ DOMAIN Registered = 1 .. Len(Registered)
  BY <1>1, LenProperties
<1>3. \A info \in ToSet(Registered) : \E k \in 1 .. Len(Registered) : info = InfoAt(k)
  BY <1>2 DEF ToSet, InfoAt
<1>4. \A k \in 1 .. Len(Registered) : InfoAt(k) \in ToSet(Registered)
  BY <1>2 DEF ToSet, InfoAt
<1>5. \A k \in 1 .. Len(Registered) : InfoAt(k)[1] \in Names /\ InfoAt(k)[2] \in Tests
  BY <1>4 DEF Names, Tests
<1>6. \A t \in Tests : \E k \in 1 .. Len(Registered) : InfoAt(k)[2] = t
  BY <1>3 DEF Tests
<1>7. \A s \in Names : \E k \in 1 .. Len(Registered) : InfoAt(k)[1] = s
  BY <1>3 DEF Names
<1>8. ASSUME NEW k \in 1 .. Len(Registered) PROVE Info(InfoAt(k)[2]) = InfoAt(k)
  <2> DEFINE i == Info(InfoAt(k)[2])
  <2>1. InfoAt(k) \in ToSet(Registered)
    BY <1>4
  <2>2. i \in ToSet(Registered) /\ i[2] = InfoAt(k)[2]
    BY <2>1 DEF Info
  <2> HIDE DEF i
  <2>3. PICK j \in 1 .. Len(Registered) : i = InfoAt(j)
    BY <1>3, <2>2
  <2>4. j = k
    BY <1>2, <2>2, <2>3, RegisteredAssumption DEF InfoAt
  <2>5. QED
    BY <2>3, <2>4 DEF i
<1>9. QED
  BY <1>2, <1>5, <1>6, <1>7, <1>8

\* A sequence has at most as many different elements as it is long.
LEMMA FewElements ==
  ASSUME NEW S, NEW v \in Seq(S), NEW D
  PROVE  Cardinality(D \cap ToSet(v)) \in 0 .. Len(v) /\ IsFiniteSet(ToSet(v))
<1>1. Len(v) \in Nat /\ DOMAIN v = 1 .. Len(v) /\ v \in [1 .. Len(v) -> S]
  BY LenProperties
<1>2. v \in Surjection(1 .. Len(v), ToSet(v))
  BY <1>1 DEF Surjection, ToSet
<1>3. IsFiniteSet(1 .. Len(v)) /\ Cardinality(1 .. Len(v)) = Len(v)
  BY <1>1, FS_Interval
<1>4. IsFiniteSet(ToSet(v)) /\ Cardinality(ToSet(v)) <= Len(v)
  BY <1>2, <1>3, FS_Surjection
<1>5. D \cap ToSet(v) \in SUBSET ToSet(v)
  OBVIOUS
<1>6. IsFiniteSet(D \cap ToSet(v)) /\ Cardinality(D \cap ToSet(v)) <= Cardinality(ToSet(v))
  BY <1>4, <1>5, FS_Subset
<1>7. Cardinality(D \cap ToSet(v)) \in Nat /\ Cardinality(ToSet(v)) \in Nat
  BY <1>4, <1>6, FS_CardinalityType
<1>8. QED
  BY <1>1, <1>4, <1>6, <1>7

\* An element that is appended or inserted is one element more.
LEMMA AppendElements ==
  ASSUME NEW S, NEW v \in Seq(S), NEW e \in S
  PROVE  Append(v, e) \in Seq(S) /\ ToSet(Append(v, e)) = ToSet(v) \cup {e}
<1> DEFINE w == Append(v, e)
<1>1. w \in Seq(S) /\ Len(w) = Len(v) + 1 /\ w[Len(v) + 1] = e
      /\ \A i \in 1 .. Len(v) : w[i] = v[i]
  BY AppendProperties
<1>2. Len(v) \in Nat /\ DOMAIN v = 1 .. Len(v) /\ DOMAIN w = 1 .. Len(v) + 1
  BY <1>1, LenProperties
<1> HIDE DEF w
<1>3. \A i \in DOMAIN w : i \in DOMAIN v \/ i = Len(v) + 1
  BY <1>2
<1>4. \A i \in DOMAIN v : i \in DOMAIN w
  BY <1>2
<1>5. Len(v) + 1 \in DOMAIN w
  BY <1>2
<1>6. ToSet(w) = ToSet(v) \cup {e}
  BY <1>1, <1>2, <1>3, <1>4, <1>5 DEF ToSet
<1>7. QED
  BY <1>1, <1>6 DEF w

LEMMA InsertElements ==
  ASSUME NEW S, NEW v \in Seq(S), NEW e \in S, NEW i \in 1 .. Len(v) + 1
  PROVE  /\ InsertAt(v, i, e) \in Seq(S) /\ ToSet(InsertAt(v, i, e)) = ToSet(v) \cup {e}
         /\ Len(InsertAt(v, i, e)) = Len(v) + 1
         /\ \A k \in 1 .. i - 1 : InsertAt(v, i, e)[k] = v[k]
         /\ InsertAt(v, i, e)[i] = e
         /\ \A k \in i + 1 .. Len(v) + 1 : InsertAt(v, i, e)[k] = v[k - 1]
<1> DEFINE a == SubSeq(v, 1, i - 1)
           b == SubSeq(v, i, Len(v))
           w == a \o <<e>> \o b
<1>1. Len(v) \in Nat /\ DOMAIN v = 1 .. Len(v) /\ \A k \in 1 .. Len(v) : v[k] \in S
  BY LenProperties, ElementOfSeq
<1>2. a \in Seq(S) /\ Len(a) = i - 1 /\ \A k \in 1 .. i - 1 : a[k] = v[k]
  <2>1. \A k \in 1 .. i - 1 : v[k] \in S
    BY <1>1
  <2>2. QED
    BY <1>1, <2>1, SubSeqProperties
<1>3. b \in Seq(S) /\ Len(b) = Len(v) - i + 1 /\ \A k \in 1 .. Len(v) - i + 1 : b[k] = v[i + k - 1]
  <2>1. \A k \in i .. Len(v) : v[k] \in S
    BY <1>1
  <2>2. QED
    BY <1>1, <2>1, SubSeqProperties
<1> HIDE DEF a, b
<1>4. <<e>> \in Seq(S) /\ Len(<<e>>) = 1 /\ <<e>>[1] = e
  OBVIOUS
<1>5. /\ a \o <<e>> \in Seq(S) /\ Len(a \o <<e>>) = i
      /\ \A k \in 1 .. i : (a \o <<e>>)[k] = IF k <= i - 1 THEN a[k] ELSE e
  BY <1>1, <1>2, <1>4, ConcatProperties
<1>6. /\ w \in Seq(S) /\ Len(w) = Len(v) + 1
      /\ \A k \in 1 .. Len(v) + 1 : w[k] = IF k <= i THEN (a \o <<e>>)[k] ELSE b[k - i]
  <2> DEFINE c == a \o <<e>>
  <2> HIDE DEF c
  <2>1. c \in Seq(S) /\ Len(c) = i /\ w = c \o b
    BY <1>5 DEF c
  <2>2. /\ c \o b \in Seq(S) /\ Len(c \o b) = Len(c) + Len(b)
        /\ \A k \in 1 .. Len(c) + Len(b) : (c \o b)[k] = IF k <= Len(c) THEN c[k] ELSE b[k - Len(c)]
    BY <1>3, <2>1, ConcatProperties
  <2>3. Len(c) + Len(b) = Len(v) + 1
    BY <1>1, <1>3, <2>1
  <2> HIDE DEF w
  <2>4. QED
    BY <2>1, <2>2, <2>3 DEF c
<1> HIDE DEF w
<1>7. /\ \A k \in 1 .. i - 1 : w[k] = v[k]
      /\ w[i] = e
      /\ \A k \in i + 1 .. Len(v) + 1 : w[k] = v[k - 1]
  <2>1. ASSUME NEW k \in 1 .. i - 1 PROVE w[k] = v[k]
    <3>1. k \in 1 .. Len(v) + 1 /\ k <= i /\ k \in 1 .. i
      BY <1>1
    <3>2. QED
      BY <1>2, <1>5, <1>6, <2>1, <3>1
  <2>2. w[i] = e
    <3>1. i \in 1 .. Len(v) + 1 /\ i \in 1 .. i /\ i <= i /\ ~(i <= i - 1)
      BY <1>1
    <3>2. QED
      BY <1>5, <1>6, <3>1
  <2>3. ASSUME NEW k \in i + 1 .. Len(v) + 1 PROVE w[k] = v[k - 1]
    <3>1. k \in 1 .. Len(v) + 1 /\ ~(k <= i) /\ k - i \in 1 .. Len(v) - i + 1
          /\ i + (k - i) - 1 = k - 1
      BY <1>1
    <3>2. w[k] = b[k - i] /\ b[k - i] = v[i + (k - i) - 1]
      BY <1>3, <1>6, <3>1
    <3>3. QED
      BY <3>1, <3>2
  <2>4. QED
    BY <2>1, <2>2, <2>3
<1>8. DOMAIN w = 1 .. Len(v) + 1
  BY <1>6, LenProperties
<1>9. \A k \in DOMAIN w : w[k] \in ToSet(v) \cup {e}
  <2>1. \A k \in 1 .. Len(v) : v[k] \in ToSet(v)
    BY <1>1 DEF ToSet
  <2>2. SUFFICES ASSUME NEW k \in 1 .. Len(v) + 1 PROVE w[k] \in ToSet(v) \cup {e}
    BY <1>8
  <2>3. k \in 1 .. i - 1 \/ k = i \/ (k \in i + 1 .. Len(v) + 1 /\ k - 1 \in 1 .. Len(v))
    BY <1>1
  <2>4. k \in 1 .. i - 1 => k \in 1 .. Len(v)
    BY <1>1
  <2>5. QED
    BY <1>7, <2>1, <2>3, <2>4
<1>10. \A k \in 1 .. Len(v) : v[k] \in ToSet(w)
  <2>1. SUFFICES ASSUME NEW k \in 1 .. Len(v) PROVE \E j \in DOMAIN w : w[j] = v[k]
    BY DEF ToSet
  <2>2. CASE k <= i - 1
    BY <1>1, <1>7, <1>8, <2>2
  <2>3. CASE ~(k <= i - 1)
    <3>1. k + 1 \in i + 1 .. Len(v) + 1 /\ k + 1 \in DOMAIN w /\ (k + 1) - 1 = k
      BY <1>1, <1>8, <2>3
    <3>2. QED
      BY <1>7, <3>1
  <2>4. QED
    BY <2>2, <2>3
<1>11. e \in ToSet(w)
  BY <1>1, <1>7, <1>8 DEF ToSet
<1>12. ToSet(w) = ToSet(v) \cup {e}
  BY <1>1, <1>9, <1>10, <1>11 DEF ToSet
<1>13. w = InsertAt(v, i, e)
  BY DEF w, a, b, InsertAt
<1>14. QED
  BY <1>6, <1>7, <1>12, <1>13

\* The death test suites, and only they, are at the beginning.
DeathPrefix(v) ==
  \A k \in 1 .. Len(v) : v[k] \in DeathSuites <=> k <= Cardinality(DeathSuites \cap ToSet(v))

\* last_death_test_suite_ is the place for a new death test suite.
LEMMA DeathSuiteInserted ==
  ASSUME NEW v \in Seq(Names), DeathPrefix(v), NEW e \in Names, e \notin ToSet(v)
  PROVE  DeathPrefix(NewSuite(e, v))
<1> DEFINE c == Cardinality(DeathSuites \cap ToSet(v))
<1>1. c \in Nat /\ c <= Len(v) /\ Len(v) \in Nat /\ IsFiniteSet(DeathSuites \cap ToSet(v))
  <2>1. c \in 0 .. Len(v) /\ IsFiniteSet(ToSet(v)) /\ Len(v) \in Nat
    BY FewElements, LenProperties
  <2>2. DeathSuites \cap ToSet(v) \in SUBSET ToSet(v)
    OBVIOUS
  <2>3. QED
    BY <2>1, <2>2, FS_Subset
<1>2. \A k \in 1 .. Len(v) : v[k] \in DeathSuites <=> k <= c
  BY DEF DeathPrefix
<1>3. CASE e \in DeathSuites
  <2> DEFINE w == InsertAt(v, c + 1, e)
  <2>1. c + 1 \in 1 .. Len(v) + 1
    BY <1>1
  <2>2. /\ ToSet(w) = ToSet(v) \cup {e} /\ Len(w) = Len(v) + 1
        /\ \A k \in 1 .. c : w[k] = v[k]
        /\ w[c + 1] = e
        /\ \A k \in c + 1 + 1 .. Len(v) + 1 : w[k] = v[k - 1]
    <3>1. PICK i \in 1 .. Len(v) + 1 : i = c + 1
      BY <2>1
    <3>2. /\ ToSet(InsertAt(v, i, e)) = ToSet(v) \cup {e} /\ Len(InsertAt(v, i, e)) = Len(v) + 1
          /\ \A k \in 1 .. i - 1 : InsertAt(v, i, e)[k] = v[k]
          /\ InsertAt(v, i, e)[i] = e
          /\ \A k \in i + 1 .. Len(v) + 1 : InsertAt(v, i, e)[k] = v[k - 1]
      BY InsertElements
    <3>3. w = InsertAt(v, i, e) /\ i - 1 = c
      BY <1>1, <3>1
    <3> HIDE DEF w, c
    <3>4. QED
      BY <3>1, <3>2, <3>3
  <2>3. Cardinality(DeathSuites \cap ToSet(w)) = c + 1
    <3>1. DeathSuites \cap ToSet(w) = (DeathSuites \cap ToSet(v)) \cup {e}
      BY <1>3, <2>2
    <3>2. e \notin DeathSuites \cap ToSet(v)
      OBVIOUS
    <3> HIDE DEF w
    <3>3. QED
      BY <1>1, <3>1, <3>2, FS_AddElement
  <2>4. w = NewSuite(e, v)
    BY <1>3 DEF NewSuite
  <2> HIDE DEF w, c
  <2>5. ASSUME NEW k \in 1 .. Len(v) + 1 PROVE w[k] \in DeathSuites <=> k <= c + 1
    <3>1. CASE k \in 1 .. c
      BY <1>1, <1>2, <2>2, <3>1
    <3>2. CASE k = c + 1
      BY <1>1, <1>3, <2>2, <3>2
    <3>3. CASE k \in c + 1 + 1 .. Len(v) + 1
      <4>1. w[k] = v[k - 1] /\ k - 1 \in 1 .. Len(v) /\ ~(k - 1 <= c) /\ ~(k <= c + 1)
        BY <1>1, <2>2, <3>3
      <4>2. QED
        BY <1>2, <4>1
    <3>4. QED
      BY <1>1, <3>1, <3>2, <3>3
  <2>6. DeathPrefix(w)
    BY <2>2, <2>3, <2>5 DEF DeathPrefix
  <2>7. QED
    BY <2>4, <2>6
<1>4. CASE e \notin DeathSuites
  <2> DEFINE w == Append(v, e)
  <2>1. /\ ToSet(w) = ToSet(v) \cup {e} /\ Len(w) = Len(v) + 1 /\ w[Len(v) + 1] = e
        /\ \A k \in 1 .. Len(v) : w[k] = v[k]
    BY AppendElements, AppendProperties
  <2>2. DeathSuites \cap ToSet(w) = DeathSuites \cap ToSet(v)
    BY <1>4, <2>1
  <2>3. Cardinality(DeathSuites \cap ToSet(w)) = c
    BY <2>2
  <2>4. w = NewSuite(e, v)
    BY <1>4 DEF NewSuite
  <2> HIDE DEF w, c
  <2>5. ASSUME NEW k \in 1 .. Len(v) + 1 PROVE w[k] \in DeathSuites <=> k <= c
    <3>1. CASE k \in 1 .. Len(v)
      BY <1>2, <2>1, <3>1
    <3>2. CASE k = Len(v) + 1
      BY <1>1, <1>4, <2>1, <3>2
    <3>3. QED
      BY <1>1, <3>1, <3>2
  <2>6. DeathPrefix(w)
    BY <2>1, <2>3, <2>5 DEF DeathPrefix
  <2>7. QED
    BY <2>4, <2>6
<1>5. QED
  BY <1>3, <1>4

\* AddTestInfo adds the suite of the test, and no other, to the suites.
LEMMA SuiteAdded ==
  ASSUME NEW v \in Seq(Names), NEW k \in 1 .. Len(Registered)
  PROVE  /\ GetTestSuite(v, InfoAt(k)) \in Seq(Names)
         /\ ToSet(GetTestSuite(v, InfoAt(k))) = ToSet(v) \cup {InfoAt(k)[1]}
         /\ DeathPrefix(v) => DeathPrefix(GetTestSuite(v, InfoAt(k)))
<1> DEFINE e == InfoAt(k)[1]
           i == Cardinality(DeathSuites \cap ToSet(v)) + 1
<1>1. e \in Names
  BY RegisteredFacts
<1>2. i \in 1 .. Len(v) + 1
  <2>1. Cardinality(DeathSuites \cap ToSet(v)) \in 0 .. Len(v) /\ Len(v) \in Nat
    BY FewElements, LenProperties
  <2>2. QED
    BY <2>1
<1>3. GetTestSuite(v, InfoAt(k)) = IF e \in ToSet(v) THEN v ELSE NewSuite(e, v)
  BY DEF GetTestSuite
<1> HIDE DEF i, e
<1>4. InsertAt(v, i, e) \in Seq(Names) /\ ToSet(InsertAt(v, i, e)) = ToSet(v) \cup {e}
  BY <1>1, <1>2, InsertElements
<1>5. Append(v, e) \in Seq(Names) /\ ToSet(Append(v, e)) = ToSet(v) \cup {e}
  BY <1>1, AppendElements
<1>6. NewSuite(e, v) \in Seq(Names) /\ ToSet(NewSuite(e, v)) = ToSet(v) \cup {e}
  BY <1>4, <1>5 DEF NewSuite, i
<1>7. GetTestSuite(v, InfoAt(k)) \in Seq(Names)
      /\ ToSet(GetTestSuite(v, InfoAt(k))) = ToSet(v) \cup {e}
  BY <1>3, <1>6
<1>8. DeathPrefix(v) => DeathPrefix(GetTestSuite(v, InfoAt(k)))
  BY <1>1, <1>3, DeathSuiteInserted
<1>9. QED
  BY <1>7, <1>8 DEF e

\* test_suites lists the suites of the tests that were registered, death tests first.
LEMMA SuitesFacts ==
  test_suites \in Seq(Names) /\ ToSet(test_suites) = Names /\ DeathPrefix(test_suites)
<1> DEFINE n == Len(Registered)
           A == Seq(Names)
           F == [p \in (1 .. n) \X A |-> GetTestSuite(p[2], InfoAt(p[1]))]
           Step(g, s) == IF s = {} THEN <<>> ELSE GetTestSuite(g[s \ {Max(s)}], InfoAt(Max(s)))
           Solves(g) == g = [s \in SUBSET (1 .. n) |-> Step(g, s)]
           g0 == CHOOSE g : Solves(g)
           h(k) == g0[1 .. k]
<1>1. n \in Nat /\ DOMAIN Registered = 1 .. n
  BY RegisteredFacts
<1>2. test_suites = h(n)
  BY <1>1 DEF test_suites, FoldLeft, MapThenFoldSet, InfoAt
<1>3. F \in [(1 .. n) \X A -> A]
  BY SuiteAdded
<1>4. \A k \in 1 .. n, v \in A : F[<<k, v>>] = GetTestSuite(v, InfoAt(k))
  OBVIOUS
<1>5. <<>> \in A
  OBVIOUS
<1> HIDE DEF F, n, A
<1>6. PICK g \in [SUBSET (1 .. n) -> A] : Folds(g, n, <<>>, F)
  BY <1>1, <1>3, <1>5, FoldExists
<1>7. \A s \in SUBSET (1 .. n) : g[s] = Step(g, s)
  <2>1. SUFFICES ASSUME NEW s \in SUBSET (1 .. n), s # {} PROVE g[s] = Step(g, s)
    BY <1>6 DEF Folds
  <2>2. Max(s) \in 1 .. n /\ s \ {Max(s)} \in SUBSET (1 .. n)
    BY <1>1, <2>1, MaxExists
  <2>3. g[s \ {Max(s)}] \in A
    BY <1>6, <2>2
  <2>4. g[s] = F[<<Max(s), g[s \ {Max(s)}]>>]
    BY <1>6, <2>1 DEF Folds
  <2>5. QED
    BY <1>4, <2>1, <2>2, <2>3, <2>4
<1>8. Solves(g)
  <2> HIDE DEF Step
  <2>1. QED
    BY <1>6, <1>7
<1>9. Solves(g0)
  <2> HIDE DEF Solves
  <2>1. QED
    BY <1>8
<1>10. h(0) = <<>>
  <2>1. 1 .. 0 \in SUBSET (1 .. n) /\ 1 .. 0 = {}
    OBVIOUS
  <2> HIDE DEF g0
  <2>2. QED
    BY <1>9, <2>1
<1>11. ASSUME NEW k \in 0 .. n - 1 PROVE h(k + 1) = GetTestSuite(h(k), InfoAt(k + 1))
  <2>1. k \in Nat /\ 1 .. k + 1 \in SUBSET (1 .. n)
    BY <1>1
  <2> HIDE DEF g0
  <2>2. h(k + 1) = Step(g0, 1 .. k + 1)
    BY <1>9, <2>1
  <2>3. QED
    BY <2>1, <2>2, PrefixStep
<1> DEFINE S == {k \in 0 .. n : /\ h(k) \in Seq(Names) /\ DeathPrefix(h(k))
                                /\ ToSet(h(k)) = {InfoAt(j)[1] : j \in 1 .. k}}
<1> HIDE DEF h
<1>12. 0 \in S
  <2>1. 0 \in 0 .. n /\ 1 .. 0 = {}
    BY <1>1
  <2>2. <<>> \in Seq(Names) /\ ToSet(<<>>) = {} /\ DeathPrefix(<<>>)
    BY DEF ToSet, DeathPrefix
  <2>3. QED
    BY <1>10, <2>1, <2>2
<1>13. ASSUME NEW k \in 0 .. n - 1, k \in S PROVE k + 1 \in S
  <2>1. k + 1 \in 1 .. n /\ k + 1 \in 0 .. n /\ k \in Nat
    BY <1>1
  <2>2. h(k) \in Seq(Names) /\ DeathPrefix(h(k)) /\ ToSet(h(k)) = {InfoAt(j)[1] : j \in 1 .. k}
    BY <1>13
  <2>3. h(k + 1) \in Seq(Names) /\ DeathPrefix(h(k + 1)) /\ ToSet(h(k + 1)) = ToSet(h(k)) \cup {InfoAt(k + 1)[1]}
    BY <1>11, <2>1, <2>2, SuiteAdded DEF n
  <2>4. \A j : j \in 1 .. k + 1 <=> j \in 1 .. k \/ j = k + 1
    BY <2>1
  <2>5. ToSet(h(k + 1)) = {InfoAt(j)[1] : j \in 1 .. k + 1}
    BY <2>2, <2>3, <2>4
  <2>6. QED
    BY <2>1, <2>3, <2>5
<1>14. n \in S
  <2> HIDE DEF S
  <2>1. n \in 0 .. n
    BY <1>1
  <2>2. QED
    BY <1>1, <1>12, <1>13, <2>1, Induction
<1>15. Names = {InfoAt(j)[1] : j \in 1 .. n}
  BY RegisteredFacts DEF n
<1>16. QED
  BY <1>2, <1>14, <1>15

(***************************************************************************)
(* The tests of a suite.                                                    *)
(***************************************************************************)
AddTest(s, tests, info) == IF info[1] = s THEN Append(tests, info[2]) ELSE tests
OfSuite(s) == {t \in Tests : SuiteOf(t) = s}

\* What is in a suite's list are the tests that were registered for it.
LEMMA TestsFacts ==
  /\ DOMAIN test_info_list = Names
  /\ \A s \in Names : test_info_list[s] \in Seq(Tests) /\ ToSet(test_info_list[s]) = OfSuite(s)
<1>1. DOMAIN test_info_list = Names
  BY SuitesFacts DEF test_info_list
<1>2. SUFFICES ASSUME NEW x \in Names
               PROVE  test_info_list[x] \in Seq(Tests) /\ ToSet(test_info_list[x]) = OfSuite(x)
  BY <1>1
<1> DEFINE n == Len(Registered)
           A == Seq(Tests)
           F == [p \in (1 .. n) \X A |-> AddTest(x, p[2], InfoAt(p[1]))]
           Step(g, s) == IF s = {} THEN <<>> ELSE AddTest(x, g[s \ {Max(s)}], InfoAt(Max(s)))
           Solves(g) == g = [s \in SUBSET (1 .. n) |-> Step(g, s)]
           g0 == CHOOSE g : Solves(g)
           h(k) == g0[1 .. k]
<1>3. n \in Nat /\ DOMAIN Registered = 1 .. n
  BY RegisteredFacts
<1>4. test_info_list[x] = h(n)
  <2>1. x \in ToSet(test_suites)
    BY SuitesFacts
  <2>2. test_info_list[x] =
          FoldLeft(LAMBDA tests, info : IF info[1] = x THEN Append(tests, info[2]) ELSE tests,
                   <<>>, Registered)
    BY <2>1 DEF test_info_list
  <2>3. QED
    BY <1>3, <2>2 DEF FoldLeft, MapThenFoldSet, InfoAt, AddTest
<1>5. \A k \in 1 .. n, v \in A : AddTest(x, v, InfoAt(k)) \in A
  BY RegisteredFacts, AppendElements DEF AddTest
<1>6. F \in [(1 .. n) \X A -> A]
  BY <1>5
<1>7. \A k \in 1 .. n, v \in A : F[<<k, v>>] = AddTest(x, v, InfoAt(k))
  OBVIOUS
<1>8. <<>> \in A
  OBVIOUS
<1> HIDE DEF F, n, A
<1>9. PICK g \in [SUBSET (1 .. n) -> A] : Folds(g, n, <<>>, F)
  BY <1>3, <1>6, <1>8, FoldExists
<1>10. \A s \in SUBSET (1 .. n) : g[s] = Step(g, s)
  <2>1. SUFFICES ASSUME NEW s \in SUBSET (1 .. n), s # {} PROVE g[s] = Step(g, s)
    BY <1>9 DEF Folds
  <2>2. Max(s) \in 1 .. n /\ s \ {Max(s)} \in SUBSET (1 .. n)
    BY <1>3, <2>1, MaxExists
  <2>3. g[s \ {Max(s)}] \in A
    BY <1>9, <2>2
  <2>4. g[s] = F[<<Max(s), g[s \ {Max(s)}]>>]
    BY <1>9, <2>1 DEF Folds
  <2>5. QED
    BY <1>7, <2>1, <2>2, <2>3, <2>4
<1>11. Solves(g)
  <2> HIDE DEF Step
  <2>1. QED
    BY <1>9, <1>10
<1>12. Solves(g0)
  <2> HIDE DEF Solves
  <2>1. QED
    BY <1>11
<1>13. h(0) = <<>>
  <2>1. 1 .. 0 \in SUBSET (1 .. n) /\ 1 .. 0 = {}
    OBVIOUS
  <2> HIDE DEF g0
  <2>2. QED
    BY <1>12, <2>1
<1>14. ASSUME NEW k \in 0 .. n - 1 PROVE h(k + 1) = AddTest(x, h(k), InfoAt(k + 1))
  <2>1. k \in Nat /\ 1 .. k + 1 \in SUBSET (1 .. n)
    BY <1>3
  <2> HIDE DEF g0
  <2>2. h(k + 1) = Step(g0, 1 .. k + 1)
    BY <1>12, <2>1
  <2>3. QED
    BY <2>1, <2>2, PrefixStep
<1> DEFINE Found(k) == {InfoAt(j)[2] : j \in {i \in 1 .. k : InfoAt(i)[1] = x}}
           S == {k \in 0 .. n : h(k) \in A /\ ToSet(h(k)) = Found(k)}
<1> HIDE DEF h
<1>15. 0 \in S
  <2>1. 0 \in 0 .. n /\ 1 .. 0 = {}
    BY <1>3
  <2>2. ToSet(<<>>) = {}
    BY DEF ToSet
  <2>3. QED
    BY <1>8, <1>13, <2>1, <2>2
<1>16. ASSUME NEW k \in 0 .. n - 1, k \in S PROVE k + 1 \in S
  <2>1. k + 1 \in 1 .. n /\ k + 1 \in 0 .. n /\ k \in Nat
    BY <1>3
  <2>2. h(k) \in A /\ ToSet(h(k)) = Found(k)
    BY <1>16
  <2>3. InfoAt(k + 1)[2] \in Tests
    BY <2>1, RegisteredFacts DEF n
  <2>4. \A j : j \in 1 .. k + 1 <=> j \in 1 .. k \/ j = k + 1
    BY <2>1
  <2>5. Found(k + 1) = IF InfoAt(k + 1)[1] = x THEN Found(k) \cup {InfoAt(k + 1)[2]} ELSE Found(k)
    BY <2>4
  <2> HIDE DEF Found
  <2>6. h(k + 1) \in A /\ ToSet(h(k + 1)) = Found(k + 1)
    <3> DEFINE e == InfoAt(k + 1)[2]
    <3>1. Append(h(k), e) \in Seq(Tests) /\ ToSet(Append(h(k), e)) = ToSet(h(k)) \cup {e}
      BY <2>2, <2>3, AppendElements DEF A
    <3>2. h(k + 1) = IF InfoAt(k + 1)[1] = x THEN Append(h(k), e) ELSE h(k)
      BY <1>14 DEF AddTest
    <3> HIDE DEF e
    <3>3. CASE InfoAt(k + 1)[1] = x
      BY <2>2, <2>5, <3>1, <3>2, <3>3 DEF A, e
    <3>4. CASE InfoAt(k + 1)[1] # x
      BY <2>2, <2>5, <3>2, <3>4
    <3>5. QED
      BY <3>3, <3>4
  <2>7. QED
    BY <2>1, <2>6
<1>17. n \in S
  <2> HIDE DEF S
  <2>1. n \in 0 .. n
    BY <1>3
  <2>2. QED
    BY <1>3, <1>15, <1>16, <2>1, Induction
<1>18. Found(n) = OfSuite(x)
  <2>1. \A j \in 1 .. n : InfoAt(j)[2] \in Tests /\ SuiteOf(InfoAt(j)[2]) = InfoAt(j)[1]
    BY RegisteredFacts DEF SuiteOf, n
  <2>2. \A t \in Tests : \E j \in 1 .. n : InfoAt(j)[2] = t
    BY RegisteredFacts DEF n
  <2>3. QED
    BY <2>1, <2>2 DEF OfSuite
<1>19. QED
  BY <1>4, <1>17, <1>18 DEF A

\* A registered test is in a suite of its own name.
LEMMA SuiteOfFacts ==
  ASSUME NEW t \in Tests
  PROVE  SuiteOf(t) \in Names /\ t \in OfSuite(SuiteOf(t)) /\ SuiteOf(t) # None /\ t # None /\ t # "null"
<1>1. PICK k \in 1 .. Len(Registered) : InfoAt(k)[2] = t
  BY RegisteredFacts
<1>2. SuiteOf(t) = InfoAt(k)[1] /\ InfoAt(k)[1] \in Names
  BY <1>1, RegisteredFacts DEF SuiteOf
<1>3. QED
  BY <1>2, RegisteredAssumption DEF OfSuite, Names

(***************************************************************************)
(* Shuffling.                                                               *)
(***************************************************************************)
\* The sequences that list the same elements in as many places.
Permuted(v, S) == {w \in Seq(S) : Len(w) = Len(v) /\ ToSet(w) = ToSet(v)}

LEMMA SwapPermutes ==
  ASSUME NEW S, NEW v \in Seq(S), NEW w \in Permuted(v, S),
         NEW i \in 1 .. Len(v), NEW j \in 1 .. Len(v)
  PROVE  Swap(w, i, j) \in Permuted(v, S)
<1>1. w \in Seq(S) /\ Len(w) = Len(v) /\ ToSet(w) = ToSet(v) /\ Len(v) \in Nat
  BY LenProperties DEF Permuted
<1>2. DOMAIN w = 1 .. Len(v) /\ w \in [1 .. Len(v) -> S] /\ w[i] \in S /\ w[j] \in S
  BY <1>1, LenProperties, ElementOfSeq
<1> DEFINE a == [w EXCEPT ![i] = w[j]]
           z == [a EXCEPT ![j] = w[i]]
<1>3. z = Swap(w, i, j)
  BY DEF Swap
<1>4. z \in [1 .. Len(v) -> S]
  BY <1>2
<1>5. z \in Seq(S) /\ Len(z) = Len(v)
  BY <1>1, <1>2, <1>4, ExceptSeq
<1>6. \A k \in 1 .. Len(v) : z[k] = IF k = j THEN w[i] ELSE IF k = i THEN w[j] ELSE w[k]
  BY <1>2
<1>7. DOMAIN z = 1 .. Len(v)
  BY <1>4
<1> HIDE DEF z, a
<1>8. ToSet(z) = ToSet(w)
  <2>1. \A k \in 1 .. Len(v) : z[k] \in ToSet(w)
    BY <1>2, <1>6 DEF ToSet
  <2>2. \A k \in 1 .. Len(v) : \E l \in 1 .. Len(v) : z[l] = w[k]
    <3>1. SUFFICES ASSUME NEW k \in 1 .. Len(v) PROVE \E l \in 1 .. Len(v) : z[l] = w[k]
      OBVIOUS
    <3>2. CASE k = i
      BY <1>6, <3>2
    <3>3. CASE k = j
      BY <1>6, <3>3
    <3>4. CASE k # i /\ k # j
      BY <1>6, <3>4
    <3>5. QED
      BY <3>2, <3>3, <3>4
  <2>3. \A y \in ToSet(w) : y \in ToSet(z)
    BY <1>2, <1>7, <2>2 DEF ToSet
  <2>4. \A y \in ToSet(z) : y \in ToSet(w)
    BY <1>7, <2>1 DEF ToSet
  <2>5. QED
    BY <2>3, <2>4
<1>9. QED
  BY <1>1, <1>3, <1>5, <1>8 DEF Permuted

\* Of those, the ones that move nothing into the range (begin, end] or out of it.
Shuffled(v, begin, end, S) ==
  {w \in Permuted(v, S) :
     \A i \in 1 .. Len(v) : IF i \in begin + 1 .. end THEN \E j \in begin + 1 .. end : w[i] = v[j]
                           ELSE w[i] = v[i]}

LEMMA SwapShuffles ==
  ASSUME NEW S, NEW v \in Seq(S), NEW end \in 0 .. Len(v), NEW begin \in 0 .. end,
         NEW w \in Shuffled(v, begin, end, S), NEW i \in begin + 1 .. end, NEW j \in begin + 1 .. end
  PROVE  Swap(w, i, j) \in Shuffled(v, begin, end, S)
<1>1. w \in Permuted(v, S) /\ Len(v) \in Nat /\ i \in 1 .. Len(v) /\ j \in 1 .. Len(v)
  BY LenProperties DEF Shuffled
<1>2. Swap(w, i, j) \in Permuted(v, S)
  BY <1>1, SwapPermutes
<1>3. DOMAIN w = 1 .. Len(v) /\ w \in [1 .. Len(v) -> S]
  BY <1>1, LenProperties DEF Permuted
<1>4. \A k \in 1 .. Len(v) : Swap(w, i, j)[k] = IF k = j THEN w[i] ELSE IF k = i THEN w[j] ELSE w[k]
  BY <1>1, <1>3 DEF Swap
<1>5. ASSUME NEW k \in 1 .. Len(v)
      PROVE  IF k \in begin + 1 .. end THEN \E m \in begin + 1 .. end : Swap(w, i, j)[k] = v[m]
             ELSE Swap(w, i, j)[k] = v[k]
  <2>1. \A x \in 1 .. Len(v) : IF x \in begin + 1 .. end THEN \E m \in begin + 1 .. end : w[x] = v[m]
                               ELSE w[x] = v[x]
    BY DEF Shuffled
  <2>2. CASE k \in begin + 1 .. end
    <3>1. \E x \in begin + 1 .. end : x \in 1 .. Len(v) /\ Swap(w, i, j)[k] = w[x]
      BY <1>1, <1>4, <2>2
    <3>2. QED
      BY <2>1, <2>2, <3>1
  <2>3. CASE k \notin begin + 1 .. end
    BY <1>4, <2>1, <2>3
  <2>4. QED
    BY <2>2, <2>3
<1>6. QED
  BY <1>2, <1>5 DEF Shuffled

LEMMA ModFacts ==
  ASSUME NEW d \in Nat, NEW w \in Nat \ {0}
  PROVE  d % w \in 0 .. w - 1
  OBVIOUS

\* Whatever is drawn, a shuffled range holds what it held, and the rest stays.
LEMMA ShuffleRangePermutes ==
  ASSUME NEW S, NEW v \in Seq(S), NEW draws \in Seq(Nat),
         NEW end \in 0 .. Len(v), NEW begin \in 0 .. end
  PROVE  ShuffleRange(draws, begin, end, v) \in Shuffled(v, begin, end, S)
<1> DEFINE n == IF end - begin - 1 < 0 THEN 0 ELSE end - begin - 1
           A == Shuffled(v, begin, end, S)
           width(k) == end - begin + 1 - k
           Mix(w, k) == Swap(w, begin + width(k), begin + 1 + (Draw(draws, k) % width(k)))
           F == [p \in (1 .. n) \X A |-> Mix(p[2], p[1])]
           q == [k \in 1 .. end - begin - 1 |-> k]
           D == DOMAIN q
           Step(g, s) == IF s = {} THEN v ELSE Mix(g[s \ {Max(s)}], q[Max(s)])
           Solves(g) == g = [s \in SUBSET D |-> Step(g, s)]
           g0 == CHOOSE g : Solves(g)
           h(k) == g0[1 .. k]
<1>1. /\ n \in Nat /\ Len(v) \in Nat /\ begin \in Nat /\ end \in Nat /\ begin <= end
      /\ end <= Len(v)
      /\ \A k \in Int : k \in 1 .. n <=> 1 <= k /\ k <= end - begin - 1
  BY LenProperties
<1> HIDE DEF n
<1>2. \A k \in 1 .. n : Draw(draws, k) \in Nat
  BY LenProperties, ElementOfSeq DEF Draw
<1>3. \A k \in 1 .. n, w \in A : Mix(w, k) \in A
  <2>1. SUFFICES ASSUME NEW k \in 1 .. n, NEW w \in A PROVE Mix(w, k) \in A
    OBVIOUS
  <2>2. k \in Nat /\ 1 <= k /\ k <= end - begin - 1
    BY <1>1
  <2>3. width(k) \in Nat \ {0} /\ begin + width(k) \in begin + 1 .. end
    BY <1>1, <2>2
  <2>4. Draw(draws, k) % width(k) \in 0 .. width(k) - 1
    BY <1>2, <2>3, ModFacts
  <2>5. begin + 1 + (Draw(draws, k) % width(k)) \in begin + 1 .. end
    <3> DEFINE r == Draw(draws, k) % width(k)
    <3> HIDE DEF r
    <3>1. r \in 0 .. width(k) - 1
      BY <2>4 DEF r
    <3>2. begin + 1 + r \in begin + 1 .. end
      BY <1>1, <2>2, <2>3, <3>1
    <3>3. QED
      BY <3>2 DEF r
  <2> HIDE DEF width
  <2>6. QED
    BY <2>3, <2>5, SwapShuffles
<1> HIDE DEF Mix
<1>4. ShuffleRange(draws, begin, end, v) = g0[D]
  BY DEF ShuffleRange, FoldLeft, MapThenFoldSet, Mix
<1>5. D = 1 .. n /\ \A k \in 1 .. n : q[k] = k
  <2>1. 1 .. end - begin - 1 = 1 .. n
    BY <1>1 DEF n
  <2>2. QED
    BY <2>1
<1> HIDE DEF q, D
<1>6. F \in [(1 .. n) \X A -> A]
  BY <1>3
<1>7. \A k \in 1 .. n, w \in A : F[<<k, w>>] = Mix(w, k)
  OBVIOUS
<1>8. v \in A
  BY DEF Permuted, Shuffled
<1> HIDE DEF F, A
<1>9. PICK g \in [SUBSET (1 .. n) -> A] : Folds(g, n, v, F)
  BY <1>1, <1>6, <1>8, FoldExists
<1>10. \A s \in SUBSET (1 .. n) : g[s] = Step(g, s)
  <2>1. SUFFICES ASSUME NEW s \in SUBSET (1 .. n), s # {} PROVE g[s] = Step(g, s)
    BY <1>9 DEF Folds
  <2>2. Max(s) \in 1 .. n /\ s \ {Max(s)} \in SUBSET (1 .. n)
    BY <1>1, <2>1, MaxExists
  <2>3. g[s \ {Max(s)}] \in A
    BY <1>9, <2>2
  <2>4. g[s] = F[<<Max(s), g[s \ {Max(s)}]>>]
    BY <1>9, <2>1 DEF Folds
  <2>5. QED
    BY <1>7, <1>5, <2>1, <2>2, <2>3, <2>4
<1>11. Solves(g)
  <2> HIDE DEF Step
  <2>1. QED
    BY <1>9, <1>10, <1>5
<1>12. Solves(g0)
  <2> HIDE DEF Solves
  <2>1. QED
    BY <1>11
<1>13. h(0) = v
  <2>1. 1 .. 0 \in SUBSET (1 .. n) /\ 1 .. 0 = {}
    OBVIOUS
  <2> HIDE DEF g0
  <2>2. QED
    BY <1>12, <1>5, <2>1
<1>14. ASSUME NEW k \in 0 .. n - 1 PROVE h(k + 1) = Mix(h(k), k + 1)
  <2>1. k \in Nat /\ 1 .. k + 1 \in SUBSET (1 .. n)
    BY <1>1
  <2> HIDE DEF g0
  <2>2. h(k + 1) = Step(g0, 1 .. k + 1)
    BY <1>12, <1>5, <2>1
  <2>3. k + 1 \in 1 .. n
    BY <1>1
  <2>4. QED
    BY <1>5, <2>1, <2>2, <2>3, PrefixStep
<1> DEFINE T == {k \in 0 .. n : h(k) \in A}
<1> HIDE DEF h
<1>15. 0 \in T
  BY <1>1, <1>8, <1>13
<1>16. ASSUME NEW k \in 0 .. n - 1, k \in T PROVE k + 1 \in T
  <2>1. k + 1 \in 1 .. n /\ k + 1 \in 0 .. n
    BY <1>1
  <2>2. QED
    BY <1>3, <1>14, <1>16, <2>1
<1>17. n \in T
  <2> HIDE DEF T
  <2>1. n \in 0 .. n
    BY <1>1
  <2>2. QED
    BY <1>1, <1>15, <1>16, <2>1, Induction
<1>18. QED
  BY <1>4, <1>17, <1>5 DEF A, h

\* What is left of the draws is a sequence of numbers.
LEMMA BehindTyped ==
  ASSUME NEW draws \in Seq(Nat), NEW size \in Nat
  PROVE  Behind(draws, size) \in Seq(Nat)
<1>1. CASE size < 2
  BY <1>1 DEF Behind
<1>2. CASE ~(size < 2)
  <2>1. Len(draws) \in Nat /\ size \in Int /\ \A i \in size .. Len(draws) : draws[i] \in Nat
    <3>1. Len(draws) \in Nat /\ \A i \in 1 .. Len(draws) : draws[i] \in Nat
      BY LenProperties, ElementOfSeq
    <3>2. \A i \in size .. Len(draws) : i \in 1 .. Len(draws)
      BY <1>2, <3>1
    <3>3. QED
      BY <3>1, <3>2
  <2>2. SubSeq(draws, size, Len(draws)) \in Seq(Nat)
    BY <2>1, SubSeqProperties
  <2>3. QED
    BY <1>2, <2>2 DEF Behind
<1>3. QED
  BY <1>1, <1>2

\* The draws that are left for the suite behind m others.
DrawsFor(tests, each, m) ==
  FoldLeft(LAMBDA rest, j : Behind(rest, Len(tests[test_suites[j]])), each, [j \in 1 .. m |-> j])

LEMMA DrawsBehindSuites ==
  ASSUME NEW each \in Seq(Nat), NEW tests, \A s \in Names : Len(tests[s]) \in Nat,
         NEW m \in 0 .. Len(test_suites)
  PROVE  DrawsFor(tests, each, m) \in Seq(Nat)
<1> DEFINE A == Seq(Nat)
           Mix(w, j) == Behind(w, Len(tests[test_suites[j]]))
           F == [p \in (1 .. m) \X A |-> Mix(p[2], p[1])]
           q == [j \in 1 .. m |-> j]
           D == DOMAIN q
           Step(g, s) == IF s = {} THEN each ELSE Mix(g[s \ {Max(s)}], q[Max(s)])
           Solves(g) == g = [s \in SUBSET D |-> Step(g, s)]
           g0 == CHOOSE g : Solves(g)
           h(k) == g0[1 .. k]
<1>1. m \in Nat /\ Len(test_suites) \in Nat /\ \A j \in 1 .. m : test_suites[j] \in Names
  <2>1. Len(test_suites) \in Nat /\ \A j \in 1 .. Len(test_suites) : test_suites[j] \in Names
    BY SuitesFacts, LenProperties, ElementOfSeq
  <2>2. QED
    BY <2>1
<1>2. \A j \in 1 .. m, w \in A : Mix(w, j) \in A
  BY <1>1, BehindTyped
<1> HIDE DEF Mix
<1>3. DrawsFor(tests, each, m) = g0[D]
  BY DEF DrawsFor, FoldLeft, MapThenFoldSet, Mix
<1>4. D = 1 .. m /\ \A k \in 1 .. m : q[k] = k
  OBVIOUS
<1> HIDE DEF q, D
<1>5. F \in [(1 .. m) \X A -> A]
  BY <1>2
<1>6. \A k \in 1 .. m, w \in A : F[<<k, w>>] = Mix(w, k)
  OBVIOUS
<1>7. each \in A
  OBVIOUS
<1> HIDE DEF F, A
<1>8. PICK g \in [SUBSET (1 .. m) -> A] : Folds(g, m, each, F)
  BY <1>1, <1>5, <1>7, FoldExists
<1>9. \A s \in SUBSET (1 .. m) : g[s] = Step(g, s)
  <2>1. SUFFICES ASSUME NEW s \in SUBSET (1 .. m), s # {} PROVE g[s] = Step(g, s)
    BY <1>8 DEF Folds
  <2>2. Max(s) \in 1 .. m /\ s \ {Max(s)} \in SUBSET (1 .. m)
    BY <1>1, <2>1, MaxExists
  <2>3. g[s \ {Max(s)}] \in A
    BY <1>8, <2>2
  <2>4. g[s] = F[<<Max(s), g[s \ {Max(s)}]>>]
    BY <1>8, <2>1 DEF Folds
  <2>5. QED
    BY <1>4, <1>6, <2>1, <2>2, <2>3, <2>4
<1>10. Solves(g)
  <2> HIDE DEF Step
  <2>1. QED
    BY <1>4, <1>8, <1>9
<1>11. Solves(g0)
  <2> HIDE DEF Solves
  <2>1. QED
    BY <1>10
<1>12. h(0) = each
  <2>1. 1 .. 0 \in SUBSET (1 .. m) /\ 1 .. 0 = {}
    OBVIOUS
  <2> HIDE DEF g0
  <2>2. QED
    BY <1>4, <1>11, <2>1
<1>13. ASSUME NEW k \in 0 .. m - 1 PROVE h(k + 1) = Mix(h(k), k + 1)
  <2>1. k \in Nat /\ k + 1 \in 1 .. m /\ 1 .. k + 1 \in SUBSET (1 .. m)
    BY <1>1
  <2> HIDE DEF g0
  <2>2. h(k + 1) = Step(g0, 1 .. k + 1)
    BY <1>4, <1>11, <2>1
  <2>3. QED
    BY <1>4, <2>1, <2>2, PrefixStep
<1> DEFINE T == {k \in 0 .. m : h(k) \in A}
<1> HIDE DEF h
<1>14. 0 \in T
  BY <1>1, <1>7, <1>12
<1>15. ASSUME NEW k \in 0 .. m - 1, k \in T PROVE k + 1 \in T
  <2>1. k + 1 \in 1 .. m /\ k + 1 \in 0 .. m
    BY <1>1
  <2>2. QED
    BY <1>2, <1>13, <1>15, <2>1
<1>16. m \in T
  <2> HIDE DEF T
  <2>1. m \in 0 .. m
    BY <1>1
  <2>2. QED
    BY <1>1, <1>14, <1>15, <2>1, Induction
<1>17. QED
  BY <1>3, <1>4, <1>16 DEF A, h

(***************************************************************************)
(* The order of an iteration lists every suite, death tests first, and of   *)
(* every suite its tests, and nothing else.                                 *)
(***************************************************************************)
ListsAll(o) ==
  /\ o = [suites |-> o.suites, tests |-> o.tests]
  /\ o.suites \in Permuted(test_suites, Names)
  /\ \A k \in 1 .. Len(test_suites) : o.suites[k] \in DeathSuites <=> k <= DeathTestSuites
  /\ DOMAIN o.tests = Names
  /\ \A s \in Names : o.tests[s] \in Permuted(test_info_list[s], Tests)

LEMMA RegistrationListsAll == ListsAll(Registration)
<1>1. test_suites \in Permuted(test_suites, Names)
  BY SuitesFacts DEF Permuted
<1>2. \A k \in 1 .. Len(test_suites) : test_suites[k] \in DeathSuites <=> k <= DeathTestSuites
  BY SuitesFacts DEF DeathPrefix, DeathTestSuites
<1>3. \A s \in Names : test_info_list[s] \in Permuted(test_info_list[s], Tests)
  BY TestsFacts DEF Permuted
<1>4. QED
  BY <1>1, <1>2, <1>3, TestsFacts DEF ListsAll, Registration

LEMMA ListFacts ==
  ASSUME NEW o, ListsAll(o)
  PROVE  /\ o.suites \in Seq(Names) /\ Len(o.suites) \in Nat /\ DOMAIN o.suites = 1 .. Len(o.suites)
         /\ Len(o.suites) = Len(test_suites)
         /\ \A j \in 1 .. Len(o.suites) : o.suites[j] \in Names
         /\ \A s \in Names : \E j \in 1 .. Len(o.suites) : o.suites[j] = s
         /\ \A s \in Names : /\ o.tests[s] \in Seq(Tests) /\ Len(o.tests[s]) \in Nat
                             /\ DOMAIN o.tests[s] = 1 .. Len(o.tests[s])
                             /\ ToSet(o.tests[s]) = OfSuite(s)
<1>1. o.suites \in Seq(Names) /\ Len(o.suites) = Len(test_suites) /\ ToSet(o.suites) = Names
  BY SuitesFacts DEF ListsAll, Permuted
<1>2. Len(o.suites) \in Nat /\ DOMAIN o.suites = 1 .. Len(o.suites)
  BY <1>1, LenProperties
<1>3. \A j \in 1 .. Len(o.suites) : o.suites[j] \in Names
  BY <1>1, ElementOfSeq
<1>4. \A s \in Names : \E j \in 1 .. Len(o.suites) : o.suites[j] = s
  BY <1>1, <1>2 DEF ToSet
<1>5. ASSUME NEW s \in Names
      PROVE  /\ o.tests[s] \in Seq(Tests) /\ Len(o.tests[s]) \in Nat
             /\ DOMAIN o.tests[s] = 1 .. Len(o.tests[s])
             /\ ToSet(o.tests[s]) = OfSuite(s)
  <2>1. o.tests[s] \in Seq(Tests) /\ ToSet(o.tests[s]) = OfSuite(s)
    BY TestsFacts DEF ListsAll, Permuted
  <2>2. QED
    BY <2>1, LenProperties
<1>6. QED
  BY <1>1, <1>2, <1>3, <1>4, <1>5

\* UnitTestImpl::ShuffleTests permutes suites and tests.
LEMMA ShuffleListsAll ==
  ASSUME NEW o, ListsAll(o), NEW draws \in Seq(Nat)
  PROVE  ListsAll(ShuffleTests(o, draws))
<1> DEFINE size == Len(o.suites)
           others == Behind(draws, DeathTestSuites)
           each == Behind(others, size - DeathTestSuites)
           Before(k) == DrawsFor(o.tests, each, k - 1)
           first == ShuffleRange(draws, 0, DeathTestSuites, o.suites)
           suites == ShuffleRange(others, DeathTestSuites, size, first)
           At(s) == CHOOSE k \in 1 .. size : test_suites[k] = s
           tests == [s \in DOMAIN o.tests |-> ShuffleRange(Before(At(s)), 0, Len(o.tests[s]), o.tests[s])]
<1>1. ShuffleTests(o, draws) = [suites |-> suites, tests |-> tests]
  BY DEF ShuffleTests, DrawsFor
<1>2. /\ size \in Nat /\ size = Len(test_suites) /\ DeathTestSuites \in 0 .. size
      /\ o.suites \in Seq(Names) /\ DOMAIN o.tests = Names
  <2>1. test_suites \in Seq(Names)
    BY SuitesFacts
  <2>2. DeathTestSuites \in 0 .. Len(test_suites)
    BY <2>1, FewElements DEF DeathTestSuites
  <2>3. QED
    BY <2>2, ListFacts DEF ListsAll
<1>3. others \in Seq(Nat) /\ each \in Seq(Nat)
  <2>1. DeathTestSuites \in Nat /\ size - DeathTestSuites \in Nat
    BY <1>2
  <2>2. others \in Seq(Nat)
    BY <2>1, BehindTyped
  <2>3. QED
    BY <2>1, <2>2, BehindTyped
<1>4. first \in Shuffled(o.suites, 0, DeathTestSuites, Names)
  <2>1. DeathTestSuites \in 0 .. Len(o.suites) /\ 0 \in 0 .. DeathTestSuites
    BY <1>2
  <2>2. QED
    BY <1>2, <2>1, ShuffleRangePermutes
<1> HIDE DEF others, each, first
<1>5. suites \in Shuffled(first, DeathTestSuites, size, Names)
  <2>1. first \in Seq(Names) /\ Len(first) = size
    BY <1>2, <1>4 DEF Permuted, Shuffled
  <2>2. size \in 0 .. Len(first) /\ DeathTestSuites \in 0 .. size
    BY <1>2, <2>1
  <2>3. QED
    BY <1>3, <2>1, <2>2, ShuffleRangePermutes
<1>6. suites \in Permuted(test_suites, Names)
  BY <1>4, <1>5 DEF Permuted, Shuffled, ListsAll
<1>7. \A k \in 1 .. size : suites[k] \in DeathSuites <=> k <= DeathTestSuites
  <2> DEFINE d == DeathTestSuites
  <2> HIDE DEF d
  <2>1. size \in Nat /\ d \in 0 .. size /\ Len(first) = size
    BY <1>2, <1>4 DEF Permuted, Shuffled, d
  <2>2. \A k \in 1 .. size : o.suites[k] \in DeathSuites <=> k <= d
    BY <1>2 DEF ListsAll, d
  <2>3. \A k \in 1 .. size : IF k \in 0 + 1 .. d THEN \E j \in 0 + 1 .. d : first[k] = o.suites[j]
                            ELSE first[k] = o.suites[k]
    BY <1>4 DEF Shuffled, d
  <2>4. \A k \in 1 .. size : IF k \in d + 1 .. size THEN \E j \in d + 1 .. size : suites[k] = first[j]
                            ELSE suites[k] = first[k]
    BY <1>5, <2>1 DEF Shuffled, d
  <2> HIDE DEF size, suites
  <2>5. \A k \in 1 .. size : first[k] \in DeathSuites <=> k <= d
    <3>1. SUFFICES ASSUME NEW k \in 1 .. size PROVE first[k] \in DeathSuites <=> k <= d
      OBVIOUS
    <3>2. CASE k <= d
      <4>1. PICK j \in 1 .. d : first[k] = o.suites[j]
        BY <2>1, <2>3, <3>2
      <4>2. QED
        BY <2>1, <2>2, <3>2, <4>1
    <3>3. CASE ~(k <= d)
      BY <2>1, <2>2, <2>3, <3>3
    <3>4. QED
      BY <3>2, <3>3
  <2>6. \A k \in 1 .. size : suites[k] \in DeathSuites <=> k <= d
    <3>1. SUFFICES ASSUME NEW k \in 1 .. size PROVE suites[k] \in DeathSuites <=> k <= d
      OBVIOUS
    <3>2. CASE k <= d
      BY <2>1, <2>4, <2>5, <3>2
    <3>3. CASE ~(k <= d)
      <4>1. PICK j \in d + 1 .. size : suites[k] = first[j]
        BY <2>1, <2>4, <3>3
      <4>2. QED
        BY <2>1, <2>5, <3>3, <4>1
    <3>4. QED
      BY <3>2, <3>3
  <2>7. QED
    BY <2>6 DEF d
<1>8. ASSUME NEW s \in Names
      PROVE  ShuffleRange(Before(At(s)), 0, Len(o.tests[s]), o.tests[s]) \in Permuted(test_info_list[s], Tests)
  <2>1. \A x \in Names : Len(o.tests[x]) \in Nat
    BY ListFacts
  <2>2. \E k \in 1 .. size : test_suites[k] = s
    <3>1. s \in ToSet(test_suites) /\ DOMAIN test_suites = 1 .. size
      BY <1>2, SuitesFacts, LenProperties
    <3>2. QED
      BY <3>1 DEF ToSet
  <2>3. At(s) \in 1 .. size /\ At(s) - 1 \in 0 .. Len(test_suites)
    BY <1>2, <2>2
  <2> HIDE DEF At
  <2>4. Before(At(s)) \in Seq(Nat)
    BY <1>3, <2>1, <2>3, DrawsBehindSuites
  <2> HIDE DEF Before
  <2>5. o.tests[s] \in Seq(Tests) /\ Len(o.tests[s]) \in 0 .. Len(o.tests[s])
        /\ 0 \in 0 .. Len(o.tests[s])
    BY ListFacts
  <2>6. ShuffleRange(Before(At(s)), 0, Len(o.tests[s]), o.tests[s]) \in Permuted(o.tests[s], Tests)
    BY <2>4, <2>5, ShuffleRangePermutes DEF Shuffled
  <2>7. o.tests[s] \in Permuted(test_info_list[s], Tests)
    BY DEF ListsAll
  <2>8. QED
    BY <2>6, <2>7 DEF Permuted
<1> HIDE DEF suites, Before, At
<1>9. DOMAIN tests = Names /\ \A s \in Names : tests[s] \in Permuted(test_info_list[s], Tests)
  BY <1>2, <1>8
<1> HIDE DEF tests
<1>10. QED
  BY <1>1, <1>2, <1>6, <1>9, <1>7 DEF ListsAll

(***************************************************************************)
(* The inductive invariant.  Where the run is tells what is current, ...    *)
(***************************************************************************)
InTest == {"constructor", "run", "SetUp", "TestBody", "TearDown", "destructor", "test_end"}
InSuite == InTest \cup {"SetUpTestSuite", "skip_all", "test", "TearDownTestSuite", "suite_end"}
WithTests == InSuite \cup {"suite", "decide", "env_setup", "env_teardown"}
Iterating == WithTests \cup {"iteration_end"}
Ats == Iterating \cup {"main", "iterate", "program_end", "ended"}

RunTyped ==
  /\ flags \in Flags /\ rnd \in [1 .. kMaxRandomSeed -> Seq(Nat)] /\ at \in Ats
  /\ ListsAll(order) /\ seed \in 1 .. kMaxRandomSeed
  /\ iteration \in Nat /\ env \in Nat /\ test \in Nat
  /\ suite \in 1 .. Len(order.suites) \/ (suite = 1 /\ Tests = {})
  /\ result \in [Tests -> SUBSET Severities] /\ suite_result \in [Names -> SUBSET Severities]
  /\ ad_hoc \in SUBSET Severities /\ selected \in SUBSET Tests /\ ran \in Seq(Tests)
  /\ failed \in BOOLEAN /\ file \in BOOLEAN /\ bad \in BOOLEAN
  /\ object \in Tests \cup {None, "null"}
  /\ exit \in {None, "0", "1", "exit(0)", "exit(1)", "abort", "crash"}
  /\ current_test_suite \in Names \cup {None} /\ current_test_info \in selected \cup {None}

Position ==
  /\ at \in WithTests => selected # {}
  /\ at \in InSuite => current_test_suite = Suite /\ Selected(Suite) # {}
  /\ at \in Ats \ (InSuite \cup {"ended"}) => current_test_suite = None
  /\ at \in InTest => /\ test \in 1 .. Len(order.tests[Suite])
                      /\ Test \in selected /\ current_test_info = Test
  /\ at \in Ats \ (InTest \cup {"ended"}) => current_test_info = None
  /\ at = "test" => test \in 1 .. Len(order.tests[Suite])

Repeats ==
  /\ at = "main" => iteration = 0 /\ selected = {}
  /\ repeat >= 0 => iteration <= repeat
  /\ at \in Iterating => iteration # repeat
  /\ at = "program_end" => iteration = repeat

(***************************************************************************)
(* ... what a failure leaves behind, ...                                    *)
(***************************************************************************)
FailuresKept ==
  /\ at = "main" => ~failed /\ (bad => Failed(ad_hoc))
  /\ at = "iterate" /\ bad => failed \/ (iteration = 0 /\ Failed(ad_hoc))
  /\ at \in Iterating /\ bad => failed \/ ~Passed
  /\ at = "program_end" /\ bad => failed \/ repeat = 0

Exits ==
  /\ at # "ended" => exit = None
  /\ at \notin {"main", "ended"} => file = (flags.exit_file /\ ~flags.death_child)
  /\ GreenMeansPassed

(***************************************************************************)
(* ... what is set up, from the bottom of the stack, ...                    *)
(***************************************************************************)
Environment(n) == [k \in 1 .. n |-> <<"environment", k>>]
OfTheSuite == Append(Environment(Environments), <<"suite", Suite>>)
OfTheObject == Append(OfTheSuite, <<"object", Test>>)

\* The environments that an iteration finds set up.
Kept == selected # {} /\ ~recreate_environments /\ iteration # 0 /\ iteration # repeat

Stacked ==
  /\ at \in {"main", "program_end"} => open = <<>>
  /\ at = "iterate" => open = IF Kept THEN Environment(Environments) ELSE <<>>
  /\ at = "env_setup" => env \in 1 .. Environments /\ open = Environment(env - 1)
  /\ at \in {"decide", "suite", "SetUpTestSuite", "suite_end"} => open = Environment(Environments)
  /\ at \in {"skip_all", "test", "TearDownTestSuite", "constructor", "test_end"} => open = OfTheSuite
  /\ at = "run" => \/ object = Test /\ open = OfTheObject
                   \/ object = "null" /\ open = OfTheSuite
  /\ at \in {"SetUp", "destructor"} => object = Test /\ open = OfTheObject
  /\ at \in {"TestBody", "TearDown"} => object = Test /\ open = Append(OfTheObject, <<"SetUp", Test>>)
  /\ at = "env_teardown" => /\ env \in 1 .. Environments /\ open = Environment(env)
                            /\ iteration = repeat - 1 \/ recreate_environments
  /\ at = "iteration_end" =>
       open = IF selected # {} /\ ~recreate_environments /\ iteration < repeat - 1
              THEN Environment(Environments) ELSE <<>>

(***************************************************************************)
(* ... which failures a run that fails fast can have behind it, ...         *)
(***************************************************************************)
TestsClean(s) == \A t \in selected \ s : ~Failed(result[t])
SuitesClean(s) == \A x \in Names \ s : ~Failed(suite_result[x])

FailsFast ==
  flags.fail_fast =>
    /\ at \in {"env_setup", "decide", "suite"} => TestsClean({}) /\ SuitesClean({})
    /\ at \in {"SetUpTestSuite", "skip_all"} => TestsClean({}) /\ SuitesClean({Suite})
    /\ at = "test" => TestsClean({}) /\ SuitesClean({})
    /\ at \in InTest => TestsClean({Test}) /\ SuitesClean({})
    /\ at \in {"TearDownTestSuite", "suite_end"} => TestsClean(OfSuite(Suite)) /\ SuitesClean({Suite})

(***************************************************************************)
(* ... and what has been done with the tests of the iteration so far.       *)
(***************************************************************************)
Done(t) == t \in ToSet(ran) \/ "skip" \in result[t]
SuitesDone(n) == \A k \in 1 .. n : \A t \in Selected(order.suites[k]) : Done(t)
TestsDone(n) == \A k \in 1 .. n : order.tests[Suite][k] \in selected => Done(order.tests[Suite][k])

Progress ==
  /\ at \in InSuite \cup {"suite"} => SuitesDone(suite - 1)
  /\ at = "test" => TestsDone(test - 1)
  /\ at \in InTest => TestsDone(test)
  /\ at \in {"TearDownTestSuite", "suite_end"} => \A t \in Selected(Suite) : Done(t)
  /\ at \in {"env_teardown", "iteration_end"} => "skip" \in ad_hoc \/ \A t \in selected : Done(t)

RunInv == RunTyped /\ Position /\ Repeats /\ FailuresKept /\ Exits /\ Stacked /\ FailsFast /\ Progress

(***************************************************************************)
(* Types.                                                                   *)
(***************************************************************************)
LEMMA FlagTypes ==
  ASSUME NEW f \in Flags
  PROVE  /\ f.help \in BOOLEAN /\ f.list_tests \in BOOLEAN /\ f.also_run_disabled \in BOOLEAN
         /\ f.matching \in SUBSET Tests /\ f.total \in Int /\ f.index \in Int
         /\ f.shuffle \in BOOLEAN /\ f.random_seed \in Nat /\ f.repeat \in Int
         /\ f.fail_fast \in BOOLEAN /\ f.exit_file \in BOOLEAN /\ f.death_child \in BOOLEAN
  BY FlagsAssumption

LEMMA RepeatType == flags \in Flags => repeat \in Int
  BY FlagTypes DEF repeat

LEMMA OutcomeTypes ==
  ASSUME NEW o \in {Fine} \cup Outcomes
  PROVE  Recorded(o) \in SUBSET Severities /\ o.ends \in Ways
<1>1. o.parts \in SUBSET Severities /\ o.ends \in Ways
  BY OutcomesAssumption DEF Fine, Ways
<1>2. QED
  BY <1>1 DEF Recorded, Severities

\* The fixtures of two names and the null pointers are told apart.
LEMMA NamesDiffer == None \notin Names /\ None \notin Tests /\ "null" \notin Tests /\ None # "null"
  BY RegisteredAssumption DEF Names, None

(***************************************************************************)
(* A step of user code, and what it reports: to the current test, if there  *)
(* is one, else to the current suite, else to the program.                  *)
(***************************************************************************)
Frame == /\ flags' = flags /\ rnd' = rnd /\ selected' = selected /\ iteration' = iteration
         /\ suite' = suite /\ test' = test /\ order' = order /\ seed' = seed /\ failed' = failed
         /\ current_test_suite' = current_test_suite /\ current_test_info' = current_test_info
         /\ ran' = ran

ResultsTyped ==
  /\ result \in [Tests -> SUBSET Severities] /\ suite_result \in [Names -> SUBSET Severities]
  /\ ad_hoc \in SUBSET Severities

\* The results that a part cannot go to stay as they are.
Grow ==
  /\ \A t \in Tests : result[t] \subseteq result'[t]
  /\ \A t \in Tests : t # current_test_info => result'[t] = result[t]
  /\ \A s \in Names : suite_result[s] \subseteq suite_result'[s]
  /\ \A s \in Names : current_test_info # None \/ s # current_test_suite =>
                        suite_result'[s] = suite_result[s]
  /\ ad_hoc \subseteq ad_hoc'

\* A failure that is new is in the results of what is current.
FailureSeen ==
  IF current_test_info # None THEN Failed(result'[current_test_info])
  ELSE IF current_test_suite # None THEN Failed(suite_result'[current_test_suite])
  ELSE Failed(ad_hoc')

Noted == bad' \in BOOLEAN /\ IF at = "program_end" THEN bad' = bad ELSE bad' => bad \/ FailureSeen

\* There is no user code between the end of an iteration and the next one, ...
Silent == {"iterate", "ended", "suite", "skip_all", "test"}
Reports == at \notin Silent /\ Frame /\ ResultsTyped' /\ Grow /\ Noted

LEMMA PartsAdded ==
  ASSUME RunTyped, NEW parts \in SUBSET Severities, AddTestPartResults(parts)
  PROVE  ResultsTyped' /\ Grow /\ (Failed(parts) => FailureSeen)
<1>1. /\ result \in [Tests -> SUBSET Severities] /\ suite_result \in [Names -> SUBSET Severities]
      /\ ad_hoc \in SUBSET Severities
      /\ current_test_suite \in Names \cup {None} /\ current_test_info \in Tests \cup {None}
  BY DEF RunTyped
<1>2. CASE current_test_info # None
  <2>1. /\ result' = [result EXCEPT ![current_test_info] = result[current_test_info] \cup parts]
        /\ suite_result' = suite_result /\ ad_hoc' = ad_hoc /\ current_test_info \in Tests
    BY <1>1, <1>2 DEF AddTestPartResults
  <2>2. result' \in [Tests -> SUBSET Severities]
    BY <1>1, <2>1
  <2>3. \A t \in Tests : result'[t] = IF t = current_test_info THEN result[t] \cup parts ELSE result[t]
    BY <1>1, <2>1
  <2>4. Failed(parts) => Failed(result'[current_test_info])
    BY <2>1, <2>3 DEF Failed
  <2>5. QED
    BY <1>1, <1>2, <2>1, <2>2, <2>3, <2>4 DEF ResultsTyped, Grow, FailureSeen
<1>3. CASE current_test_info = None /\ current_test_suite # None
  <2>1. /\ suite_result' = [suite_result EXCEPT ![current_test_suite] =
                              suite_result[current_test_suite] \cup parts]
        /\ result' = result /\ ad_hoc' = ad_hoc /\ current_test_suite \in Names
    BY <1>1, <1>3 DEF AddTestPartResults
  <2>2. suite_result' \in [Names -> SUBSET Severities]
    BY <1>1, <2>1
  <2>3. \A s \in Names : suite_result'[s] =
          IF s = current_test_suite THEN suite_result[s] \cup parts ELSE suite_result[s]
    BY <1>1, <2>1
  <2>4. Failed(parts) => Failed(suite_result'[current_test_suite])
    BY <2>1, <2>3 DEF Failed
  <2>5. QED
    BY <1>1, <1>3, <2>1, <2>2, <2>3, <2>4 DEF ResultsTyped, Grow, FailureSeen
<1>4. CASE current_test_info = None /\ current_test_suite = None
  <2>1. result' = result /\ suite_result' = suite_result /\ ad_hoc' = ad_hoc \cup parts
    BY <1>4 DEF AddTestPartResults
  <2>2. Failed(parts) => Failed(ad_hoc')
    BY <2>1 DEF Failed
  <2>3. QED
    BY <1>1, <1>4, <2>1, <2>2 DEF ResultsTyped, Grow, FailureSeen
<1>5. QED
  BY <1>2, <1>3, <1>4

LEMMA UserReports ==
  ASSUME RunTyped, NEW place, NEW o, UserCall(place, o), place \notin Silent
  PROVE  Reports /\ at = place /\ o.ends \in Ways
<1>7. o \in {Fine} \cup Outcomes
  BY DEF UserCall
<1>1. at = place /\ AddTestPartResults(Recorded(o)) /\ Frame
      /\ bad' = (bad \/ (Failed(Recorded(o)) /\ place # "program_end"))
  BY DEF UserCall, Frame, setting, current
<1>2. Recorded(o) \in SUBSET Severities /\ o.ends \in Ways
  BY <1>7, OutcomeTypes
<1>3. ResultsTyped' /\ Grow /\ (Failed(Recorded(o)) => FailureSeen)
  BY <1>1, <1>2, PartsAdded
<1>4. bad \in BOOLEAN /\ Failed(Recorded(o)) \in BOOLEAN
  BY DEF RunTyped, Failed
<1>5. Noted
  BY <1>1, <1>3, <1>4 DEF Noted
<1>6. QED
  BY <1>1, <1>2, <1>3, <1>5 DEF Reports

(***************************************************************************)
(* After a step of user code the process has ended, or a listener has       *)
(* returned and nothing moves, or the run goes on.                          *)
(***************************************************************************)
Ending == /\ at' = "ended" /\ exit' \in {"1", "abort", "crash", "exit(0)"}
          /\ (exit' = "exit(0)" => file' = file /\ at # "main")
          /\ file' \in BOOLEAN /\ env' = env /\ object' = object /\ open' = open
Staying == /\ at' = at /\ exit' = exit /\ file' = file
           /\ env' = env /\ object' = object /\ open' = open

EnvironmentUp == /\ at = "env_setup" /\ at' = IF env = Environments THEN "decide" ELSE "env_setup"
                 /\ env' = env + 1 /\ object' = object /\ open' = Append(open, <<"environment", env>>)
SuiteUp == /\ at = "SetUpTestSuite" /\ at' = "skip_all"
           /\ env' = env /\ object' = object /\ open' = Append(open, <<"suite", Suite>>)
ObjectUp == /\ at = "constructor" /\ at' = "run" /\ env' = env
            /\ \/ object' = Test /\ open' = Append(open, <<"object", Test>>)
               \/ object' = "null" /\ open' = open
Ran == /\ at = "run" /\ at' \in IF object = "null" THEN {"test_end"} ELSE {"destructor", "SetUp"}
       /\ env' = env /\ object' = object /\ open' = open
TestUp == /\ at = "SetUp" /\ at' \in {"TearDown", "TestBody"}
          /\ env' = env /\ object' = object /\ open' = Append(open, <<"SetUp", Test>>)
BodyRan == /\ at = "TestBody" /\ at' = "TearDown" /\ env' = env /\ object' = object /\ open' = open
TestDown == /\ at = "TearDown" /\ at' = "destructor"
            /\ env' = env /\ object' = object /\ open' = Front(open)
ObjectDown == /\ at = "destructor" /\ at' = "test_end"
              /\ env' = env /\ object' = None /\ open' = Front(open)
SuiteDown == /\ at = "TearDownTestSuite" /\ at' = "suite_end"
             /\ env' = env /\ object' = object /\ open' = Front(open)
EnvironmentDown == /\ at = "env_teardown" /\ at' = IF env = 1 THEN "iteration_end" ELSE "env_teardown"
                   /\ env' = env - 1 /\ object' = object /\ open' = Front(open)

Going == /\ exit' = exit /\ file' = file
         /\ \/ EnvironmentUp \/ SuiteUp \/ ObjectUp \/ Ran \/ TestUp \/ BodyRan
            \/ TestDown \/ ObjectDown \/ SuiteDown \/ EnvironmentDown

UserStep == Reports /\ (Ending \/ Staying \/ Going)
UserAction == \/ MainAsserts \/ Listener \/ SetUpEnvironment \/ SetUpTestSuite \/ Constructor \/ RunTest
              \/ SetUp \/ TestBody \/ TearDown \/ Destructor \/ TearDownTestSuite \/ TearDownEnvironment

LEMMA DiesEnds ==
  ASSUME RunTyped, NEW o, Dies(o), at # "main"
  PROVE  Ending
  BY DEF Dies, End, Ending, RunTyped

LEMMA EscapesEnds ==
  ASSUME NEW o, Escapes(o)
  PROVE  Ending
  BY DEF Escapes, Return, End, Ending

LEMMA UserSteps ==
  ASSUME RunTyped, UserAction
  PROVE  UserStep
<1>1. CASE MainAsserts
  <2>1. PICK o \in Outcomes : UserCall("main", o)
    BY <1>1 DEF MainAsserts
  <2>2. Reports
    BY <2>1, UserReports DEF Silent
  <2>3. Staying
    BY <1>1 DEF MainAsserts, Staying
  <2>4. QED
    BY <2>2, <2>3 DEF UserStep
<1>2. CASE Listener
  <2>1. PICK place \in ListenerPoints, o \in Outcomes :
          /\ UserCall(place, o)
          /\ \/ UNCHANGED <<at, env, object, exit, file, open>>
             \/ Dies(o)
             \/ Escapes(o)
    BY <1>2 DEF Listener
  <2>2. Reports /\ at # "main"
    BY <2>1, UserReports DEF ListenerPoints, Silent
  <2>3. UNCHANGED <<at, env, object, exit, file, open>> => Staying
    BY DEF Staying
  <2>4. QED
    BY <2>1, <2>2, <2>3, DiesEnds, EscapesEnds DEF UserStep
<1>3. CASE SetUpEnvironment
  <2>1. PICK o \in {Fine} \cup Outcomes :
          /\ UserCall("env_setup", o)
          /\ \/ Dies(o)
             \/ Escapes(o)
             \/ exit' = exit /\ file' = file /\ EnvironmentUp
    BY <1>3 DEF SetUpEnvironment, EnvironmentUp, UserCall
  <2>2. Reports /\ at # "main"
    BY <2>1, UserReports DEF Silent
  <2>3. QED
    BY <2>1, <2>2, DiesEnds, EscapesEnds DEF UserStep, Going
<1>4. CASE SetUpTestSuite
  <2>1. PICK o \in {Fine} \cup Outcomes :
          /\ UserCall("SetUpTestSuite", o)
          /\ Dies(o) \/ (exit' = exit /\ file' = file /\ SuiteUp)
    BY <1>4 DEF SetUpTestSuite, Handled, SuiteUp, UserCall
  <2>2. Reports /\ at # "main"
    BY <2>1, UserReports DEF Silent
  <2>3. QED
    BY <2>1, <2>2, DiesEnds DEF UserStep, Going
<1>5. CASE Constructor
  <2>1. PICK o \in {Fine} \cup Outcomes :
          /\ UserCall("constructor", o)
          /\ Dies(o) \/ (exit' = exit /\ file' = file /\ ObjectUp)
    BY <1>5 DEF Constructor, Handled, ObjectUp, UserCall
  <2>2. Reports /\ at # "main"
    BY <2>1, UserReports DEF Silent
  <2>3. QED
    BY <2>1, <2>2, DiesEnds DEF UserStep, Going
<1>6. CASE RunTest
  <2>1. /\ at = "run" /\ env' = env /\ object' = object /\ open' = open /\ file' = file /\ Frame
    BY <1>6 DEF RunTest, loop, setting, current, Frame
  <2>2. /\ results' = results \/ AddTestPartResults({"nonfatal"})
        /\ bad' = bad \/ (bad' = TRUE /\ AddTestPartResults({"nonfatal"}))
        /\ \/ at' = "ended" /\ exit' \in {"abort", "crash"}
           \/ exit' = exit /\ at' \in {AfterRun, "SetUp"} /\ (at' = "SetUp" => object # "null")
    <3> DEFINE go == ~HasFatalFailure /\ ~IsSkipped
               same == HasSameFixtureClass(Test)
    <3>1. CASE ~go
      BY <1>6, <3>1 DEF RunTest, AfterRun
    <3>2. CASE go /\ ~same
      BY <1>6, <3>2 DEF RunTest, End, AfterRun
    <3>3. CASE go /\ same /\ object = "null"
      BY <1>6, <3>3 DEF RunTest, End
    <3>4. CASE go /\ same /\ object # "null"
      BY <1>6, <3>4 DEF RunTest, End
    <3>5. QED
      BY <3>1, <3>2, <3>3, <3>4
  <2>3. Ending \/ Going
    <3>1. file' \in BOOLEAN
      BY <2>1 DEF RunTyped
    <3>2. CASE at' = "ended" /\ exit' \in {"abort", "crash"}
      BY <2>1, <3>1, <3>2 DEF Ending
    <3>3. CASE exit' = exit /\ at' \in {AfterRun, "SetUp"} /\ (at' = "SetUp" => object # "null")
      BY <2>1, <3>3 DEF Going, Ran, AfterRun
    <3>4. QED
      BY <2>2, <3>2, <3>3
  <2>4. ResultsTyped' /\ Grow
    <3>1. CASE results' = results
      BY <3>1 DEF results, ResultsTyped, Grow, RunTyped
    <3>2. CASE AddTestPartResults({"nonfatal"})
      BY <3>2, PartsAdded DEF Severities
    <3>3. QED
      BY <2>2, <3>1, <3>2
  <2>5. Noted
    <3>1. CASE bad' = bad
      BY <2>1, <3>1 DEF Noted, RunTyped
    <3>2. CASE bad' = TRUE /\ AddTestPartResults({"nonfatal"})
      <4>1. Failed({"nonfatal"})
        BY DEF Failed, Failure
      <4>2. FailureSeen
        BY <3>2, <4>1, PartsAdded DEF Severities
      <4>3. QED
        BY <2>1, <3>2, <4>2 DEF Noted
    <3>3. QED
      BY <2>2, <3>1, <3>2
  <2>6. QED
    BY <2>1, <2>3, <2>4, <2>5 DEF UserStep, Reports, Silent
<1>7. CASE SetUp
  <2>1. PICK o \in {Fine} \cup Outcomes :
          /\ UserCall("SetUp", o)
          /\ Dies(o) \/ (exit' = exit /\ file' = file /\ TestUp)
    BY <1>7 DEF SetUp, Handled, TestUp, AfterSetUp, UserCall
  <2>2. Reports /\ at # "main"
    BY <2>1, UserReports DEF Silent
  <2>3. QED
    BY <2>1, <2>2, DiesEnds DEF UserStep, Going
<1>8. CASE TestBody
  <2>1. PICK o \in {Fine} \cup Outcomes :
          /\ UserCall("TestBody", o)
          /\ Dies(o) \/ (exit' = exit /\ file' = file /\ BodyRan)
    BY <1>8 DEF TestBody, Handled, BodyRan, UserCall
  <2>2. Reports /\ at # "main"
    BY <2>1, UserReports DEF Silent
  <2>3. QED
    BY <2>1, <2>2, DiesEnds DEF UserStep, Going
<1>9. CASE TearDown
  <2>1. PICK o \in {Fine} \cup Outcomes :
          /\ UserCall("TearDown", o)
          /\ Dies(o) \/ (exit' = exit /\ file' = file /\ TestDown)
    BY <1>9 DEF TearDown, Handled, TestDown, UserCall
  <2>2. Reports /\ at # "main"
    BY <2>1, UserReports DEF Silent
  <2>3. QED
    BY <2>1, <2>2, DiesEnds DEF UserStep, Going
<1>10. CASE Destructor
  <2>1. PICK o \in {Fine} \cup Outcomes :
          \/ /\ UserCall("destructor", [o EXCEPT !.ends = "asserts"])
             /\ End("abort") /\ UNCHANGED <<env, object, file, open>>
          \/ UserCall("destructor", o) /\ Dies(o)
          \/ UserCall("destructor", o) /\ exit' = exit /\ file' = file /\ ObjectDown
    BY <1>10 DEF Destructor, Handled, ObjectDown, UserCall
  <2>2. Reports /\ at = "destructor"
    BY <2>1, UserReports DEF Silent
  <2>3. End("abort") /\ UNCHANGED <<env, object, file, open>> => Ending
    BY <2>2 DEF End, Ending, RunTyped
  <2>4. QED
    BY <2>1, <2>2, <2>3, DiesEnds DEF UserStep, Going
<1>11. CASE TearDownTestSuite
  <2>1. PICK o \in {Fine} \cup Outcomes :
          /\ UserCall("TearDownTestSuite", o)
          /\ Dies(o) \/ (exit' = exit /\ file' = file /\ SuiteDown)
    BY <1>11 DEF TearDownTestSuite, Handled, SuiteDown, UserCall
  <2>2. Reports /\ at # "main"
    BY <2>1, UserReports DEF Silent
  <2>3. QED
    BY <2>1, <2>2, DiesEnds DEF UserStep, Going
<1>12. CASE TearDownEnvironment
  <2>1. PICK o \in {Fine} \cup Outcomes :
          /\ UserCall("env_teardown", o)
          /\ \/ Dies(o)
             \/ Escapes(o)
             \/ exit' = exit /\ file' = file /\ EnvironmentDown
    BY <1>12 DEF TearDownEnvironment, EnvironmentDown, UserCall
  <2>2. Reports /\ at # "main"
    BY <2>1, UserReports DEF Silent
  <2>3. QED
    BY <2>1, <2>2, DiesEnds, EscapesEnds DEF UserStep, Going
<1>13. QED
  BY <1>1, <1>2, <1>3, <1>4, <1>5, <1>6, <1>7, <1>8, <1>9, <1>10, <1>11, <1>12 DEF UserAction

(***************************************************************************)
(* A step of user code keeps the invariant.                                 *)
(***************************************************************************)
Moves == \/ at' = "ended"
         \/ /\ (at' \in InSuite) = (at \in InSuite)
            /\ (at' \in InTest) = (at \in InTest)
            /\ (at' \in Iterating) = (at \in Iterating)
            /\ at' \in WithTests => at \in WithTests
            /\ at' \in {"main", "iterate", "program_end", "suite", "test"} => at' = at

LEMMA UserMoves ==
  ASSUME RunTyped, UserStep
  PROVE  Moves /\ at' \in Ats
<1>1. CASE Ending
  BY <1>1 DEF Ending, Moves, Ats
<1>2. CASE Staying
  BY <1>2 DEF Staying, Moves, RunTyped
<1>3. CASE Going
  <2> USE DEF Going, Moves, Ats, Iterating, WithTests, InSuite, InTest
  <2>1. CASE EnvironmentUp
    BY <2>1 DEF EnvironmentUp
  <2>2. CASE SuiteUp
    BY <2>2 DEF SuiteUp
  <2>3. CASE ObjectUp
    BY <2>3 DEF ObjectUp
  <2>4. CASE Ran
    BY <2>4 DEF Ran
  <2>5. CASE TestUp
    BY <2>5 DEF TestUp
  <2>6. CASE BodyRan
    BY <2>6 DEF BodyRan
  <2>7. CASE TestDown
    BY <2>7 DEF TestDown
  <2>8. CASE ObjectDown
    BY <2>8 DEF ObjectDown
  <2>9. CASE SuiteDown
    BY <2>9 DEF SuiteDown
  <2>10. CASE EnvironmentDown
    BY <2>10 DEF EnvironmentDown
  <2>11. QED
    BY <1>3, <2>1, <2>2, <2>3, <2>4, <2>5, <2>6, <2>7, <2>8, <2>9, <2>10
<1>4. QED
  BY <1>1, <1>2, <1>3 DEF UserStep

LEMMA FrameFacts ==
  ASSUME Frame
  PROVE  /\ Suite' = Suite /\ Test' = Test /\ repeat' = repeat
         /\ recreate_environments' = recreate_environments
         /\ \A s : Selected(s)' = Selected(s)
  BY DEF Frame, Suite, Test, repeat, recreate_environments, Selected

\* Everywhere but at the end of the program the current test and suite are known.
LEMMA Placed ==
  ASSUME RunTyped, Position, at # "ended"
  PROVE  /\ current_test_info = IF at \in InTest THEN Test ELSE None
         /\ current_test_suite = IF at \in InSuite THEN Suite ELSE None
         /\ at \in InTest => Test \in selected /\ Test \in Tests /\ SuiteOf(Test) = Suite
         /\ at \in InSuite => suite \in 1 .. Len(order.suites) /\ Suite \in Names
<1>1. current_test_info = IF at \in InTest THEN Test ELSE None
  BY DEF RunTyped, Position
<1>2. current_test_suite = IF at \in InSuite THEN Suite ELSE None
  BY DEF RunTyped, Position
<1>3. ASSUME at \in InSuite PROVE suite \in 1 .. Len(order.suites) /\ Suite \in Names
  <2>1. selected # {} /\ selected \subseteq Tests
    BY <1>3 DEF Position, WithTests, RunTyped
  <2>2. suite \in 1 .. Len(order.suites)
    BY <2>1 DEF RunTyped
  <2>3. QED
    BY <2>2, ListFacts DEF RunTyped, Suite
<1>4. ASSUME at \in InTest PROVE Test \in selected /\ Test \in Tests /\ SuiteOf(Test) = Suite
  <2>1. Test \in selected /\ test \in 1 .. Len(order.tests[Suite]) /\ selected \subseteq Tests
    BY <1>4 DEF Position, RunTyped
  <2>2. Suite \in Names
    BY <1>3, <1>4 DEF InSuite
  <2>3. test \in DOMAIN order.tests[Suite] /\ ToSet(order.tests[Suite]) = OfSuite(Suite)
    BY <2>1, <2>2, ListFacts DEF RunTyped
  <2>4. Test \in OfSuite(Suite)
    BY <2>3 DEF ToSet, Test
  <2>5. QED
    BY <2>1, <2>4 DEF OfSuite
<1>5. QED
  BY <1>1, <1>2, <1>3, <1>4

LEMMA UserTyped ==
  ASSUME RunTyped, Position, Stacked, UserStep
  PROVE  RunTyped'
<1>1. Reports /\ Frame /\ ResultsTyped' /\ bad' \in BOOLEAN
  BY DEF UserStep, Reports, Noted
<1>2. at' \in Ats
  BY UserMoves
<1>3. env' \in Nat
  <2>1. CASE env' = env
    BY <2>1 DEF RunTyped
  <2>2. CASE EnvironmentUp
    BY <2>2 DEF EnvironmentUp, RunTyped
  <2>3. CASE EnvironmentDown
    <3>1. env \in 1 .. Environments
      BY <2>3 DEF EnvironmentDown, Stacked
    <3>2. QED
      BY <2>3, <3>1, FlagsAssumption DEF EnvironmentDown
  <2>4. QED
    BY <2>1, <2>2, <2>3 DEF UserStep, Ending, Staying, Going, SuiteUp, ObjectUp, Ran, TestUp, BodyRan,
                            TestDown, ObjectDown, SuiteDown
<1>4. object' \in Tests \cup {None, "null"}
  <2>1. CASE object' = object
    BY <2>1 DEF RunTyped
  <2>2. CASE ObjectUp
    BY <2>2, Placed DEF ObjectUp, RunTyped, InTest
  <2>3. CASE ObjectDown
    BY <2>3 DEF ObjectDown
  <2>4. QED
    BY <2>1, <2>2, <2>3 DEF UserStep, Ending, Staying, Going, EnvironmentUp, SuiteUp, Ran, TestUp,
                            BodyRan, TestDown, SuiteDown, EnvironmentDown
<1>5. exit' \in {None, "0", "1", "exit(0)", "exit(1)", "abort", "crash"} /\ file' \in BOOLEAN
  BY DEF UserStep, Ending, Staying, Going, RunTyped
<1>6. QED
  BY <1>1, <1>2, <1>3, <1>4, <1>5 DEF RunTyped, Frame, ResultsTyped

LEMMA UserPosition ==
  ASSUME RunTyped, Position, UserStep
  PROVE  Position'
<1>1. Frame /\ Moves /\ at' \in Ats /\ at # "ended"
  BY UserMoves DEF UserStep, Reports, Silent
<1>2. CASE at' = "ended"
  BY <1>2 DEF Position, WithTests, InSuite, InTest
<1>3. CASE at' # "ended"
  <2>1. /\ (at' \in InSuite) = (at \in InSuite) /\ (at' \in InTest) = (at \in InTest)
        /\ at' \in WithTests => at \in WithTests
        /\ at' = "test" => at = "test"
    BY <1>1, <1>3 DEF Moves
  <2>2. Suite' = Suite /\ Test' = Test /\ Selected(Suite)' = Selected(Suite)
    BY <1>1, FrameFacts
  <2>3. at \in Ats
    BY DEF RunTyped
  <2>4. QED
    BY <1>1, <1>3, <2>1, <2>2, <2>3 DEF Position, Frame
<1>4. QED
  BY <1>2, <1>3

LEMMA UserRepeats ==
  ASSUME RunTyped, Repeats, UserStep
  PROVE  Repeats'
<1>1. Frame /\ Moves /\ repeat' = repeat
  BY UserMoves, FrameFacts DEF UserStep, Reports
<1>2. CASE at' = "ended"
  BY <1>1, <1>2 DEF Repeats, Iterating, WithTests, InSuite, InTest, Frame
<1>3. CASE at' # "ended"
  BY <1>1, <1>3 DEF Repeats, Moves, Frame
<1>4. QED
  BY <1>2, <1>3

\* What has failed stays failed.
LEMMA FailedGrows ==
  ASSUME Frame, Grow
  PROVE  /\ Failed(ad_hoc) => Failed(ad_hoc')
         /\ \A t \in Tests : Failed(result[t]) => Failed(result'[t])
         /\ \A s \in Names : Failed(suite_result[s]) => Failed(suite_result'[s])
  BY DEF Grow, Failed

\* Not to have passed is to have failed somewhere.
SomethingFailed ==
  \/ Failed(ad_hoc)
  \/ \E s \in Names : Selected(s) # {} /\ Failed(suite_result[s])
  \/ \E t \in selected : Failed(result[t])

LEMMA NotPassed ==
  ASSUME selected \subseteq Tests
  PROVE  ~Passed <=> SomethingFailed
<1>1. ToSet(test_suites) = Names
  BY SuitesFacts
<1>2. \A t \in selected : t \in Selected(SuiteOf(t)) /\ SuiteOf(t) \in Names
  BY SuiteOfFacts DEF Selected
<1>3. \A s \in Names : \A t \in Selected(s) : t \in selected
  BY DEF Selected
<1>4. ~Passed <=> \/ Failed(ad_hoc)
                  \/ \E s \in Names : Selected(s) # {} /\ SuiteFailed(s)
  BY <1>1 DEF Passed
<1>5. \A s \in Names : SuiteFailed(s) <=> Failed(suite_result[s]) \/ \E t \in Selected(s) : Failed(result[t])
  BY DEF SuiteFailed
<1>6. QED
  BY <1>2, <1>3, <1>4, <1>5 DEF SomethingFailed

LEMMA NotPassedNext ==
  ASSUME selected' \subseteq Tests
  PROVE  ~Passed' <=> SomethingFailed'
<1>1. ToSet(test_suites) = Names
  BY SuitesFacts
<1>2. \A t \in selected' : t \in Selected(SuiteOf(t))' /\ SuiteOf(t) \in Names
  BY SuiteOfFacts DEF Selected
<1>3. \A s \in Names : \A t \in Selected(s)' : t \in selected'
  BY DEF Selected
<1>4. ~Passed' <=> \/ Failed(ad_hoc')
                   \/ \E s \in Names : Selected(s)' # {} /\ SuiteFailed(s)'
  BY <1>1 DEF Passed
<1>5. \A s \in Names : SuiteFailed(s)' <=> \/ Failed(suite_result'[s])
                                          \/ \E t \in Selected(s)' : Failed(result'[t])
  BY DEF SuiteFailed
<1>6. QED
  BY <1>2, <1>3, <1>4, <1>5 DEF SomethingFailed

LEMMA UserFailures ==
  ASSUME RunTyped, Position, Repeats, FailuresKept, UserStep
  PROVE  FailuresKept'
<1>1. Frame /\ Grow /\ Noted /\ Moves /\ repeat' = repeat /\ at \notin Silent
  BY UserMoves, FrameFacts DEF UserStep, Reports
<1>2. selected \subseteq Tests /\ selected' \subseteq Tests /\ at \in Ats
  BY <1>1 DEF RunTyped, Frame
<1>3. CASE at' = "ended"
  BY <1>3 DEF FailuresKept, Iterating, WithTests, InSuite, InTest
<1>4. CASE at = "program_end"
  BY <1>1, <1>4 DEF FailuresKept, Moves, Frame, Noted, Iterating, WithTests, InSuite, InTest
<1>5. CASE at # "program_end" /\ at' # "ended" /\ at = "main"
  <2>1. bad' => bad \/ Failed(ad_hoc')
    BY <1>1, <1>2, <1>5, Placed DEF Noted, FailureSeen, InSuite, InTest, Ats
  <2>2. Failed(ad_hoc) => Failed(ad_hoc')
    BY <1>1, FailedGrows
  <2>3. bad' => Failed(ad_hoc')
    BY <1>5, <2>1, <2>2 DEF FailuresKept
  <2>4. at' = "main" /\ failed' = failed
    BY <1>1, <1>5 DEF UserStep, Ending, Staying, Going, EnvironmentUp, SuiteUp, ObjectUp, Ran, TestUp,
       BodyRan, TestDown, ObjectDown, SuiteDown, EnvironmentDown, Frame
  <2>5. QED
    BY <1>5, <2>3, <2>4 DEF FailuresKept, Iterating, WithTests, InSuite, InTest
<1>6. CASE at # "program_end" /\ at' # "ended" /\ at # "main"
  <2>1. at \in Iterating /\ at' \in Iterating
    BY <1>1, <1>2, <1>6 DEF Moves, Silent, Ats, Iterating, WithTests, InSuite
  <2>2. SomethingFailed => SomethingFailed'
    <3>1. \A s : Selected(s)' = Selected(s)
      BY <1>1, FrameFacts
    <3>2. selected' = selected
      BY <1>1 DEF Frame
    <3>3. QED
      BY <1>1, <1>2, <3>1, <3>2, FailedGrows DEF SomethingFailed
  <2>3. FailureSeen => SomethingFailed'
    <3>1. /\ current_test_info = IF at \in InTest THEN Test ELSE None
          /\ current_test_suite = IF at \in InSuite THEN Suite ELSE None
          /\ at \in InTest => Test \in selected
          /\ at \in InSuite => Suite \in Names
      BY <1>1, Placed DEF Silent
    <3>3. selected' = selected
      BY <1>1 DEF Frame
    <3>4. CASE at \in InTest
      <4>1. Test # None /\ Test \in selected'
        BY <1>2, <3>1, <3>3, <3>4, NamesDiffer
      <4>2. FailureSeen => Failed(result'[Test])
        BY <3>1, <3>4, <4>1 DEF FailureSeen
      <4>3. QED
        BY <4>1, <4>2 DEF SomethingFailed
    <3>5. CASE at \notin InTest /\ at \in InSuite
      <4>1. Suite # None /\ Suite \in Names
        BY <3>1, <3>5, NamesDiffer
      <4>2. FailureSeen => Failed(suite_result'[Suite])
        BY <3>1, <3>5, <4>1 DEF FailureSeen
      <4>3. PICK s : s = Suite
        OBVIOUS
      <4>4. Selected(s)' = Selected(s) /\ Selected(s) # {} /\ s \in Names
        BY <1>1, <3>5, <4>1, <4>3, FrameFacts DEF Position
      <4>5. QED
        BY <4>2, <4>3, <4>4 DEF SomethingFailed
    <3>6. CASE at \notin InTest /\ at \notin InSuite
      BY <3>1, <3>6 DEF FailureSeen, SomethingFailed
    <3>7. QED
      BY <3>4, <3>5, <3>6
  <2>4. bad' => bad \/ FailureSeen
    BY <1>1, <1>6 DEF Noted
  <2>5. bad => failed \/ ~Passed
    BY <2>1 DEF FailuresKept
  <2>6. bad' => failed' \/ ~Passed'
    BY <1>1, <1>2, <2>2, <2>3, <2>4, <2>5, NotPassed, NotPassedNext DEF Frame
  <2>7. QED
    BY <1>1, <2>1, <2>6 DEF FailuresKept, Iterating, WithTests, InSuite, InTest
<1>7. QED
  BY <1>3, <1>4, <1>5, <1>6

LEMMA UserExits ==
  ASSUME RunTyped, Exits, UserStep
  PROVE  Exits'
<1>1. Frame /\ at \notin Silent /\ repeat' = repeat
  BY FrameFacts DEF UserStep, Reports
<1>2. exit = None /\ flags' = flags
  BY <1>1 DEF Exits, Silent, Frame
<1>3. at # "main" => file = (flags.exit_file /\ ~flags.death_child)
  BY <1>1 DEF Exits, Silent
<1>4. CASE Ending
  <2>1. exit' # "0"
    BY <1>4 DEF Ending
  <2>2. exit' = "exit(0)" => file' = (flags.exit_file /\ ~flags.death_child)
    BY <1>3, <1>4 DEF Ending
  <2>3. GreenMeansPassed'
    BY <1>2, <2>1, <2>2 DEF GreenMeansPassed
  <2>4. QED
    BY <1>4, <2>3 DEF Exits, Ending
<1>5. CASE Staying \/ Going
  <2>1. exit' = exit /\ file' = file
    BY <1>5 DEF Staying, Going
  <2>2. at' # "main" => at # "main"
    BY <1>5 DEF Staying, Going, EnvironmentUp, SuiteUp, ObjectUp, Ran, TestUp,
       BodyRan, TestDown, ObjectDown, SuiteDown, EnvironmentDown
  <2>3. at' # "ended"
    BY <1>1, <1>5 DEF Staying, Going, EnvironmentUp, SuiteUp, ObjectUp, Ran, TestUp,
       BodyRan, TestDown, ObjectDown, SuiteDown, EnvironmentDown, Silent
  <2>4. GreenMeansPassed'
    BY <1>2, <2>1 DEF GreenMeansPassed, None
  <2>5. QED
    BY <1>2, <1>3, <2>1, <2>2, <2>3, <2>4 DEF Exits
<1>6. QED
  BY <1>4, <1>5 DEF UserStep

(***************************************************************************)
(* The stack of what is set up.                                             *)
(***************************************************************************)
Entries == {"environment", "suite", "object", "SetUp"} \X (Nat \cup Names \cup Tests)

\* What is pushed last is popped first.
LEMMA PushPop ==
  ASSUME NEW s \in Seq(Entries), NEW e \in Entries
  PROVE  Append(s, e) \in Seq(Entries) /\ Front(Append(s, e)) = s /\ Last(Append(s, e)) = e
<1>1. /\ Append(s, e) \in Seq(Entries) /\ Len(Append(s, e)) = Len(s) + 1 /\ Len(s) \in Nat
      /\ \A i \in 1 .. Len(s) : Append(s, e)[i] = s[i]
      /\ Append(s, e)[Len(s) + 1] = e /\ DOMAIN s = 1 .. Len(s) /\ s \in [1 .. Len(s) -> Entries]
  BY AppendProperties, LenProperties
<1>2. Last(Append(s, e)) = e
  BY <1>1 DEF Last
<1>3. Len(s) + 1 - 1 = Len(s)
  BY <1>1
<1> DEFINE q == Append(s, e)
<1> HIDE DEF q
<1>4. q \in Seq(Entries) /\ Len(q) = Len(s) + 1
  BY <1>1 DEF q
<1>5. SubSeq(q, 1, Len(s)) = [i \in 1 .. Len(s) |-> q[i]]
  BY <1>1, <1>4, SubSeqProperties
<1>6. SubSeq(q, 1, Len(s)) = s
  BY <1>1, <1>5 DEF q
<1>7. QED
  BY <1>1, <1>2, <1>3, <1>6 DEF Front, q

LEMMA EnvironmentFacts ==
  ASSUME NEW n \in Nat
  PROVE  /\ Environment(n) \in Seq(Entries) /\ Environment(0) = <<>>
         /\ Append(Environment(n), <<"environment", n + 1>>) = Environment(n + 1)
<1>1. \A k \in Nat : Environment(k) \in [1 .. k -> Entries]
  BY DEF Environment, Entries
<1>2. \A k \in Nat : Environment(k) \in Seq(Entries) /\ Len(Environment(k)) = k
  BY <1>1
<1>3. Environment(0) = <<>>
  BY <1>2, EmptySeq
<1>4. <<"environment", n + 1>> \in Entries
  BY DEF Entries
<1> DEFINE a == Append(Environment(n), <<"environment", n + 1>>)
           z == Environment(n + 1)
<1>5. a \in Seq(Entries) /\ Len(a) = n + 1 /\ a[n + 1] = <<"environment", n + 1>>
      /\ \A i \in 1 .. n : a[i] = Environment(n)[i]
  BY <1>2, <1>4, AppendProperties
<1>6. \A i \in 1 .. n : Environment(n)[i] = <<"environment", i>> /\ z[i] = <<"environment", i>>
  <2>1. \A i \in 1 .. n : i \in 1 .. n + 1
    OBVIOUS
  <2>2. QED
    BY <2>1 DEF Environment
<1>7. z[n + 1] = <<"environment", n + 1>>
  BY DEF Environment
<1>8. z \in Seq(Entries) /\ Len(z) = n + 1
  BY <1>2
<1> HIDE DEF a, z
<1>9. \A i \in 1 .. n + 1 : a[i] = z[i]
  <2>1. \A i \in 1 .. n : a[i] = z[i]
    BY <1>5, <1>6
  <2>2. \A i \in 1 .. n + 1 : i \in 1 .. n \/ i = n + 1
    OBVIOUS
  <2>3. QED
    BY <1>5, <1>7, <2>1, <2>2
<1>10. a = z
  BY <1>5, <1>8, <1>9, SeqEqual
<1>11. QED
  BY <1>2, <1>3, <1>10 DEF a, z

\* The stacks of a suite that is current, and of its test.
LEMMA StackFacts ==
  ASSUME RunTyped, Position, at \in InSuite
  PROVE  /\ OfTheSuite \in Seq(Entries) /\ Front(OfTheSuite) = Environment(Environments)
         /\ Last(OfTheSuite) = <<"suite", Suite>>
         /\ at \in InTest =>
              /\ OfTheObject \in Seq(Entries) /\ Front(OfTheObject) = OfTheSuite
              /\ Last(OfTheObject) = <<"object", Test>>
              /\ Front(Append(OfTheObject, <<"SetUp", Test>>)) = OfTheObject
              /\ Last(Append(OfTheObject, <<"SetUp", Test>>)) = <<"SetUp", Test>>
<1>1. Suite \in Names /\ (at \in InTest => Test \in Tests)
  BY Placed DEF InSuite, InTest
<1>2. Environment(Environments) \in Seq(Entries)
  BY FlagsAssumption, EnvironmentFacts
<1>3. <<"suite", Suite>> \in Entries
  BY <1>1 DEF Entries
<1>4. /\ OfTheSuite \in Seq(Entries) /\ Front(OfTheSuite) = Environment(Environments)
      /\ Last(OfTheSuite) = <<"suite", Suite>>
  BY <1>2, <1>3, PushPop DEF OfTheSuite
<1>5. ASSUME at \in InTest
      PROVE  /\ OfTheObject \in Seq(Entries) /\ Front(OfTheObject) = OfTheSuite
             /\ Last(OfTheObject) = <<"object", Test>>
             /\ Front(Append(OfTheObject, <<"SetUp", Test>>)) = OfTheObject
             /\ Last(Append(OfTheObject, <<"SetUp", Test>>)) = <<"SetUp", Test>>
  <2>1. <<"object", Test>> \in Entries /\ <<"SetUp", Test>> \in Entries
    BY <1>1, <1>5 DEF Entries
  <2>2. /\ OfTheObject \in Seq(Entries) /\ Front(OfTheObject) = OfTheSuite
        /\ Last(OfTheObject) = <<"object", Test>>
    BY <1>4, <2>1, PushPop DEF OfTheObject
  <2>3. QED
    BY <2>1, <2>2, PushPop
<1>6. QED
  BY <1>4, <1>5

LEMMA UserStacked ==
  ASSUME RunTyped, Position, Stacked, UserStep
  PROVE  Stacked'
<1>1. Frame /\ Suite' = Suite /\ Test' = Test /\ repeat' = repeat /\ Kept' = Kept
      /\ recreate_environments' = recreate_environments /\ at \notin Silent /\ selected' = selected
      /\ iteration' = iteration /\ OfTheSuite' = OfTheSuite /\ OfTheObject' = OfTheObject
      /\ at \in Ats
  <2>1. Frame /\ at \notin Silent
    BY DEF UserStep, Reports
  <2>2. Suite' = Suite /\ Test' = Test /\ repeat' = repeat /\ recreate_environments' = recreate_environments
        /\ selected' = selected /\ iteration' = iteration
    BY <2>1, FrameFacts DEF Frame
  <2>3. OfTheSuite' = OfTheSuite
    BY <2>2 DEF OfTheSuite, Environment
  <2>4. QED
    BY <2>1, <2>2, <2>3 DEF OfTheObject, Kept, RunTyped
<1>2. CASE Ending
  BY <1>2 DEF Ending, Stacked
<1>3. CASE Staying
  <2>1. at' = at /\ env' = env /\ object' = object /\ open' = open
    BY <1>3 DEF Staying
  <2>2. at # "iterate" /\ at # "skip_all" /\ at # "test" /\ at # "suite"
    BY <1>1 DEF Silent
  <2>3. QED
    BY <1>1, <2>1, <2>2 DEF Stacked, Environment
<1>4. CASE EnvironmentUp
  <2>1. env \in 1 .. Environments /\ open = Environment(env - 1) /\ Environments \in Nat
    BY <1>4, FlagsAssumption DEF EnvironmentUp, Stacked
  <2>2. env - 1 \in Nat /\ env - 1 + 1 = env /\ env + 1 - 1 = env
    BY <2>1
  <2>3. open' = Environment(env)
    BY <1>4, <2>1, <2>2, EnvironmentFacts DEF EnvironmentUp
  <2>4. CASE env = Environments
    BY <1>4, <2>3, <2>4 DEF EnvironmentUp, Stacked, Environment
  <2>5. CASE env # Environments
    <3>1. at' = "env_setup" /\ env' = env + 1 /\ env' - 1 = env /\ env' \in 1 .. Environments
      BY <1>4, <2>1, <2>2, <2>5 DEF EnvironmentUp
    <3>2. open' = Environment(env' - 1)
      BY <2>3, <3>1
    <3>3. QED
      BY <3>1, <3>2 DEF Stacked, Environment
  <2>6. QED
    BY <2>4, <2>5
<1>5. CASE SuiteUp
  BY <1>1, <1>5 DEF SuiteUp, Stacked, OfTheSuite, Environment
<1>6. CASE ObjectUp
  BY <1>1, <1>6 DEF ObjectUp, Stacked, OfTheObject
<1>7. CASE Ran
  <2>1. \/ object = Test /\ open = OfTheObject
        \/ object = "null" /\ open = OfTheSuite
    BY <1>7 DEF Ran, Stacked
  <2>2. Test # "null"
    BY <1>1, <1>7, Placed, NamesDiffer DEF Ran, InTest
  <2>3. QED
    BY <1>1, <1>7, <2>1, <2>2 DEF Ran, Stacked
<1>8. CASE TestUp
  BY <1>1, <1>8 DEF TestUp, Stacked
<1>9. CASE BodyRan
  BY <1>1, <1>9 DEF BodyRan, Stacked
<1>10. CASE TestDown
  <2>1. open = Append(OfTheObject, <<"SetUp", Test>>) /\ object = Test
    BY <1>10 DEF TestDown, Stacked
  <2>2. open' = OfTheObject
    BY <1>10, <2>1, StackFacts DEF TestDown, InTest, InSuite
  <2>3. QED
    BY <1>1, <1>10, <2>1, <2>2 DEF TestDown, Stacked
<1>11. CASE ObjectDown
  <2>1. open' = OfTheSuite
    BY <1>11, StackFacts DEF ObjectDown, InTest, InSuite, Stacked
  <2>2. QED
    BY <1>1, <1>11, <2>1 DEF ObjectDown, Stacked
<1>12. CASE SuiteDown
  <2>1. open' = Environment(Environments)
    BY <1>12, StackFacts DEF SuiteDown, InTest, InSuite, Stacked
  <2>2. QED
    BY <1>1, <1>12, <2>1 DEF SuiteDown, Stacked, Environment
<1>13. CASE EnvironmentDown
  <2>1. env \in 1 .. Environments /\ open = Environment(env) /\ Environments \in Nat
    BY <1>13, FlagsAssumption DEF EnvironmentDown, Stacked
  <2>2. env - 1 \in Nat /\ env - 1 + 1 = env /\ env \in Nat
    BY <2>1
  <2>3. open = Append(Environment(env - 1), <<"environment", env>>)
        /\ Environment(env - 1) \in Seq(Entries) /\ <<"environment", env>> \in Entries
    BY <2>1, <2>2, EnvironmentFacts DEF Entries
  <2>4. open' = Environment(env - 1)
    BY <1>13, <2>3, PushPop DEF EnvironmentDown
  <2>5. CASE env = 1
    <3>1. at' = "iteration_end" /\ open' = <<>>
      BY <1>13, <2>4, <2>5, EnvironmentFacts DEF EnvironmentDown
    <3>2. ~(selected # {} /\ ~recreate_environments /\ iteration < repeat - 1)
      BY <1>13 DEF EnvironmentDown, Stacked, RunTyped
    <3>3. QED
      BY <1>1, <3>1, <3>2 DEF Stacked
  <2>6. CASE env # 1
    <3>1. at' = "env_teardown" /\ env' = env - 1 /\ env' \in 1 .. Environments
      BY <1>13, <2>1, <2>6 DEF EnvironmentDown
    <3>2. open' = Environment(env')
      BY <2>4, <3>1
    <3>3. iteration' = repeat' - 1 \/ recreate_environments'
      BY <1>1, <1>13 DEF EnvironmentDown, Stacked
    <3>4. QED
      BY <3>1, <3>2, <3>3 DEF Stacked, Environment
  <2>7. QED
    BY <2>5, <2>6
<1>14. QED
  BY <1>2, <1>3, <1>4, <1>5, <1>6, <1>7, <1>8, <1>9, <1>10, <1>11, <1>12, <1>13 DEF UserStep, Going

\* User code changes no result but that of what is current.
LEMMA OthersKept ==
  ASSUME RunTyped, Position, Reports
  PROVE  /\ \A t \in Tests : at \notin InTest \/ t # Test => result'[t] = result[t]
         /\ \A s \in Names : at \notin InSuite \/ at \in InTest \/ s # Suite =>
                               suite_result'[s] = suite_result[s]
<1>1. /\ current_test_info = IF at \in InTest THEN Test ELSE None
      /\ current_test_suite = IF at \in InSuite THEN Suite ELSE None
      /\ at \in InTest => Test \in Tests
      /\ at \notin InSuite => None \notin Names
  BY Placed, NamesDiffer DEF Reports, Silent
<1>2. None \notin Names /\ None \notin Tests /\ Grow
  BY NamesDiffer DEF Reports
<1>3. \A t \in Tests : at \notin InTest \/ t # Test => result'[t] = result[t]
  <2>1. SUFFICES ASSUME NEW t \in Tests, at \notin InTest \/ t # Test PROVE t # current_test_info
    BY <1>2 DEF Grow
  <2>2. QED
    BY <1>1, <1>2, <2>1
<1>4. \A s \in Names : at \notin InSuite \/ at \in InTest \/ s # Suite => suite_result'[s] = suite_result[s]
  <2>1. SUFFICES ASSUME NEW s \in Names, at \notin InSuite \/ at \in InTest \/ s # Suite
                 PROVE  current_test_info # None \/ s # current_test_suite
    BY <1>2 DEF Grow
  <2>2. QED
    BY <1>1, <1>2, <2>1
<1>5. QED
  BY <1>3, <1>4

LEMMA UserFailsFast ==
  ASSUME RunTyped, Position, FailsFast, UserStep
  PROVE  FailsFast'
<1> SUFFICES ASSUME flags'.fail_fast
             PROVE  /\ at' \in {"env_setup", "decide", "suite"} => TestsClean({})' /\ SuitesClean({})'
                    /\ at' \in {"SetUpTestSuite", "skip_all"} => TestsClean({})' /\ SuitesClean({Suite})'
                    /\ at' = "test" => TestsClean({})' /\ SuitesClean({})'
                    /\ at' \in InTest => TestsClean({Test})' /\ SuitesClean({})'
                    /\ at' \in {"TearDownTestSuite", "suite_end"} =>
                         TestsClean(OfSuite(Suite))' /\ SuitesClean({Suite})'
  BY DEF FailsFast
<1>1. Reports /\ Frame /\ at \notin Silent /\ Moves /\ at' \in Ats
  BY UserMoves DEF UserStep, Reports
<1>2. selected' = selected /\ Suite' = Suite /\ Test' = Test /\ flags.fail_fast
  BY <1>1, FrameFacts DEF Frame
<1>3. selected \subseteq Tests
  BY DEF RunTyped
<1>4. /\ \A t \in Tests : at \notin InTest \/ t # Test => result'[t] = result[t]
      /\ \A s \in Names : at \notin InSuite \/ at \in InTest \/ s # Suite => suite_result'[s] = suite_result[s]
  BY <1>1, OthersKept
<1>5. at' # "ended" =>
        /\ at' \in {"env_setup", "decide"} => at \in {"env_setup", "decide"}
        /\ at' \in {"SetUpTestSuite", "skip_all"} => at = "SetUpTestSuite"
        /\ at' \in InTest => at \in InTest
        /\ at' \in {"TearDownTestSuite", "suite_end"} => at \in {"TearDownTestSuite", "suite_end"}
        /\ at' \notin {"suite", "test"}
  BY <1>1 DEF UserStep, Ending, Staying, Going, EnvironmentUp, SuiteUp, ObjectUp, Ran, TestUp,
       BodyRan, TestDown, ObjectDown, SuiteDown, EnvironmentDown, Moves, Silent, InTest
<1>6. ASSUME at' \in {"env_setup", "decide"} PROVE TestsClean({})' /\ SuitesClean({})'
  <2>1. at \in {"env_setup", "decide"} /\ at \notin InSuite /\ at \notin InTest
    BY <1>5, <1>6 DEF InSuite, InTest
  <2>2. TestsClean({}) /\ SuitesClean({})
    BY <1>2, <2>1 DEF FailsFast
  <2>3. QED
    BY <1>2, <1>3, <1>4, <2>1, <2>2 DEF TestsClean, SuitesClean
<1>7. ASSUME at' \in {"SetUpTestSuite", "skip_all"} PROVE TestsClean({})' /\ SuitesClean({Suite})'
  <2>1. at = "SetUpTestSuite" /\ at \notin InTest
    BY <1>5, <1>7 DEF InTest
  <2>2. TestsClean({}) /\ SuitesClean({Suite})
    BY <1>2, <2>1 DEF FailsFast
  <2>3. QED
    BY <1>2, <1>3, <1>4, <2>1, <2>2 DEF TestsClean, SuitesClean
<1>8. ASSUME at' \in InTest PROVE TestsClean({Test})' /\ SuitesClean({})'
  <2>1. at \in InTest
    BY <1>5, <1>8 DEF InTest
  <2>2. TestsClean({Test}) /\ SuitesClean({})
    BY <1>2, <2>1 DEF FailsFast
  <2>3. QED
    BY <1>2, <1>3, <1>4, <2>1, <2>2 DEF TestsClean, SuitesClean
<1>9. ASSUME at' \in {"TearDownTestSuite", "suite_end"}
      PROVE  TestsClean(OfSuite(Suite))' /\ SuitesClean({Suite})'
  <2>1. at \in {"TearDownTestSuite", "suite_end"} /\ at \notin InTest
    BY <1>5, <1>9 DEF InTest
  <2>2. TestsClean(OfSuite(Suite)) /\ SuitesClean({Suite})
    BY <1>2, <2>1 DEF FailsFast
  <2>3. OfSuite(Suite)' = OfSuite(Suite)
    BY <1>2 DEF OfSuite
  <2>4. QED
    BY <1>2, <1>3, <1>4, <2>1, <2>2, <2>3 DEF TestsClean, SuitesClean
<1>10. at' \notin {"suite", "test"}
  BY <1>5
<1>11. QED
  BY <1>6, <1>7, <1>8, <1>9, <1>10

\* What has been done with a test stays done.
LEMMA DoneGrows ==
  ASSUME Frame, Grow, NEW t \in Tests, Done(t)
  PROVE  Done(t)'
  BY DEF Frame, Grow, Done

LEMMA UserProgress ==
  ASSUME RunTyped, Position, Progress, UserStep
  PROVE  Progress'
<1>1. Reports /\ Frame /\ Grow /\ at \notin Silent /\ Moves /\ at' \in Ats
  BY UserMoves DEF UserStep, Reports
<1>2. selected' = selected /\ Suite' = Suite /\ order' = order /\ suite' = suite /\ test' = test
      /\ \A s : Selected(s)' = Selected(s)
  BY <1>1, FrameFacts DEF Frame
<1>3. \A t \in Tests : Done(t) => Done(t)'
  BY <1>1, DoneGrows
<1>4. selected \subseteq Tests /\ \A s : Selected(s) \subseteq Tests
  BY DEF RunTyped, Selected
<1>5. at' # "ended" =>
        /\ at' \in {"env_teardown", "iteration_end"} => at \in {"env_teardown", "iteration_end"}
        /\ at' \in InTest => at \in InTest
        /\ at' \in InSuite => at \in InSuite
        /\ at' \in {"TearDownTestSuite", "suite_end"} => at \in {"TearDownTestSuite", "suite_end"}
        /\ at' \notin {"suite", "test"}
  BY <1>1 DEF UserStep, Ending, Staying, Going, EnvironmentUp, SuiteUp, ObjectUp, Ran, TestUp,
       BodyRan, TestDown, ObjectDown, SuiteDown, EnvironmentDown, Moves, Silent, InTest
<1>6. ASSUME at' \in InSuite \cup {"suite"} PROVE SuitesDone(suite - 1)'
  <2>1. SuitesDone(suite - 1)
    BY <1>5, <1>6 DEF Progress, InSuite, InTest
  <2>2. QED
    BY <1>2, <1>3, <1>4, <2>1 DEF SuitesDone
<1>7. ASSUME at' \in InTest PROVE TestsDone(test)'
  <2>1. TestsDone(test)
    BY <1>5, <1>7 DEF Progress, InTest
  <2>2. QED
    BY <1>2, <1>3, <1>4, <2>1 DEF TestsDone
<1>8. ASSUME at' \in {"TearDownTestSuite", "suite_end"} PROVE \A t \in Selected(Suite)' : Done(t)'
  <2>1. \A t \in Selected(Suite) : Done(t)
    BY <1>5, <1>8 DEF Progress
  <2>2. PICK s : s = Suite
    OBVIOUS
  <2>3. Selected(Suite)' = Selected(s)'
    BY <1>2, <2>2
  <2>4. QED
    BY <1>2, <1>3, <1>4, <2>1, <2>2, <2>3
<1>9. ASSUME at' \in {"env_teardown", "iteration_end"}
      PROVE  "skip" \in ad_hoc' \/ \A t \in selected' : Done(t)'
  <2>1. "skip" \in ad_hoc \/ \A t \in selected : Done(t)
    BY <1>5, <1>9 DEF Progress
  <2>2. QED
    BY <1>1, <1>2, <1>3, <1>4, <2>1 DEF Grow
<1>10. at' \notin {"suite", "test"}
  BY <1>5
<1>11. QED
  BY <1>6, <1>7, <1>8, <1>9, <1>10 DEF Progress

LEMMA UserKeeps ==
  ASSUME RunInv, UserAction
  PROVE  RunInv'
<1>1. UserStep
  BY UserSteps DEF RunInv
<1>2. QED
  BY <1>1, UserTyped, UserPosition, UserRepeats, UserFailures, UserExits, UserStacked, UserFailsFast,
     UserProgress DEF RunInv

(***************************************************************************)
(* A step of the framework between two calls of user code, within an        *)
(* iteration: nothing fails, and nothing but "skip" is added to a result.   *)
(***************************************************************************)
Quiet ==
  /\ flags' = flags /\ rnd' = rnd /\ selected' = selected /\ iteration' = iteration
  /\ order' = order /\ seed' = seed /\ suite_result' = suite_result /\ ad_hoc' = ad_hoc
  /\ failed' = failed /\ exit' = exit /\ file' = file /\ bad' = bad /\ open' = open
  /\ result' \in [Tests -> SUBSET Severities]
  /\ \A t \in Tests : Failed(result'[t]) = Failed(result[t]) /\ result[t] \subseteq result'[t]

LEMMA SkipFacts ==
  ASSUME RunTyped, NEW S, Skip(S) \/ result' = result
  PROVE  /\ result' \in [Tests -> SUBSET Severities]
         /\ \A t \in Tests : Failed(result'[t]) = Failed(result[t]) /\ result[t] \subseteq result'[t]
         /\ Skip(S) => \A t \in Tests : t \in S => "skip" \in result'[t]
<1>1. result \in [Tests -> SUBSET Severities]
  BY DEF RunTyped
<1>2. CASE result' = result /\ ~Skip(S)
  BY <1>1, <1>2
<1>3. CASE Skip(S)
  <2>1. \A t \in Tests : result'[t] = IF t \in S THEN result[t] \cup {"skip"} ELSE result[t]
    BY <1>3 DEF Skip
  <2>2. DOMAIN result' = Tests /\ result' = [t \in Tests |-> result'[t]]
    BY <1>3 DEF Skip
  <2>3. \A t \in Tests : result'[t] \in SUBSET Severities
    BY <1>1, <2>1 DEF Severities
  <2>4. \A t \in Tests : Failed(result'[t]) = Failed(result[t])
    BY <2>1 DEF Failed, Failure
  <2>5. QED
    BY <2>1, <2>2, <2>3, <2>4
<1>4. QED
  BY <1>2, <1>3

LEMMA QuietPassed ==
  ASSUME RunTyped, Quiet
  PROVE  ~Passed => ~Passed'
<1>1. selected \subseteq Tests /\ selected' \subseteq Tests /\ \A s : Selected(s)' = Selected(s)
  BY DEF RunTyped, Quiet, Selected
<1>2. SomethingFailed => SomethingFailed'
  BY <1>1 DEF SomethingFailed, Quiet
<1>3. QED
  BY <1>1, <1>2, NotPassed, NotPassedNext

LEMMA QuietKeeps ==
  ASSUME RunInv, Quiet, at \in Iterating, at' \in Iterating
  PROVE  Repeats' /\ FailuresKept' /\ Exits'
<1>1. repeat' = repeat
  BY DEF Quiet, repeat
<1>2. at # "main" /\ at # "iterate" /\ at # "program_end" /\ at # "ended"
      /\ at' # "main" /\ at' # "iterate" /\ at' # "program_end" /\ at' # "ended"
  BY DEF Iterating, WithTests, InSuite, InTest
<1>3. Repeats'
  BY <1>1, <1>2 DEF RunInv, Repeats, Quiet
<1>4. FailuresKept'
  <2>1. bad => failed \/ ~Passed
    BY DEF RunInv, FailuresKept
  <2>2. bad' => failed' \/ ~Passed'
    BY <2>1, QuietPassed DEF RunInv, Quiet
  <2>3. QED
    BY <1>2, <2>2 DEF FailuresKept
<1>5. Exits'
  <2>1. exit' = None /\ file' = (flags'.exit_file /\ ~flags'.death_child)
    BY <1>2 DEF RunInv, Exits, Quiet
  <2>2. GreenMeansPassed'
    BY <2>1 DEF GreenMeansPassed, None
  <2>3. QED
    BY <2>1, <2>2 DEF Exits
<1>6. QED
  BY <1>3, <1>4, <1>5

\* What does not depend on where the run is.
LEMMA QuietTyped ==
  ASSUME RunTyped, Quiet, at' \in Ats, suite' \in 1 .. Len(order.suites) \/ (suite' = 1 /\ Tests = {}),
         env' \in Nat, test' \in Nat, ran' \in Seq(Tests), object' \in Tests \cup {None, "null"},
         current_test_suite' \in Names \cup {None}, current_test_info' \in selected \cup {None}
  PROVE  RunTyped'
  BY DEF RunTyped, Quiet

LEMMA QuietFacts ==
  ASSUME RunTyped, Quiet
  PROVE  /\ repeat' = repeat /\ recreate_environments' = recreate_environments
         /\ \A s : Selected(s)' = Selected(s)
         /\ ToSet(ran) \subseteq ToSet(ran') => \A t \in Tests : Done(t) => Done(t)'
<1>1. /\ repeat' = repeat /\ recreate_environments' = recreate_environments
      /\ \A s : Selected(s)' = Selected(s)
  BY DEF Quiet, repeat, recreate_environments, Selected
<1>2. ASSUME ToSet(ran) \subseteq ToSet(ran'), NEW t \in Tests, Done(t) PROVE Done(t)'
  <2>1. result[t] \subseteq result'[t]
    BY DEF Quiet
  <2>2. Done(t)' <=> t \in ToSet(ran') \/ "skip" \in result'[t]
    BY DEF Done
  <2>3. QED
    BY <1>2, <2>1, <2>2 DEF Done
<1>3. QED
  BY <1>1, <1>2

(***************************************************************************)
(* Behind the suites of an iteration.                                       *)
(***************************************************************************)
\* Between suites nothing is current and only the environments are set up.
BetweenSuites ==
  /\ Quiet /\ at \in {"decide", "suite", "suite_end"} /\ test' = test /\ ran' = ran
  /\ object' = object /\ current_test_suite' = None /\ current_test_info' = None

LEMMA AfterSuitesKeeps ==
  ASSUME RunInv, BetweenSuites, AfterSuites, suite' = suite,
         "skip" \in ad_hoc \/ \A t \in selected : Done(t)'
  PROVE  RunInv'
<1>1. /\ at' \in {"env_teardown", "iteration_end"} /\ Quiet /\ ToSet(ran) \subseteq ToSet(ran')
      /\ at' \in Iterating /\ at' \in Ats /\ at' \notin InSuite /\ at' \notin InTest /\ at \in Iterating
      /\ at \in WithTests /\ at' # "ended"
  BY DEF AfterSuites, BetweenSuites, Iterating, WithTests, Ats, InSuite, InTest
<1>2. /\ repeat' = repeat /\ recreate_environments' = recreate_environments
      /\ \A s : Selected(s)' = Selected(s)
  BY <1>1, QuietFacts DEF RunInv
<1>3. RunTyped'
  <2>1. env' \in Nat
    BY FlagsAssumption DEF AfterSuites, RunInv, RunTyped
  <2>2. QED
    BY <1>1, <2>1, QuietTyped DEF RunInv, RunTyped, BetweenSuites
<1>4. Position'
  <2>1. selected' # {}
    BY <1>1 DEF RunInv, Position, Quiet
  <2>2. QED
    BY <1>1, <2>1 DEF Position, BetweenSuites
<1>5. Repeats' /\ FailuresKept' /\ Exits'
  BY <1>1, QuietKeeps
<1>6. Stacked'
  <2>1. open' = Environment(Environments) /\ Environments \in Nat /\ Environment(0) = <<>>
    BY <1>1, FlagsAssumption, EnvironmentFacts DEF RunInv, Stacked, Quiet, BetweenSuites
  <2>2. CASE at' = "env_teardown"
    <3>1. /\ env' = Environments /\ Environments > 0
          /\ iteration' = repeat' - 1 \/ recreate_environments'
      BY <1>2, <2>2 DEF AfterSuites, Quiet, BetweenSuites
    <3>2. env' \in 1 .. Environments /\ open' = Environment(env')
      BY <2>1, <3>1
    <3>3. QED
      BY <2>2, <3>1, <3>2 DEF Stacked, Environment
  <2>3. CASE at' = "iteration_end"
    <3>1. ~(Environments > 0 /\ (iteration = repeat - 1 \/ recreate_environments))
      BY <2>3 DEF AfterSuites
    <3>2. ~recreate_environments => repeat >= 0 /\ repeat \in Int /\ iteration \in Nat
                                    /\ iteration <= repeat /\ iteration # repeat
      BY <1>1, RepeatType DEF recreate_environments, RunInv, RunTyped, Repeats
    <3>3. selected' # {}
      BY <1>1 DEF RunInv, Position, Quiet
    <3>4. open' = IF selected' # {} /\ ~recreate_environments' /\ iteration' < repeat' - 1
                  THEN Environment(Environments) ELSE <<>>
      <4>1. CASE Environments = 0
        BY <2>1, <4>1
      <4>2. CASE Environments # 0
        <5>1. iteration # repeat - 1 /\ ~recreate_environments
          BY <2>1, <3>1, <4>2
        <5>2. iteration < repeat - 1
          BY <3>2, <5>1
        <5>3. QED
          BY <1>2, <2>1, <3>3, <5>1, <5>2 DEF Quiet, BetweenSuites
      <4>3. QED
        BY <4>1, <4>2
    <3>5. QED
      BY <2>3, <3>4 DEF Stacked, Environment
  <2>4. QED
    BY <1>1, <2>2, <2>3
<1>7. FailsFast'
  BY <1>1 DEF FailsFast, InTest
<1>8. Progress'
  <2>1. "skip" \in ad_hoc' \/ \A t \in selected' : Done(t)'
    BY <1>1 DEF Quiet
  <2>2. QED
    BY <1>1, <2>1 DEF Progress
<1>9. QED
  BY <1>3, <1>4, <1>5, <1>6, <1>7, <1>8 DEF RunInv

\* A suite that is looked at has its place in the order.
LEMMA SuitePlace ==
  ASSUME RunTyped, Position, at \in WithTests
  PROVE  /\ suite \in 1 .. Len(order.suites) /\ Len(order.suites) \in Nat /\ Suite \in Names
         /\ selected \subseteq Tests
         /\ \A t \in selected : \E k \in 1 .. Len(order.suites) :
              order.suites[k] = SuiteOf(t) /\ t \in Selected(order.suites[k])
<1>1. selected # {} /\ selected \subseteq Tests
  BY DEF RunTyped, Position
<1>2. suite \in 1 .. Len(order.suites)
  BY <1>1 DEF RunTyped
<1>3. Len(order.suites) \in Nat /\ Suite \in Names
  BY <1>2, ListFacts DEF RunTyped, Suite
<1>4. ASSUME NEW t \in selected
      PROVE  \E k \in 1 .. Len(order.suites) :
               order.suites[k] = SuiteOf(t) /\ t \in Selected(order.suites[k])
  <2>1. SuiteOf(t) \in Names
    BY <1>1, SuiteOfFacts
  <2>2. PICK k \in 1 .. Len(order.suites) : order.suites[k] = SuiteOf(t)
    BY <2>1, ListFacts DEF RunTyped
  <2>3. QED
    BY <2>2 DEF Selected
<1>5. QED
  BY <1>1, <1>2, <1>3, <1>4

LEMMA NextSuiteKeeps ==
  ASSUME RunInv, BetweenSuites, at # "decide", NextSuite, result' = result, SuitesDone(suite),
         flags.fail_fast => TestsClean({}) /\ SuitesClean({})
  PROVE  RunInv'
<1>1. /\ Quiet /\ at \in WithTests /\ at \in Iterating /\ ToSet(ran) \subseteq ToSet(ran')
      /\ RunTyped /\ Position /\ Stacked
  BY DEF BetweenSuites, Iterating, WithTests, InSuite, RunInv
<1>2. /\ \A s : Selected(s)' = Selected(s)
      /\ \A t \in Tests : Done(t) => Done(t)'
  BY <1>1, QuietFacts
<1>3. /\ suite \in 1 .. Len(order.suites) /\ Len(order.suites) \in Nat /\ selected \subseteq Tests
      /\ \A t \in selected : \E k \in 1 .. Len(order.suites) : t \in Selected(order.suites[k])
  BY <1>1, SuitePlace
<1>4. \A s : \A t \in Selected(s) : t \in selected
  BY DEF Selected
<1>5. CASE suite < Len(order.suites)
  <2>1. at' = "suite" /\ suite' = suite + 1 /\ env' = env /\ suite' \in 1 .. Len(order.suites)
        /\ suite' - 1 = suite
    BY <1>3, <1>5 DEF NextSuite
  <2>2. at' \in Iterating /\ at' \in Ats
    BY <2>1 DEF Iterating, WithTests, Ats
  <2>3. RunTyped'
    BY <1>1, <2>1, <2>2, QuietTyped DEF RunTyped, BetweenSuites
  <2>4. Position'
    BY <1>1, <2>1 DEF Position, BetweenSuites, Quiet, InSuite, InTest
  <2>5. Repeats' /\ FailuresKept' /\ Exits'
    BY <1>1, <2>2, QuietKeeps
  <2>6. Stacked'
    BY <1>1, <2>1 DEF Stacked, BetweenSuites, Quiet, Environment
  <2>7. FailsFast'
    BY <2>1 DEF FailsFast, BetweenSuites, Quiet, TestsClean, SuitesClean, InTest
  <2>8. Progress'
    <3>1. \A k \in 1 .. suite : \A t \in Selected(order.suites[k])' : Done(t)'
      <4>1. SUFFICES ASSUME NEW k \in 1 .. suite, NEW t \in Selected(order.suites[k])' PROVE Done(t)'
        OBVIOUS
      <4>2. PICK s : s = order.suites[k]
        OBVIOUS
      <4>3. order.suites[k]' = s
        BY <4>2 DEF BetweenSuites, Quiet
      <4>4. t \in Selected(s)
        BY <1>2, <4>1, <4>3
      <4>5. QED
        BY <1>2, <1>3, <1>4, <4>2, <4>4 DEF SuitesDone
    <3>2. SuitesDone(suite - 1)'
      BY <2>1, <3>1 DEF SuitesDone
    <3>3. QED
      BY <2>1, <3>2 DEF Progress, InSuite, InTest
  <2>9. QED
    BY <2>3, <2>4, <2>5, <2>6, <2>7, <2>8 DEF RunInv
<1>6. CASE ~(suite < Len(order.suites))
  <2>1. AfterSuites /\ suite' = suite
    BY <1>6 DEF NextSuite
  <2>2. \A k \in 1 .. Len(order.suites) : k \in 1 .. suite
    BY <1>3, <1>6
  <2>3. \A t \in selected : Done(t)
    BY <1>3, <2>2 DEF SuitesDone
  <2>4. \A t \in selected : Done(t)'
    BY <1>2, <1>3, <2>3
  <2>5. QED
    BY <2>1, <2>4, AfterSuitesKeeps
<1>7. QED
  BY <1>5, <1>6

LEMMA DecideKeeps ==
  ASSUME RunInv, Decide
  PROVE  RunInv'
<1>1. /\ at = "decide" /\ RunTyped /\ Position /\ Stacked /\ FailsFast
      /\ current_test_suite = None /\ current_test_info = None
  BY DEF Decide, RunInv, Position, Ats, Iterating, WithTests, InSuite, InTest
<1>2. result' = result \/ Skip(selected)
  BY DEF Decide
<1>3. Quiet /\ test' = test /\ ran' = ran /\ object' = object
      /\ current_test_suite' = current_test_suite /\ current_test_info' = current_test_info
  BY <1>1, <1>2, SkipFacts DEF Decide, Quiet, Unchanging, setting, current
<1>4. BetweenSuites
  BY <1>1, <1>3 DEF BetweenSuites
<1>5. current_test_result = ad_hoc
  BY <1>1 DEF current_test_result
<1>6. CASE IsSkipped
  BY <1>4, <1>5, <1>6, AfterSuitesKeeps DEF IsSkipped, Skipped, Decide
<1>7. CASE ~IsSkipped /\ HasFatalFailure
  <2>1. Skip(selected) /\ AfterSuites /\ suite' = suite
    BY <1>7 DEF Decide
  <2>2. \A t \in selected : Done(t)'
    BY <1>1, <2>1, SkipFacts DEF RunTyped, Done
  <2>3. QED
    BY <1>4, <2>1, <2>2, AfterSuitesKeeps
<1>8. CASE ~IsSkipped /\ ~HasFatalFailure
  <2>1. at' = "suite" /\ suite' = 1 /\ env' = env /\ result' = result
    BY <1>8 DEF Decide
  <2>2. at' \in Iterating /\ at' \in Ats /\ at \in WithTests /\ at \in Iterating
    BY <1>1, <2>1 DEF Iterating, WithTests, Ats
  <2>3. suite' \in 1 .. Len(order.suites)
    BY <1>1, <2>1, <2>2, SuitePlace
  <2>4. RunTyped'
    BY <1>1, <1>3, <2>1, <2>2, <2>3, QuietTyped DEF RunTyped
  <2>5. Position'
    BY <1>1, <1>3, <2>1, <2>2 DEF Position, Quiet, InSuite, InTest
  <2>6. Repeats' /\ FailuresKept' /\ Exits'
    BY <1>3, <2>2, QuietKeeps
  <2>7. Stacked'
    BY <1>1, <1>3, <2>1 DEF Stacked, Quiet, Environment
  <2>8. FailsFast'
    BY <1>1, <1>3, <2>1 DEF FailsFast, Quiet, TestsClean, SuitesClean, InTest
  <2>9. Progress'
    <3>1. SuitesDone(suite - 1)'
      BY <2>1 DEF SuitesDone
    <3>2. QED
      BY <2>1, <3>1 DEF Progress, InTest
  <2>10. QED
    BY <2>4, <2>5, <2>6, <2>7, <2>8, <2>9 DEF RunInv
<1>9. QED
  BY <1>6, <1>7, <1>8

LEMMA StartSuiteKeeps ==
  ASSUME RunInv, StartSuite
  PROVE  RunInv'
<1>1. /\ at = "suite" /\ RunTyped /\ Position /\ Stacked /\ FailsFast /\ Progress
      /\ current_test_suite = None /\ current_test_info = None /\ at \in WithTests /\ at \in Iterating
  BY DEF StartSuite, RunInv, Position, Ats, Iterating, WithTests, InSuite, InTest
<1>2. Quiet /\ test' = test /\ ran' = ran /\ object' = object /\ result' = result
      /\ current_test_info' = current_test_info
  BY <1>1, SkipFacts DEF StartSuite, Quiet, Unchanging, setting, results
<1>3. suite \in 1 .. Len(order.suites) /\ Suite \in Names /\ SuitesDone(suite - 1)
  BY <1>1, SuitePlace DEF Progress
<1>4. CASE Selected(Suite) = {}
  <2>1. NextSuite /\ current_test_suite' = current_test_suite
    BY <1>4 DEF StartSuite
  <2>2. BetweenSuites
    BY <1>1, <1>2, <2>1 DEF BetweenSuites
  <2>3. SuitesDone(suite)
    <3>1. SUFFICES ASSUME NEW k \in 1 .. suite, NEW t \in Selected(order.suites[k]) PROVE Done(t)
      BY DEF SuitesDone
    <3>2. k # suite
      BY <1>4, <3>1 DEF Suite
    <3>3. k \in 1 .. suite - 1
      BY <1>3, <3>2
    <3>4. QED
      BY <1>3, <3>3 DEF SuitesDone
  <2>4. flags.fail_fast => TestsClean({}) /\ SuitesClean({})
    BY <1>1 DEF FailsFast
  <2>5. QED
    BY <1>1, <1>2, <2>1, <2>2, <2>3, <2>4, NextSuiteKeeps
<1>5. CASE Selected(Suite) # {}
  <2>1. at' = "SetUpTestSuite" /\ current_test_suite' = Suite /\ suite' = suite /\ env' = env
    BY <1>5 DEF StartSuite
  <2>2. at' \in Iterating /\ at' \in Ats /\ Suite' = Suite
    BY <1>2, <2>1 DEF Iterating, WithTests, InSuite, Ats, Suite, Quiet
  <2>3. RunTyped'
    BY <1>1, <1>2, <1>3, <2>1, <2>2, QuietTyped DEF RunTyped
  <2>4. Selected(Suite)' # {}
    <3>1. PICK s : s = Suite
      OBVIOUS
    <3>2. QED
      BY <1>1, <1>2, <1>5, <2>2, <3>1, QuietFacts
  <2>5. Position'
    BY <1>1, <1>2, <2>1, <2>2, <2>4 DEF Position, Quiet, InSuite, InTest
  <2>6. Repeats' /\ FailuresKept' /\ Exits'
    BY <1>1, <1>2, <2>2, QuietKeeps
  <2>7. Stacked'
    BY <1>1, <1>2, <2>1 DEF Stacked, Quiet, Environment
  <2>8. FailsFast'
    <3>1. flags'.fail_fast => TestsClean({})' /\ SuitesClean({Suite})'
      BY <1>1, <1>2 DEF FailsFast, Quiet, TestsClean, SuitesClean
    <3>2. QED
      BY <2>1, <3>1 DEF FailsFast, InTest
  <2>9. Progress'
    <3>1. \A k \in 1 .. suite - 1 : \A t \in Selected(order.suites[k])' : Done(t)'
      BY <1>2, <1>3 DEF SuitesDone, Quiet, Done, Selected
    <3>2. SuitesDone(suite - 1)'
      BY <2>1, <3>1 DEF SuitesDone
    <3>3. QED
      BY <2>1, <3>2 DEF Progress, InTest
  <2>10. QED
    BY <2>3, <2>5, <2>6, <2>7, <2>8, <2>9 DEF RunInv
<1>6. QED
  BY <1>4, <1>5

LEMMA EndSuiteKeeps ==
  ASSUME RunInv, EndSuite
  PROVE  RunInv'
<1>1. /\ at = "suite_end" /\ RunTyped /\ Position /\ Stacked /\ FailsFast /\ Progress
      /\ current_test_info = None /\ at \in WithTests /\ at \in Iterating
  BY DEF EndSuite, RunInv, Position, Ats, Iterating, WithTests, InSuite, InTest
<1>2. result' = result \/ Skip(LaterTests)
  BY DEF EndSuite
<1>3. Quiet /\ test' = test /\ ran' = ran /\ object' = object
      /\ current_test_suite' = None /\ current_test_info' = None
  BY <1>1, <1>2, SkipFacts DEF EndSuite, Quiet, Unchanging, setting
<1>4. BetweenSuites
  BY <1>1, <1>3 DEF BetweenSuites
<1>5. /\ suite \in 1 .. Len(order.suites) /\ Len(order.suites) \in Nat /\ selected \subseteq Tests
      /\ \A t \in selected : \E k \in 1 .. Len(order.suites) :
           order.suites[k] = SuiteOf(t) /\ t \in Selected(order.suites[k])
  BY <1>1, SuitePlace
<1>6. SuitesDone(suite)
  <2>1. SUFFICES ASSUME NEW k \in 1 .. suite, NEW t \in Selected(order.suites[k]) PROVE Done(t)
    BY DEF SuitesDone
  <2>2. SuitesDone(suite - 1) /\ \A x \in Selected(Suite) : Done(x)
    BY <1>1 DEF Progress, InSuite
  <2>3. CASE k = suite
    BY <2>2, <2>3 DEF Suite
  <2>4. CASE k # suite
    <3>1. k \in 1 .. suite - 1
      BY <1>5, <2>4
    <3>2. QED
      BY <2>2, <3>1 DEF SuitesDone
  <2>5. QED
    BY <2>3, <2>4
<1>7. CASE SuiteStops
  <2>1. Skip(LaterTests) /\ AfterSuites /\ suite' = suite
    BY <1>7 DEF EndSuite
  <2>2. \A t \in selected : Done(t)'
    <3>1. SUFFICES ASSUME NEW t \in selected PROVE Done(t)'
      OBVIOUS
    <3>2. PICK k \in 1 .. Len(order.suites) : order.suites[k] = SuiteOf(t) /\ t \in Selected(order.suites[k])
      BY <1>5
    <3>3. CASE k <= suite
      <4>1. k \in 1 .. suite
        BY <1>5, <3>3
      <4>2. Done(t)
        BY <1>6, <3>2, <4>1 DEF SuitesDone
      <4>3. QED
        BY <1>1, <1>3, <1>5, <4>2, QuietFacts
    <3>4. CASE k > suite
      <4>1. k \in suite + 1 .. Len(order.suites)
        BY <1>5, <3>4
      <4>2. t \in LaterTests
        BY <3>2, <4>1 DEF LaterTests
      <4>3. "skip" \in result'[t]
        BY <1>1, <1>5, <2>1, <4>2, SkipFacts
      <4>4. QED
        BY <4>3 DEF Done
    <3>5. QED
      BY <1>5, <3>3, <3>4
  <2>3. QED
    BY <1>4, <2>1, <2>2, AfterSuitesKeeps
<1>8. CASE ~SuiteStops
  <2>1. NextSuite /\ result' = result
    BY <1>8 DEF EndSuite
  <2>2. ASSUME flags.fail_fast PROVE TestsClean({}) /\ SuitesClean({})
    <3>1. TestsClean(OfSuite(Suite)) /\ SuitesClean({Suite})
      BY <1>1, <2>2 DEF FailsFast
    <3>2. ~Failed(suite_result[Suite]) /\ \A t \in Selected(Suite) : ~Failed(result[t])
      BY <1>8, <2>2 DEF SuiteStops, SuiteFailed
    <3>3. TestsClean({})
      <4>1. SUFFICES ASSUME NEW t \in selected PROVE ~Failed(result[t])
        BY DEF TestsClean
      <4>2. t \in OfSuite(Suite) => t \in Selected(Suite)
        BY DEF OfSuite, Selected
      <4>3. QED
        BY <3>1, <3>2, <4>2 DEF TestsClean
    <3>4. SuitesClean({})
      BY <3>1, <3>2 DEF SuitesClean
    <3>5. QED
      BY <3>3, <3>4
  <2>3. QED
    BY <1>1, <1>4, <1>6, <2>1, <2>2, NextSuiteKeeps
<1>9. QED
  BY <1>7, <1>8

(***************************************************************************)
(* The tests of a suite.                                                    *)
(***************************************************************************)
\* Between the set-up of a suite and its tear-down the suite stays current.
WithinSuite ==
  /\ Quiet /\ at \in InSuite /\ at' \in InSuite /\ suite' = suite /\ env' = env
  /\ current_test_suite' = current_test_suite

LEMMA WithinSuiteFacts ==
  ASSUME RunInv, WithinSuite
  PROVE  /\ at \in WithTests /\ at \in Iterating /\ at' \in Iterating /\ at' \in Ats /\ at' # "ended"
         /\ Suite' = Suite /\ order' = order /\ selected' = selected
         /\ Selected(Suite)' = Selected(Suite) /\ Selected(Suite) # {}
         /\ suite \in 1 .. Len(order.suites) /\ Suite \in Names
         /\ Len(order.tests[Suite]) \in Nat /\ DOMAIN order.tests[Suite] = 1 .. Len(order.tests[Suite])
         /\ \A t \in Selected(Suite) : t \in selected /\ t \in Tests /\
              \E k \in 1 .. Len(order.tests[Suite]) : order.tests[Suite][k] = t
         /\ \A k \in 1 .. Len(order.tests[Suite]) :
              order.tests[Suite][k] \in Tests /\ order.tests[Suite][k] \in OfSuite(Suite)
<1>1. /\ at \in WithTests /\ at \in Iterating /\ at' \in Iterating /\ at' \in Ats /\ at' # "ended"
      /\ RunTyped /\ Position /\ Quiet
  BY DEF WithinSuite, WithTests, Iterating, Ats, InSuite, InTest, RunInv
<1>2. suite \in 1 .. Len(order.suites) /\ Suite \in Names
  BY <1>1, SuitePlace
<1>3. Suite' = Suite /\ order' = order /\ selected' = selected
  BY DEF WithinSuite, Quiet, Suite
<1>4. Selected(Suite)' = Selected(Suite) /\ Selected(Suite) # {}
  <2>1. Selected(Suite) # {}
    BY <1>1 DEF Position, WithinSuite
  <2>2. PICK s : s = Suite
    OBVIOUS
  <2>3. Selected(s)' = Selected(s)
    BY <1>1, QuietFacts
  <2>4. QED
    BY <1>3, <2>1, <2>2, <2>3
<1>5. /\ Len(order.tests[Suite]) \in Nat /\ DOMAIN order.tests[Suite] = 1 .. Len(order.tests[Suite])
      /\ ToSet(order.tests[Suite]) = OfSuite(Suite)
  BY <1>1, <1>2, ListFacts DEF RunTyped
<1>6. \A t \in Selected(Suite) : t \in selected /\ t \in Tests /\ t \in OfSuite(Suite)
  BY <1>1 DEF Selected, OfSuite, RunTyped
<1>7. \A k \in 1 .. Len(order.tests[Suite]) : order.tests[Suite][k] \in OfSuite(Suite)
  BY <1>5 DEF ToSet
<1>8. \A k \in 1 .. Len(order.tests[Suite]) : order.tests[Suite][k] \in Tests
  BY <1>7 DEF OfSuite
<1>9. \A t \in Selected(Suite) : \E k \in 1 .. Len(order.tests[Suite]) : order.tests[Suite][k] = t
  BY <1>5, <1>6 DEF ToSet
<1>10. QED
  BY <1>1, <1>2, <1>3, <1>4, <1>5, <1>6, <1>7, <1>8, <1>9

LEMMA SuitesStayDone ==
  ASSUME RunInv, WithinSuite, ToSet(ran) \subseteq ToSet(ran')
  PROVE  SuitesDone(suite - 1)' /\ \A t \in Tests : Done(t) => Done(t)'
<1>1. SuitesDone(suite - 1) /\ RunTyped /\ Quiet /\ suite' = suite
  BY DEF RunInv, Progress, WithinSuite
<1>2. \A t \in Tests : Done(t) => Done(t)'
  BY <1>1, QuietFacts
<1>3. \A k \in 1 .. suite - 1 : \A t \in Selected(order.suites[k])' : t \in Tests /\ Done(t)
  BY <1>1 DEF SuitesDone, Quiet, Selected, RunTyped
<1>4. SuitesDone(suite - 1)'
  BY <1>1, <1>2, <1>3 DEF SuitesDone
<1>5. QED
  BY <1>2, <1>4

LEMMA SkipAllOrNoneKeeps ==
  ASSUME RunInv, SkipAllOrNone
  PROVE  RunInv'
<1>1. /\ at = "skip_all" /\ RunTyped /\ Position /\ Stacked /\ FailsFast /\ Progress
      /\ current_test_info = None
  BY DEF SkipAllOrNone, RunInv, Position, Ats, Iterating, WithTests, InSuite, InTest
<1>2. result' = result \/ Skip(Selected(Suite))
  BY DEF SkipAllOrNone
<1>3. Quiet /\ ran' = ran /\ object' = object /\ current_test_info' = None
      /\ suite' = suite /\ env' = env /\ current_test_suite' = current_test_suite
  BY <1>1, <1>2, SkipFacts DEF SkipAllOrNone, Quiet, Unchanging, setting, current
<1>4. WithinSuite
  BY <1>1, <1>3 DEF WithinSuite, SkipAllOrNone, InSuite
<1>5. Repeats' /\ FailuresKept' /\ Exits'
  BY <1>3, <1>4, QuietKeeps, WithinSuiteFacts
<1>6. SuitesDone(suite - 1)' /\ \A t \in Tests : Done(t) => Done(t)'
  BY <1>3, <1>4, SuitesStayDone
<1>7. open' = OfTheSuite'
  BY <1>1, <1>3, <1>4, WithinSuiteFacts DEF Stacked, OfTheSuite, Quiet, Environment
<1>8. CASE Failed(suite_result[Suite])
  <2>1. Skip(Selected(Suite)) /\ at' = "TearDownTestSuite" /\ test' = test
    BY <1>8 DEF SkipAllOrNone
  <2>2. RunTyped'
    BY <1>1, <1>3, <1>4, <2>1, QuietTyped, WithinSuiteFacts DEF RunTyped
  <2>3. Position'
    BY <1>1, <1>3, <1>4, <2>1, WithinSuiteFacts DEF Position, InSuite, InTest
  <2>4. Stacked'
    BY <1>7, <2>1 DEF Stacked
  <2>5. FailsFast'
    <3>1. flags'.fail_fast => TestsClean(OfSuite(Suite))' /\ SuitesClean({Suite})'
      BY <1>1, <1>3, <1>4, WithinSuiteFacts DEF FailsFast, Quiet, TestsClean, SuitesClean, RunTyped
    <3>2. QED
      BY <2>1, <3>1 DEF FailsFast, InTest
  <2>6. Progress'
    <3>1. \A t \in Selected(Suite)' : Done(t)'
      BY <1>1, <1>4, <2>1, SkipFacts, WithinSuiteFacts DEF Done
    <3>2. QED
      BY <1>6, <2>1, <3>1 DEF Progress, InTest
  <2>7. QED
    BY <1>5, <2>2, <2>3, <2>4, <2>5, <2>6 DEF RunInv
<1>9. CASE ~Failed(suite_result[Suite])
  <2>1. at' = "test" /\ test' = 1 /\ result' = result
    BY <1>9 DEF SkipAllOrNone
  <2>2. test' \in 1 .. Len(order.tests[Suite])
    <3>1. \E k \in 1 .. Len(order.tests[Suite]) : TRUE
      BY <1>4, WithinSuiteFacts
    <3>2. QED
      BY <1>4, <2>1, <3>1, WithinSuiteFacts
  <2>3. RunTyped'
    BY <1>1, <1>3, <1>4, <2>1, QuietTyped, WithinSuiteFacts DEF RunTyped
  <2>4. Position'
    BY <1>1, <1>3, <1>4, <2>1, <2>2, WithinSuiteFacts DEF Position, InSuite, InTest
  <2>5. Stacked'
    BY <1>7, <2>1 DEF Stacked
  <2>6. FailsFast'
    <3>1. flags'.fail_fast => TestsClean({})' /\ SuitesClean({})'
      BY <1>1, <1>3, <1>9, <2>1 DEF FailsFast, Quiet, TestsClean, SuitesClean, RunTyped
    <3>2. QED
      BY <2>1, <3>1 DEF FailsFast, InTest
  <2>7. Progress'
    <3>1. TestsDone(test - 1)'
      BY <2>1 DEF TestsDone
    <3>2. QED
      BY <1>6, <2>1, <3>1 DEF Progress, InTest
  <2>8. QED
    BY <1>5, <2>3, <2>4, <2>5, <2>6, <2>7 DEF RunInv
<1>10. QED
  BY <1>8, <1>9

LEMMA NextTestKeeps ==
  ASSUME RunInv, WithinSuite, NextTest, ran' = ran, object' \in Tests \cup {None, "null"},
         current_test_info' = None, test \in 1 .. Len(order.tests[Suite]), open = OfTheSuite,
         TestsDone(test), flags.fail_fast => TestsClean({Test}) /\ SuitesClean({})
  PROVE  RunInv'
<1> DEFINE n == Len(order.tests[Suite])
           later == {order.tests[Suite][k] : k \in test + 1 .. n}
           stop == flags.fail_fast /\ Failed(result[Test])
<1>1. RunTyped /\ Position /\ Quiet /\ suite' = suite /\ env' = env
      /\ current_test_suite' = current_test_suite /\ current_test_suite = Suite
  BY DEF RunInv, WithinSuite, Position
<1>2. Repeats' /\ FailuresKept' /\ Exits'
  BY <1>1, QuietKeeps, WithinSuiteFacts
<1>3. SuitesDone(suite - 1)' /\ \A t \in Tests : Done(t) => Done(t)'
  BY SuitesStayDone
<1>4. open' = OfTheSuite'
  BY <1>1, WithinSuiteFacts DEF OfTheSuite, Quiet, Environment
<1>5. n \in Nat /\ test \in Nat /\ Test \in Tests /\ Test \in OfSuite(Suite)
  BY WithinSuiteFacts DEF Test
<1>6. /\ IF stop THEN Skip(later \cap selected) ELSE result' = result
      /\ IF stop \/ later = {} THEN at' = "TearDownTestSuite" /\ test' = test
         ELSE at' = "test" /\ test' = test + 1
  BY DEF NextTest
<1>7. RunTyped'
  <2>1. test' \in Nat
    <3>1. test' = test \/ test' = test + 1
      BY DEF NextTest
    <3>2. QED
      BY <1>5, <3>1
  <2>2. QED
    BY <1>1, <2>1, QuietTyped, WithinSuiteFacts DEF RunTyped
<1>8. CASE stop \/ later = {}
  <2>1. at' = "TearDownTestSuite"
    BY <1>6, <1>8
  <2>2. Position'
    BY <1>1, <2>1, WithinSuiteFacts DEF Position, InSuite, InTest
  <2>3. Stacked'
    BY <1>4, <2>1 DEF Stacked
  <2>4. FailsFast'
    <3>1. flags'.fail_fast => TestsClean(OfSuite(Suite))' /\ SuitesClean({Suite})'
      <4>1. SUFFICES ASSUME flags.fail_fast PROVE TestsClean(OfSuite(Suite))' /\ SuitesClean({Suite})'
        BY <1>1 DEF Quiet
      <4>2. TestsClean({Test}) /\ SuitesClean({})
        BY <4>1
      <4>3. \A t \in selected \ OfSuite(Suite) : t \in Tests /\ ~Failed(result'[t])
        BY <1>1, <1>5, <4>2 DEF TestsClean, Quiet, RunTyped
      <4>4. SuitesClean({Suite})'
        BY <1>1, <4>2 DEF SuitesClean, Quiet
      <4>5. TestsClean(OfSuite(Suite))'
        BY <4>3, WithinSuiteFacts DEF TestsClean
      <4>6. QED
        BY <4>4, <4>5
    <3>2. QED
      BY <2>1, <3>1 DEF FailsFast, InTest
  <2>5. Progress'
    <3>1. \A t \in Selected(Suite)' : Done(t)'
      <4>1. SUFFICES ASSUME NEW t \in Selected(Suite) PROVE Done(t)'
        BY WithinSuiteFacts
      <4>2. t \in selected /\ t \in Tests
        BY WithinSuiteFacts
      <4>3. PICK k \in 1 .. n : order.tests[Suite][k] = t
        BY WithinSuiteFacts
      <4>4. CASE k \in 1 .. test
        BY <1>3, <4>2, <4>3, <4>4 DEF TestsDone
      <4>5. CASE k \notin 1 .. test
        <5>1. k \in test + 1 .. n
          BY <1>5, <4>3, <4>5
        <5>2. t \in later
          BY <4>3, <5>1
        <5>3. Skip(later \cap selected)
          BY <1>6, <1>8, <5>2
        <5>4. "skip" \in result'[t]
          BY <1>1, <4>2, <5>2, <5>3, SkipFacts
        <5>5. QED
          BY <5>4 DEF Done
      <4>6. QED
        BY <4>4, <4>5
    <3>2. QED
      BY <1>3, <2>1, <3>1 DEF Progress, InTest
  <2>6. QED
    BY <1>2, <1>7, <2>2, <2>3, <2>4, <2>5 DEF RunInv
<1>9. CASE ~(stop \/ later = {})
  <2>1. at' = "test" /\ test' = test + 1 /\ result' = result
    BY <1>6, <1>9
  <2>2. test' \in 1 .. n /\ test' - 1 = test
    <3>1. \E k \in test + 1 .. n : TRUE
      BY <1>9
    <3>2. QED
      BY <1>5, <2>1, <3>1
  <2>3. Position'
    BY <1>1, <2>1, <2>2, WithinSuiteFacts DEF Position, InSuite, InTest
  <2>4. Stacked'
    BY <1>4, <2>1 DEF Stacked
  <2>5. FailsFast'
    <3>1. flags'.fail_fast => TestsClean({})' /\ SuitesClean({})'
      BY <1>1, <1>9, <2>1 DEF Quiet, TestsClean, SuitesClean
    <3>2. QED
      BY <2>1, <3>1 DEF FailsFast, InTest
  <2>6. Progress'
    <3>1. \A k \in 1 .. test : order.tests[Suite][k] \in selected => Done(order.tests[Suite][k])'
      <4>1. SUFFICES ASSUME NEW k \in 1 .. test, order.tests[Suite][k] \in selected
                     PROVE  Done(order.tests[Suite][k])'
        OBVIOUS
      <4>2. PICK t : t = order.tests[Suite][k]
        OBVIOUS
      <4>3. t \in Tests /\ Done(t)
        BY <1>1, <4>1, <4>2 DEF TestsDone, RunTyped
      <4>4. Done(t)'
        BY <1>3, <4>3
      <4>5. order'.tests[Suite'][k] = t
        BY <4>2, WithinSuiteFacts
      <4>6. QED
        BY <4>4, <4>5 DEF Done
    <3>2. TestsDone(test - 1)'
      BY <2>1, <2>2, <3>1, WithinSuiteFacts DEF TestsDone
    <3>3. QED
      BY <1>3, <2>1, <3>2 DEF Progress, InTest
  <2>7. QED
    BY <1>2, <1>7, <2>3, <2>4, <2>5, <2>6 DEF RunInv
<1>10. QED
  BY <1>8, <1>9

LEMMA EndTestKeeps ==
  ASSUME RunInv, EndTest
  PROVE  RunInv'
<1>1. at = "test_end" /\ RunTyped /\ Position /\ Stacked /\ FailsFast /\ Progress
  BY DEF EndTest, RunInv
<1>2. at \in InTest /\ at \in InSuite
  BY <1>1 DEF InTest, InSuite
<1>3. (\E S : Skip(S)) \/ result' = result
  BY DEF EndTest, NextTest
<1>4. at' \in InSuite
  BY DEF EndTest, NextTest, InSuite
<1>5. Quiet
  BY <1>1, <1>3, SkipFacts DEF EndTest, Quiet, Unchanging, setting
<1>6. WithinSuite
  BY <1>2, <1>4, <1>5 DEF WithinSuite, EndTest
<1>7. open = OfTheSuite /\ TestsDone(test) /\ test \in 1 .. Len(order.tests[Suite])
      /\ (flags.fail_fast => TestsClean({Test}) /\ SuitesClean({}))
  BY <1>1, <1>2 DEF Stacked, Progress, Position, FailsFast
<1>8. QED
  BY <1>6, <1>7, NextTestKeeps DEF EndTest

LEMMA StartTestKeeps ==
  ASSUME RunInv, StartTest
  PROVE  RunInv'
<1>1. at = "test" /\ at \in InSuite /\ RunTyped /\ Position /\ Stacked /\ FailsFast /\ Progress
      /\ current_test_info = None
  BY DEF StartTest, RunInv, InSuite, Position, InTest, Ats, Iterating, WithTests
<1>2. (\E S : Skip(S)) \/ result' = result
  BY DEF StartTest, NextTest
<1>3. at' \in InSuite
  BY DEF StartTest, NextTest, InSuite, InTest
<1>4. Quiet
  BY <1>1, <1>2, SkipFacts DEF StartTest, Quiet, Unchanging, setting
<1>5. WithinSuite
  BY <1>1, <1>3, <1>4 DEF WithinSuite, StartTest
<1>6. open = OfTheSuite /\ TestsDone(test - 1) /\ test \in 1 .. Len(order.tests[Suite])
      /\ (flags.fail_fast => TestsClean({}) /\ SuitesClean({}))
  BY <1>1 DEF Stacked, Progress, Position, FailsFast
<1>7. Len(order.tests[Suite]) \in Nat /\ Test \in Tests
  BY <1>5, <1>6, WithinSuiteFacts DEF Test
<1>8. CASE Test \notin selected
  <2>1. NextTest /\ current_test_info' = None /\ ran' = ran /\ object' = object
    BY <1>1, <1>8 DEF StartTest
  <2>2. TestsDone(test)
    <3>1. SUFFICES ASSUME NEW k \in 1 .. test, order.tests[Suite][k] \in selected
                   PROVE  Done(order.tests[Suite][k])
      BY DEF TestsDone
    <3>2. k # test
      BY <1>8, <3>1 DEF Test
    <3>3. k \in 1 .. test - 1
      BY <1>6, <1>7, <3>2
    <3>4. QED
      BY <1>6, <3>1, <3>3 DEF TestsDone
  <2>3. flags.fail_fast => TestsClean({Test}) /\ SuitesClean({})
    BY <1>6 DEF TestsClean
  <2>4. QED
    BY <1>1, <1>5, <1>6, <2>1, <2>2, <2>3, NextTestKeeps DEF RunTyped
<1>9. CASE Test \in selected
  <2>1. /\ at' = "constructor" /\ current_test_info' = Test /\ ran' = Append(ran, Test)
        /\ test' = test /\ result' = result /\ object' = object
        /\ suite' = suite /\ env' = env /\ current_test_suite' = current_test_suite
    BY <1>9 DEF StartTest
  <2>2. ran' \in Seq(Tests) /\ ToSet(ran') = ToSet(ran) \cup {Test}
    BY <1>1, <1>7, <2>1, AppendElements DEF RunTyped
  <2>3. Test' = Test /\ Suite' = Suite
    BY <1>5, <2>1, WithinSuiteFacts DEF Test
  <2>4. SuitesDone(suite - 1)' /\ \A t \in Tests : Done(t) => Done(t)'
    BY <1>5, <2>2, SuitesStayDone
  <2>5. RunTyped'
    BY <1>1, <1>4, <1>5, <1>9, <2>1, <2>2, QuietTyped, WithinSuiteFacts DEF RunTyped
  <2>6. Position'
    BY <1>1, <1>5, <1>6, <1>9, <2>1, <2>3, WithinSuiteFacts DEF Position, InSuite, InTest
  <2>7. Repeats' /\ FailuresKept' /\ Exits'
    BY <1>4, <1>5, QuietKeeps, WithinSuiteFacts
  <2>8. Stacked'
    <3>1. open' = OfTheSuite'
      BY <1>4, <1>6, <2>3 DEF OfTheSuite, Quiet, Environment
    <3>2. QED
      BY <2>1, <3>1 DEF Stacked
  <2>9. FailsFast'
    <3>1. flags'.fail_fast => TestsClean({Test})' /\ SuitesClean({})'
      BY <1>4, <1>6, <2>1 DEF Quiet, TestsClean, SuitesClean
    <3>2. QED
      BY <2>1, <3>1 DEF FailsFast, InTest
  <2>10. Progress'
    <3>1. \A k \in 1 .. test : order.tests[Suite][k] \in selected => Done(order.tests[Suite][k])'
      <4>1. SUFFICES ASSUME NEW k \in 1 .. test, order.tests[Suite][k] \in selected
                     PROVE  Done(order.tests[Suite][k])'
        OBVIOUS
      <4>2. PICK t : t = order.tests[Suite][k]
        OBVIOUS
      <4>3. Done(t)'
        <5>1. CASE k = test
          BY <2>2, <4>2, <5>1 DEF Done, Test
        <5>2. CASE k # test
          <6>1. k \in 1 .. test - 1
            BY <1>6, <1>7, <5>2
          <6>2. Done(t) /\ t \in Tests
            BY <1>1, <1>6, <4>1, <4>2, <6>1 DEF TestsDone, RunTyped
          <6>3. QED
            BY <2>4, <6>2
        <5>3. QED
          BY <5>1, <5>2
      <4>4. order'.tests[Suite'][k] = t
        BY <2>3, <4>2, <1>5, WithinSuiteFacts
      <4>5. QED
        BY <4>3, <4>4 DEF Done
    <3>2. TestsDone(test)'
      BY <1>5, <2>1, <3>1, WithinSuiteFacts DEF TestsDone
    <3>3. QED
      BY <2>1, <2>4, <3>2 DEF Progress
  <2>11. QED
    BY <2>5, <2>6, <2>7, <2>8, <2>9, <2>10 DEF RunInv
<1>10. QED
  BY <1>8, <1>9

(***************************************************************************)
(* The beginning and the end of an iteration, and of the program.           *)
(***************************************************************************)
LEMMA StartIterationKeeps ==
  ASSUME RunInv, StartIteration
  PROVE  RunInv'
<1>1. /\ at = "iterate" /\ RunTyped /\ Position /\ Repeats /\ FailuresKept /\ Exits /\ Stacked
      /\ iteration # repeat /\ current_test_suite = None /\ current_test_info = None
  BY DEF StartIteration, RunInv, Position, Ats, Iterating, WithTests, InSuite, InTest
<1>2. /\ flags' = flags /\ rnd' = rnd /\ selected' = selected /\ exit' = exit /\ file' = file
      /\ bad' = bad /\ iteration' = iteration /\ suite' = suite /\ test' = test /\ seed' = seed
      /\ current_test_suite' = None /\ current_test_info' = None /\ ad_hoc' = ad_hoc
      /\ failed' = failed /\ object' = object /\ open' = open /\ env' = 1 /\ ran' = <<>>
  BY <1>1 DEF StartIteration, Unchanging, setting, current
<1>3. /\ result' = [t \in Tests |-> {}] /\ suite_result' = [s \in Names |-> {}]
  BY SuitesFacts DEF StartIteration
<1>4. repeat' = repeat /\ recreate_environments' = recreate_environments
  BY <1>2 DEF repeat, recreate_environments
<1>5. ListsAll(order') /\ Len(order'.suites) = Len(order.suites)
  <2>1. rnd[seed] \in Seq(Nat)
    BY <1>1 DEF RunTyped
  <2>2. ListsAll(order')
    BY <1>1, <2>1, ShuffleListsAll DEF StartIteration, RunTyped
  <2>3. QED
    BY <1>1, <2>2, ListFacts DEF RunTyped
<1>6. /\ at' \in {"iteration_end", "env_setup", "decide"}
      /\ at' \in {"env_setup", "decide"} => selected # {}
      /\ at' = "env_setup" => Environments > 0 /\ (iteration = 0 \/ recreate_environments)
      /\ at' = "decide" => ~(Environments > 0 /\ (iteration = 0 \/ recreate_environments))
      /\ at' = "iteration_end" => selected = {}
  BY DEF StartIteration, has_tests_to_run
<1>7. at' \in Iterating /\ at' \in Ats /\ at' \notin InSuite /\ at' \notin InTest /\ at' \notin {"ended", "suite"}
  BY <1>6 DEF Iterating, WithTests, Ats, InSuite, InTest
<1>8. RunTyped'
  <2>1. result' \in [Tests -> SUBSET Severities] /\ suite_result' \in [Names -> SUBSET Severities]
    BY <1>3
  <2>2. ran' \in Seq(Tests)
    BY <1>2, EmptySeq
  <2>3. QED
    BY <1>1, <1>2, <1>5, <1>7, <2>1, <2>2 DEF RunTyped
<1>9. Position'
  BY <1>2, <1>6, <1>7 DEF Position, WithTests
<1>10. Repeats'
  BY <1>1, <1>2, <1>4, <1>6 DEF Repeats
<1>11. FailuresKept'
  <2>1. Failed(ad_hoc) => ~Passed'
    BY <1>2 DEF Passed
  <2>2. bad' => failed' \/ ~Passed'
    BY <1>1, <1>2, <2>1 DEF FailuresKept
  <2>3. QED
    BY <1>6, <2>2 DEF FailuresKept
<1>12. Exits'
  <2>1. exit' = None /\ file' = (flags'.exit_file /\ ~flags'.death_child)
    BY <1>1, <1>2 DEF Exits
  <2>2. GreenMeansPassed'
    BY <2>1 DEF GreenMeansPassed, None
  <2>3. QED
    BY <2>1, <2>2 DEF Exits
<1>13. Stacked'
  <2>1. open' = (IF Kept THEN Environment(Environments) ELSE <<>>) /\ Environments \in Nat
        /\ Environment(0) = <<>>
    BY <1>1, <1>2, FlagsAssumption, EnvironmentFacts DEF Stacked
  <2>2. CASE at' = "env_setup"
    <3>1. open' = <<>> /\ env' = 1 /\ env' - 1 = 0 /\ env' \in 1 .. Environments
      BY <1>2, <1>6, <2>1, <2>2 DEF Kept
    <3>2. open' = Environment(env' - 1)
      BY <2>1, <3>1
    <3>3. QED
      BY <2>2, <3>1, <3>2 DEF Stacked, Environment
  <2>3. CASE at' = "decide"
    <3>1. Environments = 0 \/ Kept
      BY <1>1, <1>6, <2>1, <2>3 DEF Kept
    <3>2. open' = Environment(Environments)
      BY <2>1, <3>1
    <3>3. QED
      BY <2>3, <3>2 DEF Stacked, Environment
  <2>4. CASE at' = "iteration_end"
    BY <1>2, <1>6, <2>1, <2>4 DEF Stacked, Kept
  <2>5. QED
    BY <1>6, <2>2, <2>3, <2>4
<1>14. FailsFast'
  <2>1. TestsClean({})' /\ SuitesClean({})'
    BY <1>1, <1>2, <1>3 DEF TestsClean, SuitesClean, Failed, RunTyped
  <2>2. QED
    BY <1>6, <2>1 DEF FailsFast, InTest
<1>15. Progress'
  BY <1>2, <1>6, <1>7 DEF Progress
<1>16. QED
  BY <1>8, <1>9, <1>10, <1>11, <1>12, <1>13, <1>14, <1>15 DEF RunInv

\* A seed is one of 1 .. kMaxRandomSeed.
LEMMA SeedFacts ==
  /\ \A raw \in Nat : GetRandomSeedFromFlag(raw) \subseteq 1 .. kMaxRandomSeed
  /\ \A s \in 1 .. kMaxRandomSeed : GetNextRandomSeed(s) \in 1 .. kMaxRandomSeed
<1>1. kMaxRandomSeed \in Nat \ {0}
  BY FlagsAssumption
<1>2. ASSUME NEW raw \in Nat PROVE GetRandomSeedFromFlag(raw) \subseteq 1 .. kMaxRandomSeed
  <2>1. CASE raw = 0
    BY <2>1 DEF GetRandomSeedFromFlag
  <2>2. CASE raw # 0
    <3>1. raw - 1 \in Nat
      BY <2>2
    <3>2. (raw - 1) % kMaxRandomSeed \in 0 .. kMaxRandomSeed - 1
      BY <1>1, <3>1, ModFacts
    <3>3. GetRandomSeedFromFlag(raw) = {((raw - 1) % kMaxRandomSeed) + 1}
      BY <2>2 DEF GetRandomSeedFromFlag
    <3>4. \A m \in 0 .. kMaxRandomSeed - 1 : m + 1 \in 1 .. kMaxRandomSeed
      BY <1>1
    <3>5. QED
      BY <3>2, <3>3, <3>4
  <2>3. QED
    BY <2>1, <2>2
<1>3. \A s \in 1 .. kMaxRandomSeed : GetNextRandomSeed(s) \in 1 .. kMaxRandomSeed
  BY <1>1 DEF GetNextRandomSeed
<1>4. QED
  BY <1>2, <1>3

LEMMA EndIterationKeeps ==
  ASSUME RunInv, EndIteration
  PROVE  RunInv'
<1>1. /\ at = "iteration_end" /\ at' = "iterate" /\ RunTyped /\ Position /\ Repeats /\ FailuresKept
      /\ Exits /\ Stacked /\ current_test_suite = None /\ current_test_info = None
      /\ iteration # repeat /\ at \in Iterating
  BY DEF EndIteration, RunInv, Position, Repeats, Ats, Iterating, WithTests, InSuite, InTest
<1>2. /\ flags' = flags /\ rnd' = rnd /\ selected' = selected /\ exit' = exit /\ file' = file
      /\ bad' = bad /\ suite' = suite /\ test' = test /\ env' = env
      /\ current_test_suite' = None /\ current_test_info' = None /\ ad_hoc' = ad_hoc
      /\ result' = result /\ suite_result' = suite_result
      /\ object' = object /\ open' = open /\ ran' = ran
  BY <1>1 DEF EndIteration, Unchanging, setting, current, results
<1>3. repeat' = repeat /\ recreate_environments' = recreate_environments /\ repeat \in Int
      /\ iteration \in Nat
  BY <1>1, <1>2, RepeatType DEF repeat, recreate_environments, RunTyped
<1>4. iteration' = IF repeat < 0 THEN 1 ELSE iteration + 1
  BY DEF EndIteration, NextIteration
<1>5. failed' = (failed \/ ~Passed)
  BY DEF EndIteration, Verdict
<1>6. ListsAll(order') /\ Len(order'.suites) = Len(order.suites)
  <2>1. ListsAll(order')
    BY RegistrationListsAll DEF EndIteration, UnshuffleTests
  <2>2. QED
    BY <1>1, <2>1, ListFacts DEF RunTyped
<1>7. RunTyped'
  <2>1. seed' \in 1 .. kMaxRandomSeed
    BY <1>1, SeedFacts DEF EndIteration, RunTyped
  <2>2. iteration' \in Nat
    BY <1>3, <1>4
  <2>3. failed' \in BOOLEAN
    BY <1>5
  <2>4. at' \in Ats
    BY <1>1 DEF Ats
  <2>5. QED
    BY <1>1, <1>2, <1>6, <2>1, <2>2, <2>3, <2>4 DEF RunTyped
<1>8. Position'
  BY <1>1, <1>2 DEF Position, WithTests, InSuite, InTest
<1>9. Repeats'
  <2>1. repeat >= 0 => iteration' <= repeat
    BY <1>1, <1>3, <1>4 DEF Repeats
  <2>2. QED
    BY <1>1, <1>3, <2>1 DEF Repeats, Iterating, WithTests, InSuite, InTest
<1>10. FailuresKept'
  <2>1. bad' => failed'
    BY <1>1, <1>2, <1>5 DEF FailuresKept
  <2>2. QED
    BY <1>1, <2>1 DEF FailuresKept, Iterating, WithTests, InSuite, InTest
<1>11. Exits'
  <2>1. exit' = None /\ file' = (flags'.exit_file /\ ~flags'.death_child)
    BY <1>1, <1>2 DEF Exits
  <2>2. GreenMeansPassed'
    BY <2>1 DEF GreenMeansPassed, None
  <2>3. QED
    BY <2>1, <2>2 DEF Exits
<1>12. Stacked'
  <2>1. open' = IF selected # {} /\ ~recreate_environments /\ iteration < repeat - 1
                THEN Environment(Environments) ELSE <<>>
    BY <1>1, <1>2 DEF Stacked
  <2>2. ~recreate_environments => ((iteration < repeat - 1) <=> (iteration' # 0 /\ iteration' # repeat))
    <3>1. SUFFICES ASSUME ~recreate_environments
                   PROVE  (iteration < repeat - 1) <=> (iteration' # 0 /\ iteration' # repeat)
      OBVIOUS
    <3>2. repeat >= 0
      BY <1>3, <3>1 DEF recreate_environments
    <3>3. iteration <= repeat /\ iteration' = iteration + 1
      BY <1>1, <1>3, <1>4, <3>2 DEF Repeats
    <3>4. QED
      BY <1>1, <1>3, <3>3
  <2>3. open' = IF Kept' THEN Environment(Environments) ELSE <<>>
    BY <1>2, <1>3, <2>1, <2>2 DEF Kept
  <2>4. QED
    BY <1>1, <2>3 DEF Stacked, Environment
<1>13. FailsFast' /\ Progress'
  BY <1>1 DEF FailsFast, Progress, InSuite, InTest
<1>14. QED
  BY <1>7, <1>8, <1>9, <1>10, <1>11, <1>12, <1>13 DEF RunInv

LEMMA BeginKeeps ==
  ASSUME RunInv, Begin
  PROVE  RunInv'
<1>1. /\ at = "main" /\ RunTyped /\ Position /\ Repeats /\ FailuresKept /\ Exits /\ Stacked
      /\ current_test_suite = None /\ current_test_info = None /\ iteration = 0 /\ selected = {}
      /\ open = <<>>
  BY DEF Begin, RunInv, Position, Repeats, Stacked, Ats, Iterating, WithTests, InSuite, InTest
<1>2. /\ flags' = flags /\ rnd' = rnd /\ bad' = bad /\ suite' = suite /\ test' = test /\ env' = env
      /\ iteration' = 0 /\ order' = order
      /\ current_test_suite' = None /\ current_test_info' = None /\ ad_hoc' = ad_hoc
      /\ result' = result /\ suite_result' = suite_result /\ failed' = failed
      /\ object' = object /\ open' = <<>> /\ ran' = ran
  BY <1>1 DEF Begin, current, results, loop, history
<1>3. \/ /\ at' = "ended" /\ exit' \in {"0", "exit(1)"} /\ seed' = seed /\ file' \in BOOLEAN
         /\ exit' = "0" => flags.help \/ flags.list_tests
      \/ /\ at' = "iterate" /\ file' = (flags.exit_file /\ ~flags.death_child) /\ exit' = exit
         /\ seed' \in GetRandomSeedFromFlag(flags.random_seed)
  <2>1. (flags.exit_file /\ ~flags.death_child) \in BOOLEAN
    OBVIOUS
  <2>2. QED
    BY <2>1 DEF Begin, Return, End
<1>4. selected' \in SUBSET Tests
  <2>1. selected' = {} \/ selected' = FilterTests(flags)
    BY DEF Begin
  <2>2. flags.matching \in SUBSET Tests
    BY <1>1, FlagTypes DEF RunTyped
  <2>3. QED
    BY <2>1, <2>2 DEF FilterTests, Runnable
<1>5. repeat' = repeat
  BY <1>2 DEF repeat
<1>6. RunTyped'
  <2>1. flags.random_seed \in Nat
    BY <1>1, FlagTypes DEF RunTyped
  <2>2. seed' \in 1 .. kMaxRandomSeed
    BY <1>1, <1>3, <2>1, SeedFacts DEF RunTyped
  <2>3. exit' \in {None, "0", "1", "exit(0)", "exit(1)", "abort", "crash"} /\ file' \in BOOLEAN
    BY <1>1, <1>3 DEF RunTyped
  <2>4. at' \in Ats
    BY <1>3 DEF Ats
  <2>5. QED
    BY <1>1, <1>2, <1>4, <2>2, <2>3, <2>4 DEF RunTyped
<1>7. Position'
  BY <1>2, <1>3 DEF Position, WithTests, InSuite, InTest
<1>8. Repeats'
  BY <1>2, <1>3 DEF Repeats, Iterating, WithTests, InSuite, InTest
<1>9. FailuresKept'
  <2>1. bad' => iteration' = 0 /\ Failed(ad_hoc')
    BY <1>1, <1>2 DEF FailuresKept
  <2>2. QED
    BY <1>3, <2>1 DEF FailuresKept, Iterating, WithTests, InSuite, InTest
<1>10. Exits'
  <2>1. CASE at' = "ended"
    <3>1. exit' \in {"0", "exit(1)"} /\ (exit' = "0" => flags'.help \/ flags'.list_tests)
      BY <1>2, <1>3, <2>1
    <3>2. GreenMeansPassed'
      BY <3>1 DEF GreenMeansPassed
    <3>3. QED
      BY <2>1, <3>2 DEF Exits
  <2>2. CASE at' = "iterate"
    <3>1. exit' = None /\ file' = (flags'.exit_file /\ ~flags'.death_child)
      BY <1>1, <1>2, <1>3, <2>2 DEF Exits
    <3>2. GreenMeansPassed'
      BY <3>1 DEF GreenMeansPassed, None
    <3>3. QED
      BY <3>1, <3>2 DEF Exits
  <2>3. QED
    BY <1>3, <2>1, <2>2
<1>11. Stacked'
  <2>1. ~Kept'
    BY <1>2 DEF Kept
  <2>2. QED
    BY <1>2, <1>3, <2>1 DEF Stacked
<1>12. FailsFast' /\ Progress'
  BY <1>3 DEF FailsFast, Progress, InSuite, InTest
<1>13. QED
  BY <1>6, <1>7, <1>8, <1>9, <1>10, <1>11, <1>12 DEF RunInv

LEMMA EndProgramKeeps ==
  ASSUME RunInv, EndProgram
  PROVE  RunInv'
<1>1. /\ RunTyped /\ Position /\ Repeats /\ FailuresKept /\ Exits /\ Stacked
      /\ at \in {"iterate", "program_end"} /\ current_test_suite = None /\ current_test_info = None
      /\ iteration = repeat
  BY DEF EndProgram, RunInv, Position, Repeats, Ats, Iterating, WithTests, InSuite, InTest
<1>2. /\ flags' = flags /\ rnd' = rnd /\ bad' = bad /\ suite' = suite /\ test' = test /\ env' = env
      /\ iteration' = iteration /\ order' = order /\ seed' = seed /\ selected' = selected
      /\ current_test_suite' = None /\ current_test_info' = None /\ ad_hoc' = ad_hoc
      /\ result' = result /\ suite_result' = suite_result /\ failed' = failed
      /\ object' = object /\ open' = open /\ ran' = ran
  BY <1>1 DEF EndProgram, setting, current, results, loop, history
<1>3. repeat' = repeat
  BY <1>2 DEF repeat
<1>4. CASE at = "iterate"
  <2>1. at' = "program_end" /\ exit' = exit /\ file' = file
    BY <1>4 DEF EndProgram
  <2>2. RunTyped'
    BY <1>1, <1>2, <2>1 DEF RunTyped, Ats
  <2>3. Position'
    BY <1>2, <2>1 DEF Position, WithTests, InSuite, InTest
  <2>4. Repeats'
    BY <1>1, <1>2, <1>3, <2>1 DEF Repeats, Iterating, WithTests, InSuite, InTest
  <2>5. FailuresKept'
    <3>1. bad' => failed' \/ repeat' = 0
      BY <1>1, <1>2, <1>3, <1>4 DEF FailuresKept
    <3>2. QED
      BY <2>1, <3>1 DEF FailuresKept, Iterating, WithTests, InSuite, InTest
  <2>6. Exits'
    <3>1. exit' = None /\ file' = (flags'.exit_file /\ ~flags'.death_child)
      BY <1>1, <1>2, <1>4, <2>1 DEF Exits
    <3>2. GreenMeansPassed'
      BY <3>1 DEF GreenMeansPassed, None
    <3>3. QED
      BY <3>1, <3>2 DEF Exits
  <2>7. Stacked'
    BY <1>1, <1>2, <1>4, <2>1 DEF Stacked, Kept
  <2>8. FailsFast' /\ Progress'
    BY <2>1 DEF FailsFast, Progress, InSuite, InTest
  <2>9. QED
    BY <2>2, <2>3, <2>4, <2>5, <2>6, <2>7, <2>8 DEF RunInv
<1>5. CASE at = "program_end"
  <2>1. at' = "ended" /\ exit' = (IF failed THEN "1" ELSE "0") /\ file' = FALSE
    BY <1>5 DEF EndProgram, Return, End
  <2>2. RunTyped'
    BY <1>1, <1>2, <2>1 DEF RunTyped, Ats
  <2>3. Position'
    BY <1>2, <2>1 DEF Position, WithTests, InSuite, InTest
  <2>4. Repeats'
    BY <1>1, <1>2, <1>3, <2>1 DEF Repeats, Iterating, WithTests, InSuite, InTest
  <2>5. FailuresKept'
    BY <2>1 DEF FailuresKept, Iterating, WithTests, InSuite, InTest
  <2>6. Exits'
    <3>1. bad => failed \/ repeat = 0
      BY <1>1, <1>5 DEF FailuresKept
    <3>2. CASE failed
      BY <2>1, <3>2 DEF Exits, GreenMeansPassed
    <3>3. CASE ~failed
      <4>1. GreenMeansPassed'
        BY <1>2, <1>3, <3>1, <3>3 DEF GreenMeansPassed
      <4>2. QED
        BY <2>1, <4>1 DEF Exits
    <3>4. QED
      BY <3>2, <3>3
  <2>7. Stacked'
    BY <2>1 DEF Stacked
  <2>8. FailsFast' /\ Progress'
    BY <2>1 DEF FailsFast, Progress, InSuite, InTest
  <2>9. QED
    BY <2>2, <2>3, <2>4, <2>5, <2>6, <2>7, <2>8 DEF RunInv
<1>6. QED
  BY <1>1, <1>4, <1>5

LEMMA StutterKeeps ==
  ASSUME RunInv, UNCHANGED vars
  PROVE  RunInv'
<1>1. /\ flags' = flags /\ rnd' = rnd /\ at' = at /\ bad' = bad /\ suite' = suite /\ test' = test
      /\ env' = env /\ iteration' = iteration /\ order' = order /\ seed' = seed /\ selected' = selected
      /\ current_test_suite' = current_test_suite /\ current_test_info' = current_test_info
      /\ ad_hoc' = ad_hoc /\ result' = result /\ suite_result' = suite_result /\ failed' = failed
      /\ object' = object /\ open' = open /\ ran' = ran /\ exit' = exit /\ file' = file
  BY DEF vars, setting, loop, current, results, history
<1>2. Suite' = Suite /\ Test' = Test /\ repeat' = repeat
      /\ recreate_environments' = recreate_environments
  BY <1>1 DEF Suite, Test, repeat, recreate_environments
<1>3. RunTyped'
  BY <1>1 DEF RunInv, RunTyped
<1>4. Position'
  BY <1>1, <1>2 DEF RunInv, Position, Selected
<1>5. Repeats'
  BY <1>1, <1>2 DEF RunInv, Repeats
<1>6. FailuresKept'
  BY <1>1, <1>2 DEF RunInv, FailuresKept, Passed, SuiteFailed, Selected
<1>7. Exits'
  BY <1>1, <1>2 DEF RunInv, Exits, GreenMeansPassed
<1>8. Stacked'
  BY <1>1, <1>2 DEF RunInv, Stacked, Kept, OfTheSuite, OfTheObject, Environment
<1>9. FailsFast'
  BY <1>1, <1>2 DEF RunInv, FailsFast, TestsClean, SuitesClean, OfSuite
<1>10. Progress'
  BY <1>1, <1>2 DEF RunInv, Progress, SuitesDone, TestsDone, Done, Selected
<1>11. QED
  BY <1>3, <1>4, <1>5, <1>6, <1>7, <1>8, <1>9, <1>10 DEF RunInv

LEMMA InitKeeps ==
  ASSUME Init
  PROVE  RunInv
<1>1. /\ at = "main" /\ iteration = 0 /\ env = 1 /\ suite = 1 /\ test = 1 /\ order = Registration
      /\ seed = 1 /\ current_test_suite = None /\ current_test_info = None /\ ad_hoc = {}
      /\ selected = {} /\ failed = FALSE /\ object = None /\ exit = None /\ file = FALSE
      /\ bad = FALSE /\ ran = <<>> /\ open = <<>> /\ flags \in Flags
      /\ result = [t \in Tests |-> {}] /\ suite_result = [s \in Names |-> {}]
  BY SuitesFacts DEF Init
<1>2. rnd \in [1 .. kMaxRandomSeed -> Seq(Nat)]
  BY FlagsAssumption DEF Init
<1>3. ListsAll(order)
  BY <1>1, RegistrationListsAll
<1>4. suite \in 1 .. Len(order.suites) \/ (suite = 1 /\ Tests = {})
  <2>1. CASE Tests = {}
    BY <1>1, <2>1
  <2>2. CASE Tests # {}
    <3>1. PICK t \in Tests : TRUE
      BY <2>2
    <3>2. SuiteOf(t) \in Names
      BY SuiteOfFacts
    <3>3. PICK k \in 1 .. Len(order.suites) : order.suites[k] = SuiteOf(t)
      BY <1>3, <3>2, ListFacts
    <3>4. QED
      BY <1>1, <1>3, <3>3, ListFacts
  <2>3. QED
    BY <2>1, <2>2
<1>5. RunTyped
  <2>1. seed \in 1 .. kMaxRandomSeed
    BY <1>1, FlagsAssumption
  <2>2. result \in [Tests -> SUBSET Severities] /\ suite_result \in [Names -> SUBSET Severities]
    BY <1>1
  <2>3. ran \in Seq(Tests)
    BY <1>1, EmptySeq
  <2>4. QED
    BY <1>1, <1>2, <1>3, <1>4, <2>1, <2>2, <2>3 DEF RunTyped, Ats
<1>6. Position
  BY <1>1 DEF Position, WithTests, InSuite, InTest
<1>7. Repeats
  BY <1>1 DEF Repeats, Iterating, WithTests, InSuite, InTest
<1>8. FailuresKept
  BY <1>1 DEF FailuresKept, Iterating, WithTests, InSuite, InTest
<1>9. Exits
  <2>1. GreenMeansPassed
    BY <1>1 DEF GreenMeansPassed
  <2>2. QED
    BY <1>1, <2>1 DEF Exits
<1>10. Stacked
  BY <1>1 DEF Stacked
<1>11. FailsFast /\ Progress
  BY <1>1 DEF FailsFast, Progress, InSuite, InTest
<1>12. QED
  BY <1>5, <1>6, <1>7, <1>8, <1>9, <1>10, <1>11 DEF RunInv

\* The invariant holds of every run: each action keeps it.
LEMMA RunInvariant == Spec => []RunInv
<1>1. Init => RunInv
  BY InitKeeps
<1>2. RunInv /\ [Next]_vars => RunInv'
  <2>1. SUFFICES ASSUME RunInv, [Next]_vars PROVE RunInv'
    OBVIOUS
  <2>2. CASE UserAction
    BY <2>1, <2>2, UserKeeps
  <2>3. CASE Begin
    BY <2>1, <2>3, BeginKeeps
  <2>4. CASE StartIteration
    BY <2>1, <2>4, StartIterationKeeps
  <2>5. CASE Decide
    BY <2>1, <2>5, DecideKeeps
  <2>6. CASE StartSuite
    BY <2>1, <2>6, StartSuiteKeeps
  <2>7. CASE SkipAllOrNone
    BY <2>1, <2>7, SkipAllOrNoneKeeps
  <2>8. CASE StartTest
    BY <2>1, <2>8, StartTestKeeps
  <2>9. CASE EndTest
    BY <2>1, <2>9, EndTestKeeps
  <2>10. CASE EndSuite
    BY <2>1, <2>10, EndSuiteKeeps
  <2>11. CASE EndIteration
    BY <2>1, <2>11, EndIterationKeeps
  <2>12. CASE EndProgram
    BY <2>1, <2>12, EndProgramKeeps
  <2>13. CASE Stopped \/ UNCHANGED vars
    BY <2>1, <2>13, StutterKeeps DEF Stopped
  <2>14. QED
    BY <2>1, <2>2, <2>3, <2>4, <2>5, <2>6, <2>7, <2>8, <2>9, <2>10, <2>11, <2>12, <2>13
       DEF Next, UserAction
<1>3. QED
  BY <1>1, <1>2, PTL DEF Spec

(***************************************************************************)
(* What follows from it.                                                    *)
(***************************************************************************)
LEMMA TypeFollows ==
  ASSUME RunInv
  PROVE  TypeOK
<1>1. RunTyped /\ Position /\ ToSet(test_suites) = Names
  BY SuitesFacts DEF RunInv
<1>2. at \in ListenerPoints \cup {"main", "iterate", "suite", "skip_all", "test", "run", "SetUp",
                                  "TestBody", "TearDown", "destructor", "TearDownTestSuite", "ended"}
  BY <1>1 DEF RunTyped, Ats, Iterating, WithTests, InSuite, InTest, ListenerPoints
<1>3. has_tests_to_run => suite \in DOMAIN order.suites
  BY <1>1, ListFacts DEF RunTyped, has_tests_to_run
<1>4. at = "test" => test \in DOMAIN order.tests[Suite]
  <2>1. SUFFICES ASSUME at = "test" PROVE test \in DOMAIN order.tests[Suite]
    OBVIOUS
  <2>2. at \in WithTests /\ test \in 1 .. Len(order.tests[Suite])
    BY <1>1, <2>1 DEF WithTests, InSuite, Position
  <2>3. Suite \in Names
    BY <1>1, <2>2, SuitePlace
  <2>4. QED
    BY <1>1, <2>2, <2>3, ListFacts DEF RunTyped
<1>5. QED
  BY <1>1, <1>2, <1>3, <1>4 DEF TypeOK, RunTyped

LEMMA PairedFollows ==
  ASSUME RunInv
  PROVE  Paired
<1>1. RunTyped /\ Position /\ Stacked
  BY DEF RunInv
<1>2. ASSUME at = "TearDown" PROVE Last(open) = <<"SetUp", Test>>
  <2>1. at \in InTest /\ at \in InSuite /\ open = Append(OfTheObject, <<"SetUp", Test>>)
    BY <1>1, <1>2 DEF Stacked, InTest, InSuite
  <2>2. QED
    BY <1>1, <2>1, StackFacts
<1>3. ASSUME at = "destructor" PROVE Last(open) = <<"object", Test>>
  <2>1. at \in InTest /\ at \in InSuite /\ open = OfTheObject
    BY <1>1, <1>3 DEF Stacked, InTest, InSuite
  <2>2. QED
    BY <1>1, <2>1, StackFacts
<1>4. ASSUME at = "TearDownTestSuite" PROVE Last(open) = <<"suite", Suite>>
  <2>1. at \in InSuite /\ open = OfTheSuite
    BY <1>1, <1>4 DEF Stacked, InSuite
  <2>2. QED
    BY <1>1, <2>1, StackFacts
<1>5. ASSUME at = "env_teardown" PROVE Last(open) = <<"environment", env>>
  <2>1. env \in 1 .. Environments /\ open = Environment(env) /\ Environments \in Nat
    BY <1>1, <1>5, FlagsAssumption DEF Stacked
  <2>2. env - 1 \in Nat /\ env - 1 + 1 = env /\ env \in Nat
    BY <2>1
  <2>3. open = Append(Environment(env - 1), <<"environment", env>>)
        /\ Environment(env - 1) \in Seq(Entries) /\ <<"environment", env>> \in Entries
    BY <2>1, <2>2, EnvironmentFacts DEF Entries
  <2>4. QED
    BY <2>3, PushPop
<1>6. at = "iteration_end" =>
        open = IF has_tests_to_run /\ ~recreate_environments /\ iteration < repeat - 1
               THEN [k \in 1 .. Environments |-> <<"environment", k>>] ELSE <<>>
  BY <1>1 DEF Stacked, has_tests_to_run, Environment
<1>7. at = "program_end" => open = <<>>
  BY <1>1 DEF Stacked
<1>8. QED
  BY <1>2, <1>3, <1>4, <1>5, <1>6, <1>7 DEF Paired

LEMMA FailFastFollows ==
  ASSUME RunInv
  PROVE  FailFastStops
<1>1. SUFFICES ASSUME flags.fail_fast, at \in {"constructor", "run", "SetUp", "TestBody"}
               PROVE  /\ \A t \in selected \ {Test} : ~Failed(result[t])
                      /\ \A s \in Names \ {Suite} : ~Failed(suite_result[s])
  BY SuitesFacts DEF FailFastStops
<1>2. TestsClean({Test}) /\ SuitesClean({})
  BY <1>1 DEF RunInv, FailsFast, InTest
<1>3. QED
  BY <1>2 DEF TestsClean, SuitesClean

LEMMA NothingFollows ==
  ASSUME RunInv
  PROVE  NothingForgotten
  BY DEF RunInv, Progress, NothingForgotten, Done

\* The index of a shard is what the tests before a test leave over.
LEMMA ShardsFollow ==
  ASSUME RunInv
  PROVE  ShardsPartition
<1>1. flags \in Flags
  BY DEF RunInv, RunTyped
<1>2. SUFFICES ASSUME ShouldShard(flags) = "yes", NEW t \in Runnable(flags)
               PROVE  Cardinality({i \in 0 .. flags.total - 1 :
                                     t \in FilterTests([flags EXCEPT !.index = i])}) = 1
  BY DEF ShardsPartition
<1>3. flags.total \in Int /\ flags.total > 1 /\ ~flags.death_child /\ flags.matching \subseteq Tests
  BY <1>1, <1>2, FlagTypes DEF ShouldShard
<1> DEFINE n == Len(Registered)
           f == [k \in 1 .. n |-> InfoAt(k)[2]]
           m == Cardinality(RunnableBefore(flags, t)) % flags.total
           Shard(i) == [flags EXCEPT !.index = i]
<1>4. IsFiniteSet(Tests)
  <2>1. n \in Nat /\ (\A k \in 1 .. n : f[k] \in Tests) /\ \A x \in Tests : \E k \in 1 .. n : f[k] = x
    BY RegisteredFacts
  <2>2. f \in Surjection(1 .. n, Tests)
    BY <2>1 DEF Surjection
  <2>3. IsFiniteSet(1 .. n)
    BY <2>1, FS_Interval
  <2>4. QED
    BY <2>2, <2>3, FS_Surjection
<1>5. RunnableBefore(flags, t) \in SUBSET Tests
  BY <1>3 DEF RunnableBefore, Runnable
<1>6. m \in 0 .. flags.total - 1
  <2>1. Cardinality(RunnableBefore(flags, t)) \in Nat
    BY <1>4, <1>5, FS_Subset, FS_CardinalityType
  <2>2. QED
    BY <1>3, <2>1, ModFacts
<1>7. ASSUME NEW i \in 0 .. flags.total - 1
      PROVE  t \in FilterTests(Shard(i)) <=> i = m
  <2>1. /\ Shard(i).total = flags.total /\ Shard(i).index = i /\ Shard(i).death_child = flags.death_child
        /\ Shard(i).matching = flags.matching /\ Shard(i).also_run_disabled = flags.also_run_disabled
    BY <1>1, FlagsAssumption
  <2> HIDE DEF Shard
  <2>2. Runnable(Shard(i)) = Runnable(flags)
    BY <2>1 DEF Runnable
  <2>3. RunnableBefore(Shard(i), t) = RunnableBefore(flags, t)
    BY <2>2 DEF RunnableBefore
  <2>4. ShouldShard(Shard(i)) = "yes"
    BY <1>3, <2>1 DEF ShouldShard
  <2>5. ShouldRunTestOnShard(Shard(i), t) <=> m = i
    BY <2>1, <2>3 DEF ShouldRunTestOnShard
  <2>6. QED
    BY <1>2, <2>2, <2>4, <2>5 DEF FilterTests
<1> HIDE DEF m, Shard
<1>8. {i \in 0 .. flags.total - 1 : t \in FilterTests(Shard(i))} = {m}
  BY <1>6, <1>7
<1>9. QED
  BY <1>8, FS_Singleton DEF Shard

(***************************************************************************)
(* The theorems.                                                            *)
(***************************************************************************)
\* Every variable of UnitTestImpl, TestSuite::Run and TestInfo::Run keeps its
\* type, whatever is registered and whatever user code does: the indices of the
\* loops are always those of a suite and of a test of it.
THEOREM RunTypeCorrect == Spec => []TypeOK
<1>1. RunInv => TypeOK
  BY TypeFollows
<1>2. QED
  BY <1>1, RunInvariant, PTL

\* The exit status of UnitTest::Run is not that of success after a failure was
\* reported, in whichever call of user code and whichever iteration, and with
\* the premature-exit file an exit(0) of user code is not mistaken for success.
THEOREM GreenIsTrue == Spec => []GreenMeansPassed
<1>1. RunInv => GreenMeansPassed
  BY DEF RunInv, Exits
<1>2. QED
  BY <1>1, RunInvariant, PTL

\* As long as the process lives, environments, suites, objects and fixtures are
\* torn down once each, in the reverse order of their set-up, whatever fails,
\* throws or skips in RunAllTests, TestSuite::Run and Test::Run.
THEOREM SetUpIsPaired == Spec => []Paired
<1>1. RunInv => Paired
  BY PairedFollows
<1>2. QED
  BY <1>1, RunInvariant, PTL

\* With --gtest_fail_fast no code of a test runs once another test or another
\* suite of the iteration has failed.
THEOREM FailFastHolds == Spec => []FailFastStops
<1>1. RunInv => FailFastStops
  BY FailFastFollows
<1>2. QED
  BY <1>1, RunInvariant, PTL

\* However suites and tests are shuffled, skipped and cut short, an iteration
\* ends with every selected test started or reported as skipped.
THEOREM NoTestForgotten == Spec => []NothingForgotten
<1>1. RunInv => NothingForgotten
  BY NothingFollows
<1>2. QED
  BY <1>1, RunInvariant, PTL

\* FilterTests gives every runnable test to exactly one of the shards, however
\* many tests and shards there are.
THEOREM ShardsArePartition == Spec => []ShardsPartition
<1>1. RunInv => ShardsPartition
  BY ShardsFollow
<1>2. QED
  BY <1>1, RunInvariant, PTL

(***************************************************************************)
(* The order of the tests: an invariant over the one above.                 *)
(***************************************************************************)
OrderOfSeed == IF flags.shuffle THEN ShuffleTests(Registration, rnd[seed]) ELSE Registration

\* The place of t in the order is behind the loops.
Passing(m) == (at = "test" => m < test) /\ (at \in InTest => m <= test)
RanBefore(t) ==
  \/ \E j \in 1 .. suite - 1 : order.suites[j] = SuiteOf(t)
  \/ /\ at \in InSuite \ {"SetUpTestSuite", "skip_all"} /\ SuiteOf(t) = Suite
     /\ \E m \in 1 .. Len(order.tests[Suite]) : order.tests[Suite][m] = t /\ Passing(m)

InOrder ==
  /\ at \in {"main", "iterate"} => order = Registration
  /\ at \in Iterating /\ selected # {} => order = OrderOfSeed
  /\ at \in Iterating => /\ ToSet(ran) \subseteq selected
                         /\ \A j, k \in DOMAIN ran : j < k => RunsBefore(order, ran[j], ran[k])
  /\ at \in {"env_setup", "decide"} => ran = <<>>
  /\ at \in InSuite \cup {"suite"} => \A t \in ToSet(ran) : RanBefore(t)

\* What is true of the tests that ran stays true while they and the order do.
Kin == /\ order' = order /\ ran' = ran /\ selected' = selected
       /\ flags' = flags /\ rnd' = rnd /\ seed' = seed

LEMMA KinKeeps ==
  ASSUME InOrder, Kin, at \in Iterating, at' \in Iterating \cup {"ended"},
         at' \in {"env_setup", "decide"} => at \in {"env_setup", "decide"},
         at' \in InSuite \cup {"suite"} => \A t \in ToSet(ran) : RanBefore(t)'
  PROVE  InOrder'
<1>1. OrderOfSeed' = OrderOfSeed
  BY DEF Kin, OrderOfSeed
<1>2. \A t, u : RunsBefore(order, t, u)' = RunsBefore(order, t, u)
  BY DEF Kin, RunsBefore
<1>3. at' \notin {"main", "iterate"}
  BY DEF Iterating, WithTests, InSuite, InTest
<1>4. at' \in Iterating /\ selected' # {} => order' = OrderOfSeed'
  BY <1>1 DEF InOrder, Kin
<1>5. /\ ToSet(ran') \subseteq selected'
      /\ \A j, k \in DOMAIN ran' : j < k => RunsBefore(order', ran'[j], ran'[k])
  BY <1>2 DEF InOrder, Kin
<1>6. at' \in {"env_setup", "decide"} => ran' = <<>>
  BY DEF InOrder, Kin
<1>7. at' \in InSuite \cup {"suite"} => \A t \in ToSet(ran') : RanBefore(t)'
  BY DEF Kin
<1>8. QED
  BY <1>3, <1>4, <1>5, <1>6, <1>7 DEF InOrder

LEMMA UserPlaces ==
  ASSUME UserStep
  PROVE  /\ at' \in {"env_setup", "decide"} => at \in {"env_setup", "decide"}
         /\ at' \in {"SetUpTestSuite", "skip_all"} => at \in {"SetUpTestSuite", "skip_all"}
<1>1. CASE Ending
  BY <1>1 DEF Ending
<1>2. CASE Staying
  BY <1>2 DEF Staying
<1>3. CASE Going
  BY <1>3 DEF Going, EnvironmentUp, SuiteUp, ObjectUp, Ran, TestUp, BodyRan, TestDown, ObjectDown,
              SuiteDown, EnvironmentDown
<1>4. QED
  BY <1>1, <1>2, <1>3 DEF UserStep

LEMMA UserInOrder ==
  ASSUME RunInv, InOrder, UserAction
  PROVE  InOrder'
<1>1. UserStep /\ Frame /\ at \notin {"suite", "test", "iterate", "ended"}
  BY UserSteps DEF RunInv, UserStep, Reports, Silent
<1>2. Moves /\ at' \in Ats /\ at \in Ats
  BY <1>1, UserMoves DEF RunInv, RunTyped
<1>3. CASE at \notin Iterating
  <2>1. at \in {"main", "program_end"}
    BY <1>1, <1>2, <1>3 DEF Ats
  <2>2. at' \in {"main", "program_end", "ended"} /\ (at' = "main" => at = "main")
    BY <1>1, <1>2, <1>3 DEF Moves, Ats
  <2>3. order' = order
    BY <1>1 DEF Frame
  <2>4. QED
    BY <2>2, <2>3 DEF InOrder, Iterating, WithTests, InSuite, InTest
<1>4. CASE at \in Iterating
  <2>1. Kin /\ suite' = suite /\ test' = test /\ Suite' = Suite
    BY <1>1, FrameFacts DEF Frame, Kin
  <2>2. at' \in Iterating \cup {"ended"}
    BY <1>2, <1>4 DEF Moves
  <2>3. ASSUME at' \in InSuite \cup {"suite"}, NEW t \in ToSet(ran) PROVE RanBefore(t)'
    <3>1. at' # "suite" /\ at' # "test"
      BY <1>1, <1>2 DEF Moves
    <3>2. at \in InSuite /\ at' \in InSuite /\ (at' \in InTest <=> at \in InTest)
      BY <1>2, <2>3, <3>1 DEF Moves, InSuite, InTest
    <3>3. at' \in {"SetUpTestSuite", "skip_all"} => at \in {"SetUpTestSuite", "skip_all"}
      BY <1>1, UserPlaces
    <3>4. at \in {"SetUpTestSuite", "skip_all"} \/ at' \notin {"SetUpTestSuite", "skip_all"}
      BY <3>3
    <3>5. RanBefore(t)
      BY <2>3, <3>2 DEF InOrder
    <3>6. CASE \E j \in 1 .. suite - 1 : order.suites[j] = SuiteOf(t)
      BY <2>1, <3>6 DEF RanBefore, Kin
    <3>7. CASE ~\E j \in 1 .. suite - 1 : order.suites[j] = SuiteOf(t)
      <4>1. /\ at \notin {"SetUpTestSuite", "skip_all"} /\ SuiteOf(t) = Suite
            /\ \E m \in 1 .. Len(order.tests[Suite]) : order.tests[Suite][m] = t /\ Passing(m)
        BY <3>5, <3>7 DEF RanBefore
      <4>2. PICK m \in 1 .. Len(order.tests[Suite]) : order.tests[Suite][m] = t /\ Passing(m)
        BY <4>1
      <4>3. Passing(m)'
        BY <2>1, <3>1, <3>2, <4>2 DEF Passing
      <4>4. at' \in InSuite \ {"SetUpTestSuite", "skip_all"} /\ order' = order
        BY <2>1, <3>2, <3>4, <4>1 DEF Kin
      <4>5. QED
        BY <2>1, <4>1, <4>2, <4>3, <4>4 DEF RanBefore
    <3>8. QED
      BY <3>6, <3>7
  <2>4. at' \in {"env_setup", "decide"} => at \in {"env_setup", "decide"}
    BY <1>1, UserPlaces
  <2>5. QED
    BY <1>4, <2>1, <2>2, <2>3, <2>4, KinKeeps
<1>5. QED
  BY <1>3, <1>4

\* Between suites: what ran is in a suite before this one, or in this one.
LEMMA BetweenInOrder ==
  ASSUME RunInv, InOrder, at \in {"decide", "suite", "suite_end"}, Kin,
         \/ AfterSuites /\ suite' = suite
         \/ NextSuite /\ at # "decide"
         \/ at' = "suite" /\ suite' = 1 /\ at = "decide"
  PROVE  InOrder'
<1>1. at \in Iterating /\ at \in WithTests /\ RunTyped /\ Position
  BY DEF RunInv, Iterating, WithTests, InSuite
<1>2. at' \in {"env_teardown", "iteration_end", "suite"}
  BY DEF AfterSuites, NextSuite
<1>3. suite \in 1 .. Len(order.suites) /\ Len(order.suites) \in Nat
  BY <1>1, SuitePlace
<1>4. ASSUME at' \in InSuite \cup {"suite"}, NEW t \in ToSet(ran) PROVE RanBefore(t)'
  <2>1. at' = "suite"
    BY <1>2, <1>4 DEF InSuite, InTest
  <2>2. at # "decide"
    <3>1. CASE at = "decide"
      BY <1>4, <3>1, EmptySeq DEF InOrder, ToSet
    <3>2. QED
      BY <3>1
  <2>3. suite' = suite + 1
    BY <2>1, <2>2 DEF AfterSuites, NextSuite
  <2>4. RanBefore(t)
    BY <1>4, <2>2 DEF InOrder, InSuite
  <2>5. PICK j \in 1 .. suite : order.suites[j] = SuiteOf(t)
    BY <1>3, <2>4 DEF RanBefore, Suite
  <2>6. j \in 1 .. suite' - 1
    BY <1>3, <2>3
  <2>7. QED
    BY <2>5, <2>6 DEF RanBefore, Kin
<1>5. QED
  BY <1>1, <1>2, <1>4, KinKeeps DEF Iterating, WithTests, InSuite

\* Within a suite: the place in it moves on.
LEMMA NextTestInOrder ==
  ASSUME RunInv, InOrder, WithinSuite, NextTest, Kin, at \in InTest \cup {"test"}
  PROVE  InOrder'
<1>1. /\ at \in Iterating /\ at \in InSuite \cup {"suite"} /\ suite' = suite /\ Suite' = Suite
      /\ order' = order /\ Len(order.tests[Suite]) \in Nat /\ RunTyped
  BY WithinSuiteFacts DEF Iterating, WithTests, InSuite, WithinSuite, Kin, RunInv
<1>2. at' = "TearDownTestSuite" \/ (at' = "test" /\ test' = test + 1)
  BY DEF NextTest
<1>3. ASSUME NEW t \in ToSet(ran) PROVE RanBefore(t)'
  <2>1. RanBefore(t)
    BY <1>1, <1>3 DEF InOrder
  <2>2. CASE \E j \in 1 .. suite - 1 : order.suites[j] = SuiteOf(t)
    BY <1>1, <2>2 DEF RanBefore
  <2>3. CASE ~\E j \in 1 .. suite - 1 : order.suites[j] = SuiteOf(t)
    <3>1. PICK m \in 1 .. Len(order.tests[Suite]) : order.tests[Suite][m] = t /\ Passing(m)
      BY <2>1, <2>3 DEF RanBefore
    <3>2. m <= test /\ SuiteOf(t) = Suite
      BY <1>1, <2>1, <2>3, <3>1 DEF Passing, RanBefore, RunTyped
    <3>3. at' = "test" => m < test'
      BY <1>1, <1>2, <3>2 DEF RunTyped
    <3>4. at' \in InSuite \ {"SetUpTestSuite", "skip_all"} /\ at' \notin InTest
      BY <1>2 DEF InSuite, InTest
    <3>5. Passing(m)'
      BY <3>3, <3>4 DEF Passing
    <3>6. QED
      BY <1>1, <3>1, <3>2, <3>4, <3>5 DEF RanBefore
  <2>4. QED
    BY <2>2, <2>3
<1>4. at' \in Iterating /\ at' \notin {"env_setup", "decide"}
  BY <1>2 DEF Iterating, WithTests, InSuite
<1>5. QED
  BY <1>1, <1>3, <1>4, KinKeeps

\* Into a suite: nothing of it ran.
LEMMA SuiteInOrder ==
  ASSUME RunInv, InOrder, Kin, suite' = suite, at \in {"suite", "skip_all"},
         at' \in {"SetUpTestSuite", "TearDownTestSuite", "test"}
  PROVE  InOrder'
<1>1. at \in Iterating /\ at' \in Iterating /\ at' \notin {"env_setup", "decide"}
  BY DEF Iterating, WithTests, InSuite
<1>2. ASSUME NEW t \in ToSet(ran) PROVE RanBefore(t)'
  <2>1. RanBefore(t)
    BY <1>2 DEF InOrder, InSuite
  <2>2. \E j \in 1 .. suite - 1 : order.suites[j] = SuiteOf(t)
    BY <2>1 DEF RanBefore, InSuite, InTest
  <2>3. QED
    BY <2>2 DEF RanBefore, Kin
<1>3. QED
  BY <1>1, <1>2, KinKeeps

\* The test that starts is behind all that ran.
LEMMA StartInOrder ==
  ASSUME RunInv, InOrder, WithinSuite, at = "test", at' = "constructor", ran' = Append(ran, Test),
         test' = test, Test \in selected
  PROVE  InOrder'
<1>1. /\ at \in Iterating /\ at \in InSuite \cup {"suite"} /\ suite' = suite /\ Suite' = Suite
      /\ order' = order /\ Len(order.tests[Suite]) \in Nat /\ RunTyped /\ Position /\ Quiet
      /\ DOMAIN order.tests[Suite] = 1 .. Len(order.tests[Suite])
      /\ suite \in 1 .. Len(order.suites) /\ Suite \in Names
  BY WithinSuiteFacts DEF Iterating, WithTests, InSuite, WithinSuite, RunInv
<1>2. test \in 1 .. Len(order.tests[Suite]) /\ test \in Nat
  BY <1>1 DEF Position, RunTyped
<1>3. Test \in OfSuite(Suite) /\ Test \in Tests
  BY <1>2, WithinSuiteFacts DEF Test
<1>4. SuiteOf(Test) = Suite
  BY <1>3 DEF OfSuite
<1>5. DOMAIN order.suites = 1 .. Len(order.suites)
  BY <1>1, ListFacts DEF RunTyped
<1>6. /\ ran \in Seq(Tests) /\ ran' \in Seq(Tests) /\ ToSet(ran') = ToSet(ran) \cup {Test}
      /\ Len(ran) \in Nat /\ DOMAIN ran = 1 .. Len(ran) /\ DOMAIN ran' = 1 .. Len(ran) + 1
      /\ ran'[Len(ran) + 1] = Test /\ \A i \in 1 .. Len(ran) : ran'[i] = ran[i]
  <2>1. ran \in Seq(Tests)
    BY <1>1 DEF RunTyped
  <2>2. ran' \in Seq(Tests) /\ ToSet(ran') = ToSet(ran) \cup {Test}
    BY <1>3, <2>1, AppendElements
  <2>3. Len(ran') = Len(ran) + 1 /\ ran'[Len(ran) + 1] = Test
        /\ \A i \in 1 .. Len(ran) : ran'[i] = ran[i]
    BY <1>3, <2>1, AppendProperties
  <2>4. QED
    BY <2>1, <2>2, <2>3, LenProperties
<1>7. ASSUME NEW t \in ToSet(ran)
      PROVE  RunsBefore(order, t, Test) /\ RanBefore(t)'
  <2>1. RanBefore(t)
    BY <1>1, <1>7 DEF InOrder
  <2>2. CASE \E j \in 1 .. suite - 1 : order.suites[j] = SuiteOf(t)
    <3>1. RanBefore(t)'
      BY <1>1, <2>2 DEF RanBefore
    <3>2. PICK j \in 1 .. suite - 1 : order.suites[j] = SuiteOf(t)
      BY <2>2
    <3>3. j \in DOMAIN order.suites /\ suite \in DOMAIN order.suites /\ j < suite
      BY <1>1, <1>5
    <3>4. order.suites[suite] = SuiteOf(Test)
      BY <1>4 DEF Suite
    <3>5. RunsBefore(order, t, Test)
      BY <3>2, <3>3, <3>4 DEF RunsBefore
    <3>6. QED
      BY <3>1, <3>5
  <2>3. CASE ~\E j \in 1 .. suite - 1 : order.suites[j] = SuiteOf(t)
    <3>1. SuiteOf(t) = Suite
      BY <2>1, <2>3 DEF RanBefore
    <3>2. PICK m \in 1 .. Len(order.tests[Suite]) : order.tests[Suite][m] = t /\ Passing(m)
      BY <2>1, <2>3 DEF RanBefore
    <3>3. m < test /\ m <= test
      BY <1>1, <1>2, <3>2 DEF Passing
    <3>4. Passing(m)' /\ at' \in InSuite \ {"SetUpTestSuite", "skip_all"}
      BY <3>3 DEF Passing, InSuite, InTest
    <3>5. RanBefore(t)'
      BY <1>1, <3>1, <3>2, <3>4 DEF RanBefore
    <3>6. order.tests[SuiteOf(t)][test] = Test /\ order.suites[suite] = Suite
      BY <3>1 DEF Test, Suite
    <3>7. /\ suite \in DOMAIN order.suites /\ m \in DOMAIN order.tests[SuiteOf(t)]
          /\ test \in DOMAIN order.tests[SuiteOf(t)]
      BY <1>1, <1>2, <1>5, <3>1
    <3>8. \E a, b \in DOMAIN order.tests[SuiteOf(t)] :
            a < b /\ order.tests[SuiteOf(t)][a] = t /\ order.tests[SuiteOf(t)][b] = Test
      BY <3>1, <3>2, <3>3, <3>6, <3>7
    <3>9. RunsBefore(order, t, Test)
      BY <1>4, <3>1, <3>6, <3>7, <3>8 DEF RunsBefore
    <3>10. QED
      BY <3>5, <3>9
  <2>4. QED
    BY <2>2, <2>3
<1>8. RanBefore(Test)'
  <2>1. PICK t : t = Test
    OBVIOUS
  <2>2. Passing(test)' /\ at' \in InSuite \ {"SetUpTestSuite", "skip_all"}
    BY <1>2 DEF Passing, InSuite, InTest
  <2>3. SuiteOf(t) = Suite /\ order.tests[Suite][test] = t
    BY <1>4, <2>1 DEF Test
  <2>4. RanBefore(t)'
    BY <1>1, <1>2, <2>2, <2>3 DEF RanBefore
  <2>5. Test' = Test
    BY <1>1 DEF Test
  <2>6. QED
    BY <2>1, <2>4, <2>5
<1>9. \A t \in ToSet(ran') : RanBefore(t)'
  <2>1. SUFFICES ASSUME NEW t \in ToSet(ran') PROVE RanBefore(t)'
    OBVIOUS
  <2>2. CASE t \in ToSet(ran)
    BY <1>7, <2>2
  <2>3. CASE t \notin ToSet(ran)
    <3>1. t = Test
      BY <1>6, <2>1, <2>3
    <3>2. QED
      BY <1>8, <1>1, <3>1 DEF RanBefore, Test
  <2>4. QED
    BY <2>2, <2>3
<1>10. \A j, k \in DOMAIN ran' : j < k => RunsBefore(order, ran'[j], ran'[k])
  <2>1. SUFFICES ASSUME NEW j \in DOMAIN ran', NEW k \in DOMAIN ran', j < k
                 PROVE  RunsBefore(order, ran'[j], ran'[k])
    OBVIOUS
  <2>2. j \in DOMAIN ran /\ ran'[j] = ran[j]
    BY <1>6, <2>1
  <2>3. CASE k = Len(ran) + 1
    <3>1. ran[j] \in ToSet(ran) /\ ran'[k] = Test
      BY <1>6, <2>2, <2>3 DEF ToSet
    <3>2. QED
      BY <1>7, <2>2, <3>1
  <2>4. CASE k # Len(ran) + 1
    <3>1. k \in DOMAIN ran /\ ran'[k] = ran[k]
      BY <1>6, <2>1, <2>4
    <3>2. QED
      BY <1>1, <2>1, <2>2, <3>1 DEF InOrder
  <2>5. QED
    BY <2>3, <2>4
<1>11. /\ selected' = selected /\ ToSet(ran') \subseteq selected'
       /\ selected' # {} => order' = OrderOfSeed'
  <2>1. selected' = selected /\ OrderOfSeed' = OrderOfSeed
    BY <1>1 DEF Quiet, OrderOfSeed
  <2>2. QED
    BY <1>1, <1>6, <2>1 DEF InOrder
<1>12. \A j, k \in DOMAIN ran' : j < k => RunsBefore(order', ran'[j], ran'[k])
  BY <1>1, <1>10
<1>13. QED
  BY <1>9, <1>11, <1>12 DEF InOrder

LEMMA OtherInOrder ==
  ASSUME RunInv, InOrder,
         Begin \/ StartIteration \/ EndIteration \/ EndProgram \/ Stopped \/ UNCHANGED vars
  PROVE  InOrder'
<1> USE DEF Iterating, WithTests, InSuite, InTest
<1>1. CASE Begin
  <2>1. at' \in {"iterate", "ended"} /\ order' = Registration
    BY <1>1 DEF Begin, Return, End, InOrder
  <2>2. QED
    BY <2>1 DEF InOrder, Registration
<1>2. CASE StartIteration
  <2>1. /\ at' \in {"iteration_end", "env_setup", "decide"} /\ ran' = <<>> /\ order = Registration
        /\ order' = IF selected # {} /\ flags.shuffle THEN ShuffleTests(order, rnd[seed]) ELSE order
        /\ flags' = flags /\ rnd' = rnd /\ selected' = selected /\ seed' = seed
    BY <1>2 DEF StartIteration, Unchanging, setting, has_tests_to_run, InOrder
  <2>2. selected' # {} => order' = OrderOfSeed'
    <3>1. OrderOfSeed' = OrderOfSeed
      BY <2>1 DEF OrderOfSeed
    <3>2. QED
      BY <2>1, <3>1 DEF OrderOfSeed
  <2>3. DOMAIN ran' = {} /\ ToSet(ran') = {}
    BY <2>1, EmptySeq DEF ToSet
  <2>4. QED
    BY <2>1, <2>2, <2>3 DEF InOrder
<1>3. CASE EndIteration
  <2>1. at' = "iterate" /\ order' = Registration
    BY <1>3 DEF EndIteration, UnshuffleTests
  <2>2. QED
    BY <2>1 DEF InOrder, Registration
<1>4. CASE EndProgram
  BY <1>4 DEF EndProgram, Return, End, InOrder
<1>5. CASE Stopped \/ UNCHANGED vars
  BY <1>5 DEF Stopped, vars, setting, loop, current, results, history, InOrder, OrderOfSeed, RunsBefore,
              RanBefore, Passing, Suite
<1>6. QED
  BY <1>1, <1>2, <1>3, <1>4, <1>5

LEMMA SuiteStepInOrder ==
  ASSUME RunInv, InOrder, Decide \/ StartSuite \/ EndSuite \/ SkipAllOrNone
  PROVE  InOrder'
<1>1. Kin
  BY DEF Decide, StartSuite, EndSuite, SkipAllOrNone, Kin, Unchanging, setting
<1>2. CASE Decide
  <2>1. at = "decide" /\ ((AfterSuites /\ suite' = suite) \/ (at' = "suite" /\ suite' = 1))
    BY <1>2 DEF Decide
  <2>2. QED
    BY <1>1, <2>1, BetweenInOrder
<1>3. CASE StartSuite
  <2>1. at = "suite" /\ (NextSuite \/ (at' = "SetUpTestSuite" /\ suite' = suite))
    BY <1>3 DEF StartSuite
  <2>2. QED
    BY <1>1, <2>1, BetweenInOrder, SuiteInOrder
<1>4. CASE EndSuite
  <2>1. at = "suite_end" /\ ((AfterSuites /\ suite' = suite) \/ NextSuite)
    BY <1>4 DEF EndSuite
  <2>2. QED
    BY <1>1, <2>1, BetweenInOrder
<1>5. CASE SkipAllOrNone
  <2>1. at = "skip_all" /\ suite' = suite /\ at' \in {"TearDownTestSuite", "test"}
    BY <1>5 DEF SkipAllOrNone
  <2>2. QED
    BY <1>1, <2>1, SuiteInOrder
<1>6. QED
  BY <1>2, <1>3, <1>4, <1>5

LEMMA TestStepInOrder ==
  ASSUME RunInv, InOrder, StartTest \/ EndTest
  PROVE  InOrder'
<1>1. at \in {"test", "test_end"} /\ at \in InTest \cup {"test"} /\ at \in InSuite /\ RunTyped
  BY DEF StartTest, EndTest, InTest, InSuite, RunInv
<1>2. (\E S : Skip(S)) \/ result' = result
  BY DEF StartTest, EndTest, NextTest
<1>3. at' \in InSuite
  BY DEF StartTest, EndTest, NextTest, InSuite, InTest
<1>4. Quiet
  BY <1>1, <1>2, SkipFacts DEF StartTest, EndTest, Quiet, Unchanging, setting
<1>5. WithinSuite
  BY <1>1, <1>3, <1>4 DEF WithinSuite, StartTest, EndTest
<1>6. CASE StartTest /\ Test \in selected
  <2>1. at = "test" /\ at' = "constructor" /\ ran' = Append(ran, Test) /\ test' = test
    BY <1>6 DEF StartTest
  <2>2. QED
    BY <1>5, <1>6, <2>1, StartInOrder
<1>7. CASE EndTest \/ Test \notin selected
  <2>1. NextTest /\ ran' = ran
    BY <1>7 DEF StartTest, EndTest
  <2>2. Kin
    BY <1>4, <2>1 DEF Quiet, Kin
  <2>3. QED
    BY <1>1, <1>5, <2>1, <2>2, NextTestInOrder
<1>8. QED
  BY <1>6, <1>7

LEMMA OrderInvariant == Spec => []InOrder
<1>1. Init => InOrder
  BY DEF Init, InOrder, Iterating, WithTests, InSuite, InTest
<1>2. RunInv /\ InOrder /\ [Next]_vars => InOrder'
  <2>1. SUFFICES ASSUME RunInv, InOrder, [Next]_vars PROVE InOrder'
    OBVIOUS
  <2>2. CASE UserAction
    BY <2>1, <2>2, UserInOrder
  <2>3. CASE Begin \/ StartIteration \/ EndIteration \/ EndProgram \/ Stopped \/ UNCHANGED vars
    BY <2>1, <2>3, OtherInOrder
  <2>4. CASE Decide \/ StartSuite \/ EndSuite \/ SkipAllOrNone
    BY <2>1, <2>4, SuiteStepInOrder
  <2>5. CASE StartTest \/ EndTest
    BY <2>1, <2>5, TestStepInOrder
  <2>6. QED
    BY <2>1, <2>2, <2>3, <2>4, <2>5 DEF Next, UserAction
<1>3. QED
  BY <1>1, <1>2, RunInvariant, PTL DEF Spec

\* The death tests are in the first suites of every order.
LEMMA OrderFollows ==
  ASSUME RunInv, InOrder
  PROVE  OrderBySeed
<1>1. SUFFICES ASSUME at \in Iterating
               PROVE  /\ ToSet(ran) \subseteq selected
                      /\ \A j, k \in DOMAIN ran : j < k =>
                           /\ RunsBefore(OrderOfSeed, ran[j], ran[k])
                           /\ SuiteOf(ran[k]) \in DeathSuites => SuiteOf(ran[j]) \in DeathSuites
  BY DEF OrderBySeed, OrderOfSeed, InIteration, RunInv, RunTyped, Ats
<1>2. ToSet(ran) \subseteq selected
  BY <1>1 DEF InOrder
<1>3. ASSUME NEW j \in DOMAIN ran, NEW k \in DOMAIN ran, j < k
      PROVE  /\ RunsBefore(OrderOfSeed, ran[j], ran[k])
             /\ SuiteOf(ran[k]) \in DeathSuites => SuiteOf(ran[j]) \in DeathSuites
  <2>1. selected # {}
    BY <1>2, <1>3 DEF ToSet
  <2>2. order = OrderOfSeed /\ RunsBefore(order, ran[j], ran[k])
    BY <1>1, <1>3, <2>1 DEF InOrder
  <2>3. PICK a, b \in DOMAIN order.suites :
          order.suites[a] = SuiteOf(ran[j]) /\ order.suites[b] = SuiteOf(ran[k]) /\ (a < b \/ a = b)
    BY <2>2 DEF RunsBefore
  <2>4. /\ DOMAIN order.suites = 1 .. Len(test_suites) /\ Len(test_suites) \in Nat
        /\ \A n \in 1 .. Len(test_suites) : order.suites[n] \in DeathSuites <=> n <= DeathTestSuites
    BY ListFacts DEF RunInv, RunTyped, ListsAll
  <2>5. DeathTestSuites \in Nat
    <3>1. test_suites \in Seq(Names)
      BY SuitesFacts
    <3>2. DeathTestSuites \in 0 .. Len(test_suites)
      BY <3>1, FewElements DEF DeathTestSuites
    <3>3. QED
      BY <3>2
  <2>6. b <= DeathTestSuites => a <= DeathTestSuites
    BY <2>3, <2>4, <2>5
  <2>7. QED
    BY <2>2, <2>3, <2>4, <2>6
<1>4. QED
  BY <1>2, <1>3

\* In every iteration the tests run in an order that the flags and the seed of
\* ShuffleTests determine, whatever ran before, and all death tests before all
\* other tests.
THEOREM OrderIsOfSeed == Spec => []OrderBySeed
<1>1. RunInv /\ InOrder => OrderBySeed
  BY OrderFollows
<1>2. QED
  BY <1>1, RunInvariant, OrderInvariant, PTL

=============================================================================

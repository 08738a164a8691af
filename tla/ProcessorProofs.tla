-------------------------- MODULE ProcessorProofs ---------------------------
(*****************************************************************************)
(* Lemmas about congruences and powers modulo a number, for every modulus,  *)
(* about the machine words, for every width, and about the Processor's steps,*)
(* for whatever program it is given: the label pass, and that each step keeps*)
(* the members' types.                                                      *)
(*****************************************************************************)
EXTENDS Processor, Curve, FiniteSetTheorems, WellFoundedInduction, TLAPS

(*****************************************************************************)
(* Numbers.  What the two kernels rest on: congruences, powers modulo a     *)
(* number, Euclid's lemma and Fermat's little theorem.                      *)
(*****************************************************************************)

(***************************************************************************)
(* Induction, for a set of numbers.                                         *)
(***************************************************************************)

\* A nonempty set of naturals has a least element.
LEMMA LeastExists ==
  ASSUME NEW T \in SUBSET Nat, T # {}
  PROVE  \E t \in T : \A u \in T : t <= u
<1>1. IsWellFoundedOn(OpToRel(<, Nat), Nat)
  BY NatLessThanWellFounded
<1>2. PICK t \in T : \A u \in T : ~(<<u, t>> \in OpToRel(<, Nat))
  BY <1>1, WFMin
<1>3. \A u \in T : ~(u < t)
  BY <1>2 DEF OpToRel
<1>4. QED
  BY <1>3

\* Induction up to n.
LEMMA UpTo ==
  ASSUME NEW n \in Nat, NEW S, 0 \in S, \A k \in 0 .. n - 1 : k \in S => k + 1 \in S
  PROVE  \A k \in 0 .. n : k \in S
<1> DEFINE T == {k \in 0 .. n : k \notin S}
<1>1. SUFFICES ASSUME T # {} PROVE FALSE
  OBVIOUS
<1>2. T \in SUBSET Nat
  OBVIOUS
<1>3. PICK t \in T : \A u \in T : t <= u
  BY <1>1, <1>2, LeastExists
<1>4. t \in 0 .. n /\ t \notin S /\ t # 0
  BY <1>3
<1>5. t - 1 \in 0 .. n - 1 /\ t - 1 \in 0 .. n /\ ~(t <= t - 1)
  BY <1>4
<1>6. t - 1 \in S
  BY <1>3, <1>5
<1>7. t - 1 + 1 \in S
  BY <1>5, <1>6
<1>8. QED
  BY <1>4, <1>7

(***************************************************************************)
(* Divisibility and congruence.                                             *)
(***************************************************************************)
Divides(n, a) == \E q \in Int : a = n * q

\* a and b are congruent modulo n.
Same(n, a, b) == Divides(n, a - b)

\* Division with remainder is unique.
LEMMA RemainderIsUnique ==
  ASSUME NEW n \in Nat \ {0}, NEW q \in Int, NEW r \in 0 .. n - 1
  PROVE  (n * q + r) % n = r /\ (n * q + r) \div n = q
<1> DEFINE a == n * q + r
           d == a \div n
           s == a % n
<1>1. a \in Int
  OBVIOUS
<1>2. a = n * d + s /\ s \in 0 .. n - 1 /\ d \in Int
  <2> HIDE DEF a
  <2> QED BY <1>1
<1> HIDE DEF d, s
<1>3. n * (q - d) = s - r /\ n * (d - q) = r - s
  BY <1>2
<1>4. \A k \in Nat \ {0} : n * k >= n
  OBVIOUS
<1>5. q - d \in Int /\ d - q \in Int
  BY <1>2
<1>6. ~(q - d \in Nat \ {0}) /\ ~(d - q \in Nat \ {0})
  BY <1>2, <1>3, <1>4
<1>7. q = d
  BY <1>2, <1>6
<1>8. s = r
  BY <1>2, <1>7
<1>9. QED
  BY <1>7, <1>8 DEF d, s

\* To be divisible is to leave no remainder.
LEMMA DividesIsZero ==
  ASSUME NEW n \in Nat \ {0}, NEW a \in Int
  PROVE  Divides(n, a) <=> a % n = 0
<1>1. ASSUME NEW q \in Int, a = n * q PROVE a % n = 0
  <2>1. 0 \in 0 .. n - 1 /\ n * q + 0 = a
    BY <1>1
  <2>2. QED
    BY <2>1, RemainderIsUnique
<1>2. ASSUME a % n = 0 PROVE Divides(n, a)
  <2>1. a = n * (a \div n) + 0 /\ a \div n \in Int
    BY <1>2
  <2>2. a = n * (a \div n)
    BY <2>1
  <2>3. QED
    BY <2>1, <2>2 DEF Divides
<1>3. QED
  BY <1>1, <1>2 DEF Divides

\* Congruence is an equivalence that sums, differences and products respect.
LEMMA SameIsEquivalence ==
  ASSUME NEW n \in Int, NEW a \in Int, NEW b \in Int, NEW c \in Int
  PROVE  /\ Same(n, a, a)
         /\ Same(n, a, b) => Same(n, b, a)
         /\ Same(n, a, b) /\ Same(n, b, c) => Same(n, a, c)
<1>1. Same(n, a, a)
  <2>1. a - a = n * 0
    OBVIOUS
  <2>2. QED
    BY <2>1 DEF Same, Divides
<1>2. ASSUME NEW q \in Int, a - b = n * q PROVE Same(n, b, a)
  <2>1. b - a = n * (-q) /\ -q \in Int
    BY <1>2
  <2>2. QED
    BY <2>1 DEF Same, Divides
<1>3. ASSUME NEW q \in Int, a - b = n * q, NEW r \in Int, b - c = n * r PROVE Same(n, a, c)
  <2>1. a - c = n * (q + r) /\ q + r \in Int
    BY <1>3
  <2>2. QED
    BY <2>1 DEF Same, Divides
<1>4. QED
  BY <1>1, <1>2, <1>3 DEF Same, Divides

\* Sums, differences and products of congruent numbers are congruent.
LEMMA SameOfResults ==
  ASSUME NEW n \in Int, NEW a \in Int, NEW b \in Int, NEW c \in Int, NEW d \in Int,
         Same(n, a, b), Same(n, c, d)
  PROVE  Same(n, a + c, b + d) /\ Same(n, a - c, b - d) /\ Same(n, a * c, b * d)
<1>1. PICK q \in Int : a - b = n * q
  BY DEF Same, Divides
<1>2. PICK r \in Int : c - d = n * r
  BY DEF Same, Divides
<1>3. (a + c) - (b + d) = n * (q + r) /\ q + r \in Int
  BY <1>1, <1>2
<1>4. (a - c) - (b - d) = n * (q - r) /\ q - r \in Int
  BY <1>1, <1>2
<1>5. a * c - b * d = n * (q * c + b * r) /\ q * c + b * r \in Int
  <2>1. \A e, f, g, h, m, s, t \in Int :
          e - f = m * s /\ g - h = m * t => e * g - f * h = m * (s * g + f * t)
    OBVIOUS
  <2>2. QED
    BY <1>1, <1>2, <2>1
<1>6. QED
  BY <1>3, <1>4, <1>5 DEF Same, Divides

\* A number is congruent to its remainder, and the remainders of congruent
\* numbers are equal.
LEMMA SameRemainder ==
  ASSUME NEW n \in Nat \ {0}, NEW a \in Int, NEW b \in Int
  PROVE  /\ a % n \in 0 .. n - 1
         /\ Same(n, a % n, a)
         /\ Same(n, a, b) <=> a % n = b % n
         /\ Same(n, a, b) <=> (a - b) % n = 0
         /\ a \in 0 .. n - 1 => a % n = a
<1> DEFINE q == a \div n
           r == a % n
           s == b % n
           t == b \div n
<1>1. a = n * q + r /\ q \in Int /\ r \in 0 .. n - 1
  OBVIOUS
<1>2. b = n * t + s /\ t \in Int /\ s \in 0 .. n - 1
  OBVIOUS
<1> HIDE DEF q, r, s, t
<1>3. Same(n, r, a)
  <2>1. r - a = n * (-q) /\ -q \in Int
    BY <1>1
  <2>2. QED
    BY <2>1 DEF Same, Divides
<1>4. ASSUME r = s PROVE Same(n, a, b)
  <2>1. a - b = n * (q - t) /\ q - t \in Int
    BY <1>1, <1>2, <1>4
  <2>2. QED
    BY <2>1 DEF Same, Divides
<1>5. ASSUME NEW k \in Int, a - b = n * k PROVE r = s
  <2>1. a = n * (t + k) + s /\ t + k \in Int
    BY <1>2, <1>5
  <2>2. a % n = s
    BY <1>2, <2>1, RemainderIsUnique
  <2>3. QED
    BY <2>2 DEF r
<1>6. Same(n, a, b) <=> (a - b) % n = 0
  BY DividesIsZero DEF Same
<1>7. a \in 0 .. n - 1 => a % n = a
  <2>1. a = n * 0 + a
    OBVIOUS
  <2>2. QED
    BY <2>1, RemainderIsUnique
<1>8. QED
  BY <1>1, <1>3, <1>4, <1>5, <1>6, <1>7 DEF Same, Divides, r, s

\* Congruent numbers are those with the same remainder.
LEMMA SameIff == \A n \in Nat \ {0} : \A a, b \in Int : Same(n, a, b) <=> a % n = b % n
BY SameRemainder

\* A residue is its own remainder.
LEMMA ResidueIsItself == \A n \in Nat \ {0} : \A a \in 0 .. n - 1 : a % n = a
OBVIOUS

\* The same for the products of a number.
LEMMA SameMeans ==
  ASSUME NEW n \in Nat \ {0}, NEW a \in Int, NEW b \in Int, NEW c \in Int,
         Same(n, c * a, c * b)
  PROVE  (c * a) % n = (c * b) % n
<1> DEFINE v == c * a
           w == c * b
<1>1. v \in Int /\ w \in Int /\ Same(n, v, w)
  OBVIOUS
<1> HIDE DEF v, w
<1>2. v % n = w % n
  BY <1>1, SameRemainder
<1>3. QED
  BY <1>2 DEF v, w

(***************************************************************************)
(* Products and powers modulo n.  A run is the sequence of the partial      *)
(* products.                                                                *)
(***************************************************************************)
Factors(g, m) == \A k \in 1 .. m : g[k] \in Int

IsRun(run, n, g, m) ==
  run = [k \in 0 .. m |-> IF k = 0 THEN 1 % n ELSE (run[k - 1] * g[k]) % n]

\* There is one run of every length.
LEMMA RunExists ==
  ASSUME NEW n \in Nat \ {0}, NEW m \in Nat,
         NEW g, Factors(g, m)
  PROVE  \E run \in [0 .. m -> 0 .. n - 1] : IsRun(run, n, g, m)
<1> DEFINE S == {j \in 0 .. m : \E run \in [0 .. j -> 0 .. n - 1] : IsRun(run, n, g, j)}
<1>1. 0 \in S
  <2> DEFINE run == [k \in 0 .. 0 |-> 1 % n]
  <2>1. run \in [0 .. 0 -> 0 .. n - 1]
    OBVIOUS
  <2>2. IsRun(run, n, g, 0)
    BY DEF IsRun
  <2>3. QED
    BY <2>1, <2>2
<1>2. ASSUME NEW j \in 0 .. m - 1, j \in S PROVE j + 1 \in S
  <2>1. PICK run \in [0 .. j -> 0 .. n - 1] : IsRun(run, n, g, j)
    BY <1>2
  <2> DEFINE more == [k \in 0 .. j + 1 |-> IF k = j + 1 THEN (run[j] * g[j + 1]) % n ELSE run[k]]
  <2>2. (run[j] * g[j + 1]) % n \in 0 .. n - 1
    <3>1. run[j] \in Int /\ g[j + 1] \in Int
      BY DEF Factors
    <3>2. run[j] * g[j + 1] \in Int
      BY <3>1
    <3>3. QED
      BY <3>2, SameRemainder
  <2>3. more \in [0 .. j + 1 -> 0 .. n - 1]
    BY <2>2
  <2>4. \A k \in 0 .. j + 1 : more[k] = IF k = 0 THEN 1 % n ELSE (more[k - 1] * g[k]) % n
    <3>1. SUFFICES ASSUME NEW k \in 0 .. j + 1
                   PROVE  more[k] = IF k = 0 THEN 1 % n ELSE (more[k - 1] * g[k]) % n
      OBVIOUS
    <3>2. CASE k = j + 1
      <4>1. more[k] = (run[j] * g[j + 1]) % n /\ more[k - 1] = run[j]
        BY <3>2
      <4>2. QED
        BY <3>2, <4>1
    <3>3. CASE k # j + 1
      <4>1. k \in 0 .. j /\ more[k] = run[k]
        BY <3>3
      <4>2. k # 0 => more[k - 1] = run[k - 1]
        BY <3>3
      <4>3. run[k] = IF k = 0 THEN 1 % n ELSE (run[k - 1] * g[k]) % n
        BY <2>1, <4>1 DEF IsRun
      <4>4. QED
        BY <4>1, <4>2, <4>3
    <3>4. QED
      BY <3>2, <3>3
  <2>5. IsRun(more, n, g, j + 1)
    <3> HIDE DEF more
    <3>1. QED
      BY <2>3, <2>4 DEF IsRun
  <2>6. j + 1 \in 0 .. m
    OBVIOUS
  <2> HIDE DEF more
  <2>7. QED
    BY <2>3, <2>5, <2>6
<1>3. m \in S
  <2> HIDE DEF S
  <2>1. \A j \in 0 .. m : j \in S
    BY <1>1, <1>2, UpTo
  <2>2. QED
    BY <2>1
<1>4. QED
  BY <1>3

\* The product of g[1] .. g[m] modulo n.
ProductMod(n, g, m) ==
  LET run[k \in 0 .. m] == IF k = 0 THEN 1 % n ELSE (run[k - 1] * g[k]) % n
  IN  run[m]

\* It is the end of every run that it begins.
LEMMA ProductOfRun ==
  ASSUME NEW n \in Nat \ {0}, NEW m \in Nat,
         NEW g, Factors(g, m),
         NEW run, IsRun(run, n, g, m)
  PROVE  \A j \in 0 .. m : ProductMod(n, g, j) = run[j]
<1> SUFFICES ASSUME NEW j \in 0 .. m PROVE ProductMod(n, g, j) = run[j]
  OBVIOUS
<1> DEFINE Q(f) == f = [k \in 0 .. j |-> IF k = 0 THEN 1 % n ELSE (f[k - 1] * g[k]) % n]
           f == CHOOSE h : Q(h)
<1>1. ProductMod(n, g, j) = f[j]
  BY DEF ProductMod
<1>2. \E h : Q(h)
  <2> DEFINE h == [k \in 0 .. j |-> run[k]]
  <2>1. \A k \in 0 .. j : h[k] = IF k = 0 THEN 1 % n ELSE (h[k - 1] * g[k]) % n
    <3>1. SUFFICES ASSUME NEW k \in 0 .. j
                   PROVE  h[k] = IF k = 0 THEN 1 % n ELSE (h[k - 1] * g[k]) % n
      OBVIOUS
    <3>2. run[k] = IF k = 0 THEN 1 % n ELSE (run[k - 1] * g[k]) % n
      BY DEF IsRun
    <3>3. k # 0 => h[k - 1] = run[k - 1]
      OBVIOUS
    <3>4. QED
      BY <3>2, <3>3
  <2>2. h = [k \in 0 .. j |-> h[k]]
    OBVIOUS
  <2>3. Q(h)
    <3> HIDE DEF h
    <3>1. QED
      BY <2>1, <2>2
  <2>4. QED
    BY <2>3
<1>3. Q(f)
  BY <1>2
<1> HIDE DEF f
<1> DEFINE S == {k \in 0 .. j : f[k] = run[k]}
<1>4. 0 \in S
  BY <1>3 DEF IsRun
<1>5. ASSUME NEW k \in 0 .. j - 1, k \in S PROVE k + 1 \in S
  <2>1. k + 1 \in 0 .. j /\ k + 1 \in 0 .. m /\ k + 1 # 0 /\ k + 1 - 1 = k
    OBVIOUS
  <2>2. f[k + 1] = (f[k] * g[k + 1]) % n
    BY <1>3, <2>1
  <2>3. run[k + 1] = (run[k] * g[k + 1]) % n
    BY <2>1 DEF IsRun
  <2>4. QED
    BY <1>5, <2>1, <2>2, <2>3
<1>6. j \in S
  <2> HIDE DEF S
  <2>0. j \in Nat
    OBVIOUS
  <2>1. \A k \in 0 .. j : k \in S
    BY <1>4, <1>5, <2>0, UpTo
  <2>2. QED
    BY <2>1
<1>7. QED
  BY <1>1, <1>6

\* The product of no factors, and of one factor more.
LEMMA ProductFacts ==
  ASSUME NEW n \in Nat \ {0}, NEW m \in Nat,
         NEW g, Factors(g, m)
  PROVE  /\ ProductMod(n, g, 0) = 1 % n
         /\ \A j \in 0 .. m : ProductMod(n, g, j) \in 0 .. n - 1
         /\ \A j \in 0 .. m - 1 :
              ProductMod(n, g, j + 1) = (ProductMod(n, g, j) * g[j + 1]) % n
<1>1. PICK run \in [0 .. m -> 0 .. n - 1] : IsRun(run, n, g, m)
  BY RunExists
<1>2. \A j \in 0 .. m : ProductMod(n, g, j) = run[j]
  BY <1>1, ProductOfRun
<1>3. run[0] = 1 % n /\ \A j \in 0 .. m : run[j] \in 0 .. n - 1
  BY <1>1 DEF IsRun
<1>4. ASSUME NEW j \in 0 .. m - 1 PROVE run[j + 1] = (run[j] * g[j + 1]) % n
  <2>1. j + 1 \in 0 .. m /\ j + 1 # 0 /\ j + 1 - 1 = j
    OBVIOUS
  <2>2. QED
    BY <1>1, <2>1 DEF IsRun
<1>5. ASSUME NEW j \in 0 .. m - 1 PROVE j \in 0 .. m /\ j + 1 \in 0 .. m
  OBVIOUS
<1>6. 0 \in 0 .. m
  OBVIOUS
<1>7. QED
  BY <1>2, <1>3, <1>4, <1>5, <1>6

\* b to the power e modulo n.
PowerMod(n, b, e) == ProductMod(n, [k \in Nat |-> b], e)

\* A power modulo n is a residue, and each power is the one before times the base.
LEMMA PowerFacts ==
  ASSUME NEW n \in Nat \ {0}, NEW b \in Int, NEW e \in Nat
  PROVE  /\ PowerMod(n, b, 0) = 1 % n
         /\ PowerMod(n, b, e) \in 0 .. n - 1
         /\ PowerMod(n, b, e + 1) = (PowerMod(n, b, e) * b) % n
         /\ Same(n, PowerMod(n, b, e + 1), PowerMod(n, b, e) * b)
<1> DEFINE g == [k \in Nat |-> b]
<1>1. \A k \in 1 .. e + 1 : g[k] = b /\ g[k] \in Int
  OBVIOUS
<1>2. e + 1 \in Nat /\ e \in 0 .. e + 1 /\ e \in 0 .. (e + 1) - 1 /\ e + 1 \in 1 .. e + 1
  OBVIOUS
<1> HIDE DEF g
<1>a. Factors(g, e + 1)
  BY <1>1 DEF Factors
<1>3. /\ ProductMod(n, g, 0) = 1 % n
      /\ ProductMod(n, g, e) \in 0 .. n - 1
      /\ ProductMod(n, g, e + 1) = (ProductMod(n, g, e) * g[e + 1]) % n
  BY <1>a, <1>2, ProductFacts
<1> DEFINE v == ProductMod(n, g, e)
           w == v * b
<1>4. v \in 0 .. n - 1 /\ ProductMod(n, g, e + 1) = w % n
  BY <1>1, <1>2, <1>3
<1> HIDE DEF v
<1>5. w \in Int
  BY <1>4
<1> HIDE DEF w
<1>6. Same(n, w % n, w)
  BY <1>5, SameRemainder
<1>7. QED
  BY <1>3, <1>4, <1>6 DEF PowerMod, g, v, w

\* The remainder of a product of a remainder.
LEMMA ReduceFactor ==
  ASSUME NEW n \in Nat \ {0}, NEW a \in Int, NEW b \in Int
  PROVE  ((a % n) * b) % n = (a * b) % n
<1>1. a % n \in Int /\ Same(n, a % n, a) /\ Same(n, b, b)
  BY SameRemainder, SameIsEquivalence
<1>2. Same(n, (a % n) * b, a * b)
  BY <1>1, SameOfResults
<1> DEFINE v == (a % n) * b
           w == a * b
<1>3. v \in Int /\ w \in Int
  BY <1>1
<1>4. Same(n, v, w)
  BY <1>2
<1> HIDE DEF v, w
<1>5. v % n = w % n
  BY <1>3, <1>4, SameRemainder
<1>6. QED
  BY <1>5 DEF v, w

\* Congruent bases have the same powers.
LEMMA PowerOfSame ==
  ASSUME NEW n \in Nat \ {0}, NEW b \in Int, NEW c \in Int, Same(n, b, c), NEW e \in Nat
  PROVE  PowerMod(n, b, e) = PowerMod(n, c, e)
<1> DEFINE T == {k \in 0 .. e : PowerMod(n, b, k) = PowerMod(n, c, k)}
<1>1. 0 \in T
  <2>1. 0 \in 0 .. e
    OBVIOUS
  <2>2. QED
    BY <2>1, PowerFacts
<1>2. ASSUME NEW k \in 0 .. e - 1, k \in T PROVE k + 1 \in T
  <2>1. k \in Nat /\ k + 1 \in 0 .. e
    OBVIOUS
  <2> DEFINE w == PowerMod(n, b, k)
  <2>2. w \in 0 .. n - 1 /\ w = PowerMod(n, c, k)
    BY <1>2, <2>1, PowerFacts
  <2>3. PowerMod(n, b, k + 1) = (w * b) % n
    BY <2>1, PowerFacts
  <2>4. PowerMod(n, c, k + 1) = (w * c) % n
    BY <2>1, <2>2, PowerFacts
  <2> HIDE DEF w
  <2>5. w \in Int /\ Same(n, w, w)
    BY <2>2, SameIsEquivalence
  <2>6. Same(n, w * b, w * c)
    BY <2>5, SameOfResults
  <2>7. (w * b) % n = (w * c) % n
    BY <2>5, <2>6, SameMeans
  <2>8. QED
    BY <2>1, <2>3, <2>4, <2>7
<1>3. \A k \in 0 .. e : k \in T
  <2> HIDE DEF T
  <2>1. QED
    BY <1>1, <1>2, UpTo
<1>4. QED
  BY <1>3

\* The power of a square is a power with twice the exponent.
LEMMA PowerOfSquare ==
  ASSUME NEW n \in Nat \ {0}, NEW b \in Int, NEW e \in Nat
  PROVE  PowerMod(n, b * b, e) = PowerMod(n, b, 2 * e)
<1> DEFINE T == {k \in 0 .. e : PowerMod(n, b * b, k) = PowerMod(n, b, 2 * k)}
<1>1. 0 \in T
  <2>1. 0 \in 0 .. e /\ 2 * 0 = 0 /\ b * b \in Int
    OBVIOUS
  <2>2. QED
    BY <2>1, PowerFacts
<1>2. ASSUME NEW k \in 0 .. e - 1, k \in T PROVE k + 1 \in T
  <2>1. k \in Nat /\ k + 1 \in 0 .. e /\ 2 * k \in Nat /\ 2 * k + 1 \in Nat /\ b * b \in Int
    OBVIOUS
  <2> DEFINE w == PowerMod(n, b, 2 * k)
  <2>2. w \in 0 .. n - 1 /\ w = PowerMod(n, b * b, k)
    BY <1>2, <2>1, PowerFacts
  <2>3. PowerMod(n, b * b, k + 1) = (w * (b * b)) % n
    BY <2>1, <2>2, PowerFacts
  <2>4. PowerMod(n, b, 2 * k + 1) = (w * b) % n
    BY <2>1, PowerFacts
  <2>5. PowerMod(n, b, (2 * k + 1) + 1) = (((w * b) % n) * b) % n
    BY <2>1, <2>4, PowerFacts
  <2> HIDE DEF w
  <2>6. (((w * b) % n) * b) % n = ((w * b) * b) % n
    <3>1. w * b \in Int
      BY <2>2
    <3>2. QED
      BY <3>1, ReduceFactor
  <2>7. (w * b) * b = w * (b * b)
    BY <2>2
  <2>8. (2 * k + 1) + 1 = 2 * (k + 1)
    OBVIOUS
  <2>9. QED
    BY <2>1, <2>3, <2>5, <2>6, <2>7, <2>8
<1>3. \A k \in 0 .. e : k \in T
  <2> HIDE DEF T
  <2>1. QED
    BY <1>1, <1>2, UpTo
<1>4. QED
  BY <1>3

(***************************************************************************)
(* Euclid's lemma.                                                          *)
(***************************************************************************)

\* What divides two numbers divides their combinations.
LEMMA DividesCombination ==
  ASSUME NEW n \in Int, NEW a \in Int, NEW b \in Int, NEW c \in Int,
         Divides(n, a), Divides(n, b)
  PROVE  Divides(n, a - c * b) /\ Divides(n, a * c)
<1>1. PICK q \in Int : a = n * q
  BY DEF Divides
<1>2. PICK r \in Int : b = n * r
  BY DEF Divides
<1>3. a - c * b = n * (q - c * r) /\ q - c * r \in Int
  <2>1. \A i, j, k, l, m, o \in Int : i = m * k /\ j = m * l => i - o * j = m * (k - o * l)
    OBVIOUS
  <2>2. QED
    BY <1>1, <1>2, <2>1
<1>4. a * c = n * (q * c) /\ q * c \in Int
  <2>1. \A i, k, m, o \in Int : i = m * k => i * o = m * (k * o)
    OBVIOUS
  <2>2. QED
    BY <1>1, <2>1
<1>5. QED
  BY <1>3, <1>4 DEF Divides

\* Below a prime there is no multiple of it but zero.
LEMMA NoSmallMultiple ==
  ASSUME NEW n \in Nat \ {0}, NEW a \in 1 .. n - 1
  PROVE  ~Divides(n, a)
<1>1. a % n = a /\ a # 0
  BY SameRemainder
<1>2. QED
  BY <1>1, DividesIsZero

\* A prime that divides a product divides a factor.
LEMMA EuclidsLemma ==
  ASSUME NEW n \in Int, IsPrime(n), NEW a \in Int, NEW b \in Int, Divides(n, a * b)
  PROVE  Divides(n, a) \/ Divides(n, b)
<1> SUFFICES ASSUME ~Divides(n, a) PROVE Divides(n, b)
  OBVIOUS
<1> DEFINE T == {m \in 1 .. n : Divides(n, m * b)}
<1>1. n \in Nat \ {0} /\ n > 1
  BY DEF IsPrime
<1>2. T \in SUBSET Nat /\ n \in T
  <2>1. Divides(n, n * b)
    BY DEF Divides
  <2>2. QED
    BY <1>1, <2>1
<1>3. PICK m \in T : \A u \in T : m <= u
  <2> HIDE DEF T
  <2>1. QED
    BY <1>2, LeastExists
<1>4. m \in Nat \ {0} /\ m <= n /\ Divides(n, m * b)
  BY <1>1, <1>3
<1>5. ASSUME NEW c \in Int, Divides(n, c * b) PROVE c % m = 0
  <2> DEFINE q == c \div m
             r == c % m
  <2>1. c = m * q + r /\ q \in Int /\ r \in 0 .. m - 1
    BY <1>4
  <2> HIDE DEF q, r
  <2>2. Divides(n, c * b - q * (m * b))
    <3>1. c * b \in Int /\ m * b \in Int
      BY <1>4
    <3>2. QED
      BY <1>4, <1>5, <2>1, <3>1, DividesCombination
  <2>3. c * b - q * (m * b) = r * b
    <3>1. \A i, j, k, l, o \in Int : i = j * k + l => i * o - k * (j * o) = l * o
      OBVIOUS
    <3>2. r \in Int /\ m \in Int
      BY <1>4, <2>1
    <3>3. QED
      BY <2>1, <3>1, <3>2
  <2>4. Divides(n, r * b)
    BY <2>2, <2>3
  <2>5. r \notin T
    BY <1>3, <1>4, <2>1
  <2>6. r = 0
    BY <1>1, <1>4, <2>1, <2>4, <2>5
  <2>7. QED
    BY <2>6 DEF r
<1>6. n % m = 0 /\ a % m = 0
  BY <1>1, <1>2, <1>5
<1>7. m = 1 \/ m = n
  <2>1. m \in 2 .. n - 1 => FALSE
    BY <1>6 DEF IsPrime
  <2>2. QED
    BY <1>1, <1>4, <2>1
<1>8. m # n
  BY <1>1, <1>6, DividesIsZero
<1>9. 1 * b = b
  OBVIOUS
<1>10. QED
  BY <1>4, <1>7, <1>8, <1>9

(***************************************************************************)
(* Fermat's little theorem, by the permutation of the residues that a       *)
(* multiplication is.                                                       *)
(***************************************************************************)

\* A product, up to congruence.
LEMMA ProductStep ==
  ASSUME NEW n \in Nat \ {0}, NEW m \in Nat, NEW g, Factors(g, m), NEW k \in 0 .. m - 1
  PROVE  /\ ProductMod(n, g, k) \in Int /\ ProductMod(n, g, k + 1) \in Int
         /\ g[k + 1] \in Int
         /\ Same(n, ProductMod(n, g, k + 1), ProductMod(n, g, k) * g[k + 1])
<1> DEFINE u == ProductMod(n, g, k)
           v == ProductMod(n, g, k + 1)
           w == u * g[k + 1]
<1>1. k \in 0 .. m /\ k + 1 \in 0 .. m /\ k + 1 \in 1 .. m
  OBVIOUS
<1>2. u \in 0 .. n - 1 /\ v \in 0 .. n - 1 /\ v = w % n
  BY <1>1, ProductFacts
<1>3. g[k + 1] \in Int
  BY <1>1 DEF Factors
<1> HIDE DEF u, v
<1>4. w \in Int
  BY <1>2, <1>3
<1> HIDE DEF w
<1>5. Same(n, v, w)
  BY <1>2, <1>4, SameRemainder
<1>6. QED
  BY <1>2, <1>3, <1>5 DEF u, v, w

\* Each factor multiplied by x.
LEMMA ProductScaled ==
  ASSUME NEW n \in Nat \ {0}, NEW m \in Nat, NEW x \in Int,
         NEW g, Factors(g, m), NEW h, Factors(h, m),
         \A k \in 1 .. m : Same(n, h[k], x * g[k])
  PROVE  Same(n, ProductMod(n, h, m), PowerMod(n, x, m) * ProductMod(n, g, m))
<1> DEFINE T == {k \in 0 .. m :
                   Same(n, ProductMod(n, h, k), PowerMod(n, x, k) * ProductMod(n, g, k))}
<1>1. 0 \in T
  <2> DEFINE u == 1 % n
  <2>1. ProductMod(n, h, 0) = u /\ ProductMod(n, g, 0) = u /\ PowerMod(n, x, 0) = u
    BY ProductFacts, PowerFacts
  <2>2. u \in Int /\ Same(n, 1, u)
    BY SameRemainder, SameIsEquivalence
  <2>3. Same(n, u, u)
    BY <2>2, SameIsEquivalence
  <2>4. Same(n, 1 * u, u * u)
    BY <2>2, <2>3, SameOfResults
  <2>5. 1 * u = u
    BY <2>2
  <2> HIDE DEF u
  <2>6. QED
    BY <2>1, <2>4, <2>5
<1>2. ASSUME NEW k \in 0 .. m - 1, k \in T PROVE k + 1 \in T
  <2> DEFINE a == ProductMod(n, h, k)
             b == ProductMod(n, g, k)
             c == PowerMod(n, x, k)
             d == ProductMod(n, h, k + 1)
             e == ProductMod(n, g, k + 1)
             f == PowerMod(n, x, k + 1)
             i == h[k + 1]
             j == g[k + 1]
  <2>1. k \in Nat /\ k + 1 \in Nat /\ k + 1 \in 0 .. m /\ k + 1 \in 1 .. m
    OBVIOUS
  <2>2. Same(n, a, c * b) /\ Same(n, i, x * j)
    BY <1>2, <2>1
  <2>3. a \in Int /\ d \in Int /\ i \in Int /\ Same(n, d, a * i)
    BY ProductStep
  <2>4. b \in Int /\ e \in Int /\ j \in Int /\ Same(n, e, b * j)
    BY ProductStep
  <2>5. c \in 0 .. n - 1 /\ f \in 0 .. n - 1 /\ Same(n, f, c * x)
    BY <2>1, PowerFacts
  <2> HIDE DEF a, b, c, d, e, f, i, j
  <2>6. c * x \in Int /\ c \in Int /\ f \in Int
    BY <2>5
  <2>7. Same(n, f * e, (c * x) * (b * j))
    <3>1. b * j \in Int
      BY <2>4
    <3>2. QED
      BY <2>4, <2>5, <2>6, <3>1, SameOfResults
  <2>8. Same(n, a * i, (c * b) * (x * j))
    <3>1. c * b \in Int /\ x * j \in Int
      BY <2>4, <2>5
    <3>2. QED
      BY <2>2, <2>3, <3>1, SameOfResults
  <2>9. (c * x) * (b * j) = (c * b) * (x * j)
    BY <2>4, <2>5
  <2>10. a * i \in Int /\ f * e \in Int /\ (c * x) * (b * j) \in Int
    BY <2>3, <2>4, <2>5
  <2> DEFINE v == a * i
             w == f * e
             y == (c * x) * (b * j)
  <2>11. Same(n, d, v) /\ Same(n, v, y) /\ Same(n, w, y) /\ v \in Int /\ w \in Int /\ y \in Int
    BY <2>3, <2>7, <2>8, <2>9, <2>10
  <2> HIDE DEF v, w, y
  <2>12. Same(n, d, w)
    BY <2>3, <2>11, SameIsEquivalence
  <2>13. QED
    BY <2>1, <2>12 DEF w, d, e, f
<1>3. \A k \in 0 .. m : k \in T
  <2> HIDE DEF T
  <2>1. QED
    BY <1>1, <1>2, UpTo
<1>4. QED
  BY <1>3

\* A factor 1 replaced by c.
LEMMA ProductWith ==
  ASSUME NEW n \in Nat \ {0}, NEW m \in Nat, NEW g, Factors(g, m), NEW h, Factors(h, m),
         NEW i \in 1 .. m, g[i] = 1, \A k \in 1 .. m : k # i => h[k] = g[k]
  PROVE  Same(n, ProductMod(n, h, m), ProductMod(n, g, m) * h[i])
<1> DEFINE c == h[i]
           T == {k \in 0 .. m :
                   IF k < i THEN ProductMod(n, h, k) = ProductMod(n, g, k)
                   ELSE Same(n, ProductMod(n, h, k), ProductMod(n, g, k) * c)}
<1>1. 0 \in T
  <2>1. ProductMod(n, h, 0) = ProductMod(n, g, 0)
    BY ProductFacts
  <2>2. 0 < i /\ 0 \in 0 .. m
    OBVIOUS
  <2>3. QED
    BY <2>1, <2>2
<1>2. ASSUME NEW k \in 0 .. m - 1, k \in T PROVE k + 1 \in T
  <2> DEFINE a == ProductMod(n, h, k)
             b == ProductMod(n, g, k)
             d == ProductMod(n, h, k + 1)
             e == ProductMod(n, g, k + 1)
             s == h[k + 1]
             t == g[k + 1]
  <2>1. k + 1 \in 0 .. m /\ k + 1 \in 1 .. m /\ c \in Int
    BY DEF Factors
  <2>2. a \in Int /\ d \in Int /\ s \in Int /\ Same(n, d, a * s)
    BY ProductStep
  <2>3. b \in Int /\ e \in Int /\ t \in Int /\ Same(n, e, b * t)
    BY ProductStep
  <2>4. CASE k + 1 < i
    <3>1. a = b /\ s = t
      BY <1>2, <2>1, <2>4
    <3>2. d = (a * s) % n /\ e = (b * t) % n
      BY ProductFacts
    <3>3. QED
      BY <2>1, <2>4, <3>1, <3>2
  <2>5. CASE k + 1 = i
    <3>1. a = b /\ s = c /\ t = 1
      BY <1>2, <2>1, <2>5
    <3>2. d = (a * s) % n /\ e = (b * t) % n /\ b \in 0 .. n - 1
      BY <2>1, ProductFacts
    <3> HIDE DEF a, b, c, d, e, s, t
    <3>3. b * t = b
      BY <2>3, <3>1
    <3>4. e = b
      BY <3>2, <3>3, SameRemainder
    <3>5. Same(n, d, e * c)
      BY <2>2, <3>1, <3>4
    <3>6. QED
      BY <2>1, <2>5, <3>5 DEF c, d, e
  <2>6. CASE k + 1 > i
    <3>1. Same(n, a, b * c) /\ s = t
      <4>1. ~(k < i) /\ k + 1 # i
        BY <2>6
      <4>2. QED
        BY <1>2, <2>1, <4>1
    <3> HIDE DEF a, b, c, d, e, s, t
    <3> DEFINE u == a * s
               v == (b * c) * s
               w == e * c
               y == (b * t) * c
    <3>2. u \in Int /\ v \in Int /\ w \in Int /\ v = y /\ b * c \in Int /\ b * t \in Int
      BY <2>1, <2>2, <2>3, <3>1
    <3>3. Same(n, u, v)
      <4>1. Same(n, s, s)
        BY <2>2, SameIsEquivalence
      <4>2. QED
        BY <2>2, <3>1, <3>2, <4>1, SameOfResults
    <3>4. Same(n, w, y)
      <4>1. Same(n, c, c)
        BY <2>1, SameIsEquivalence
      <4>2. QED
        BY <2>1, <2>3, <3>2, <4>1, SameOfResults
    <3>5. Same(n, d, u)
      BY <2>2
    <3> HIDE DEF u, v, w, y
    <3>6. Same(n, d, v) /\ Same(n, v, w)
      BY <2>2, <3>2, <3>3, <3>4, <3>5, SameIsEquivalence
    <3>7. Same(n, d, w)
      BY <2>2, <3>2, <3>6, SameIsEquivalence
    <3>8. ~(k + 1 < i)
      BY <2>6
    <3>9. QED
      BY <2>1, <3>7, <3>8 DEF w, c, d, e
  <2>7. QED
    BY <2>4, <2>5, <2>6
<1>3. \A k \in 0 .. m : k \in T
  <2> HIDE DEF T
  <2>1. QED
    BY <1>1, <1>2, UpTo
<1>4. m \in T /\ ~(m < i)
  BY <1>3
<1>5. QED
  BY <1>4

\* The factors of the product of the numbers in S, among those up to N.
Chosen(S) == [k \in Nat |-> IF k \in S THEN k ELSE 1]

\* The residues of the first multiples of x.
Multiples(n, x) == [k \in Nat |-> (x * k) % n]

\* The product of no prime's smaller numbers is a multiple of it.
LEMMA FactorialIsNoMultiple ==
  ASSUME NEW n \in Int, IsPrime(n), NEW m \in 0 .. n - 1
  PROVE  ~Divides(n, ProductMod(n, Chosen(1 .. n - 1), m))
<1> DEFINE g == Chosen(1 .. n - 1)
           T == {k \in 0 .. m : ~Divides(n, ProductMod(n, g, k))}
<1>1. n \in Nat \ {0} /\ n > 1 /\ m \in Nat
  BY DEF IsPrime
<1>2. Factors(g, m) /\ \A k \in 1 .. m : g[k] = k
  BY <1>1 DEF Factors, Chosen
<1> HIDE DEF g
<1>3. 0 \in T
  <2>0. 1 \in 0 .. n - 1 /\ 1 \in 1 .. n - 1
    BY <1>1
  <2>1. ProductMod(n, g, 0) = 1 % n /\ 1 % n = 1
    BY <1>1, <1>2, <2>0, ProductFacts, ResidueIsItself
  <2>2. ~Divides(n, 1)
    BY <1>1, <2>0, NoSmallMultiple
  <2>3. 0 \in 0 .. m
    BY <1>1
  <2>4. QED
    BY <2>1, <2>2, <2>3
<1>4. ASSUME NEW k \in 0 .. m - 1, k \in T PROVE k + 1 \in T
  <2> DEFINE u == ProductMod(n, g, k)
             v == ProductMod(n, g, k + 1)
  <2>1. u \in Int /\ v \in Int /\ g[k + 1] = k + 1 /\ Same(n, v, u * g[k + 1])
    BY <1>1, <1>2, ProductStep
  <2>2. k + 1 \in 1 .. n - 1 /\ k + 1 \in 0 .. m /\ ~Divides(n, u)
    BY <1>1, <1>4
  <2>3. ~Divides(n, k + 1) /\ k + 1 \in Int
    BY <1>1, <2>2, NoSmallMultiple
  <2> HIDE DEF u, v
  <2> DEFINE w == u * (k + 1)
  <2>4. ~Divides(n, w) /\ w \in Int /\ Same(n, v, w)
    BY <2>1, <2>2, <2>3, EuclidsLemma
  <2> HIDE DEF w
  <2>5. v % n = w % n
    BY <1>1, <2>1, <2>4, SameIff
  <2>6. ~Divides(n, v)
    BY <1>1, <2>1, <2>4, <2>5, DividesIsZero
  <2>7. QED
    BY <2>2, <2>6 DEF v
<1>5. \A k \in 0 .. m : k \in T
  <2> HIDE DEF T
  <2>1. QED
    BY <1>1, <1>3, <1>4, UpTo
<1>6. QED
  BY <1>1, <1>5 DEF g

\* Multiplication by x permutes the residues of a prime that x is no multiple of.
LEMMA MultiplesArePermuted ==
  ASSUME NEW n \in Int, IsPrime(n), NEW x \in Int, ~Divides(n, x)
  PROVE  LET f == Multiples(n, x)
         IN  /\ \A k \in 1 .. n - 1 : f[k] \in 1 .. n - 1
             /\ \A j, k \in 1 .. n - 1 : f[j] = f[k] => j = k
             /\ {f[k] : k \in 1 .. n - 1} = 1 .. n - 1
<1> DEFINE f == Multiples(n, x)
           U == 1 .. n - 1
           h == [k \in U |-> f[k]]
<1>1. n \in Nat \ {0} /\ n > 1
  BY DEF IsPrime
<1>2. \A k \in U : f[k] = (x * k) % n /\ k \in Int /\ x * k \in Int
  BY <1>1 DEF Multiples
<1>3. ASSUME NEW k \in U PROVE f[k] \in U
  <2>1. ~Divides(n, k)
    BY <1>1, NoSmallMultiple
  <2>2. ~Divides(n, x * k)
    BY <1>2, <2>1, EuclidsLemma
  <2> DEFINE w == x * k
  <2>3. w \in Int /\ ~Divides(n, w) /\ f[k] = w % n
    BY <1>2, <2>2
  <2> HIDE DEF w, f
  <2>4. w % n # 0 /\ w % n \in 0 .. n - 1
    BY <1>1, <2>3, DividesIsZero, SameRemainder
  <2>5. QED
    BY <1>1, <2>3, <2>4
<1>4. ASSUME NEW j \in U, NEW k \in U, f[j] = f[k] PROVE j = k
  <2> DEFINE v == x * j
             w == x * k
  <2>1. v \in Int /\ w \in Int /\ v % n = w % n /\ v - w = x * (j - k)
    BY <1>2, <1>4
  <2> HIDE DEF v, w, f
  <2>2. Same(n, v, w)
    BY <1>1, <2>1, SameRemainder
  <2>3. Divides(n, x * (j - k)) /\ j - k \in Int
    BY <1>2, <2>1, <2>2 DEF Same
  <2>4. Same(n, j, k)
    BY <2>3, EuclidsLemma DEF Same
  <2>5. j % n = k % n /\ j % n = j /\ k % n = k
    <3>1. j \in 0 .. n - 1 /\ k \in 0 .. n - 1 /\ j \in Int /\ k \in Int
      BY <1>1
    <3>2. QED
      BY <1>1, <2>4, <3>1, SameIff, ResidueIsItself
  <2>6. QED
    BY <2>5
<1>5. {f[k] : k \in U} = U
  <2> HIDE DEF f
  <2>1. IsFiniteSet(U) /\ Cardinality(U) = Cardinality(U)
    BY <1>1, FS_Interval
  <2>2. h \in Injection(U, U)
    BY <1>3, <1>4 DEF Injection, IsInjective
  <2>3. h \in Surjection(U, U)
    BY <2>1, <2>2, FS_Injection
  <2>4. QED
    BY <1>3, <2>3 DEF Surjection
<1>6. QED
  BY <1>3, <1>4, <1>5

\* The powers of one are one.
LEMMA PowerOfOne ==
  ASSUME NEW n \in Nat \ {0}, NEW e \in Nat
  PROVE  PowerMod(n, 1, e) = 1 % n
<1> DEFINE T == {k \in 0 .. e : PowerMod(n, 1, k) = 1 % n}
<1>1. 0 \in T
  <2>1. 0 \in 0 .. e /\ 1 \in Int
    OBVIOUS
  <2>2. QED
    BY <2>1, PowerFacts
<1>2. ASSUME NEW k \in 0 .. e - 1, k \in T PROVE k + 1 \in T
  <2> DEFINE w == 1 % n
  <2>1. k \in Nat /\ k + 1 \in 0 .. e /\ w \in 0 .. n - 1 /\ 1 \in Int
    OBVIOUS
  <2>2. PowerMod(n, 1, k + 1) = (w * 1) % n
    <3>1. PowerMod(n, 1, k) = w
      BY <1>2
    <3> HIDE DEF w
    <3>2. QED
      BY <2>1, <3>1, PowerFacts
  <2> HIDE DEF w
  <2>3. w * 1 = w /\ w % n = w
    BY <2>1, ResidueIsItself
  <2>4. QED
    BY <2>1, <2>2, <2>3 DEF w
<1>3. \A k \in 0 .. e : k \in T
  <2> HIDE DEF T
  <2>1. QED
    BY <1>1, <1>2, UpTo
<1>4. QED
  BY <1>3

\* The product of the first m of the permuted residues is that of the set of them.
LEMMA ProductOfMultiples ==
  ASSUME NEW n \in Int, IsPrime(n), NEW x \in Int, ~Divides(n, x), NEW m \in 0 .. n - 1
  PROVE  LET f == Multiples(n, x)
         IN  Same(n, ProductMod(n, f, m), ProductMod(n, Chosen({f[k] : k \in 1 .. m}), n - 1))
<1> DEFINE N == n - 1
           f == Multiples(n, x)
           C(k) == Chosen({f[j] : j \in 1 .. k})
           T == {k \in 0 .. m : Same(n, ProductMod(n, f, k), ProductMod(n, C(k), N))}
<1>1. n \in Nat \ {0} /\ n > 1 /\ N \in Nat /\ m \in Nat /\ m <= N
  BY DEF IsPrime
<1>2. /\ \A k \in 1 .. N : f[k] \in 1 .. N /\ f[k] \in Int
      /\ \A j, k \in 1 .. N : f[j] = f[k] => j = k
  BY MultiplesArePermuted
<1> HIDE DEF f
<1>3. Factors(f, N)
  BY <1>2 DEF Factors
<1>4. \A k : Factors(C(k), N) /\ \A j \in 1 .. N : C(k)[j] = IF j \in {f[i] : i \in 1 .. k} THEN j ELSE 1
  BY <1>1 DEF Factors, Chosen
<1>5. 0 \in T
  <2>1. C(0) = [k \in Nat |-> 1]
    <3>1. {f[j] : j \in 1 .. 0} = {}
      OBVIOUS
    <3>2. QED
      BY <3>1 DEF Chosen
  <2>2. ProductMod(n, C(0), N) = 1 % n
    BY <1>1, <2>1, PowerOfOne DEF PowerMod
  <2>3. ProductMod(n, f, 0) = 1 % n
    BY <1>1, <1>3, ProductFacts
  <2>4. 1 % n \in Int /\ 0 \in 0 .. m
    BY <1>1
  <2> HIDE DEF C
  <2>5. QED
    BY <1>1, <2>2, <2>3, <2>4, SameIsEquivalence
<1>6. ASSUME NEW k \in 0 .. m - 1, k \in T PROVE k + 1 \in T
  <2> DEFINE i == f[k + 1]
             a == ProductMod(n, f, k)
             b == ProductMod(n, f, k + 1)
             c == ProductMod(n, C(k), N)
             d == ProductMod(n, C(k + 1), N)
  <2>1. k \in 0 .. N - 1 /\ k + 1 \in 1 .. N /\ k + 1 \in 0 .. m /\ N \in 0 .. N
    BY <1>1
  <2>2. i \in 1 .. N /\ i \notin {f[j] : j \in 1 .. k}
    <3>1. \A j \in 1 .. k : j \in 1 .. N /\ j # k + 1
      BY <1>1
    <3>2. QED
      BY <1>2, <2>1, <3>1
  <2>3. {f[j] : j \in 1 .. k + 1} = {f[j] : j \in 1 .. k} \cup {i}
    <3>1. 1 .. k + 1 = (1 .. k) \cup {k + 1}
      OBVIOUS
    <3>2. QED
      BY <3>1
  <2>4. C(k)[i] = 1 /\ C(k + 1)[i] = i /\ \A j \in 1 .. N : j # i => C(k + 1)[j] = C(k)[j]
    BY <1>4, <2>2, <2>3
  <2>5. Factors(C(k), N) /\ Factors(C(k + 1), N)
    BY <1>4
  <2>6. c \in Int /\ d \in Int /\ Same(n, d, c * i)
    <3> HIDE DEF C
    <3>1. c \in 0 .. n - 1 /\ d \in 0 .. n - 1
      BY <1>1, <2>1, <2>5, ProductFacts
    <3>2. Same(n, d, c * C(k + 1)[i])
      BY <1>1, <2>2, <2>4, <2>5, ProductWith
    <3>3. QED
      BY <2>4, <3>1, <3>2
  <2>7. a \in Int /\ b \in Int /\ i \in Int /\ Same(n, b, a * i)
    BY <1>1, <1>3, <2>1, ProductStep
  <2>8. Same(n, a, c)
    BY <1>6
  <2>9. Same(n, b, d)
    <3> HIDE DEF a, b, c, d, i
    <3>1. Same(n, a * i, c * i)
      BY <2>6, <2>7, <2>8, SameIsEquivalence, SameOfResults
    <3> DEFINE v == a * i
               w == c * i
    <3>2. v \in Int /\ w \in Int /\ Same(n, b, v) /\ Same(n, v, w) /\ Same(n, d, w)
      BY <2>6, <2>7, <3>1
    <3> HIDE DEF v, w
    <3>3. b % n = v % n /\ v % n = w % n /\ d % n = w % n
      BY <1>1, <2>6, <2>7, <3>2, SameIff
    <3>4. QED
      BY <1>1, <2>6, <2>7, <3>3, SameIff
  <2>10. QED
    BY <2>1, <2>9
<1>7. \A k \in 0 .. m : k \in T
  <2> HIDE DEF T
  <2>1. QED
    BY <1>1, <1>5, <1>6, UpTo
<1>8. QED
  BY <1>1, <1>7 DEF f

\* Fermat's little theorem.
THEOREM Fermat ==
  ASSUME NEW n \in Int, IsPrime(n), NEW x \in Int, ~Divides(n, x)
  PROVE  PowerMod(n, x, n - 1) = 1
<1> DEFINE N == n - 1
           f == Multiples(n, x)
           g == Chosen(1 .. N)
           u == ProductMod(n, g, N)
           v == ProductMod(n, f, N)
           w == PowerMod(n, x, N)
<1>1. n \in Nat \ {0} /\ n > 1 /\ N \in Nat /\ N \in 0 .. N
  BY DEF IsPrime
<1>2. Factors(g, N) /\ \A k \in 1 .. N : g[k] = k
  BY <1>1 DEF Factors, Chosen
<1>3. Factors(f, N) /\ \A k \in 1 .. N : Same(n, f[k], x * g[k])
  <2>1. SUFFICES ASSUME NEW k \in 1 .. N PROVE f[k] \in Int /\ Same(n, f[k], x * g[k])
    BY DEF Factors
  <2> DEFINE a == x * k
  <2>2. a \in Int /\ f[k] = a % n /\ x * g[k] = a
    <3>1. k \in Nat /\ g[k] = k
      BY <1>1, <1>2
    <3>2. f[k] = a % n
      BY <3>1 DEF Multiples
    <3> HIDE DEF f, g
    <3>3. QED
      BY <3>1, <3>2
  <2> HIDE DEF a, f, g
  <2>3. a % n \in 0 .. n - 1 /\ Same(n, a % n, a)
    BY <1>1, <2>2, SameRemainder
  <2>4. QED
    BY <2>2, <2>3
<1>4. {f[k] : k \in 1 .. N} = 1 .. N
  BY MultiplesArePermuted
<1>5. Same(n, v, u)
  BY <1>1, <1>4, ProductOfMultiples
<1>6. u \in Int /\ v \in Int /\ w \in 0 .. n - 1 /\ ~Divides(n, u)
  <2>1. u \in 0 .. n - 1 /\ v \in 0 .. n - 1 /\ w \in 0 .. n - 1
    BY <1>1, <1>2, <1>3, ProductFacts, PowerFacts
  <2>2. ~Divides(n, u)
    BY <1>1, FactorialIsNoMultiple
  <2>3. QED
    BY <2>1, <2>2
<1>7. Same(n, v, w * u)
  BY <1>1, <1>2, <1>3, ProductScaled
<1> HIDE DEF u, v, w
<1>8. Divides(n, (w - 1) * u)
  <2> DEFINE y == w * u
  <2>1. y \in Int /\ y - u = (w - 1) * u
    BY <1>6
  <2>2. Same(n, v, y)
    BY <1>7
  <2> HIDE DEF y
  <2>3. Same(n, y, u)
    BY <1>1, <1>5, <1>6, <2>1, <2>2, SameIff
  <2>4. QED
    BY <2>1, <2>3 DEF Same
<1>9. Same(n, w, 1)
  <2>1. w - 1 \in Int
    BY <1>6
  <2>2. QED
    BY <1>6, <1>8, <2>1, EuclidsLemma DEF Same
<1>10. w % n = 1 % n /\ w % n = w /\ 1 % n = 1
  <2>1. w \in Int /\ 1 \in Int /\ 1 \in 0 .. n - 1
    BY <1>1, <1>6
  <2>2. QED
    <3>1. w % n = 1 % n
      BY <1>1, <1>9, <2>1, SameIff
    <3>2. QED
      BY <1>1, <1>6, <2>1, <3>1, ResidueIsItself
<1>11. QED
  BY <1>10 DEF w

(***************************************************************************)
(* Square and multiply.                                                     *)
(***************************************************************************)
\* Congruence is transitive and kept by products, in a form to cite.
LEMMA SameChain ==
  \A n \in Int : \A a, b, c \in Int : Same(n, a, b) /\ Same(n, b, c) => Same(n, a, c)
BY SameIsEquivalence

\* Congruence is symmetric, in the form that its users instantiate.
LEMMA SameBack == \A n \in Int : \A a, b \in Int : Same(n, a, b) => Same(n, b, a)
BY SameIsEquivalence

\* Congruent numbers stay so when both are multiplied by a third.
LEMMA SameTimes ==
  \A n \in Int : \A a, b, c \in Int :
    Same(n, a, b) => Same(n, a * c, b * c) /\ Same(n, c * a, c * b)
<1> SUFFICES ASSUME NEW n \in Int, NEW a \in Int, NEW b \in Int, NEW c \in Int, Same(n, a, b)
             PROVE  Same(n, a * c, b * c) /\ Same(n, c * a, c * b)
  OBVIOUS
<1>1. Same(n, c, c)
  BY SameIsEquivalence
<1>2. QED
  BY <1>1, SameOfResults

\* Where the exponent is odd, a factor moves from the power into the partial
\* product, and the exponent loses its last bit.
LEMMA MultiplyIn ==
  ASSUME NEW n \in Nat \ {0}, NEW b \in Int, NEW e \in Nat, e % 2 = 1,
         NEW acc \in Int, NEW new \in Int, NEW goal \in Int,
         Same(n, PowerMod(n, b, e) * acc, goal), Same(n, new, acc * b)
  PROVE  Same(n, PowerMod(n, b, 2 * (e \div 2)) * new, goal)
<1> DEFINE k == 2 * (e \div 2)
<1>1. k \in Nat /\ e = k + 1
  OBVIOUS
<1> HIDE DEF k
<1> DEFINE u == PowerMod(n, b, k)
           v == PowerMod(n, b, e)
<1>2. u \in Int /\ v \in Int /\ Same(n, v, u * b)
  <2>1. u \in 0 .. n - 1 /\ Same(n, PowerMod(n, b, k + 1), u * b)
    BY <1>1, PowerFacts
  <2>2. v \in 0 .. n - 1
    BY PowerFacts
  <2>3. QED
    BY <1>1, <2>1, <2>2
<1>3. Same(n, v * acc, goal)
  OBVIOUS
<1> HIDE DEF u, v
<1> DEFINE a1 == u * new
           a2 == u * (acc * b)
           a3 == (u * b) * acc
           a4 == v * acc
<1>4. a1 \in Int /\ a2 \in Int /\ a3 \in Int /\ a4 \in Int /\ a2 = a3 /\ acc * b \in Int /\ u * b \in Int
  BY <1>2
<1>5. Same(n, a1, a2)
  <2> DEFINE w == acc * b
  <2>1. n \in Int /\ w \in Int /\ Same(n, new, w)
    BY <1>4
  <2> HIDE DEF w
  <2>2. Same(n, u * new, u * w)
    BY <1>2, <2>1, SameTimes
  <2>3. QED
    BY <2>2 DEF w
<1>6. Same(n, a4, a3)
  <2> DEFINE w == u * b
  <2>1. n \in Int /\ w \in Int /\ Same(n, v, w)
    BY <1>2, <1>4
  <2> HIDE DEF w
  <2>2. Same(n, v * acc, w * acc)
    BY <1>2, <2>1, SameTimes
  <2>3. QED
    BY <2>2 DEF w
<1>7. Same(n, a4, goal)
  BY <1>3
<1> HIDE DEF a1, a2, a3, a4
<1>8. Same(n, a1, goal)
  <2>1. Same(n, a3, a4) /\ Same(n, a1, a3)
    BY <1>4, <1>5, <1>6, SameBack
  <2>2. Same(n, a1, a4)
    BY <1>4, <2>1, SameChain
  <2>3. QED
    BY <1>4, <1>7, <2>2, SameChain
<1>9. QED
  BY <1>8 DEF a1, u, k

\* An even power is the power of the square.
LEMMA SquareIn ==
  ASSUME NEW n \in Nat \ {0}, NEW b \in Int, NEW e \in Nat, NEW acc \in Int,
         NEW new \in Int, NEW goal \in Int,
         Same(n, PowerMod(n, b, 2 * e) * acc, goal), Same(n, new, b * b)
  PROVE  Same(n, PowerMod(n, new, e) * acc, goal)
<1> DEFINE s == b * b
<1>1. s \in Int /\ Same(n, new, s)
  OBVIOUS
<1>2. PowerMod(n, s, e) = PowerMod(n, b, 2 * e)
  BY PowerOfSquare
<1> HIDE DEF s
<1>3. PowerMod(n, new, e) = PowerMod(n, s, e)
  BY <1>1, PowerOfSame
<1>4. QED
  BY <1>2, <1>3

\* When no power is left the partial product is the goal.
LEMMA NothingLeft ==
  ASSUME NEW n \in Nat \ {0}, NEW b \in Int, NEW acc \in Int, NEW goal \in Int,
         Same(n, PowerMod(n, b, 0) * acc, goal)
  PROVE  Same(n, acc, goal)
<1> DEFINE u == PowerMod(n, b, 0)
<1>1. u = 1 % n /\ u \in Int
  <2>1. \A e \in Nat : PowerMod(n, b, 0) = 1 % n /\ PowerMod(n, b, e) \in 0 .. n - 1
    BY PowerFacts
  <2>2. QED
    BY <2>1
<1>2. Same(n, u, 1)
  <2>1. \A a \in Int : Same(n, a % n, a)
    BY SameRemainder
  <2>2. QED
    BY <1>1, <2>1
<1>3. Same(n, u * acc, goal)
  OBVIOUS
<1> HIDE DEF u
<1> DEFINE a1 == u * acc
           a2 == 1 * acc
<1>4. a1 \in Int /\ a2 \in Int /\ a2 = acc /\ Same(n, a1, a2)
  <2>1. n \in Int /\ 1 \in Int
    OBVIOUS
  <2>2. Same(n, u * acc, 1 * acc)
    BY <1>1, <1>2, <2>1, SameTimes
  <2>3. QED
    BY <1>1, <2>2
<1>5. Same(n, a1, goal)
  BY <1>3
<1> HIDE DEF a1, a2
<1>6. Same(n, a2, a1)
  BY <1>4, SameBack
<1>7. QED
  BY <1>4, <1>5, <1>6, SameChain

\* One is its own power, and the power of anything to nothing.
LEMMA TrivialPowers ==
  \A n \in Nat \ {0}, v \in Int, e \in Nat :
    (v = 1 \/ e = 0) => PowerMod(n, v, e) \in Int /\ Same(n, 1, PowerMod(n, v, e))
<1> SUFFICES ASSUME NEW n \in Nat \ {0}, NEW v \in Int, NEW e \in Nat, v = 1 \/ e = 0
             PROVE  PowerMod(n, v, e) \in Int /\ Same(n, 1, PowerMod(n, v, e))
  OBVIOUS
<1>1. PowerMod(n, v, e) = 1 % n
  <2>1. PowerMod(n, v, 0) = 1 % n
    BY PowerFacts
  <2>2. PowerMod(n, 1, e) = 1 % n
    BY PowerOfOne
  <2>3. QED
    BY <2>1, <2>2
<1>2. n \in Int /\ 1 \in Int /\ 1 % n \in Int
  OBVIOUS
<1>3. Same(n, 1 % n, 1)
  <2>1. \A a \in Int : Same(n, a % n, a)
    BY SameRemainder
  <2>2. QED
    BY <1>2, <2>1
<1>4. Same(n, 1, 1 % n)
  BY <1>2, <1>3, SameBack
<1>5. QED
  BY <1>1, <1>2, <1>4

\* Fermat's little theorem, for the power that the kernel computes: whatever is
\* congruent to v^(n-2) is an inverse of v.
LEMMA GoalIsInverse ==
  ASSUME NEW n \in Int, IsPrime(n), NEW v \in Int, v % n # 0,
         NEW y \in Int, Same(n, y, PowerMod(n, v, n - 2))
  PROVE  (v * y) % n = 1
<1> DEFINE g == PowerMod(n, v, n - 2)
           f == PowerMod(n, v, n - 1)
<1>1. n \in Nat \ {0} /\ n > 1 /\ n - 2 \in Nat
  BY DEF IsPrime
<1>2. f = 1
  <2>1. ~Divides(n, v)
    BY <1>1, DividesIsZero
  <2>2. QED
    BY <2>1, Fermat
<1>3. g \in Int /\ Same(n, f, g * v)
  <2> DEFINE e == n - 2
  <2>1. e \in Nat /\ e + 1 = n - 1
    BY <1>1
  <2> HIDE DEF e
  <2>2. PowerMod(n, v, e) \in 0 .. n - 1 /\ Same(n, PowerMod(n, v, e + 1), PowerMod(n, v, e) * v)
    BY <1>1, <2>1, PowerFacts
  <2>3. QED
    BY <2>1, <2>2 DEF e
<1>4. Same(n, y, g)
  OBVIOUS
<1> HIDE DEF f, g
<1> DEFINE t == y * v
           u == g * v
<1>5. t \in Int /\ u \in Int /\ v * y = t
  BY <1>3
<1>6. Same(n, t, u)
  BY <1>1, <1>3, <1>4, SameTimes
<1>7. Same(n, f, u)
  BY <1>3
<1> HIDE DEF t, u
<1>8. Same(n, t, 1)
  <2>1. n \in Int /\ 1 \in Int
    BY <1>1
  <2>2. Same(n, u, 1)
    BY <1>2, <1>5, <1>7, <2>1, SameBack
  <2>3. QED
    BY <1>5, <1>6, <2>1, <2>2, SameChain
<1>9. t % n = 1
  <2>1. 1 \in Int /\ 1 \in 0 .. n - 1
    BY <1>1
  <2>2. t % n = 1 % n
    BY <1>1, <1>5, <1>8, <2>1, SameIff
  <2>3. 1 % n = 1
    BY <1>1, <2>1, ResidueIsItself
  <2>4. QED
    BY <2>2, <2>3
<1>10. QED
  BY <1>5, <1>9

(*****************************************************************************)
(* Words.                                                                   *)
(*****************************************************************************)

(***************************************************************************)
(* Powers of two.                                                           *)
(***************************************************************************)
LEMMA PowersArePositive == \A k \in 0 .. WordBits + 1 : 2^k \in Nat \ {0}
<1> DEFINE T == {k \in 0 .. WordBits + 1 : 2^k \in Nat \ {0}}
<1>1. WordBits + 1 \in Nat
  BY WordBitsAssumption
<1>2. 0 \in T
  BY <1>1, PowersOfTwo
<1>3. ASSUME NEW k \in 0 .. (WordBits + 1) - 1, k \in T PROVE k + 1 \in T
  <2>1. k \in 0 .. WordBits /\ k + 1 \in 0 .. WordBits + 1
    BY WordBitsAssumption
  <2>2. 2^(k + 1) = 2 * 2^k
    BY <2>1, PowersOfTwo
  <2>3. 2^k \in Nat \ {0}
    BY <1>3
  <2> DEFINE m == 2^k
  <2>4. m \in Nat \ {0} /\ 2^(k + 1) = 2 * m
    BY <2>2, <2>3
  <2> HIDE DEF m
  <2>5. 2 * m \in Nat \ {0}
    BY <2>4
  <2>6. QED
    BY <2>1, <2>4, <2>5
<1>4. \A k \in 0 .. WordBits + 1 : k \in T
  <2> HIDE DEF T
  <2>1. QED
    BY <1>1, <1>2, <1>3, UpTo
<1>5. QED
  BY <1>4

\* Half a range of words is a positive number, and twice that the whole.
LEMMA HalfFacts == Half \in Nat \ {0} /\ 2^WordBits = 2 * Half
<1>1. WordBits - 1 \in 0 .. WordBits /\ WordBits - 1 \in 0 .. WordBits + 1
  BY WordBitsAssumption
<1>2. WordBits - 1 + 1 = WordBits
  BY WordBitsAssumption
<1>3. 2^(WordBits - 1 + 1) = 2 * 2^(WordBits - 1) /\ 2^(WordBits - 1) \in Nat \ {0}
  BY <1>1, PowersOfTwo, PowersArePositive
<1>4. QED
  BY <1>2, <1>3 DEF Half

\* A greater power of two is an even multiple of a smaller one.
LEMMA PowersDivide ==
  ASSUME NEW j \in 0 .. WordBits, NEW k \in 0 .. WordBits, j < k
  PROVE  \E t \in Int : 2^k = 2^j * (2 * t)
<1> DEFINE T == {i \in 0 .. WordBits : j < i => \E t \in Int : 2^i = 2^j * (2 * t)}
<1>1. WordBits \in Nat
  BY WordBitsAssumption
<1>2. 0 \in T
  BY <1>1
<1>3. ASSUME NEW i \in 0 .. WordBits - 1, i \in T PROVE i + 1 \in T
  <2>1. i \in 0 .. WordBits /\ i + 1 \in 0 .. WordBits
    BY <1>1
  <2>2. 2^(i + 1) = 2 * 2^i
    BY <2>1, PowersOfTwo
  <2>3. CASE j < i
    <3>1. PICK t \in Int : 2^i = 2^j * (2 * t)
      BY <1>3, <2>3
    <3> DEFINE m == 2^j
    <3>2. m \in Int /\ 2^i = m * (2 * t)
      BY <1>1, <3>1, PowersArePositive
    <3> HIDE DEF m
    <3>3. 2 * (m * (2 * t)) = m * (2 * (2 * t)) /\ 2 * t \in Int
      BY <3>2
    <3>4. 2^(i + 1) = m * (2 * (2 * t))
      BY <2>2, <3>2, <3>3
    <3>5. QED
      BY <2>1, <3>3, <3>4 DEF m
  <2>4. CASE j = i
    <3> DEFINE m == 2^j
    <3>1. m \in Int /\ 2^(i + 1) = 2 * m
      BY <1>1, <2>2, <2>4, PowersArePositive
    <3> HIDE DEF m
    <3>2. 2 * m = m * (2 * 1) /\ 1 \in Int
      BY <3>1
    <3>3. QED
      BY <2>1, <3>1, <3>2 DEF m
  <2>5. CASE j > i
    BY <2>1, <2>5
  <2>6. QED
    BY <2>1, <2>3, <2>4, <2>5
<1>4. \A i \in 0 .. WordBits : i \in T
  <2> HIDE DEF T
  <2>1. QED
    BY <1>1, <1>2, <1>3, UpTo
<1>5. QED
  BY <1>4

(***************************************************************************)
(* The bits of an integer.                                                  *)
(***************************************************************************)
\* The last k + 1 bits are bit k and the last k.
LEMMA RemainderOfDouble ==
  ASSUME NEW m \in Nat \ {0}, NEW n \in Int
  PROVE  n % (2 * m) = m * ((n \div m) % 2) + (n % m)
<1> DEFINE d == n \div m
           r == n % m
<1>1. n = m * d + r /\ d \in Int /\ r \in 0 .. m - 1
  OBVIOUS
<1> HIDE DEF d, r
<1> DEFINE e == d \div 2
           b == d % 2
<1>2. d = 2 * e + b /\ e \in Int /\ b \in 0 .. 1
  BY <1>1
<1> HIDE DEF e, b
<1>3. 2 * m \in Nat \ {0} /\ n = (2 * m) * e + (m * b + r)
  <2>1. m * (2 * e + b) = (2 * m) * e + m * b /\ m * b \in Int /\ (2 * m) * e \in Int
    BY <1>2
  <2>2. QED
    BY <1>1, <1>2, <2>1
<1>4. m * b + r \in 0 .. (2 * m) - 1
  <2>1. b = 0 \/ b = 1
    BY <1>2
  <2>2. QED
    BY <1>1, <2>1
<1> DEFINE m2 == 2 * m
           s == m * b + r
<1>5. m2 \in Nat \ {0} /\ s \in 0 .. m2 - 1 /\ n = m2 * e + s
  BY <1>3, <1>4
<1> HIDE DEF m2, s
<1>6. n % m2 = s
  BY <1>2, <1>5, RemainderIsUnique
<1>7. n % (2 * m) = n % m2
  BY DEF m2
<1>8. s = m * ((n \div m) % 2) + (n % m)
  BY DEF s, b, d, r
<1>9. QED
  BY <1>6, <1>7, <1>8

\* A multiple of twice 2^k does not change bit k.
LEMMA BitOfSum ==
  ASSUME NEW m \in Nat \ {0}, NEW n \in Int, NEW t \in Int
  PROVE  ((n + m * (2 * t)) \div m) % 2 = (n \div m) % 2
<1> DEFINE d == n \div m
           r == n % m
           a == n + m * (2 * t)
           c == d + 2 * t
<1>1. n = m * d + r /\ d \in Int /\ r \in 0 .. m - 1
  OBVIOUS
<1> HIDE DEF d, r
<1>2. a = m * c + r /\ c \in Int
  <2>1. m * (d + 2 * t) = m * d + m * (2 * t) /\ m * (2 * t) \in Int /\ m * d \in Int
    BY <1>1
  <2>2. QED
    BY <1>1, <2>1
<1> HIDE DEF a
<1>3. a \div m = c
  BY <1>1, <1>2, RemainderIsUnique
<1>4. c % 2 = d % 2
  BY <1>1
<1>5. QED
  BY <1>3, <1>4 DEF a, d

(***************************************************************************)
(* A word and its set of bits determine each other.                         *)
(***************************************************************************)

\* Words with the same bits are the same.
LEMMA BitsDetermineWord ==
  ASSUME NEW v \in Word, NEW w \in Word, BitsOf[v] = BitsOf[w]
  PROVE  v = w
<1> DEFINE T == {k \in 0 .. WordBits : v % 2^k = w % 2^k}
<1>1. WordBits \in Nat /\ v \in Int /\ w \in Int /\ Half \in Nat \ {0}
  BY WordBitsAssumption, HalfFacts DEF Word
<1>2. 0 \in T
  <2>1. v % 1 = 0 /\ w % 1 = 0
    BY <1>1
  <2>2. QED
    BY <1>1, <2>1, PowersOfTwo
<1>3. ASSUME NEW k \in 0 .. WordBits - 1, k \in T PROVE k + 1 \in T
  <2> DEFINE m == 2^k
  <2>1. k \in Bit /\ k \in 0 .. WordBits /\ k + 1 \in 0 .. WordBits
    BY <1>1 DEF Bit
  <2>2. m \in Nat \ {0} /\ 2^(k + 1) = 2 * m /\ v % m = w % m
    BY <1>1, <1>3, <2>1, PowersArePositive, PowersOfTwo
  <2>3. (v \div m) % 2 = 1 <=> (w \div m) % 2 = 1
    BY <2>1 DEF BitsOf
  <2> HIDE DEF m
  <2> DEFINE c == v \div m
             d == w \div m
  <2>4. c \in Int /\ d \in Int /\ (c % 2 = 1 <=> d % 2 = 1)
    BY <1>1, <2>2, <2>3
  <2>5. v % (2 * m) = m * (c % 2) + (v % m) /\ w % (2 * m) = m * (d % 2) + (w % m)
    BY <1>1, <2>2, RemainderOfDouble
  <2> HIDE DEF c, d
  <2>6. c % 2 = d % 2
    BY <2>4
  <2>7. v % (2 * m) = w % (2 * m)
    <3>1. m * (c % 2) + (v % m) = m * (d % 2) + (w % m)
      BY <2>2, <2>6
    <3>2. QED
      BY <2>5, <3>1
  <2>8. QED
    BY <2>1, <2>2, <2>7
<1>4. \A k \in 0 .. WordBits : k \in T
  <2> HIDE DEF T
  <2>1. QED
    BY <1>1, <1>2, <1>3, UpTo
<1>5. v % (2 * Half) = w % (2 * Half)
  BY <1>1, <1>4, HalfFacts
<1> DEFINE n == 2 * Half
<1>6. n \in Nat \ {0} /\ -n < v - w /\ v - w < n
  BY <1>1 DEF Word
<1>7. Same(n, v, w)
  BY <1>1, <1>5, <1>6, SameIff
<1>8. PICK q \in Int : v - w = n * q
  BY <1>7 DEF Same, Divides
<1> HIDE DEF n
<1>9. q = 0
  <2>1. \A i \in Nat \ {0} : n * i >= n
    BY <1>6
  <2>2. q \notin Nat \ {0}
    BY <1>1, <1>6, <1>8, <2>1
  <2>3. n * (-q) = -(n * q)
    BY <1>6
  <2>4. -q \notin Nat \ {0}
    BY <1>1, <1>6, <1>8, <2>1, <2>3
  <2>5. QED
    BY <2>2, <2>4
<1>10. v - w = 0
  BY <1>6, <1>8, <1>9
<1>11. QED
  BY <1>1, <1>10

\* Every set of k bits is that of a number of k bits.
LEMMA NumberWithBits ==
  ASSUME NEW k \in 0 .. WordBits, NEW S \in SUBSET (0 .. k - 1)
  PROVE  \E n \in 0 .. 2^k - 1 : \A j \in 0 .. k - 1 : j \in S <=> (n \div 2^j) % 2 = 1
<1> DEFINE T == {i \in 0 .. k : \E n \in 0 .. 2^i - 1 :
                   \A j \in 0 .. i - 1 : j \in S <=> (n \div 2^j) % 2 = 1}
<1>1. WordBits \in Nat /\ k \in Nat
  BY WordBitsAssumption
<1>2. 0 \in T
  <2>1. 0 \in 0 .. 2^0 - 1 /\ 0 .. 0 - 1 = {} /\ 0 \in 0 .. k
    BY <1>1, PowersOfTwo
  <2>2. QED
    BY <2>1
<1>3. ASSUME NEW i \in 0 .. k - 1, i \in T PROVE i + 1 \in T
  <2>1. PICK n \in 0 .. 2^i - 1 : \A j \in 0 .. i - 1 : j \in S <=> (n \div 2^j) % 2 = 1
    BY <1>3
  <2> DEFINE m == 2^i
             b == IF i \in S THEN 1 ELSE 0
             a == n + m * b
  <2>2. i \in 0 .. WordBits /\ i + 1 \in 0 .. k /\ i \in 0 .. WordBits + 1
    BY <1>1
  <2>3. m \in Nat \ {0} /\ 2^(i + 1) = 2 * m
    BY <2>2, PowersArePositive, PowersOfTwo
  <2>4. n \in 0 .. m - 1 /\ b \in 0 .. 1
    OBVIOUS
  <2>5. a \in 0 .. 2^(i + 1) - 1 /\ a = m * b + n
    <3>1. a = n \/ a = n + m
      <4> HIDE DEF m
      <4>1. QED
        BY <2>3, <2>4
    <3> HIDE DEF m
    <3>2. QED
      BY <2>3, <2>4, <3>1
  <2>6. a \div m = b
    <3> HIDE DEF m, a, b
    <3>1. b \in Int
      BY <2>4
    <3>2. QED
      BY <2>3, <2>4, <2>5, <3>1, RemainderIsUnique
  <2>7. ASSUME NEW j \in 0 .. i PROVE j \in S <=> (a \div 2^j) % 2 = 1
    <3>1. CASE j = i
      <4>1. (a \div 2^j) % 2 = b % 2
        BY <2>6, <3>1
      <4>2. b % 2 = b
        BY <2>4
      <4> HIDE DEF a
      <4>3. QED
        BY <3>1, <4>1, <4>2
    <3>2. CASE j # i
      <4>1. j \in 0 .. i - 1 /\ j \in 0 .. WordBits /\ j \in 0 .. WordBits + 1 /\ j < i
        BY <2>2, <3>2, <1>1
      <4>2. PICK t \in Int : m = 2^j * (2 * t)
        BY <2>2, <4>1, PowersDivide
      <4> DEFINE l == 2^j
      <4>3. l \in Nat \ {0} /\ m = l * (2 * t)
        BY <4>1, <4>2, PowersArePositive
      <4> HIDE DEF l, m
      <4>4. a = n + l * (2 * (t * b)) /\ t * b \in Int /\ n \in Int
        <5>1. \A e, f, g \in Int : (e * (2 * f)) * g = e * (2 * (f * g))
          OBVIOUS
        <5>2. b \in Int /\ l \in Int
          BY <2>4, <4>3
        <5> HIDE DEF b
        <5>3. QED
          BY <2>4, <4>3, <5>1, <5>2
      <4> HIDE DEF a, b
      <4>5. (a \div l) % 2 = (n \div l) % 2
        BY <4>3, <4>4, BitOfSum
      <4>6. QED
        BY <2>1, <4>1, <4>5 DEF l
    <3>3. QED
      BY <3>1, <3>2
  <2>8. 0 .. (i + 1) - 1 = 0 .. i
    BY <1>1
  <2> HIDE DEF a
  <2>9. QED
    BY <2>2, <2>5, <2>7, <2>8
<1>4. \A i \in 0 .. k : i \in T
  <2> HIDE DEF T
  <2>1. QED
    BY <1>1, <1>2, <1>3, UpTo
<1>5. k \in T
  <2>1. k \in 0 .. k
    BY <1>1
  <2> HIDE DEF T
  <2>2. QED
    BY <1>4, <2>1
<1>6. QED
  BY <1>5

\* Every set of bits is a word's.
THEOREM TwosComplement == {BitsOf[w] : w \in Word} = SUBSET Bit
<1>1. \A w \in Word : BitsOf[w] \in SUBSET Bit
  BY DEF BitsOf
<1>2. ASSUME NEW S \in SUBSET Bit PROVE \E w \in Word : BitsOf[w] = S
  <2> DEFINE h == 2 * Half
  <2>1. WordBits \in Nat /\ WordBits \in 0 .. WordBits /\ Half \in Nat \ {0} /\ 2^WordBits = h
    BY WordBitsAssumption, HalfFacts
  <2>2. PICK n \in 0 .. h - 1 : \A j \in Bit : j \in S <=> (n \div 2^j) % 2 = 1
    <3>1. S \in SUBSET (0 .. WordBits - 1) /\ Bit = 0 .. WordBits - 1
      BY DEF Bit
    <3>2. \E n \in 0 .. 2^WordBits - 1 :
            \A j \in 0 .. WordBits - 1 : j \in S <=> (n \div 2^j) % 2 = 1
      BY <2>1, <3>1, NumberWithBits
    <3>3. QED
      BY <2>1, <3>1, <3>2
  <2> DEFINE w == IF n < Half THEN n ELSE n - h
  <2>3. w \in Word
    BY <2>1 DEF Word
  <2>4. ASSUME NEW j \in Bit PROVE (w \div 2^j) % 2 = (n \div 2^j) % 2
    <3>1. CASE n < Half
      BY <3>1
    <3>2. CASE ~(n < Half)
      <4>1. j \in 0 .. WordBits /\ j \in 0 .. WordBits + 1 /\ j < WordBits
        BY <2>1 DEF Bit
      <4>2. PICK t \in Int : h = 2^j * (2 * t)
        BY <2>1, <4>1, PowersDivide
      <4> DEFINE l == 2^j
      <4>3. l \in Nat \ {0} /\ h = l * (2 * t)
        BY <4>1, <4>2, PowersArePositive
      <4>4. w = n - h
        BY <3>2
      <4> HIDE DEF l, h, w
      <4>5. w = n + l * (2 * (-t)) /\ -t \in Int /\ n \in Int
        <5>1. \A e, f \in Int : -(e * (2 * f)) = e * (2 * (-f))
          OBVIOUS
        <5>2. l \in Int /\ h \in Int /\ n \in Int
          BY <2>1, <4>3 DEF h
        <5>3. QED
          BY <4>3, <4>4, <5>1, <5>2
      <4>6. (w \div l) % 2 = (n \div l) % 2
        BY <4>3, <4>5, BitOfSum
      <4>7. QED
        BY <4>6 DEF l
    <3>3. QED
      BY <3>1, <3>2
  <2> HIDE DEF w
  <2>5. BitsOf[w] = S
    BY <2>2, <2>3, <2>4 DEF BitsOf
  <2>6. QED
    BY <2>3, <2>5
<1>3. QED
  BY <1>1, <1>2

(***************************************************************************)
(* The bitwise operators, as the kernels use them.                          *)
(***************************************************************************)
LEMMA WordOfBits == \A w \in Word : WordWith(BitsOf[w]) = w
<1> SUFFICES ASSUME NEW w \in Word PROVE WordWith(BitsOf[w]) = w
  OBVIOUS
<1>1. \E v \in Word : BitsOf[v] = BitsOf[w]
  OBVIOUS
<1>2. WordWith(BitsOf[w]) \in Word /\ BitsOf[WordWith(BitsOf[w])] = BitsOf[w]
  BY <1>1 DEF WordWith
<1>3. QED
  BY <1>2, BitsDetermineWord

\* The last bit of a word says whether it is odd.
LEMMA LastBit ==
  \A w \in Word : Half > 1 =>
    BitAnd(w, 1) = IF w % 2 = 1 THEN 1 ELSE 0
<1> SUFFICES ASSUME NEW w \in Word, Half > 1
             PROVE  BitAnd(w, 1) = IF w % 2 = 1 THEN 1 ELSE 0
  OBVIOUS
<1>1. WordBits \in Nat \ {0} /\ Half \in Nat \ {0} /\ w \in Int /\ 0 \in Word /\ 1 \in Word
  BY WordBitsAssumption, HalfFacts DEF Word
<1>2. 0 \in Bit /\ 2^0 = 1
  BY <1>1, PowersOfTwo DEF Bit
<1>3. 0 \in BitsOf[w] <=> w % 2 = 1
  <2>1. w \div 1 = w
    BY <1>1
  <2>2. QED
    BY <1>2, <2>1 DEF BitsOf
<1>4. ASSUME NEW j \in Bit PROVE 2^j \in Nat \ {0} /\ (j # 0 => 2^j > 1)
  <2>1. j \in 0 .. WordBits /\ 0 \in 0 .. WordBits /\ j \in 0 .. WordBits + 1
    BY <1>1 DEF Bit
  <2>2. 2^j \in Nat \ {0}
    BY <2>1, PowersArePositive
  <2>3. CASE j # 0
    <3>1. 0 < j
      BY <2>1, <2>3
    <3>2. PICK t \in Int : 2^j = 2^0 * (2 * t)
      BY <2>1, <3>1, PowersDivide
    <3> DEFINE m == 2^j
    <3>3. m \in Nat \ {0} /\ m = 1 * (2 * t)
      BY <1>2, <2>2, <3>2
    <3> HIDE DEF m
    <3>4. m > 1
      BY <3>3
    <3>5. QED
      BY <2>2, <3>4 DEF m
  <2>4. QED
    BY <2>2, <2>3
<1>5. BitsOf[1] = {0}
  <2>1. ASSUME NEW j \in Bit PROVE (1 \div 2^j) % 2 = 1 <=> j = 0
    <3>1. CASE j = 0
      <4>1. 1 \div 1 = 1 /\ 1 % 2 = 1
        OBVIOUS
      <4>2. QED
        BY <1>2, <3>1, <4>1
    <3>2. CASE j # 0
      <4> DEFINE m == 2^j
      <4>1. m \in Nat \ {0} /\ m > 1
        BY <1>4, <3>2
      <4> HIDE DEF m
      <4>2. 1 = m * 0 + 1 /\ 1 \in 0 .. m - 1 /\ 0 \in Int
        BY <4>1
      <4>3. 1 \div m = 0
        BY <4>1, <4>2, RemainderIsUnique
      <4>4. QED
        BY <3>2, <4>3 DEF m
    <3>3. QED
      BY <3>1, <3>2
  <2>2. QED
    BY <1>1, <1>2, <2>1 DEF BitsOf
<1>6. BitsOf[0] = {}
  <2>1. ASSUME NEW j \in Bit PROVE (0 \div 2^j) % 2 # 1
    <3> DEFINE m == 2^j
    <3>1. m \in Nat \ {0}
      BY <1>4
    <3> HIDE DEF m
    <3>2. 0 \div m = 0
      BY <3>1
    <3>3. QED
      BY <3>2 DEF m
  <2>2. QED
    BY <1>1, <2>1 DEF BitsOf
<1>7. CASE w % 2 = 1
  <2>1. BitsOf[w] \cap BitsOf[1] = BitsOf[1]
    BY <1>3, <1>5, <1>7
  <2>2. QED
    BY <1>1, <1>7, <2>1, WordOfBits DEF BitAnd
<1>8. CASE w % 2 # 1
  <2>1. BitsOf[w] \cap BitsOf[1] = BitsOf[0]
    BY <1>3, <1>5, <1>6, <1>8
  <2>2. QED
    BY <1>1, <1>8, <2>1, WordOfBits DEF BitAnd
<1>9. QED
  BY <1>7, <1>8

\* All ones takes up every word, and no two words that are not negative make it.
LEMMA OrOfAllOnes ==
  \A a, b \in Word :
    /\ a = -1 \/ b = -1 => BitOr(a, b) = -1
    /\ a >= 0 /\ b >= 0 => BitOr(a, b) # -1
    /\ BitOr(a, a) = a
<1> SUFFICES ASSUME NEW a \in Word, NEW b \in Word
             PROVE  /\ a = -1 \/ b = -1 => BitOr(a, b) = -1
                    /\ a >= 0 /\ b >= 0 => BitOr(a, b) # -1
                    /\ BitOr(a, a) = a
  OBVIOUS
<1>1. WordBits \in Nat \ {0} /\ Half \in Nat \ {0} /\ a \in Int /\ b \in Int /\ -1 \in Word
  BY WordBitsAssumption, HalfFacts DEF Word
<1>2. BitsOf[a] \in SUBSET Bit /\ BitsOf[b] \in SUBSET Bit
  BY TwosComplement
<1>3. BitsOf[-1] = Bit
  <2>1. ASSUME NEW j \in Bit PROVE ((-1) \div 2^j) % 2 = 1
    <3> DEFINE m == 2^j
    <3>1. m \in Nat \ {0}
      <4>1. j \in 0 .. WordBits + 1
        BY <1>1 DEF Bit
      <4>2. QED
        BY <4>1, PowersArePositive
    <3> HIDE DEF m
    <3>2. m * (-1) + (m - 1) = -1 /\ m - 1 \in 0 .. m - 1 /\ -1 \in Int
      BY <3>1
    <3>3. (-1) \div m = -1
      BY <3>1, <3>2, RemainderIsUnique
    <3>4. (-1) % 2 = 1
      <4>1. -1 = 2 * (-1) + 1 /\ 2 \in Nat \ {0} /\ 1 \in 0 .. 2 - 1 /\ -1 \in Int
        OBVIOUS
      <4>2. QED
        BY <4>1, RemainderIsUnique
    <3>5. QED
      BY <3>3, <3>4 DEF m
  <2>2. QED
    BY <1>1, <2>1 DEF BitsOf
<1>4. CASE a = -1 \/ b = -1
  <2>1. BitsOf[a] \cup BitsOf[b] = BitsOf[-1]
    BY <1>2, <1>3, <1>4
  <2>2. BitOr(a, b) = -1
    BY <1>1, <2>1, WordOfBits DEF BitOr
  <2>3. ~(a >= 0 /\ b >= 0)
    BY <1>1, <1>4
  <2>4. QED
    BY <2>2, <2>3, WordOfBits DEF BitOr
<1>5. CASE ~(a = -1 \/ b = -1)
  <2> DEFINE t == WordBits - 1
  <2>1. t \in Bit /\ 2^t = Half
    BY <1>1 DEF Bit, Half
  <2>2. ASSUME NEW w \in Word, w >= 0 PROVE t \notin BitsOf[w]
    <3>1. w = Half * 0 + w /\ w \in 0 .. Half - 1 /\ 0 \in Int
      BY <1>1, <2>2 DEF Word
    <3>2. w \div Half = 0
      BY <1>1, <3>1, RemainderIsUnique
    <3>3. 0 % 2 # 1
      OBVIOUS
    <3>4. QED
      BY <2>1, <3>2, <3>3 DEF BitsOf
  <2>3. ASSUME a >= 0, b >= 0 PROVE BitOr(a, b) # -1
    <3>1. BitsOf[a] \cup BitsOf[b] \in SUBSET Bit /\ BitsOf[a] \cup BitsOf[b] # Bit
      BY <1>2, <2>1, <2>2, <2>3
    <3>2. \E w \in Word : BitsOf[w] = BitsOf[a] \cup BitsOf[b]
      BY <3>1, TwosComplement
    <3>3. BitsOf[BitOr(a, b)] = BitsOf[a] \cup BitsOf[b]
      BY <3>2 DEF BitOr, WordWith
    <3>4. QED
      BY <1>3, <3>1, <3>3
  <2>4. BitsOf[a] \cup BitsOf[a] = BitsOf[a]
    OBVIOUS
  <2>5. QED
    BY <1>5, <2>3, <2>4, WordOfBits DEF BitOr
<1>6. QED
  BY <1>4, <1>5

(*****************************************************************************)
(* The Processor.                                                           *)
(*****************************************************************************)

\* Words are integers, and zero and minus one are words (processor.h:10).
LEMMA WordFacts == Word \subseteq Int /\ 0 \in Word /\ -1 \in Word
BY HalfFacts DEF Word

\* Truncation yields a word, whatever the exact result was.
LEMMA WrapIsWord == \A n \in Int : Wrap(n) \in Word
<1> SUFFICES ASSUME NEW n \in Int PROVE Wrap(n) \in Word
  OBVIOUS
<1> DEFINE m == 2 * Half
<1>1. m \in Nat \ {0} /\ Half \in Nat \ {0}
  BY HalfFacts
<1>2. (n + Half) % m \in 0 .. m - 1
  <2> HIDE DEF m
  <2> QED BY <1>1
<1>3. QED
  BY <1>1, <1>2 DEF Wrap, Word

\* Truncation changes no result that fits.
LEMMA WrapOfWord == \A n \in Word : Wrap(n) = n
<1> SUFFICES ASSUME NEW n \in Word PROVE Wrap(n) = n
  OBVIOUS
<1> DEFINE m == 2 * Half
           k == n + Half
<1>1. m \in Nat \ {0} /\ Half \in Nat \ {0} /\ k \in 0 .. m - 1 /\ n \in Int
  BY HalfFacts DEF Word
<1>2. k % m = k
  <2> HIDE DEF m, k
  <2> QED BY <1>1
<1>3. QED
  BY <1>1, <1>2 DEF Wrap

\* The quotient of two magnitudes is a magnitude.
LEMMA MagnitudeQuotient ==
  \A a, b \in Int :
    /\ Magnitude(a) \in Nat
    /\ b # 0 => Magnitude(b) \in Nat \ {0} /\ Magnitude(a) \div Magnitude(b) \in Nat
BY DEF Magnitude

\* The executors' sum, difference, product, quotient and remainder are words
\* (processor.cc:24-38, 138-158).
LEMMA ArithmeticIsWord ==
  \A a, b \in Word :
    /\ Add(a, b) \in Word /\ Sub(a, b) \in Word /\ Mul(a, b) \in Word
    /\ Quot(a, b) \in Word /\ Rem(a, b) \in Word
<1> SUFFICES ASSUME NEW a \in Word, NEW b \in Word
             PROVE  /\ Add(a, b) \in Word /\ Sub(a, b) \in Word /\ Mul(a, b) \in Word
                    /\ Quot(a, b) \in Word /\ Rem(a, b) \in Word
  OBVIOUS
<1>1. a \in Int /\ b \in Int
  BY WordFacts
<1>2. a + b \in Int /\ a - b \in Int /\ a * b \in Int
  BY <1>1
<1>3. Add(a, b) \in Word /\ Sub(a, b) \in Word /\ Mul(a, b) \in Word
  BY <1>2, WrapIsWord DEF Add, Sub, Mul
<1>4. Quot(a, b) \in Word
  <2>1. CASE b = 0
    BY <2>1, WordFacts DEF Quot
  <2>2. CASE b # 0
    <3>1. Magnitude(a) \div Magnitude(b) \in Nat
      BY <1>1, <2>2, MagnitudeQuotient
    <3>2. \A q \in Nat : q \in Int /\ -q \in Int
      OBVIOUS
    <3>3. QED
      BY <2>2, <3>1, <3>2, WrapIsWord DEF Quot
  <2>3. QED
    BY <2>1, <2>2
<1>5. a - b * Quot(a, b) \in Int
  <2>1. Quot(a, b) \in Int
    BY <1>4, WordFacts
  <2>2. \A q \in Int : a - b * q \in Int
    BY <1>1
  <2>3. QED
    BY <2>1, <2>2
<1>6. Rem(a, b) \in Word
  BY <1>5, WrapIsWord DEF Rem
<1>7. QED
  BY <1>3, <1>4, <1>6

\* Every set of bits is that of a word, so the bitwise executors leave words
\* (processor.cc:40-50, 62-64).
LEMMA WordWithIsWord == \A S \in SUBSET Bit : WordWith(S) \in Word /\ BitsOf[WordWith(S)] = S
<1> SUFFICES ASSUME NEW S \in SUBSET Bit
             PROVE  WordWith(S) \in Word /\ BitsOf[WordWith(S)] = S
  OBVIOUS
<1>1. \E w \in Word : BitsOf[w] = S
  BY TwosComplement
<1>2. QED
  BY <1>1 DEF WordWith

\* The bits of a word are bits.
LEMMA BitsOfType == \A w \in Word : BitsOf[w] \in SUBSET Bit
BY TwosComplement

\* The bitwise executors leave words.
LEMMA BitwiseIsWord ==
  \A a, b \in Word :
    /\ BitAnd(a, b) \in Word /\ BitOr(a, b) \in Word
    /\ BitXor(a, b) \in Word /\ BitNot(a) \in Word
BY BitsOfType, WordWithIsWord DEF BitAnd, BitOr, BitXor, BitNot

(***************************************************************************)
(* The remainder law of C++, for every width.  The provers know \div and %  *)
(* of simple terms only, and one nonlinear product at a time, so the        *)
(* arithmetic it rests on is stated fact by fact.                           *)
(***************************************************************************)

\* Division with remainder.
LEMMA DivMod ==
  \A n \in Int, m \in Nat \ {0} :
    /\ n = m * (n \div m) + (n % m)
    /\ n % m \in 0 .. m - 1
    /\ n \div m \in Int
OBVIOUS

\* The quotient of naturals is not larger than the dividend.
LEMMA DivBound == \A n \in Nat, m \in Nat \ {0} : n \div m \in 0 .. n
OBVIOUS

\* Integers are closed under products.
LEMMA ProductIsInt == \A a, b \in Int : a * b \in Int
OBVIOUS

\* A product with a negated factor.
LEMMA ProductOfNegated == \A a, b \in Int : a * (-b) = -(a * b)
OBVIOUS

\* A product with a difference.
LEMMA ProductOfDifference == \A a, b, c \in Int : a * (b - c) = a * b - a * c
OBVIOUS

\* A positive multiple of m is at least m.
LEMMA MultipleIsNotLess == \A m, k \in Nat \ {0} : m * k >= m
OBVIOUS

\* A multiple of m leaves no remainder.
LEMMA MultipleLeavesZero == \A m \in Nat \ {0}, q \in Int : (m * q) % m = 0
<1> SUFFICES ASSUME NEW m \in Nat \ {0}, NEW q \in Int
             PROVE  (m * q) % m = 0
  OBVIOUS
<1> DEFINE n == m * q
           d == n \div m
           r == n % m
<1>1. n \in Int
  OBVIOUS
<1>2. n = m * d + r /\ r \in 0 .. m - 1 /\ d \in Int
  <2> HIDE DEF n
  <2> QED BY <1>1, DivMod
<1> HIDE DEF d, r
<1>3. m * (q - d) = r /\ m * (d - q) = -r
  <2>1. m * (q - d) = m * q - m * d
    BY <1>2, ProductOfDifference
  <2>2. m * (d - q) = m * d - m * q
    BY <1>2, ProductOfDifference
  <2>3. QED
    BY <1>2, <2>1, <2>2
<1>4. ~ (q > d) /\ ~ (q < d)
  BY <1>2, <1>3, MultipleIsNotLess
<1>5. r = 0
  BY <1>2, <1>3, <1>4
<1>6. QED
  BY <1>5 DEF r

\* Division by a positive word truncates toward zero: what it leaves is smaller
\* than the divisor and is zero or has the sign of the dividend.
LEMMA QuotTruncates ==
  \A a, b \in Word : b > 0 =>
    /\ Quot(a, b) \in Int
    /\ -b < a - b * Quot(a, b) /\ a - b * Quot(a, b) < b
    /\ a >= 0 => a - b * Quot(a, b) >= 0
<1> SUFFICES ASSUME NEW a \in Word, NEW b \in Word, b > 0
             PROVE  \E q \in Int : /\ Quot(a, b) = q
                                   /\ -b < a - b * q /\ a - b * q < b
                                   /\ a >= 0 => a - b * q >= 0
  OBVIOUS
<1> DEFINE u == Magnitude(a)
           d == u \div b
           r == u % b
<1>1. a \in Int /\ b \in Nat \ {0}
  BY WordFacts
<1>2. u \in Nat /\ Magnitude(b) = b /\ (a >= 0 => u = a) /\ (a < 0 => u = -a)
  BY <1>1 DEF Magnitude
<1>3. u = b * d + r /\ r \in 0 .. b - 1 /\ d \in 0 .. u
  <2> HIDE DEF u
  <2>1. u = b * d + r /\ r \in 0 .. b - 1
    BY <1>1, <1>2, DivMod
  <2>2. d \in 0 .. u
    BY <1>1, <1>2, DivBound
  <2>3. QED
    BY <2>1, <2>2
<1>4. CASE a >= 0
  <2>1. Quot(a, b) = Wrap(d)
    BY <1>1, <1>2, <1>4 DEF Quot
  <2> HIDE DEF u, d, r
  <2>2. d \in Word
    BY <1>2, <1>3, <1>4, HalfFacts DEF Word
  <2>3. a - b * d = r
    BY <1>1, <1>2, <1>3, <1>4, ProductIsInt
  <2>4. QED
    BY <2>1, <2>2, <2>3, <1>1, <1>3, <1>4, WrapOfWord
<1>5. CASE a < 0
  <2>1. Quot(a, b) = Wrap(-d)
    BY <1>1, <1>2, <1>5 DEF Quot
  <2> HIDE DEF u, d, r
  <2>2. -d \in Word
    BY <1>2, <1>3, <1>5, HalfFacts DEF Word
  <2>3. b * (-d) = -(b * d)
    BY <1>1, <1>3, ProductOfNegated
  <2>4. a - b * (-d) = -r
    BY <2>3, <1>1, <1>2, <1>3, <1>5, ProductIsInt
  <2>5. QED
    BY <2>1, <2>2, <2>4, <1>1, <1>3, <1>5, WrapOfWord
<1>6. QED
  BY <1>1, <1>4, <1>5

\* The remainder of a word by a positive word (processor.cc:139): congruent to
\* the dividend, smaller than the divisor, never negative on one that is not.
LEMMA RemLaw ==
  \A x, m \in Word : m > 0 =>
    /\ (x - Rem(x, m)) % m = 0
    /\ -m < Rem(x, m) /\ Rem(x, m) < m
    /\ x >= 0 => Rem(x, m) >= 0
<1> SUFFICES ASSUME NEW x \in Word, NEW m \in Word, m > 0
             PROVE  /\ (x - Rem(x, m)) % m = 0
                    /\ -m < Rem(x, m) /\ Rem(x, m) < m
                    /\ x >= 0 => Rem(x, m) >= 0
  OBVIOUS
<1> DEFINE q == Quot(x, m)
           r == x - m * q
<1>1. x \in Int /\ m \in Nat \ {0} /\ q \in Int
  BY WordFacts, QuotTruncates
<1>2. -m < r /\ r < m /\ (x >= 0 => r >= 0)
  BY QuotTruncates
<1> HIDE DEF q
<1>3. r \in Int /\ x - r = m * q
  BY <1>1, ProductIsInt
<1>4. Rem(x, m) = Wrap(r)
  BY DEF Rem, q
<1> HIDE DEF r
<1>5. r \in Word
  BY <1>1, <1>2, <1>3, HalfFacts DEF Word
<1>6. Rem(x, m) = r
  BY <1>4, <1>5, WrapOfWord
<1>7. (x - r) % m = 0
  BY <1>1, <1>3, MultipleLeavesZero
<1>8. QED
  BY <1>2, <1>6, <1>7

\* A word is its remainder, less twice Half if its sign bit is set.
LEMMA WordOfRemainder ==
  ASSUME NEW w \in Word
  PROVE  /\ (w \div Half) % 2 \in {0, 1}
         /\ w = (w % (2 * Half)) - (2 * Half) * ((w \div Half) % 2)
<1>1. Half \in Nat \ {0} /\ w \in Int
  BY HalfFacts, WordFacts
<1>2. CASE w >= 0
  <2>1. w \in 0 .. 2 * Half - 1 /\ w \in 0 .. Half - 1
    BY <1>1, <1>2 DEF Word
  <2>2. w % (2 * Half) = w
    BY <1>1, <2>1, ResidueIsItself
  <2>3. w = Half * 0 + w
    BY <1>1
  <2>4. (Half * 0 + w) \div Half = 0
    BY <1>1, <2>1, RemainderIsUnique
  <2>5. (w \div Half) % 2 = 0
    BY <2>3, <2>4
  <2>6. QED
    BY <1>1, <2>2, <2>5
<1>3. CASE w < 0
  <2> DEFINE n == 2 * Half
  <2>1. n \in Nat \ {0} /\ w + n \in 0 .. n - 1 /\ w + Half \in 0 .. Half - 1
    BY <1>1, <1>3 DEF Word
  <2>2. w = n * (-1) + (w + n)
    BY <1>1, <2>1
  <2> DEFINE q == -1
             r == w + n
  <2> HIDE DEF n
  <2>3. (n * q + r) % n = r
    <3>1. q \in Int /\ r \in 0 .. n - 1
      BY <2>1
    <3> HIDE DEF q, r
    <3>2. QED
      BY <2>1, <3>1, RemainderIsUnique
  <2>4. w % n = w + n
    BY <2>2, <2>3
  <2>5. w = Half * (-1) + (w + Half)
    BY <1>1
  <2>6. (Half * (-1) + (w + Half)) \div Half = -1
    BY <1>1, <2>1, RemainderIsUnique
  <2>7. (w \div Half) % 2 = 1
    BY <2>5, <2>6
  <2>8. w = (w % n) - n * ((w \div Half) % 2)
    BY <1>1, <2>1, <2>4, <2>7
  <2>9. QED
    BY <2>7, <2>8 DEF n
<1>4. QED
  BY <1>1, <1>2, <1>3

\* Words have the same sum when each bit is set in as many of the one pair as of the other.
LEMMA SumOfBits ==
  ASSUME NEW a \in Word, NEW b \in Word, NEW c \in Word, NEW d \in Word,
         BitsOf[a] \cup BitsOf[b] = BitsOf[c] \cup BitsOf[d],
         BitsOf[a] \cap BitsOf[b] = BitsOf[c] \cap BitsOf[d]
  PROVE  a + b = c + d
<1> DEFINE bit(w, k) == (w \div 2^k) % 2
           T == {k \in 0 .. WordBits : (a % 2^k) + (b % 2^k) = (c % 2^k) + (d % 2^k)}
<1>1. WordBits \in Nat \ {0} /\ a \in Int /\ b \in Int /\ c \in Int /\ d \in Int /\ Half \in Nat \ {0}
  BY WordBitsAssumption, HalfFacts, WordFacts
<1>2. ASSUME NEW k \in Bit
      PROVE  bit(a, k) + bit(b, k) = bit(c, k) + bit(d, k)
  <2>1. 2^k \in Nat \ {0}
    BY <1>1, PowersArePositive DEF Bit
  <2>2. ASSUME NEW w \in Word PROVE bit(w, k) \in {0, 1} /\ (k \in BitsOf[w] <=> bit(w, k) = 1)
    <3> DEFINE m == 2^k
    <3> HIDE DEF m
    <3>1. w \div m \in Int
      BY <2>1, WordFacts DEF m
    <3>2. QED
      BY <3>1 DEF BitsOf, m
  <2> HIDE DEF bit
  <2>3. QED
    BY <2>2
<1>3. 0 \in T
  <2>1. a % 1 = 0 /\ b % 1 = 0 /\ c % 1 = 0 /\ d % 1 = 0
    BY <1>1
  <2>2. QED
    BY <1>1, <2>1, PowersOfTwo
<1>4. ASSUME NEW k \in 0 .. WordBits - 1, k \in T PROVE k + 1 \in T
  <2> DEFINE m == 2^k
  <2>1. k \in Bit /\ k \in 0 .. WordBits /\ k + 1 \in 0 .. WordBits
    BY <1>1 DEF Bit
  <2>2. m \in Nat \ {0} /\ 2^(k + 1) = 2 * m
    BY <1>1, <2>1, PowersArePositive, PowersOfTwo
  <2>3. (a % m) + (b % m) = (c % m) + (d % m)
    BY <1>4
  <2>4. bit(a, k) + bit(b, k) = bit(c, k) + bit(d, k)
    BY <1>2, <2>1
  <2>5. ASSUME NEW w \in Int
        PROVE  w % (2 * m) = m * bit(w, k) + (w % m) /\ bit(w, k) \in Int /\ w % m \in Int
    <3> HIDE DEF m
    <3>1. w % (2 * m) = m * ((w \div m) % 2) + (w % m)
      BY <2>2, RemainderOfDouble
    <3>2. (w \div m) % 2 \in Int /\ w % m \in Int
      BY <2>2
    <3>3. QED
      BY <3>1, <3>2 DEF m
  <2> DEFINE a1 == bit(a, k)  b1 == bit(b, k)  c1 == bit(c, k)  d1 == bit(d, k)
             a0 == a % m      b0 == b % m      c0 == c % m      d0 == d % m
  <2>6. /\ a % (2 * m) = m * a1 + a0 /\ b % (2 * m) = m * b1 + b0
        /\ c % (2 * m) = m * c1 + c0 /\ d % (2 * m) = m * d1 + d0
        /\ a1 \in Int /\ b1 \in Int /\ c1 \in Int /\ d1 \in Int
        /\ a0 \in Int /\ b0 \in Int /\ c0 \in Int /\ d0 \in Int
    BY <1>1, <2>5
  <2>7. a1 + b1 = c1 + d1 /\ a0 + b0 = c0 + d0
    BY <2>3, <2>4
  <2> HIDE DEF a1, b1, c1, d1, a0, b0, c0, d0, m
  <2>8. (m * a1 + a0) + (m * b1 + b0) = (m * c1 + c0) + (m * d1 + d0)
    <3>1. m * (a1 + b1) = m * a1 + m * b1 /\ m * (c1 + d1) = m * c1 + m * d1
      BY <2>2, <2>6
    <3>2. m * a1 \in Int /\ m * b1 \in Int /\ m * c1 \in Int /\ m * d1 \in Int
      BY <2>2, <2>6
    <3>3. m * a1 + m * b1 = m * c1 + m * d1
      BY <2>7, <3>1
    <3> DEFINE a2 == m * a1  b2 == m * b1  c2 == m * c1  d2 == m * d1
    <3>4. a2 \in Int /\ b2 \in Int /\ c2 \in Int /\ d2 \in Int /\ a2 + b2 = c2 + d2
      BY <3>2, <3>3
    <3> HIDE DEF a2, b2, c2, d2
    <3>5. (a2 + a0) + (b2 + b0) = (c2 + c0) + (d2 + d0)
      BY <2>6, <2>7, <3>4
    <3>6. QED
      BY <3>5 DEF a2, b2, c2, d2
  <2>9. (a % (2 * m)) + (b % (2 * m)) = (c % (2 * m)) + (d % (2 * m))
    BY <2>6, <2>8
  <2>10. QED
    BY <2>1, <2>2, <2>9 DEF m
<1>5. \A k \in 0 .. WordBits : k \in T
  <2> HIDE DEF T
  <2>1. QED
    BY <1>1, <1>3, <1>4, UpTo
<1>6. (a % (2 * Half)) + (b % (2 * Half)) = (c % (2 * Half)) + (d % (2 * Half))
  BY <1>1, <1>5, HalfFacts
<1>7. ((a \div Half) % 2) + ((b \div Half) % 2) = ((c \div Half) % 2) + ((d \div Half) % 2)
  <2>1. WordBits - 1 \in Bit
    BY <1>1 DEF Bit
  <2>2. /\ bit(a, WordBits - 1) = (a \div Half) % 2
        /\ bit(b, WordBits - 1) = (b \div Half) % 2
        /\ bit(c, WordBits - 1) = (c \div Half) % 2
        /\ bit(d, WordBits - 1) = (d \div Half) % 2
    BY DEF Half
  <2> HIDE DEF bit
  <2>3. QED
    BY <1>2, <2>1, <2>2
<1>8. QED
  <2> DEFINE n == 2 * Half
             a0 == a % n  b0 == b % n  c0 == c % n  d0 == d % n
             a1 == (a \div Half) % 2  b1 == (b \div Half) % 2
             c1 == (c \div Half) % 2  d1 == (d \div Half) % 2
  <2>1. n \in Nat \ {0}
    BY <1>1
  <2>2. /\ a = a0 - n * a1 /\ a1 \in {0, 1}
        /\ b = b0 - n * b1 /\ b1 \in {0, 1}
        /\ c = c0 - n * c1 /\ c1 \in {0, 1}
        /\ d = d0 - n * d1 /\ d1 \in {0, 1}
    BY WordOfRemainder
  <2>3. a0 + b0 = c0 + d0 /\ a1 + b1 = c1 + d1
    BY <1>6, <1>7
  <2> HIDE DEF n
  <2>4. a0 \in Int /\ b0 \in Int /\ c0 \in Int /\ d0 \in Int
    BY <1>1, <2>1
  <2> HIDE DEF a0, b0, c0, d0, a1, b1, c1, d1
  <2>5. QED
    BY <2>1, <2>2, <2>3, <2>4

\* The bitwise operators in exact arithmetic.
LEMMA BitwiseSums ==
  ASSUME NEW a \in Word, NEW b \in Word
  PROVE  /\ BitAnd(a, b) + BitOr(a, b) = a + b
         /\ BitXor(a, b) = BitOr(a, b) - BitAnd(a, b)
         /\ BitNot(a) = -a - 1
<1> DEFINE X == BitsOf[a]
           Y == BitsOf[b]
<1>1. X \in SUBSET Bit /\ Y \in SUBSET Bit
  BY BitsOfType
<1>2. /\ BitAnd(a, b) \in Word /\ BitsOf[BitAnd(a, b)] = X \cap Y
      /\ BitOr(a, b) \in Word /\ BitsOf[BitOr(a, b)] = X \cup Y
      /\ BitXor(a, b) \in Word /\ BitsOf[BitXor(a, b)] = (X \cup Y) \ (X \cap Y)
      /\ BitNot(a) \in Word /\ BitsOf[BitNot(a)] = Bit \ X
  <2>1. X \cap Y \in SUBSET Bit /\ X \cup Y \in SUBSET Bit
        /\ (X \cup Y) \ (X \cap Y) \in SUBSET Bit /\ Bit \ X \in SUBSET Bit
    BY <1>1
  <2>2. QED
    BY <2>1, WordWithIsWord DEF BitAnd, BitOr, BitXor, BitNot
<1>3. 0 \in Word /\ BitsOf[0] = {} /\ -1 \in Word /\ BitsOf[-1] = Bit
  <2>1. ASSUME NEW k \in Bit PROVE (0 \div 2^k) % 2 = 0 /\ ((-1) \div 2^k) % 2 = 1
    <3> DEFINE m == 2^k
    <3>1. m \in Nat \ {0}
      BY WordBitsAssumption, PowersArePositive DEF Bit
    <3> HIDE DEF m
    <3>2. 0 = m * 0 + 0 /\ 0 \in 0 .. m - 1 /\ -1 = m * (-1) + (m - 1) /\ m - 1 \in 0 .. m - 1
      BY <3>1
    <3>3. (m * 0 + 0) \div m = 0 /\ (m * (-1) + (m - 1)) \div m = -1
      BY <3>1, <3>2, RemainderIsUnique
    <3>4. 0 \div m = 0 /\ (-1) \div m = -1
      BY <3>2, <3>3
    <3>5. (0 \div m) % 2 = 0 /\ ((-1) \div m) % 2 = 1
      BY <3>4
    <3>6. QED
      BY <3>5 DEF m
  <2>2. 0 \in Word /\ -1 \in Word
    BY WordFacts
  <2>3. QED
    BY <2>1, <2>2 DEF BitsOf
<1>4. BitAnd(a, b) + BitOr(a, b) = a + b
  <2>1. (X \cap Y) \cup (X \cup Y) = X \cup Y /\ (X \cap Y) \cap (X \cup Y) = X \cap Y
    OBVIOUS
  <2>2. QED
    BY <1>2, <2>1, SumOfBits
<1>5. BitXor(a, b) + BitAnd(a, b) = BitOr(a, b) + 0
  <2> DEFINE O == BitsOf[BitOr(a, b)]
             Z == BitsOf[0]
             E == BitsOf[BitXor(a, b)]
             N == BitsOf[BitAnd(a, b)]
  <2>1. E \cup N = O \cup Z /\ E \cap N = O \cap Z
    BY <1>2, <1>3
  <2>2. QED
    BY <1>2, <1>3, <2>1, SumOfBits
<1>6. BitNot(a) + a = -1 + 0
  <2>1. BitsOf[BitNot(a)] \cup X = BitsOf[-1] \cup BitsOf[0]
        /\ BitsOf[BitNot(a)] \cap X = BitsOf[-1] \cap BitsOf[0]
    BY <1>1, <1>2, <1>3
  <2>2. a \in Word /\ BitNot(a) \in Word /\ -1 \in Word /\ 0 \in Word
    BY <1>2, <1>3
  <2> DEFINE n == -1
             m == BitNot(a)
  <2> HIDE DEF X, n, m
  <2>3. m + a = n + 0
    BY <2>1, <2>2, SumOfBits DEF X, n, m
  <2>4. QED
    BY <2>3 DEF n, m
<1>7. a \in Int /\ BitAnd(a, b) \in Int /\ BitOr(a, b) \in Int /\ BitXor(a, b) \in Int /\ BitNot(a) \in Int
  BY <1>2, WordFacts
<1>8. QED
  BY <1>4, <1>5, <1>6, <1>7

\* Truncation keeps a number modulo the number of words.
LEMMA WrapIsCongruent == \A n \in Int : (Wrap(n) - n) % (2 * Half) = 0
<1> SUFFICES ASSUME NEW n \in Int PROVE (Wrap(n) - n) % (2 * Half) = 0
  OBVIOUS
<1> DEFINE m == 2 * Half
           q == (n + Half) \div m
           r == (n + Half) % m
<1>1. m \in Nat \ {0} /\ Half \in Nat
  BY HalfFacts
<1>2. n + Half = m * q + r /\ q \in Int /\ r \in Int
  <2> HIDE DEF m
  <2> QED BY <1>1, DivMod
<1>3. Wrap(n) - n = r - Half - n
  BY DEF Wrap
<1> HIDE DEF m, q, r
<1>4. m * (-q) = -(m * q) /\ m * q \in Int
  BY <1>1, <1>2
<1>5. Wrap(n) - n = m * (-q) /\ -q \in Int
  BY <1>1, <1>2, <1>3, <1>4
<1>6. QED
  BY <1>1, <1>5, MultipleLeavesZero DEF m

\* Division truncates toward zero, whatever the signs: what it leaves is smaller than the
\* divisor in magnitude and zero or of the sign of the dividend.
LEMMA DivisionTruncates ==
  ASSUME NEW a \in Word, NEW b \in Word, ~DivUndefined(a, b)
  PROVE  LET r == a - b * Quot(a, b) IN Magnitude(r) < Magnitude(b) /\ r * a >= 0
<1> DEFINE u == Magnitude(a)
           v == Magnitude(b)
           d == u \div v
           e == u % v
           s == IF (a < 0) # (b < 0) THEN -d ELSE d
<1>1. a \in Int /\ b \in Int /\ b # 0 /\ ~(a = -Half /\ b = -1) /\ Half \in Nat \ {0}
  BY WordFacts, HalfFacts DEF DivUndefined
<1>2. /\ u \in Nat /\ v \in Nat \ {0} /\ u <= Half
      /\ u = IF a < 0 THEN -a ELSE a
      /\ v = IF b < 0 THEN -b ELSE b
  BY <1>1 DEF Magnitude, Word
<1>3. u = v * d + e /\ e \in 0 .. v - 1 /\ d \in 0 .. u
  <2>0. u \in Int /\ u \in Nat /\ v \in Nat \ {0}
    BY <1>2
  <2> HIDE DEF u, v
  <2>1. u = v * (u \div v) + (u % v) /\ u % v \in 0 .. v - 1
    BY <2>0, DivMod
  <2>2. u \div v \in 0 .. u
    BY <2>0, DivBound
  <2>3. QED
    BY <2>1, <2>2
<1>4. Quot(a, b) = Wrap(s)
  BY <1>1 DEF Quot
<1> HIDE DEF u, v, d, e
<1>5. s \in Word
  <2>1. d \in Nat /\ d <= Half /\ u = v * d + e /\ e >= 0 /\ e \in Int
    BY <1>1, <1>2, <1>3
  <2>2. CASE d < Half
    BY <1>1, <2>1, <2>2 DEF Word
  <2>3. CASE d = Half
    <3>1. v = 1
      <4>1. ASSUME v >= 2 PROVE FALSE
        <5>1. v * Half >= 2 * Half
          BY <1>1, <1>2, <4>1
        <5>2. v * Half <= Half
          BY <1>1, <1>2, <2>1, <2>3
        <5>3. QED
          BY <1>1, <1>2, <5>1, <5>2, ProductIsInt
      <4>2. QED
        BY <1>2, <4>1
    <3>2. u = Half
      BY <1>1, <1>2, <2>1, <2>3
    <3>3. a = -Half /\ (b = 1 \/ b = -1)
      BY <1>1, <1>2, <3>1, <3>2 DEF Word
    <3>4. (a < 0) # (b < 0)
      BY <1>1, <3>3
    <3>5. QED
      BY <1>1, <2>1, <2>3, <3>4 DEF Word
  <2>4. QED
    BY <1>1, <2>1, <2>2, <2>3
<1>6. Quot(a, b) = s
  BY <1>4, <1>5, WrapOfWord
<1>7. a - b * s = IF a < 0 THEN -e ELSE e
  <2>1. v * d \in Int /\ d \in Int /\ e \in Int
    BY <1>2, <1>3
  <2>2. b * s = IF a < 0 THEN -(v * d) ELSE v * d
    <3>1. CASE b < 0
      <4>1. b = -v
        BY <1>1, <1>2, <3>1
      <4>2. (-v) * d = -(v * d) /\ (-v) * (-d) = v * d
        BY <1>2, <2>1
      <4>3. QED
        BY <3>1, <4>1, <4>2
    <3>2. CASE ~(b < 0)
      <4>1. b = v
        BY <1>1, <1>2, <3>2
      <4>2. v * (-d) = -(v * d)
        BY <1>2, <2>1
      <4>3. QED
        BY <3>2, <4>1, <4>2
    <3>3. QED
      BY <3>1, <3>2
  <2>3. QED
    BY <1>1, <1>2, <1>3, <2>1, <2>2
<1> DEFINE r == a - b * Quot(a, b)
<1>8. r = IF a < 0 THEN -e ELSE e
  BY <1>6, <1>7
<1>9. Magnitude(b) = v /\ Magnitude(r) = e
  <2>1. e \in Nat
    BY <1>2, <1>3
  <2>2. QED
    BY <1>8, <2>1 DEF Magnitude, v
<1> HIDE DEF r
<1>10. r * a >= 0
  <2>1. e \in Nat
    BY <1>2, <1>3
  <2>2. CASE a < 0
    <3>1. r = -e /\ -a \in Nat
      BY <1>1, <1>8, <2>2
    <3>2. (-e) * a = e * (-a) /\ e * (-a) >= 0
      BY <1>1, <2>1, <3>1
    <3>3. QED
      BY <3>1, <3>2
  <2>3. CASE ~(a < 0)
    <3>1. r = e /\ a \in Nat
      BY <1>1, <1>8, <2>3
    <3>2. e * a >= 0
      BY <2>1, <3>1
    <3>3. QED
      BY <3>1, <3>2
  <2>4. QED
    BY <2>2, <2>3
<1>11. e < v
  BY <1>2, <1>3
<1>12. QED
  BY <1>9, <1>10, <1>11 DEF r

(***************************************************************************)
(* The Processor.                                                           *)
(***************************************************************************)

\* A program that a 32-bit pc_ can address, end included.
Addressable(q) == q \in Program /\ Len(q) < PcModulus

\* A nonempty set of numbers below n has a largest one.
LEMMA LargestExists ==
  ASSUME NEW n \in Nat, NEW S \in SUBSET (0 .. n), S # {}
  PROVE  \E j \in S : \A k \in S : k <= j
<1> DEFINE T == {n - j : j \in S}
<1>1. T \subseteq Nat /\ T # {}
  <2>1. \A j \in S : j \in 0 .. n /\ n - j \in Nat
    OBVIOUS
  <2>2. T \subseteq Nat
    BY <2>1
  <2>3. PICK j \in S : TRUE
    OBVIOUS
  <2>4. n - j \in T
    BY <2>3
  <2>5. QED
    BY <2>2, <2>4
<1>2. IsWellFoundedOn(OpToRel(<, Nat), Nat)
  BY NatLessThanWellFounded
<1>3. PICK t \in T : \A y \in T : ~(<<y, t>> \in OpToRel(<, Nat))
  BY <1>1, <1>2, WFMin
<1>4. \A y \in T : ~(y < t)
  BY <1>1, <1>3 DEF OpToRel
<1>5. PICK j \in S : t = n - j
  OBVIOUS
<1>6. \A k \in S : k <= j
  <2>1. SUFFICES ASSUME NEW k \in S PROVE k <= j
    OBVIOUS
  <2>2. ~(n - k < n - j)
    BY <1>4, <1>5
  <2>3. QED
    BY <2>2
<1>7. QED
  BY <1>6

\* LastAt is the place of an instruction that carries the label, and no later
\* one does.
LEMMA LastAtFacts ==
  ASSUME NEW q \in Program, NEW l \in LabelsOf(q)
  PROVE  /\ LastAt(q, l) \in 0 .. Len(q) - 1
         /\ q[LastAt(q, l) + 1].label = l
         /\ \A k \in LastAt(q, l) + 2 .. Len(q) : q[k].label # l
<1> DEFINE S == {j \in 0 .. Len(q) - 1 : q[j + 1].label = l}
<1>1. Len(q) \in Nat
  BY DEF Program
<1>2. PICK i \in 1 .. Len(q) : q[i].label = l
  BY DEF LabelsOf
<1>3. i - 1 \in S
  BY <1>1, <1>2
<1>4. PICK j \in S : \A k \in S : k <= j
  <2>1. S \subseteq 0 .. Len(q) - 1
    OBVIOUS
  <2> HIDE DEF S
  <2>2. S \in SUBSET (0 .. Len(q)) /\ S # {}
    BY <1>1, <1>3, <2>1
  <2>3. QED
    BY <1>1, <2>2, LargestExists
<1>5. \A k \in j + 2 .. Len(q) : q[k].label # l
  <2>1. SUFFICES ASSUME NEW k \in j + 2 .. Len(q), q[k].label = l PROVE FALSE
    OBVIOUS
  <2>2. k - 1 \in S
    BY <1>1, <2>1
  <2>3. QED
    BY <1>4, <2>1, <2>2
<1>6. QED
  BY <1>4, <1>5 DEF LastAt

\* There is only one such place.
LEMMA LastIsOne ==
  ASSUME NEW q \in Program, NEW l \in LabelsOf(q), NEW j \in 0 .. Len(q) - 1,
         q[j + 1].label = l, \A k \in j + 2 .. Len(q) : q[k].label # l
  PROVE  LastAt(q, l) = j
<1> DEFINE i == LastAt(q, l)
<1>1. /\ i \in 0 .. Len(q) - 1 /\ q[i + 1].label = l
      /\ \A k \in i + 2 .. Len(q) : q[k].label # l
  BY LastAtFacts
<1> HIDE DEF i
<1>2. Len(q) \in Nat
  BY DEF Program
<1>3. ~(i < j)
  <2>1. i < j => j + 1 \in i + 2 .. Len(q)
    BY <1>1, <1>2
  <2>2. QED
    BY <1>1, <2>1
<1>4. ~(j < i)
  <2>1. j < i => i + 1 \in j + 2 .. Len(q)
    BY <1>1, <1>2
  <2>2. QED
    BY <1>1, <2>1
<1>5. i = j
  BY <1>1, <1>2, <1>3, <1>4
<1>6. QED
  BY <1>5 DEF i

(***************************************************************************)
(* The loop over the instructions that run_program begins with.             *)
(***************************************************************************)

\* labels_[l] = j
Entered(table, l, j) ==
  [m \in DOMAIN table \cup {l} |-> IF m = l THEN j ELSE table[m]]

\* tables[j] is labels_ when the loop comes to the instruction at j; the first
\* of them has the entries that are there.
IsPass(tables, q) ==
  /\ tables[0] = [l \in DOMAIN labels |-> labels[l]]
  /\ \A j \in 0 .. Len(q) - 1 :
       tables[j + 1] = IF q[j + 1].label = NoLabel THEN tables[j]
                       ELSE Entered(tables[j], q[j + 1].label, j)

\* The first instructions of a program.
LEMMA FirstFacts ==
  ASSUME NEW q \in Program, NEW n \in 0 .. Len(q)
  PROVE  /\ SubSeq(q, 1, n) \in Program /\ Len(SubSeq(q, 1, n)) = n
         /\ \A k \in 1 .. n : SubSeq(q, 1, n)[k] = q[k]
BY DEF Program

\* What the loop has done before an instruction and behind it.
LEMMA PassStep ==
  ASSUME NEW q \in Program, NEW j \in 0 .. Len(q) - 1
  PROVE  LabelPass(SubSeq(q, 1, j + 1)) =
           IF q[j + 1].label = NoLabel THEN LabelPass(SubSeq(q, 1, j))
           ELSE Entered(LabelPass(SubSeq(q, 1, j)), q[j + 1].label, j)
<1> DEFINE u == SubSeq(q, 1, j)
           w == SubSeq(q, 1, j + 1)
           l == q[j + 1].label
<1>0. Len(q) \in Nat /\ j \in 0 .. Len(q) /\ j + 1 \in 0 .. Len(q)
  BY DEF Program
<1>1. u \in Program /\ Len(u) = j /\ \A k \in 1 .. j : u[k] = q[k]
  BY <1>0, FirstFacts
<1>2. w \in Program /\ Len(w) = j + 1 /\ \A k \in 1 .. j + 1 : w[k] = q[k]
  BY <1>0, FirstFacts
<1>3. w[j + 1].label = l /\ \A k \in 1 .. j : w[k] = u[k]
  BY <1>0, <1>1, <1>2
<1> HIDE DEF u, w, l
<1>4. LabelsOf(w) = LabelsOf(u) \cup ({l} \ {NoLabel})
  <2>1. {w[k].label : k \in 1 .. j + 1} = {u[k].label : k \in 1 .. j} \cup {l}
    <3>1. 1 .. j + 1 = 1 .. j \cup {j + 1}
      BY <1>0
    <3>2. QED
      BY <1>3, <3>1
  <2>2. QED
    BY <1>1, <1>2, <2>1 DEF LabelsOf
<1>5. l # NoLabel => LastAt(w, l) = j
  <2>1. SUFFICES ASSUME l # NoLabel PROVE LastAt(w, l) = j
    OBVIOUS
  <2>2. l \in LabelsOf(w) /\ j \in 0 .. Len(w) - 1 /\ \A k \in j + 2 .. Len(w) : FALSE
    BY <1>0, <1>2, <1>4, <2>1
  <2>3. QED
    BY <1>2, <1>3, <2>2, LastIsOne
<1>6. ASSUME NEW m \in LabelsOf(u), m # l
      PROVE  LastAt(w, m) = LastAt(u, m)
  <2> DEFINE i == LastAt(u, m)
  <2>1. i \in 0 .. j - 1 /\ u[i + 1].label = m /\ \A k \in i + 2 .. j : u[k].label # m
    BY <1>1, LastAtFacts
  <2> HIDE DEF i
  <2>2. m \in LabelsOf(w) /\ i \in 0 .. Len(w) - 1 /\ i + 1 \in 1 .. j
    BY <1>0, <1>2, <1>4, <2>1
  <2>3. w[i + 1].label = m
    BY <1>3, <2>1, <2>2
  <2>4. ASSUME NEW k \in i + 2 .. Len(w) PROVE w[k].label # m
    <3>1. CASE k = j + 1
      BY <1>3, <1>6, <3>1
    <3>2. CASE k # j + 1
      <4>1. k \in 1 .. j /\ k \in i + 2 .. j
        BY <1>0, <1>2, <2>1, <3>2
      <4>2. QED
        BY <1>3, <2>1, <4>1
    <3>3. QED
      BY <3>1, <3>2
  <2>5. LastAt(w, m) = i
    BY <1>2, <2>2, <2>3, <2>4, LastIsOne
  <2>6. QED
    BY <2>5 DEF i
<1>7. NoLabel \notin LabelsOf(u) /\ NoLabel \notin LabelsOf(w)
  BY DEF LabelsOf
<1>8. CASE l = NoLabel
  <2>1. LabelsOf(w) = LabelsOf(u) /\ \A m \in LabelsOf(u) : LastAt(w, m) = LastAt(u, m)
    BY <1>4, <1>6, <1>7, <1>8
  <2>2. LabelPass(w) = LabelPass(u)
    BY <2>1 DEF LabelPass
  <2>3. QED
    BY <1>8, <2>2 DEF u, w, l
<1>9. CASE l # NoLabel
  <2>1. LabelsOf(w) = LabelsOf(u) \cup {l}
    BY <1>4, <1>9
  <2>2. DOMAIN LabelPass(u) = DOMAIN labels \cup LabelsOf(u)
    BY DEF LabelPass
  <2>3. ASSUME NEW m \in DOMAIN labels \cup LabelsOf(w)
        PROVE  (IF m \in LabelsOf(w) THEN LastAt(w, m) ELSE labels[m])
                 = IF m = l THEN j ELSE LabelPass(u)[m]
    <3>1. CASE m = l
      BY <1>5, <1>9, <2>1, <3>1
    <3>2. CASE m # l
      <4>1. m \in LabelsOf(w) <=> m \in LabelsOf(u)
        BY <2>1, <3>2
      <4>2. LabelPass(u)[m] = IF m \in LabelsOf(u) THEN LastAt(u, m) ELSE labels[m]
        BY <4>1 DEF LabelPass
      <4>3. QED
        BY <1>6, <3>2, <4>1, <4>2
    <3>3. QED
      BY <3>1, <3>2
  <2>4. LabelPass(w) = Entered(LabelPass(u), l, j)
    BY <2>1, <2>2, <2>3 DEF Entered, LabelPass
  <2>5. QED
    BY <1>9, <2>4 DEF u, w, l
<1>10. QED
  BY <1>8, <1>9

\* The label pass of the model is the loop of the code, which enters each label
\* over what is there (processor.cc:189-196): whatever earlier programs left in
\* labels_, run_program begins with a table that has for each label of the
\* program the place of the last instruction that carries it, and every other
\* entry as it was.
THEOREM LabelPassFindsLast ==
  ASSUME NEW q \in Program, RunProgram(q)
  PROVE  /\ \E tables : IsPass(tables, q)
         /\ \A tables : IsPass(tables, q) => labels' = tables[Len(q)]
         /\ DOMAIN labels' = DOMAIN labels \cup LabelsOf(q)
         /\ \A l \in LabelsOf(q) :
              /\ labels'[l] \in 0 .. Len(q) - 1
              /\ q[labels'[l] + 1].label = l
              /\ \A k \in labels'[l] + 2 .. Len(q) : q[k].label # l
         /\ \A l \in DOMAIN labels \ LabelsOf(q) : labels'[l] = labels[l]
<1> DEFINE before(j) == LabelPass(SubSeq(q, 1, j))
<1>1. labels' = LabelPass(q) /\ Len(q) \in Nat
  BY DEF RunProgram, Program
<1>2. before(0) = [l \in DOMAIN labels |-> labels[l]]
  <2>1. LabelsOf(SubSeq(q, 1, 0)) = {}
    <3>1. Len(SubSeq(q, 1, 0)) = 0
      BY <1>1, FirstFacts
    <3>2. QED
      BY <3>1 DEF LabelsOf
  <2>2. QED
    BY <2>1 DEF LabelPass
<1>3. before(Len(q)) = LabelPass(q)
  <2>1. SubSeq(q, 1, Len(q)) = q
    BY <1>1 DEF Program
  <2>2. QED
    BY <2>1
<1>4. \A j \in 0 .. Len(q) - 1 :
        before(j + 1) = IF q[j + 1].label = NoLabel THEN before(j)
                        ELSE Entered(before(j), q[j + 1].label, j)
  BY PassStep
<1> HIDE DEF before
<1>5. \E tables : IsPass(tables, q)
  <2> DEFINE those == [j \in 0 .. Len(q) |-> before(j)]
  <2>1. \A j \in 0 .. Len(q) - 1 : those[j] = before(j) /\ those[j + 1] = before(j + 1)
    BY <1>1
  <2>2. those[0] = [l \in DOMAIN labels |-> labels[l]]
    BY <1>1, <1>2
  <2> HIDE DEF those
  <2>3. IsPass(those, q)
    BY <1>4, <2>1, <2>2 DEF IsPass
  <2>4. QED
    BY <2>3
<1>6. ASSUME NEW tables, IsPass(tables, q)
      PROVE  labels' = tables[Len(q)]
  <2> DEFINE S == {j \in 0 .. Len(q) : tables[j] = before(j)}
  <2>1. 0 \in S
    BY <1>1, <1>2, <1>6 DEF IsPass
  <2>2. ASSUME NEW j \in 0 .. Len(q) - 1, j \in S PROVE j + 1 \in S
    <3>1. tables[j + 1] = before(j + 1)
      BY <1>4, <1>6, <2>2 DEF IsPass
    <3>2. QED
      BY <1>1, <3>1
  <2> HIDE DEF S
  <2>3. \A j \in 0 .. Len(q) : j \in S
    BY <1>1, <2>1, <2>2, UpTo
  <2>4. Len(q) \in S
    BY <1>1, <2>3
  <2>5. QED
    BY <1>1, <1>3, <2>4 DEF S
<1>7. DOMAIN labels' = DOMAIN labels \cup LabelsOf(q)
  BY <1>1 DEF LabelPass
<1>8. \A l \in LabelsOf(q) : labels'[l] = LastAt(q, l)
  BY <1>1 DEF LabelPass
<1>9. \A l \in DOMAIN labels \ LabelsOf(q) : labels'[l] = labels[l]
  BY <1>1 DEF LabelPass
<1>10. QED
  BY <1>5, <1>6, <1>7, <1>8, <1>9, LastAtFacts

\* A program's labels are the strings its label pass maps, to places a pc can hold.
LEMMA LabelPassFacts ==
  ASSUME NEW q, Addressable(q)
  PROVE  \A l \in LabelsOf(q) : l \in STRING /\ LastAt(q, l) \in Pc
<1>1. q \in Program /\ Len(q) \in Nat /\ Len(q) < PcModulus /\ PcModulus \in Nat
  BY PcAssumption DEF Addressable, Program
<1>2. \A j \in 1 .. Len(q) : q[j].label \in STRING
  <2>1. \A j \in 1 .. Len(q) : q[j] \in Instruction
    BY <1>1 DEF Program
  <2>2. QED
    BY <2>1 DEF Instruction
<1>3. \A l \in LabelsOf(q) : l \in STRING
  BY <1>2 DEF LabelsOf
<1>4. \A l \in LabelsOf(q) : LastAt(q, l) \in Pc
  BY <1>1, LastAtFacts DEF Pc
<1>5. QED
  BY <1>3, <1>4

\* Reading any member of an operand gives a value of the member's type, set or
\* not (isa.proto:40-47).
LEMMA OperandFacts ==
  \A o \in Operand :
    AddrOf(o) \in Addr /\ RegOf(o) \in Reg /\ ValueOf(o) \in Word /\ LabelOf(o) \in STRING
<1>1. 0 \in Addr /\ 0 \in Reg /\ 0 \in Word /\ NoLabel \in STRING
  <2>1. NoLabel \in STRING
    BY NoLabelAssumption
  <2>2. 0 \in Addr /\ 0 \in Reg
    BY SizeAssumption DEF Addr, Reg
  <2>3. QED
    BY <2>1, <2>2, WordFacts
<1>2. ASSUME NEW o \in Operand, o # Unset
      PROVE  AddrOf(o) \in Addr /\ RegOf(o) \in Reg /\ ValueOf(o) \in Word /\ LabelOf(o) \in STRING
  BY <1>1, <1>2 DEF Operand, AddrOf, RegOf, ValueOf, LabelOf
<1>3. AddrOf(Unset) = 0 /\ RegOf(Unset) = 0 /\ ValueOf(Unset) = 0 /\ LabelOf(Unset) = NoLabel
  BY DEF Unset, AddrOf, RegOf, ValueOf, LabelOf
<1>4. QED
  BY <1>1, <1>2, <1>3

\* What Executable says of the operands the executors read.
LEMMA ExecutableFacts ==
  ASSUME NEW i \in Instruction, Executable(i)
  PROVE  /\ i.inputs[1] \in Operand
         /\ i.op \in {"ADD", "SUB", "MUL", "DIV", "AND", "OR", "XOR", "BEQ",
                      "ADDP", "SUBP", "MULP"} => i.inputs[2] \in Operand
         /\ \/ i.outputs[1] \in Operand
            \/ i.op \in {"LDP", "RET"}
            \/ i.op = "BEQ" /\ In(i, 1) # In(i, 2)
<1>1. i.inputs \in Seq(Operand) /\ i.outputs \in Seq(Operand)
  BY DEF Instruction
<1>2. \A s \in Seq(Operand) : s # <<>> => s[1] \in Operand
  OBVIOUS
<1>3. \A s \in Seq(Operand) : Len(s) >= 2 => s[2] \in Operand
  OBVIOUS
<1>4. QED
  BY <1>1, <1>2, <1>3 DEF Executable

\* labels_[l] gives a pc, and changes no entry that is there (processor.cc:99, 126).
LEMMA LookupFacts ==
  ASSUME ProcessorTypeOK, NEW l \in STRING, Lookup(l)
  PROVE  /\ pc' \in Pc
         /\ DOMAIN labels' = DOMAIN labels \cup {l}
         /\ \A k \in DOMAIN labels : labels'[k] = labels[k]
         /\ \A k \in DOMAIN labels' : labels'[k] \in Pc
         /\ l \notin DOMAIN labels => labels'[l] = 0
<1>1. 0 \in Pc
  BY PcAssumption DEF Pc
<1>2. QED
  BY <1>1 DEF Lookup, Target, ProcessorTypeOK

\* A step that puts a word in a register and advances keeps every type.
LEMMA WriteRegTyped ==
  ASSUME ProcessorTypeOK, pc + 1 \in Pc,
         NEW i, i.outputs[1] \in Operand, NEW v \in Word, WriteReg(i, v)
  PROVE  ProcessorTypeOK'
<1>1. RegOf(i.outputs[1]) \in Reg
  BY OperandFacts
<1>2. regs' \in [Reg -> Word]
  BY <1>1 DEF WriteReg, ProcessorTypeOK
<1>3. QED
  BY <1>2 DEF WriteReg, Advance, ProcessorTypeOK

\* What an executor reads is a word.
LEMMA InIsWord ==
  ASSUME ProcessorTypeOK, NEW i, NEW k, i.inputs[k] \in Operand
  PROVE  In(i, k) \in Word
BY OperandFacts DEF In, ProcessorTypeOK

\* The executors with two register operands, plain or in the prime field
\* (processor.cc:14-50, 138-158).
BinaryExecutor(i) ==
  \/ Exec_ADD(i) \/ Exec_SUB(i) \/ Exec_MUL(i) \/ Exec_DIV(i)
  \/ Exec_AND(i) \/ Exec_OR(i) \/ Exec_XOR(i)
  \/ Exec_ADDP(i) \/ Exec_SUBP(i) \/ Exec_MULP(i)

\* They keep every type.
LEMMA BinaryTyped ==
  ASSUME ProcessorTypeOK, pc + 1 \in Pc,
         NEW i \in Instruction, Executable(i), BinaryExecutor(i)
  PROVE  ProcessorTypeOK'
<1>1. i.op \in {"ADD", "SUB", "MUL", "DIV", "AND", "OR", "XOR", "ADDP", "SUBP", "MULP"}
  BY DEF BinaryExecutor, Exec_ADD, Exec_SUB, Exec_MUL, Exec_DIV, Exec_AND, Exec_OR,
         Exec_XOR, Exec_ADDP, Exec_SUBP, Exec_MULP
<1>2. i.inputs[1] \in Operand /\ i.inputs[2] \in Operand /\ i.outputs[1] \in Operand
  BY <1>1, ExecutableFacts
<1>3. In(i, 1) \in Word /\ In(i, 2) \in Word /\ p \in Word
  BY <1>2, InIsWord DEF ProcessorTypeOK
<1>4. \E v \in Word : WriteReg(i, v)
  BY <1>3, ArithmeticIsWord, BitwiseIsWord
     DEF BinaryExecutor, Exec_ADD, Exec_SUB, Exec_MUL, Exec_DIV, Exec_AND, Exec_OR,
         Exec_XOR, Exec_ADDP, Exec_SUBP, Exec_MULP
<1>5. QED
  BY <1>2, <1>4, WriteRegTyped

\* The executors that have one input and put a word in a register keep every
\* type (processor.cc:52-82).
LEMMA UnaryTyped ==
  ASSUME ProcessorTypeOK, pc + 1 \in Pc,
         NEW i \in Instruction, Executable(i),
         Exec_NOT(i) \/ Exec_SET(i) \/ Exec_LD(i)
  PROVE  ProcessorTypeOK'
<1>1. i.inputs[1] \in Operand /\ i.outputs[1] \in Operand
  BY ExecutableFacts DEF Exec_NOT, Exec_SET, Exec_LD
<1>2. In(i, 1) \in Word
  BY <1>1, InIsWord
<1>3. ValueOf(i.inputs[1]) \in Word /\ sram[AddrOf(i.inputs[1])] \in Word
  BY <1>1, OperandFacts DEF ProcessorTypeOK
<1>4. \E v \in Word : WriteReg(i, v)
  BY <1>2, <1>3, BitwiseIsWord DEF Exec_NOT, Exec_SET, Exec_LD
<1>5. QED
  BY <1>1, <1>4, WriteRegTyped

\* LDP and ST keep every type (processor.cc:5-12, 84-91).
LEMMA MemoryTyped ==
  ASSUME ProcessorTypeOK, pc + 1 \in Pc,
         NEW i \in Instruction, Executable(i), Exec_LDP(i) \/ Exec_ST(i)
  PROVE  ProcessorTypeOK'
<1>1. i.inputs[1] \in Operand
  BY ExecutableFacts
<1>2. CASE Exec_LDP(i)
  BY <1>1, <1>2, OperandFacts DEF Exec_LDP, Advance, ProcessorTypeOK
<1>3. CASE Exec_ST(i)
  <2>1. i.outputs[1] \in Operand
    BY <1>3, ExecutableFacts DEF Exec_ST
  <2>2. AddrOf(i.outputs[1]) \in Addr /\ In(i, 1) \in Word
    BY <1>1, <2>1, OperandFacts, InIsWord
  <2>3. sram' \in [Addr -> Word]
    BY <1>3, <2>2 DEF Exec_ST, ProcessorTypeOK
  <2>4. QED
    BY <1>3, <2>3 DEF Exec_ST, Advance, ProcessorTypeOK
<1>4. QED
  BY <1>2, <1>3

\* The jumps keep every type: a pc is a word, and what next_pc returns is
\* truncated to a pc (processor.cc:93-136).
LEMMA ControlTyped ==
  ASSUME ProcessorTypeOK, pc + 1 \in Pc,
         NEW i \in Instruction, Executable(i), Exec_JAL(i) \/ Exec_RET(i) \/ Exec_BEQ(i)
  PROVE  ProcessorTypeOK'
<1>1. i.inputs[1] \in Operand
  BY ExecutableFacts
<1>2. CASE Exec_JAL(i)
  <2>1. i.outputs[1] \in Operand
    BY <1>2, ExecutableFacts DEF Exec_JAL
  <2>2. LabelOf(i.inputs[1]) \in STRING /\ RegOf(i.outputs[1]) \in Reg
    BY <1>1, <2>1, OperandFacts
  <2>3. pc \in Word
    BY HalfFacts, PcAssumption DEF ProcessorTypeOK, Pc, Word
  <2>4. regs' \in [Reg -> Word]
    BY <1>2, <2>2, <2>3 DEF Exec_JAL, ProcessorTypeOK
  <2>5. QED
    BY <1>2, <2>2, <2>4, LookupFacts DEF Exec_JAL, ProcessorTypeOK
<1>3. CASE Exec_RET(i)
  <2>1. Add(In(i, 1), 1) \in Int
    <3>1. In(i, 1) \in Int
      BY <1>1, InIsWord, WordFacts
    <3>2. In(i, 1) + 1 \in Int
      BY <3>1
    <3>3. QED
      BY <3>2, WrapIsWord, WordFacts DEF Add
  <2>2. \A n \in Int, m \in Nat \ {0} : n % m \in 0 .. m - 1
    OBVIOUS
  <2>3. pc' \in Pc
    BY <1>3, <2>1, <2>2, PcAssumption DEF Exec_RET, Pc
  <2>4. QED
    BY <1>3, <2>3 DEF Exec_RET, ProcessorTypeOK
<1>4. CASE Exec_BEQ(i) /\ In(i, 1) = In(i, 2)
  <2>1. i.outputs[1] \in Operand
    BY <1>4, ExecutableFacts DEF Exec_BEQ
  <2>2. LabelOf(i.outputs[1]) \in STRING
    BY <2>1, OperandFacts
  <2>3. QED
    BY <1>4, <2>2, LookupFacts DEF Exec_BEQ, ProcessorTypeOK
<1>5. CASE Exec_BEQ(i) /\ In(i, 1) # In(i, 2)
  BY <1>5 DEF Exec_BEQ, Advance, ProcessorTypeOK
<1>6. QED
  BY <1>2, <1>3, <1>4, <1>5

\* Every executor keeps every type.
LEMMA ExecuteTyped ==
  ASSUME ProcessorTypeOK, pc + 1 \in Pc, NEW i \in Instruction, Executable(i), Execute(i)
  PROVE  ProcessorTypeOK'
<1>1. \/ BinaryExecutor(i)
      \/ Exec_NOT(i) \/ Exec_SET(i) \/ Exec_LD(i)
      \/ Exec_LDP(i) \/ Exec_ST(i)
      \/ Exec_JAL(i) \/ Exec_RET(i) \/ Exec_BEQ(i)
  BY DEF Execute, BinaryExecutor
<1>2. QED
  BY <1>1, BinaryTyped, UnaryTyped, MemoryTyped, ControlTyped

\* The instruction being executed is one of the program's, and the next one's
\* place is a pc.
LEMMA FetchFacts ==
  ASSUME ProcessorTypeOK, NEW q, Addressable(q), Running(q)
  PROVE  Fetch(q) \in Instruction /\ pc + 1 \in Pc
<1>1. Len(q) \in Nat /\ Len(q) < PcModulus /\ PcModulus \in Nat /\ pc \in Nat /\ pc < Len(q)
  BY PcAssumption DEF Addressable, Program, ProcessorTypeOK, Pc, Running
<1>2. pc + 1 \in 1 .. Len(q) /\ pc + 1 \in Pc
  BY <1>1 DEF Pc
<1>3. QED
  BY <1>2 DEF Fetch, Addressable, Program

\* run_program, from its entry to its return, keeps every type, for every
\* program that pc_ can address (processor.cc:187-203).
LEMMA RunTyped ==
  ASSUME ProcessorTypeOK, NEW q, Addressable(q),
         RunProgram(q) \/ Step(q) \/ Trap(q) \/ Finish(q)
  PROVE  ProcessorTypeOK'
<1>1. CASE RunProgram(q)
  <2>1. 0 \in Pc
    BY PcAssumption DEF Pc
  <2>2. /\ DOMAIN labels' \subseteq STRING
        /\ \A l \in DOMAIN labels' : labels'[l] \in Pc
    BY <1>1, LabelPassFacts DEF RunProgram, LabelPass, ProcessorTypeOK
  <2>3. QED
    BY <1>1, <2>1, <2>2 DEF RunProgram, ProcessorTypeOK, Status
<1>2. CASE Step(q)
  BY <1>2, FetchFacts, ExecuteTyped DEF Step
<1>3. CASE Trap(q)
  BY <1>3 DEF Trap, Crash, ProcessorTypeOK, Status
<1>4. CASE Finish(q)
  BY <1>4 DEF Finish, ProcessorTypeOK, Status
<1>5. QED
  BY <1>1, <1>2, <1>3, <1>4

\* The opcode decides which executor runs; only the two jumps look a label up.
LEMMA ExecuteByOp ==
  ASSUME NEW i, Execute(i)
  PROVE  /\ i.op = "JAL" => Exec_JAL(i)
         /\ i.op = "BEQ" => Exec_BEQ(i)
         /\ i.op \notin {"JAL", "BEQ"} => labels' = labels
         /\ status' = status
BY DEF Execute, Exec_LDP, Exec_SET, Exec_LD, Exec_ST, Exec_ADD, Exec_SUB, Exec_MUL,
       Exec_DIV, Exec_AND, Exec_OR, Exec_XOR, Exec_NOT, Exec_JAL, Exec_RET, Exec_BEQ,
       Exec_ADDP, Exec_SUBP, Exec_MULP, WriteReg

\* No executor changes an entry of labels_, and what it adds is 0
\* (processor.cc:99, 126).
LEMMA ExecuteKeepsLabels ==
  ASSUME NEW i, Execute(i)
  PROVE  /\ \A k \in DOMAIN labels : k \in DOMAIN labels' /\ labels'[k] = labels[k]
         /\ \A k \in DOMAIN labels' : k \in DOMAIN labels \/ labels'[k] = 0
<1>1. labels' = labels \/ \E l : Lookup(l)
  BY ExecuteByOp DEF Exec_JAL, Exec_BEQ
<1>2. CASE labels' = labels
  BY <1>2
<1>3. CASE \E l : Lookup(l)
  BY <1>3 DEF Lookup, Target
<1>4. QED
  BY <1>1, <1>2, <1>3

(***************************************************************************)
(* The instructions as the generators write them.                           *)
(***************************************************************************)

\* An operand of each kind is one.
LEMMA OperandIsTyped ==
  /\ \A r \in Reg : R(r) \in Operand
  /\ \A a \in Addr : A(a) \in Operand
  /\ \A v \in Word : V(v) \in Operand
  /\ \A l \in STRING : L(l) \in Operand
BY DEF R, A, V, L, Operand

\* What a generator's call adds is an instruction.
LEMMA InstrIsTyped ==
  ASSUME NEW op \in Opcode, NEW ins \in Seq(Operand), NEW outs \in Seq(Operand)
  PROVE  /\ Instr(op, ins, outs) \in Instruction
         /\ \A l \in STRING : At(l, Instr(op, ins, outs)) \in Instruction
BY NoLabelAssumption DEF Instr, At, Instruction

\* The operand lists that the generators make.
LEMMA ShortSequences ==
  /\ <<>> \in Seq(Operand)
  /\ \A o \in Operand : <<o>> \in Seq(Operand)
  /\ \A o1, o2 \in Operand : <<o1, o2>> \in Seq(Operand)
OBVIOUS

\* What each generator makes of typed arguments is an Instruction, labelled or not
\* (InstrGenerator, instr.h).
LEMMA GeneratedIsTyped ==
  ASSUME NEW m \in STRING
  PROVE  /\ \A r, s \in Reg, l \in STRING :
              BranchEq(r, s, l) \in Instruction /\ At(m, BranchEq(r, s, l)) \in Instruction
         /\ \A op \in Opcode, r, s, d \in Reg :
              Op2(op, r, s, d) \in Instruction /\ At(m, Op2(op, r, s, d)) \in Instruction
         /\ \A v \in Word, d \in Reg : Set(v, d) \in Instruction /\ At(m, Set(v, d)) \in Instruction
         /\ \A a \in Addr, d \in Reg : Load(a, d) \in Instruction /\ At(m, Load(a, d)) \in Instruction
         /\ \A a \in Addr, r \in Reg : Store(r, a) \in Instruction /\ At(m, Store(r, a)) \in Instruction
         /\ \A a \in Addr : LoadPrime(a) \in Instruction /\ At(m, LoadPrime(a)) \in Instruction
         /\ \A l \in STRING, d \in Reg :
              JumpLink(l, d) \in Instruction /\ At(m, JumpLink(l, d)) \in Instruction
         /\ \A r \in Reg : Return(r) \in Instruction /\ At(m, Return(r)) \in Instruction
<1>1. "BEQ" \in Opcode /\ "SET" \in Opcode /\ "LD" \in Opcode /\ "ST" \in Opcode
      /\ "LDP" \in Opcode /\ "JAL" \in Opcode /\ "RET" \in Opcode
  BY DEF Opcode
<1>2. \A r, s \in Reg, l \in STRING :
        BranchEq(r, s, l) \in Instruction /\ At(m, BranchEq(r, s, l)) \in Instruction
  BY <1>1, OperandIsTyped, ShortSequences, InstrIsTyped DEF BranchEq
<1>3. \A op \in Opcode, r, s, d \in Reg :
        Op2(op, r, s, d) \in Instruction /\ At(m, Op2(op, r, s, d)) \in Instruction
  BY <1>1, OperandIsTyped, ShortSequences, InstrIsTyped DEF Op2
<1>4. \A v \in Word, d \in Reg : Set(v, d) \in Instruction /\ At(m, Set(v, d)) \in Instruction
  BY <1>1, OperandIsTyped, ShortSequences, InstrIsTyped DEF Set
<1>5. \A a \in Addr, d \in Reg : Load(a, d) \in Instruction /\ At(m, Load(a, d)) \in Instruction
  BY <1>1, OperandIsTyped, ShortSequences, InstrIsTyped DEF Load
<1>6. \A a \in Addr, r \in Reg : Store(r, a) \in Instruction /\ At(m, Store(r, a)) \in Instruction
  BY <1>1, OperandIsTyped, ShortSequences, InstrIsTyped DEF Store
<1>7. \A a \in Addr : LoadPrime(a) \in Instruction /\ At(m, LoadPrime(a)) \in Instruction
  BY <1>1, OperandIsTyped, ShortSequences, InstrIsTyped DEF LoadPrime
<1>8. \A l \in STRING, d \in Reg :
        JumpLink(l, d) \in Instruction /\ At(m, JumpLink(l, d)) \in Instruction
  BY <1>1, OperandIsTyped, ShortSequences, InstrIsTyped DEF JumpLink
<1>9. \A r \in Reg : Return(r) \in Instruction /\ At(m, Return(r)) \in Instruction
  BY <1>1, OperandIsTyped, ShortSequences, InstrIsTyped DEF Return
<1>10. QED
  BY <1>2, <1>3, <1>4, <1>5, <1>6, <1>7, <1>8, <1>9

\* An instruction has the label it is given, or none.
LEMMA BranchUnlabelled == \A r, s, l : BranchEq(r, s, l).label = ""
BY DEF BranchEq, Instr, NoLabel

\* A two-operand instruction carries no label until one is put on it.
LEMMA Op2Unlabelled == \A op, r, s, d : Op2(op, r, s, d).label = ""
BY DEF Op2, Instr, NoLabel

\* A set carries no label until one is put on it.
LEMMA SetUnlabelled == \A v, d : Set(v, d).label = ""
BY DEF Set, Instr, NoLabel

\* A load carries no label until one is put on it.
LEMMA LoadUnlabelled == \A a, d : Load(a, d).label = ""
BY DEF Load, Instr, NoLabel

\* A store carries no label until one is put on it.
LEMMA StoreUnlabelled == \A r, a : Store(r, a).label = ""
BY DEF Store, Instr, NoLabel

\* A load of p_ carries no label until one is put on it.
LEMMA LoadPrimeUnlabelled == \A a : LoadPrime(a).label = ""
BY DEF LoadPrime, Instr, NoLabel

\* A jump carries no label until one is put on it.
LEMMA JumpUnlabelled == \A l, d : JumpLink(l, d).label = ""
BY DEF JumpLink, Instr, NoLabel

\* A return carries no label until one is put on it.
LEMMA ReturnUnlabelled == \A r : Return(r).label = ""
BY DEF Return, Instr, NoLabel

\* A branch carries the label that was put on it.
LEMMA BranchLabelled == \A m, r, s, l : At(m, BranchEq(r, s, l)).label = m
BY DEF BranchEq, Instr, At

\* A two-operand instruction carries the label that was put on it.
LEMMA Op2Labelled == \A m, op, r, s, d : At(m, Op2(op, r, s, d)).label = m
BY DEF Op2, Instr, At

\* A set carries the label that was put on it.
LEMMA SetLabelled == \A m, v, d : At(m, Set(v, d)).label = m
BY DEF Set, Instr, At

\* A load carries the label that was put on it.
LEMMA LoadLabelled == \A m, a, d : At(m, Load(a, d)).label = m
BY DEF Load, Instr, At

\* A store carries the label that was put on it.
LEMMA StoreLabelled == \A m, r, a : At(m, Store(r, a)).label = m
BY DEF Store, Instr, At

\* A load of p_ carries the label that was put on it.
LEMMA LoadPrimeLabelled == \A m, a : At(m, LoadPrime(a)).label = m
BY DEF LoadPrime, Instr, At

\* A jump carries the label that was put on it.
LEMMA JumpLabelled == \A m, l, d : At(m, JumpLink(l, d)).label = m
BY DEF JumpLink, Instr, At

\* A return carries the label that was put on it.
LEMMA ReturnLabelled == \A m, r : At(m, Return(r)).label = m
BY DEF Return, Instr, At

(***************************************************************************)
(* What each kind of instruction does, label or not.                        *)
(***************************************************************************)
Is(i, j) == i.op = j.op /\ i.inputs = j.inputs /\ i.outputs = j.outputs

\* The same operation and operands: an instruction is like itself, ...
LEMMA IsItself == \A i : Is(i, i)
BY DEF Is

\* ... and a label changes neither.
LEMMA AtIs ==
  /\ \A m, op, r, s, d : Is(At(m, Op2(op, r, s, d)), Op2(op, r, s, d))
  /\ \A m, r, s, l : Is(At(m, BranchEq(r, s, l)), BranchEq(r, s, l))
  /\ \A m, v, d : Is(At(m, Set(v, d)), Set(v, d))
  /\ \A m, a : Is(At(m, LoadPrime(a)), LoadPrime(a))
  /\ \A m, r, a : Is(At(m, Store(r, a)), Store(r, a))
  /\ \A m, r : Is(At(m, Return(r)), Return(r))
BY DEF At, Instr, Is, Op2, BranchEq, Set, LoadPrime, Store, Return

Wrote(d, v) == regs' = [regs EXCEPT ![d] = v] /\ pc' = pc + 1 /\ UNCHANGED <<sram, p, status>>

Branched(r, s, l) ==
  /\ pc' = IF regs[r] = regs[s] THEN Target(l) ELSE pc + 1
  /\ UNCHANGED <<sram, regs, p, status>>

\* What one step does to the members, by the instruction: the two-operand executors, ...
LEMMA Op2Effect ==
  ASSUME NEW op, NEW r, NEW s, NEW d, NEW i, Is(i, Op2(op, r, s, d)), Execute(i)
  PROVE  /\ op = "ADD" => Wrote(d, Add(regs[r], regs[s]))
         /\ op = "SUB" => Wrote(d, Sub(regs[r], regs[s]))
         /\ op = "MUL" => Wrote(d, Mul(regs[r], regs[s]))
         /\ op = "DIV" => Wrote(d, Quot(regs[r], regs[s]))
         /\ op = "AND" => Wrote(d, BitAnd(regs[r], regs[s]))
         /\ op = "OR" => Wrote(d, BitOr(regs[r], regs[s]))
         /\ op = "XOR" => Wrote(d, BitXor(regs[r], regs[s]))
         /\ op = "ADDP" => Wrote(d, Rem(Add(regs[r], regs[s]), p))
         /\ op = "SUBP" => Wrote(d, Rem(Sub(regs[r], regs[s]), p))
         /\ op = "MULP" => Wrote(d, Rem(Mul(regs[r], regs[s]), p))
<1>1. i.op = op /\ In(i, 1) = regs[r] /\ In(i, 2) = regs[s] /\ RegOf(i.outputs[1]) = d
  BY DEF Is, Op2, Instr, In, RegOf, R
<1>2. QED
  BY <1>1 DEF Execute, Exec_LDP, Exec_SET, Exec_LD, Exec_ST, Exec_ADD, Exec_SUB, Exec_MUL,
       Exec_DIV, Exec_AND, Exec_OR, Exec_XOR, Exec_NOT, Exec_JAL, Exec_RET, Exec_BEQ,
       Exec_ADDP, Exec_SUBP, Exec_MULP, WriteReg, Advance, Wrote

\* ... the complement, ...
LEMMA NotEffect ==
  ASSUME NEW r, NEW d, NEW i, i = Instr("NOT", <<R(r)>>, <<R(d)>>), Execute(i)
  PROVE  Wrote(d, BitNot(regs[r]))
<1>1. i.op = "NOT" /\ In(i, 1) = regs[r] /\ RegOf(i.outputs[1]) = d
  BY DEF Instr, In, RegOf, R
<1>2. QED
  BY <1>1 DEF Execute, Exec_LDP, Exec_SET, Exec_LD, Exec_ST, Exec_ADD, Exec_SUB, Exec_MUL,
       Exec_DIV, Exec_AND, Exec_OR, Exec_XOR, Exec_NOT, Exec_JAL, Exec_RET, Exec_BEQ,
       Exec_ADDP, Exec_SUBP, Exec_MULP, WriteReg, Advance, Wrote

\* ... those that write a register or p_ from memory or an immediate, ...
LEMMA LoadEffect ==
  ASSUME NEW a, NEW d, NEW v, NEW i, Execute(i)
  PROVE  /\ Is(i, Load(a, d)) => Wrote(d, sram[a])
         /\ Is(i, Set(v, d)) => Wrote(d, v)
         /\ Is(i, LoadPrime(a)) => p' = sram[a] /\ pc' = pc + 1 /\ UNCHANGED <<sram, regs, status>>
<1>1. CASE Is(i, Load(a, d))
  <2>1. i.op = "LD" /\ AddrOf(i.inputs[1]) = a /\ RegOf(i.outputs[1]) = d
    BY <1>1 DEF Is, Load, Instr, RegOf, R, AddrOf, A
  <2>2. Wrote(d, sram[a])
    BY <2>1 DEF Execute, Exec_LDP, Exec_SET, Exec_LD, Exec_ST, Exec_ADD, Exec_SUB, Exec_MUL,
       Exec_DIV, Exec_AND, Exec_OR, Exec_XOR, Exec_NOT, Exec_JAL, Exec_RET, Exec_BEQ,
       Exec_ADDP, Exec_SUBP, Exec_MULP, WriteReg, Advance, Wrote
  <2>3. QED
    BY <1>1, <2>2 DEF Is, Load, Set, LoadPrime, Instr
<1>2. CASE Is(i, Set(v, d))
  <2>1. i.op = "SET" /\ ValueOf(i.inputs[1]) = v /\ RegOf(i.outputs[1]) = d
    BY <1>2 DEF Is, Set, Instr, RegOf, R, ValueOf, V
  <2>2. Wrote(d, v)
    BY <2>1 DEF Execute, Exec_LDP, Exec_SET, Exec_LD, Exec_ST, Exec_ADD, Exec_SUB, Exec_MUL,
       Exec_DIV, Exec_AND, Exec_OR, Exec_XOR, Exec_NOT, Exec_JAL, Exec_RET, Exec_BEQ,
       Exec_ADDP, Exec_SUBP, Exec_MULP, WriteReg, Advance, Wrote
  <2>3. QED
    BY <1>2, <2>2 DEF Is, Load, Set, LoadPrime, Instr
<1>3. CASE Is(i, LoadPrime(a))
  <2>1. i.op = "LDP" /\ AddrOf(i.inputs[1]) = a
    BY <1>3 DEF Is, LoadPrime, Instr, AddrOf, A
  <2>2. p' = sram[a] /\ pc' = pc + 1 /\ UNCHANGED <<sram, regs, status>>
    BY <2>1 DEF Execute, Exec_LDP, Exec_SET, Exec_LD, Exec_ST, Exec_ADD, Exec_SUB, Exec_MUL,
       Exec_DIV, Exec_AND, Exec_OR, Exec_XOR, Exec_NOT, Exec_JAL, Exec_RET, Exec_BEQ,
       Exec_ADDP, Exec_SUBP, Exec_MULP, WriteReg, Advance
  <2>3. QED
    BY <1>3, <2>2 DEF Is, Load, Set, LoadPrime, Instr
<1>4. QED
  BY <1>1, <1>2, <1>3

\* ... the store, ...
LEMMA StoreEffect ==
  ASSUME NEW a, NEW r, NEW i, Execute(i), Is(i, Store(r, a))
  PROVE  /\ sram' = [sram EXCEPT ![a] = regs[r]]
         /\ pc' = pc + 1
         /\ UNCHANGED <<regs, p, status>>
<1>1. i.op = "ST" /\ AddrOf(i.outputs[1]) = a /\ In(i, 1) = regs[r]
  BY DEF Is, Store, Instr, RegOf, R, AddrOf, A, In
<1>2. QED
  BY <1>1 DEF Execute, Exec_LDP, Exec_SET, Exec_LD, Exec_ST, Exec_ADD, Exec_SUB, Exec_MUL,
       Exec_DIV, Exec_AND, Exec_OR, Exec_XOR, Exec_NOT, Exec_JAL, Exec_RET, Exec_BEQ,
       Exec_ADDP, Exec_SUBP, Exec_MULP, WriteReg, Advance

\* ... the conditional branch, ...
LEMMA BranchEffect ==
  ASSUME NEW r, NEW s, NEW l, NEW i, Execute(i), Is(i, BranchEq(r, s, l))
  PROVE  Branched(r, s, l)
<1>1. i.op = "BEQ" /\ LabelOf(i.outputs[1]) = l /\ In(i, 1) = regs[r] /\ In(i, 2) = regs[s]
  BY DEF Is, BranchEq, Instr, RegOf, R, LabelOf, L, In
<1>2. Exec_BEQ(i)
  BY <1>1, ExecuteByOp
<1>3. QED
  BY <1>1, <1>2 DEF Exec_BEQ, Lookup, Advance, Branched

\* ... the call of a subroutine, which leaves its own pc in the link register, ...
LEMMA JumpLinkEffect ==
  ASSUME NEW d, NEW l, NEW i, Execute(i), Is(i, JumpLink(l, d))
  PROVE  /\ regs' = [regs EXCEPT ![d] = pc]
         /\ pc' = Target(l)
         /\ UNCHANGED <<sram, p, status>>
<1>1. i.op = "JAL" /\ LabelOf(i.inputs[1]) = l /\ RegOf(i.outputs[1]) = d
  BY DEF Is, JumpLink, Instr, RegOf, R, LabelOf, L
<1>2. Exec_JAL(i)
  BY <1>1, ExecuteByOp
<1>3. QED
  BY <1>1, <1>2 DEF Exec_JAL, Lookup

\* ... and the return, to behind the pc that the link register holds.
LEMMA ReturnEffect ==
  ASSUME NEW r, NEW i, Execute(i), Is(i, Return(r))
  PROVE  /\ pc' = Add(regs[r], 1) % PcModulus
         /\ UNCHANGED <<sram, regs, p, status>>
<1>1. i.op = "RET" /\ In(i, 1) = regs[r]
  BY DEF Is, Return, Instr, RegOf, R, In
<1>2. QED
  BY <1>1 DEF Execute, Exec_LDP, Exec_SET, Exec_LD, Exec_ST, Exec_ADD, Exec_SUB, Exec_MUL,
       Exec_DIV, Exec_AND, Exec_OR, Exec_XOR, Exec_NOT, Exec_JAL, Exec_RET, Exec_BEQ,
       Exec_ADDP, Exec_SUBP, Exec_MULP, WriteReg, Advance

\* None of these instructions lacks an operand, and only a division or the
\* reduction of a field operation can trap (processor.cc:20, 97-101, 139-158).
LEMMA Op2Runs ==
  ASSUME NEW op, op \in {"ADD", "SUB", "MUL", "DIV", "AND", "OR", "XOR", "ADDP", "SUBP", "MULP"},
         NEW r, NEW s, NEW d, NEW i, Is(i, Op2(op, r, s, d))
  PROVE  /\ Executable(i)
         /\ DivideTraps(i) => \/ op = "DIV" /\ DivUndefined(regs[r], regs[s])
                              \/ op \in {"ADDP", "SUBP", "MULP"} /\ p \in {0, -1}
<1>1. i.op = op /\ i.inputs = <<R(r), R(s)>> /\ i.outputs = <<R(d)>>
  BY DEF Is, Op2, Instr
<1>2. In(i, 1) = regs[r] /\ In(i, 2) = regs[s]
  BY <1>1 DEF In, RegOf, R
<1>3. i.inputs # <<>> /\ i.outputs # <<>> /\ Len(i.inputs) = 2
  BY <1>1
<1>4. Executable(i)
  BY <1>1, <1>3 DEF Executable
<1>5. ASSUME DivideTraps(i)
      PROVE  \/ op = "DIV" /\ DivUndefined(regs[r], regs[s])
             \/ op \in {"ADDP", "SUBP", "MULP"} /\ p \in {0, -1}
  <2>1. \A v : DivUndefined(v, p) => p \in {0, -1}
    BY DEF DivUndefined
  <2>2. QED
    BY <1>1, <1>2, <1>5, <2>1 DEF DivideTraps
<1>6. QED
  BY <1>4, <1>5

Plain(i) ==
  \/ \E r, s, l : Is(i, BranchEq(r, s, l))
  \/ \E v, d : Is(i, Set(v, d))
  \/ \E a, d : Is(i, Load(a, d))
  \/ \E r, a : Is(i, Store(r, a))
  \/ \E a : Is(i, LoadPrime(a))
  \/ \E l, d : Is(i, JumpLink(l, d))
  \/ \E r : Is(i, Return(r))

\* Every other generated instruction has an executor and traps on nothing.
LEMMA OthersRun ==
  ASSUME NEW i, Plain(i)
  PROVE  Executable(i) /\ ~DivideTraps(i)
<1>1. i.op \notin {"DIV", "ADDP", "SUBP", "MULP"}
  BY DEF Plain, Is, BranchEq, Set, Load, Store, LoadPrime, JumpLink, Return, Instr
<1>2. ~DivideTraps(i)
  BY <1>1 DEF DivideTraps
<1>3. CASE \E r, s, l : Is(i, BranchEq(r, s, l))
  <2>1. i.op = "BEQ" /\ \E r, s, l : i.inputs = <<R(r), R(s)>> /\ i.outputs = <<L(l)>>
    BY <1>3 DEF Is, BranchEq, Instr
  <2>2. i.inputs # <<>> /\ i.outputs # <<>> /\ Len(i.inputs) = 2
    BY <2>1
  <2>3. QED
    BY <1>2, <2>1, <2>2 DEF Executable
<1>4. CASE (\E a : Is(i, LoadPrime(a))) \/ \E r : Is(i, Return(r))
  <2>1. i.op \in {"LDP", "RET"} /\ \E o : i.inputs = <<o>>
    BY <1>4 DEF Is, LoadPrime, Return, Instr
  <2>2. i.inputs # <<>>
    BY <2>1
  <2>3. QED
    BY <1>2, <2>1, <2>2 DEF Executable
<1>5. CASE \/ \E v, d : Is(i, Set(v, d))
           \/ \E a, d : Is(i, Load(a, d))
           \/ \E r, a : Is(i, Store(r, a))
           \/ \E l, d : Is(i, JumpLink(l, d))
  <2>1. /\ i.op \in {"SET", "LD", "ST", "JAL"}
        /\ \E o : i.inputs = <<o>>
        /\ \E o : i.outputs = <<o>>
    BY <1>5 DEF Is, Set, Load, Store, JumpLink, Instr
  <2>2. i.inputs # <<>> /\ i.outputs # <<>>
    BY <2>1
  <2>3. QED
    BY <1>2, <2>1, <2>2 DEF Executable
<1>6. QED
  BY <1>3, <1>4, <1>5 DEF Plain

(***************************************************************************)
(* Products that fit a word.                                                *)
(***************************************************************************)
LEMMA ProductIsNat == \A a, b \in Nat : a * b \in Nat
OBVIOUS

\* Numbers between -k and k have a product between -k^2 and k^2.
LEMMA ProductIsBounded ==
  \A k \in Nat, a, b \in Int :
    -k <= a /\ a <= k /\ -k <= b /\ b <= k => -(k * k) <= a * b /\ a * b <= k * k
<1> SUFFICES ASSUME NEW k \in Nat, NEW a \in Int, NEW b \in Int,
                    -k <= a, a <= k, -k <= b, b <= k
             PROVE  -(k * k) <= a * b /\ a * b <= k * k
  OBVIOUS
<1>1. k - a \in Nat /\ k + a \in Nat /\ k - b \in Nat /\ k + b \in Nat
  OBVIOUS
<1>2. /\ (k - a) * (k + b) \in Nat /\ (k + a) * (k - b) \in Nat
      /\ (k - a) * (k - b) \in Nat /\ (k + a) * (k + b) \in Nat
  BY <1>1, ProductIsNat
<1>3. /\ (k - a) * (k + b) + (k + a) * (k - b) = 2 * (k * k) - 2 * (a * b)
      /\ (k - a) * (k - b) + (k + a) * (k + b) = 2 * (k * k) + 2 * (a * b)
  OBVIOUS
<1> DEFINE s == k * k
           t == a * b
           u == (k - a) * (k + b)
           v == (k + a) * (k - b)
           w == (k - a) * (k - b)
           y == (k + a) * (k + b)
<1>4. s \in Int /\ t \in Int
  OBVIOUS
<1>5. u \in Nat /\ v \in Nat /\ w \in Nat /\ y \in Nat /\ u + v = 2 * s - 2 * t /\ w + y = 2 * s + 2 * t
  BY <1>2, <1>3
<1> HIDE DEF s, t, u, v, w, y
<1>6. -s <= t /\ t <= s
  BY <1>4, <1>5
<1>7. QED
  BY <1>6 DEF s, t

\* What MULP leaves of a product that fits a word: a number congruent to it,
\* smaller than the prime, never negative on one that is not
\* (processor.cc:139-147).
LEMMA ProductReduced ==
  ASSUME NEW a \in Int, NEW b \in Int, NEW m \in Word, m > 0, a * b \in Word
  PROVE  LET r == Rem(Mul(a, b), m)
         IN  r \in Word /\ Same(m, r, a * b) /\ -m < r /\ r < m /\ (a * b >= 0 => r >= 0)
<1> DEFINE t == a * b
           r == Rem(t, m)
<1>1. Mul(a, b) = t
  BY WrapOfWord DEF Mul
<1>2. t \in Word /\ t \in Int /\ m \in Nat \ {0} /\ m \in Word
  BY WordFacts
<1> HIDE DEF t
<1>3. (t - r) % m = 0 /\ -m < r /\ r < m /\ (t >= 0 => r >= 0) /\ r \in Word
  BY <1>2, RemLaw, ArithmeticIsWord
<1> HIDE DEF r
<1>4. r \in Int
  BY <1>3, WordFacts
<1>5. Same(m, t, r)
  BY <1>2, <1>3, <1>4, SameRemainder
<1>6. Same(m, r, t)
  <2>1. m \in Int
    BY <1>2
  <2>2. QED
    BY <1>2, <1>4, <1>5, <2>1, SameBack
<1>7. QED
  BY <1>1, <1>3, <1>6 DEF r, t

(***************************************************************************)
(* Square and multiply on registers, the loop of both kernels: from the     *)
(* label "while" the instructions are AND, BEQ, MULP, DIV, MULP, BEQ, BEQ,  *)
(* and what follows is the label behind the loop.  a is the partial         *)
(* product, v the power and e the exponent; j counts the instructions.      *)
(***************************************************************************)
\* What is known of the numbers before instruction j, where g is the power that
\* is computed modulo n; signed says that the base may be negative.
LoopValue(n, g, signed, j, a, v, e) ==
  /\ -n < a /\ a < n /\ (signed \/ a >= 0)
  /\ j <= 6 => e >= 0 /\ (signed \/ v >= 0)
  /\ j <= 2 => a * v \in Word
  /\ j <= 4 => v * v \in Word
  /\ j \in 5 .. 6 => -n < v /\ v < n
  /\ j \in {0, 1, 2, 5, 6} => Same(n, PowerMod(n, v, e) * a, g)
  /\ j = 3 => Same(n, PowerMod(n, v, 2 * (e \div 2)) * a, g)
  /\ j = 4 => Same(n, PowerMod(n, v, 2 * e) * a, g)
  /\ j = 7 => Same(n, a, g)

\* What instruction j does to them.
LoopMove(n, j, a, v, e, k, b, w, f) ==
  \/ j = 0 /\ k = 1 /\ b = a /\ w = v /\ f = e
  \/ j = 1 /\ (k = 2 \/ (k = 3 /\ e % 2 # 1)) /\ b = a /\ w = v /\ f = e
  \/ j = 2 /\ k = 3 /\ e % 2 = 1 /\ b = Rem(Mul(a, v), n) /\ w = v /\ f = e
  \/ j = 3 /\ k = 4 /\ b = a /\ w = v /\ f = Quot(e, 2)
  \/ j = 4 /\ k = 5 /\ b = a /\ w = Rem(Mul(v, v), n) /\ f = e
  \/ j = 5 /\ (k = 6 \/ (k = 7 /\ e = 0)) /\ b = a /\ w = v /\ f = e
  \/ j = 6 /\ k = 0 /\ b = a /\ w = v /\ f = e

\* DIV by two halves a number that is not negative.
LEMMA HalfOfNatural == \A w \in Word : Half > 2 /\ w >= 0 => Quot(w, 2) = w \div 2
<1> SUFFICES ASSUME NEW w \in Word, Half > 2, w >= 0 PROVE Quot(w, 2) = w \div 2
  OBVIOUS
<1>1. w \in Nat /\ w < Half /\ Half \in Nat
  BY HalfFacts DEF Word
<1> DEFINE q == w \div 2
<1>2. Magnitude(w) = w /\ Magnitude(2) = 2 /\ ~(w < 0) /\ ~(2 < 0) /\ 2 # 0
  BY <1>1 DEF Magnitude
<1>3. Quot(w, 2) = Wrap(q)
  BY <1>2 DEF Quot
<1>4. q \in Nat /\ q <= w
  BY <1>1
<1> HIDE DEF q
<1>5. q \in Word
  BY <1>1, <1>4 DEF Word
<1>6. QED
  BY <1>3, <1>5, WrapOfWord DEF q

\* Remainders by n have products that fit a word when (n - 1)^2 does.
LEMMA ProductFits ==
  ASSUME NEW n \in Nat \ {0}, (n - 1) * (n - 1) < Half,
         NEW b \in Int, NEW c \in Int, -n < b, b < n, -n < c, c < n
  PROVE  b * c \in Word
<1> DEFINE k == n - 1
           s == k * k
           t == b * c
<1>1. k \in Nat /\ s < Half /\ -k <= b /\ b <= k /\ -k <= c /\ c <= k
  OBVIOUS
<1>2. -s <= t /\ t <= s
  <2> HIDE DEF k
  <2>1. QED
    BY <1>1, ProductIsBounded
<1>3. s \in Int /\ t \in Int /\ Half \in Nat
  BY <1>1, HalfFacts
<1> HIDE DEF s, t, k
<1>4. t \in Word
  BY <1>1, <1>2, <1>3 DEF Word
<1>5. QED
  BY <1>4 DEF t

\* The loop owes the same power before and after each instruction.
LEMMA LoopValueKept ==
  ASSUME NEW n \in Word, n > 1, (n - 1) * (n - 1) < Half, Half > 2,
         NEW g \in Int, NEW signed \in BOOLEAN,
         NEW j \in 0 .. 6, NEW a \in Word, NEW v \in Word, NEW e \in Word,
         NEW k, NEW b, NEW w, NEW f,
         LoopValue(n, g, signed, j, a, v, e), LoopMove(n, j, a, v, e, k, b, w, f)
  PROVE  LoopValue(n, g, signed, k, b, w, f)
<1> DEFINE owes(c, y, i) == Same(n, PowerMod(n, y, i) * c, g)
<1>1. n \in Int /\ n \in Nat \ {0} /\ a \in Int /\ v \in Int /\ e \in Int
  <2>1. n \in Int /\ a \in Int /\ v \in Int /\ e \in Int
    BY WordFacts
  <2>2. QED
    BY <2>1
<1>2. /\ -n < a /\ a < n /\ (signed \/ a >= 0)
      /\ j <= 6 => e >= 0 /\ (signed \/ v >= 0)
      /\ j <= 2 => a * v \in Word
      /\ j <= 4 => v * v \in Word
      /\ j \in 5 .. 6 => -n < v /\ v < n
      /\ j \in {0, 1, 2, 5, 6} => owes(a, v, e)
      /\ j = 3 => owes(a, v, 2 * (e \div 2))
      /\ j = 4 => owes(a, v, 2 * e)
      /\ j = 7 => Same(n, a, g)
  BY DEF LoopValue
<1>3. ASSUME
        /\ -n < b /\ b < n /\ (signed \/ b >= 0)
        /\ k <= 6 => f >= 0 /\ (signed \/ w >= 0)
        /\ k <= 2 => b * w \in Word
        /\ k <= 4 => w * w \in Word
        /\ k \in 5 .. 6 => -n < w /\ w < n
        /\ k \in {0, 1, 2, 5, 6} => owes(b, w, f)
        /\ k = 3 => owes(b, w, 2 * (f \div 2))
        /\ k = 4 => owes(b, w, 2 * f)
        /\ k = 7 => Same(n, b, g)
      PROVE LoopValue(n, g, signed, k, b, w, f)
  BY <1>3 DEF LoopValue
<1>4. CASE j = 0 /\ k = 1 /\ b = a /\ w = v /\ f = e
  <2> HIDE DEF owes
  <2>1. QED
    BY <1>1, <1>2, <1>3, <1>4
<1>5. CASE j = 1 /\ (k = 2 \/ (k = 3 /\ e % 2 # 1)) /\ b = a /\ w = v /\ f = e
  <2>1. e % 2 # 1 => 2 * (e \div 2) = e
    BY <1>1
  <2> HIDE DEF owes
  <2>2. k = 3 => owes(b, w, 2 * (f \div 2))
    BY <1>2, <1>5, <2>1
  <2>3. QED
    BY <1>1, <1>2, <1>3, <1>5, <2>2
<1>6. CASE j = 2 /\ k = 3 /\ e % 2 = 1 /\ b = Rem(Mul(a, v), n) /\ w = v /\ f = e
  <2>1. a * v \in Word /\ v * v \in Word /\ owes(a, v, e) /\ e \in Nat
    BY <1>1, <1>2, <1>6
  <2>2. b \in Word /\ Same(n, b, a * v) /\ -n < b /\ b < n /\ (a * v >= 0 => b >= 0)
    BY <1>1, <1>6, <2>1, ProductReduced
  <2>3. b \in Int
    BY <2>2, WordFacts
  <2>4. signed \/ a * v >= 0
    <3>1. a \in Nat /\ v \in Nat => a * v \in Nat
      BY ProductIsNat
    <3>2. signed \/ (a \in Nat /\ v \in Nat)
      BY <1>1, <1>2, <1>6
    <3>3. QED
      BY <3>1, <3>2
  <2>5. owes(b, v, 2 * (e \div 2))
    BY <1>1, <1>6, <2>1, <2>2, <2>3, MultiplyIn
  <2> HIDE DEF owes
  <2>6. owes(b, w, 2 * (f \div 2)) /\ w * w \in Word
    BY <1>6, <2>1, <2>5
  <2>7. QED
    BY <1>1, <1>2, <1>3, <1>6, <2>2, <2>4, <2>6
<1>7. CASE j = 3 /\ k = 4 /\ b = a /\ w = v /\ f = Quot(e, 2)
  <2>1. f = e \div 2 /\ f >= 0
    BY <1>1, <1>2, <1>7, HalfOfNatural
  <2> HIDE DEF owes
  <2>2. owes(b, w, 2 * f)
    BY <1>2, <1>7, <2>1
  <2>3. QED
    BY <1>1, <1>2, <1>3, <1>7, <2>1, <2>2
<1>8. CASE j = 4 /\ k = 5 /\ b = a /\ w = Rem(Mul(v, v), n) /\ f = e
  <2>1. v * v \in Word /\ owes(a, v, 2 * e) /\ e \in Nat
    BY <1>1, <1>2, <1>8
  <2>2. w \in Word /\ Same(n, w, v * v) /\ -n < w /\ w < n /\ (v * v >= 0 => w >= 0)
    BY <1>1, <1>8, <2>1, ProductReduced
  <2>3. w \in Int
    BY <2>2, WordFacts
  <2>4. signed \/ v * v >= 0
    <3>1. v \in Nat => v * v \in Nat
      BY ProductIsNat
    <3>2. signed \/ v \in Nat
      BY <1>1, <1>2, <1>8
    <3>3. QED
      BY <3>1, <3>2
  <2>5. owes(a, w, e)
    BY <1>1, <2>1, <2>2, <2>3, SquareIn
  <2> HIDE DEF owes
  <2>6. owes(b, w, f)
    BY <1>8, <2>5
  <2>7. QED
    BY <1>1, <1>2, <1>3, <1>8, <2>2, <2>4, <2>6
<1>9. CASE j = 5 /\ (k = 6 \/ (k = 7 /\ e = 0)) /\ b = a /\ w = v /\ f = e
  <2>1. owes(a, v, e)
    BY <1>2, <1>9
  <2>2. e = 0 => Same(n, a, g)
    BY <1>1, <2>1, NothingLeft
  <2> HIDE DEF owes
  <2>3. QED
    BY <1>1, <1>2, <1>3, <1>9, <2>2
<1>10. CASE j = 6 /\ k = 0 /\ b = a /\ w = v /\ f = e
  <2>1. a * v \in Word /\ v * v \in Word
    BY <1>1, <1>2, <1>10, ProductFits
  <2> HIDE DEF owes
  <2>2. QED
    BY <1>1, <1>2, <1>3, <1>10, <2>1
<1>11. QED
  BY <1>4, <1>5, <1>6, <1>7, <1>8, <1>9, <1>10 DEF LoopMove

\* The loop begins with one, x and the exponent n - 2.
LEMMA LoopBegins ==
  ASSUME NEW n \in Word, n > 1, NEW v \in Word, v * v < Half, NEW g \in Int, g = PowerMod(n, v, n - 2)
  PROVE  LoopValue(n, g, v < 0, 0, 1, v, n - 2)
<1>1. n \in Int /\ n \in Nat \ {0} /\ v \in Int
  <2>1. n \in Int /\ v \in Int
    BY WordFacts
  <2>2. QED
    BY <2>1
<1>2. v * v \in Word
  <2> DEFINE s == v * v
  <2>1. s < Half /\ s \in Int /\ s >= 0 /\ Half \in Nat
    <3>1. v >= 0 => v * v \in Nat
      BY <1>1, ProductIsNat
    <3>2. v < 0 => (-v) * (-v) \in Nat /\ (-v) * (-v) = v * v
      BY <1>1, ProductIsNat
    <3>3. QED
      BY <1>1, <3>1, <3>2, HalfFacts
  <2> HIDE DEF s
  <2>2. s \in Word
    BY <2>1 DEF Word
  <2>3. QED
    BY <2>2 DEF s
<1>3. 1 * v = v /\ g * 1 = g
  BY <1>1
<1>4. Same(n, PowerMod(n, v, n - 2) * 1, g)
  <2>1. Same(n, g, g)
    BY <1>1, SameIsEquivalence
  <2>2. QED
    BY <1>3, <2>1
<1>5. QED
  BY <1>1, <1>2, <1>3, <1>4 DEF LoopValue

=============================================================================

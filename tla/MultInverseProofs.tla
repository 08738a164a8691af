------------------------- MODULE MultInverseProofs -------------------------
(***************************************************************************)
(* Theorems about the multiplicative-inverse kernel.                        *)
(***************************************************************************)
EXTENDS MultInverse, ProcessorProofs

(***************************************************************************)
(* The program.                                                             *)
(***************************************************************************)

\* The instructions of the kernel, by their places (mult_inverse.h:13-160).
LEMMA Listing ==
  /\ Len(MultInverseProg) = 18
  /\ MultInverseProg[1] = At("multinv", LoadPrime(P_ADDR))
  /\ MultInverseProg[2] = Set(1, 8)
  /\ MultInverseProg[3] = Load(X_ADDR, 20)
  /\ MultInverseProg[4] = Set(1, 22)
  /\ MultInverseProg[5] = BranchEq(20, 22, "done")
  /\ MultInverseProg[6] = Load(P_ADDR, 21)
  /\ MultInverseProg[7] = Set(2, 23)
  /\ MultInverseProg[8] = Op2("SUB", 21, 23, 21)
  /\ MultInverseProg[9] = Set(0, 0)
  /\ MultInverseProg[10] = BranchEq(21, 0, "done")
  /\ MultInverseProg[11] = At("while", Op2("AND", 21, 22, 13))
  /\ MultInverseProg[12] = BranchEq(13, 0, "next")
  /\ MultInverseProg[13] = Op2("MULP", 8, 20, 8)
  /\ MultInverseProg[14] = At("next", Op2("DIV", 21, 23, 21))
  /\ MultInverseProg[15] = Op2("MULP", 20, 20, 20)
  /\ MultInverseProg[16] = BranchEq(21, 0, "done")
  /\ MultInverseProg[17] = BranchEq(0, 0, "while")
  /\ MultInverseProg[18] = At("done", Store(8, OUT_ADDR))
BY DEF MultInverseProg, Setup, SquareAndMultiply, Finale

\* What the program names exists.
LEMMA NamesFit ==
  /\ \A r \in {0, 8, 13, 20, 21, 22, 23} : r \in Reg
  /\ P_ADDR \in Addr /\ X_ADDR \in Addr /\ OUT_ADDR \in Addr
  /\ OUT_ADDR # P_ADDR /\ OUT_ADDR # X_ADDR
  /\ 0 \in Word /\ 1 \in Word /\ 2 \in Word
  /\ Half \in Nat /\ Half > 2 /\ PcModulus \in Nat /\ PcModulus > 18
BY KernelFits, SizeAssumption, HalfFacts, PcAssumption
   DEF Reg, Addr, P_ADDR, X_ADDR, OUT_ADDR, Word

\* The kernel is a program that pc_ can address.
LEMMA ProgIsAddressable == Addressable(MultInverseProg)
<1>1. /\ "multinv" \in STRING /\ "while" \in STRING /\ "next" \in STRING /\ "done" \in STRING
      /\ {"SUB", "AND", "MULP", "DIV"} \subseteq Opcode
  BY InverseLabels DEF Opcode
<1>2. ASSUME NEW k \in 1 .. 18 PROVE MultInverseProg[k] \in Instruction
  <2>1. CASE k \in 1 .. 4
    BY <1>1, <2>1, Listing, NamesFit, GeneratedIsTyped
  <2>2. CASE k \in 5 .. 8
    BY <1>1, <2>2, Listing, NamesFit, GeneratedIsTyped
  <2>3. CASE k \in 9 .. 12
    BY <1>1, <2>3, Listing, NamesFit, GeneratedIsTyped
  <2>4. CASE k \in 13 .. 15
    BY <1>1, <2>4, Listing, NamesFit, GeneratedIsTyped
  <2>5. CASE k \in 16 .. 18
    BY <1>1, <2>5, Listing, NamesFit, GeneratedIsTyped
  <2>6. QED
    BY <2>1, <2>2, <2>3, <2>4, <2>5
<1>3. MultInverseProg = [k \in 1 .. 18 |-> MultInverseProg[k]]
  BY DEF MultInverseProg, Setup, SquareAndMultiply, Finale
<1>4. MultInverseProg \in Seq(Instruction)
  <2> DEFINE q == [k \in 1 .. 18 |-> MultInverseProg[k]]
  <2>1. q \in [1 .. 18 -> Instruction]
    BY <1>2
  <2>2. q \in Seq(Instruction)
    BY <2>1
  <2>3. QED
    BY <1>3, <2>2
<1>5. QED
  BY <1>4, Listing, NamesFit DEF Addressable, Program

\* The labels that the branches use, where the label pass puts them.
Places == [l \in {"while", "next", "done"} |->
             CASE l = "while" -> 10 [] l = "next" -> 13 [] l = "done" -> 17]

\* The label pass finds each label of the kernel at its place (processor.cc:139-145).
LEMMA PlacesAreFound ==
  \A l \in DOMAIN Places : l \in LabelsOf(MultInverseProg) /\ LastAt(MultInverseProg, l) = Places[l]
<1> SUFFICES ASSUME NEW l \in DOMAIN Places
             PROVE  l \in LabelsOf(MultInverseProg) /\ LastAt(MultInverseProg, l) = Places[l]
  OBVIOUS
<1> DEFINE q == MultInverseProg
           j == LastAt(q, l)
<1>a. /\ q[1].label = "multinv" /\ q[2].label = "" /\ q[3].label = "" /\ q[4].label = ""
      /\ q[5].label = "" /\ q[6].label = "" /\ q[7].label = "" /\ q[8].label = ""
  <2>1. At("multinv", LoadPrime(P_ADDR)).label = "multinv"
    BY LoadPrimeLabelled
  <2>2. Set(1, 8).label = "" /\ Set(1, 22).label = "" /\ Set(2, 23).label = ""
    BY SetUnlabelled
  <2>3. Load(X_ADDR, 20).label = "" /\ Load(P_ADDR, 21).label = ""
    BY LoadUnlabelled
  <2>4. BranchEq(20, 22, "done").label = ""
    BY BranchUnlabelled
  <2>5. Op2("SUB", 21, 23, 21).label = ""
    BY Op2Unlabelled
  <2>6. QED
    BY <2>1, <2>2, <2>3, <2>4, <2>5, Listing
<1>b. /\ q[9].label = "" /\ q[10].label = "" /\ q[11].label = "while" /\ q[12].label = ""
      /\ q[13].label = "" /\ q[14].label = "next" /\ q[15].label = "" /\ q[16].label = ""
  <2>1. Set(0, 0).label = ""
    BY SetUnlabelled
  <2>2. BranchEq(21, 0, "done").label = "" /\ BranchEq(13, 0, "next").label = ""
    BY BranchUnlabelled
  <2>3. At("while", Op2("AND", 21, 22, 13)).label = "while" /\ At("next", Op2("DIV", 21, 23, 21)).label = "next"
    BY Op2Labelled
  <2>4. Op2("MULP", 8, 20, 8).label = "" /\ Op2("MULP", 20, 20, 20).label = ""
    BY Op2Unlabelled
  <2>5. QED
    BY <2>1, <2>2, <2>3, <2>4, Listing
<1>c. q[17].label = "" /\ q[18].label = "done"
  <2>1. BranchEq(0, 0, "while").label = ""
    BY BranchUnlabelled
  <2>2. At("done", Store(8, OUT_ADDR)).label = "done"
    BY StoreLabelled
  <2>3. QED
    BY <2>1, <2>2, Listing
<1>2. q \in Program /\ Len(q) = 18
  BY ProgIsAddressable, Listing DEF Addressable
<1> HIDE DEF q
<1>3. l \in LabelsOf(q)
  <2>1. l = "while" \/ l = "next" \/ l = "done"
    BY DEF Places
  <2>2. \A k \in 1 .. 18 : q[k].label # NoLabel => q[k].label \in LabelsOf(q)
    BY <1>2 DEF LabelsOf
  <2>3. 11 \in 1 .. 18 /\ 14 \in 1 .. 18 /\ 18 \in 1 .. 18
    OBVIOUS
  <2>4. QED
    BY <1>b, <1>c, <2>1, <2>2, <2>3 DEF NoLabel
<1>4. j \in 0 .. 17 /\ q[j + 1].label = l
  <2>1. j \in 0 .. Len(q) - 1 /\ q[j + 1].label = l
    BY <1>2, <1>3, LastAtFacts
  <2>2. QED
    BY <1>2, <2>1
<1> HIDE DEF j
<1>5. j = Places[l]
  <2>1. l # "" /\ l # "multinv" /\ (l = "while" \/ l = "next" \/ l = "done")
    BY DEF Places
  <2>2. ASSUME NEW k \in 1 .. 18, q[k].label = l PROVE k - 1 = Places[l]
    <3> DEFINE w == q[k].label
    <3>1. k \in 1 .. 8 => w = "" \/ w = "multinv"
      <4>1. k \in 1 .. 8 => k = 1 \/ k = 2 \/ k = 3 \/ k = 4 \/ k = 5 \/ k = 6 \/ k = 7 \/ k = 8
        OBVIOUS
      <4>2. QED
        BY <1>a, <4>1
    <3>2. k \in 9 .. 16 => w = "" \/ (k = 11 /\ w = "while") \/ (k = 14 /\ w = "next")
      <4>1. k \in 9 .. 16 => k = 9 \/ k = 10 \/ k = 11 \/ k = 12 \/ k = 13 \/ k = 14 \/ k = 15 \/ k = 16
        OBVIOUS
      <4>2. QED
        BY <1>b, <4>1
    <3>3. k \in 17 .. 18 => w = "" \/ (k = 18 /\ w = "done")
      <4>1. k \in 17 .. 18 => k = 17 \/ k = 18
        OBVIOUS
      <4>2. QED
        BY <1>c, <4>1
    <3>4. w = l
      BY <2>2
    <3> HIDE DEF w
    <3>5. k \in 1 .. 8 \/ k \in 9 .. 16 \/ k \in 17 .. 18
      OBVIOUS
    <3>6. (k = 11 /\ l = "while") \/ (k = 14 /\ l = "next") \/ (k = 18 /\ l = "done")
      BY <2>1, <3>1, <3>2, <3>3, <3>4, <3>5
    <3>7. QED
      BY <3>6 DEF Places
  <2>3. j + 1 \in 1 .. 18 /\ (j + 1) - 1 = j
    BY <1>4
  <2>4. QED
    BY <1>4, <2>2, <2>3
<1>6. QED
  BY <1>3, <1>5 DEF q, j

(***************************************************************************)
(* What each instruction does.                                              *)
(***************************************************************************)
Mapped ==
  status = "running" => \A l \in DOMAIN Places : l \in DOMAIN labels /\ labels[l] = Places[l]

\* Branches to a place.
BranchTo(r, s, place) ==
  /\ pc' = IF regs[r] = regs[s] THEN place ELSE pc + 1
  /\ UNCHANGED <<sram, regs, p, status>>

\* What each instruction before the loop does, ...
LEMMA SetupEffects ==
  ASSUME Mapped, Step(MultInverseProg), pc \in Nat
  PROVE  /\ pc = 0 => p' = P /\ pc' = 1 /\ UNCHANGED <<sram, regs, status>>
         /\ pc = 1 => Wrote(8, 1)
         /\ pc = 2 => Wrote(20, x)
         /\ pc = 3 => Wrote(22, 1)
         /\ pc = 4 => BranchTo(20, 22, 17)
         /\ pc = 5 => Wrote(21, P)
         /\ pc = 6 => Wrote(23, 2)
         /\ pc = 7 => Wrote(21, Sub(regs[21], regs[23]))
         /\ pc = 8 => Wrote(0, 0)
         /\ pc = 9 => BranchTo(21, 0, 17)
<1> DEFINE i == Fetch(MultInverseProg)
<1>1. Execute(i) /\ i = MultInverseProg[pc + 1] /\ status = "running"
  BY DEF Step, Running, Fetch
<1>2. Target("done") = 17
  BY <1>1 DEF Mapped, Places, Target
<1> HIDE DEF i
<1>3. ASSUME pc = 0 PROVE p' = P /\ pc' = 1 /\ UNCHANGED <<sram, regs, status>>
  <2>1. Is(i, LoadPrime(P_ADDR))
    BY <1>1, <1>3, Listing, AtIs
  <2>2. QED
    BY <1>1, <1>3, <2>1, LoadEffect DEF P
<1>4. ASSUME pc = 1 PROVE Wrote(8, 1)
  <2>1. Is(i, Set(1, 8))
    BY <1>1, <1>4, Listing, IsItself
  <2>2. QED
    BY <1>1, <2>1, LoadEffect
<1>5. ASSUME pc = 2 PROVE Wrote(20, x)
  <2>1. Is(i, Load(X_ADDR, 20))
    BY <1>1, <1>5, Listing, IsItself
  <2>2. QED
    BY <1>1, <2>1, LoadEffect DEF x
<1>6. ASSUME pc = 3 PROVE Wrote(22, 1)
  <2>1. Is(i, Set(1, 22))
    BY <1>1, <1>6, Listing, IsItself
  <2>2. QED
    BY <1>1, <2>1, LoadEffect
<1>7. ASSUME pc = 4 PROVE BranchTo(20, 22, 17)
  <2>1. Is(i, BranchEq(20, 22, "done"))
    BY <1>1, <1>7, Listing, IsItself
  <2>2. QED
    BY <1>1, <1>2, <2>1, BranchEffect DEF Branched, BranchTo
<1>8. ASSUME pc = 5 PROVE Wrote(21, P)
  <2>1. Is(i, Load(P_ADDR, 21))
    BY <1>1, <1>8, Listing, IsItself
  <2>2. QED
    BY <1>1, <2>1, LoadEffect DEF P
<1>9. ASSUME pc = 6 PROVE Wrote(23, 2)
  <2>1. Is(i, Set(2, 23))
    BY <1>1, <1>9, Listing, IsItself
  <2>2. QED
    BY <1>1, <2>1, LoadEffect
<1>10. ASSUME pc = 7 PROVE Wrote(21, Sub(regs[21], regs[23]))
  <2>1. Is(i, Op2("SUB", 21, 23, 21))
    BY <1>1, <1>10, Listing, IsItself
  <2>2. QED
    BY <1>1, <2>1, Op2Effect
<1>11. ASSUME pc = 8 PROVE Wrote(0, 0)
  <2>1. Is(i, Set(0, 0))
    BY <1>1, <1>11, Listing, IsItself
  <2>2. QED
    BY <1>1, <2>1, LoadEffect
<1>12. ASSUME pc = 9 PROVE BranchTo(21, 0, 17)
  <2>1. Is(i, BranchEq(21, 0, "done"))
    BY <1>1, <1>12, Listing, IsItself
  <2>2. QED
    BY <1>1, <1>2, <2>1, BranchEffect DEF Branched, BranchTo
<1>13. QED
  BY <1>3, <1>4, <1>5, <1>6, <1>7, <1>8, <1>9, <1>10, <1>11, <1>12

\* ... and each from the loop on.
LEMMA LoopEffects ==
  ASSUME Mapped, Step(MultInverseProg), pc \in Nat
  PROVE  /\ pc = 10 => Wrote(13, BitAnd(regs[21], regs[22]))
         /\ pc = 11 => BranchTo(13, 0, 13)
         /\ pc = 12 => Wrote(8, Rem(Mul(regs[8], regs[20]), p))
         /\ pc = 13 => Wrote(21, Quot(regs[21], regs[23]))
         /\ pc = 14 => Wrote(20, Rem(Mul(regs[20], regs[20]), p))
         /\ pc = 15 => BranchTo(21, 0, 17)
         /\ pc = 16 => BranchTo(0, 0, 10)
         /\ pc = 17 => /\ sram' = [sram EXCEPT ![OUT_ADDR] = regs[8]]
                       /\ pc' = 18
                       /\ UNCHANGED <<regs, p, status>>
<1> DEFINE i == Fetch(MultInverseProg)
<1>1. Execute(i) /\ i = MultInverseProg[pc + 1] /\ status = "running"
  BY DEF Step, Running, Fetch
<1>2. Target("done") = 17 /\ Target("next") = 13 /\ Target("while") = 10
  BY <1>1 DEF Mapped, Places, Target
<1> HIDE DEF i
<1>3. ASSUME pc = 10 PROVE Wrote(13, BitAnd(regs[21], regs[22]))
  <2>1. Is(i, Op2("AND", 21, 22, 13))
    BY <1>1, <1>3, Listing, AtIs
  <2>2. QED
    BY <1>1, <2>1, Op2Effect
<1>4. ASSUME pc = 11 PROVE BranchTo(13, 0, 13)
  <2>1. Is(i, BranchEq(13, 0, "next"))
    BY <1>1, <1>4, Listing, IsItself
  <2>2. QED
    BY <1>1, <1>2, <2>1, BranchEffect DEF Branched, BranchTo
<1>5. ASSUME pc = 12 PROVE Wrote(8, Rem(Mul(regs[8], regs[20]), p))
  <2>1. Is(i, Op2("MULP", 8, 20, 8))
    BY <1>1, <1>5, Listing, IsItself
  <2>2. QED
    BY <1>1, <2>1, Op2Effect
<1>6. ASSUME pc = 13 PROVE Wrote(21, Quot(regs[21], regs[23]))
  <2>1. Is(i, Op2("DIV", 21, 23, 21))
    BY <1>1, <1>6, Listing, AtIs
  <2>2. QED
    BY <1>1, <2>1, Op2Effect
<1>7. ASSUME pc = 14 PROVE Wrote(20, Rem(Mul(regs[20], regs[20]), p))
  <2>1. Is(i, Op2("MULP", 20, 20, 20))
    BY <1>1, <1>7, Listing, IsItself
  <2>2. QED
    BY <1>1, <2>1, Op2Effect
<1>8. ASSUME pc = 15 PROVE BranchTo(21, 0, 17)
  <2>1. Is(i, BranchEq(21, 0, "done"))
    BY <1>1, <1>8, Listing, IsItself
  <2>2. QED
    BY <1>1, <1>2, <2>1, BranchEffect DEF Branched, BranchTo
<1>9. ASSUME pc = 16 PROVE BranchTo(0, 0, 10)
  <2>1. Is(i, BranchEq(0, 0, "while"))
    BY <1>1, <1>9, Listing, IsItself
  <2>2. QED
    BY <1>1, <1>2, <2>1, BranchEffect DEF Branched, BranchTo
<1>10. ASSUME pc = 17 PROVE /\ sram' = [sram EXCEPT ![OUT_ADDR] = regs[8]]
                            /\ pc' = 18
                            /\ UNCHANGED <<regs, p, status>>
  <2>1. Is(i, Store(8, OUT_ADDR))
    BY <1>1, <1>10, Listing, AtIs
  <2>2. QED
    BY <1>1, <1>10, <2>1, StoreEffect
<1>11. QED
  BY <1>3, <1>4, <1>5, <1>6, <1>7, <1>8, <1>9, <1>10

(***************************************************************************)
(* The length of a number.                                                  *)
(***************************************************************************)
LEMMA PowersGrow == \A k \in 0 .. WordBits : \A j \in 0 .. k : 2^j <= 2^k
<1> DEFINE T == {i \in 0 .. WordBits : \A j \in 0 .. i : 2^j <= 2^i}
<1>1. WordBits \in Nat
  BY WordBitsAssumption
<1>2. 0 \in T
  <2>1. 0 \in 0 .. WordBits /\ 2^0 = 1 /\ 1 <= 1
    BY <1>1, PowersOfTwo
  <2>2. \A j \in 0 .. 0 : j = 0
    OBVIOUS
  <2>3. \A j \in 0 .. 0 : 2^j <= 2^0
    BY <2>1, <2>2
  <2>4. QED
    BY <2>1, <2>3
<1>3. ASSUME NEW i \in 0 .. WordBits - 1, i \in T PROVE i + 1 \in T
  <2>1. i + 1 \in 0 .. WordBits /\ i \in 0 .. WordBits /\ i + 1 \in 0 .. WordBits + 1
    BY <1>1
  <2>2. 2^(i + 1) = 2 * 2^i /\ 2^i \in Nat /\ 2^(i + 1) \in Nat
    BY <1>1, <2>1, PowersOfTwo, PowersArePositive
  <2>3. ASSUME NEW j \in 0 .. i + 1 PROVE 2^j <= 2^(i + 1)
    <3>1. CASE j = i + 1
      BY <2>2, <3>1
    <3>2. CASE j \in 0 .. i
      <4>1. 2^j <= 2^i /\ j \in 0 .. WordBits + 1
        BY <1>1, <1>3, <3>2
      <4>2. 2^j \in Nat
        BY <4>1, PowersArePositive
      <4> DEFINE u == 2^j
                 v == 2^i
                 w == 2^(i + 1)
      <4>3. u \in Nat /\ v \in Nat /\ w = 2 * v /\ u <= v
        BY <2>2, <4>1, <4>2
      <4> HIDE DEF u, v, w
      <4>4. u <= w
        BY <4>3
      <4>5. QED
        BY <4>4 DEF u, w
    <3>3. QED
      BY <1>1, <2>3, <3>1, <3>2
  <2>4. QED
    BY <2>1, <2>3
<1>4. \A i \in 0 .. WordBits : i \in T
  <2> HIDE DEF T
  <2>1. QED
    BY <1>1, <1>2, <1>3, UpTo
<1>5. QED
  BY <1>4

\* Each number below the largest power has a length in bits.
LEMMA LengthExists ==
  \A n \in Nat : n < 2^WordBits => \E k \in 0 .. WordBits : 2^k > n /\ (k = 0 \/ 2^(k - 1) <= n)
<1> SUFFICES ASSUME NEW n \in Nat, n < 2^WordBits
             PROVE  \E k \in 0 .. WordBits : 2^k > n /\ (k = 0 \/ 2^(k - 1) <= n)
  OBVIOUS
<1>1. WordBits \in Nat
  BY WordBitsAssumption
<1> DEFINE T == {k \in 0 .. WordBits : 2^k > n}
<1>2. WordBits \in T /\ T \subseteq Nat
  BY <1>1
<1>3. PICK k \in T : \A u \in T : k <= u
  <2> HIDE DEF T
  <2>1. QED
    BY <1>2, LeastExists
<1>4. k = 0 \/ 2^(k - 1) <= n
  <2> SUFFICES ASSUME k # 0 PROVE 2^(k - 1) <= n
    OBVIOUS
  <2>1. k - 1 \in 0 .. WordBits /\ ~(k <= k - 1) /\ k - 1 \in 0 .. WordBits + 1
    BY <1>1
  <2>2. k - 1 \notin T
    BY <1>3, <2>1
  <2>3. 2^(k - 1) \in Nat /\ ~(2^(k - 1) > n)
    BY <2>1, <2>2, PowersArePositive
  <2> DEFINE u == 2^(k - 1)
  <2>4. u \in Nat /\ ~(u > n)
    BY <2>3
  <2> HIDE DEF u
  <2>5. u <= n
    BY <2>4
  <2>6. QED
    BY <2>5 DEF u
<1>5. QED
  BY <1>4

\* Every number below 2^WordBits has a length, and its definition gives it.
LEMMA LengthFacts ==
  \A n \in Nat : n < 2^WordBits =>
    /\ BitLength(n) \in 0 .. WordBits
    /\ n < 2^BitLength(n)
    /\ BitLength(n) = 0 \/ 2^(BitLength(n) - 1) <= n
<1> SUFFICES ASSUME NEW n \in Nat, n < 2^WordBits
             PROVE  /\ BitLength(n) \in 0 .. WordBits
                    /\ n < 2^BitLength(n)
                    /\ BitLength(n) = 0 \/ 2^(BitLength(n) - 1) <= n
  OBVIOUS
<1> DEFINE Good(k) == k \in 0 .. WordBits /\ 2^k > n /\ (k = 0 \/ 2^(k - 1) <= n)
           l == BitLength(n)
<1>1. \E k \in 0 .. WordBits : 2^k > n /\ (k = 0 \/ 2^(k - 1) <= n)
  BY LengthExists
<1>2. Good(l)
  BY <1>1 DEF BitLength
<1>3. 2^l \in Nat
  BY <1>2, PowersArePositive, WordBitsAssumption
<1>4. QED
  BY <1>2, <1>3

\* A smaller number is not longer.
LEMMA LengthOfSmaller ==
  \A m, n \in Nat : m <= n /\ n < 2^WordBits => BitLength(m) <= BitLength(n)
<1> SUFFICES ASSUME NEW m \in Nat, NEW n \in Nat, m <= n, n < 2^WordBits
             PROVE  BitLength(m) <= BitLength(n)
  OBVIOUS
<1> DEFINE j == BitLength(m)
           k == BitLength(n)
<1>0. WordBits \in Nat /\ 2^WordBits \in Nat
  BY WordBitsAssumption, HalfFacts
<1>1. /\ j \in 0 .. WordBits /\ k \in 0 .. WordBits
      /\ n < 2^k
      /\ j = 0 \/ 2^(j - 1) <= m
  <2> DEFINE u == 2^WordBits
  <2>1. u \in Nat /\ n < u
    BY <1>0
  <2> HIDE DEF u
  <2>2. m < u
    BY <2>1
  <2>3. QED
    BY <2>2, LengthFacts DEF u
<1> HIDE DEF j, k
<1> SUFFICES ASSUME k < j PROVE FALSE
  BY <1>0, <1>1 DEF j, k
<1>2. j - 1 \in 0 .. WordBits /\ k \in 0 .. j - 1 /\ j # 0
  BY <1>0, <1>1
<1>3. 2^k <= 2^(j - 1) /\ 2^(j - 1) <= m
  BY <1>1, <1>2, PowersGrow
<1>4. 2^k \in Nat /\ 2^(j - 1) \in Nat
  BY <1>0, <1>1, <1>2, PowersArePositive
<1> DEFINE u == 2^k
           v == 2^(j - 1)
<1>5. u \in Nat /\ v \in Nat /\ u <= v /\ v <= m /\ n < u
  BY <1>1, <1>3, <1>4
<1> HIDE DEF u, v
<1>6. QED
  BY <1>5

\* Half of a number is shorter.
LEMMA LengthOfHalf ==
  \A n \in Nat : n # 0 /\ n < 2^WordBits => BitLength(n \div 2) + 1 <= BitLength(n)
<1> SUFFICES ASSUME NEW n \in Nat, n # 0, n < 2^WordBits
             PROVE  BitLength(n \div 2) + 1 <= BitLength(n)
  OBVIOUS
<1> DEFINE h == n \div 2
           j == BitLength(h)
           k == BitLength(n)
<1>0. WordBits \in Nat /\ 2^WordBits \in Nat
  BY WordBitsAssumption, HalfFacts
<1>1. h \in Nat /\ h <= n /\ 2 * h <= n
  OBVIOUS
<1> HIDE DEF h
<1>2. /\ j \in 0 .. WordBits /\ k \in 0 .. WordBits
      /\ n < 2^k
      /\ j = 0 \/ 2^(j - 1) <= h
  <2> DEFINE u == 2^WordBits
  <2>1. u \in Nat /\ n < u
    BY <1>0
  <2> HIDE DEF u
  <2>2. h < u
    BY <1>1, <2>1
  <2>3. QED
    BY <1>1, <2>1, <2>2, LengthFacts DEF u
<1> HIDE DEF j, k
<1> SUFFICES ASSUME k <= j PROVE FALSE
  BY <1>0, <1>2 DEF j, k, h
<1>3. k # 0
  <2> SUFFICES ASSUME k = 0 PROVE FALSE
    OBVIOUS
  <2>1. 2^k = 1
    BY PowersOfTwo
  <2>2. QED
    BY <1>2, <2>1
<1>4. k - 1 \in 0 .. j - 1 /\ j - 1 \in 0 .. WordBits /\ k - 1 \in 0 .. WordBits /\ (k - 1) + 1 = k /\ j # 0
  BY <1>0, <1>2, <1>3
<1>5. 2^(k - 1) <= 2^(j - 1) /\ 2^(j - 1) <= h
  BY <1>2, <1>4, PowersGrow
<1>6. 2^k = 2 * 2^(k - 1)
  <2> DEFINE i == k - 1
  <2>1. i \in 0 .. WordBits /\ i + 1 = k
    BY <1>4
  <2> HIDE DEF i
  <2>2. 2^(i + 1) = 2 * 2^i
    BY <2>1, PowersOfTwo
  <2>3. QED
    BY <2>1, <2>2 DEF i
<1>7. 2^(k - 1) \in Nat /\ 2^(j - 1) \in Nat
  BY <1>0, <1>4, PowersArePositive
<1> DEFINE u == 2^(k - 1)
           v == 2^(j - 1)
<1>8. u \in Nat /\ v \in Nat /\ u <= v /\ v <= h /\ n < 2 * u
  BY <1>2, <1>5, <1>6, <1>7
<1> HIDE DEF u, v
<1>9. QED
  BY <1>1, <1>8

(***************************************************************************)
(* The inductive invariant.                                                 *)
(***************************************************************************)
\* The number of bits of a word's magnitude.
Bits(n) == BitLength(Magnitude(n))

\* The length of a word, and of one that is two smaller.
LEMMA WordLength ==
  \A w \in Word :
    /\ Magnitude(w) \in Nat /\ Magnitude(w) < 2^WordBits /\ Bits(w) \in Nat
    /\ Magnitude(w - 2) \in Nat /\ Magnitude(w - 2) < 2^WordBits /\ Bits(w - 2) \in Nat
<1> SUFFICES ASSUME NEW w \in Word
             PROVE  /\ Magnitude(w) \in Nat /\ Magnitude(w) < 2^WordBits /\ Bits(w) \in Nat
                    /\ Magnitude(w - 2) \in Nat /\ Magnitude(w - 2) < 2^WordBits /\ Bits(w - 2) \in Nat
  OBVIOUS
<1> DEFINE m == Magnitude(w)
           k == Magnitude(w - 2)
<1>1. 2^WordBits = 2 * Half /\ Half \in Nat /\ Half > 2 /\ WordBits \in Nat
  BY HalfFacts, KernelFits, WordBitsAssumption
<1>2. m \in Nat /\ m < 2 * Half /\ k \in Nat /\ k < 2 * Half
  BY <1>1 DEF Word, Magnitude
<1> HIDE DEF m, k
<1>3. BitLength(m) \in 0 .. WordBits /\ BitLength(k) \in 0 .. WordBits
  BY <1>1, <1>2, LengthFacts
<1>4. BitLength(m) \in Nat /\ BitLength(k) \in Nat
  BY <1>1, <1>3
<1>5. QED
  BY <1>1, <1>2, <1>4 DEF Bits, m, k

\* The exponent is the prime less two, or a number of smaller magnitude where
\* that does not fit a word.
LEMMA ExponentFacts ==
  \A w \in Word : Bits(Sub(w, 2)) <= Bits(w - 2) /\ (w > 1 => Sub(w, 2) = w - 2)
<1> SUFFICES ASSUME NEW w \in Word
             PROVE  Bits(Sub(w, 2)) <= Bits(w - 2) /\ (w > 1 => Sub(w, 2) = w - 2)
  OBVIOUS
<1>1. w \in Int /\ Half \in Nat /\ Half > 2 /\ -Half <= w /\ w < Half
  BY HalfFacts, KernelFits DEF Word
<1>2. w - 2 \in Word => Sub(w, 2) = w - 2
  BY WrapOfWord DEF Sub
<1>3. w > 1 => w - 2 \in Word
  BY <1>1 DEF Word
<1>4. Bits(Sub(w, 2)) <= Bits(w - 2)
  <2>1. CASE w - 2 \in Word
    BY <1>2, <2>1, WordLength
  <2>2. CASE w - 2 \notin Word
    <3> DEFINE v == w - 2 + 2 * Half
    <3>1. v \in Word /\ v >= 0 /\ v <= -(w - 2) /\ w - 2 < 0
      BY <1>1, <2>2 DEF Word
    <3>2. Sub(w, 2) = v
      <4>1. ((w - 2) + Half) = (2 * Half) * (-1) + (v + Half) /\ v + Half \in 0 .. 2 * Half - 1
        BY <1>1, <3>1 DEF Word
      <4>2. 2 * Half \in Nat \ {0} /\ -1 \in Int
        BY <1>1
      <4> DEFINE h == 2 * Half
                 c == v + Half
      <4>3. (h * (-1) + c) % h = c
        <5>1. h \in Nat \ {0} /\ c \in 0 .. h - 1 /\ -1 \in Int
          BY <4>1, <4>2
        <5> HIDE DEF h, c
        <5>2. QED
          BY <5>1, RemainderIsUnique
      <4>4. ((w - 2) + Half) % (2 * Half) = c
        BY <4>1, <4>3
      <4>5. QED
        BY <1>1, <4>4 DEF Sub, Wrap
    <3> HIDE DEF v
    <3>3. Magnitude(v) <= Magnitude(w - 2)
      BY <1>1, <3>1 DEF Magnitude, Word
    <3>4. QED
      <4> DEFINE i == Magnitude(v)
                 j == Magnitude(w - 2)
      <4>1. i \in Nat /\ j \in Nat /\ j < 2^WordBits /\ i <= j
        BY <3>1, <3>3, WordLength
      <4> HIDE DEF i, j
      <4>2. BitLength(i) <= BitLength(j)
        BY <4>1, LengthOfSmaller
      <4>3. QED
        BY <3>2, <4>2 DEF Bits, i, j
  <2>3. QED
    BY <2>1, <2>2
<1>5. QED
  BY <1>2, <1>3, <1>4

\* DIV by two halves the magnitude (processor.cc:97-101): a negative exponent
\* reaches zero too.
LEMMA HalfOfWord ==
  \A w \in Word :
    /\ w >= 0 => Quot(w, 2) = w \div 2
    /\ w # 0 => Bits(Quot(w, 2)) + 1 <= Bits(w)
<1> SUFFICES ASSUME NEW w \in Word
             PROVE  /\ w >= 0 => Quot(w, 2) = w \div 2
                    /\ w # 0 => Bits(Quot(w, 2)) + 1 <= Bits(w)
  OBVIOUS
<1>1. w \in Int /\ Half \in Nat /\ Half > 2 /\ -Half <= w /\ w < Half
  BY HalfFacts, KernelFits DEF Word
<1> DEFINE m == Magnitude(w)
           h == m \div 2
           q == IF w < 0 THEN -h ELSE h
<1>2. m \in Nat /\ m <= Half /\ (w # 0 => m # 0) /\ (w >= 0 => m = w)
  BY <1>1 DEF Magnitude
<1>3. m < 2^WordBits
  BY WordLength
<1>4. Magnitude(2) = 2
  BY DEF Magnitude
<1>5. Quot(w, 2) = Wrap(q)
  <2>1. 2 # 0 /\ ~(2 < 0)
    OBVIOUS
  <2>2. Quot(w, 2) = Wrap(IF (w < 0) # (2 < 0) THEN -(Magnitude(w) \div Magnitude(2)) ELSE Magnitude(w) \div Magnitude(2))
    BY <2>1 DEF Quot
  <2>3. (w < 0) # (2 < 0) <=> w < 0
    BY <1>1
  <2>4. QED
    BY <1>4, <2>2, <2>3
<1> HIDE DEF m
<1>6. h \in Nat /\ 2 * h <= m
  BY <1>2
<1> HIDE DEF h
<1>7. q \in Word /\ Magnitude(q) = h
  BY <1>1, <1>2, <1>6 DEF Word, Magnitude
<1>8. Quot(w, 2) = q
  BY <1>5, <1>7, WrapOfWord
<1>9. w # 0 => BitLength(h) + 1 <= BitLength(m)
  BY <1>2, <1>3, LengthOfHalf DEF h
<1>10. QED
  <2>1. w >= 0 => q = w \div 2
    BY <1>1, <1>2 DEF h
  <2>2. w # 0 => Bits(Quot(w, 2)) + 1 <= Bits(w)
    BY <1>7, <1>8, <1>9 DEF Bits, m
  <2>3. QED
    BY <1>8, <2>1, <2>2

\* A call has begun, about this prime and x, and the owner has stored nothing since.
InCall == status \in {"running", "returned"}

Called == InCall => <<P, x>> \in Inputs

\* What the registers hold once their instruction has been passed, whatever the
\* numbers are; a call that is back stands behind the last instruction.
Registers ==
  InCall =>
    /\ pc \in 0 .. 18
    /\ status = "returned" => pc = 18
    /\ pc >= 1 => p = P
    /\ pc \in 2 .. 9 => regs[8] = 1
    /\ pc \in 3 .. 9 => regs[20] = x
    /\ pc \in 4 .. 16 => regs[22] = 1
    /\ pc \in 5 .. 16 => x # 1
    /\ pc \in 6 .. 7 => regs[21] = P
    /\ pc \in 7 .. 16 => regs[23] = 2
    /\ pc \in 8 .. 9 => regs[21] = Sub(P, 2)
    /\ pc \in 9 .. 16 => regs[0] = 0
    /\ pc \in 10 .. 13 => regs[21] # 0
    /\ pc = 16 => regs[21] # 0
    /\ pc = 11 => regs[13] = BitAnd(regs[21], 1)
    /\ pc = 12 => regs[21] % 2 = 1
    /\ pc = 18 => sram[OUT_ADDR] = regs[8]

\* The bits of the exponent that are left pay for the instructions to come.
Work ==
  InCall =>
    /\ pc \in 0 .. 9 => executed = pc
    /\ pc \in 10 .. 13 => executed + 7 * Bits(regs[21]) <= pc + 7 * Bits(P - 2)
    /\ pc \in 14 .. 16 => executed + 7 * Bits(regs[21]) <= pc - 7 + 7 * Bits(P - 2)
    /\ pc \in 17 .. 18 => executed <= pc - 7 + 7 * Bits(P - 2)

\* The power that the program is about, and what the loop has yet to multiply.
Goal == PowerMod(P, x, P - 2)

Value ==
  InCall /\ P > 1 /\ ProductsFit =>
    /\ pc \in 10 .. 16 => LoopValue(P, Goal, x < 0, pc - 10, regs[8], regs[20], regs[21])
    /\ pc \in 17 .. 18 => LoopValue(P, Goal, x < 0, 7, regs[8], regs[20], regs[21])

\* What holds of a call whoever makes it, ...
CallInvariant ==
  /\ ProcessorTypeOK
  /\ Mapped
  /\ Called
  /\ Registers
  /\ Value

\* ... and with the count of instructions, the inductive invariant.
KernelInvariant ==
  /\ CallInvariant
  /\ executed \in Nat
  /\ Work

(***************************************************************************)
(* Registers hold what the program put there.                               *)
(***************************************************************************)
\* A step is inside the program, and leaves the inputs and the call alone.
LEMMA StepInside ==
  ASSUME ProcessorTypeOK, Registers, Mapped, Step(MultInverseProg)
  PROVE  /\ status = "running" /\ status' = "running" /\ InCall /\ InCall'
         /\ pc \in 0 .. 17 /\ pc \in Nat
         /\ P' = P /\ x' = x
<1>1. status = "running" /\ pc < 18 /\ pc \in Nat
  BY Listing, PcAssumption DEF Step, Running, ProcessorTypeOK, Pc
<1>2. InCall /\ pc \in 0 .. 17
  BY <1>1 DEF Registers, InCall
<1>3. status' = status /\ (sram' = sram \/ sram' = [sram EXCEPT ![OUT_ADDR] = regs[8]])
  <2>1. CASE pc \in 0 .. 9
    <3>1. pc = 0 \/ pc = 1 \/ pc = 2 \/ pc = 3 \/ pc = 4 \/ pc = 5 \/ pc = 6 \/ pc = 7 \/ pc = 8 \/ pc = 9
      BY <2>1
    <3>2. QED
      BY <1>1, <3>1, SetupEffects DEF Wrote, BranchTo
  <2>2. CASE pc \in 10 .. 17
    <3>1. pc = 10 \/ pc = 11 \/ pc = 12 \/ pc = 13 \/ pc = 14 \/ pc = 15 \/ pc = 16 \/ pc = 17
      BY <2>2
    <3>2. QED
      BY <1>1, <3>1, LoopEffects DEF Wrote, BranchTo
  <2>3. QED
    BY <1>2, <2>1, <2>2
<1>4. P' = P /\ x' = x
  BY <1>3, NamesFit DEF ProcessorTypeOK, P, x
<1>5. QED
  BY <1>1, <1>2, <1>3, <1>4 DEF InCall

\* A write changes one register.
LEMMA AfterWrite ==
  \A d \in Reg : \A v :
    ProcessorTypeOK /\ Wrote(d, v) =>
      /\ regs'[d] = v
      /\ \A r \in Reg : r # d => regs'[r] = regs[r]
      /\ pc' = pc + 1 /\ sram' = sram /\ p' = p
BY DEF ProcessorTypeOK, Wrote

\* Each step of the kernel keeps what the registers hold for good, ...
LEMMA RegistersKept ==
  ASSUME ProcessorTypeOK, Registers, Mapped, Step(MultInverseProg)
  PROVE  Registers'
<1>1. /\ status = "running" /\ status' = "running" /\ InCall /\ InCall'
      /\ pc \in 0 .. 17 /\ pc \in Nat
      /\ P' = P /\ x' = x
  BY StepInside
<1>2. /\ 0 \in Reg /\ 8 \in Reg /\ 13 \in Reg /\ 20 \in Reg /\ 21 \in Reg /\ 22 \in Reg /\ 23 \in Reg
  BY NamesFit
<1>3. CASE pc = 0
  <2>1. p' = P /\ pc' = 1 /\ UNCHANGED <<sram, regs, status>>
    BY <1>1, <1>3, SetupEffects
  <2>2. QED
    BY <1>1, <1>3, <2>1 DEF Registers
<1>4. CASE pc = 1
  <2>1. Wrote(8, 1)
    BY <1>1, <1>4, SetupEffects
  <2>2. /\ regs'[8] = 1 /\ pc' = 2 /\ sram' = sram /\ p' = p
        /\ regs'[0] = regs[0] /\ regs'[13] = regs[13] /\ regs'[20] = regs[20] /\ regs'[21] = regs[21] /\ regs'[22] = regs[22] /\ regs'[23] = regs[23]
    BY <1>2, <1>4, <2>1, AfterWrite
  <2>3. QED
    BY <1>1, <1>4, <2>2 DEF Registers
<1>5. CASE pc = 2
  <2>1. Wrote(20, x)
    BY <1>1, <1>5, SetupEffects
  <2>2. /\ regs'[20] = x /\ pc' = 3 /\ sram' = sram /\ p' = p
        /\ regs'[0] = regs[0] /\ regs'[8] = regs[8] /\ regs'[13] = regs[13] /\ regs'[21] = regs[21] /\ regs'[22] = regs[22] /\ regs'[23] = regs[23]
    BY <1>2, <1>5, <2>1, AfterWrite
  <2>3. QED
    BY <1>1, <1>5, <2>2 DEF Registers
<1>6. CASE pc = 3
  <2>1. Wrote(22, 1)
    BY <1>1, <1>6, SetupEffects
  <2>2. /\ regs'[22] = 1 /\ pc' = 4 /\ sram' = sram /\ p' = p
        /\ regs'[0] = regs[0] /\ regs'[8] = regs[8] /\ regs'[13] = regs[13] /\ regs'[20] = regs[20] /\ regs'[21] = regs[21] /\ regs'[23] = regs[23]
    BY <1>2, <1>6, <2>1, AfterWrite
  <2>3. QED
    BY <1>1, <1>6, <2>2 DEF Registers
<1>7. CASE pc = 4
  <2>1. BranchTo(20, 22, 17)
    BY <1>1, <1>7, SetupEffects
  <2>2. QED
    BY <1>1, <1>7, <2>1 DEF Registers, BranchTo
<1>8. CASE pc = 5
  <2>1. Wrote(21, P)
    BY <1>1, <1>8, SetupEffects
  <2>2. /\ regs'[21] = P /\ pc' = 6 /\ sram' = sram /\ p' = p
        /\ regs'[0] = regs[0] /\ regs'[8] = regs[8] /\ regs'[13] = regs[13] /\ regs'[20] = regs[20] /\ regs'[22] = regs[22] /\ regs'[23] = regs[23]
    BY <1>2, <1>8, <2>1, AfterWrite
  <2>3. QED
    BY <1>1, <1>8, <2>2 DEF Registers
<1>9. CASE pc = 6
  <2>1. Wrote(23, 2)
    BY <1>1, <1>9, SetupEffects
  <2>2. /\ regs'[23] = 2 /\ pc' = 7 /\ sram' = sram /\ p' = p
        /\ regs'[0] = regs[0] /\ regs'[8] = regs[8] /\ regs'[13] = regs[13] /\ regs'[20] = regs[20] /\ regs'[21] = regs[21] /\ regs'[22] = regs[22]
    BY <1>2, <1>9, <2>1, AfterWrite
  <2>3. QED
    BY <1>1, <1>9, <2>2 DEF Registers
<1>10. CASE pc = 7
  <2>1. Wrote(21, Sub(regs[21], regs[23]))
    BY <1>1, <1>10, SetupEffects
  <2>2. /\ regs'[21] = Sub(regs[21], regs[23]) /\ pc' = 8 /\ sram' = sram /\ p' = p
        /\ regs'[0] = regs[0] /\ regs'[8] = regs[8] /\ regs'[13] = regs[13] /\ regs'[20] = regs[20] /\ regs'[22] = regs[22] /\ regs'[23] = regs[23]
    BY <1>2, <1>10, <2>1, AfterWrite
  <2>3. QED
    BY <1>1, <1>10, <2>2 DEF Registers
<1>11. CASE pc = 8
  <2>1. Wrote(0, 0)
    BY <1>1, <1>11, SetupEffects
  <2>2. /\ regs'[0] = 0 /\ pc' = 9 /\ sram' = sram /\ p' = p
        /\ regs'[8] = regs[8] /\ regs'[13] = regs[13] /\ regs'[20] = regs[20] /\ regs'[21] = regs[21] /\ regs'[22] = regs[22] /\ regs'[23] = regs[23]
    BY <1>2, <1>11, <2>1, AfterWrite
  <2>3. QED
    BY <1>1, <1>11, <2>2 DEF Registers
<1>12. CASE pc = 9
  <2>1. BranchTo(21, 0, 17)
    BY <1>1, <1>12, SetupEffects
  <2>2. QED
    BY <1>1, <1>12, <2>1 DEF Registers, BranchTo
<1>13. CASE pc = 10
  <2>1. Wrote(13, BitAnd(regs[21], regs[22]))
    BY <1>1, <1>13, LoopEffects
  <2>2. /\ regs'[13] = BitAnd(regs[21], regs[22]) /\ pc' = 11 /\ sram' = sram /\ p' = p
        /\ regs'[0] = regs[0] /\ regs'[8] = regs[8] /\ regs'[20] = regs[20] /\ regs'[21] = regs[21] /\ regs'[22] = regs[22] /\ regs'[23] = regs[23]
    BY <1>2, <1>13, <2>1, AfterWrite
  <2>3. QED
    BY <1>1, <1>13, <2>2 DEF Registers
<1>14. CASE pc = 11
  <2>1. BranchTo(13, 0, 13)
    BY <1>1, <1>14, LoopEffects
  <2>2. regs[21] \in Word /\ regs[0] = 0 /\ regs[13] = BitAnd(regs[21], 1) /\ Half > 1 /\ Half \in Nat
    BY <1>1, <1>2, <1>14, NamesFit DEF Registers, ProcessorTypeOK
  <2>3. regs[13] # regs[0] => regs[21] % 2 = 1
    BY <2>2, LastBit
  <2>4. QED
    BY <1>1, <1>14, <2>1, <2>3 DEF Registers, BranchTo
<1>15. CASE pc = 12
  <2>1. Wrote(8, Rem(Mul(regs[8], regs[20]), p))
    BY <1>1, <1>15, LoopEffects
  <2>2. /\ regs'[8] = Rem(Mul(regs[8], regs[20]), p) /\ pc' = 13 /\ sram' = sram /\ p' = p
        /\ regs'[0] = regs[0] /\ regs'[13] = regs[13] /\ regs'[20] = regs[20] /\ regs'[21] = regs[21] /\ regs'[22] = regs[22] /\ regs'[23] = regs[23]
    BY <1>2, <1>15, <2>1, AfterWrite
  <2>3. QED
    BY <1>1, <1>15, <2>2 DEF Registers
<1>16. CASE pc = 13
  <2>1. Wrote(21, Quot(regs[21], regs[23]))
    BY <1>1, <1>16, LoopEffects
  <2>2. /\ regs'[21] = Quot(regs[21], regs[23]) /\ pc' = 14 /\ sram' = sram /\ p' = p
        /\ regs'[0] = regs[0] /\ regs'[8] = regs[8] /\ regs'[13] = regs[13] /\ regs'[20] = regs[20] /\ regs'[22] = regs[22] /\ regs'[23] = regs[23]
    BY <1>2, <1>16, <2>1, AfterWrite
  <2>3. QED
    BY <1>1, <1>16, <2>2 DEF Registers
<1>17. CASE pc = 14
  <2>1. Wrote(20, Rem(Mul(regs[20], regs[20]), p))
    BY <1>1, <1>17, LoopEffects
  <2>2. /\ regs'[20] = Rem(Mul(regs[20], regs[20]), p) /\ pc' = 15 /\ sram' = sram /\ p' = p
        /\ regs'[0] = regs[0] /\ regs'[8] = regs[8] /\ regs'[13] = regs[13] /\ regs'[21] = regs[21] /\ regs'[22] = regs[22] /\ regs'[23] = regs[23]
    BY <1>2, <1>17, <2>1, AfterWrite
  <2>3. QED
    BY <1>1, <1>17, <2>2 DEF Registers
<1>18. CASE pc = 15
  <2>1. BranchTo(21, 0, 17)
    BY <1>1, <1>18, LoopEffects
  <2>2. QED
    BY <1>1, <1>18, <2>1 DEF Registers, BranchTo
<1>19. CASE pc = 16
  <2>1. BranchTo(0, 0, 10)
    BY <1>1, <1>19, LoopEffects
  <2>2. QED
    BY <1>1, <1>19, <2>1 DEF Registers, BranchTo
<1>20. CASE pc = 17
  <2>1. sram' = [sram EXCEPT ![OUT_ADDR] = regs[8]] /\ pc' = 18 /\ UNCHANGED <<regs, p, status>>
    BY <1>1, <1>20, LoopEffects
  <2>2. sram'[OUT_ADDR] = regs'[8]
    BY <2>1, NamesFit DEF ProcessorTypeOK
  <2>3. QED
    BY <1>1, <1>20, <2>1, <2>2 DEF Registers
<1>21. QED
  BY <1>1, <1>3, <1>4, <1>5, <1>6, <1>7, <1>8, <1>9, <1>10, <1>11, <1>12, <1>13, <1>14, <1>15, <1>16, <1>17, <1>18, <1>19, <1>20

(***************************************************************************)
(* The work.                                                                *)
(***************************************************************************)
LEMMA WorkKept ==
  ASSUME ProcessorTypeOK, Registers, Mapped, Work, Step(MultInverseProg),
         executed \in Nat, executed' = executed + 1
  PROVE  Work'
<1>1. /\ status = "running" /\ status' = "running" /\ InCall /\ InCall'
      /\ pc \in 0 .. 17 /\ pc \in Nat
      /\ P' = P /\ x' = x
  BY StepInside
<1>2. 0 \in Reg /\ 8 \in Reg /\ 13 \in Reg /\ 20 \in Reg /\ 21 \in Reg /\ 22 \in Reg /\ 23 \in Reg
  BY NamesFit
<1>3. P \in Word /\ regs[21] \in Word
  BY <1>2, NamesFit DEF ProcessorTypeOK, P
<1> DEFINE b == Bits(P - 2)
           e == Bits(regs[21])
<1>4. b \in Nat /\ e \in Nat /\ Bits(P' - 2) = b
  BY <1>1, <1>3, WordLength
<1>5. Work' = (/\ pc' \in 0 .. 9 => executed' = pc'
               /\ pc' \in 10 .. 13 => executed' + 7 * Bits(regs'[21]) <= pc' + 7 * b
               /\ pc' \in 14 .. 16 => executed' + 7 * Bits(regs'[21]) <= pc' - 7 + 7 * b
               /\ pc' \in 17 .. 18 => executed' <= pc' - 7 + 7 * b)
  BY <1>1, <1>4 DEF Work
<1>6. /\ pc \in 0 .. 9 => executed = pc
      /\ pc \in 10 .. 13 => executed + 7 * e <= pc + 7 * b
      /\ pc \in 14 .. 16 => executed + 7 * e <= pc - 7 + 7 * b
      /\ pc \in 17 .. 18 => executed <= pc - 7 + 7 * b
  BY <1>1 DEF Work
<1>7. pc = 9 => e <= b
  BY <1>1, <1>3, ExponentFacts DEF Registers
<1> HIDE DEF b
<1>8. CASE pc \in 0 .. 8
  <2>1. pc = 0 \/ pc = 1 \/ pc = 2 \/ pc = 3 \/ pc = 4 \/ pc = 5 \/ pc = 6 \/ pc = 7 \/ pc = 8
    BY <1>8
  <2>2. pc' = pc + 1 \/ (pc = 4 /\ pc' = 17)
    BY <1>1, <2>1, SetupEffects DEF Wrote, BranchTo
  <2>3. QED
    BY <1>4, <1>5, <1>6, <1>8, <2>2
<1>9. CASE pc \in {9, 15, 16}
  <2>1. /\ regs' = regs
        /\ pc = 9 => pc' \in {10, 17}
        /\ pc = 15 => pc' \in {16, 17}
        /\ pc = 16 => pc' = 10
    BY <1>1, <1>9, SetupEffects, LoopEffects DEF BranchTo
  <2>2. Bits(regs'[21]) = e
    BY <2>1
  <2> HIDE DEF e
  <2>3. QED
    BY <1>4, <1>5, <1>6, <1>7, <1>9, <2>1, <2>2
<1>10. CASE pc \in {10, 11, 12, 14}
  <2>1. /\ regs'[21] = regs[21]
        /\ pc' = pc + 1 \/ (pc = 11 /\ pc' = 13)
    <3>1. CASE pc = 11
      BY <1>1, <3>1, LoopEffects DEF BranchTo
    <3>2. CASE pc # 11
      <4>1. \/ Wrote(13, BitAnd(regs[21], regs[22]))
            \/ Wrote(8, Rem(Mul(regs[8], regs[20]), p))
            \/ Wrote(20, Rem(Mul(regs[20], regs[20]), p))
        BY <1>1, <1>10, <3>2, LoopEffects
      <4>2. QED
        BY <1>2, <4>1, AfterWrite
    <3>3. QED
      BY <3>1, <3>2
  <2>2. Bits(regs'[21]) = e
    BY <2>1
  <2> HIDE DEF e
  <2>3. QED
    BY <1>4, <1>5, <1>6, <1>10, <2>1, <2>2
<1>11. CASE pc = 13
  <2>1. Wrote(21, Quot(regs[21], regs[23])) /\ regs[23] = 2 /\ regs[21] # 0
    BY <1>1, <1>11, LoopEffects DEF Registers
  <2>2. regs'[21] = Quot(regs[21], 2) /\ pc' = 14
    BY <1>2, <1>11, <2>1, AfterWrite
  <2> DEFINE h == Bits(regs'[21])
  <2>3. h \in Nat /\ h + 1 <= e
    <3>1. 2 \in Word
      BY NamesFit
    <3>2. regs'[21] \in Word
      BY <1>3, <2>2, <3>1, ArithmeticIsWord
    <3>3. QED
      BY <1>3, <2>1, <2>2, <3>2, HalfOfWord, WordLength
  <2>4. executed' + 7 * h <= pc' - 7 + 7 * b => Work'
    <3> HIDE DEF e
    <3>1. QED
      BY <1>5, <2>2
  <2>5. executed + 7 * e <= pc + 7 * b
    BY <1>6, <1>11
  <2> HIDE DEF e, h
  <2>6. executed' + 7 * h <= pc' - 7 + 7 * b
    BY <1>4, <1>11, <2>2, <2>3, <2>5
  <2>7. QED
    BY <2>4, <2>6
<1>12. CASE pc = 17
  <2>1. pc' = 18
    BY <1>1, <1>12, LoopEffects
  <2>2. QED
    BY <1>4, <1>5, <1>6, <1>12, <2>1
<1>13. QED
  BY <1>1, <1>8, <1>9, <1>10, <1>11, <1>12

(***************************************************************************)
(* The value.                                                               *)
(***************************************************************************)
LEMMA ValueKept ==
  ASSUME ProcessorTypeOK, Registers, Mapped, Value, Step(MultInverseProg)
  PROVE  Value'
<1>1. /\ status = "running" /\ status' = "running" /\ InCall /\ InCall'
      /\ pc \in 0 .. 17 /\ pc \in Nat
      /\ P' = P /\ x' = x
  BY StepInside
<1> SUFFICES ASSUME P > 1, ProductsFit PROVE Value'
  BY <1>1 DEF Value, ProductsFit
<1>2. 0 \in Reg /\ 8 \in Reg /\ 13 \in Reg /\ 20 \in Reg /\ 21 \in Reg /\ 22 \in Reg /\ 23 \in Reg
  BY NamesFit
<1> DEFINE G == Goal
           a == regs[8]
           v == regs[20]
           e == regs[21]
           s == x < 0
<1>3. /\ P \in Word /\ x \in Word /\ P \in Int /\ x \in Int /\ P \in Nat \ {0}
      /\ a \in Word /\ v \in Word /\ e \in Word
  <2>1. P \in Word /\ x \in Word /\ a \in Word /\ v \in Word /\ e \in Word
    BY <1>2, NamesFit DEF ProcessorTypeOK, P, x
  <2>2. P \in Int /\ x \in Int
    BY <2>1, WordFacts
  <2>3. P \in Nat \ {0}
    BY <2>2
  <2>4. QED
    BY <2>1, <2>2, <2>3
<1>4. G \in Int /\ G = PowerMod(P, x, P - 2) /\ s \in BOOLEAN
  <2>1. P - 2 \in Nat
    BY <1>3
  <2>2. PowerMod(P, x, P - 2) \in 0 .. P - 1
    BY <1>3, <2>1, PowerFacts
  <2>3. QED
    BY <1>3, <2>2 DEF Goal
<1>5. ASSUME /\ pc' \in 10 .. 16 => LoopValue(P, G, s, pc' - 10, regs'[8], regs'[20], regs'[21])
             /\ pc' \in 17 .. 18 => LoopValue(P, G, s, 7, regs'[8], regs'[20], regs'[21])
      PROVE Value'
  BY <1>1, <1>5 DEF Value, Goal
<1>6. /\ pc \in 10 .. 16 => LoopValue(P, G, s, pc - 10, a, v, e)
      /\ pc \in 17 .. 18 => LoopValue(P, G, s, 7, a, v, e)
  BY <1>1 DEF Value
<1> HIDE DEF G, a, v, e, s
<1>7. CASE pc \in 0 .. 8 /\ pc # 4
  <2>1. pc' = pc + 1
    <3>1. pc = 0 \/ pc = 1 \/ pc = 2 \/ pc = 3 \/ pc = 5 \/ pc = 6 \/ pc = 7 \/ pc = 8
      BY <1>7
    <3>2. QED
      BY <1>1, <3>1, SetupEffects DEF Wrote
  <2>2. QED
    BY <1>5, <1>7, <2>1
<1>8. \A w, i : Same(P, 1, G) => LoopValue(P, G, s, 7, 1, w, i)
  BY <1>3 DEF LoopValue
<1>9. CASE pc = 4
  <2>1. regs' = regs /\ (pc' = 5 \/ (pc' = 17 /\ x = 1)) /\ a = 1
    BY <1>1, <1>9, SetupEffects DEF BranchTo, Registers, a
  <2>2. x = 1 => Same(P, 1, G)
    <3>1. P - 2 \in Nat
      BY <1>3
    <3>2. QED
      BY <1>3, <1>4, <3>1, TrivialPowers
  <2>3. regs'[8] = 1
    BY <2>1 DEF a
  <2>4. QED
    BY <1>5, <1>8, <2>1, <2>2, <2>3
<1>10. CASE pc = 9
  <2>1. regs' = regs /\ (pc' = 10 \/ (pc' = 17 /\ e = 0)) /\ a = 1 /\ v = x /\ e = P - 2
    <3>1. Sub(P, 2) = P - 2
      BY <1>3, ExponentFacts
    <3>2. QED
      BY <1>1, <1>10, <3>1, SetupEffects DEF BranchTo, Registers, a, v, e
  <2>2. regs'[8] = 1 /\ regs'[20] = x /\ regs'[21] = P - 2
    BY <2>1 DEF a, v, e
  <2>3. e = 0 => Same(P, 1, G)
    <3>1. P - 2 \in Nat
      BY <1>3
    <3>2. QED
      BY <1>3, <1>4, <2>1, <3>1, TrivialPowers
  <2>4. LoopValue(P, G, s, 0, 1, x, P - 2)
    BY <1>3, <1>4, LoopBegins DEF ProductsFit, s
  <2>5. QED
    BY <1>5, <1>8, <2>1, <2>2, <2>3, <2>4
<1>11. CASE pc \in 10 .. 16
  <2>1. LoopMove(P, pc - 10, a, v, e, pc' - 10, regs'[8], regs'[20], regs'[21]) /\ pc' \in 10 .. 17
    <3>1. /\ p = P /\ regs[0] = 0 /\ regs[22] = 1 /\ regs[23] = 2
          /\ pc = 11 => regs[13] = BitAnd(e, 1)
          /\ pc = 12 => e % 2 = 1
      BY <1>1, <1>11 DEF Registers, e
    <3>2. CASE pc \in {10, 12, 13, 14}
      <4>1. /\ pc = 10 => Wrote(13, BitAnd(e, 1))
            /\ pc = 12 => Wrote(8, Rem(Mul(a, v), P))
            /\ pc = 13 => Wrote(21, Quot(e, 2))
            /\ pc = 14 => Wrote(20, Rem(Mul(v, v), P))
        BY <1>1, <3>1, LoopEffects DEF a, v, e
      <4>2. /\ pc' = pc + 1
            /\ regs'[8] = IF pc = 12 THEN Rem(Mul(a, v), P) ELSE a
            /\ regs'[20] = IF pc = 14 THEN Rem(Mul(v, v), P) ELSE v
            /\ regs'[21] = IF pc = 13 THEN Quot(e, 2) ELSE e
        BY <1>2, <3>2, <4>1, AfterWrite DEF a, v, e
      <4>3. QED
        BY <3>1, <3>2, <4>2 DEF LoopMove
    <3>3. CASE pc \in {11, 15, 16}
      <4>1. /\ pc = 11 => BranchTo(13, 0, 13)
            /\ pc = 15 => BranchTo(21, 0, 17)
            /\ pc = 16 => BranchTo(0, 0, 10)
        BY <1>1, LoopEffects
      <4>2. BitAnd(e, 1) = IF e % 2 = 1 THEN 1 ELSE 0
        BY <1>3, NamesFit, LastBit
      <4>3. /\ regs'[8] = a /\ regs'[20] = v /\ regs'[21] = e
            /\ pc = 11 => pc' = 12 \/ (pc' = 13 /\ e % 2 # 1)
            /\ pc = 15 => pc' = 16 \/ (pc' = 17 /\ e = 0)
            /\ pc = 16 => pc' = 10
        BY <3>1, <3>3, <4>1, <4>2 DEF BranchTo, a, v, e
      <4>4. QED
        BY <3>3, <4>3 DEF LoopMove
    <3>4. QED
      BY <1>11, <3>2, <3>3
  <2>2. LoopValue(P, G, s, pc' - 10, regs'[8], regs'[20], regs'[21])
    <3> DEFINE j == pc - 10
               k == pc' - 10
    <3>1. j \in 0 .. 6 /\ Half > 2 /\ (P - 1) * (P - 1) < Half /\ P > 1
      BY <1>11, NamesFit DEF ProductsFit
    <3>2. LoopValue(P, G, s, j, a, v, e)
      BY <1>6, <1>11
    <3>3. LoopMove(P, j, a, v, e, k, regs'[8], regs'[20], regs'[21])
      BY <2>1
    <3> HIDE DEF j, k
    <3>4. LoopValue(P, G, s, k, regs'[8], regs'[20], regs'[21])
      BY <1>3, <1>4, <3>1, <3>2, <3>3, LoopValueKept
    <3>5. QED
      BY <3>4 DEF k
  <2>3. QED
    <3>1. pc' = 17 => pc' - 10 = 7
      OBVIOUS
    <3>2. QED
      BY <1>5, <2>1, <2>2, <3>1
<1>12. CASE pc = 17
  <2>1. pc' = 18 /\ regs'[8] = a /\ regs'[20] = v /\ regs'[21] = e
    BY <1>1, <1>12, LoopEffects DEF a, v, e
  <2>2. QED
    BY <1>5, <1>6, <1>12, <2>1
<1>13. QED
  BY <1>1, <1>7, <1>9, <1>10, <1>11, <1>12

(***************************************************************************)
(* The invariant holds.                                                     *)
(***************************************************************************)
LEMMA MappedKept ==
  ASSUME Mapped, RunProgram(MultInverseProg) \/ Step(MultInverseProg)
  PROVE  Mapped'
<1>1. CASE RunProgram(MultInverseProg)
  <2>1. labels' = LabelPass(MultInverseProg)
    BY <1>1 DEF RunProgram
  <2>2. ASSUME NEW l \in DOMAIN Places PROVE l \in DOMAIN labels' /\ labels'[l] = Places[l]
    <3>1. l \in LabelsOf(MultInverseProg) /\ LastAt(MultInverseProg, l) = Places[l]
      BY PlacesAreFound
    <3>2. QED
      BY <2>1, <3>1 DEF LabelPass
  <2>3. QED
    BY <2>2 DEF Mapped
<1>2. CASE Step(MultInverseProg)
  <2>1. status = "running" /\ Execute(Fetch(MultInverseProg))
    BY <1>2 DEF Step, Running
  <2>2. \A l \in DOMAIN labels : l \in DOMAIN labels' /\ labels'[l] = labels[l]
    BY <2>1, ExecuteKeepsLabels
  <2>3. QED
    BY <2>1, <2>2 DEF Mapped
<1>3. QED
  BY <1>1, <1>2

\* The initial states satisfy the invariant, ...
LEMMA InitHolds == Init => KernelInvariant
<1> SUFFICES ASSUME Init PROVE KernelInvariant
  OBVIOUS
<1>1. status = "idle" /\ executed = 0 /\ pc = 0 /\ labels = <<>>
  BY DEF Init, ProcessorInit
<1>2. ProcessorTypeOK
  <2>1. PICK m \in Boot : sram = m.sram /\ regs = m.regs /\ p = m.p
    BY DEF Init, ProcessorInit
  <2>2. sram \in [Addr -> Word] /\ regs \in [Reg -> Word] /\ p \in Word
    BY <2>1, BootAssumption
  <2>3. 0 \in Pc /\ DOMAIN labels = {}
    BY <1>1, PcAssumption DEF Pc
  <2>4. QED
    BY <1>1, <2>2, <2>3 DEF ProcessorTypeOK, Status
<1>3. QED
  BY <1>1, <1>2 DEF KernelInvariant, CallInvariant, Mapped, Called, Registers, Work, Value, InCall

\* The owner's stores are of words, at two different addresses.
LEMMA StoreFacts ==
  ASSUME ProcessorTypeOK, StoreInputs
  PROVE  /\ sram' \in [Addr -> Word] /\ <<P', x'>> \in Inputs /\ P' \in Word /\ x' \in Word
         /\ sram'[OUT_ADDR] = sram[OUT_ADDR]
<1>1. PICK in \in Inputs : sram' = [sram EXCEPT ![P_ADDR] = in[1], ![X_ADDR] = in[2]]
  BY DEF StoreInputs
<1>2. in[1] \in Word /\ in[2] \in Word /\ in = <<in[1], in[2]>>
  BY InputsAssumption
<1>3. P_ADDR \in Addr /\ X_ADDR \in Addr /\ OUT_ADDR \in Addr /\ P_ADDR # X_ADDR /\ OUT_ADDR # P_ADDR /\ OUT_ADDR # X_ADDR
  BY NamesFit DEF P_ADDR, X_ADDR
<1>4. sram \in [Addr -> Word]
  BY DEF ProcessorTypeOK
<1>5. sram'[P_ADDR] = in[1] /\ sram'[X_ADDR] = in[2] /\ sram' \in [Addr -> Word]
  BY <1>1, <1>2, <1>3, <1>4
<1>6. sram'[OUT_ADDR] = sram[OUT_ADDR]
  BY <1>1, <1>3, <1>4
<1>7. QED
  BY <1>2, <1>5, <1>6 DEF P, x

\* Each part of a call keeps what holds of it, ...
LEMMA CallKept ==
  ASSUME CallInvariant,
         \/ RunProgram(MultInverseProg) /\ <<P, x>> \in Inputs
         \/ Step(MultInverseProg) \/ Trap(MultInverseProg) \/ Finish(MultInverseProg)
         \/ UNCHANGED <<sram, regs, p, pc, labels, status>>
  PROVE  CallInvariant'
<1>1. ProcessorTypeOK /\ Mapped /\ Called /\ Registers /\ Value
  BY DEF CallInvariant
<1>2. CASE RunProgram(MultInverseProg) /\ <<P, x>> \in Inputs
  <2>1. ProcessorTypeOK' /\ Mapped'
    BY <1>1, <1>2, ProgIsAddressable, RunTyped, MappedKept
  <2>2. pc' = 0 /\ status' = "running" /\ P' = P /\ x' = x
    BY <1>2 DEF RunProgram, P, x
  <2>3. Called' /\ Registers' /\ Value'
    BY <1>2, <2>2 DEF Called, Registers, Value
  <2>4. QED
    BY <2>1, <2>3 DEF CallInvariant
<1>3. CASE Step(MultInverseProg)
  <2>1. ProcessorTypeOK' /\ Mapped' /\ Registers' /\ Value'
    BY <1>1, <1>3, ProgIsAddressable, RunTyped, MappedKept, RegistersKept, ValueKept
  <2>2. Called'
    BY <1>1, <1>3, StepInside DEF Called
  <2>3. QED
    BY <2>1, <2>2 DEF CallInvariant
<1>4. CASE Trap(MultInverseProg)
  <2>1. ProcessorTypeOK' /\ status' = "crashed"
    BY <1>1, <1>4, ProgIsAddressable, RunTyped DEF Trap, Crash
  <2>2. QED
    BY <2>1 DEF CallInvariant, Mapped, Called, Registers, Value, InCall
<1>5. CASE Finish(MultInverseProg)
  <2>1. /\ ProcessorTypeOK' /\ status = "running" /\ status' = "returned"
        /\ UNCHANGED <<sram, regs, p, pc, labels>>
        /\ pc >= 18
    BY <1>1, <1>5, ProgIsAddressable, RunTyped, Listing DEF Finish
  <2>2. InCall /\ InCall' /\ pc = 18 /\ P' = P /\ x' = x
    BY <1>1, <2>1 DEF InCall, Registers, P, x
  <2>3. Called' /\ Registers' /\ Mapped'
    BY <1>1, <2>1, <2>2 DEF Called, Registers, Mapped
  <2>4. Value'
    BY <1>1, <2>1, <2>2 DEF Value, Goal, ProductsFit
  <2>5. QED
    BY <2>1, <2>3, <2>4 DEF CallInvariant
<1>6. CASE UNCHANGED <<sram, regs, p, pc, labels, status>>
  <2>1. ProcessorTypeOK' = ProcessorTypeOK /\ Mapped' = Mapped /\ Called' = Called /\ Registers' = Registers
    BY <1>6 DEF ProcessorTypeOK, Mapped, Called, Registers, InCall, P, x
  <2>2. Value' = Value
    BY <1>6 DEF Value, Goal, ProductsFit, InCall, P, x
  <2>3. QED
    BY <1>1, <2>1, <2>2 DEF CallInvariant
<1>7. QED
  BY <1>2, <1>3, <1>4, <1>5, <1>6

\* ... and each step of the kernel and its owner the whole invariant.
LEMMA NextKeeps == KernelInvariant /\ [Next]_vars => KernelInvariant'
<1> SUFFICES ASSUME KernelInvariant, [Next]_vars PROVE KernelInvariant'
  OBVIOUS
<1>1. /\ CallInvariant /\ executed \in Nat /\ Work
      /\ ProcessorTypeOK /\ Mapped /\ Called /\ Registers /\ Value
  BY DEF KernelInvariant, CallInvariant
<1>2. CASE StoreInputs
  <2>1. ProcessorTypeOK'
    BY <1>1, <1>2, StoreFacts DEF StoreInputs, ProcessorTypeOK, Status
  <2>2. status' = "idle" /\ executed' = 0
    BY <1>2 DEF StoreInputs
  <2>3. QED
    BY <2>1, <2>2 DEF KernelInvariant, CallInvariant, Mapped, Called, Registers, Work, Value, InCall
<1>3. CASE Call
  <2>1. RunProgram(MultInverseProg) /\ <<P, x>> \in Inputs /\ executed' = 0
    BY <1>3 DEF Call, P, x
  <2>2. CallInvariant'
    BY <1>1, <2>1, CallKept
  <2>3. pc' = 0
    BY <2>1 DEF RunProgram
  <2>4. Work'
    BY <2>1, <2>3 DEF Work
  <2>5. QED
    BY <2>1, <2>2, <2>4 DEF KernelInvariant
<1>4. CASE Step(MultInverseProg) /\ executed' = executed + 1
  <2>1. CallInvariant' /\ Work'
    BY <1>1, <1>4, CallKept, WorkKept
  <2>2. QED
    BY <1>1, <1>4, <2>1 DEF KernelInvariant
<1>5. CASE Trap(MultInverseProg) /\ UNCHANGED executed
  <2>1. CallInvariant' /\ status' = "crashed"
    BY <1>1, <1>5, CallKept DEF Trap, Crash
  <2>2. QED
    BY <1>1, <1>5, <2>1 DEF KernelInvariant, Work, InCall
<1>6. CASE Finish(MultInverseProg) /\ UNCHANGED executed
  <2>1. CallInvariant'
    BY <1>1, <1>6, CallKept
  <2>2. status = "running" /\ UNCHANGED <<sram, regs, pc, executed>>
    BY <1>6 DEF Finish
  <2>3. InCall /\ P' = P
    BY <2>2 DEF InCall, P
  <2>4. Work'
    BY <1>1, <2>2, <2>3 DEF Work
  <2>5. QED
    BY <1>1, <2>1, <2>2, <2>4 DEF KernelInvariant
<1>7. CASE UNCHANGED vars
  <2>1. UNCHANGED <<sram, regs, p, pc, labels, status>> /\ executed' = executed
    BY <1>7 DEF vars, procVars
  <2>2. CallInvariant'
    BY <1>1, <2>1, CallKept
  <2>3. Work' = Work
    BY <2>1 DEF Work, InCall, P
  <2>4. QED
    BY <1>1, <2>1, <2>2, <2>3 DEF KernelInvariant
<1>8. QED
  BY <1>2, <1>3, <1>4, <1>5, <1>6, <1>7 DEF Next, RunStep

\* The inductive invariant of the kernel holds in every reachable state.
THEOREM Invariance == Spec => []KernelInvariant
<1>1. QED
  BY InitHolds, NextKeeps, PTL DEF Spec

\* Every member of the Processor keeps its C++ type through the kernel.
THEOREM TypeCorrect == Spec => []ProcessorTypeOK
<1>1. KernelInvariant => ProcessorTypeOK
  BY DEF KernelInvariant, CallInvariant
<1>2. QED
  BY Invariance, <1>1, PTL

\* The recursive definition of the power is the one that the lemmas are about.
LEMMA PowerIsPowerMod ==
  ASSUME P \in Nat \ {0}, NEW b \in Int, NEW e \in Nat
  PROVE  Power(b, e) = PowerMod(P, b, e)
<1> DEFINE n == P
           g == [k \in Nat |-> b]
           Q(f) == f = [k \in 0 .. e |-> IF k = 0 THEN 1 % n ELSE (f[k - 1] * b) % n]
           f == CHOOSE h : Q(h)
<1>1. Power(b, e) = f[e]
  BY DEF Power
<1>2. Factors(g, e) /\ n \in Nat \ {0}
  BY DEF Factors
<1>3. PICK run \in [0 .. e -> 0 .. n - 1] : IsRun(run, n, g, e)
  <2> HIDE DEF g, n
  <2>1. QED
    BY <1>2, RunExists
<1>4. ASSUME NEW h PROVE Q(h) <=> IsRun(h, n, g, e)
  <2>1. \A k \in 0 .. e : k # 0 => g[k] = b
    OBVIOUS
  <2> HIDE DEF g, n
  <2>2. \A k \in 0 .. e : (IF k = 0 THEN 1 % n ELSE (h[k - 1] * b) % n)
                         = (IF k = 0 THEN 1 % n ELSE (h[k - 1] * g[k]) % n)
    BY <2>1
  <2>3. [k \in 0 .. e |-> IF k = 0 THEN 1 % n ELSE (h[k - 1] * b) % n]
          = [k \in 0 .. e |-> IF k = 0 THEN 1 % n ELSE (h[k - 1] * g[k]) % n]
    BY <2>2
  <2>4. QED
    BY <2>3 DEF IsRun
<1>5. Q(run)
  BY <1>3, <1>4
<1>6. Q(f)
  <2> HIDE DEF Q
  <2>1. QED
    BY <1>5
<1>7. IsRun(f, n, g, e)
  <2> HIDE DEF f
  <2>1. QED
    BY <1>4, <1>6
<1>8. ProductMod(n, g, e) = f[e]
  <2> HIDE DEF f, g, n
  <2>1. e \in 0 .. e
    OBVIOUS
  <2>2. QED
    BY <1>2, <1>7, <2>1, ProductOfRun
<1>9. QED
  BY <1>1, <1>8 DEF PowerMod

\* For every prime, x and modulus: at the head of the loop the partial result and
\* the power still to be computed make up x^(P-2), and a call never runs more
\* instructions than the bits of the exponent allow.
THEOREM LoopIsInvariant == Spec => []LoopInvariant
<1>1. KernelInvariant => LoopInvariant
  <2> SUFFICES ASSUME KernelInvariant PROVE LoopInvariant
    OBVIOUS
  <2>1. ProcessorTypeOK /\ executed \in Nat /\ Registers /\ Work /\ Value
    BY DEF KernelInvariant, CallInvariant
  <2>2. P \in Word /\ x \in Word /\ regs[8] \in Word /\ regs[20] \in Word /\ regs[21] \in Word
    BY <2>1, NamesFit DEF ProcessorTypeOK, P, x
  <2>3. P \in Int /\ x \in Int /\ regs[8] \in Int /\ regs[20] \in Int /\ regs[21] \in Int
    BY <2>2, WordFacts
  <2>4. ASSUME status = "running", pc = 10, P > 1, ProductsFit
        PROVE  (regs[8] * Power(regs[20], regs[21])) % P = Power(x, P - 2)
    <3> DEFINE a == regs[8]
               u == PowerMod(P, regs[20], regs[21])
               G == PowerMod(P, x, P - 2)
    <3>1. regs[21] \in Nat /\ P - 2 \in Nat /\ P \in Nat \ {0} /\ Same(P, u * a, G)
      BY <2>1, <2>3, <2>4 DEF Value, InCall, LoopValue, Goal
    <3>2. Power(regs[20], regs[21]) = u /\ Power(x, P - 2) = G
      BY <2>3, <3>1, PowerIsPowerMod
    <3>3. u \in 0 .. P - 1 /\ G \in 0 .. P - 1
      BY <2>3, <3>1, PowerFacts
    <3>4. u \in Int /\ G \in Int /\ a \in Int
      BY <2>3, <3>3
    <3> HIDE DEF u, G, a
    <3> DEFINE t == u * a
    <3>5. t \in Int /\ a * u = t
      BY <3>4
    <3>6. Same(P, t, G)
      BY <3>1
    <3> HIDE DEF t
    <3>7. t % P = G % P
      BY <3>1, <3>4, <3>5, <3>6, SameIff
    <3>8. G % P = G
      BY <3>1, <3>3, ResidueIsItself
    <3>9. QED
      BY <3>2, <3>5, <3>7, <3>8 DEF a
  <2>5. ASSUME status = "running" PROVE executed <= 11 + 7 * BitLength(Magnitude(P - 2))
    <3> DEFINE b == Bits(P - 2)
               e == Bits(regs[21])
    <3>1. b \in Nat /\ e \in Nat /\ b = BitLength(Magnitude(P - 2))
      BY <2>2, WordLength DEF Bits
    <3>2. /\ pc \in 0 .. 18
          /\ pc \in 0 .. 9 => executed = pc
          /\ pc \in 10 .. 13 => executed + 7 * e <= pc + 7 * b
          /\ pc \in 14 .. 16 => executed + 7 * e <= pc - 7 + 7 * b
          /\ pc \in 17 .. 18 => executed <= pc - 7 + 7 * b
      BY <2>1, <2>5 DEF Work, Registers, InCall
    <3>0. pc \in 10 .. 13 => e >= 1
      <4>1. Quot(regs[21], 2) \in Word
        BY <2>2, NamesFit, ArithmeticIsWord
      <4>2. regs[21] # 0 => Bits(Quot(regs[21], 2)) + 1 <= e
        BY <2>2, HalfOfWord
      <4> DEFINE h == Bits(Quot(regs[21], 2))
      <4>3. h \in Nat
        BY <4>1, WordLength
      <4> HIDE DEF h
      <4>4. regs[21] # 0 => h + 1 <= e
        BY <4>2 DEF h
      <4>5. pc \in 10 .. 13 => regs[21] # 0
        BY <2>1, <2>5 DEF Registers, InCall
      <4> HIDE DEF e
      <4>6. QED
        BY <3>1, <4>3, <4>4, <4>5
    <3> HIDE DEF b, e
    <3>3. executed <= 11 + 7 * b
      <4>1. pc \in 0 .. 9 \/ pc \in 10 .. 13 \/ pc \in 14 .. 16 \/ pc \in 17 .. 18
        BY <3>2
      <4>2. executed \in Nat
        BY <2>1
      <4>3. CASE pc \in 10 .. 13
        <5>1. e >= 1
          BY <3>0, <4>3
        <5>2. QED
          BY <3>1, <3>2, <4>2, <4>3, <5>1
      <4>4. QED
        BY <3>1, <3>2, <4>1, <4>2, <4>3
    <3>4. QED
      BY <3>1, <3>3
  <2>6. QED
    BY <2>4, <2>5 DEF LoopInvariant
<1>2. QED
  BY Invariance, <1>1, PTL

(***************************************************************************)
(* The answer.                                                              *)
(***************************************************************************)
\* The inputs for which the owner's prime is small enough for the word: MULP
\* multiplies before it reduces (processor.cc:139-147).
InputsFit ==
  \A in \in Inputs :
    Abstract!HasInverse(in[1], in[2]) =>
      in[2] * in[2] < Half /\ (in[1] - 1) * (in[1] - 1) < Half

\* At "done" R8 is an inverse, as small as the abstract one promises.
LEMMA AnswerIsInverse ==
  ASSUME CallInvariant, InputsFit, InCall, pc \in 17 .. 18, Abstract!HasInverse(P, x)
  PROVE  regs[8] \in Abstract!Inverses(P, x) /\ (x * regs[8]) % P = 1
<1>1. ProcessorTypeOK /\ Value /\ <<P, x>> \in Inputs
  BY DEF CallInvariant, Called
<1>2. P \in Word /\ x \in Word /\ regs[8] \in Word
  BY <1>1, NamesFit DEF ProcessorTypeOK, P, x
<1>3. P \in Int /\ x \in Int /\ regs[8] \in Int
  BY <1>2, WordFacts
<1>4. IsPrime(P) /\ x % P # 0 /\ P > 1
  BY DEF Abstract!HasInverse, Abstract!IsPrime, IsPrime
<1>5. ProductsFit
  <2>1. x * x < Half /\ (P - 1) * (P - 1) < Half
    <3> DEFINE in == <<P, x>>
    <3>1. in \in Inputs /\ in[1] = P /\ in[2] = x
      BY <1>1
    <3> HIDE DEF in
    <3>2. QED
      BY <3>1 DEF InputsFit
  <2>2. QED
    BY <2>1 DEF ProductsFit
<1>6. -P < regs[8] /\ regs[8] < P /\ (x >= 0 => regs[8] >= 0) /\ Same(P, regs[8], Goal)
  <2>1. LoopValue(P, Goal, x < 0, 7, regs[8], regs[20], regs[21])
    BY <1>1, <1>4, <1>5 DEF Value
  <2>2. QED
    BY <1>3, <2>1 DEF LoopValue
<1>7. (x * regs[8]) % P = 1
  BY <1>3, <1>4, <1>6, GoalIsInverse DEF Goal
<1>8. regs[8] \in 1 - P .. P - 1
  BY <1>3, <1>6
<1>9. QED
  BY <1>6, <1>7, <1>8 DEF Abstract!Inverses

\* For every word width and every prime whose square fits a word: a call that is
\* back has left an inverse of x, by Fermat's little theorem.
THEOREM InversesAreCorrect ==
  ASSUME InputsFit
  PROVE  Spec => []InverseCorrect
<1>1. KernelInvariant => InverseCorrect
  <2> SUFFICES ASSUME KernelInvariant, status = "returned", Abstract!HasInverse(P, x)
               PROVE  (x * sram[OUT_ADDR]) % P = 1
    BY DEF InverseCorrect
  <2>1. CallInvariant /\ InCall /\ pc = 18 /\ sram[OUT_ADDR] = regs[8]
    BY DEF KernelInvariant, CallInvariant, Registers, InCall
  <2>2. QED
    BY <2>1, AnswerIsInverse
<1>2. QED
  BY Invariance, <1>1, PTL

(***************************************************************************)
(* The kernel implements the abstract inverse.                              *)
(***************************************************************************)
\* No instruction of the kernel lacks an operand, and the divisor of its DIV is
\* two: the call ends early only on a modulus that a machine cannot divide by.
LEMMA TrapsOnModulus ==
  ASSUME KernelInvariant, Trap(MultInverseProg)
  PROVE  P \in {0, -1} /\ pc < 18
<1> DEFINE q == MultInverseProg
           i == Fetch(q)
<1>1. /\ status = "running" /\ pc < 18 /\ i = q[pc + 1]
      /\ Executable(i) => DivideTraps(i)
      /\ ProcessorTypeOK /\ Registers
  BY Listing DEF Trap, Running, Fetch, KernelInvariant, CallInvariant
<1>2. pc \in 0 .. 17 /\ (pc >= 1 => p = P) /\ (pc = 13 => regs[23] = 2) /\ regs[21] \in Word
  <2>1. pc \in 0 .. 18 /\ (pc >= 1 => p = P) /\ (pc \in 7 .. 16 => regs[23] = 2)
    BY <1>1 DEF Registers, InCall
  <2>2. QED
    BY <1>1, <2>1, NamesFit DEF ProcessorTypeOK
<1> HIDE DEF i
<1>3. ~DivUndefined(regs[21], 2)
  BY DEF DivUndefined
<1>4. CASE pc \in 0 .. 9 /\ pc # 7
  <2>1. Plain(i)
    <3>1. pc = 0 \/ pc = 1 \/ pc = 2 \/ pc = 3 \/ pc = 4 \/ pc = 5 \/ pc = 6 \/ pc = 8 \/ pc = 9
      BY <1>4
    <3>2. /\ pc = 0 => Is(i, LoadPrime(P_ADDR))
          /\ pc = 1 => Is(i, Set(1, 8))
          /\ pc = 2 => Is(i, Load(X_ADDR, 20))
          /\ pc = 3 => Is(i, Set(1, 22))
          /\ pc = 4 => Is(i, BranchEq(20, 22, "done"))
          /\ pc = 5 => Is(i, Load(P_ADDR, 21))
          /\ pc = 6 => Is(i, Set(2, 23))
          /\ pc = 8 => Is(i, Set(0, 0))
          /\ pc = 9 => Is(i, BranchEq(21, 0, "done"))
      BY <1>1, Listing, IsItself, AtIs
    <3>3. QED
      BY <3>1, <3>2 DEF Plain
  <2>2. QED
    BY <1>1, <2>1, OthersRun
<1>5. CASE pc \in {11, 15, 16, 17}
  <2>1. Plain(i)
    <3>1. /\ pc = 11 => Is(i, BranchEq(13, 0, "next"))
          /\ pc = 15 => Is(i, BranchEq(21, 0, "done"))
          /\ pc = 16 => Is(i, BranchEq(0, 0, "while"))
          /\ pc = 17 => Is(i, Store(8, OUT_ADDR))
      BY <1>1, Listing, IsItself, AtIs
    <3>2. QED
      BY <1>5, <3>1 DEF Plain
  <2>2. QED
    BY <1>1, <2>1, OthersRun
<1>6. CASE pc \in {7, 10, 12, 13, 14}
  <2>1. /\ pc = 7 => Is(i, Op2("SUB", 21, 23, 21))
        /\ pc = 10 => Is(i, Op2("AND", 21, 22, 13))
        /\ pc = 12 => Is(i, Op2("MULP", 8, 20, 8))
        /\ pc = 13 => Is(i, Op2("DIV", 21, 23, 21))
        /\ pc = 14 => Is(i, Op2("MULP", 20, 20, 20))
    BY <1>1, Listing, IsItself, AtIs
  <2>2. CASE pc \in {7, 10}
    <3>1. Executable(i) /\ ~DivideTraps(i)
      BY <2>1, <2>2, Op2Runs
    <3>2. QED
      BY <1>1, <3>1
  <2>3. CASE pc = 13
    <3>1. Executable(i) /\ (DivideTraps(i) => DivUndefined(regs[21], regs[23]))
      BY <2>1, <2>3, Op2Runs
    <3>2. QED
      BY <1>1, <1>2, <1>3, <2>3, <3>1
  <2>4. CASE pc \in {12, 14}
    <3>1. Executable(i) /\ (DivideTraps(i) => p \in {0, -1})
      BY <2>1, <2>4, Op2Runs
    <3>2. QED
      BY <1>1, <1>2, <2>4, <3>1
  <2>5. QED
    BY <1>6, <2>2, <2>3, <2>4
<1>7. QED
  BY <1>2, <1>4, <1>5, <1>6

\* Every step of the kernel is a step of the abstract inverse, or none.
LEMMA StepImplements ==
  ASSUME InputsFit, KernelInvariant, [Next]_vars
  PROVE  [Abstract!Next]_(Abstract!vars)
<1>1. CallInvariant /\ ProcessorTypeOK /\ Registers /\ Mapped /\ Len(MultInverseProg) = 18
  BY Listing DEF KernelInvariant, CallInvariant
<1>2. phase = IF status = "running" THEN IF pc < 18 THEN "computing" ELSE "answered" ELSE status
  BY <1>1 DEF phase
<1>3. phase' = IF status' = "running" THEN IF pc' < 18 THEN "computing" ELSE "answered" ELSE status'
  BY <1>1 DEF phase
<1>4. CASE StoreInputs
  <2>1. <<P', x'>> \in Inputs /\ P' \in Word /\ x' \in Word /\ sram'[OUT_ADDR] = sram[OUT_ADDR]
    BY <1>1, <1>4, StoreFacts
  <2>2. status \in {"idle", "returned"} /\ status' = "idle"
    BY <1>4 DEF StoreInputs
  <2>3. Abstract!Ask
    BY <1>2, <1>3, <2>1, <2>2 DEF Abstract!Ask
  <2>4. QED
    BY <2>3 DEF Abstract!Next
<1>5. CASE Call
  <2>1. /\ status \in {"idle", "returned"} /\ status' = "running" /\ pc' = 0
        /\ P' = P /\ x' = x /\ sram' = sram
    BY <1>5 DEF Call, RunProgram, P, x
  <2>2. Abstract!Begin
    BY <1>2, <1>3, <2>1 DEF Abstract!Begin
  <2>3. QED
    BY <2>2 DEF Abstract!Next
<1>6. CASE Step(MultInverseProg)
  <2>1. /\ status = "running" /\ status' = "running" /\ InCall
        /\ pc \in 0 .. 17 /\ pc \in Nat
        /\ P' = P /\ x' = x
    BY <1>1, <1>6, StepInside
  <2>2. CASE pc = 17
    <3>1. sram' = [sram EXCEPT ![OUT_ADDR] = regs[8]] /\ pc' = 18
      BY <1>1, <1>6, <2>2, LoopEffects
    <3>2. sram'[OUT_ADDR] = regs[8] /\ regs[8] \in Word
      BY <1>1, <3>1, NamesFit DEF ProcessorTypeOK
    <3>3. Abstract!HasInverse(P, x) => regs[8] \in Abstract!Inverses(P, x)
      BY <1>1, <2>1, <2>2, AnswerIsInverse
    <3>4. phase = "computing" /\ phase' = "answered"
      BY <1>2, <1>3, <2>1, <2>2, <3>1
    <3>5. Abstract!Answer
      BY <2>1, <3>2, <3>3, <3>4 DEF Abstract!Answer
    <3>6. QED
      BY <3>5 DEF Abstract!Next
  <2>3. CASE pc \in 0 .. 16
    <3>1. pc' \in 0 .. 17 /\ sram' = sram
      <4>1. CASE pc \in 0 .. 9
        <5>1. pc = 0 \/ pc = 1 \/ pc = 2 \/ pc = 3 \/ pc = 4 \/ pc = 5 \/ pc = 6 \/ pc = 7 \/ pc = 8 \/ pc = 9
          BY <4>1
        <5>2. QED
          BY <1>1, <1>6, <2>1, <5>1, SetupEffects DEF Wrote, BranchTo
      <4>2. CASE pc \in 10 .. 16
        <5>1. pc = 10 \/ pc = 11 \/ pc = 12 \/ pc = 13 \/ pc = 14 \/ pc = 15 \/ pc = 16
          BY <4>2
        <5>2. QED
          BY <1>1, <1>6, <2>1, <5>1, LoopEffects DEF Wrote, BranchTo
      <4>3. QED
        BY <2>3, <4>1, <4>2
    <3>2. phase = "computing" /\ phase' = "computing"
      BY <1>2, <1>3, <2>1, <2>3, <3>1
    <3>3. QED
      BY <2>1, <3>1, <3>2 DEF Abstract!vars
  <2>4. QED
    BY <2>1, <2>2, <2>3
<1>7. CASE Trap(MultInverseProg)
  <2>1. P \in {0, -1} /\ pc < 18 /\ status = "running" /\ status' = "crashed" /\ sram' = sram
    BY <1>7, TrapsOnModulus DEF Trap, Running, Crash
  <2>2. P' = P /\ x' = x /\ phase = "computing" /\ phase' = "crashed"
    BY <1>2, <1>3, <2>1 DEF P, x
  <2>3. Abstract!Trap
    BY <2>1, <2>2 DEF Abstract!Trap
  <2>4. QED
    BY <2>3 DEF Abstract!Next
<1>8. CASE Finish(MultInverseProg)
  <2>1. status = "running" /\ pc >= 18 /\ status' = "returned" /\ sram' = sram /\ pc \in Int
    BY <1>1, <1>8, PcAssumption DEF Finish, ProcessorTypeOK, Pc
  <2>2. P' = P /\ x' = x /\ phase = "answered" /\ phase' = "returned"
    BY <1>2, <1>3, <2>1 DEF P, x
  <2>3. Abstract!Finish
    BY <2>1, <2>2 DEF Abstract!Finish
  <2>4. QED
    BY <2>3 DEF Abstract!Next
<1>9. CASE UNCHANGED vars
  <2>1. sram' = sram /\ P' = P /\ x' = x /\ phase' = phase
    BY <1>2, <1>3, <1>9 DEF vars, procVars, P, x
  <2>2. QED
    BY <2>1 DEF Abstract!vars
<1>10. QED
  BY <1>4, <1>5, <1>6, <1>7, <1>8, <1>9 DEF Next, RunStep

\* For every word width, and all inputs whose prime's square fits a word, the
\* kernel does nothing that the abstract inverse may not do.
THEOREM InverseIsImplemented ==
  ASSUME InputsFit
  PROVE  Spec => Abstract!Init /\ [][Abstract!Next]_(Abstract!vars)
<1>1. Init => Abstract!Init
  <2> SUFFICES ASSUME Init PROVE Abstract!Init
    OBVIOUS
  <2>1. ProcessorTypeOK /\ status = "idle"
    BY InitHolds DEF KernelInvariant, CallInvariant, Init, ProcessorInit
  <2>2. P \in Word /\ x \in Word /\ sram[OUT_ADDR] \in Word /\ phase = "idle"
    BY <2>1, NamesFit DEF ProcessorTypeOK, P, x, phase
  <2>3. QED
    BY <2>2 DEF Abstract!Init
<1>2. KernelInvariant /\ [Next]_vars => [Abstract!Next]_(Abstract!vars)
  BY StepImplements
<1>3. QED
  BY Invariance, <1>1, <1>2, PTL DEF Spec
=============================================================================

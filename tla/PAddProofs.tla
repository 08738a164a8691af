----------------------------- MODULE PAddProofs -----------------------------
(***************************************************************************)
(* Theorems about the point-addition kernel.                                *)
(***************************************************************************)
EXTENDS PAdd, ProcessorProofs

(***************************************************************************)
(* The program.                                                             *)
(***************************************************************************)
\* The instructions of the kernel, by their places (padd.h:143-440).
LEMMA Listing ==
  /\ Len(PAddProg) = 65
  /\ PAddProg[1] = LoadPrime(P_ADDR)
  /\ PAddProg[2] = Load(A_ADDR, 6)
  /\ PAddProg[3] = Load(P_ADDR, 5)
  /\ PAddProg[4] = Load(Z_ADDR, 12)
  /\ PAddProg[5] = Set(0, 0)
  /\ PAddProg[6] = Load(X1_ADDR, 1)
  /\ PAddProg[7] = Load(Y1_ADDR, 2)
  /\ PAddProg[8] = Load(X2_ADDR, 3)
  /\ PAddProg[9] = Load(Y2_ADDR, 4)
  /\ PAddProg[10] = Op2("OR", 1, 2, 13)
  /\ PAddProg[11] = Op2("ADD", 3, 0, 8)
  /\ PAddProg[12] = Op2("ADD", 4, 0, 9)
  /\ PAddProg[13] = BranchEq(13, 12, "done")
  /\ PAddProg[14] = Op2("OR", 3, 4, 13)
  /\ PAddProg[15] = Op2("ADD", 1, 0, 8)
  /\ PAddProg[16] = Op2("ADD", 2, 0, 9)
  /\ PAddProg[17] = BranchEq(13, 12, "done")
  /\ PAddProg[18] = BranchEq(1, 3, "xsame")
  /\ PAddProg[19] = Op2("SUBP", 2, 4, 13)
  /\ PAddProg[20] = Op2("ADDP", 13, 5, 14)
  /\ PAddProg[21] = Op2("SUBP", 1, 3, 15)
  /\ PAddProg[22] = Op2("ADDP", 15, 5, 20)
  /\ PAddProg[23] = JumpLink("call_multinv", 10)
  /\ PAddProg[24] = Op2("MULP", 14, 8, 7)
  /\ PAddProg[25] = BranchEq(0, 0, "intersect")
  /\ PAddProg[26] = At("call_multinv", Set(1, 8))
  /\ PAddProg[27] = Set(1, 22)
  /\ PAddProg[28] = BranchEq(20, 22, "mi_done")
  /\ PAddProg[29] = Set(2, 23)
  /\ PAddProg[30] = Op2("SUB", 5, 23, 21)
  /\ PAddProg[31] = BranchEq(21, 0, "mi_done")
  /\ PAddProg[32] = At("while", Op2("AND", 21, 22, 13))
  /\ PAddProg[33] = BranchEq(13, 0, "next")
  /\ PAddProg[34] = Op2("MULP", 8, 20, 8)
  /\ PAddProg[35] = At("next", Op2("DIV", 21, 23, 21))
  /\ PAddProg[36] = Op2("MULP", 20, 20, 20)
  /\ PAddProg[37] = BranchEq(21, 0, "mi_done")
  /\ PAddProg[38] = BranchEq(0, 0, "while")
  /\ PAddProg[39] = At("mi_done", Return(10))
  /\ PAddProg[40] = At("xsame", BranchEq(2, 4, "ysame"))
  /\ PAddProg[41] = Op2("OR", 5, 5, 8)
  /\ PAddProg[42] = Op2("OR", 12, 12, 9)
  /\ PAddProg[43] = BranchEq(0, 0, "done")
  /\ PAddProg[44] = At("ysame", Op2("MULP", 1, 1, 13))
  /\ PAddProg[45] = Set(3, 14)
  /\ PAddProg[46] = Op2("MULP", 13, 14, 15)
  /\ PAddProg[47] = Op2("ADDP", 15, 6, 16)
  /\ PAddProg[48] = Set(2, 14)
  /\ PAddProg[49] = Op2("MULP", 2, 14, 20)
  /\ PAddProg[50] = JumpLink("call_multinv", 10)
  /\ PAddProg[51] = Op2("MULP", 16, 8, 7)
  /\ PAddProg[52] = At("intersect", Op2("MULP", 7, 1, 13))
  /\ PAddProg[53] = Op2("ADDP", 2, 5, 17)
  /\ PAddProg[54] = Op2("SUBP", 17, 13, 14)
  /\ PAddProg[55] = Op2("MULP", 7, 7, 15)
  /\ PAddProg[56] = Op2("SUBP", 5, 1, 16)
  /\ PAddProg[57] = Op2("SUBP", 5, 3, 17)
  /\ PAddProg[58] = Op2("ADDP", 16, 17, 18)
  /\ PAddProg[59] = Op2("ADDP", 15, 18, 8)
  /\ PAddProg[60] = Op2("MULP", 7, 8, 13)
  /\ PAddProg[61] = Op2("SUBP", 5, 13, 15)
  /\ PAddProg[62] = Op2("SUBP", 5, 14, 16)
  /\ PAddProg[63] = Op2("ADDP", 15, 16, 9)
  /\ PAddProg[64] = At("done", Store(8, OUT_ADDR1))
  /\ PAddProg[65] = Store(9, OUT_ADDR2)
  /\ PAddProg = [k \in 1 .. 65 |-> PAddProg[k]]
BY DEF PAddProg, LoadArguments, ZeroCases, Chord, Subroutine, SameX, Tangent, Intersect, StoreSum

\* The same by parts: the loads of the arguments, ...
LEMMA LoadListing ==
  /\ PAddProg[1] = LoadPrime(P_ADDR)
  /\ PAddProg[2] = Load(A_ADDR, 6)
  /\ PAddProg[3] = Load(P_ADDR, 5)
  /\ PAddProg[4] = Load(Z_ADDR, 12)
  /\ PAddProg[5] = Set(0, 0)
  /\ PAddProg[6] = Load(X1_ADDR, 1)
  /\ PAddProg[7] = Load(Y1_ADDR, 2)
  /\ PAddProg[8] = Load(X2_ADDR, 3)
  /\ PAddProg[9] = Load(Y2_ADDR, 4)
BY Listing

\* ... the tests for zero, ...
LEMMA ZeroListing ==
  /\ PAddProg[10] = Op2("OR", 1, 2, 13)
  /\ PAddProg[11] = Op2("ADD", 3, 0, 8)
  /\ PAddProg[12] = Op2("ADD", 4, 0, 9)
  /\ PAddProg[13] = BranchEq(13, 12, "done")
  /\ PAddProg[14] = Op2("OR", 3, 4, 13)
  /\ PAddProg[15] = Op2("ADD", 1, 0, 8)
  /\ PAddProg[16] = Op2("ADD", 2, 0, 9)
  /\ PAddProg[17] = BranchEq(13, 12, "done")
  /\ PAddProg[18] = BranchEq(1, 3, "xsame")
BY Listing

\* ... the chord, ...
LEMMA ChordListing ==
  /\ PAddProg[19] = Op2("SUBP", 2, 4, 13)
  /\ PAddProg[20] = Op2("ADDP", 13, 5, 14)
  /\ PAddProg[21] = Op2("SUBP", 1, 3, 15)
  /\ PAddProg[22] = Op2("ADDP", 15, 5, 20)
  /\ PAddProg[23] = JumpLink("call_multinv", 10)
  /\ PAddProg[24] = Op2("MULP", 14, 8, 7)
  /\ PAddProg[25] = BranchEq(0, 0, "intersect")
BY Listing

\* ... the beginning of the subroutine, ...
LEMMA CallListing ==
  /\ PAddProg[26] = At("call_multinv", Set(1, 8))
  /\ PAddProg[27] = Set(1, 22)
  /\ PAddProg[28] = BranchEq(20, 22, "mi_done")
  /\ PAddProg[29] = Set(2, 23)
  /\ PAddProg[30] = Op2("SUB", 5, 23, 21)
  /\ PAddProg[31] = BranchEq(21, 0, "mi_done")
BY Listing

\* ... its loop and its return, ...
LEMMA LoopListing ==
  /\ PAddProg[32] = At("while", Op2("AND", 21, 22, 13))
  /\ PAddProg[33] = BranchEq(13, 0, "next")
  /\ PAddProg[34] = Op2("MULP", 8, 20, 8)
  /\ PAddProg[35] = At("next", Op2("DIV", 21, 23, 21))
  /\ PAddProg[36] = Op2("MULP", 20, 20, 20)
  /\ PAddProg[37] = BranchEq(21, 0, "mi_done")
  /\ PAddProg[38] = BranchEq(0, 0, "while")
  /\ PAddProg[39] = At("mi_done", Return(10))
BY Listing

\* ... two points with the same x, ...
LEMMA SameXListing ==
  /\ PAddProg[40] = At("xsame", BranchEq(2, 4, "ysame"))
  /\ PAddProg[41] = Op2("OR", 5, 5, 8)
  /\ PAddProg[42] = Op2("OR", 12, 12, 9)
  /\ PAddProg[43] = BranchEq(0, 0, "done")
BY Listing

\* ... the tangent, ...
LEMMA TangentListing ==
  /\ PAddProg[44] = At("ysame", Op2("MULP", 1, 1, 13))
  /\ PAddProg[45] = Set(3, 14)
  /\ PAddProg[46] = Op2("MULP", 13, 14, 15)
  /\ PAddProg[47] = Op2("ADDP", 15, 6, 16)
  /\ PAddProg[48] = Set(2, 14)
  /\ PAddProg[49] = Op2("MULP", 2, 14, 20)
  /\ PAddProg[50] = JumpLink("call_multinv", 10)
  /\ PAddProg[51] = Op2("MULP", 16, 8, 7)
BY Listing

\* ... what the line gives up to the two terms of x3, ...
LEMMA LineListing ==
  /\ PAddProg[52] = At("intersect", Op2("MULP", 7, 1, 13))
  /\ PAddProg[53] = Op2("ADDP", 2, 5, 17)
  /\ PAddProg[54] = Op2("SUBP", 17, 13, 14)
  /\ PAddProg[55] = Op2("MULP", 7, 7, 15)
  /\ PAddProg[56] = Op2("SUBP", 5, 1, 16)
  /\ PAddProg[57] = Op2("SUBP", 5, 3, 17)
BY Listing

\* ... and the sum.
LEMMA SumListing ==
  /\ PAddProg[58] = Op2("ADDP", 16, 17, 18)
  /\ PAddProg[59] = Op2("ADDP", 15, 18, 8)
  /\ PAddProg[60] = Op2("MULP", 7, 8, 13)
  /\ PAddProg[61] = Op2("SUBP", 5, 13, 15)
  /\ PAddProg[62] = Op2("SUBP", 5, 14, 16)
  /\ PAddProg[63] = Op2("ADDP", 15, 16, 9)
  /\ PAddProg[64] = At("done", Store(8, OUT_ADDR1))
  /\ PAddProg[65] = Store(9, OUT_ADDR2)
BY Listing

\* What the program names exists.
LEMMA NamesFit ==
  /\ \A r \in 0 .. 23 : r \in Reg
  /\ \A a \in 0 .. 11 : a \in Addr
  /\ P_ADDR = 0 /\ A_ADDR = 1 /\ B_ADDR = 2 /\ Z_ADDR = 3 /\ X1_ADDR = 4 /\ Y1_ADDR = 5
  /\ X2_ADDR = 6 /\ Y2_ADDR = 7 /\ OUT_ADDR1 = 10 /\ OUT_ADDR2 = 11
  /\ 0 \in Word /\ 1 \in Word /\ 2 \in Word /\ 3 \in Word
  /\ Half \in Nat /\ Half > 3 /\ PcModulus \in Nat /\ PcModulus > 65
BY KernelFits, SizeAssumption, HalfFacts, PcAssumption
   DEF Reg, Addr, Word, P_ADDR, A_ADDR, B_ADDR, Z_ADDR, X1_ADDR, Y1_ADDR, X2_ADDR, Y2_ADDR,
       OUT_ADDR1, OUT_ADDR2

\* The registers ...
LEMMA RegistersExist ==
  /\ 0 \in Reg /\ 1 \in Reg /\ 2 \in Reg /\ 3 \in Reg /\ 4 \in Reg /\ 5 \in Reg /\ 6 \in Reg /\ 7 \in Reg
  /\ 8 \in Reg /\ 9 \in Reg /\ 10 \in Reg /\ 12 \in Reg /\ 13 \in Reg /\ 14 \in Reg /\ 15 \in Reg
  /\ 16 \in Reg /\ 17 \in Reg /\ 18 \in Reg /\ 20 \in Reg /\ 21 \in Reg /\ 22 \in Reg /\ 23 \in Reg
BY NamesFit

\* ... and the addresses of the program.
LEMMA AddressesExist ==
  /\ P_ADDR \in Addr /\ A_ADDR \in Addr /\ B_ADDR \in Addr /\ Z_ADDR \in Addr
  /\ X1_ADDR \in Addr /\ Y1_ADDR \in Addr /\ X2_ADDR \in Addr /\ Y2_ADDR \in Addr
  /\ OUT_ADDR1 \in Addr /\ OUT_ADDR2 \in Addr
BY NamesFit

\* The kernel is a program that pc_ can address.
LEMMA ProgIsAddressable == Addressable(PAddProg)
<1>1. /\ "call_multinv" \in STRING /\ "while" \in STRING /\ "next" \in STRING /\ "mi_done" \in STRING
      /\ "xsame" \in STRING /\ "ysame" \in STRING /\ "intersect" \in STRING /\ "done" \in STRING
  BY AddLabels
<1>2. /\ "ADD" \in Opcode /\ "SUB" \in Opcode /\ "AND" \in Opcode /\ "OR" \in Opcode
      /\ "ADDP" \in Opcode /\ "SUBP" \in Opcode /\ "MULP" \in Opcode /\ "DIV" \in Opcode
  BY DEF Opcode
<1>3. 0 \in Word /\ 1 \in Word /\ 2 \in Word /\ 3 \in Word
  BY NamesFit
<1>4. \A m \in STRING :
       \A r, s \in Reg, l \in STRING : BranchEq(r, s, l) \in Instruction /\ At(m, BranchEq(r, s, l)) \in Instruction
  BY GeneratedIsTyped
<1>5. \A m \in STRING :
       \A op \in Opcode, r, s, d \in Reg : Op2(op, r, s, d) \in Instruction /\ At(m, Op2(op, r, s, d)) \in Instruction
  BY GeneratedIsTyped
<1>6. \A m \in STRING :
       \A v \in Word, d \in Reg : Set(v, d) \in Instruction /\ At(m, Set(v, d)) \in Instruction
  BY GeneratedIsTyped
<1>7. \A m \in STRING :
       \A a \in Addr, d \in Reg : Load(a, d) \in Instruction
  BY GeneratedIsTyped
<1>8. \A m \in STRING :
       \A a \in Addr, r \in Reg : Store(r, a) \in Instruction /\ At(m, Store(r, a)) \in Instruction
  BY GeneratedIsTyped
<1>9. \A m \in STRING :
       \A a \in Addr : LoadPrime(a) \in Instruction
  BY GeneratedIsTyped
<1>10. \A m \in STRING :
       \A l \in STRING, d \in Reg : JumpLink(l, d) \in Instruction
  BY GeneratedIsTyped
<1>11. \A m \in STRING :
       \A r \in Reg : At(m, Return(r)) \in Instruction
  BY GeneratedIsTyped
<1>12. ASSUME NEW k \in 1 .. 65 PROVE PAddProg[k] \in Instruction
  <2>1. CASE k \in 1 .. 9
    <3>1. LoadPrime(P_ADDR) \in Instruction
      BY <1>1, <1>2, <1>3, <1>9, RegistersExist, AddressesExist
    <3>2. /\ Load(A_ADDR, 6) \in Instruction
          /\ Load(P_ADDR, 5) \in Instruction
          /\ Load(Z_ADDR, 12) \in Instruction
          /\ Load(X1_ADDR, 1) \in Instruction
          /\ Load(Y1_ADDR, 2) \in Instruction
          /\ Load(X2_ADDR, 3) \in Instruction
          /\ Load(Y2_ADDR, 4) \in Instruction
      BY <1>1, <1>2, <1>3, <1>7, RegistersExist, AddressesExist
    <3>3. Set(0, 0) \in Instruction
      BY <1>1, <1>2, <1>3, <1>6, RegistersExist, AddressesExist
    <3>4. k = 1 \/ k = 2 \/ k = 3 \/ k = 4 \/ k = 5 \/ k = 6 \/ k = 7 \/ k = 8 \/ k = 9
      BY <2>1
    <3>5. QED
      BY <3>1, <3>2, <3>3, <3>4, LoadListing
  <2>2. CASE k \in 10 .. 18
    <3>1. /\ Op2("OR", 1, 2, 13) \in Instruction
          /\ Op2("ADD", 3, 0, 8) \in Instruction
          /\ Op2("ADD", 4, 0, 9) \in Instruction
          /\ Op2("OR", 3, 4, 13) \in Instruction
          /\ Op2("ADD", 1, 0, 8) \in Instruction
          /\ Op2("ADD", 2, 0, 9) \in Instruction
      BY <1>1, <1>2, <1>3, <1>5, RegistersExist, AddressesExist
    <3>2. /\ BranchEq(13, 12, "done") \in Instruction
          /\ BranchEq(1, 3, "xsame") \in Instruction
      BY <1>1, <1>2, <1>3, <1>4, RegistersExist, AddressesExist
    <3>3. k = 10 \/ k = 11 \/ k = 12 \/ k = 13 \/ k = 14 \/ k = 15 \/ k = 16 \/ k = 17 \/ k = 18
      BY <2>2
    <3>4. QED
      BY <3>1, <3>2, <3>3, ZeroListing
  <2>3. CASE k \in 19 .. 25
    <3>1. /\ Op2("SUBP", 2, 4, 13) \in Instruction
          /\ Op2("ADDP", 13, 5, 14) \in Instruction
          /\ Op2("SUBP", 1, 3, 15) \in Instruction
          /\ Op2("ADDP", 15, 5, 20) \in Instruction
          /\ Op2("MULP", 14, 8, 7) \in Instruction
      BY <1>1, <1>2, <1>3, <1>5, RegistersExist, AddressesExist
    <3>2. JumpLink("call_multinv", 10) \in Instruction
      BY <1>1, <1>2, <1>3, <1>10, RegistersExist, AddressesExist
    <3>3. BranchEq(0, 0, "intersect") \in Instruction
      BY <1>1, <1>2, <1>3, <1>4, RegistersExist, AddressesExist
    <3>4. k = 19 \/ k = 20 \/ k = 21 \/ k = 22 \/ k = 23 \/ k = 24 \/ k = 25
      BY <2>3
    <3>5. QED
      BY <3>1, <3>2, <3>3, <3>4, ChordListing
  <2>4. CASE k \in 26 .. 31
    <3>1. /\ At("call_multinv", Set(1, 8)) \in Instruction
          /\ Set(1, 22) \in Instruction
          /\ Set(2, 23) \in Instruction
      BY <1>1, <1>2, <1>3, <1>6, RegistersExist, AddressesExist
    <3>2. /\ BranchEq(20, 22, "mi_done") \in Instruction
          /\ BranchEq(21, 0, "mi_done") \in Instruction
      BY <1>1, <1>2, <1>3, <1>4, RegistersExist, AddressesExist
    <3>3. Op2("SUB", 5, 23, 21) \in Instruction
      BY <1>1, <1>2, <1>3, <1>5, RegistersExist, AddressesExist
    <3>4. k = 26 \/ k = 27 \/ k = 28 \/ k = 29 \/ k = 30 \/ k = 31
      BY <2>4
    <3>5. QED
      BY <3>1, <3>2, <3>3, <3>4, CallListing
  <2>5. CASE k \in 32 .. 39
    <3>1. /\ At("while", Op2("AND", 21, 22, 13)) \in Instruction
          /\ Op2("MULP", 8, 20, 8) \in Instruction
          /\ At("next", Op2("DIV", 21, 23, 21)) \in Instruction
          /\ Op2("MULP", 20, 20, 20) \in Instruction
      BY <1>1, <1>2, <1>3, <1>5, RegistersExist, AddressesExist
    <3>2. /\ BranchEq(13, 0, "next") \in Instruction
          /\ BranchEq(21, 0, "mi_done") \in Instruction
          /\ BranchEq(0, 0, "while") \in Instruction
      BY <1>1, <1>2, <1>3, <1>4, RegistersExist, AddressesExist
    <3>3. At("mi_done", Return(10)) \in Instruction
      BY <1>1, <1>2, <1>3, <1>11, RegistersExist, AddressesExist
    <3>4. k = 32 \/ k = 33 \/ k = 34 \/ k = 35 \/ k = 36 \/ k = 37 \/ k = 38 \/ k = 39
      BY <2>5
    <3>5. QED
      BY <3>1, <3>2, <3>3, <3>4, LoopListing
  <2>6. CASE k \in 40 .. 43
    <3>1. /\ At("xsame", BranchEq(2, 4, "ysame")) \in Instruction
          /\ BranchEq(0, 0, "done") \in Instruction
      BY <1>1, <1>2, <1>3, <1>4, RegistersExist, AddressesExist
    <3>2. /\ Op2("OR", 5, 5, 8) \in Instruction
          /\ Op2("OR", 12, 12, 9) \in Instruction
      BY <1>1, <1>2, <1>3, <1>5, RegistersExist, AddressesExist
    <3>3. k = 40 \/ k = 41 \/ k = 42 \/ k = 43
      BY <2>6
    <3>4. QED
      BY <3>1, <3>2, <3>3, SameXListing
  <2>7. CASE k \in 44 .. 51
    <3>1. /\ At("ysame", Op2("MULP", 1, 1, 13)) \in Instruction
          /\ Op2("MULP", 13, 14, 15) \in Instruction
          /\ Op2("ADDP", 15, 6, 16) \in Instruction
          /\ Op2("MULP", 2, 14, 20) \in Instruction
          /\ Op2("MULP", 16, 8, 7) \in Instruction
      BY <1>1, <1>2, <1>3, <1>5, RegistersExist, AddressesExist
    <3>2. /\ Set(3, 14) \in Instruction
          /\ Set(2, 14) \in Instruction
      BY <1>1, <1>2, <1>3, <1>6, RegistersExist, AddressesExist
    <3>3. JumpLink("call_multinv", 10) \in Instruction
      BY <1>1, <1>2, <1>3, <1>10, RegistersExist, AddressesExist
    <3>4. k = 44 \/ k = 45 \/ k = 46 \/ k = 47 \/ k = 48 \/ k = 49 \/ k = 50 \/ k = 51
      BY <2>7
    <3>5. QED
      BY <3>1, <3>2, <3>3, <3>4, TangentListing
  <2>8. CASE k \in 52 .. 57
    <3>1. /\ At("intersect", Op2("MULP", 7, 1, 13)) \in Instruction
          /\ Op2("ADDP", 2, 5, 17) \in Instruction
          /\ Op2("SUBP", 17, 13, 14) \in Instruction
          /\ Op2("MULP", 7, 7, 15) \in Instruction
          /\ Op2("SUBP", 5, 1, 16) \in Instruction
          /\ Op2("SUBP", 5, 3, 17) \in Instruction
      BY <1>1, <1>2, <1>3, <1>5, RegistersExist, AddressesExist
    <3>2. k = 52 \/ k = 53 \/ k = 54 \/ k = 55 \/ k = 56 \/ k = 57
      BY <2>8
    <3>3. QED
      BY <3>1, <3>2, LineListing
  <2>9. CASE k \in 58 .. 65
    <3>1. /\ Op2("ADDP", 16, 17, 18) \in Instruction
          /\ Op2("ADDP", 15, 18, 8) \in Instruction
          /\ Op2("MULP", 7, 8, 13) \in Instruction
          /\ Op2("SUBP", 5, 13, 15) \in Instruction
          /\ Op2("SUBP", 5, 14, 16) \in Instruction
          /\ Op2("ADDP", 15, 16, 9) \in Instruction
      BY <1>1, <1>2, <1>3, <1>5, RegistersExist, AddressesExist
    <3>2. /\ At("done", Store(8, OUT_ADDR1)) \in Instruction
          /\ Store(9, OUT_ADDR2) \in Instruction
      BY <1>1, <1>2, <1>3, <1>8, RegistersExist, AddressesExist
    <3>3. k = 58 \/ k = 59 \/ k = 60 \/ k = 61 \/ k = 62 \/ k = 63 \/ k = 64 \/ k = 65
      BY <2>9
    <3>4. QED
      BY <3>1, <3>2, <3>3, SumListing
  <2>10. k \in 1 .. 9 \/ k \in 10 .. 18 \/ k \in 19 .. 25 \/ k \in 26 .. 31 \/ k \in 32 .. 39
         \/ k \in 40 .. 43 \/ k \in 44 .. 51 \/ k \in 52 .. 57 \/ k \in 58 .. 65
    OBVIOUS
  <2>11. QED
    BY <2>1, <2>2, <2>3, <2>4, <2>5, <2>6, <2>7, <2>8, <2>9, <2>10
<1>13. PAddProg \in Seq(Instruction)
  <2> DEFINE q == [k \in 1 .. 65 |-> PAddProg[k]]
  <2>1. q \in [1 .. 65 -> Instruction]
    BY <1>12
  <2>2. q \in Seq(Instruction)
    BY <2>1
  <2>3. QED
    BY <2>2, Listing
<1>14. QED
  BY <1>13, Listing, NamesFit DEF Addressable, Program

\* The labels of the program, where the label pass puts them.
Places ==
  [l \in {"call_multinv", "while", "next", "mi_done", "xsame", "ysame", "intersect", "done"} |->
     CASE l = "call_multinv" -> 25
       [] l = "while" -> 31
       [] l = "next" -> 34
       [] l = "mi_done" -> 38
       [] l = "xsame" -> 39
       [] l = "ysame" -> 43
       [] l = "intersect" -> 51
       [] l = "done" -> 63]

\* The labels that the instructions carry, by the same parts.
LEMMA LoadLabels ==
  /\ PAddProg[1].label = "" /\ PAddProg[2].label = "" /\ PAddProg[3].label = ""
  /\ PAddProg[4].label = "" /\ PAddProg[5].label = "" /\ PAddProg[6].label = ""
  /\ PAddProg[7].label = "" /\ PAddProg[8].label = "" /\ PAddProg[9].label = ""
<1>1. LoadPrime(P_ADDR).label = ""
  BY LoadPrimeUnlabelled
<1>2. /\ Load(A_ADDR, 6).label = ""
      /\ Load(P_ADDR, 5).label = ""
      /\ Load(Z_ADDR, 12).label = ""
      /\ Load(X1_ADDR, 1).label = ""
      /\ Load(Y1_ADDR, 2).label = ""
      /\ Load(X2_ADDR, 3).label = ""
      /\ Load(Y2_ADDR, 4).label = ""
  BY LoadUnlabelled
<1>3. Set(0, 0).label = ""
  BY SetUnlabelled
<1>4. QED
  BY <1>1, <1>2, <1>3, LoadListing

\* ... the tests for zero, ...
LEMMA ZeroLabels ==
  /\ PAddProg[10].label = "" /\ PAddProg[11].label = "" /\ PAddProg[12].label = ""
  /\ PAddProg[13].label = "" /\ PAddProg[14].label = "" /\ PAddProg[15].label = ""
  /\ PAddProg[16].label = "" /\ PAddProg[17].label = "" /\ PAddProg[18].label = ""
<1>1. /\ Op2("OR", 1, 2, 13).label = ""
      /\ Op2("ADD", 3, 0, 8).label = ""
      /\ Op2("ADD", 4, 0, 9).label = ""
      /\ Op2("OR", 3, 4, 13).label = ""
      /\ Op2("ADD", 1, 0, 8).label = ""
      /\ Op2("ADD", 2, 0, 9).label = ""
  BY Op2Unlabelled
<1>2. /\ BranchEq(13, 12, "done").label = ""
      /\ BranchEq(1, 3, "xsame").label = ""
  BY BranchUnlabelled
<1>3. QED
  BY <1>1, <1>2, ZeroListing

\* ... the chord, ...
LEMMA ChordLabels ==
  /\ PAddProg[19].label = "" /\ PAddProg[20].label = "" /\ PAddProg[21].label = ""
  /\ PAddProg[22].label = "" /\ PAddProg[23].label = "" /\ PAddProg[24].label = ""
  /\ PAddProg[25].label = ""
<1>1. /\ Op2("SUBP", 2, 4, 13).label = ""
      /\ Op2("ADDP", 13, 5, 14).label = ""
      /\ Op2("SUBP", 1, 3, 15).label = ""
      /\ Op2("ADDP", 15, 5, 20).label = ""
      /\ Op2("MULP", 14, 8, 7).label = ""
  BY Op2Unlabelled
<1>2. JumpLink("call_multinv", 10).label = ""
  BY JumpUnlabelled
<1>3. BranchEq(0, 0, "intersect").label = ""
  BY BranchUnlabelled
<1>4. QED
  BY <1>1, <1>2, <1>3, ChordListing

\* ... the beginning of the subroutine, ...
LEMMA CallLabels ==
  /\ PAddProg[26].label = "call_multinv" /\ PAddProg[27].label = "" /\ PAddProg[28].label = ""
  /\ PAddProg[29].label = "" /\ PAddProg[30].label = "" /\ PAddProg[31].label = ""
<1>1. At("call_multinv", Set(1, 8)).label = "call_multinv"
  BY SetLabelled
<1>2. /\ Set(1, 22).label = ""
      /\ Set(2, 23).label = ""
  BY SetUnlabelled
<1>3. /\ BranchEq(20, 22, "mi_done").label = ""
      /\ BranchEq(21, 0, "mi_done").label = ""
  BY BranchUnlabelled
<1>4. Op2("SUB", 5, 23, 21).label = ""
  BY Op2Unlabelled
<1>5. QED
  BY <1>1, <1>2, <1>3, <1>4, CallListing

\* ... its loop and its return, ...
LEMMA LoopLabels ==
  /\ PAddProg[32].label = "while" /\ PAddProg[33].label = "" /\ PAddProg[34].label = ""
  /\ PAddProg[35].label = "next" /\ PAddProg[36].label = "" /\ PAddProg[37].label = ""
  /\ PAddProg[38].label = "" /\ PAddProg[39].label = "mi_done"
<1>1. /\ At("while", Op2("AND", 21, 22, 13)).label = "while"
      /\ At("next", Op2("DIV", 21, 23, 21)).label = "next"
  BY Op2Labelled
<1>2. /\ BranchEq(13, 0, "next").label = ""
      /\ BranchEq(21, 0, "mi_done").label = ""
      /\ BranchEq(0, 0, "while").label = ""
  BY BranchUnlabelled
<1>3. /\ Op2("MULP", 8, 20, 8).label = ""
      /\ Op2("MULP", 20, 20, 20).label = ""
  BY Op2Unlabelled
<1>4. At("mi_done", Return(10)).label = "mi_done"
  BY ReturnLabelled
<1>5. QED
  BY <1>1, <1>2, <1>3, <1>4, LoopListing

\* ... two points with the same x, ...
LEMMA SameXLabels ==
  /\ PAddProg[40].label = "xsame" /\ PAddProg[41].label = "" /\ PAddProg[42].label = ""
  /\ PAddProg[43].label = ""
<1>1. At("xsame", BranchEq(2, 4, "ysame")).label = "xsame"
  BY BranchLabelled
<1>2. /\ Op2("OR", 5, 5, 8).label = ""
      /\ Op2("OR", 12, 12, 9).label = ""
  BY Op2Unlabelled
<1>3. BranchEq(0, 0, "done").label = ""
  BY BranchUnlabelled
<1>4. QED
  BY <1>1, <1>2, <1>3, SameXListing

\* ... the tangent, ...
LEMMA TangentLabels ==
  /\ PAddProg[44].label = "ysame" /\ PAddProg[45].label = "" /\ PAddProg[46].label = ""
  /\ PAddProg[47].label = "" /\ PAddProg[48].label = "" /\ PAddProg[49].label = ""
  /\ PAddProg[50].label = "" /\ PAddProg[51].label = ""
<1>1. At("ysame", Op2("MULP", 1, 1, 13)).label = "ysame"
  BY Op2Labelled
<1>2. /\ Set(3, 14).label = ""
      /\ Set(2, 14).label = ""
  BY SetUnlabelled
<1>3. /\ Op2("MULP", 13, 14, 15).label = ""
      /\ Op2("ADDP", 15, 6, 16).label = ""
      /\ Op2("MULP", 2, 14, 20).label = ""
      /\ Op2("MULP", 16, 8, 7).label = ""
  BY Op2Unlabelled
<1>4. JumpLink("call_multinv", 10).label = ""
  BY JumpUnlabelled
<1>5. QED
  BY <1>1, <1>2, <1>3, <1>4, TangentListing

\* ... the line, ...
LEMMA LineLabels ==
  /\ PAddProg[52].label = "intersect" /\ PAddProg[53].label = "" /\ PAddProg[54].label = ""
  /\ PAddProg[55].label = "" /\ PAddProg[56].label = "" /\ PAddProg[57].label = ""
<1>1. At("intersect", Op2("MULP", 7, 1, 13)).label = "intersect"
  BY Op2Labelled
<1>2. /\ Op2("ADDP", 2, 5, 17).label = ""
      /\ Op2("SUBP", 17, 13, 14).label = ""
      /\ Op2("MULP", 7, 7, 15).label = ""
      /\ Op2("SUBP", 5, 1, 16).label = ""
      /\ Op2("SUBP", 5, 3, 17).label = ""
  BY Op2Unlabelled
<1>3. QED
  BY <1>1, <1>2, LineListing

\* ... and the sum.
LEMMA SumLabels ==
  /\ PAddProg[58].label = "" /\ PAddProg[59].label = "" /\ PAddProg[60].label = ""
  /\ PAddProg[61].label = "" /\ PAddProg[62].label = "" /\ PAddProg[63].label = ""
  /\ PAddProg[64].label = "done" /\ PAddProg[65].label = ""
<1>1. /\ Op2("ADDP", 16, 17, 18).label = ""
      /\ Op2("ADDP", 15, 18, 8).label = ""
      /\ Op2("MULP", 7, 8, 13).label = ""
      /\ Op2("SUBP", 5, 13, 15).label = ""
      /\ Op2("SUBP", 5, 14, 16).label = ""
      /\ Op2("ADDP", 15, 16, 9).label = ""
  BY Op2Unlabelled
<1>2. At("done", Store(8, OUT_ADDR1)).label = "done"
  BY StoreLabelled
<1>3. Store(9, OUT_ADDR2).label = ""
  BY StoreUnlabelled
<1>4. QED
  BY <1>1, <1>2, <1>3, SumListing

\* The kernel is a program of 65 instructions.
LEMMA ProgFacts == PAddProg \in Program /\ Len(PAddProg) = 65
BY ProgIsAddressable, Listing DEF Addressable

\* Each label is on one instruction of the kernel.
LEMMA LastPlaces ==
  \A l \in LabelsOf(PAddProg) :
    LastAt(PAddProg, l) \in 0 .. 64 /\ PAddProg[LastAt(PAddProg, l) + 1].label = l
<1> DEFINE q == PAddProg
<1>1. q \in Program /\ Len(q) - 1 = 64
  BY ProgFacts
<1> HIDE DEF q
<1>2. ASSUME NEW l \in LabelsOf(q) PROVE LastAt(q, l) \in 0 .. 64 /\ q[LastAt(q, l) + 1].label = l
  <2>1. LastAt(q, l) \in 0 .. Len(q) - 1 /\ q[LastAt(q, l) + 1].label = l
    BY <1>1, LastAtFacts
  <2>2. QED
    BY <1>1, <2>1
<1>3. QED
  BY <1>2 DEF q

\* The label pass finds each label of the kernel at its place (processor.cc:139-145).
LEMMA PlacesAreFound ==
  \A l \in DOMAIN Places : l \in LabelsOf(PAddProg) /\ LastAt(PAddProg, l) = Places[l]
<1> SUFFICES ASSUME NEW l \in DOMAIN Places
             PROVE  l \in LabelsOf(PAddProg) /\ LastAt(PAddProg, l) = Places[l]
  OBVIOUS
<1> DEFINE q == PAddProg
           j == LastAt(q, l)
<1>1. q \in Program /\ Len(q) = 65
  BY ProgFacts
<1> HIDE DEF q
<1>2. l \in LabelsOf(q)
  <2>1. \A k \in 1 .. 65 : q[k].label # NoLabel => q[k].label \in LabelsOf(q)
    BY <1>1 DEF LabelsOf
  <2>2. "call_multinv" \in LabelsOf(q)
    <3>1. 26 \in 1 .. 65
      OBVIOUS
    <3>2. q[26].label = "call_multinv"
      BY CallLabels DEF q
    <3>3. "call_multinv" # NoLabel
      BY DEF NoLabel
    <3>4. QED
      BY <2>1, <3>1, <3>2, <3>3
  <2>3. "while" \in LabelsOf(q)
    <3>1. 32 \in 1 .. 65
      OBVIOUS
    <3>2. q[32].label = "while"
      BY LoopLabels DEF q
    <3>3. "while" # NoLabel
      BY DEF NoLabel
    <3>4. QED
      BY <2>1, <3>1, <3>2, <3>3
  <2>4. "next" \in LabelsOf(q)
    <3>1. 35 \in 1 .. 65
      OBVIOUS
    <3>2. q[35].label = "next"
      BY LoopLabels DEF q
    <3>3. "next" # NoLabel
      BY DEF NoLabel
    <3>4. QED
      BY <2>1, <3>1, <3>2, <3>3
  <2>5. "mi_done" \in LabelsOf(q)
    <3>1. 39 \in 1 .. 65
      OBVIOUS
    <3>2. q[39].label = "mi_done"
      BY LoopLabels DEF q
    <3>3. "mi_done" # NoLabel
      BY DEF NoLabel
    <3>4. QED
      BY <2>1, <3>1, <3>2, <3>3
  <2>6. "xsame" \in LabelsOf(q)
    <3>1. 40 \in 1 .. 65
      OBVIOUS
    <3>2. q[40].label = "xsame"
      BY SameXLabels DEF q
    <3>3. "xsame" # NoLabel
      BY DEF NoLabel
    <3>4. QED
      BY <2>1, <3>1, <3>2, <3>3
  <2>7. "ysame" \in LabelsOf(q)
    <3>1. 44 \in 1 .. 65
      OBVIOUS
    <3>2. q[44].label = "ysame"
      BY TangentLabels DEF q
    <3>3. "ysame" # NoLabel
      BY DEF NoLabel
    <3>4. QED
      BY <2>1, <3>1, <3>2, <3>3
  <2>8. "intersect" \in LabelsOf(q)
    <3>1. 52 \in 1 .. 65
      OBVIOUS
    <3>2. q[52].label = "intersect"
      BY LineLabels DEF q
    <3>3. "intersect" # NoLabel
      BY DEF NoLabel
    <3>4. QED
      BY <2>1, <3>1, <3>2, <3>3
  <2>9. "done" \in LabelsOf(q)
    <3>1. 64 \in 1 .. 65
      OBVIOUS
    <3>2. q[64].label = "done"
      BY SumLabels DEF q
    <3>3. "done" # NoLabel
      BY DEF NoLabel
    <3>4. QED
      BY <2>1, <3>1, <3>2, <3>3
  <2>10. l = "call_multinv" \/ l = "while" \/ l = "next" \/ l = "mi_done" \/ l = "xsame"
         \/ l = "ysame" \/ l = "intersect" \/ l = "done"
    BY DEF Places
  <2>11. QED
    BY <2>2, <2>3, <2>4, <2>5, <2>6, <2>7, <2>8, <2>9, <2>10
<1>3. j \in 0 .. 64 /\ q[j + 1].label = l
  BY <1>2, LastPlaces DEF q
<1> HIDE DEF j
<1>4. j = Places[l]
  <2>1. l # ""
    BY DEF Places
  <2>2. ASSUME NEW k \in 1 .. 65, q[k].label = l PROVE k - 1 = Places[l]
    <3> DEFINE w == q[k].label
    <3>1. k \in 1 .. 9 => w = ""
      <4>1. k \in 1 .. 9 => k = 1 \/ k = 2 \/ k = 3 \/ k = 4 \/ k = 5 \/ k = 6 \/ k = 7 \/ k = 8 \/ k = 9
        OBVIOUS
      <4>2. QED
        BY LoadLabels, <4>1 DEF q
    <3>2. k \in 10 .. 18 => w = ""
      <4>1. k \in 10 .. 18 => k = 10 \/ k = 11 \/ k = 12 \/ k = 13 \/ k = 14 \/ k = 15 \/ k = 16 \/ k = 17 \/ k = 18
        OBVIOUS
      <4>2. QED
        BY ZeroLabels, <4>1 DEF q
    <3>3. k \in 19 .. 25 => w = ""
      <4>1. k \in 19 .. 25 => k = 19 \/ k = 20 \/ k = 21 \/ k = 22 \/ k = 23 \/ k = 24 \/ k = 25
        OBVIOUS
      <4>2. QED
        BY ChordLabels, <4>1 DEF q
    <3>4. k \in 26 .. 31 => w = "" \/ (k = 26 /\ w = "call_multinv")
      <4>1. k \in 26 .. 31 => k = 26 \/ k = 27 \/ k = 28 \/ k = 29 \/ k = 30 \/ k = 31
        OBVIOUS
      <4>2. QED
        BY CallLabels, <4>1 DEF q
    <3>5. k \in 32 .. 39 => w = "" \/ (k = 32 /\ w = "while") \/ (k = 35 /\ w = "next") \/ (k = 39 /\ w = "mi_done")
      <4>1. k \in 32 .. 39 => k = 32 \/ k = 33 \/ k = 34 \/ k = 35 \/ k = 36 \/ k = 37 \/ k = 38 \/ k = 39
        OBVIOUS
      <4>2. QED
        BY LoopLabels, <4>1 DEF q
    <3>6. k \in 40 .. 43 => w = "" \/ (k = 40 /\ w = "xsame")
      <4>1. k \in 40 .. 43 => k = 40 \/ k = 41 \/ k = 42 \/ k = 43
        OBVIOUS
      <4>2. QED
        BY SameXLabels, <4>1 DEF q
    <3>7. k \in 44 .. 51 => w = "" \/ (k = 44 /\ w = "ysame")
      <4>1. k \in 44 .. 51 => k = 44 \/ k = 45 \/ k = 46 \/ k = 47 \/ k = 48 \/ k = 49 \/ k = 50 \/ k = 51
        OBVIOUS
      <4>2. QED
        BY TangentLabels, <4>1 DEF q
    <3>8. k \in 52 .. 57 => w = "" \/ (k = 52 /\ w = "intersect")
      <4>1. k \in 52 .. 57 => k = 52 \/ k = 53 \/ k = 54 \/ k = 55 \/ k = 56 \/ k = 57
        OBVIOUS
      <4>2. QED
        BY LineLabels, <4>1 DEF q
    <3>9. k \in 58 .. 61 => w = ""
      <4>1. k \in 58 .. 61 => k = 58 \/ k = 59 \/ k = 60 \/ k = 61
        OBVIOUS
      <4>2. QED
        BY SumLabels, <4>1 DEF q
    <3>10. k \in 62 .. 63 => w = ""
      <4>1. k \in 62 .. 63 => k = 62 \/ k = 63
        OBVIOUS
      <4>2. QED
        BY SumLabels, <4>1 DEF q
    <3>11. k \in 64 .. 65 => w = "" \/ (k = 64 /\ w = "done")
      <4>1. k \in 64 .. 65 => k = 64 \/ k = 65
        OBVIOUS
      <4>2. QED
        BY SumLabels, <4>1 DEF q
    <3>12. w = l
      BY <2>2
    <3> HIDE DEF w
    <3>13. k \in 1 .. 9 \/ k \in 10 .. 18 \/ k \in 19 .. 25 \/ k \in 26 .. 31 \/ k \in 32 .. 39
           \/ k \in 40 .. 43 \/ k \in 44 .. 51 \/ k \in 52 .. 57 \/ k \in 58 .. 61 \/ k \in 62 .. 63
           \/ k \in 64 .. 65
      OBVIOUS
    <3>14. (k = 26 /\ l = "call_multinv") \/ (k = 32 /\ l = "while") \/ (k = 35 /\ l = "next")
           \/ (k = 39 /\ l = "mi_done") \/ (k = 40 /\ l = "xsame") \/ (k = 44 /\ l = "ysame")
           \/ (k = 52 /\ l = "intersect") \/ (k = 64 /\ l = "done")
      BY <2>1, <3>1, <3>2, <3>3, <3>4, <3>5, <3>6, <3>7, <3>8, <3>9, <3>10, <3>11, <3>12, <3>13
    <3>15. QED
      BY <3>14 DEF Places
  <2>3. j + 1 \in 1 .. 65 /\ (j + 1) - 1 = j
    BY <1>3
  <2>4. QED
    BY <1>3, <2>2, <2>3
<1>5. QED
  BY <1>2, <1>4 DEF q, j

(***************************************************************************)
(* What each instruction does.                                              *)
(***************************************************************************)
\* During a call, labels_ has the places of the kernel, whatever else it has.
Mapped ==
  status = "running" => \A l \in DOMAIN Places : l \in DOMAIN labels /\ labels[l] = Places[l]

Param == sram[A_ADDR]
Zero == sram[Z_ADDR]
X1 == sram[X1_ADDR]
Y1 == sram[Y1_ADDR]
X2 == sram[X2_ADDR]
Y2 == sram[Y2_ADDR]

\* The shapes of the instructions that are not of the form R_d := v.
LoadedPrime == p' = P /\ pc' = 1 /\ UNCHANGED <<sram, regs, status>>

BranchTo(r, s, place) ==
  /\ pc' = IF regs[r] = regs[s] THEN place ELSE pc + 1
  /\ UNCHANGED <<sram, regs, p, status>>

Linked == regs' = [regs EXCEPT ![10] = pc] /\ pc' = 25 /\ UNCHANGED <<sram, p, status>>

Returned == pc' = Add(regs[10], 1) % PcModulus /\ UNCHANGED <<sram, regs, p, status>>

Stored(a, r) == sram' = [sram EXCEPT ![a] = regs[r]] /\ pc' = pc + 1 /\ UNCHANGED <<regs, p, status>>

\* What each instruction does: the loads, ...
LEMMA LoadEffects ==
  ASSUME Mapped, Step(PAddProg), pc \in Nat
  PROVE  /\ pc = 0 => LoadedPrime
         /\ pc = 1 => Wrote(6, Param)
         /\ pc = 2 => Wrote(5, P)
         /\ pc = 3 => Wrote(12, Zero)
         /\ pc = 4 => Wrote(0, 0)
         /\ pc = 5 => Wrote(1, X1)
         /\ pc = 6 => Wrote(2, Y1)
         /\ pc = 7 => Wrote(3, X2)
         /\ pc = 8 => Wrote(4, Y2)
<1> DEFINE i == Fetch(PAddProg)
<1>1. Execute(i) /\ i = PAddProg[pc + 1] /\ status = "running"
  BY DEF Step, Running, Fetch
<1> HIDE DEF i
<1>3. ASSUME pc = 0 PROVE LoadedPrime
  <2>1. Is(i, LoadPrime(P_ADDR))
    BY <1>1, <1>3, LoadListing, IsItself
  <2>2. QED
    BY <1>1, <1>3, <2>1, LoadEffect DEF LoadedPrime, P
<1>4. ASSUME pc = 1 PROVE Wrote(6, Param)
  <2>1. Is(i, Load(A_ADDR, 6))
    BY <1>1, <1>4, LoadListing, IsItself
  <2>2. QED
    BY <1>1, <2>1, LoadEffect DEF Param
<1>5. ASSUME pc = 2 PROVE Wrote(5, P)
  <2>1. Is(i, Load(P_ADDR, 5))
    BY <1>1, <1>5, LoadListing, IsItself
  <2>2. QED
    BY <1>1, <2>1, LoadEffect DEF P
<1>6. ASSUME pc = 3 PROVE Wrote(12, Zero)
  <2>1. Is(i, Load(Z_ADDR, 12))
    BY <1>1, <1>6, LoadListing, IsItself
  <2>2. QED
    BY <1>1, <2>1, LoadEffect DEF Zero
<1>7. ASSUME pc = 4 PROVE Wrote(0, 0)
  <2>1. Is(i, Set(0, 0))
    BY <1>1, <1>7, LoadListing, IsItself
  <2>2. QED
    BY <1>1, <2>1, LoadEffect
<1>8. ASSUME pc = 5 PROVE Wrote(1, X1)
  <2>1. Is(i, Load(X1_ADDR, 1))
    BY <1>1, <1>8, LoadListing, IsItself
  <2>2. QED
    BY <1>1, <2>1, LoadEffect DEF X1
<1>9. ASSUME pc = 6 PROVE Wrote(2, Y1)
  <2>1. Is(i, Load(Y1_ADDR, 2))
    BY <1>1, <1>9, LoadListing, IsItself
  <2>2. QED
    BY <1>1, <2>1, LoadEffect DEF Y1
<1>10. ASSUME pc = 7 PROVE Wrote(3, X2)
  <2>1. Is(i, Load(X2_ADDR, 3))
    BY <1>1, <1>10, LoadListing, IsItself
  <2>2. QED
    BY <1>1, <2>1, LoadEffect DEF X2
<1>11. ASSUME pc = 8 PROVE Wrote(4, Y2)
  <2>1. Is(i, Load(Y2_ADDR, 4))
    BY <1>1, <1>11, LoadListing, IsItself
  <2>2. QED
    BY <1>1, <2>1, LoadEffect DEF Y2
<1>12. QED
  BY <1>3, <1>4, <1>5, <1>6, <1>7, <1>8, <1>9, <1>10, <1>11

\* ... the tests for zero, ...
LEMMA ZeroEffects ==
  ASSUME Mapped, Step(PAddProg), pc \in Nat
  PROVE  /\ pc = 9 => Wrote(13, BitOr(regs[1], regs[2]))
         /\ pc = 10 => Wrote(8, Add(regs[3], regs[0]))
         /\ pc = 11 => Wrote(9, Add(regs[4], regs[0]))
         /\ pc = 12 => BranchTo(13, 12, 63)
         /\ pc = 13 => Wrote(13, BitOr(regs[3], regs[4]))
         /\ pc = 14 => Wrote(8, Add(regs[1], regs[0]))
         /\ pc = 15 => Wrote(9, Add(regs[2], regs[0]))
         /\ pc = 16 => BranchTo(13, 12, 63)
         /\ pc = 17 => BranchTo(1, 3, 39)
<1> DEFINE i == Fetch(PAddProg)
<1>1. Execute(i) /\ i = PAddProg[pc + 1] /\ status = "running"
  BY DEF Step, Running, Fetch
<1>2. Target("xsame") = 39 /\ Target("done") = 63
  BY <1>1 DEF Mapped, Places, Target
<1> HIDE DEF i
<1>3. ASSUME pc = 9 PROVE Wrote(13, BitOr(regs[1], regs[2]))
  <2>1. Is(i, Op2("OR", 1, 2, 13))
    BY <1>1, <1>3, ZeroListing, IsItself
  <2>2. QED
    BY <1>1, <2>1, Op2Effect
<1>4. ASSUME pc = 10 PROVE Wrote(8, Add(regs[3], regs[0]))
  <2>1. Is(i, Op2("ADD", 3, 0, 8))
    BY <1>1, <1>4, ZeroListing, IsItself
  <2>2. QED
    BY <1>1, <2>1, Op2Effect
<1>5. ASSUME pc = 11 PROVE Wrote(9, Add(regs[4], regs[0]))
  <2>1. Is(i, Op2("ADD", 4, 0, 9))
    BY <1>1, <1>5, ZeroListing, IsItself
  <2>2. QED
    BY <1>1, <2>1, Op2Effect
<1>6. ASSUME pc = 12 PROVE BranchTo(13, 12, 63)
  <2>1. Is(i, BranchEq(13, 12, "done"))
    BY <1>1, <1>6, ZeroListing, IsItself
  <2>2. QED
    BY <1>1, <1>2, <2>1, BranchEffect DEF Branched, BranchTo
<1>7. ASSUME pc = 13 PROVE Wrote(13, BitOr(regs[3], regs[4]))
  <2>1. Is(i, Op2("OR", 3, 4, 13))
    BY <1>1, <1>7, ZeroListing, IsItself
  <2>2. QED
    BY <1>1, <2>1, Op2Effect
<1>8. ASSUME pc = 14 PROVE Wrote(8, Add(regs[1], regs[0]))
  <2>1. Is(i, Op2("ADD", 1, 0, 8))
    BY <1>1, <1>8, ZeroListing, IsItself
  <2>2. QED
    BY <1>1, <2>1, Op2Effect
<1>9. ASSUME pc = 15 PROVE Wrote(9, Add(regs[2], regs[0]))
  <2>1. Is(i, Op2("ADD", 2, 0, 9))
    BY <1>1, <1>9, ZeroListing, IsItself
  <2>2. QED
    BY <1>1, <2>1, Op2Effect
<1>10. ASSUME pc = 16 PROVE BranchTo(13, 12, 63)
  <2>1. Is(i, BranchEq(13, 12, "done"))
    BY <1>1, <1>10, ZeroListing, IsItself
  <2>2. QED
    BY <1>1, <1>2, <2>1, BranchEffect DEF Branched, BranchTo
<1>11. ASSUME pc = 17 PROVE BranchTo(1, 3, 39)
  <2>1. Is(i, BranchEq(1, 3, "xsame"))
    BY <1>1, <1>11, ZeroListing, IsItself
  <2>2. QED
    BY <1>1, <1>2, <2>1, BranchEffect DEF Branched, BranchTo
<1>12. QED
  BY <1>3, <1>4, <1>5, <1>6, <1>7, <1>8, <1>9, <1>10, <1>11

\* ... the chord, ...
LEMMA ChordEffects ==
  ASSUME Mapped, Step(PAddProg), pc \in Nat
  PROVE  /\ pc = 18 => Wrote(13, Rem(Sub(regs[2], regs[4]), p))
         /\ pc = 19 => Wrote(14, Rem(Add(regs[13], regs[5]), p))
         /\ pc = 20 => Wrote(15, Rem(Sub(regs[1], regs[3]), p))
         /\ pc = 21 => Wrote(20, Rem(Add(regs[15], regs[5]), p))
         /\ pc = 22 => Linked
         /\ pc = 23 => Wrote(7, Rem(Mul(regs[14], regs[8]), p))
         /\ pc = 24 => BranchTo(0, 0, 51)
<1> DEFINE i == Fetch(PAddProg)
<1>1. Execute(i) /\ i = PAddProg[pc + 1] /\ status = "running"
  BY DEF Step, Running, Fetch
<1>2. Target("call_multinv") = 25 /\ Target("intersect") = 51
  BY <1>1 DEF Mapped, Places, Target
<1> HIDE DEF i
<1>3. ASSUME pc = 18 PROVE Wrote(13, Rem(Sub(regs[2], regs[4]), p))
  <2>1. Is(i, Op2("SUBP", 2, 4, 13))
    BY <1>1, <1>3, ChordListing, IsItself
  <2>2. QED
    BY <1>1, <2>1, Op2Effect
<1>4. ASSUME pc = 19 PROVE Wrote(14, Rem(Add(regs[13], regs[5]), p))
  <2>1. Is(i, Op2("ADDP", 13, 5, 14))
    BY <1>1, <1>4, ChordListing, IsItself
  <2>2. QED
    BY <1>1, <2>1, Op2Effect
<1>5. ASSUME pc = 20 PROVE Wrote(15, Rem(Sub(regs[1], regs[3]), p))
  <2>1. Is(i, Op2("SUBP", 1, 3, 15))
    BY <1>1, <1>5, ChordListing, IsItself
  <2>2. QED
    BY <1>1, <2>1, Op2Effect
<1>6. ASSUME pc = 21 PROVE Wrote(20, Rem(Add(regs[15], regs[5]), p))
  <2>1. Is(i, Op2("ADDP", 15, 5, 20))
    BY <1>1, <1>6, ChordListing, IsItself
  <2>2. QED
    BY <1>1, <2>1, Op2Effect
<1>7. ASSUME pc = 22 PROVE Linked
  <2>1. Is(i, JumpLink("call_multinv", 10))
    BY <1>1, <1>7, ChordListing, IsItself
  <2>2. QED
    BY <1>1, <1>2, <2>1, JumpLinkEffect DEF Linked
<1>8. ASSUME pc = 23 PROVE Wrote(7, Rem(Mul(regs[14], regs[8]), p))
  <2>1. Is(i, Op2("MULP", 14, 8, 7))
    BY <1>1, <1>8, ChordListing, IsItself
  <2>2. QED
    BY <1>1, <2>1, Op2Effect
<1>9. ASSUME pc = 24 PROVE BranchTo(0, 0, 51)
  <2>1. Is(i, BranchEq(0, 0, "intersect"))
    BY <1>1, <1>9, ChordListing, IsItself
  <2>2. QED
    BY <1>1, <1>2, <2>1, BranchEffect DEF Branched, BranchTo
<1>10. QED
  BY <1>3, <1>4, <1>5, <1>6, <1>7, <1>8, <1>9

\* ... the beginning of the subroutine, ...
LEMMA CallEffects ==
  ASSUME Mapped, Step(PAddProg), pc \in Nat
  PROVE  /\ pc = 25 => Wrote(8, 1)
         /\ pc = 26 => Wrote(22, 1)
         /\ pc = 27 => BranchTo(20, 22, 38)
         /\ pc = 28 => Wrote(23, 2)
         /\ pc = 29 => Wrote(21, Sub(regs[5], regs[23]))
         /\ pc = 30 => BranchTo(21, 0, 38)
<1> DEFINE i == Fetch(PAddProg)
<1>1. Execute(i) /\ i = PAddProg[pc + 1] /\ status = "running"
  BY DEF Step, Running, Fetch
<1>2. Target("mi_done") = 38
  BY <1>1 DEF Mapped, Places, Target
<1> HIDE DEF i
<1>3. ASSUME pc = 25 PROVE Wrote(8, 1)
  <2>1. Is(i, Set(1, 8))
    BY <1>1, <1>3, CallListing, AtIs
  <2>2. QED
    BY <1>1, <2>1, LoadEffect
<1>4. ASSUME pc = 26 PROVE Wrote(22, 1)
  <2>1. Is(i, Set(1, 22))
    BY <1>1, <1>4, CallListing, IsItself
  <2>2. QED
    BY <1>1, <2>1, LoadEffect
<1>5. ASSUME pc = 27 PROVE BranchTo(20, 22, 38)
  <2>1. Is(i, BranchEq(20, 22, "mi_done"))
    BY <1>1, <1>5, CallListing, IsItself
  <2>2. QED
    BY <1>1, <1>2, <2>1, BranchEffect DEF Branched, BranchTo
<1>6. ASSUME pc = 28 PROVE Wrote(23, 2)
  <2>1. Is(i, Set(2, 23))
    BY <1>1, <1>6, CallListing, IsItself
  <2>2. QED
    BY <1>1, <2>1, LoadEffect
<1>7. ASSUME pc = 29 PROVE Wrote(21, Sub(regs[5], regs[23]))
  <2>1. Is(i, Op2("SUB", 5, 23, 21))
    BY <1>1, <1>7, CallListing, IsItself
  <2>2. QED
    BY <1>1, <2>1, Op2Effect
<1>8. ASSUME pc = 30 PROVE BranchTo(21, 0, 38)
  <2>1. Is(i, BranchEq(21, 0, "mi_done"))
    BY <1>1, <1>8, CallListing, IsItself
  <2>2. QED
    BY <1>1, <1>2, <2>1, BranchEffect DEF Branched, BranchTo
<1>9. QED
  BY <1>3, <1>4, <1>5, <1>6, <1>7, <1>8

\* ... its loop and its return, ...
LEMMA LoopEffects ==
  ASSUME Mapped, Step(PAddProg), pc \in Nat
  PROVE  /\ pc = 31 => Wrote(13, BitAnd(regs[21], regs[22]))
         /\ pc = 32 => BranchTo(13, 0, 34)
         /\ pc = 33 => Wrote(8, Rem(Mul(regs[8], regs[20]), p))
         /\ pc = 34 => Wrote(21, Quot(regs[21], regs[23]))
         /\ pc = 35 => Wrote(20, Rem(Mul(regs[20], regs[20]), p))
         /\ pc = 36 => BranchTo(21, 0, 38)
         /\ pc = 37 => BranchTo(0, 0, 31)
         /\ pc = 38 => Returned
<1> DEFINE i == Fetch(PAddProg)
<1>1. Execute(i) /\ i = PAddProg[pc + 1] /\ status = "running"
  BY DEF Step, Running, Fetch
<1>2. Target("while") = 31 /\ Target("next") = 34 /\ Target("mi_done") = 38
  BY <1>1 DEF Mapped, Places, Target
<1> HIDE DEF i
<1>3. ASSUME pc = 31 PROVE Wrote(13, BitAnd(regs[21], regs[22]))
  <2>1. Is(i, Op2("AND", 21, 22, 13))
    BY <1>1, <1>3, LoopListing, AtIs
  <2>2. QED
    BY <1>1, <2>1, Op2Effect
<1>4. ASSUME pc = 32 PROVE BranchTo(13, 0, 34)
  <2>1. Is(i, BranchEq(13, 0, "next"))
    BY <1>1, <1>4, LoopListing, IsItself
  <2>2. QED
    BY <1>1, <1>2, <2>1, BranchEffect DEF Branched, BranchTo
<1>5. ASSUME pc = 33 PROVE Wrote(8, Rem(Mul(regs[8], regs[20]), p))
  <2>1. Is(i, Op2("MULP", 8, 20, 8))
    BY <1>1, <1>5, LoopListing, IsItself
  <2>2. QED
    BY <1>1, <2>1, Op2Effect
<1>6. ASSUME pc = 34 PROVE Wrote(21, Quot(regs[21], regs[23]))
  <2>1. Is(i, Op2("DIV", 21, 23, 21))
    BY <1>1, <1>6, LoopListing, AtIs
  <2>2. QED
    BY <1>1, <2>1, Op2Effect
<1>7. ASSUME pc = 35 PROVE Wrote(20, Rem(Mul(regs[20], regs[20]), p))
  <2>1. Is(i, Op2("MULP", 20, 20, 20))
    BY <1>1, <1>7, LoopListing, IsItself
  <2>2. QED
    BY <1>1, <2>1, Op2Effect
<1>8. ASSUME pc = 36 PROVE BranchTo(21, 0, 38)
  <2>1. Is(i, BranchEq(21, 0, "mi_done"))
    BY <1>1, <1>8, LoopListing, IsItself
  <2>2. QED
    BY <1>1, <1>2, <2>1, BranchEffect DEF Branched, BranchTo
<1>9. ASSUME pc = 37 PROVE BranchTo(0, 0, 31)
  <2>1. Is(i, BranchEq(0, 0, "while"))
    BY <1>1, <1>9, LoopListing, IsItself
  <2>2. QED
    BY <1>1, <1>2, <2>1, BranchEffect DEF Branched, BranchTo
<1>10. ASSUME pc = 38 PROVE Returned
  <2>1. Is(i, Return(10))
    BY <1>1, <1>10, LoopListing, AtIs
  <2>2. QED
    BY <1>1, <2>1, ReturnEffect DEF Returned
<1>11. QED
  BY <1>3, <1>4, <1>5, <1>6, <1>7, <1>8, <1>9, <1>10

\* ... two points with the same x, ...
LEMMA SameXEffects ==
  ASSUME Mapped, Step(PAddProg), pc \in Nat
  PROVE  /\ pc = 39 => BranchTo(2, 4, 43)
         /\ pc = 40 => Wrote(8, BitOr(regs[5], regs[5]))
         /\ pc = 41 => Wrote(9, BitOr(regs[12], regs[12]))
         /\ pc = 42 => BranchTo(0, 0, 63)
<1> DEFINE i == Fetch(PAddProg)
<1>1. Execute(i) /\ i = PAddProg[pc + 1] /\ status = "running"
  BY DEF Step, Running, Fetch
<1>2. Target("ysame") = 43 /\ Target("done") = 63
  BY <1>1 DEF Mapped, Places, Target
<1> HIDE DEF i
<1>3. ASSUME pc = 39 PROVE BranchTo(2, 4, 43)
  <2>1. Is(i, BranchEq(2, 4, "ysame"))
    BY <1>1, <1>3, SameXListing, AtIs
  <2>2. QED
    BY <1>1, <1>2, <2>1, BranchEffect DEF Branched, BranchTo
<1>4. ASSUME pc = 40 PROVE Wrote(8, BitOr(regs[5], regs[5]))
  <2>1. Is(i, Op2("OR", 5, 5, 8))
    BY <1>1, <1>4, SameXListing, IsItself
  <2>2. QED
    BY <1>1, <2>1, Op2Effect
<1>5. ASSUME pc = 41 PROVE Wrote(9, BitOr(regs[12], regs[12]))
  <2>1. Is(i, Op2("OR", 12, 12, 9))
    BY <1>1, <1>5, SameXListing, IsItself
  <2>2. QED
    BY <1>1, <2>1, Op2Effect
<1>6. ASSUME pc = 42 PROVE BranchTo(0, 0, 63)
  <2>1. Is(i, BranchEq(0, 0, "done"))
    BY <1>1, <1>6, SameXListing, IsItself
  <2>2. QED
    BY <1>1, <1>2, <2>1, BranchEffect DEF Branched, BranchTo
<1>7. QED
  BY <1>3, <1>4, <1>5, <1>6

\* ... the tangent, ...
LEMMA TangentEffects ==
  ASSUME Mapped, Step(PAddProg), pc \in Nat
  PROVE  /\ pc = 43 => Wrote(13, Rem(Mul(regs[1], regs[1]), p))
         /\ pc = 44 => Wrote(14, 3)
         /\ pc = 45 => Wrote(15, Rem(Mul(regs[13], regs[14]), p))
         /\ pc = 46 => Wrote(16, Rem(Add(regs[15], regs[6]), p))
         /\ pc = 47 => Wrote(14, 2)
         /\ pc = 48 => Wrote(20, Rem(Mul(regs[2], regs[14]), p))
         /\ pc = 49 => Linked
         /\ pc = 50 => Wrote(7, Rem(Mul(regs[16], regs[8]), p))
<1> DEFINE i == Fetch(PAddProg)
<1>1. Execute(i) /\ i = PAddProg[pc + 1] /\ status = "running"
  BY DEF Step, Running, Fetch
<1>2. Target("call_multinv") = 25
  BY <1>1 DEF Mapped, Places, Target
<1> HIDE DEF i
<1>3. ASSUME pc = 43 PROVE Wrote(13, Rem(Mul(regs[1], regs[1]), p))
  <2>1. Is(i, Op2("MULP", 1, 1, 13))
    BY <1>1, <1>3, TangentListing, AtIs
  <2>2. QED
    BY <1>1, <2>1, Op2Effect
<1>4. ASSUME pc = 44 PROVE Wrote(14, 3)
  <2>1. Is(i, Set(3, 14))
    BY <1>1, <1>4, TangentListing, IsItself
  <2>2. QED
    BY <1>1, <2>1, LoadEffect
<1>5. ASSUME pc = 45 PROVE Wrote(15, Rem(Mul(regs[13], regs[14]), p))
  <2>1. Is(i, Op2("MULP", 13, 14, 15))
    BY <1>1, <1>5, TangentListing, IsItself
  <2>2. QED
    BY <1>1, <2>1, Op2Effect
<1>6. ASSUME pc = 46 PROVE Wrote(16, Rem(Add(regs[15], regs[6]), p))
  <2>1. Is(i, Op2("ADDP", 15, 6, 16))
    BY <1>1, <1>6, TangentListing, IsItself
  <2>2. QED
    BY <1>1, <2>1, Op2Effect
<1>7. ASSUME pc = 47 PROVE Wrote(14, 2)
  <2>1. Is(i, Set(2, 14))
    BY <1>1, <1>7, TangentListing, IsItself
  <2>2. QED
    BY <1>1, <2>1, LoadEffect
<1>8. ASSUME pc = 48 PROVE Wrote(20, Rem(Mul(regs[2], regs[14]), p))
  <2>1. Is(i, Op2("MULP", 2, 14, 20))
    BY <1>1, <1>8, TangentListing, IsItself
  <2>2. QED
    BY <1>1, <2>1, Op2Effect
<1>9. ASSUME pc = 49 PROVE Linked
  <2>1. Is(i, JumpLink("call_multinv", 10))
    BY <1>1, <1>9, TangentListing, IsItself
  <2>2. QED
    BY <1>1, <1>2, <2>1, JumpLinkEffect DEF Linked
<1>10. ASSUME pc = 50 PROVE Wrote(7, Rem(Mul(regs[16], regs[8]), p))
  <2>1. Is(i, Op2("MULP", 16, 8, 7))
    BY <1>1, <1>10, TangentListing, IsItself
  <2>2. QED
    BY <1>1, <2>1, Op2Effect
<1>11. QED
  BY <1>3, <1>4, <1>5, <1>6, <1>7, <1>8, <1>9, <1>10

\* ... the line, ...
LEMMA LineEffects ==
  ASSUME Mapped, Step(PAddProg), pc \in Nat
  PROVE  /\ pc = 51 => Wrote(13, Rem(Mul(regs[7], regs[1]), p))
         /\ pc = 52 => Wrote(17, Rem(Add(regs[2], regs[5]), p))
         /\ pc = 53 => Wrote(14, Rem(Sub(regs[17], regs[13]), p))
         /\ pc = 54 => Wrote(15, Rem(Mul(regs[7], regs[7]), p))
         /\ pc = 55 => Wrote(16, Rem(Sub(regs[5], regs[1]), p))
         /\ pc = 56 => Wrote(17, Rem(Sub(regs[5], regs[3]), p))
<1> DEFINE i == Fetch(PAddProg)
<1>1. Execute(i) /\ i = PAddProg[pc + 1] /\ status = "running"
  BY DEF Step, Running, Fetch
<1> HIDE DEF i
<1>3. ASSUME pc = 51 PROVE Wrote(13, Rem(Mul(regs[7], regs[1]), p))
  <2>1. Is(i, Op2("MULP", 7, 1, 13))
    BY <1>1, <1>3, LineListing, AtIs
  <2>2. QED
    BY <1>1, <2>1, Op2Effect
<1>4. ASSUME pc = 52 PROVE Wrote(17, Rem(Add(regs[2], regs[5]), p))
  <2>1. Is(i, Op2("ADDP", 2, 5, 17))
    BY <1>1, <1>4, LineListing, IsItself
  <2>2. QED
    BY <1>1, <2>1, Op2Effect
<1>5. ASSUME pc = 53 PROVE Wrote(14, Rem(Sub(regs[17], regs[13]), p))
  <2>1. Is(i, Op2("SUBP", 17, 13, 14))
    BY <1>1, <1>5, LineListing, IsItself
  <2>2. QED
    BY <1>1, <2>1, Op2Effect
<1>6. ASSUME pc = 54 PROVE Wrote(15, Rem(Mul(regs[7], regs[7]), p))
  <2>1. Is(i, Op2("MULP", 7, 7, 15))
    BY <1>1, <1>6, LineListing, IsItself
  <2>2. QED
    BY <1>1, <2>1, Op2Effect
<1>7. ASSUME pc = 55 PROVE Wrote(16, Rem(Sub(regs[5], regs[1]), p))
  <2>1. Is(i, Op2("SUBP", 5, 1, 16))
    BY <1>1, <1>7, LineListing, IsItself
  <2>2. QED
    BY <1>1, <2>1, Op2Effect
<1>8. ASSUME pc = 56 PROVE Wrote(17, Rem(Sub(regs[5], regs[3]), p))
  <2>1. Is(i, Op2("SUBP", 5, 3, 17))
    BY <1>1, <1>8, LineListing, IsItself
  <2>2. QED
    BY <1>1, <2>1, Op2Effect
<1>9. QED
  BY <1>3, <1>4, <1>5, <1>6, <1>7, <1>8

\* ... and the sum.
LEMMA SumEffects ==
  ASSUME Mapped, Step(PAddProg), pc \in Nat
  PROVE  /\ pc = 57 => Wrote(18, Rem(Add(regs[16], regs[17]), p))
         /\ pc = 58 => Wrote(8, Rem(Add(regs[15], regs[18]), p))
         /\ pc = 59 => Wrote(13, Rem(Mul(regs[7], regs[8]), p))
         /\ pc = 60 => Wrote(15, Rem(Sub(regs[5], regs[13]), p))
         /\ pc = 61 => Wrote(16, Rem(Sub(regs[5], regs[14]), p))
         /\ pc = 62 => Wrote(9, Rem(Add(regs[15], regs[16]), p))
         /\ pc = 63 => Stored(OUT_ADDR1, 8)
         /\ pc = 64 => Stored(OUT_ADDR2, 9)
<1> DEFINE i == Fetch(PAddProg)
<1>1. Execute(i) /\ i = PAddProg[pc + 1] /\ status = "running"
  BY DEF Step, Running, Fetch
<1> HIDE DEF i
<1>3. ASSUME pc = 57 PROVE Wrote(18, Rem(Add(regs[16], regs[17]), p))
  <2>1. Is(i, Op2("ADDP", 16, 17, 18))
    BY <1>1, <1>3, SumListing, IsItself
  <2>2. QED
    BY <1>1, <2>1, Op2Effect
<1>4. ASSUME pc = 58 PROVE Wrote(8, Rem(Add(regs[15], regs[18]), p))
  <2>1. Is(i, Op2("ADDP", 15, 18, 8))
    BY <1>1, <1>4, SumListing, IsItself
  <2>2. QED
    BY <1>1, <2>1, Op2Effect
<1>5. ASSUME pc = 59 PROVE Wrote(13, Rem(Mul(regs[7], regs[8]), p))
  <2>1. Is(i, Op2("MULP", 7, 8, 13))
    BY <1>1, <1>5, SumListing, IsItself
  <2>2. QED
    BY <1>1, <2>1, Op2Effect
<1>6. ASSUME pc = 60 PROVE Wrote(15, Rem(Sub(regs[5], regs[13]), p))
  <2>1. Is(i, Op2("SUBP", 5, 13, 15))
    BY <1>1, <1>6, SumListing, IsItself
  <2>2. QED
    BY <1>1, <2>1, Op2Effect
<1>7. ASSUME pc = 61 PROVE Wrote(16, Rem(Sub(regs[5], regs[14]), p))
  <2>1. Is(i, Op2("SUBP", 5, 14, 16))
    BY <1>1, <1>7, SumListing, IsItself
  <2>2. QED
    BY <1>1, <2>1, Op2Effect
<1>8. ASSUME pc = 62 PROVE Wrote(9, Rem(Add(regs[15], regs[16]), p))
  <2>1. Is(i, Op2("ADDP", 15, 16, 9))
    BY <1>1, <1>8, SumListing, IsItself
  <2>2. QED
    BY <1>1, <2>1, Op2Effect
<1>9. ASSUME pc = 63 PROVE Stored(OUT_ADDR1, 8)
  <2>1. Is(i, Store(8, OUT_ADDR1))
    BY <1>1, <1>9, SumListing, AtIs
  <2>2. QED
    BY <1>1, <2>1, StoreEffect DEF Stored, OUT_ADDR1, OUT_ADDR2
<1>10. ASSUME pc = 64 PROVE Stored(OUT_ADDR2, 9)
  <2>1. Is(i, Store(9, OUT_ADDR2))
    BY <1>1, <1>10, SumListing, IsItself
  <2>2. QED
    BY <1>1, <2>1, StoreEffect DEF Stored, OUT_ADDR1, OUT_ADDR2
<1>11. QED
  BY <1>3, <1>4, <1>5, <1>6, <1>7, <1>8, <1>9, <1>10

(***************************************************************************)
(* What the registers hold.                                                 *)
(***************************************************************************)
\* A call has begun, about these arguments, and the owner has stored nothing since.
InCall == status \in {"running", "returned"}

Called == InCall => Arguments \in Inputs

\* A call that is back stands behind the last instruction; the registers that are
\* loaded keep the arguments to its end, ...
Loaded ==
  /\ pc \in 0 .. 65
  /\ status = "returned" => pc = 65
  /\ pc >= 1 => p = P
  /\ pc >= 2 => regs[6] = Param
  /\ pc >= 3 => regs[5] = P
  /\ pc >= 4 => regs[12] = Zero
  /\ pc >= 5 => regs[0] = 0
  /\ pc >= 6 => regs[1] = X1
  /\ pc >= 7 => regs[2] = Y1
  /\ pc >= 8 => regs[3] = X2
  /\ pc >= 9 => regs[4] = Y2

\* ... each place of the program is reached by one case of the addition, and from
\* the subroutine the link leads back to the same case, ...
Path ==
  /\ pc \in 13 .. 62 => BitOr(X1, Y1) # Zero
  /\ pc \in 17 .. 62 => BitOr(X2, Y2) # Zero
  /\ pc \in 18 .. 24 => X1 # X2
  /\ pc \in 25 .. 38 \/ pc \in 51 .. 62 => X1 # X2 \/ Y1 = Y2
  /\ pc \in 39 .. 50 => X1 = X2
  /\ pc \in 40 .. 42 => Y1 # Y2
  /\ pc \in 43 .. 50 => Y1 = Y2
  /\ pc \in 25 .. 38 => regs[10] = IF X1 # X2 THEN 22 ELSE 49

\* ... and the others hold, for a while, what one instruction has put there.
Temporaries ==
  /\ pc \in 10 .. 12 => regs[13] = BitOr(X1, Y1)
  /\ pc \in 11 .. 12 => regs[8] = Add(X2, 0)
  /\ pc = 12 => regs[9] = Add(Y2, 0)
  /\ pc \in 14 .. 16 => regs[13] = BitOr(X2, Y2)
  /\ pc \in 15 .. 16 => regs[8] = Add(X1, 0)
  /\ pc = 16 => regs[9] = Add(Y1, 0)
  /\ pc \in 26 .. 30 => regs[8] = 1
  /\ pc \in 27 .. 37 => regs[22] = 1
  /\ pc \in 29 .. 37 => regs[23] = 2
  /\ pc = 30 => regs[21] = Sub(P, 2)
  /\ pc = 32 => regs[13] = BitAnd(regs[21], 1)
  /\ pc = 33 => regs[21] % 2 = 1
  /\ pc = 42 => regs[9] = Zero
  /\ pc = 45 => regs[14] = 3
  /\ pc = 48 => regs[14] = 2
  /\ pc \in 64 .. 65 => sram[OUT_ADDR1] = regs[8]
  /\ pc = 65 => sram[OUT_ADDR2] = regs[9]

Registers == InCall => Loaded /\ Path /\ Temporaries

\* A step is inside the program, and leaves the arguments and the call alone.
LEMMA StepInside ==
  ASSUME ProcessorTypeOK, Registers, Mapped, Step(PAddProg)
  PROVE  /\ status = "running" /\ status' = "running" /\ InCall /\ InCall'
         /\ pc \in 0 .. 64 /\ pc \in Nat
         /\ pc \in 0 .. 62 => sram' = sram
         /\ \A a \in 0 .. 7 : sram'[a] = sram[a]
<1>1. status = "running" /\ pc < 65 /\ pc \in Nat /\ InCall
  BY ProgFacts, PcAssumption DEF Step, Running, ProcessorTypeOK, Pc, InCall
<1>2. pc \in 0 .. 64
  BY <1>1
<1>3. ASSUME pc \in 0 .. 8
      PROVE  status' = status /\ sram' = sram
  <2>1. pc = 0 \/ pc = 1 \/ pc = 2 \/ pc = 3 \/ pc = 4 \/ pc = 5 \/ pc = 6 \/ pc = 7 \/ pc = 8
    BY <1>3
  <2>2. QED
    BY <1>1, <2>1, LoadEffects DEF Wrote, BranchTo, LoadedPrime, Linked, Returned, Stored
<1>4. ASSUME pc \in 9 .. 17
      PROVE  status' = status /\ sram' = sram
  <2>1. pc = 9 \/ pc = 10 \/ pc = 11 \/ pc = 12 \/ pc = 13 \/ pc = 14 \/ pc = 15 \/ pc = 16 \/ pc = 17
    BY <1>4
  <2>2. QED
    BY <1>1, <2>1, ZeroEffects DEF Wrote, BranchTo, LoadedPrime, Linked, Returned, Stored
<1>5. ASSUME pc \in 18 .. 24
      PROVE  status' = status /\ sram' = sram
  <2>1. pc = 18 \/ pc = 19 \/ pc = 20 \/ pc = 21 \/ pc = 22 \/ pc = 23 \/ pc = 24
    BY <1>5
  <2>2. QED
    BY <1>1, <2>1, ChordEffects DEF Wrote, BranchTo, LoadedPrime, Linked, Returned, Stored
<1>6. ASSUME pc \in 25 .. 30
      PROVE  status' = status /\ sram' = sram
  <2>1. pc = 25 \/ pc = 26 \/ pc = 27 \/ pc = 28 \/ pc = 29 \/ pc = 30
    BY <1>6
  <2>2. QED
    BY <1>1, <2>1, CallEffects DEF Wrote, BranchTo, LoadedPrime, Linked, Returned, Stored
<1>7. ASSUME pc \in 31 .. 38
      PROVE  status' = status /\ sram' = sram
  <2>1. pc = 31 \/ pc = 32 \/ pc = 33 \/ pc = 34 \/ pc = 35 \/ pc = 36 \/ pc = 37 \/ pc = 38
    BY <1>7
  <2>2. QED
    BY <1>1, <2>1, LoopEffects DEF Wrote, BranchTo, LoadedPrime, Linked, Returned, Stored
<1>8. ASSUME pc \in 39 .. 42
      PROVE  status' = status /\ sram' = sram
  <2>1. pc = 39 \/ pc = 40 \/ pc = 41 \/ pc = 42
    BY <1>8
  <2>2. QED
    BY <1>1, <2>1, SameXEffects DEF Wrote, BranchTo, LoadedPrime, Linked, Returned, Stored
<1>9. ASSUME pc \in 43 .. 50
      PROVE  status' = status /\ sram' = sram
  <2>1. pc = 43 \/ pc = 44 \/ pc = 45 \/ pc = 46 \/ pc = 47 \/ pc = 48 \/ pc = 49 \/ pc = 50
    BY <1>9
  <2>2. QED
    BY <1>1, <2>1, TangentEffects DEF Wrote, BranchTo, LoadedPrime, Linked, Returned, Stored
<1>10. ASSUME pc \in 51 .. 56
      PROVE  status' = status /\ sram' = sram
  <2>1. pc = 51 \/ pc = 52 \/ pc = 53 \/ pc = 54 \/ pc = 55 \/ pc = 56
    BY <1>10
  <2>2. QED
    BY <1>1, <2>1, LineEffects DEF Wrote, BranchTo, LoadedPrime, Linked, Returned, Stored
<1>11. ASSUME pc \in 57 .. 64
      PROVE  status' = status /\ (pc \in 0 .. 62 => sram' = sram) /\ (\/ sram' = sram
                   \/ sram' = [sram EXCEPT ![OUT_ADDR1] = regs[8]]
                   \/ sram' = [sram EXCEPT ![OUT_ADDR2] = regs[9]])
  <2>1. pc = 57 \/ pc = 58 \/ pc = 59 \/ pc = 60 \/ pc = 61 \/ pc = 62 \/ pc = 63 \/ pc = 64
    BY <1>11
  <2>2. QED
    BY <1>1, <2>1, SumEffects DEF Wrote, BranchTo, LoadedPrime, Linked, Returned, Stored
<1>12. /\ status' = status
       /\ pc \in 0 .. 62 => sram' = sram
       /\ \/ sram' = sram
          \/ sram' = [sram EXCEPT ![OUT_ADDR1] = regs[8]]
          \/ sram' = [sram EXCEPT ![OUT_ADDR2] = regs[9]]
  <2>1. pc \in 0 .. 8 \/ pc \in 9 .. 17 \/ pc \in 18 .. 24 \/ pc \in 25 .. 30 \/ pc \in 31 .. 38
        \/ pc \in 39 .. 42 \/ pc \in 43 .. 50 \/ pc \in 51 .. 56 \/ pc \in 57 .. 64
    BY <1>2
  <2>2. QED
    BY <1>2, <1>3, <1>4, <1>5, <1>6, <1>7, <1>8, <1>9, <1>10, <1>11, <2>1
<1>13. status' = status /\ (pc \in 0 .. 62 => sram' = sram)
  BY <1>12
<1>14. \A a \in 0 .. 7 : sram'[a] = sram[a]
  <2>1. ASSUME NEW a \in 0 .. 7 PROVE a \in Addr /\ a # OUT_ADDR1 /\ a # OUT_ADDR2
    <3>1. a \in 0 .. 11 /\ a # 10 /\ a # 11
      OBVIOUS
    <3>2. QED
      BY <3>1, NamesFit
  <2>2. sram \in [Addr -> Word]
    BY DEF ProcessorTypeOK
  <2>3. ASSUME NEW a \in 0 .. 7 PROVE sram'[a] = sram[a]
    <3>1. a \in Addr /\ a # OUT_ADDR1 /\ a # OUT_ADDR2
      BY <2>1
    <3>2. CASE sram' = sram
      BY <3>2
    <3>3. CASE sram' = [sram EXCEPT ![OUT_ADDR1] = regs[8]]
      BY <2>2, <3>1, <3>3
    <3>4. CASE sram' = [sram EXCEPT ![OUT_ADDR2] = regs[9]]
      BY <2>2, <3>1, <3>4
    <3>5. QED
      BY <1>12, <3>2, <3>3, <3>4
  <2>4. QED
    BY <2>3
<1>15. InCall'
  BY <1>1, <1>13 DEF InCall
<1>16. QED
  BY <1>1, <1>2, <1>13, <1>14, <1>15

\* The arguments are the eight words below the outputs.
LEMMA ArgumentsKept ==
  ASSUME \A a \in 0 .. 7 : sram'[a] = sram[a]
  PROVE  /\ P' = P /\ Param' = Param /\ Zero' = Zero
         /\ X1' = X1 /\ Y1' = Y1 /\ X2' = X2 /\ Y2' = Y2
         /\ Arguments' = Arguments
<1>1. 0 \in 0 .. 7 /\ 1 \in 0 .. 7 /\ 2 \in 0 .. 7 /\ 3 \in 0 .. 7
  OBVIOUS
<1>2. 4 \in 0 .. 7 /\ 5 \in 0 .. 7 /\ 6 \in 0 .. 7 /\ 7 \in 0 .. 7
  OBVIOUS
<1>3. \A k \in 1 .. 8 : sram'[k - 1] = sram[k - 1]
  <2>1. \A k \in 1 .. 8 : k - 1 \in 0 .. 7
    OBVIOUS
  <2>2. QED
    BY <2>1
<1>4. QED
  BY <1>1, <1>2, <1>3
     DEF P, Param, Zero, X1, Y1, X2, Y2, Arguments, P_ADDR, A_ADDR, Z_ADDR, X1_ADDR, Y1_ADDR,
         X2_ADDR, Y2_ADDR

\* A write changes one register.
LEMMA AfterWrite ==
  \A d \in Reg : \A v :
    ProcessorTypeOK /\ Wrote(d, v) =>
      /\ regs'[d] = v
      /\ \A r \in Reg : r # d => regs'[r] = regs[r]
      /\ pc' = pc + 1 /\ sram' = sram /\ p' = p
BY DEF ProcessorTypeOK, Wrote

\* A jump to the subroutine links, and changes nothing else that is in use.
LEMMA AfterLink ==
  ProcessorTypeOK /\ Linked =>
    /\ regs'[10] = pc
    /\ \A r \in Reg : r # 10 => regs'[r] = regs[r]
    /\ pc' = 25 /\ sram' = sram /\ p' = p
BY NamesFit DEF ProcessorTypeOK, Linked

\* The subroutine goes back behind the jump that entered it.
LEMMA AfterReturn ==
  ASSUME Returned, regs[10] = 22 \/ regs[10] = 49
  PROVE  pc' = regs[10] + 1 /\ UNCHANGED <<sram, regs, p>>
<1>1. Half \in Nat /\ Half > 65 /\ PcModulus \in Nat /\ PcModulus # 0 /\ PcModulus > 65
  BY NamesFit, PcAssumption
<1> DEFINE t == regs[10] + 1
<1>2. t \in 23 .. 50
  OBVIOUS
<1> HIDE DEF t
<1>3. t \in Word /\ t \in 0 .. PcModulus - 1
  BY <1>1, <1>2 DEF Word
<1>4. Wrap(t) = t /\ t % PcModulus = t
  BY <1>1, PcAssumption, <1>3, WrapOfWord, ResidueIsItself
<1>5. Add(regs[10], 1) = Wrap(t)
  BY DEF Add, t
<1>6. QED
  BY <1>4, <1>5 DEF Returned, t

\* A step keeps the invariant of the registers: the loads, ...
LEMMA LoadKept ==
  ASSUME ProcessorTypeOK, Registers, Mapped, Step(PAddProg), pc \in 0 .. 8
  PROVE  Registers'
<1>1. /\ status = "running" /\ status' = "running" /\ InCall /\ InCall'
      /\ pc \in Nat /\ Loaded /\ Path /\ Temporaries
      /\ P' = P /\ Param' = Param /\ Zero' = Zero
      /\ X1' = X1 /\ Y1' = Y1 /\ X2' = X2 /\ Y2' = Y2
  BY StepInside, ArgumentsKept DEF Registers
<1> SUFFICES Loaded' /\ Path' /\ Temporaries'
  BY DEF Registers
<1>2. CASE pc = 0
  <2>1. LoadedPrime
    BY <1>1, <1>2, LoadEffects
  <2>3. Loaded'
    BY <1>1, <1>2, <2>1 DEF Loaded, LoadedPrime, BranchTo
  <2>4. Path'
    BY <1>1, <1>2, <2>1 DEF Path, Loaded, Temporaries, LoadedPrime, BranchTo
  <2>5. Temporaries'
    BY <1>1, <1>2, <2>1 DEF Temporaries, Loaded, LoadedPrime, BranchTo
  <2>6. QED
    BY <2>3, <2>4, <2>5
<1>3. CASE pc = 1
  <2>1. Wrote(6, Param)
    BY <1>1, <1>3, LoadEffects
  <2>2. /\ regs'[6] = Param /\ pc' = 2 /\ sram' = sram /\ p' = p
        /\ regs'[0] = regs[0] /\ regs'[1] = regs[1] /\ regs'[2] = regs[2] /\ regs'[3] = regs[3]
        /\ regs'[4] = regs[4]
        /\ regs'[5] = regs[5] /\ regs'[8] = regs[8] /\ regs'[9] = regs[9] /\ regs'[10] = regs[10]
        /\ regs'[12] = regs[12]
        /\ regs'[13] = regs[13] /\ regs'[14] = regs[14] /\ regs'[21] = regs[21]
        /\ regs'[22] = regs[22] /\ regs'[23] = regs[23]
    BY RegistersExist, <1>3, <2>1, AfterWrite
  <2>3. Loaded'
    BY <1>1, <1>3, <2>2 DEF Loaded
  <2>4. Path'
    BY <1>1, <1>3, <2>2 DEF Path
  <2>5. Temporaries'
    BY <1>1, <1>3, <2>2 DEF Temporaries, Loaded
  <2>6. QED
    BY <2>3, <2>4, <2>5
<1>4. CASE pc = 2
  <2>1. Wrote(5, P)
    BY <1>1, <1>4, LoadEffects
  <2>2. /\ regs'[5] = P /\ pc' = 3 /\ sram' = sram /\ p' = p
        /\ regs'[0] = regs[0] /\ regs'[1] = regs[1] /\ regs'[2] = regs[2] /\ regs'[3] = regs[3]
        /\ regs'[4] = regs[4]
        /\ regs'[6] = regs[6] /\ regs'[8] = regs[8] /\ regs'[9] = regs[9] /\ regs'[10] = regs[10]
        /\ regs'[12] = regs[12]
        /\ regs'[13] = regs[13] /\ regs'[14] = regs[14] /\ regs'[21] = regs[21]
        /\ regs'[22] = regs[22] /\ regs'[23] = regs[23]
    BY RegistersExist, <1>4, <2>1, AfterWrite
  <2>3. Loaded'
    BY <1>1, <1>4, <2>2 DEF Loaded
  <2>4. Path'
    BY <1>1, <1>4, <2>2 DEF Path
  <2>5. Temporaries'
    BY <1>1, <1>4, <2>2 DEF Temporaries, Loaded
  <2>6. QED
    BY <2>3, <2>4, <2>5
<1>5. CASE pc = 3
  <2>1. Wrote(12, Zero)
    BY <1>1, <1>5, LoadEffects
  <2>2. /\ regs'[12] = Zero /\ pc' = 4 /\ sram' = sram /\ p' = p
        /\ regs'[0] = regs[0] /\ regs'[1] = regs[1] /\ regs'[2] = regs[2] /\ regs'[3] = regs[3]
        /\ regs'[4] = regs[4]
        /\ regs'[5] = regs[5] /\ regs'[6] = regs[6] /\ regs'[8] = regs[8] /\ regs'[9] = regs[9]
        /\ regs'[10] = regs[10]
        /\ regs'[13] = regs[13] /\ regs'[14] = regs[14] /\ regs'[21] = regs[21]
        /\ regs'[22] = regs[22] /\ regs'[23] = regs[23]
    BY RegistersExist, <1>5, <2>1, AfterWrite
  <2>3. Loaded'
    BY <1>1, <1>5, <2>2 DEF Loaded
  <2>4. Path'
    BY <1>1, <1>5, <2>2 DEF Path
  <2>5. Temporaries'
    BY <1>1, <1>5, <2>2 DEF Temporaries, Loaded
  <2>6. QED
    BY <2>3, <2>4, <2>5
<1>6. CASE pc = 4
  <2>1. Wrote(0, 0)
    BY <1>1, <1>6, LoadEffects
  <2>2. /\ regs'[0] = 0 /\ pc' = 5 /\ sram' = sram /\ p' = p
        /\ regs'[1] = regs[1] /\ regs'[2] = regs[2] /\ regs'[3] = regs[3] /\ regs'[4] = regs[4]
        /\ regs'[5] = regs[5]
        /\ regs'[6] = regs[6] /\ regs'[8] = regs[8] /\ regs'[9] = regs[9] /\ regs'[10] = regs[10]
        /\ regs'[12] = regs[12]
        /\ regs'[13] = regs[13] /\ regs'[14] = regs[14] /\ regs'[21] = regs[21]
        /\ regs'[22] = regs[22] /\ regs'[23] = regs[23]
    BY RegistersExist, <1>6, <2>1, AfterWrite
  <2>3. Loaded'
    BY <1>1, <1>6, <2>2 DEF Loaded
  <2>4. Path'
    BY <1>1, <1>6, <2>2 DEF Path
  <2>5. Temporaries'
    BY <1>1, <1>6, <2>2 DEF Temporaries, Loaded
  <2>6. QED
    BY <2>3, <2>4, <2>5
<1>7. CASE pc = 5
  <2>1. Wrote(1, X1)
    BY <1>1, <1>7, LoadEffects
  <2>2. /\ regs'[1] = X1 /\ pc' = 6 /\ sram' = sram /\ p' = p
        /\ regs'[0] = regs[0] /\ regs'[2] = regs[2] /\ regs'[3] = regs[3] /\ regs'[4] = regs[4]
        /\ regs'[5] = regs[5]
        /\ regs'[6] = regs[6] /\ regs'[8] = regs[8] /\ regs'[9] = regs[9] /\ regs'[10] = regs[10]
        /\ regs'[12] = regs[12]
        /\ regs'[13] = regs[13] /\ regs'[14] = regs[14] /\ regs'[21] = regs[21]
        /\ regs'[22] = regs[22] /\ regs'[23] = regs[23]
    BY RegistersExist, <1>7, <2>1, AfterWrite
  <2>3. Loaded'
    BY <1>1, <1>7, <2>2 DEF Loaded
  <2>4. Path'
    BY <1>1, <1>7, <2>2 DEF Path
  <2>5. Temporaries'
    BY <1>1, <1>7, <2>2 DEF Temporaries, Loaded
  <2>6. QED
    BY <2>3, <2>4, <2>5
<1>8. CASE pc = 6
  <2>1. Wrote(2, Y1)
    BY <1>1, <1>8, LoadEffects
  <2>2. /\ regs'[2] = Y1 /\ pc' = 7 /\ sram' = sram /\ p' = p
        /\ regs'[0] = regs[0] /\ regs'[1] = regs[1] /\ regs'[3] = regs[3] /\ regs'[4] = regs[4]
        /\ regs'[5] = regs[5]
        /\ regs'[6] = regs[6] /\ regs'[8] = regs[8] /\ regs'[9] = regs[9] /\ regs'[10] = regs[10]
        /\ regs'[12] = regs[12]
        /\ regs'[13] = regs[13] /\ regs'[14] = regs[14] /\ regs'[21] = regs[21]
        /\ regs'[22] = regs[22] /\ regs'[23] = regs[23]
    BY RegistersExist, <1>8, <2>1, AfterWrite
  <2>3. Loaded'
    BY <1>1, <1>8, <2>2 DEF Loaded
  <2>4. Path'
    BY <1>1, <1>8, <2>2 DEF Path
  <2>5. Temporaries'
    BY <1>1, <1>8, <2>2 DEF Temporaries, Loaded
  <2>6. QED
    BY <2>3, <2>4, <2>5
<1>9. CASE pc = 7
  <2>1. Wrote(3, X2)
    BY <1>1, <1>9, LoadEffects
  <2>2. /\ regs'[3] = X2 /\ pc' = 8 /\ sram' = sram /\ p' = p
        /\ regs'[0] = regs[0] /\ regs'[1] = regs[1] /\ regs'[2] = regs[2] /\ regs'[4] = regs[4]
        /\ regs'[5] = regs[5]
        /\ regs'[6] = regs[6] /\ regs'[8] = regs[8] /\ regs'[9] = regs[9] /\ regs'[10] = regs[10]
        /\ regs'[12] = regs[12]
        /\ regs'[13] = regs[13] /\ regs'[14] = regs[14] /\ regs'[21] = regs[21]
        /\ regs'[22] = regs[22] /\ regs'[23] = regs[23]
    BY RegistersExist, <1>9, <2>1, AfterWrite
  <2>3. Loaded'
    BY <1>1, <1>9, <2>2 DEF Loaded
  <2>4. Path'
    BY <1>1, <1>9, <2>2 DEF Path
  <2>5. Temporaries'
    BY <1>1, <1>9, <2>2 DEF Temporaries, Loaded
  <2>6. QED
    BY <2>3, <2>4, <2>5
<1>10. CASE pc = 8
  <2>1. Wrote(4, Y2)
    BY <1>1, <1>10, LoadEffects
  <2>2. /\ regs'[4] = Y2 /\ pc' = 9 /\ sram' = sram /\ p' = p
        /\ regs'[0] = regs[0] /\ regs'[1] = regs[1] /\ regs'[2] = regs[2] /\ regs'[3] = regs[3]
        /\ regs'[5] = regs[5]
        /\ regs'[6] = regs[6] /\ regs'[8] = regs[8] /\ regs'[9] = regs[9] /\ regs'[10] = regs[10]
        /\ regs'[12] = regs[12]
        /\ regs'[13] = regs[13] /\ regs'[14] = regs[14] /\ regs'[21] = regs[21]
        /\ regs'[22] = regs[22] /\ regs'[23] = regs[23]
    BY RegistersExist, <1>10, <2>1, AfterWrite
  <2>3. Loaded'
    BY <1>1, <1>10, <2>2 DEF Loaded
  <2>4. Path'
    BY <1>1, <1>10, <2>2 DEF Path
  <2>5. Temporaries'
    BY <1>1, <1>10, <2>2 DEF Temporaries, Loaded
  <2>6. QED
    BY <2>3, <2>4, <2>5
<1>11. pc = 0 \/ pc = 1 \/ pc = 2 \/ pc = 3 \/ pc = 4 \/ pc = 5 \/ pc = 6 \/ pc = 7 \/ pc = 8
  OBVIOUS
<1>12. QED
  BY <1>2, <1>3, <1>4, <1>5, <1>6, <1>7, <1>8, <1>9, <1>10, <1>11

\* ... the tests for zero, ...
LEMMA ZeroKept ==
  ASSUME ProcessorTypeOK, Registers, Mapped, Step(PAddProg), pc \in 9 .. 17
  PROVE  Registers'
<1>1. /\ status = "running" /\ status' = "running" /\ InCall /\ InCall'
      /\ pc \in Nat /\ Loaded /\ Path /\ Temporaries
      /\ P' = P /\ Param' = Param /\ Zero' = Zero
      /\ X1' = X1 /\ Y1' = Y1 /\ X2' = X2 /\ Y2' = Y2
  BY StepInside, ArgumentsKept DEF Registers
<1> SUFFICES Loaded' /\ Path' /\ Temporaries'
  BY DEF Registers
<1>2. CASE pc = 9
  <2>1. Wrote(13, BitOr(regs[1], regs[2]))
    BY <1>1, <1>2, ZeroEffects
  <2>2. /\ regs'[13] = BitOr(regs[1], regs[2]) /\ pc' = 10 /\ sram' = sram /\ p' = p
        /\ regs'[0] = regs[0] /\ regs'[1] = regs[1] /\ regs'[2] = regs[2] /\ regs'[3] = regs[3]
        /\ regs'[4] = regs[4]
        /\ regs'[5] = regs[5] /\ regs'[6] = regs[6] /\ regs'[8] = regs[8] /\ regs'[9] = regs[9]
        /\ regs'[10] = regs[10]
        /\ regs'[12] = regs[12] /\ regs'[14] = regs[14] /\ regs'[21] = regs[21]
        /\ regs'[22] = regs[22] /\ regs'[23] = regs[23]
    BY RegistersExist, <1>2, <2>1, AfterWrite
  <2>3. Loaded'
    BY <1>1, <1>2, <2>2 DEF Loaded
  <2>4. Path'
    BY <1>1, <1>2, <2>2 DEF Path
  <2>5. Temporaries'
    BY <1>1, <1>2, <2>2 DEF Temporaries, Loaded
  <2>6. QED
    BY <2>3, <2>4, <2>5
<1>3. CASE pc = 10
  <2>1. Wrote(8, Add(regs[3], regs[0]))
    BY <1>1, <1>3, ZeroEffects
  <2>2. /\ regs'[8] = Add(regs[3], regs[0]) /\ pc' = 11 /\ sram' = sram /\ p' = p
        /\ regs'[0] = regs[0] /\ regs'[1] = regs[1] /\ regs'[2] = regs[2] /\ regs'[3] = regs[3]
        /\ regs'[4] = regs[4]
        /\ regs'[5] = regs[5] /\ regs'[6] = regs[6] /\ regs'[9] = regs[9] /\ regs'[10] = regs[10]
        /\ regs'[12] = regs[12]
        /\ regs'[13] = regs[13] /\ regs'[14] = regs[14] /\ regs'[21] = regs[21]
        /\ regs'[22] = regs[22] /\ regs'[23] = regs[23]
    BY RegistersExist, <1>3, <2>1, AfterWrite
  <2>3. Loaded'
    BY <1>1, <1>3, <2>2 DEF Loaded
  <2>4. Path'
    BY <1>1, <1>3, <2>2 DEF Path
  <2>5. Temporaries'
    BY <1>1, <1>3, <2>2 DEF Temporaries, Loaded
  <2>6. QED
    BY <2>3, <2>4, <2>5
<1>4. CASE pc = 11
  <2>1. Wrote(9, Add(regs[4], regs[0]))
    BY <1>1, <1>4, ZeroEffects
  <2>2. /\ regs'[9] = Add(regs[4], regs[0]) /\ pc' = 12 /\ sram' = sram /\ p' = p
        /\ regs'[0] = regs[0] /\ regs'[1] = regs[1] /\ regs'[2] = regs[2] /\ regs'[3] = regs[3]
        /\ regs'[4] = regs[4]
        /\ regs'[5] = regs[5] /\ regs'[6] = regs[6] /\ regs'[8] = regs[8] /\ regs'[10] = regs[10]
        /\ regs'[12] = regs[12]
        /\ regs'[13] = regs[13] /\ regs'[14] = regs[14] /\ regs'[21] = regs[21]
        /\ regs'[22] = regs[22] /\ regs'[23] = regs[23]
    BY RegistersExist, <1>4, <2>1, AfterWrite
  <2>3. Loaded'
    BY <1>1, <1>4, <2>2 DEF Loaded
  <2>4. Path'
    BY <1>1, <1>4, <2>2 DEF Path
  <2>5. Temporaries'
    BY <1>1, <1>4, <2>2 DEF Temporaries, Loaded
  <2>6. QED
    BY <2>3, <2>4, <2>5
<1>5. CASE pc = 12
  <2>1. BranchTo(13, 12, 63)
    BY <1>1, <1>5, ZeroEffects
  <2>3. Loaded'
    BY <1>1, <1>5, <2>1 DEF Loaded, LoadedPrime, BranchTo
  <2>4. Path'
    BY <1>1, <1>5, <2>1 DEF Path, Loaded, Temporaries, LoadedPrime, BranchTo
  <2>5. Temporaries'
    BY <1>1, <1>5, <2>1 DEF Temporaries, Loaded, LoadedPrime, BranchTo
  <2>6. QED
    BY <2>3, <2>4, <2>5
<1>6. CASE pc = 13
  <2>1. Wrote(13, BitOr(regs[3], regs[4]))
    BY <1>1, <1>6, ZeroEffects
  <2>2. /\ regs'[13] = BitOr(regs[3], regs[4]) /\ pc' = 14 /\ sram' = sram /\ p' = p
        /\ regs'[0] = regs[0] /\ regs'[1] = regs[1] /\ regs'[2] = regs[2] /\ regs'[3] = regs[3]
        /\ regs'[4] = regs[4]
        /\ regs'[5] = regs[5] /\ regs'[6] = regs[6] /\ regs'[8] = regs[8] /\ regs'[9] = regs[9]
        /\ regs'[10] = regs[10]
        /\ regs'[12] = regs[12] /\ regs'[14] = regs[14] /\ regs'[21] = regs[21]
        /\ regs'[22] = regs[22] /\ regs'[23] = regs[23]
    BY RegistersExist, <1>6, <2>1, AfterWrite
  <2>3. Loaded'
    BY <1>1, <1>6, <2>2 DEF Loaded
  <2>4. Path'
    BY <1>1, <1>6, <2>2 DEF Path
  <2>5. Temporaries'
    BY <1>1, <1>6, <2>2 DEF Temporaries, Loaded
  <2>6. QED
    BY <2>3, <2>4, <2>5
<1>7. CASE pc = 14
  <2>1. Wrote(8, Add(regs[1], regs[0]))
    BY <1>1, <1>7, ZeroEffects
  <2>2. /\ regs'[8] = Add(regs[1], regs[0]) /\ pc' = 15 /\ sram' = sram /\ p' = p
        /\ regs'[0] = regs[0] /\ regs'[1] = regs[1] /\ regs'[2] = regs[2] /\ regs'[3] = regs[3]
        /\ regs'[4] = regs[4]
        /\ regs'[5] = regs[5] /\ regs'[6] = regs[6] /\ regs'[9] = regs[9] /\ regs'[10] = regs[10]
        /\ regs'[12] = regs[12]
        /\ regs'[13] = regs[13] /\ regs'[14] = regs[14] /\ regs'[21] = regs[21]
        /\ regs'[22] = regs[22] /\ regs'[23] = regs[23]
    BY RegistersExist, <1>7, <2>1, AfterWrite
  <2>3. Loaded'
    BY <1>1, <1>7, <2>2 DEF Loaded
  <2>4. Path'
    BY <1>1, <1>7, <2>2 DEF Path
  <2>5. Temporaries'
    BY <1>1, <1>7, <2>2 DEF Temporaries, Loaded
  <2>6. QED
    BY <2>3, <2>4, <2>5
<1>8. CASE pc = 15
  <2>1. Wrote(9, Add(regs[2], regs[0]))
    BY <1>1, <1>8, ZeroEffects
  <2>2. /\ regs'[9] = Add(regs[2], regs[0]) /\ pc' = 16 /\ sram' = sram /\ p' = p
        /\ regs'[0] = regs[0] /\ regs'[1] = regs[1] /\ regs'[2] = regs[2] /\ regs'[3] = regs[3]
        /\ regs'[4] = regs[4]
        /\ regs'[5] = regs[5] /\ regs'[6] = regs[6] /\ regs'[8] = regs[8] /\ regs'[10] = regs[10]
        /\ regs'[12] = regs[12]
        /\ regs'[13] = regs[13] /\ regs'[14] = regs[14] /\ regs'[21] = regs[21]
        /\ regs'[22] = regs[22] /\ regs'[23] = regs[23]
    BY RegistersExist, <1>8, <2>1, AfterWrite
  <2>3. Loaded'
    BY <1>1, <1>8, <2>2 DEF Loaded
  <2>4. Path'
    BY <1>1, <1>8, <2>2 DEF Path
  <2>5. Temporaries'
    BY <1>1, <1>8, <2>2 DEF Temporaries, Loaded
  <2>6. QED
    BY <2>3, <2>4, <2>5
<1>9. CASE pc = 16
  <2>1. BranchTo(13, 12, 63)
    BY <1>1, <1>9, ZeroEffects
  <2>3. Loaded'
    BY <1>1, <1>9, <2>1 DEF Loaded, LoadedPrime, BranchTo
  <2>4. Path'
    BY <1>1, <1>9, <2>1 DEF Path, Loaded, Temporaries, LoadedPrime, BranchTo
  <2>5. Temporaries'
    BY <1>1, <1>9, <2>1 DEF Temporaries, Loaded, LoadedPrime, BranchTo
  <2>6. QED
    BY <2>3, <2>4, <2>5
<1>10. CASE pc = 17
  <2>1. BranchTo(1, 3, 39)
    BY <1>1, <1>10, ZeroEffects
  <2>3. Loaded'
    BY <1>1, <1>10, <2>1 DEF Loaded, LoadedPrime, BranchTo
  <2>4. Path'
    BY <1>1, <1>10, <2>1 DEF Path, Loaded, Temporaries, LoadedPrime, BranchTo
  <2>5. Temporaries'
    BY <1>1, <1>10, <2>1 DEF Temporaries, Loaded, LoadedPrime, BranchTo
  <2>6. QED
    BY <2>3, <2>4, <2>5
<1>11. pc = 9 \/ pc = 10 \/ pc = 11 \/ pc = 12 \/ pc = 13 \/ pc = 14 \/ pc = 15 \/ pc = 16 \/ pc = 17
  OBVIOUS
<1>12. QED
  BY <1>2, <1>3, <1>4, <1>5, <1>6, <1>7, <1>8, <1>9, <1>10, <1>11

\* ... the chord, ...
LEMMA ChordKept ==
  ASSUME ProcessorTypeOK, Registers, Mapped, Step(PAddProg), pc \in 18 .. 24
  PROVE  Registers'
<1>1. /\ status = "running" /\ status' = "running" /\ InCall /\ InCall'
      /\ pc \in Nat /\ Loaded /\ Path /\ Temporaries
      /\ P' = P /\ Param' = Param /\ Zero' = Zero
      /\ X1' = X1 /\ Y1' = Y1 /\ X2' = X2 /\ Y2' = Y2
  BY StepInside, ArgumentsKept DEF Registers
<1> SUFFICES Loaded' /\ Path' /\ Temporaries'
  BY DEF Registers
<1>2. CASE pc = 18
  <2>1. Wrote(13, Rem(Sub(regs[2], regs[4]), p))
    BY <1>1, <1>2, ChordEffects
  <2>2. /\ regs'[13] = Rem(Sub(regs[2], regs[4]), p) /\ pc' = 19 /\ sram' = sram /\ p' = p
        /\ regs'[0] = regs[0] /\ regs'[1] = regs[1] /\ regs'[2] = regs[2] /\ regs'[3] = regs[3]
        /\ regs'[4] = regs[4]
        /\ regs'[5] = regs[5] /\ regs'[6] = regs[6] /\ regs'[8] = regs[8] /\ regs'[9] = regs[9]
        /\ regs'[10] = regs[10]
        /\ regs'[12] = regs[12] /\ regs'[14] = regs[14] /\ regs'[21] = regs[21]
        /\ regs'[22] = regs[22] /\ regs'[23] = regs[23]
    BY RegistersExist, <1>2, <2>1, AfterWrite
  <2>3. Loaded'
    BY <1>1, <1>2, <2>2 DEF Loaded
  <2>4. Path'
    BY <1>1, <1>2, <2>2 DEF Path
  <2>5. Temporaries'
    BY <1>1, <1>2, <2>2 DEF Temporaries, Loaded
  <2>6. QED
    BY <2>3, <2>4, <2>5
<1>3. CASE pc = 19
  <2>1. Wrote(14, Rem(Add(regs[13], regs[5]), p))
    BY <1>1, <1>3, ChordEffects
  <2>2. /\ regs'[14] = Rem(Add(regs[13], regs[5]), p) /\ pc' = 20 /\ sram' = sram /\ p' = p
        /\ regs'[0] = regs[0] /\ regs'[1] = regs[1] /\ regs'[2] = regs[2] /\ regs'[3] = regs[3]
        /\ regs'[4] = regs[4]
        /\ regs'[5] = regs[5] /\ regs'[6] = regs[6] /\ regs'[8] = regs[8] /\ regs'[9] = regs[9]
        /\ regs'[10] = regs[10]
        /\ regs'[12] = regs[12] /\ regs'[13] = regs[13] /\ regs'[21] = regs[21]
        /\ regs'[22] = regs[22] /\ regs'[23] = regs[23]
    BY RegistersExist, <1>3, <2>1, AfterWrite
  <2>3. Loaded'
    BY <1>1, <1>3, <2>2 DEF Loaded
  <2>4. Path'
    BY <1>1, <1>3, <2>2 DEF Path
  <2>5. Temporaries'
    BY <1>1, <1>3, <2>2 DEF Temporaries, Loaded
  <2>6. QED
    BY <2>3, <2>4, <2>5
<1>4. CASE pc = 20
  <2>1. Wrote(15, Rem(Sub(regs[1], regs[3]), p))
    BY <1>1, <1>4, ChordEffects
  <2>2. /\ regs'[15] = Rem(Sub(regs[1], regs[3]), p) /\ pc' = 21 /\ sram' = sram /\ p' = p
        /\ regs'[0] = regs[0] /\ regs'[1] = regs[1] /\ regs'[2] = regs[2] /\ regs'[3] = regs[3]
        /\ regs'[4] = regs[4]
        /\ regs'[5] = regs[5] /\ regs'[6] = regs[6] /\ regs'[8] = regs[8] /\ regs'[9] = regs[9]
        /\ regs'[10] = regs[10]
        /\ regs'[12] = regs[12] /\ regs'[13] = regs[13] /\ regs'[14] = regs[14]
        /\ regs'[21] = regs[21] /\ regs'[22] = regs[22]
        /\ regs'[23] = regs[23]
    BY RegistersExist, <1>4, <2>1, AfterWrite
  <2>3. Loaded'
    BY <1>1, <1>4, <2>2 DEF Loaded
  <2>4. Path'
    BY <1>1, <1>4, <2>2 DEF Path
  <2>5. Temporaries'
    BY <1>1, <1>4, <2>2 DEF Temporaries, Loaded
  <2>6. QED
    BY <2>3, <2>4, <2>5
<1>5. CASE pc = 21
  <2>1. Wrote(20, Rem(Add(regs[15], regs[5]), p))
    BY <1>1, <1>5, ChordEffects
  <2>2. /\ regs'[20] = Rem(Add(regs[15], regs[5]), p) /\ pc' = 22 /\ sram' = sram /\ p' = p
        /\ regs'[0] = regs[0] /\ regs'[1] = regs[1] /\ regs'[2] = regs[2] /\ regs'[3] = regs[3]
        /\ regs'[4] = regs[4]
        /\ regs'[5] = regs[5] /\ regs'[6] = regs[6] /\ regs'[8] = regs[8] /\ regs'[9] = regs[9]
        /\ regs'[10] = regs[10]
        /\ regs'[12] = regs[12] /\ regs'[13] = regs[13] /\ regs'[14] = regs[14]
        /\ regs'[21] = regs[21] /\ regs'[22] = regs[22]
        /\ regs'[23] = regs[23]
    BY RegistersExist, <1>5, <2>1, AfterWrite
  <2>3. Loaded'
    BY <1>1, <1>5, <2>2 DEF Loaded
  <2>4. Path'
    BY <1>1, <1>5, <2>2 DEF Path
  <2>5. Temporaries'
    BY <1>1, <1>5, <2>2 DEF Temporaries, Loaded
  <2>6. QED
    BY <2>3, <2>4, <2>5
<1>6. CASE pc = 22
  <2>1. Linked
    BY <1>1, <1>6, ChordEffects
  <2>2. /\ regs'[10] = pc /\ pc' = 25 /\ sram' = sram /\ p' = p
        /\ regs'[0] = regs[0] /\ regs'[1] = regs[1] /\ regs'[2] = regs[2] /\ regs'[3] = regs[3]
        /\ regs'[4] = regs[4]
        /\ regs'[5] = regs[5] /\ regs'[6] = regs[6] /\ regs'[8] = regs[8] /\ regs'[9] = regs[9]
        /\ regs'[12] = regs[12]
        /\ regs'[13] = regs[13] /\ regs'[14] = regs[14] /\ regs'[21] = regs[21]
        /\ regs'[22] = regs[22] /\ regs'[23] = regs[23]
    BY RegistersExist, <2>1, AfterLink
  <2>3. Loaded'
    BY <1>1, <1>6, <2>2 DEF Loaded
  <2>4. Path'
    BY <1>1, <1>6, <2>2 DEF Path
  <2>5. Temporaries'
    BY <1>1, <1>6, <2>2 DEF Temporaries, Loaded
  <2>6. QED
    BY <2>3, <2>4, <2>5
<1>7. CASE pc = 23
  <2>1. Wrote(7, Rem(Mul(regs[14], regs[8]), p))
    BY <1>1, <1>7, ChordEffects
  <2>2. /\ regs'[7] = Rem(Mul(regs[14], regs[8]), p) /\ pc' = 24 /\ sram' = sram /\ p' = p
        /\ regs'[0] = regs[0] /\ regs'[1] = regs[1] /\ regs'[2] = regs[2] /\ regs'[3] = regs[3]
        /\ regs'[4] = regs[4]
        /\ regs'[5] = regs[5] /\ regs'[6] = regs[6] /\ regs'[8] = regs[8] /\ regs'[9] = regs[9]
        /\ regs'[10] = regs[10]
        /\ regs'[12] = regs[12] /\ regs'[13] = regs[13] /\ regs'[14] = regs[14]
        /\ regs'[21] = regs[21] /\ regs'[22] = regs[22]
        /\ regs'[23] = regs[23]
    BY RegistersExist, <1>7, <2>1, AfterWrite
  <2>3. Loaded'
    BY <1>1, <1>7, <2>2 DEF Loaded
  <2>4. Path'
    BY <1>1, <1>7, <2>2 DEF Path
  <2>5. Temporaries'
    BY <1>1, <1>7, <2>2 DEF Temporaries, Loaded
  <2>6. QED
    BY <2>3, <2>4, <2>5
<1>8. CASE pc = 24
  <2>1. BranchTo(0, 0, 51)
    BY <1>1, <1>8, ChordEffects
  <2>3. Loaded'
    BY <1>1, <1>8, <2>1 DEF Loaded, LoadedPrime, BranchTo
  <2>4. Path'
    BY <1>1, <1>8, <2>1 DEF Path, Loaded, Temporaries, LoadedPrime, BranchTo
  <2>5. Temporaries'
    BY <1>1, <1>8, <2>1 DEF Temporaries, Loaded, LoadedPrime, BranchTo
  <2>6. QED
    BY <2>3, <2>4, <2>5
<1>9. pc = 18 \/ pc = 19 \/ pc = 20 \/ pc = 21 \/ pc = 22 \/ pc = 23 \/ pc = 24
  OBVIOUS
<1>10. QED
  BY <1>2, <1>3, <1>4, <1>5, <1>6, <1>7, <1>8, <1>9

\* ... the beginning of the subroutine, ...
LEMMA CallKept ==
  ASSUME ProcessorTypeOK, Registers, Mapped, Step(PAddProg), pc \in 25 .. 30
  PROVE  Registers'
<1>1. /\ status = "running" /\ status' = "running" /\ InCall /\ InCall'
      /\ pc \in Nat /\ Loaded /\ Path /\ Temporaries
      /\ P' = P /\ Param' = Param /\ Zero' = Zero
      /\ X1' = X1 /\ Y1' = Y1 /\ X2' = X2 /\ Y2' = Y2
  BY StepInside, ArgumentsKept DEF Registers
<1> SUFFICES Loaded' /\ Path' /\ Temporaries'
  BY DEF Registers
<1>2. CASE pc = 25
  <2>1. Wrote(8, 1)
    BY <1>1, <1>2, CallEffects
  <2>2. /\ regs'[8] = 1 /\ pc' = 26 /\ sram' = sram /\ p' = p
        /\ regs'[0] = regs[0] /\ regs'[1] = regs[1] /\ regs'[2] = regs[2] /\ regs'[3] = regs[3]
        /\ regs'[4] = regs[4]
        /\ regs'[5] = regs[5] /\ regs'[6] = regs[6] /\ regs'[9] = regs[9] /\ regs'[10] = regs[10]
        /\ regs'[12] = regs[12]
        /\ regs'[13] = regs[13] /\ regs'[14] = regs[14] /\ regs'[21] = regs[21]
        /\ regs'[22] = regs[22] /\ regs'[23] = regs[23]
    BY RegistersExist, <1>2, <2>1, AfterWrite
  <2>3. Loaded'
    BY <1>1, <1>2, <2>2 DEF Loaded
  <2>4. Path'
    BY <1>1, <1>2, <2>2 DEF Path
  <2>5. Temporaries'
    BY <1>1, <1>2, <2>2 DEF Temporaries, Loaded
  <2>6. QED
    BY <2>3, <2>4, <2>5
<1>3. CASE pc = 26
  <2>1. Wrote(22, 1)
    BY <1>1, <1>3, CallEffects
  <2>2. /\ regs'[22] = 1 /\ pc' = 27 /\ sram' = sram /\ p' = p
        /\ regs'[0] = regs[0] /\ regs'[1] = regs[1] /\ regs'[2] = regs[2] /\ regs'[3] = regs[3]
        /\ regs'[4] = regs[4]
        /\ regs'[5] = regs[5] /\ regs'[6] = regs[6] /\ regs'[8] = regs[8] /\ regs'[9] = regs[9]
        /\ regs'[10] = regs[10]
        /\ regs'[12] = regs[12] /\ regs'[13] = regs[13] /\ regs'[14] = regs[14]
        /\ regs'[21] = regs[21] /\ regs'[23] = regs[23]
    BY RegistersExist, <1>3, <2>1, AfterWrite
  <2>3. Loaded'
    BY <1>1, <1>3, <2>2 DEF Loaded
  <2>4. Path'
    BY <1>1, <1>3, <2>2 DEF Path
  <2>5. Temporaries'
    BY <1>1, <1>3, <2>2 DEF Temporaries, Loaded
  <2>6. QED
    BY <2>3, <2>4, <2>5
<1>4. CASE pc = 27
  <2>1. BranchTo(20, 22, 38)
    BY <1>1, <1>4, CallEffects
  <2>3. Loaded'
    BY <1>1, <1>4, <2>1 DEF Loaded, LoadedPrime, BranchTo
  <2>4. Path'
    BY <1>1, <1>4, <2>1 DEF Path, Loaded, Temporaries, LoadedPrime, BranchTo
  <2>5. Temporaries'
    BY <1>1, <1>4, <2>1 DEF Temporaries, Loaded, LoadedPrime, BranchTo
  <2>6. QED
    BY <2>3, <2>4, <2>5
<1>5. CASE pc = 28
  <2>1. Wrote(23, 2)
    BY <1>1, <1>5, CallEffects
  <2>2. /\ regs'[23] = 2 /\ pc' = 29 /\ sram' = sram /\ p' = p
        /\ regs'[0] = regs[0] /\ regs'[1] = regs[1] /\ regs'[2] = regs[2] /\ regs'[3] = regs[3]
        /\ regs'[4] = regs[4]
        /\ regs'[5] = regs[5] /\ regs'[6] = regs[6] /\ regs'[8] = regs[8] /\ regs'[9] = regs[9]
        /\ regs'[10] = regs[10]
        /\ regs'[12] = regs[12] /\ regs'[13] = regs[13] /\ regs'[14] = regs[14]
        /\ regs'[21] = regs[21] /\ regs'[22] = regs[22]
    BY RegistersExist, <1>5, <2>1, AfterWrite
  <2>3. Loaded'
    BY <1>1, <1>5, <2>2 DEF Loaded
  <2>4. Path'
    BY <1>1, <1>5, <2>2 DEF Path
  <2>5. Temporaries'
    BY <1>1, <1>5, <2>2 DEF Temporaries, Loaded
  <2>6. QED
    BY <2>3, <2>4, <2>5
<1>6. CASE pc = 29
  <2>1. Wrote(21, Sub(regs[5], regs[23]))
    BY <1>1, <1>6, CallEffects
  <2>2. /\ regs'[21] = Sub(regs[5], regs[23]) /\ pc' = 30 /\ sram' = sram /\ p' = p
        /\ regs'[0] = regs[0] /\ regs'[1] = regs[1] /\ regs'[2] = regs[2] /\ regs'[3] = regs[3]
        /\ regs'[4] = regs[4]
        /\ regs'[5] = regs[5] /\ regs'[6] = regs[6] /\ regs'[8] = regs[8] /\ regs'[9] = regs[9]
        /\ regs'[10] = regs[10]
        /\ regs'[12] = regs[12] /\ regs'[13] = regs[13] /\ regs'[14] = regs[14]
        /\ regs'[22] = regs[22] /\ regs'[23] = regs[23]
    BY RegistersExist, <1>6, <2>1, AfterWrite
  <2>3. Loaded'
    BY <1>1, <1>6, <2>2 DEF Loaded
  <2>4. Path'
    BY <1>1, <1>6, <2>2 DEF Path
  <2>5. Temporaries'
    BY <1>1, <1>6, <2>2 DEF Temporaries, Loaded
  <2>6. QED
    BY <2>3, <2>4, <2>5
<1>7. CASE pc = 30
  <2>1. BranchTo(21, 0, 38)
    BY <1>1, <1>7, CallEffects
  <2>3. Loaded'
    BY <1>1, <1>7, <2>1 DEF Loaded, LoadedPrime, BranchTo
  <2>4. Path'
    BY <1>1, <1>7, <2>1 DEF Path, Loaded, Temporaries, LoadedPrime, BranchTo
  <2>5. Temporaries'
    BY <1>1, <1>7, <2>1 DEF Temporaries, Loaded, LoadedPrime, BranchTo
  <2>6. QED
    BY <2>3, <2>4, <2>5
<1>8. pc = 25 \/ pc = 26 \/ pc = 27 \/ pc = 28 \/ pc = 29 \/ pc = 30
  OBVIOUS
<1>9. QED
  BY <1>2, <1>3, <1>4, <1>5, <1>6, <1>7, <1>8

\* ... its loop and its return, ...
LEMMA LoopKept ==
  ASSUME ProcessorTypeOK, Registers, Mapped, Step(PAddProg), pc \in 31 .. 38
  PROVE  Registers'
<1>1. /\ status = "running" /\ status' = "running" /\ InCall /\ InCall'
      /\ pc \in Nat /\ Loaded /\ Path /\ Temporaries
      /\ P' = P /\ Param' = Param /\ Zero' = Zero
      /\ X1' = X1 /\ Y1' = Y1 /\ X2' = X2 /\ Y2' = Y2
  BY StepInside, ArgumentsKept DEF Registers
<1> SUFFICES Loaded' /\ Path' /\ Temporaries'
  BY DEF Registers
<1>2. CASE pc = 31
  <2>1. Wrote(13, BitAnd(regs[21], regs[22]))
    BY <1>1, <1>2, LoopEffects
  <2>2. /\ regs'[13] = BitAnd(regs[21], regs[22]) /\ pc' = 32 /\ sram' = sram /\ p' = p
        /\ regs'[0] = regs[0] /\ regs'[1] = regs[1] /\ regs'[2] = regs[2] /\ regs'[3] = regs[3]
        /\ regs'[4] = regs[4]
        /\ regs'[5] = regs[5] /\ regs'[6] = regs[6] /\ regs'[8] = regs[8] /\ regs'[9] = regs[9]
        /\ regs'[10] = regs[10]
        /\ regs'[12] = regs[12] /\ regs'[14] = regs[14] /\ regs'[21] = regs[21]
        /\ regs'[22] = regs[22] /\ regs'[23] = regs[23]
    BY RegistersExist, <1>2, <2>1, AfterWrite
  <2>3. Loaded'
    BY <1>1, <1>2, <2>2 DEF Loaded
  <2>4. Path'
    BY <1>1, <1>2, <2>2 DEF Path
  <2>5. Temporaries'
    BY <1>1, <1>2, <2>2 DEF Temporaries, Loaded
  <2>6. QED
    BY <2>3, <2>4, <2>5
<1>3. CASE pc = 32
  <2>1. BranchTo(13, 0, 34)
    BY <1>1, <1>3, LoopEffects
  <2>2. regs[21] \in Word /\ regs[0] = 0 /\ regs[13] = BitAnd(regs[21], 1) /\ Half > 1
    BY <1>1, <1>3, NamesFit, RegistersExist DEF Loaded, Temporaries, ProcessorTypeOK
  <2>3. regs[13] # regs[0] => regs[21] % 2 = 1
    BY <2>2, LastBit
  <2>4. Loaded' /\ Path'
    BY <1>1, <1>3, <2>1 DEF Loaded, Path, BranchTo
  <2>5. Temporaries'
    BY <1>1, <1>3, <2>1, <2>3 DEF Temporaries, BranchTo
  <2>6. QED
    BY <2>4, <2>5
<1>4. CASE pc = 33
  <2>1. Wrote(8, Rem(Mul(regs[8], regs[20]), p))
    BY <1>1, <1>4, LoopEffects
  <2>2. /\ regs'[8] = Rem(Mul(regs[8], regs[20]), p) /\ pc' = 34 /\ sram' = sram /\ p' = p
        /\ regs'[0] = regs[0] /\ regs'[1] = regs[1] /\ regs'[2] = regs[2] /\ regs'[3] = regs[3]
        /\ regs'[4] = regs[4]
        /\ regs'[5] = regs[5] /\ regs'[6] = regs[6] /\ regs'[9] = regs[9] /\ regs'[10] = regs[10]
        /\ regs'[12] = regs[12]
        /\ regs'[13] = regs[13] /\ regs'[14] = regs[14] /\ regs'[21] = regs[21]
        /\ regs'[22] = regs[22] /\ regs'[23] = regs[23]
    BY RegistersExist, <1>4, <2>1, AfterWrite
  <2>3. Loaded'
    BY <1>1, <1>4, <2>2 DEF Loaded
  <2>4. Path'
    BY <1>1, <1>4, <2>2 DEF Path
  <2>5. Temporaries'
    BY <1>1, <1>4, <2>2 DEF Temporaries, Loaded
  <2>6. QED
    BY <2>3, <2>4, <2>5
<1>5. CASE pc = 34
  <2>1. Wrote(21, Quot(regs[21], regs[23]))
    BY <1>1, <1>5, LoopEffects
  <2>2. /\ regs'[21] = Quot(regs[21], regs[23]) /\ pc' = 35 /\ sram' = sram /\ p' = p
        /\ regs'[0] = regs[0] /\ regs'[1] = regs[1] /\ regs'[2] = regs[2] /\ regs'[3] = regs[3]
        /\ regs'[4] = regs[4]
        /\ regs'[5] = regs[5] /\ regs'[6] = regs[6] /\ regs'[8] = regs[8] /\ regs'[9] = regs[9]
        /\ regs'[10] = regs[10]
        /\ regs'[12] = regs[12] /\ regs'[13] = regs[13] /\ regs'[14] = regs[14]
        /\ regs'[22] = regs[22] /\ regs'[23] = regs[23]
    BY RegistersExist, <1>5, <2>1, AfterWrite
  <2>3. Loaded'
    BY <1>1, <1>5, <2>2 DEF Loaded
  <2>4. Path'
    BY <1>1, <1>5, <2>2 DEF Path
  <2>5. Temporaries'
    BY <1>1, <1>5, <2>2 DEF Temporaries, Loaded
  <2>6. QED
    BY <2>3, <2>4, <2>5
<1>6. CASE pc = 35
  <2>1. Wrote(20, Rem(Mul(regs[20], regs[20]), p))
    BY <1>1, <1>6, LoopEffects
  <2>2. /\ regs'[20] = Rem(Mul(regs[20], regs[20]), p) /\ pc' = 36 /\ sram' = sram /\ p' = p
        /\ regs'[0] = regs[0] /\ regs'[1] = regs[1] /\ regs'[2] = regs[2] /\ regs'[3] = regs[3]
        /\ regs'[4] = regs[4]
        /\ regs'[5] = regs[5] /\ regs'[6] = regs[6] /\ regs'[8] = regs[8] /\ regs'[9] = regs[9]
        /\ regs'[10] = regs[10]
        /\ regs'[12] = regs[12] /\ regs'[13] = regs[13] /\ regs'[14] = regs[14]
        /\ regs'[21] = regs[21] /\ regs'[22] = regs[22]
        /\ regs'[23] = regs[23]
    BY RegistersExist, <1>6, <2>1, AfterWrite
  <2>3. Loaded'
    BY <1>1, <1>6, <2>2 DEF Loaded
  <2>4. Path'
    BY <1>1, <1>6, <2>2 DEF Path
  <2>5. Temporaries'
    BY <1>1, <1>6, <2>2 DEF Temporaries, Loaded
  <2>6. QED
    BY <2>3, <2>4, <2>5
<1>7. CASE pc = 36
  <2>1. BranchTo(21, 0, 38)
    BY <1>1, <1>7, LoopEffects
  <2>3. Loaded'
    BY <1>1, <1>7, <2>1 DEF Loaded, LoadedPrime, BranchTo
  <2>4. Path'
    BY <1>1, <1>7, <2>1 DEF Path, Loaded, Temporaries, LoadedPrime, BranchTo
  <2>5. Temporaries'
    BY <1>1, <1>7, <2>1 DEF Temporaries, Loaded, LoadedPrime, BranchTo
  <2>6. QED
    BY <2>3, <2>4, <2>5
<1>8. CASE pc = 37
  <2>1. BranchTo(0, 0, 31)
    BY <1>1, <1>8, LoopEffects
  <2>3. Loaded'
    BY <1>1, <1>8, <2>1 DEF Loaded, LoadedPrime, BranchTo
  <2>4. Path'
    BY <1>1, <1>8, <2>1 DEF Path, Loaded, Temporaries, LoadedPrime, BranchTo
  <2>5. Temporaries'
    BY <1>1, <1>8, <2>1 DEF Temporaries, Loaded, LoadedPrime, BranchTo
  <2>6. QED
    BY <2>3, <2>4, <2>5
<1>9. CASE pc = 38
  <2>1. Returned /\ regs[10] = IF X1 # X2 THEN 22 ELSE 49
    BY <1>1, <1>9, LoopEffects DEF Path
  <2>2. pc' = (IF X1 # X2 THEN 23 ELSE 50) /\ UNCHANGED <<sram, regs, p>>
    BY <2>1, AfterReturn
  <2>3. Loaded'
    BY <1>1, <1>9, <2>2 DEF Loaded
  <2>4. Path'
    BY <1>1, <1>9, <2>2 DEF Path
  <2>5. Temporaries'
    BY <1>1, <1>9, <2>2 DEF Temporaries, Loaded
  <2>6. QED
    BY <2>3, <2>4, <2>5
<1>10. pc = 31 \/ pc = 32 \/ pc = 33 \/ pc = 34 \/ pc = 35 \/ pc = 36 \/ pc = 37 \/ pc = 38
  OBVIOUS
<1>11. QED
  BY <1>2, <1>3, <1>4, <1>5, <1>6, <1>7, <1>8, <1>9, <1>10

\* ... two points with the same x, ...
LEMMA SameXKept ==
  ASSUME ProcessorTypeOK, Registers, Mapped, Step(PAddProg), pc \in 39 .. 42
  PROVE  Registers'
<1>1. /\ status = "running" /\ status' = "running" /\ InCall /\ InCall'
      /\ pc \in Nat /\ Loaded /\ Path /\ Temporaries
      /\ P' = P /\ Param' = Param /\ Zero' = Zero
      /\ X1' = X1 /\ Y1' = Y1 /\ X2' = X2 /\ Y2' = Y2
  BY StepInside, ArgumentsKept DEF Registers
<1> SUFFICES Loaded' /\ Path' /\ Temporaries'
  BY DEF Registers
<1>2. CASE pc = 39
  <2>1. BranchTo(2, 4, 43)
    BY <1>1, <1>2, SameXEffects
  <2>3. Loaded'
    BY <1>1, <1>2, <2>1 DEF Loaded, LoadedPrime, BranchTo
  <2>4. Path'
    BY <1>1, <1>2, <2>1 DEF Path, Loaded, Temporaries, LoadedPrime, BranchTo
  <2>5. Temporaries'
    BY <1>1, <1>2, <2>1 DEF Temporaries, Loaded, LoadedPrime, BranchTo
  <2>6. QED
    BY <2>3, <2>4, <2>5
<1>3. CASE pc = 40
  <2>1. Wrote(8, BitOr(regs[5], regs[5]))
    BY <1>1, <1>3, SameXEffects
  <2>2. /\ regs'[8] = BitOr(regs[5], regs[5]) /\ pc' = 41 /\ sram' = sram /\ p' = p
        /\ regs'[0] = regs[0] /\ regs'[1] = regs[1] /\ regs'[2] = regs[2] /\ regs'[3] = regs[3]
        /\ regs'[4] = regs[4]
        /\ regs'[5] = regs[5] /\ regs'[6] = regs[6] /\ regs'[9] = regs[9] /\ regs'[10] = regs[10]
        /\ regs'[12] = regs[12]
        /\ regs'[13] = regs[13] /\ regs'[14] = regs[14] /\ regs'[21] = regs[21]
        /\ regs'[22] = regs[22] /\ regs'[23] = regs[23]
    BY RegistersExist, <1>3, <2>1, AfterWrite
  <2>3. Loaded'
    BY <1>1, <1>3, <2>2 DEF Loaded
  <2>4. Path'
    BY <1>1, <1>3, <2>2 DEF Path
  <2>5. Temporaries'
    BY <1>1, <1>3, <2>2 DEF Temporaries, Loaded
  <2>6. QED
    BY <2>3, <2>4, <2>5
<1>4. CASE pc = 41
  <2>1. Wrote(9, BitOr(regs[12], regs[12]))
    BY <1>1, <1>4, SameXEffects
  <2>2. /\ regs'[9] = BitOr(regs[12], regs[12]) /\ pc' = 42 /\ sram' = sram /\ p' = p
        /\ regs'[0] = regs[0] /\ regs'[1] = regs[1] /\ regs'[2] = regs[2] /\ regs'[3] = regs[3]
        /\ regs'[4] = regs[4]
        /\ regs'[5] = regs[5] /\ regs'[6] = regs[6] /\ regs'[8] = regs[8] /\ regs'[10] = regs[10]
        /\ regs'[12] = regs[12]
        /\ regs'[13] = regs[13] /\ regs'[14] = regs[14] /\ regs'[21] = regs[21]
        /\ regs'[22] = regs[22] /\ regs'[23] = regs[23]
    BY RegistersExist, <1>4, <2>1, AfterWrite
  <2>3. regs'[9] = Zero
    <3>1. Zero \in Word /\ regs[12] = Zero
      BY <1>1, <1>4, AddressesExist DEF ProcessorTypeOK, Zero, Loaded
    <3>2. QED
      BY <2>2, <3>1, OrOfAllOnes
  <2>4. Loaded' /\ Path'
    BY <1>1, <1>4, <2>2 DEF Loaded, Path
  <2>5. Temporaries'
    BY <1>1, <1>4, <2>2, <2>3 DEF Temporaries
  <2>6. QED
    BY <2>4, <2>5
<1>5. CASE pc = 42
  <2>1. BranchTo(0, 0, 63)
    BY <1>1, <1>5, SameXEffects
  <2>3. Loaded'
    BY <1>1, <1>5, <2>1 DEF Loaded, LoadedPrime, BranchTo
  <2>4. Path'
    BY <1>1, <1>5, <2>1 DEF Path, Loaded, Temporaries, LoadedPrime, BranchTo
  <2>5. Temporaries'
    BY <1>1, <1>5, <2>1 DEF Temporaries, Loaded, LoadedPrime, BranchTo
  <2>6. QED
    BY <2>3, <2>4, <2>5
<1>6. pc = 39 \/ pc = 40 \/ pc = 41 \/ pc = 42
  OBVIOUS
<1>7. QED
  BY <1>2, <1>3, <1>4, <1>5, <1>6

\* ... the tangent, ...
LEMMA TangentKept ==
  ASSUME ProcessorTypeOK, Registers, Mapped, Step(PAddProg), pc \in 43 .. 50
  PROVE  Registers'
<1>1. /\ status = "running" /\ status' = "running" /\ InCall /\ InCall'
      /\ pc \in Nat /\ Loaded /\ Path /\ Temporaries
      /\ P' = P /\ Param' = Param /\ Zero' = Zero
      /\ X1' = X1 /\ Y1' = Y1 /\ X2' = X2 /\ Y2' = Y2
  BY StepInside, ArgumentsKept DEF Registers
<1> SUFFICES Loaded' /\ Path' /\ Temporaries'
  BY DEF Registers
<1>2. CASE pc = 43
  <2>1. Wrote(13, Rem(Mul(regs[1], regs[1]), p))
    BY <1>1, <1>2, TangentEffects
  <2>2. /\ regs'[13] = Rem(Mul(regs[1], regs[1]), p) /\ pc' = 44 /\ sram' = sram /\ p' = p
        /\ regs'[0] = regs[0] /\ regs'[1] = regs[1] /\ regs'[2] = regs[2] /\ regs'[3] = regs[3]
        /\ regs'[4] = regs[4]
        /\ regs'[5] = regs[5] /\ regs'[6] = regs[6] /\ regs'[8] = regs[8] /\ regs'[9] = regs[9]
        /\ regs'[10] = regs[10]
        /\ regs'[12] = regs[12] /\ regs'[14] = regs[14] /\ regs'[21] = regs[21]
        /\ regs'[22] = regs[22] /\ regs'[23] = regs[23]
    BY RegistersExist, <1>2, <2>1, AfterWrite
  <2>3. Loaded'
    BY <1>1, <1>2, <2>2 DEF Loaded
  <2>4. Path'
    BY <1>1, <1>2, <2>2 DEF Path
  <2>5. Temporaries'
    BY <1>1, <1>2, <2>2 DEF Temporaries, Loaded
  <2>6. QED
    BY <2>3, <2>4, <2>5
<1>3. CASE pc = 44
  <2>1. Wrote(14, 3)
    BY <1>1, <1>3, TangentEffects
  <2>2. /\ regs'[14] = 3 /\ pc' = 45 /\ sram' = sram /\ p' = p
        /\ regs'[0] = regs[0] /\ regs'[1] = regs[1] /\ regs'[2] = regs[2] /\ regs'[3] = regs[3]
        /\ regs'[4] = regs[4]
        /\ regs'[5] = regs[5] /\ regs'[6] = regs[6] /\ regs'[8] = regs[8] /\ regs'[9] = regs[9]
        /\ regs'[10] = regs[10]
        /\ regs'[12] = regs[12] /\ regs'[13] = regs[13] /\ regs'[21] = regs[21]
        /\ regs'[22] = regs[22] /\ regs'[23] = regs[23]
    BY RegistersExist, <1>3, <2>1, AfterWrite
  <2>3. Loaded'
    BY <1>1, <1>3, <2>2 DEF Loaded
  <2>4. Path'
    BY <1>1, <1>3, <2>2 DEF Path
  <2>5. Temporaries'
    BY <1>1, <1>3, <2>2 DEF Temporaries, Loaded
  <2>6. QED
    BY <2>3, <2>4, <2>5
<1>4. CASE pc = 45
  <2>1. Wrote(15, Rem(Mul(regs[13], regs[14]), p))
    BY <1>1, <1>4, TangentEffects
  <2>2. /\ regs'[15] = Rem(Mul(regs[13], regs[14]), p) /\ pc' = 46 /\ sram' = sram /\ p' = p
        /\ regs'[0] = regs[0] /\ regs'[1] = regs[1] /\ regs'[2] = regs[2] /\ regs'[3] = regs[3]
        /\ regs'[4] = regs[4]
        /\ regs'[5] = regs[5] /\ regs'[6] = regs[6] /\ regs'[8] = regs[8] /\ regs'[9] = regs[9]
        /\ regs'[10] = regs[10]
        /\ regs'[12] = regs[12] /\ regs'[13] = regs[13] /\ regs'[14] = regs[14]
        /\ regs'[21] = regs[21] /\ regs'[22] = regs[22]
        /\ regs'[23] = regs[23]
    BY RegistersExist, <1>4, <2>1, AfterWrite
  <2>3. Loaded'
    BY <1>1, <1>4, <2>2 DEF Loaded
  <2>4. Path'
    BY <1>1, <1>4, <2>2 DEF Path
  <2>5. Temporaries'
    BY <1>1, <1>4, <2>2 DEF Temporaries, Loaded
  <2>6. QED
    BY <2>3, <2>4, <2>5
<1>5. CASE pc = 46
  <2>1. Wrote(16, Rem(Add(regs[15], regs[6]), p))
    BY <1>1, <1>5, TangentEffects
  <2>2. /\ regs'[16] = Rem(Add(regs[15], regs[6]), p) /\ pc' = 47 /\ sram' = sram /\ p' = p
        /\ regs'[0] = regs[0] /\ regs'[1] = regs[1] /\ regs'[2] = regs[2] /\ regs'[3] = regs[3]
        /\ regs'[4] = regs[4]
        /\ regs'[5] = regs[5] /\ regs'[6] = regs[6] /\ regs'[8] = regs[8] /\ regs'[9] = regs[9]
        /\ regs'[10] = regs[10]
        /\ regs'[12] = regs[12] /\ regs'[13] = regs[13] /\ regs'[14] = regs[14]
        /\ regs'[21] = regs[21] /\ regs'[22] = regs[22]
        /\ regs'[23] = regs[23]
    BY RegistersExist, <1>5, <2>1, AfterWrite
  <2>3. Loaded'
    BY <1>1, <1>5, <2>2 DEF Loaded
  <2>4. Path'
    BY <1>1, <1>5, <2>2 DEF Path
  <2>5. Temporaries'
    BY <1>1, <1>5, <2>2 DEF Temporaries, Loaded
  <2>6. QED
    BY <2>3, <2>4, <2>5
<1>6. CASE pc = 47
  <2>1. Wrote(14, 2)
    BY <1>1, <1>6, TangentEffects
  <2>2. /\ regs'[14] = 2 /\ pc' = 48 /\ sram' = sram /\ p' = p
        /\ regs'[0] = regs[0] /\ regs'[1] = regs[1] /\ regs'[2] = regs[2] /\ regs'[3] = regs[3]
        /\ regs'[4] = regs[4]
        /\ regs'[5] = regs[5] /\ regs'[6] = regs[6] /\ regs'[8] = regs[8] /\ regs'[9] = regs[9]
        /\ regs'[10] = regs[10]
        /\ regs'[12] = regs[12] /\ regs'[13] = regs[13] /\ regs'[21] = regs[21]
        /\ regs'[22] = regs[22] /\ regs'[23] = regs[23]
    BY RegistersExist, <1>6, <2>1, AfterWrite
  <2>3. Loaded'
    BY <1>1, <1>6, <2>2 DEF Loaded
  <2>4. Path'
    BY <1>1, <1>6, <2>2 DEF Path
  <2>5. Temporaries'
    BY <1>1, <1>6, <2>2 DEF Temporaries, Loaded
  <2>6. QED
    BY <2>3, <2>4, <2>5
<1>7. CASE pc = 48
  <2>1. Wrote(20, Rem(Mul(regs[2], regs[14]), p))
    BY <1>1, <1>7, TangentEffects
  <2>2. /\ regs'[20] = Rem(Mul(regs[2], regs[14]), p) /\ pc' = 49 /\ sram' = sram /\ p' = p
        /\ regs'[0] = regs[0] /\ regs'[1] = regs[1] /\ regs'[2] = regs[2] /\ regs'[3] = regs[3]
        /\ regs'[4] = regs[4]
        /\ regs'[5] = regs[5] /\ regs'[6] = regs[6] /\ regs'[8] = regs[8] /\ regs'[9] = regs[9]
        /\ regs'[10] = regs[10]
        /\ regs'[12] = regs[12] /\ regs'[13] = regs[13] /\ regs'[14] = regs[14]
        /\ regs'[21] = regs[21] /\ regs'[22] = regs[22]
        /\ regs'[23] = regs[23]
    BY RegistersExist, <1>7, <2>1, AfterWrite
  <2>3. Loaded'
    BY <1>1, <1>7, <2>2 DEF Loaded
  <2>4. Path'
    BY <1>1, <1>7, <2>2 DEF Path
  <2>5. Temporaries'
    BY <1>1, <1>7, <2>2 DEF Temporaries, Loaded
  <2>6. QED
    BY <2>3, <2>4, <2>5
<1>8. CASE pc = 49
  <2>1. Linked
    BY <1>1, <1>8, TangentEffects
  <2>2. /\ regs'[10] = pc /\ pc' = 25 /\ sram' = sram /\ p' = p
        /\ regs'[0] = regs[0] /\ regs'[1] = regs[1] /\ regs'[2] = regs[2] /\ regs'[3] = regs[3]
        /\ regs'[4] = regs[4]
        /\ regs'[5] = regs[5] /\ regs'[6] = regs[6] /\ regs'[8] = regs[8] /\ regs'[9] = regs[9]
        /\ regs'[12] = regs[12]
        /\ regs'[13] = regs[13] /\ regs'[14] = regs[14] /\ regs'[21] = regs[21]
        /\ regs'[22] = regs[22] /\ regs'[23] = regs[23]
    BY RegistersExist, <2>1, AfterLink
  <2>3. Loaded'
    BY <1>1, <1>8, <2>2 DEF Loaded
  <2>4. Path'
    BY <1>1, <1>8, <2>2 DEF Path
  <2>5. Temporaries'
    BY <1>1, <1>8, <2>2 DEF Temporaries, Loaded
  <2>6. QED
    BY <2>3, <2>4, <2>5
<1>9. CASE pc = 50
  <2>1. Wrote(7, Rem(Mul(regs[16], regs[8]), p))
    BY <1>1, <1>9, TangentEffects
  <2>2. /\ regs'[7] = Rem(Mul(regs[16], regs[8]), p) /\ pc' = 51 /\ sram' = sram /\ p' = p
        /\ regs'[0] = regs[0] /\ regs'[1] = regs[1] /\ regs'[2] = regs[2] /\ regs'[3] = regs[3]
        /\ regs'[4] = regs[4]
        /\ regs'[5] = regs[5] /\ regs'[6] = regs[6] /\ regs'[8] = regs[8] /\ regs'[9] = regs[9]
        /\ regs'[10] = regs[10]
        /\ regs'[12] = regs[12] /\ regs'[13] = regs[13] /\ regs'[14] = regs[14]
        /\ regs'[21] = regs[21] /\ regs'[22] = regs[22]
        /\ regs'[23] = regs[23]
    BY RegistersExist, <1>9, <2>1, AfterWrite
  <2>3. Loaded'
    BY <1>1, <1>9, <2>2 DEF Loaded
  <2>4. Path'
    BY <1>1, <1>9, <2>2 DEF Path
  <2>5. Temporaries'
    BY <1>1, <1>9, <2>2 DEF Temporaries, Loaded
  <2>6. QED
    BY <2>3, <2>4, <2>5
<1>10. pc = 43 \/ pc = 44 \/ pc = 45 \/ pc = 46 \/ pc = 47 \/ pc = 48 \/ pc = 49 \/ pc = 50
  OBVIOUS
<1>11. QED
  BY <1>2, <1>3, <1>4, <1>5, <1>6, <1>7, <1>8, <1>9, <1>10

\* ... the line, ...
LEMMA LineKept ==
  ASSUME ProcessorTypeOK, Registers, Mapped, Step(PAddProg), pc \in 51 .. 56
  PROVE  Registers'
<1>1. /\ status = "running" /\ status' = "running" /\ InCall /\ InCall'
      /\ pc \in Nat /\ Loaded /\ Path /\ Temporaries
      /\ P' = P /\ Param' = Param /\ Zero' = Zero
      /\ X1' = X1 /\ Y1' = Y1 /\ X2' = X2 /\ Y2' = Y2
  BY StepInside, ArgumentsKept DEF Registers
<1> SUFFICES Loaded' /\ Path' /\ Temporaries'
  BY DEF Registers
<1>2. CASE pc = 51
  <2>1. Wrote(13, Rem(Mul(regs[7], regs[1]), p))
    BY <1>1, <1>2, LineEffects
  <2>2. /\ regs'[13] = Rem(Mul(regs[7], regs[1]), p) /\ pc' = 52 /\ sram' = sram /\ p' = p
        /\ regs'[0] = regs[0] /\ regs'[1] = regs[1] /\ regs'[2] = regs[2] /\ regs'[3] = regs[3]
        /\ regs'[4] = regs[4]
        /\ regs'[5] = regs[5] /\ regs'[6] = regs[6] /\ regs'[8] = regs[8] /\ regs'[9] = regs[9]
        /\ regs'[10] = regs[10]
        /\ regs'[12] = regs[12] /\ regs'[14] = regs[14] /\ regs'[21] = regs[21]
        /\ regs'[22] = regs[22] /\ regs'[23] = regs[23]
    BY RegistersExist, <1>2, <2>1, AfterWrite
  <2>3. Loaded'
    BY <1>1, <1>2, <2>2 DEF Loaded
  <2>4. Path'
    BY <1>1, <1>2, <2>2 DEF Path
  <2>5. Temporaries'
    BY <1>1, <1>2, <2>2 DEF Temporaries, Loaded
  <2>6. QED
    BY <2>3, <2>4, <2>5
<1>3. CASE pc = 52
  <2>1. Wrote(17, Rem(Add(regs[2], regs[5]), p))
    BY <1>1, <1>3, LineEffects
  <2>2. /\ regs'[17] = Rem(Add(regs[2], regs[5]), p) /\ pc' = 53 /\ sram' = sram /\ p' = p
        /\ regs'[0] = regs[0] /\ regs'[1] = regs[1] /\ regs'[2] = regs[2] /\ regs'[3] = regs[3]
        /\ regs'[4] = regs[4]
        /\ regs'[5] = regs[5] /\ regs'[6] = regs[6] /\ regs'[8] = regs[8] /\ regs'[9] = regs[9]
        /\ regs'[10] = regs[10]
        /\ regs'[12] = regs[12] /\ regs'[13] = regs[13] /\ regs'[14] = regs[14]
        /\ regs'[21] = regs[21] /\ regs'[22] = regs[22]
        /\ regs'[23] = regs[23]
    BY RegistersExist, <1>3, <2>1, AfterWrite
  <2>3. Loaded'
    BY <1>1, <1>3, <2>2 DEF Loaded
  <2>4. Path'
    BY <1>1, <1>3, <2>2 DEF Path
  <2>5. Temporaries'
    BY <1>1, <1>3, <2>2 DEF Temporaries, Loaded
  <2>6. QED
    BY <2>3, <2>4, <2>5
<1>4. CASE pc = 53
  <2>1. Wrote(14, Rem(Sub(regs[17], regs[13]), p))
    BY <1>1, <1>4, LineEffects
  <2>2. /\ regs'[14] = Rem(Sub(regs[17], regs[13]), p) /\ pc' = 54 /\ sram' = sram /\ p' = p
        /\ regs'[0] = regs[0] /\ regs'[1] = regs[1] /\ regs'[2] = regs[2] /\ regs'[3] = regs[3]
        /\ regs'[4] = regs[4]
        /\ regs'[5] = regs[5] /\ regs'[6] = regs[6] /\ regs'[8] = regs[8] /\ regs'[9] = regs[9]
        /\ regs'[10] = regs[10]
        /\ regs'[12] = regs[12] /\ regs'[13] = regs[13] /\ regs'[21] = regs[21]
        /\ regs'[22] = regs[22] /\ regs'[23] = regs[23]
    BY RegistersExist, <1>4, <2>1, AfterWrite
  <2>3. Loaded'
    BY <1>1, <1>4, <2>2 DEF Loaded
  <2>4. Path'
    BY <1>1, <1>4, <2>2 DEF Path
  <2>5. Temporaries'
    BY <1>1, <1>4, <2>2 DEF Temporaries, Loaded
  <2>6. QED
    BY <2>3, <2>4, <2>5
<1>5. CASE pc = 54
  <2>1. Wrote(15, Rem(Mul(regs[7], regs[7]), p))
    BY <1>1, <1>5, LineEffects
  <2>2. /\ regs'[15] = Rem(Mul(regs[7], regs[7]), p) /\ pc' = 55 /\ sram' = sram /\ p' = p
        /\ regs'[0] = regs[0] /\ regs'[1] = regs[1] /\ regs'[2] = regs[2] /\ regs'[3] = regs[3]
        /\ regs'[4] = regs[4]
        /\ regs'[5] = regs[5] /\ regs'[6] = regs[6] /\ regs'[8] = regs[8] /\ regs'[9] = regs[9]
        /\ regs'[10] = regs[10]
        /\ regs'[12] = regs[12] /\ regs'[13] = regs[13] /\ regs'[14] = regs[14]
        /\ regs'[21] = regs[21] /\ regs'[22] = regs[22]
        /\ regs'[23] = regs[23]
    BY RegistersExist, <1>5, <2>1, AfterWrite
  <2>3. Loaded'
    BY <1>1, <1>5, <2>2 DEF Loaded
  <2>4. Path'
    BY <1>1, <1>5, <2>2 DEF Path
  <2>5. Temporaries'
    BY <1>1, <1>5, <2>2 DEF Temporaries, Loaded
  <2>6. QED
    BY <2>3, <2>4, <2>5
<1>6. CASE pc = 55
  <2>1. Wrote(16, Rem(Sub(regs[5], regs[1]), p))
    BY <1>1, <1>6, LineEffects
  <2>2. /\ regs'[16] = Rem(Sub(regs[5], regs[1]), p) /\ pc' = 56 /\ sram' = sram /\ p' = p
        /\ regs'[0] = regs[0] /\ regs'[1] = regs[1] /\ regs'[2] = regs[2] /\ regs'[3] = regs[3]
        /\ regs'[4] = regs[4]
        /\ regs'[5] = regs[5] /\ regs'[6] = regs[6] /\ regs'[8] = regs[8] /\ regs'[9] = regs[9]
        /\ regs'[10] = regs[10]
        /\ regs'[12] = regs[12] /\ regs'[13] = regs[13] /\ regs'[14] = regs[14]
        /\ regs'[21] = regs[21] /\ regs'[22] = regs[22]
        /\ regs'[23] = regs[23]
    BY RegistersExist, <1>6, <2>1, AfterWrite
  <2>3. Loaded'
    BY <1>1, <1>6, <2>2 DEF Loaded
  <2>4. Path'
    BY <1>1, <1>6, <2>2 DEF Path
  <2>5. Temporaries'
    BY <1>1, <1>6, <2>2 DEF Temporaries, Loaded
  <2>6. QED
    BY <2>3, <2>4, <2>5
<1>7. CASE pc = 56
  <2>1. Wrote(17, Rem(Sub(regs[5], regs[3]), p))
    BY <1>1, <1>7, LineEffects
  <2>2. /\ regs'[17] = Rem(Sub(regs[5], regs[3]), p) /\ pc' = 57 /\ sram' = sram /\ p' = p
        /\ regs'[0] = regs[0] /\ regs'[1] = regs[1] /\ regs'[2] = regs[2] /\ regs'[3] = regs[3]
        /\ regs'[4] = regs[4]
        /\ regs'[5] = regs[5] /\ regs'[6] = regs[6] /\ regs'[8] = regs[8] /\ regs'[9] = regs[9]
        /\ regs'[10] = regs[10]
        /\ regs'[12] = regs[12] /\ regs'[13] = regs[13] /\ regs'[14] = regs[14]
        /\ regs'[21] = regs[21] /\ regs'[22] = regs[22]
        /\ regs'[23] = regs[23]
    BY RegistersExist, <1>7, <2>1, AfterWrite
  <2>3. Loaded'
    BY <1>1, <1>7, <2>2 DEF Loaded
  <2>4. Path'
    BY <1>1, <1>7, <2>2 DEF Path
  <2>5. Temporaries'
    BY <1>1, <1>7, <2>2 DEF Temporaries, Loaded
  <2>6. QED
    BY <2>3, <2>4, <2>5
<1>8. pc = 51 \/ pc = 52 \/ pc = 53 \/ pc = 54 \/ pc = 55 \/ pc = 56
  OBVIOUS
<1>9. QED
  BY <1>2, <1>3, <1>4, <1>5, <1>6, <1>7, <1>8

\* ... and the sum.
LEMMA SumKept ==
  ASSUME ProcessorTypeOK, Registers, Mapped, Step(PAddProg), pc \in 57 .. 64
  PROVE  Registers'
<1>1. /\ status = "running" /\ status' = "running" /\ InCall /\ InCall'
      /\ pc \in Nat /\ Loaded /\ Path /\ Temporaries
      /\ P' = P /\ Param' = Param /\ Zero' = Zero
      /\ X1' = X1 /\ Y1' = Y1 /\ X2' = X2 /\ Y2' = Y2
  BY StepInside, ArgumentsKept DEF Registers
<1> SUFFICES Loaded' /\ Path' /\ Temporaries'
  BY DEF Registers
<1>2. CASE pc = 57
  <2>1. Wrote(18, Rem(Add(regs[16], regs[17]), p))
    BY <1>1, <1>2, SumEffects
  <2>2. /\ regs'[18] = Rem(Add(regs[16], regs[17]), p) /\ pc' = 58 /\ sram' = sram /\ p' = p
        /\ regs'[0] = regs[0] /\ regs'[1] = regs[1] /\ regs'[2] = regs[2] /\ regs'[3] = regs[3]
        /\ regs'[4] = regs[4]
        /\ regs'[5] = regs[5] /\ regs'[6] = regs[6] /\ regs'[8] = regs[8] /\ regs'[9] = regs[9]
        /\ regs'[10] = regs[10]
        /\ regs'[12] = regs[12] /\ regs'[13] = regs[13] /\ regs'[14] = regs[14]
        /\ regs'[21] = regs[21] /\ regs'[22] = regs[22]
        /\ regs'[23] = regs[23]
    BY RegistersExist, <1>2, <2>1, AfterWrite
  <2>3. Loaded'
    BY <1>1, <1>2, <2>2 DEF Loaded
  <2>4. Path'
    BY <1>1, <1>2, <2>2 DEF Path
  <2>5. Temporaries'
    BY <1>1, <1>2, <2>2 DEF Temporaries, Loaded
  <2>6. QED
    BY <2>3, <2>4, <2>5
<1>3. CASE pc = 58
  <2>1. Wrote(8, Rem(Add(regs[15], regs[18]), p))
    BY <1>1, <1>3, SumEffects
  <2>2. /\ regs'[8] = Rem(Add(regs[15], regs[18]), p) /\ pc' = 59 /\ sram' = sram /\ p' = p
        /\ regs'[0] = regs[0] /\ regs'[1] = regs[1] /\ regs'[2] = regs[2] /\ regs'[3] = regs[3]
        /\ regs'[4] = regs[4]
        /\ regs'[5] = regs[5] /\ regs'[6] = regs[6] /\ regs'[9] = regs[9] /\ regs'[10] = regs[10]
        /\ regs'[12] = regs[12]
        /\ regs'[13] = regs[13] /\ regs'[14] = regs[14] /\ regs'[21] = regs[21]
        /\ regs'[22] = regs[22] /\ regs'[23] = regs[23]
    BY RegistersExist, <1>3, <2>1, AfterWrite
  <2>3. Loaded'
    BY <1>1, <1>3, <2>2 DEF Loaded
  <2>4. Path'
    BY <1>1, <1>3, <2>2 DEF Path
  <2>5. Temporaries'
    BY <1>1, <1>3, <2>2 DEF Temporaries, Loaded
  <2>6. QED
    BY <2>3, <2>4, <2>5
<1>4. CASE pc = 59
  <2>1. Wrote(13, Rem(Mul(regs[7], regs[8]), p))
    BY <1>1, <1>4, SumEffects
  <2>2. /\ regs'[13] = Rem(Mul(regs[7], regs[8]), p) /\ pc' = 60 /\ sram' = sram /\ p' = p
        /\ regs'[0] = regs[0] /\ regs'[1] = regs[1] /\ regs'[2] = regs[2] /\ regs'[3] = regs[3]
        /\ regs'[4] = regs[4]
        /\ regs'[5] = regs[5] /\ regs'[6] = regs[6] /\ regs'[8] = regs[8] /\ regs'[9] = regs[9]
        /\ regs'[10] = regs[10]
        /\ regs'[12] = regs[12] /\ regs'[14] = regs[14] /\ regs'[21] = regs[21]
        /\ regs'[22] = regs[22] /\ regs'[23] = regs[23]
    BY RegistersExist, <1>4, <2>1, AfterWrite
  <2>3. Loaded'
    BY <1>1, <1>4, <2>2 DEF Loaded
  <2>4. Path'
    BY <1>1, <1>4, <2>2 DEF Path
  <2>5. Temporaries'
    BY <1>1, <1>4, <2>2 DEF Temporaries, Loaded
  <2>6. QED
    BY <2>3, <2>4, <2>5
<1>5. CASE pc = 60
  <2>1. Wrote(15, Rem(Sub(regs[5], regs[13]), p))
    BY <1>1, <1>5, SumEffects
  <2>2. /\ regs'[15] = Rem(Sub(regs[5], regs[13]), p) /\ pc' = 61 /\ sram' = sram /\ p' = p
        /\ regs'[0] = regs[0] /\ regs'[1] = regs[1] /\ regs'[2] = regs[2] /\ regs'[3] = regs[3]
        /\ regs'[4] = regs[4]
        /\ regs'[5] = regs[5] /\ regs'[6] = regs[6] /\ regs'[8] = regs[8] /\ regs'[9] = regs[9]
        /\ regs'[10] = regs[10]
        /\ regs'[12] = regs[12] /\ regs'[13] = regs[13] /\ regs'[14] = regs[14]
        /\ regs'[21] = regs[21] /\ regs'[22] = regs[22]
        /\ regs'[23] = regs[23]
    BY RegistersExist, <1>5, <2>1, AfterWrite
  <2>3. Loaded'
    BY <1>1, <1>5, <2>2 DEF Loaded
  <2>4. Path'
    BY <1>1, <1>5, <2>2 DEF Path
  <2>5. Temporaries'
    BY <1>1, <1>5, <2>2 DEF Temporaries, Loaded
  <2>6. QED
    BY <2>3, <2>4, <2>5
<1>6. CASE pc = 61
  <2>1. Wrote(16, Rem(Sub(regs[5], regs[14]), p))
    BY <1>1, <1>6, SumEffects
  <2>2. /\ regs'[16] = Rem(Sub(regs[5], regs[14]), p) /\ pc' = 62 /\ sram' = sram /\ p' = p
        /\ regs'[0] = regs[0] /\ regs'[1] = regs[1] /\ regs'[2] = regs[2] /\ regs'[3] = regs[3]
        /\ regs'[4] = regs[4]
        /\ regs'[5] = regs[5] /\ regs'[6] = regs[6] /\ regs'[8] = regs[8] /\ regs'[9] = regs[9]
        /\ regs'[10] = regs[10]
        /\ regs'[12] = regs[12] /\ regs'[13] = regs[13] /\ regs'[14] = regs[14]
        /\ regs'[21] = regs[21] /\ regs'[22] = regs[22]
        /\ regs'[23] = regs[23]
    BY RegistersExist, <1>6, <2>1, AfterWrite
  <2>3. Loaded'
    BY <1>1, <1>6, <2>2 DEF Loaded
  <2>4. Path'
    BY <1>1, <1>6, <2>2 DEF Path
  <2>5. Temporaries'
    BY <1>1, <1>6, <2>2 DEF Temporaries, Loaded
  <2>6. QED
    BY <2>3, <2>4, <2>5
<1>7. CASE pc = 62
  <2>1. Wrote(9, Rem(Add(regs[15], regs[16]), p))
    BY <1>1, <1>7, SumEffects
  <2>2. /\ regs'[9] = Rem(Add(regs[15], regs[16]), p) /\ pc' = 63 /\ sram' = sram /\ p' = p
        /\ regs'[0] = regs[0] /\ regs'[1] = regs[1] /\ regs'[2] = regs[2] /\ regs'[3] = regs[3]
        /\ regs'[4] = regs[4]
        /\ regs'[5] = regs[5] /\ regs'[6] = regs[6] /\ regs'[8] = regs[8] /\ regs'[10] = regs[10]
        /\ regs'[12] = regs[12]
        /\ regs'[13] = regs[13] /\ regs'[14] = regs[14] /\ regs'[21] = regs[21]
        /\ regs'[22] = regs[22] /\ regs'[23] = regs[23]
    BY RegistersExist, <1>7, <2>1, AfterWrite
  <2>3. Loaded'
    BY <1>1, <1>7, <2>2 DEF Loaded
  <2>4. Path'
    BY <1>1, <1>7, <2>2 DEF Path
  <2>5. Temporaries'
    BY <1>1, <1>7, <2>2 DEF Temporaries, Loaded
  <2>6. QED
    BY <2>3, <2>4, <2>5
<1>8. CASE pc = 63
  <2>1. Stored(OUT_ADDR1, 8)
    BY <1>1, <1>8, SumEffects
  <2>2. sram'[OUT_ADDR1] = regs[8] /\ regs' = regs /\ pc' = pc + 1 /\ p' = p
    BY <2>1, NamesFit DEF ProcessorTypeOK, Stored
  <2>3. Loaded'
    BY <1>1, <1>8, <2>2 DEF Loaded
  <2>4. Path'
    BY <1>1, <1>8, <2>2 DEF Path
  <2>5. Temporaries'
    BY <1>1, <1>8, <2>2 DEF Temporaries, Loaded
  <2>6. QED
    BY <2>3, <2>4, <2>5
<1>9. CASE pc = 64
  <2>1. Stored(OUT_ADDR2, 9)
    BY <1>1, <1>9, SumEffects
  <2>2. sram'[OUT_ADDR2] = regs[9] /\ sram'[OUT_ADDR1] = sram[OUT_ADDR1] /\ regs' = regs /\ pc' = pc + 1 /\ p' = p
    BY <2>1, NamesFit DEF ProcessorTypeOK, Stored
  <2>3. Loaded'
    BY <1>1, <1>9, <2>2 DEF Loaded
  <2>4. Path'
    BY <1>1, <1>9, <2>2 DEF Path
  <2>5. Temporaries'
    BY <1>1, <1>9, <2>2 DEF Temporaries, Loaded
  <2>6. QED
    BY <2>3, <2>4, <2>5
<1>10. pc = 57 \/ pc = 58 \/ pc = 59 \/ pc = 60 \/ pc = 61 \/ pc = 62 \/ pc = 63 \/ pc = 64
  OBVIOUS
<1>11. QED
  BY <1>2, <1>3, <1>4, <1>5, <1>6, <1>7, <1>8, <1>9, <1>10

(***************************************************************************)
(* Arithmetic modulo the prime, as the ADDP, SUBP and MULP of the kernel do *)
(* it on words.                                                             *)
(***************************************************************************)
\* r stands for t: with the sign that the remainder of C++ has, or as the residue.
Near(n, r, t) == r \in Int /\ -n < r /\ r < n /\ Same(n, r, t)
Residue(n, r, t) == r \in Int /\ 0 <= r /\ r < n /\ Same(n, r, t)

\* A prime whose products fit a word.
FieldFits(n) == n \in Word /\ n > 3 /\ (n - 1) * (n - 1) < Half

\* Sums of two residues fit then, too.
LEMMA SumsFit ==
  \A n \in Int : FieldFits(n) => \A v \in Int : -(2 * n) < v /\ v < 2 * n => v \in Word
<1> SUFFICES ASSUME NEW n \in Int, FieldFits(n), NEW v \in Int, -(2 * n) < v, v < 2 * n
             PROVE  v \in Word
  OBVIOUS
<1> DEFINE k == n - 1
           q == k * k
<1>1. k \in Nat /\ k >= 3 /\ q < Half /\ Half \in Nat /\ k - 3 \in Nat
  BY NamesFit DEF FieldFits
<1>2. k * (k - 3) \in Nat
  BY <1>1, ProductIsNat
<1>3. k * (k - 3) = k * k - 3 * k
  BY <1>1
<1>4. v <= 2 * k + 1 /\ -v <= 2 * k + 1
  OBVIOUS
<1> HIDE DEF k
<1>5. q \in Int
  BY <1>1, ProductIsInt
<1>6. q - 3 * k \in Nat
  BY <1>2, <1>3
<1> HIDE DEF q
<1>7. v < Half /\ -v < Half
  BY <1>1, <1>4, <1>5, <1>6
<1>8. QED
  BY <1>1, <1>7 DEF Word

\* A remainder stands for what its dividend stands for.
LEMMA RemReduces ==
  \A n, v \in Word : \A t \in Int : n > 0 /\ Same(n, v, t) =>
    /\ Near(n, Rem(v, n), t)
    /\ v >= 0 => Residue(n, Rem(v, n), t)
<1> SUFFICES ASSUME NEW n \in Word, NEW v \in Word, NEW t \in Int, n > 0, Same(n, v, t)
             PROVE  Near(n, Rem(v, n), t) /\ (v >= 0 => Residue(n, Rem(v, n), t))
  OBVIOUS
<1> DEFINE r == Rem(v, n)
<1>1. n \in Int /\ v \in Int /\ n \in Nat \ {0}
  BY WordFacts
<1>2. r \in Int
  BY ArithmeticIsWord, WordFacts
<1>3. (v - r) % n = 0 /\ -n < r /\ r < n /\ (v >= 0 => r >= 0)
  BY RemLaw
<1> HIDE DEF r
<1>4. Same(n, v, r)
  BY <1>1, <1>2, <1>3, SameRemainder
<1>5. Same(n, r, t)
  BY <1>1, <1>2, <1>4, SameBack, SameChain
<1>6. QED
  BY <1>2, <1>3, <1>5 DEF Near, Residue, r

\* A residue stands for a number in the weaker sense, too.
LEMMA ResidueIsNear == \A n, r, t \in Int : Residue(n, r, t) => Near(n, r, t)
BY DEF Residue, Near

\* A residue is the remainder of what it stands for, ...
LEMMA ResidueIsRemainder ==
  \A n, r, t \in Int : n > 0 /\ Residue(n, r, t) => r = t % n
<1> SUFFICES ASSUME NEW n \in Int, NEW r \in Int, NEW t \in Int, n > 0, Residue(n, r, t)
             PROVE  r = t % n
  OBVIOUS
<1>1. n \in Nat \ {0} /\ r \in 0 .. n - 1 /\ Same(n, r, t)
  BY DEF Residue
<1>2. r % n = t % n /\ r % n = r
  BY <1>1, SameIff, ResidueIsItself
<1>3. QED
  BY <1>2

\* ... and stands for itself.
LEMMA OwnResidue == \A n \in Int : \A r \in 0 .. n - 1 : Residue(n, r, r)
<1> SUFFICES ASSUME NEW n \in Int, NEW r \in 0 .. n - 1 PROVE Residue(n, r, r)
  OBVIOUS
<1>1. r \in Int /\ Same(n, r, r)
  BY SameIsEquivalence
<1>2. QED
  BY <1>1 DEF Residue

\* ADDP, SUBP and MULP of what stands for two numbers stand for the sum, ...
LEMMA SumHolds ==
  \A n, a, b, s, t \in Int : FieldFits(n) /\ Near(n, a, s) /\ Near(n, b, t) =>
    /\ Near(n, Rem(Add(a, b), n), s + t)
    /\ a + b >= 0 => Residue(n, Rem(Add(a, b), n), s + t)
<1> SUFFICES ASSUME NEW n \in Int, NEW a \in Int, NEW b \in Int, NEW s \in Int, NEW t \in Int,
                    FieldFits(n), Near(n, a, s), Near(n, b, t)
             PROVE  /\ Near(n, Rem(Add(a, b), n), s + t)
                    /\ a + b >= 0 => Residue(n, Rem(Add(a, b), n), s + t)
  OBVIOUS
<1>1. n \in Word /\ n > 0
  BY DEF FieldFits
<1>2. a + b \in Word
  <2>1. a + b \in Int /\ -(2 * n) < a + b /\ a + b < 2 * n
    BY DEF Near
  <2>2. QED
    BY <2>1, SumsFit
<1>3. Same(n, a + b, s + t)
  BY SameOfResults DEF Near
<1>4. Add(a, b) = a + b
  BY <1>2, WrapOfWord DEF Add
<1> DEFINE v == a + b
<1>5. v \in Word /\ s + t \in Int /\ Same(n, v, s + t)
  BY <1>2, <1>3
<1> HIDE DEF v
<1>6. Near(n, Rem(v, n), s + t) /\ (v >= 0 => Residue(n, Rem(v, n), s + t))
  BY <1>1, <1>5, RemReduces
<1>7. QED
  BY <1>4, <1>6 DEF v

\* ... the difference ...
LEMMA DifferenceHolds ==
  \A n, a, b, s, t \in Int : FieldFits(n) /\ Near(n, a, s) /\ Near(n, b, t) =>
    Near(n, Rem(Sub(a, b), n), s - t)
<1> SUFFICES ASSUME NEW n \in Int, NEW a \in Int, NEW b \in Int, NEW s \in Int, NEW t \in Int,
                    FieldFits(n), Near(n, a, s), Near(n, b, t)
             PROVE  Near(n, Rem(Sub(a, b), n), s - t)
  OBVIOUS
<1>1. n \in Word /\ n > 0
  BY DEF FieldFits
<1>2. a - b \in Word
  <2>1. a - b \in Int /\ -(2 * n) < a - b /\ a - b < 2 * n
    BY DEF Near
  <2>2. QED
    BY <2>1, SumsFit
<1>3. Same(n, a - b, s - t)
  BY SameOfResults DEF Near
<1>4. Sub(a, b) = a - b
  BY <1>2, WrapOfWord DEF Sub
<1> DEFINE v == a - b
<1>5. v \in Word /\ s - t \in Int /\ Same(n, v, s - t)
  BY <1>2, <1>3
<1> HIDE DEF v
<1>6. Near(n, Rem(v, n), s - t)
  BY <1>1, <1>5, RemReduces
<1>7. QED
  BY <1>4, <1>6 DEF v

\* ... and the product of the two.
LEMMA ProductHolds ==
  \A n, a, b, s, t \in Int : FieldFits(n) /\ Near(n, a, s) /\ Near(n, b, t) =>
    /\ Near(n, Rem(Mul(a, b), n), s * t)
    /\ a * b >= 0 => Residue(n, Rem(Mul(a, b), n), s * t)
<1> SUFFICES ASSUME NEW n \in Int, NEW a \in Int, NEW b \in Int, NEW s \in Int, NEW t \in Int,
                    FieldFits(n), Near(n, a, s), Near(n, b, t)
             PROVE  /\ Near(n, Rem(Mul(a, b), n), s * t)
                    /\ a * b >= 0 => Residue(n, Rem(Mul(a, b), n), s * t)
  OBVIOUS
<1>1. n \in Word /\ n > 0 /\ n \in Nat \ {0}
  BY DEF FieldFits
<1>2. a * b \in Word
  BY <1>1, ProductFits DEF Near, FieldFits
<1>3. Same(n, a * b, s * t)
  BY SameOfResults DEF Near
<1>4. Mul(a, b) = a * b
  BY <1>2, WrapOfWord DEF Mul
<1> DEFINE v == a * b
           u == s * t
<1>5. v \in Word /\ u \in Int /\ Same(n, v, u)
  BY <1>2, <1>3, ProductIsInt
<1> HIDE DEF v, u
<1>6. Near(n, Rem(v, n), u) /\ (v >= 0 => Residue(n, Rem(v, n), u))
  BY <1>1, <1>5, RemReduces
<1>7. QED
  BY <1>4, <1>6 DEF v, u

\* Nonnegative numbers give residues, and so does a square.
LEMMA ResiduesHold ==
  \A n, a, b, s, t \in Int : FieldFits(n) /\ Residue(n, a, s) /\ Residue(n, b, t) =>
    /\ Residue(n, Rem(Add(a, b), n), s + t)
    /\ Residue(n, Rem(Mul(a, b), n), s * t)
<1> SUFFICES ASSUME NEW n \in Int, NEW a \in Int, NEW b \in Int, NEW s \in Int, NEW t \in Int,
                    FieldFits(n), Residue(n, a, s), Residue(n, b, t)
             PROVE  /\ Residue(n, Rem(Add(a, b), n), s + t)
                    /\ Residue(n, Rem(Mul(a, b), n), s * t)
  OBVIOUS
<1>1. a \in Nat /\ b \in Nat /\ Near(n, a, s) /\ Near(n, b, t)
  BY ResidueIsNear DEF Residue
<1>2. a + b >= 0 /\ a * b >= 0
  <2>1. a * b \in Nat /\ a + b \in Nat
    BY <1>1, ProductIsNat
  <2>2. QED
    BY <2>1
<1>3. QED
  BY <1>1, <1>2, SumHolds, ProductHolds

\* MULP of one register with itself gives a residue, whatever its sign.
LEMMA SquareHolds ==
  \A n, a, s \in Int : FieldFits(n) /\ Near(n, a, s) => Residue(n, Rem(Mul(a, a), n), s * s)
<1> SUFFICES ASSUME NEW n \in Int, NEW a \in Int, NEW s \in Int, FieldFits(n), Near(n, a, s)
             PROVE  Residue(n, Rem(Mul(a, a), n), s * s)
  OBVIOUS
<1>1. a * a >= 0
  <2>1. CASE a >= 0
    <3>1. a \in Nat
      BY <2>1
    <3>2. a * a \in Nat
      BY <3>1, ProductIsNat
    <3>3. QED
      BY <3>2
  <2>2. CASE a < 0
    <3> DEFINE b == -a
    <3>1. b \in Nat /\ b * b = a * a
      BY <2>2
    <3>2. b * b \in Nat
      BY <3>1, ProductIsNat
    <3>3. QED
      BY <3>1, <3>2
  <2>3. QED
    BY <2>1, <2>2
<1>2. QED
  BY <1>1, ProductHolds

\* The prime is added before or subtracted from, to get rid of the sign.
LEMMA PrimeHolds ==
  \A n, a, s \in Int : FieldFits(n) /\ Near(n, a, s) =>
    /\ Residue(n, Rem(Add(a, n), n), s)
    /\ Residue(n, Rem(Sub(n, a), n), -s)
<1> SUFFICES ASSUME NEW n \in Int, NEW a \in Int, NEW s \in Int, FieldFits(n), Near(n, a, s)
             PROVE  Residue(n, Rem(Add(a, n), n), s) /\ Residue(n, Rem(Sub(n, a), n), -s)
  OBVIOUS
<1>1. n \in Word /\ n > 0
  BY DEF FieldFits
<1>2. a + n \in Word /\ n - a \in Word /\ a + n >= 0 /\ n - a >= 0
  <2>1. /\ a + n \in Int /\ -(2 * n) < a + n /\ a + n < 2 * n /\ a + n >= 0
        /\ n - a \in Int /\ -(2 * n) < n - a /\ n - a < 2 * n /\ n - a >= 0
    BY <1>1 DEF Near
  <2>2. QED
    BY <2>1, SumsFit
<1>3. Same(n, a + n, s) /\ Same(n, n - a, -s)
  <2>1. Same(n, n, 0)
    <3>1. n - 0 = n * 1 /\ 1 \in Int
      OBVIOUS
    <3>2. QED
      BY <3>1 DEF Same, Divides
  <2>2. Same(n, a, s) /\ 0 \in Int
    BY DEF Near
  <2>3. Same(n, a + n, s + 0) /\ Same(n, n - a, 0 - s)
    BY <2>1, <2>2, SameOfResults
  <2>4. s + 0 = s /\ 0 - s = -s
    OBVIOUS
  <2>5. QED
    BY <2>3, <2>4
<1>4. Add(a, n) = a + n /\ Sub(n, a) = n - a
  BY <1>2, WrapOfWord DEF Add, Sub
<1> DEFINE v == a + n
           w == n - a
           z == -s
<1>5. v \in Word /\ w \in Word /\ v >= 0 /\ w >= 0 /\ z \in Int /\ Same(n, v, s) /\ Same(n, w, z)
  BY <1>2, <1>3
<1> HIDE DEF v, w, z
<1>6. Residue(n, Rem(v, n), s) /\ Residue(n, Rem(w, n), z)
  BY <1>1, <1>5, RemReduces
<1>7. QED
  BY <1>4, <1>6 DEF v, w, z

\* The curve's parameter is added as the caller gave it.
LEMMA ParameterHolds ==
  \A n, a, s, c \in Int :
    FieldFits(n) /\ Residue(n, a, s) /\ c \in Word /\ c + n <= Half =>
      Near(n, Rem(Add(a, c), n), s + c)
<1> SUFFICES ASSUME NEW n \in Int, NEW a \in Int, NEW s \in Int, NEW c \in Int,
                    FieldFits(n), Residue(n, a, s), c \in Word, c + n <= Half
             PROVE  Near(n, Rem(Add(a, c), n), s + c)
  OBVIOUS
<1>1. n \in Word /\ n > 0 /\ Half \in Nat
  BY NamesFit DEF FieldFits
<1>2. a + c \in Word
  BY <1>1 DEF Residue, Word
<1>3. Same(n, a + c, s + c)
  <2>1. Same(n, c, c) /\ Same(n, a, s)
    BY SameIsEquivalence DEF Residue
  <2>2. QED
    BY <2>1, SameOfResults
<1>4. Add(a, c) = a + c
  BY <1>2, WrapOfWord DEF Add
<1> DEFINE v == a + c
           z == s + c
<1>5. v \in Word /\ z \in Int /\ Same(n, v, z)
  BY <1>2, <1>3
<1> HIDE DEF v, z
<1>6. Near(n, Rem(v, n), z)
  BY <1>1, <1>5, RemReduces
<1>7. QED
  BY <1>4, <1>6 DEF v, z

(***************************************************************************)
(* The line through two points of the curve, and where it meets the curve   *)
(* again.                                                                   *)
(***************************************************************************)
\* The slope of the line is Rise / Run.
Rise(a, x1, y1, x2, y2) == IF x1 # x2 THEN y1 - y2 ELSE 3 * x1 * x1 + a
Run(x1, y1, x2) == IF x1 # x2 THEN x1 - x2 ELSE 2 * y1

\* How far a pair of numbers is off the curve.
Off(a, b, u, v) == v * v - u * u * u - a * u - b

\* A divisor of two numbers divides their combinations.
LEMMA DividesSum == \A n, a, b, c \in Int : Divides(n, a) /\ Divides(n, b) => Divides(n, a + c * b)
<1> SUFFICES ASSUME NEW n \in Int, NEW a \in Int, NEW b \in Int, NEW c \in Int, Divides(n, a), Divides(n, b)
             PROVE  Divides(n, a + c * b)
  OBVIOUS
<1> DEFINE z == -c
<1>1. z \in Int /\ a - z * b = a + c * b
  OBVIOUS
<1> HIDE DEF z
<1>2. Divides(n, a - z * b)
  BY <1>1, DividesCombination
<1>3. QED
  BY <1>1, <1>2

\* Congruence, by the remainder of the difference.
LEMMA SameIsZero == \A n \in Nat \ {0} : \A a, b \in Int : Same(n, a, b) <=> (a - b) % n = 0
<1> SUFFICES ASSUME NEW n \in Nat \ {0}, NEW a \in Int, NEW b \in Int
             PROVE  Same(n, a, b) <=> (a - b) % n = 0
  OBVIOUS
<1> DEFINE c == a - b
<1>1. c \in Int /\ (Same(n, a, b) <=> Divides(n, c))
  BY DEF Same
<1> HIDE DEF c
<1>2. Divides(n, c) <=> c % n = 0
  BY <1>1, DividesIsZero
<1>3. QED
  BY <1>1, <1>2 DEF c

\* Different numbers below n differ by no multiple of n.
LEMMA ResiduesDiffer == \A n \in Nat \ {0} : \A a, b \in 0 .. n - 1 : a # b => ~Divides(n, a - b)
<1> SUFFICES ASSUME NEW n \in Nat \ {0}, NEW a \in 0 .. n - 1, NEW b \in 0 .. n - 1, Divides(n, a - b)
             PROVE  a = b
  OBVIOUS
<1>1. Same(n, a, b)
  BY DEF Same
<1>2. a \in Int /\ b \in Int
  OBVIOUS
<1>3. a % n = b % n
  BY <1>1, <1>2, SameIff
<1>4. a % n = a /\ b % n = b
  BY ResidueIsItself
<1>5. QED
  BY <1>3, <1>4

\* The line is not vertical: a chord between different x, or the tangent in a
\* point whose y is not zero.
LEMMA RunIsNoMultiple ==
  ASSUME NEW n \in Int, IsPrime(n), n > 3,
         NEW x1 \in 0 .. n - 1, NEW x2 \in 0 .. n - 1, NEW y1 \in 0 .. n - 1, x1 # x2 \/ y1 # 0
  PROVE  ~Divides(n, Run(x1, y1, x2))
<1>1. n \in Nat \ {0}
  OBVIOUS
<1>2. CASE x1 # x2
  BY <1>1, <1>2, ResiduesDiffer DEF Run
<1>3. CASE x1 = x2
  <2>1. y1 \in 1 .. n - 1 /\ 2 \in 1 .. n - 1 /\ Run(x1, y1, x2) = 2 * y1
    BY <1>3 DEF Run
  <2>2. ~Divides(n, 2) /\ ~Divides(n, y1)
    BY <1>1, <2>1, NoSmallMultiple
  <2>3. QED
    BY <2>1, <2>2, EuclidsLemma
<1>4. QED
  BY <1>2, <1>3

\* There is one residue that solves the equation of the slope.
LEMMA SlopeIsUnique ==
  ASSUME NEW n \in Int, IsPrime(n), NEW a \in Int,
         NEW x1 \in Int, NEW y1 \in Int, NEW x2 \in Int, NEW y2 \in Int,
         ~Divides(n, Run(x1, y1, x2)),
         NEW m \in Int, Same(n, m * Run(x1, y1, x2), Rise(a, x1, y1, x2, y2))
  PROVE  LET s == Slope(n, a, <<x1, y1>>, <<x2, y2>>)
         IN  /\ s \in 0 .. n - 1
             /\ Same(n, m, s)
             /\ Same(n, s * Run(x1, y1, x2), Rise(a, x1, y1, x2, y2))
<1> DEFINE d == Run(x1, y1, x2)
           h == Rise(a, x1, y1, x2, y2)
           Q(k) == IF x1 # x2 THEN (k * (x1 - x2) - (y1 - y2)) % n = 0
                   ELSE (k * 2 * y1 - 3 * x1 * x1 - a) % n = 0
           s == CHOOSE k \in 0 .. n - 1 : Q(k)
<1>1. d \in Int /\ h \in Int /\ n \in Nat \ {0}
  BY DEF Run, Rise, IsPrime
<1>2. ASSUME NEW k \in Int PROVE Q(k) <=> Same(n, k * d, h)
  <2>1. CASE x1 # x2
    <3>1. Q(k) <=> (k * d - h) % n = 0
      BY <2>1 DEF Run, Rise
    <3>2. k * d \in Int
      BY <1>1, ProductIsInt
    <3> HIDE DEF d, h, Q
    <3> DEFINE u == k * d
    <3>3. Same(n, u, h) <=> (u - h) % n = 0
      <4> HIDE DEF u
      <4>1. u \in Int
        BY <3>2 DEF u
      <4>2. QED
        BY <1>1, <4>1, SameIsZero
    <3>4. QED
      BY <3>1, <3>3
  <2>2. CASE x1 = x2
    <3>1. k * 2 * y1 - 3 * x1 * x1 - a = k * (2 * y1) - (3 * x1 * x1 + a)
      OBVIOUS
    <3>2. Q(k) <=> (k * d - h) % n = 0
      BY <2>2, <3>1 DEF Run, Rise
    <3>3. k * d \in Int
      BY <1>1, ProductIsInt
    <3> HIDE DEF d, h, Q
    <3> DEFINE u == k * d
    <3>4. Same(n, u, h) <=> (u - h) % n = 0
      <4> HIDE DEF u
      <4>1. u \in Int
        BY <3>3 DEF u
      <4>2. QED
        BY <1>1, <4>1, SameIsZero
    <3>5. QED
      BY <3>2, <3>4
  <2>3. QED
    BY <2>1, <2>2
<1>3. s = Slope(n, a, <<x1, y1>>, <<x2, y2>>)
  BY DEF Slope
<1>4. Same(n, m * d, h)
  OBVIOUS
<1>5. ~Divides(n, d)
  OBVIOUS
<1> HIDE DEF d, h, Q
<1>6. s \in 0 .. n - 1 /\ Q(s)
  <2> DEFINE k == m % n
  <2>1. k \in 0 .. n - 1 /\ Same(n, k, m)
    BY <1>1, SameRemainder
  <2> HIDE DEF k
  <2>2. k \in Int
    BY <2>1
  <2>3. Same(n, k * d, m * d)
    BY <1>1, <2>1, <2>2, SameTimes
  <2>4. k * d \in Int /\ m * d \in Int
    BY <1>1, <2>2, ProductIsInt
  <2>5. Same(n, k * d, h)
    BY <1>1, <1>4, <2>3, <2>4, SameChain
  <2>6. Q(k)
    BY <1>2, <2>2, <2>5
  <2>7. QED
    BY <2>1, <2>6
<1> HIDE DEF s
<1>7. s \in Int /\ Same(n, s * d, h)
  BY <1>2, <1>6
<1>8. Same(n, m, s)
  <2>1. m * d \in Int /\ s * d \in Int
    BY <1>1, <1>7, ProductIsInt
  <2>2. Same(n, h, s * d)
    BY <1>1, <1>7, <2>1, SameBack
  <2>3. Same(n, m * d, s * d)
    BY <1>1, <1>4, <2>1, <2>2, SameChain
  <2>4. m * d - s * d = (m - s) * d
    BY <1>1, <1>7
  <2>5. Divides(n, (m - s) * d) /\ m - s \in Int
    BY <1>7, <2>3, <2>4 DEF Same
  <2>6. Divides(n, m - s)
    BY <1>1, <1>5, <2>5, EuclidsLemma
  <2>7. QED
    BY <2>6 DEF Same
<1>9. QED
  BY <1>3, <1>6, <1>7, <1>8 DEF d, h

\* On a curve, two points with the same x have the same y or opposite ones.
LEMMA OppositePoints ==
  ASSUME NEW n \in Int, IsPrime(n), NEW a \in Int, NEW b \in Int, NEW u \in Int,
         NEW v \in 0 .. n - 1, NEW w \in 0 .. n - 1, v # w,
         Divides(n, Off(a, b, u, v)), Divides(n, Off(a, b, u, w))
  PROVE  (v + w) % n = 0
<1>1. n \in Nat \ {0} /\ v \in Int /\ w \in Int
  BY DEF IsPrime
<1> DEFINE f == Off(a, b, u, v)
           g == Off(a, b, u, w)
<1>2. f \in Int /\ g \in Int
  BY <1>1 DEF Off
<1>3. f + (-1) * g = (v - w) * (v + w)
  BY <1>1 DEF Off
<1>4. Divides(n, f) /\ Divides(n, g) /\ -1 \in Int
  OBVIOUS
<1> HIDE DEF f, g
<1>5. Divides(n, f + (-1) * g)
  BY <1>2, <1>4, DividesSum
<1>6. Divides(n, (v - w) * (v + w)) /\ v - w \in Int /\ v + w \in Int
  BY <1>1, <1>3, <1>5
<1>7. Divides(n, v + w)
  BY <1>1, <1>6, EuclidsLemma, ResiduesDiffer
<1>8. QED
  BY <1>1, <1>6, <1>7, DividesIsZero

\* The line meets the curve in a third point; the sum is below or above that one.
LEMMA LineMeetsCurve ==
  ASSUME NEW n \in Int, IsPrime(n), NEW a \in Int, NEW b \in Int,
         NEW x1 \in Int, NEW y1 \in Int, NEW x2 \in Int, NEW y2 \in Int,
         Divides(n, Off(a, b, x1, y1)), Divides(n, Off(a, b, x2, y2)),
         x1 = x2 => y1 = y2, ~Divides(n, Run(x1, y1, x2)),
         NEW m \in Int, Same(n, m * Run(x1, y1, x2), Rise(a, x1, y1, x2, y2)),
         NEW x3 \in Int, Same(n, x3, m * m - x1 - x2),
         NEW y3 \in Int, Same(n, y3, m * (x1 - x3) - y1)
  PROVE  Divides(n, Off(a, b, x3, y3))
<1> DEFINE Q(u) == u * u + u * x1 + x1 * x1 + a - m * m * (u - x1) - 2 * m * y1
           Line(u) == m * (u - x1) + y1
           f1 == Off(a, b, x1, y1)
           f2 == Off(a, b, x2, y2)
           e == x3 - (m * m - x1 - x2)
           t == y3 - (m * (x1 - x3) - y1)
<1>0. f1 \in Int /\ f2 \in Int /\ e \in Int /\ t \in Int /\ -1 \in Int
  BY DEF Off
<1>1. Divides(n, f1) /\ Divides(n, f2) /\ Divides(n, e) /\ Divides(n, t)
  BY DEF Same
<1>2. ASSUME NEW u \in Int
      PROVE  /\ Off(a, b, u, Line(u)) = f1 + (-(u - x1)) * Q(u)
             /\ Q(u) \in Int /\ Line(u) \in Int
             /\ Off(a, b, u, Line(u)) \in Int
  BY DEF Off
<1>3. Divides(n, Q(x2))
  <2>1. CASE x1 # x2
    <3> DEFINE w == Line(x2) - y2
               c == 2 * y2 + w
    <3>1. Divides(n, w) /\ w \in Int /\ c \in Int
      <4>1. Same(n, m * (x1 - x2), y1 - y2)
        BY <2>1 DEF Run, Rise
      <4> DEFINE g == m * (x1 - x2) - (y1 - y2)
      <4>2. Divides(n, g) /\ g \in Int
        BY <4>1 DEF Same
      <4>3. w = g * (-1)
        OBVIOUS
      <4>4. w \in Int /\ c \in Int
        OBVIOUS
      <4> HIDE DEF g, w
      <4>5. Divides(n, g * (-1))
        BY <1>0, <4>2, DividesCombination
      <4>6. QED
        BY <4>3, <4>4, <4>5
    <3>2. f2 + c * w = Off(a, b, x2, Line(x2))
      BY DEF Off
    <3> HIDE DEF f2, w, c
    <3>3. Divides(n, f2 + c * w)
      BY <1>0, <1>1, <3>1, DividesSum
    <3> DEFINE q == Q(x2)
               g == Off(a, b, x2, Line(x2))
    <3>4. Divides(n, g) /\ g \in Int /\ q \in Int
      BY <1>2, <3>2, <3>3
    <3>5. g = f1 + (-(x2 - x1)) * q
      BY <1>2
    <3> HIDE DEF g, q, f1, Line, Q
    <3>6. f1 + (-1) * g = (x1 - x2) * (-q)
      BY <1>0, <3>4, <3>5
    <3>7. Divides(n, f1 + (-1) * g)
      BY <1>0, <1>1, <3>4, DividesSum
    <3>8. Divides(n, (x1 - x2) * (-q)) /\ x1 - x2 \in Int /\ -q \in Int
      BY <3>4, <3>6, <3>7
    <3>9. ~Divides(n, x1 - x2)
      BY <2>1 DEF Run
    <3>10. Divides(n, -q)
      BY <3>8, <3>9, EuclidsLemma
    <3>11. Divides(n, (-q) * (-1))
      BY <1>0, <3>8, <3>10, DividesCombination
    <3>12. (-q) * (-1) = q
      BY <3>4
    <3>13. QED
      BY <3>11, <3>12 DEF q
  <2>2. CASE x1 = x2
    <3>1. Same(n, m * (2 * y1), 3 * x1 * x1 + a)
      BY <2>2 DEF Run, Rise
    <3> DEFINE g == m * (2 * y1) - (3 * x1 * x1 + a)
               q == Q(x2)
    <3>2. Divides(n, g) /\ g \in Int
      BY <3>1 DEF Same
    <3>3. q = g * (-1)
      BY <2>2
    <3> HIDE DEF g, q
    <3>4. Divides(n, g * (-1))
      BY <1>0, <3>2, DividesCombination
    <3>5. QED
      BY <3>3, <3>4 DEF q
  <2>3. QED
    BY <2>1, <2>2
<1>4. Divides(n, Q(x3))
  <2> DEFINE q2 == Q(x2)
             q3 == Q(x3)
             c == x3 - x2
  <2>1. q3 = q2 + c * e
    OBVIOUS
  <2>2. q2 \in Int /\ c \in Int /\ Divides(n, q2)
    BY <1>2, <1>3
  <2> HIDE DEF q2, q3, c, e
  <2>3. Divides(n, q2 + c * e)
    BY <1>0, <1>1, <2>2, DividesSum
  <2>4. QED
    BY <2>1, <2>3 DEF q3
<1>5. Divides(n, Off(a, b, x3, Line(x3)))
  <2> DEFINE q3 == Q(x3)
             c == -(x3 - x1)
  <2>1. Off(a, b, x3, Line(x3)) = f1 + c * q3 /\ q3 \in Int /\ c \in Int
    BY <1>2
  <2>2. Divides(n, q3)
    BY <1>4
  <2> HIDE DEF q3, c, f1, Line
  <2>3. Divides(n, f1 + c * q3)
    BY <1>0, <1>1, <2>1, <2>2, DividesSum
  <2>4. QED
    BY <2>1, <2>3
<1>6. QED
  <2> DEFINE u == Line(x3)
             g == Off(a, b, x3, u)
             c == t - 2 * u
  <2>1. Off(a, b, x3, y3) = g + c * t
    BY DEF Off
  <2>2. g \in Int /\ c \in Int /\ Divides(n, g)
    BY <1>0, <1>2, <1>5
  <2> HIDE DEF g, c, t, u
  <2>3. Divides(n, g + c * t)
    BY <1>0, <1>1, <2>2, DividesSum
  <2>4. QED
    BY <2>1, <2>3

\* The power that the subroutine is about.
Goal(n, d) == PowerMod(n, d, n - 2)

\* That power is a number.
LEMMA GoalIsInt == \A n, d \in Int : n > 3 => Goal(n, d) \in Int /\ n - 2 \in Nat
<1> SUFFICES ASSUME NEW n \in Int, NEW d \in Int, n > 3 PROVE Goal(n, d) \in Int /\ n - 2 \in Nat
  OBVIOUS
<1>1. n - 2 \in Nat /\ n \in Nat \ {0}
  OBVIOUS
<1>2. PowerMod(n, d, n - 2) \in 0 .. n - 1
  BY <1>1, PowerFacts
<1>3. QED
  BY <1>1, <1>2 DEF Goal

\* The subroutine starts with a residue of the denominator; for the residue one
\* it is ready at once.
LEMMA SubroutineBegins ==
  \A n, v, d \in Int : FieldFits(n) /\ Residue(n, v, d) =>
    /\ Sub(n, 2) = n - 2
    /\ LoopValue(n, Goal(n, d), FALSE, 0, 1, v, n - 2)
    /\ v = 1 => \A w, e : LoopValue(n, Goal(n, d), FALSE, 7, 1, w, e)
<1> SUFFICES ASSUME NEW n \in Int, NEW v \in Int, NEW d \in Int, FieldFits(n), Residue(n, v, d)
             PROVE  /\ Sub(n, 2) = n - 2
                    /\ LoopValue(n, Goal(n, d), FALSE, 0, 1, v, n - 2)
                    /\ v = 1 => \A w, e : LoopValue(n, Goal(n, d), FALSE, 7, 1, w, e)
  OBVIOUS
<1> DEFINE g == Goal(n, d)
<1>1. n \in Word /\ n > 3 /\ n \in Nat \ {0} /\ n - 2 \in Nat /\ g \in Int /\ Half \in Nat
  BY GoalIsInt, NamesFit DEF FieldFits
<1>2. v \in Word
  <2>1. -(2 * n) < v /\ v < 2 * n
    BY DEF Residue
  <2>2. QED
    BY <2>1, SumsFit
<1>3. g = PowerMod(n, v, n - 2)
  <2>1. Same(n, v, d)
    BY DEF Residue
  <2>2. QED
    BY <1>1, <2>1, PowerOfSame DEF Goal
<1>4. v * v < Half
  <2>1. v * v \in Word
    <3>1. (n - 1) * (n - 1) < Half /\ -n < v /\ v < n
      BY DEF FieldFits, Residue
    <3>2. QED
      BY <1>1, <3>1, ProductFits
  <2> DEFINE q == v * v
  <2>2. q \in Word
    BY <2>1
  <2> HIDE DEF q
  <2>3. q < Half
    BY <1>1, <2>2 DEF Word
  <2>4. QED
    BY <2>3 DEF q
<1>5. n - 2 \in Word /\ Sub(n, 2) = n - 2
  <2>1. n - 2 \in Word
    BY <1>1 DEF Word
  <2>2. QED
    BY <2>1, WrapOfWord DEF Sub
<1>6. (v < 0) = FALSE
  BY DEF Residue
<1> HIDE DEF g
<1>7. LoopValue(n, g, FALSE, 0, 1, v, n - 2)
  <2>1. n > 1
    BY <1>1
  <2>2. LoopValue(n, g, v < 0, 0, 1, v, n - 2)
    BY <1>1, <1>2, <1>3, <1>4, <2>1, LoopBegins
  <2>3. QED
    BY <1>6, <2>2
<1>8. v = 1 => Same(n, 1, g)
  BY <1>1, <1>3, TrivialPowers
<1>9. v = 1 => \A w, e : LoopValue(n, g, FALSE, 7, 1, w, e)
  BY <1>1, <1>8 DEF LoopValue
<1>10. QED
  BY <1>5, <1>7, <1>9 DEF g

\* What it ends with is the inverse.
LEMMA SubroutineEnds ==
  \A n, d, w \in Int : \A v, e :
    FieldFits(n) /\ IsPrime(n) /\ ~Divides(n, d) /\ LoopValue(n, Goal(n, d), FALSE, 7, w, v, e) =>
      0 <= w /\ w < n /\ (d * w) % n = 1
<1> SUFFICES ASSUME NEW n \in Int, NEW d \in Int, NEW w \in Int, NEW v, NEW e,
                    FieldFits(n), IsPrime(n), ~Divides(n, d),
                    LoopValue(n, Goal(n, d), FALSE, 7, w, v, e)
             PROVE  0 <= w /\ w < n /\ (d * w) % n = 1
  OBVIOUS
<1>1. n \in Nat \ {0}
  BY DEF FieldFits
<1>2. 0 <= w /\ w < n /\ Same(n, w, Goal(n, d))
  BY DEF LoopValue
<1>3. d % n # 0
  BY <1>1, DividesIsZero
<1>4. (d * w) % n = 1
  BY <1>2, <1>3, GoalIsInverse DEF Goal
<1>5. QED
  BY <1>2, <1>4

\* What is congruent to h / d solves the equation of the slope.
LEMMA InverseSolves ==
  ASSUME NEW n \in Int, n > 3, NEW d \in Int, NEW h \in Int, NEW w \in Int, (d * w) % n = 1,
         NEW m \in Int, Same(n, m, h * w)
  PROVE  Same(n, m * d, h)
<1> DEFINE q == d * w
           t == h * w
<1>1. n \in Nat \ {0}
  OBVIOUS
<1>2. q \in Int /\ q % n = 1 /\ t \in Int /\ Same(n, m, t)
  BY ProductIsInt
<1>3. t * d = h * q
  OBVIOUS
<1> HIDE DEF q, t
<1>4. Same(n, q, 1)
  <2>1. 1 \in 0 .. n - 1
    OBVIOUS
  <2>2. 1 % n = 1
    BY <1>1, <2>1, ResidueIsItself
  <2> DEFINE i == 1
  <2>3. i \in Int /\ q % n = i % n
    BY <1>2, <2>2
  <2> HIDE DEF i
  <2>4. Same(n, q, i)
    BY <1>1, <1>2, <2>3, SameIff
  <2>5. QED
    BY <2>4 DEF i
<1>5. Same(n, h * q, h)
  <2> DEFINE i == 1
  <2>1. i \in Int /\ h * i = h /\ Same(n, q, i)
    BY <1>4
  <2> HIDE DEF i
  <2>2. Same(n, h * q, h * i)
    BY <1>1, <1>2, <2>1, SameTimes
  <2>3. QED
    BY <2>1, <2>2
<1>6. Same(n, m * d, t * d)
  BY <1>1, <1>2, SameTimes
<1>7. m * d \in Int /\ h * q \in Int
  BY <1>2, ProductIsInt
<1>8. QED
  BY <1>1, <1>3, <1>5, <1>6, <1>7, SameChain

\* The equation has a solution, because the denominator has an inverse.
LEMMA SlopeSolves ==
  ASSUME NEW n \in Int, n > 3, IsPrime(n), NEW a \in Int,
         NEW x1 \in Int, NEW y1 \in Int, NEW x2 \in Int, NEW y2 \in Int,
         ~Divides(n, Run(x1, y1, x2))
  PROVE  LET s == Slope(n, a, <<x1, y1>>, <<x2, y2>>)
         IN  s \in 0 .. n - 1 /\ Same(n, s * Run(x1, y1, x2), Rise(a, x1, y1, x2, y2))
<1> DEFINE d == Run(x1, y1, x2)
           h == Rise(a, x1, y1, x2, y2)
           w == Goal(n, d)
           m == h * w
<1>1. d \in Int /\ h \in Int /\ n \in Nat \ {0} /\ ~Divides(n, d)
  BY DEF Run, Rise
<1> HIDE DEF d, h
<1>2. w \in Int
  BY <1>1, GoalIsInt
<1>3. (d * w) % n = 1
  <2>1. d % n # 0 /\ Same(n, w, PowerMod(n, d, n - 2))
    BY <1>1, <1>2, DividesIsZero, SameIsEquivalence DEF Goal
  <2> HIDE DEF w
  <2>2. QED
    BY <1>1, <1>2, <2>1, GoalIsInverse
<1> HIDE DEF w
<1>4. m \in Int
  BY <1>1, <1>2, ProductIsInt
<1>5. Same(n, m, h * w)
  BY <1>1, <1>4, SameIsEquivalence
<1> HIDE DEF m
<1>6. Same(n, m * d, h)
  BY <1>1, <1>2, <1>3, <1>4, <1>5, InverseSolves
<1>7. QED
  BY <1>4, <1>6, SlopeIsUnique DEF d, h

\* The result of the subroutine times the numerator is the slope.
LEMMA SlopeFound ==
  ASSUME NEW n \in Int, FieldFits(n), IsPrime(n), NEW a \in Int,
         NEW x1 \in Int, NEW y1 \in Int, NEW x2 \in Int, NEW y2 \in Int,
         ~Divides(n, Run(x1, y1, x2)),
         NEW u \in Int, Near(n, u, Rise(a, x1, y1, x2, y2)),
         NEW w \in Int, NEW v, NEW e, LoopValue(n, Goal(n, Run(x1, y1, x2)), FALSE, 7, w, v, e)
  PROVE  Near(n, Rem(Mul(u, w), n), Slope(n, a, <<x1, y1>>, <<x2, y2>>))
<1> DEFINE d == Run(x1, y1, x2)
           h == Rise(a, x1, y1, x2, y2)
           m == Rem(Mul(u, w), n)
           s == Slope(n, a, <<x1, y1>>, <<x2, y2>>)
<1>1. d \in Int /\ h \in Int /\ n \in Nat \ {0} /\ n > 3
  BY DEF Run, Rise, FieldFits
<1>2. 0 <= w /\ w < n /\ (d * w) % n = 1
  <2> HIDE DEF d
  <2>1. QED
    BY <1>1, SubroutineEnds DEF d
<1>3. Near(n, w, w)
  BY <1>1, <1>2, OwnResidue, ResidueIsNear
<1>4. Near(n, m, h * w)
  <2> HIDE DEF h
  <2>1. Near(n, u, h)
    BY DEF h
  <2>2. QED
    BY <1>1, <1>3, <2>1, ProductHolds
<1>5. m \in Int /\ -n < m /\ m < n /\ Same(n, m, h * w)
  BY <1>4 DEF Near
<1> HIDE DEF m
<1>6. Same(n, m * d, h)
  <2> HIDE DEF d, h
  <2>1. QED
    BY <1>1, <1>2, <1>5, InverseSolves
<1>7. Same(n, m, s)
  BY <1>5, <1>6, SlopeIsUnique DEF d, h
<1>8. QED
  BY <1>5, <1>7 DEF Near, m, s

(***************************************************************************)
(* What the registers stand for.                                            *)
(***************************************************************************)
\* The call is about two points of a curve whose prime is small enough for the
\* word: MULP multiplies before it reduces, and a is added as it was given.
Sound ==
  /\ Abstract!WellPosed(Arguments)
  /\ (P - 1) * (P - 1) < Half
  /\ Param + P <= Half

\* Numerator and denominator of the slope: R14 and R20 for the chord, R16 and R20
\* for the tangent, untouched until the subroutine is back.
Fraction(n, a, x1, y1, x2, y2, k, r) ==
  /\ k = 19 => Near(n, r[13], y1 - y2)
  /\ x1 # x2 /\ k \in 20 .. 38 => Near(n, r[14], Rise(a, x1, y1, x2, y2))
  /\ k = 21 => Near(n, r[15], x1 - x2)
  /\ k \in 44 .. 45 => Residue(n, r[13], x1 * x1)
  /\ k = 46 => Residue(n, r[15], 3 * x1 * x1)
  /\ x1 = x2 /\ (k \in 25 .. 38 \/ k \in 47 .. 50) => Near(n, r[16], Rise(a, x1, y1, x2, y2))
  /\ k = 22 \/ k \in 25 .. 30 \/ k = 49 => Residue(n, r[20], Run(x1, y1, x2))

\* The loop of the subroutine, and its result when it is back.
Inversion(n, d, k, r) ==
  /\ k \in 31 .. 37 => LoopValue(n, Goal(n, d), FALSE, k - 31, r[8], r[20], r[21])
  /\ k = 38 \/ k = 23 \/ k = 50 => LoopValue(n, Goal(n, d), FALSE, 7, r[8], r[20], r[21])

\* The line with slope m: y1 - m x1 in R14, and the terms of the third point.
Line(n, m, x1, y1, x2, k, r) ==
  /\ k = 24 \/ k \in 51 .. 59 => Near(n, r[7], m)
  /\ k \in 52 .. 53 => Near(n, r[13], m * x1)
  /\ k = 53 => Residue(n, r[17], y1)
  /\ k \in 54 .. 61 => Near(n, r[14], y1 - m * x1)
  /\ k \in 55 .. 58 => Residue(n, r[15], m * m)
  /\ k \in 56 .. 57 => Residue(n, r[16], -x1)
  /\ k = 57 => Residue(n, r[17], -x2)
  /\ k = 58 => Residue(n, r[18], -x1 - x2)
  /\ k \in 59 .. 62 => Residue(n, r[8], m * m - x1 - x2)
  /\ k = 60 => Near(n, r[13], m * r[8])
  /\ k \in 61 .. 62 => Residue(n, r[15], -(m * r[8]))
  /\ k = 62 => Residue(n, r[16], m * x1 - y1)

\* The slope of the line, and the pairs that stand for the sum.
Gradient == Slope(P, Param, <<X1, Y1>>, <<X2, Y2>>)
Sums == Abstract!Sums(P, Param, Zero, <<X1, Y1>>, <<X2, Y2>>)

\* All that is said of the registers during a call.
Value ==
  InCall /\ Sound =>
    /\ Fraction(P, Param, X1, Y1, X2, Y2, pc, regs)
    /\ Inversion(P, Run(X1, Y1, X2), pc, regs)
    /\ Line(P, Gradient, X1, Y1, X2, pc, regs)
    /\ pc \in 63 .. 65 => <<regs[8], regs[9]>> \in Sums

\* The arguments are words, ...
LEMMA MemoryIsWords ==
  ASSUME ProcessorTypeOK
  PROVE  /\ P \in Word /\ Param \in Word /\ Zero \in Word /\ sram[B_ADDR] \in Word
         /\ X1 \in Word /\ Y1 \in Word /\ X2 \in Word /\ Y2 \in Word
         /\ P \in Int /\ Param \in Int /\ Zero \in Int /\ sram[B_ADDR] \in Int
         /\ X1 \in Int /\ Y1 \in Int /\ X2 \in Int /\ Y2 \in Int
<1>1. /\ P \in Word /\ Param \in Word /\ Zero \in Word /\ sram[B_ADDR] \in Word
      /\ X1 \in Word /\ Y1 \in Word /\ X2 \in Word /\ Y2 \in Word
  BY AddressesExist DEF ProcessorTypeOK, P, Param, Zero, X1, Y1, X2, Y2
<1>2. QED
  BY <1>1, WordFacts

\* ... and so are the registers.
LEMMA RegistersAreWords ==
  ASSUME ProcessorTypeOK
  PROVE  \A r \in Reg : regs[r] \in Word /\ regs[r] \in Int
<1>1. \A r \in Reg : regs[r] \in Word
  BY DEF ProcessorTypeOK
<1>2. QED
  BY <1>1, WordFacts

\* The tuple of arguments, by its parts.
LEMMA ArgumentsAre ==
  /\ Arguments[1] = P /\ Arguments[2] = Param /\ Arguments[3] = sram[B_ADDR] /\ Arguments[4] = Zero
  /\ Arguments[5] = X1 /\ Arguments[6] = Y1 /\ Arguments[7] = X2 /\ Arguments[8] = Y2
  /\ point1 = <<X1, Y1>> /\ point2 = <<X2, Y2>>
<1>1. /\ Arguments[1] = sram[0] /\ Arguments[2] = sram[1] /\ Arguments[3] = sram[2] /\ Arguments[4] = sram[3]
      /\ Arguments[5] = sram[4] /\ Arguments[6] = sram[5] /\ Arguments[7] = sram[6]
      /\ Arguments[8] = sram[7]
  BY DEF Arguments
<1>2. QED
  BY <1>1 DEF P, Param, Zero, X1, Y1, X2, Y2, point1, point2, P_ADDR, A_ADDR, B_ADDR, Z_ADDR,
              X1_ADDR, Y1_ADDR, X2_ADDR, Y2_ADDR

\* A pair on the curve is a pair of residues that solves the equation.
OnIt(n, a, b, u, v) == u \in 0 .. n - 1 /\ v \in 0 .. n - 1 /\ Divides(n, Off(a, b, u, v))

\* That is what the abstract addition calls a point of the curve.
LEMMA OnCurveMeans ==
  \A n \in Nat \ {0} : \A a, b, u, v \in Int :
    Abstract!OnCurve(<<u, v>>, n, a, b) <=> OnIt(n, a, b, u, v)
<1> SUFFICES ASSUME NEW n \in Nat \ {0}, NEW a \in Int, NEW b \in Int, NEW u \in Int, NEW v \in Int
             PROVE  Abstract!OnCurve(<<u, v>>, n, a, b) <=> OnIt(n, a, b, u, v)
  OBVIOUS
<1> DEFINE c == Off(a, b, u, v)
<1>1. Abstract!OnCurve(<<u, v>>, n, a, b) <=> u \in 0 .. n - 1 /\ v \in 0 .. n - 1 /\ c % n = 0
  BY DEF Abstract!OnCurve, Off
<1>2. c \in Int
  BY DEF Off
<1> HIDE DEF c
<1>3. c % n = 0 <=> Divides(n, c)
  BY <1>2, DividesIsZero
<1>4. QED
  BY <1>1, <1>3 DEF OnIt, c

\* What a sound call is about.
LEMMA SoundMeans ==
  ASSUME ProcessorTypeOK, Sound
  PROVE  /\ IsPrime(P) /\ FieldFits(P) /\ Param + P <= Half /\ Zero = -1
         /\ X1 = -1 \/ Y1 = -1 \/ OnIt(P, Param, sram[B_ADDR], X1, Y1)
         /\ X2 = -1 \/ Y2 = -1 \/ OnIt(P, Param, sram[B_ADDR], X2, Y2)
         /\ X1 # X2 \/ Y1 # Y2 \/ Y1 # 0
<1>1. Abstract!WellPosed(Arguments)
  BY DEF Sound
<1> DEFINE s == <<X1, Y1>>
           t == <<X2, Y2>>
<1>2. /\ Abstract!IsPrime(P) /\ P > 3 /\ Zero = -1
      /\ \A q \in {s, t} : Abstract!IsZero(q, Zero) \/ Abstract!OnCurve(q, P, Param, sram[B_ADDR])
      /\ ~(s = t /\ s[2] = 0)
  BY <1>1, ArgumentsAre DEF Abstract!WellPosed
<1>3. Abstract!IsZero(s, Zero) \/ Abstract!OnCurve(s, P, Param, sram[B_ADDR])
  BY <1>2
<1>4. Abstract!IsZero(t, Zero) \/ Abstract!OnCurve(t, P, Param, sram[B_ADDR])
  BY <1>2
<1>5. /\ Abstract!IsZero(s, Zero) <=> (X1 = -1 \/ Y1 = -1)
      /\ Abstract!IsZero(t, Zero) <=> (X2 = -1 \/ Y2 = -1)
  BY <1>2 DEF Abstract!IsZero
<1>6. IsPrime(P) /\ P \in Nat \ {0}
  BY <1>2, MemoryIsWords DEF Abstract!IsPrime, IsPrime
<1>7. FieldFits(P) /\ Param + P <= Half
  BY <1>2, MemoryIsWords DEF Sound, FieldFits
<1>8. /\ Abstract!OnCurve(s, P, Param, sram[B_ADDR]) <=> OnIt(P, Param, sram[B_ADDR], X1, Y1)
      /\ Abstract!OnCurve(t, P, Param, sram[B_ADDR]) <=> OnIt(P, Param, sram[B_ADDR], X2, Y2)
  BY <1>6, MemoryIsWords, OnCurveMeans
<1>9. X1 # X2 \/ Y1 # Y2 \/ Y1 # 0
  BY <1>2
<1>10. QED
  BY <1>2, <1>3, <1>4, <1>5, <1>6, <1>7, <1>8, <1>9

\* OR finds the marker: the disjunction of the coordinates is all ones just where
\* one of them is, because the others are not negative.
LEMMA MarkerFound ==
  ASSUME ProcessorTypeOK, Sound
  PROVE  /\ BitOr(X1, Y1) = Zero <=> X1 = -1 \/ Y1 = -1
         /\ BitOr(X2, Y2) = Zero <=> X2 = -1 \/ Y2 = -1
<1>1. /\ X1 \in Word /\ Y1 \in Word /\ X2 \in Word /\ Y2 \in Word /\ Zero = -1
      /\ X1 = -1 \/ Y1 = -1 \/ (X1 >= 0 /\ Y1 >= 0)
      /\ X2 = -1 \/ Y2 = -1 \/ (X2 >= 0 /\ Y2 >= 0)
  BY SoundMeans, MemoryIsWords DEF OnIt
<1>2. QED
  BY <1>1, OrOfAllOnes

\* Behind the tests for zero both points are on the curve, and where a slope is
\* asked for the line is not vertical.
LEMMA GroundFacts ==
  ASSUME ProcessorTypeOK, Registers, InCall, Sound, pc \in 17 .. 62
  PROVE  /\ OnIt(P, Param, sram[B_ADDR], X1, Y1) /\ OnIt(P, Param, sram[B_ADDR], X2, Y2)
         /\ pc \in 18 .. 38 \/ pc \in 43 .. 62 => ~Divides(P, Run(X1, Y1, X2))
<1>1. Path /\ IsPrime(P) /\ P > 3 /\ P \in Int
  BY SoundMeans, MemoryIsWords DEF Registers, FieldFits
<1>2. BitOr(X1, Y1) # Zero /\ BitOr(X2, Y2) # Zero
  BY <1>1 DEF Path
<1>3. OnIt(P, Param, sram[B_ADDR], X1, Y1) /\ OnIt(P, Param, sram[B_ADDR], X2, Y2)
  BY <1>2, MarkerFound, SoundMeans
<1>4. ASSUME pc \in 18 .. 38 \/ pc \in 43 .. 62 PROVE ~Divides(P, Run(X1, Y1, X2))
  <2>1. X1 # X2 \/ Y1 = Y2
    BY <1>1, <1>4 DEF Path
  <2>2. X1 # X2 \/ Y1 # 0
    BY <2>1, SoundMeans
  <2>3. X1 \in 0 .. P - 1 /\ X2 \in 0 .. P - 1 /\ Y1 \in 0 .. P - 1
    BY <1>3 DEF OnIt
  <2>4. QED
    BY <1>1, <2>2, <2>3, RunIsNoMultiple
<1>5. QED
  BY <1>3, <1>4

(***************************************************************************)
(* A step keeps what the registers stand for.                               *)
(***************************************************************************)
\* It is enough to look at the registers: the arguments do not change.
LEMMA ValueFollows ==
  ASSUME ProcessorTypeOK, Registers, Mapped, Step(PAddProg),
         Sound => /\ Fraction(P, Param, X1, Y1, X2, Y2, pc', regs')
                  /\ Inversion(P, Run(X1, Y1, X2), pc', regs')
                  /\ Line(P, Gradient, X1, Y1, X2, pc', regs')
                  /\ pc' \in 63 .. 65 => <<regs'[8], regs'[9]>> \in Sums
  PROVE  Value'
<1>1. /\ P' = P /\ Param' = Param /\ Zero' = Zero /\ Arguments' = Arguments
      /\ X1' = X1 /\ Y1' = Y1 /\ X2' = X2 /\ Y2' = Y2
  BY StepInside, ArgumentsKept
<1>2. (Sound' <=> Sound) /\ Gradient' = Gradient /\ Sums' = Sums
  BY <1>1 DEF Sound, Gradient, Sums
<1>3. QED
  BY <1>1, <1>2 DEF Value

\* What is known where the line is computed.
LEMMA FieldFacts ==
  ASSUME ProcessorTypeOK, Registers, Mapped, Value, Step(PAddProg), Sound, pc \in 18 .. 62
  PROVE  /\ FieldFits(P) /\ IsPrime(P) /\ P \in Word /\ P \in Int /\ P > 3
         /\ Param \in Word /\ Param \in Int /\ Param + P <= Half
         /\ X1 \in Int /\ Y1 \in Int /\ X2 \in Int /\ Y2 \in Int
         /\ Residue(P, X1, X1) /\ Residue(P, Y1, Y1) /\ Residue(P, X2, X2) /\ Residue(P, Y2, Y2)
         /\ Near(P, X1, X1) /\ Near(P, Y1, Y1) /\ Near(P, X2, X2) /\ Near(P, Y2, Y2)
         /\ Run(X1, Y1, X2) \in Int /\ Rise(Param, X1, Y1, X2, Y2) \in Int
         /\ pc \in 18 .. 38 \/ pc \in 43 .. 62 => ~Divides(P, Run(X1, Y1, X2)) /\ Gradient \in Int
<1>1. /\ FieldFits(P) /\ IsPrime(P) /\ P \in Word /\ P \in Int /\ P > 3
      /\ Param \in Word /\ Param \in Int /\ Param + P <= Half
      /\ X1 \in Int /\ Y1 \in Int /\ X2 \in Int /\ Y2 \in Int
  BY SoundMeans, MemoryIsWords DEF FieldFits
<1>2. pc \in 17 .. 62 /\ InCall
  BY StepInside
<1>3. X1 \in 0 .. P - 1 /\ Y1 \in 0 .. P - 1 /\ X2 \in 0 .. P - 1 /\ Y2 \in 0 .. P - 1
  BY <1>2, GroundFacts DEF OnIt
<1>4. Residue(P, X1, X1) /\ Residue(P, Y1, Y1) /\ Residue(P, X2, X2) /\ Residue(P, Y2, Y2)
  BY <1>1, <1>3, OwnResidue
<1>5. Near(P, X1, X1) /\ Near(P, Y1, Y1) /\ Near(P, X2, X2) /\ Near(P, Y2, Y2)
  BY <1>1, <1>4, ResidueIsNear
<1>6. Run(X1, Y1, X2) \in Int /\ Rise(Param, X1, Y1, X2, Y2) \in Int
  BY <1>1 DEF Run, Rise
<1>7. ASSUME pc \in 18 .. 38 \/ pc \in 43 .. 62
      PROVE  ~Divides(P, Run(X1, Y1, X2)) /\ Gradient \in Int
  <2>1. ~Divides(P, Run(X1, Y1, X2))
    BY <1>2, <1>7, GroundFacts
  <2>2. Gradient \in 0 .. P - 1
    BY <1>1, <2>1, SlopeSolves DEF Gradient
  <2>3. QED
    BY <2>1, <2>2
<1>8. QED
  BY <1>1, <1>4, <1>5, <1>6, <1>7

\* What the registers hold and stand for there.
LEMMA LoadedFacts ==
  ASSUME ProcessorTypeOK, Registers, Mapped, Value, Step(PAddProg), Sound, pc \in 18 .. 62
  PROVE  /\ InCall /\ pc \in Nat /\ Path /\ Temporaries
         /\ p = P /\ regs[0] = 0 /\ regs[1] = X1 /\ regs[2] = Y1 /\ regs[3] = X2 /\ regs[4] = Y2
         /\ regs[5] = P /\ regs[6] = Param /\ regs[12] = Zero
         /\ Fraction(P, Param, X1, Y1, X2, Y2, pc, regs)
         /\ Inversion(P, Run(X1, Y1, X2), pc, regs)
         /\ Line(P, Gradient, X1, Y1, X2, pc, regs)
<1>1. InCall /\ pc \in Nat /\ Loaded /\ Path /\ Temporaries
  BY StepInside DEF Registers
<1>2. QED
  BY <1>1 DEF Loaded, Value

\* Places where nothing is said of the line.
LEMMA QuietPlaces ==
  \A k, r : k \in 0 .. 18 \/ k \in 39 .. 43 \/ k \in 63 .. 65 =>
    /\ Fraction(P, Param, X1, Y1, X2, Y2, k, r)
    /\ Inversion(P, Run(X1, Y1, X2), k, r)
    /\ Line(P, Gradient, X1, Y1, X2, k, r)
<1> SUFFICES ASSUME NEW k, NEW r, k \in 0 .. 18 \/ k \in 39 .. 43 \/ k \in 63 .. 65
             PROVE  /\ Fraction(P, Param, X1, Y1, X2, Y2, k, r)
                    /\ Inversion(P, Run(X1, Y1, X2), k, r)
                    /\ Line(P, Gradient, X1, Y1, X2, k, r)
  OBVIOUS
<1>1. k \notin 19 .. 38 /\ k \notin 44 .. 62
  OBVIOUS
<1>2. Fraction(P, Param, X1, Y1, X2, Y2, k, r)
  BY <1>1 DEF Fraction
<1>3. Inversion(P, Run(X1, Y1, X2), k, r)
  <2>1. k \notin 31 .. 37 /\ k # 38 /\ k # 23 /\ k # 50
    BY <1>1
  <2>2. QED
    BY <2>1 DEF Inversion
<1>4. Line(P, Gradient, X1, Y1, X2, k, r)
  BY <1>1 DEF Line
<1>5. QED
  BY <1>2, <1>3, <1>4

\* The sum with a zero point is the other one, ...
LEMMA ZeroFound ==
  ASSUME ProcessorTypeOK, Sound
  PROVE  /\ BitOr(X1, Y1) = Zero => <<Add(X2, 0), Add(Y2, 0)>> \in Sums
         /\ BitOr(X1, Y1) # Zero /\ BitOr(X2, Y2) = Zero => <<Add(X1, 0), Add(Y1, 0)>> \in Sums
<1>1. X1 \in Word /\ Y1 \in Word /\ X2 \in Word /\ Y2 \in Word
  BY MemoryIsWords
<1>2. Add(X1, 0) = X1 /\ Add(Y1, 0) = Y1 /\ Add(X2, 0) = X2 /\ Add(Y2, 0) = Y2
  <2>1. \A w \in Word : Add(w, 0) = w
    <3>1. \A w \in Word : w + 0 = w
      BY WordFacts
    <3>2. QED
      BY <3>1, WrapOfWord DEF Add
  <2>2. QED
    BY <1>1, <2>1
<1>3. /\ Abstract!IsZero(<<X1, Y1>>, Zero) <=> BitOr(X1, Y1) = Zero
      /\ Abstract!IsZero(<<X2, Y2>>, Zero) <=> BitOr(X2, Y2) = Zero
  BY SoundMeans, MarkerFound DEF Abstract!IsZero
<1>4. QED
  BY <1>2, <1>3 DEF Sums, Abstract!Sums

\* ... and the sum of opposite points is marked.
LEMMA OppositeFound ==
  ASSUME ProcessorTypeOK, Registers, InCall, Sound, pc \in 40 .. 42, NEW u \in Word
  PROVE  <<u, Zero>> \in Sums
<1>1. X1 = X2 /\ Y1 # Y2
  BY DEF Registers, Path
<1>2. /\ IsPrime(P) /\ P \in Int /\ Zero = -1 /\ Zero \in Word
      /\ Param \in Int /\ sram[B_ADDR] \in Int
      /\ OnIt(P, Param, sram[B_ADDR], X1, Y1) /\ OnIt(P, Param, sram[B_ADDR], X2, Y2)
  BY SoundMeans, MemoryIsWords, GroundFacts
<1>3. /\ X1 \in Int /\ Y1 \in 0 .. P - 1 /\ Y2 \in 0 .. P - 1 /\ X1 \in 0 .. P - 1 /\ X2 \in 0 .. P - 1
      /\ Divides(P, Off(Param, sram[B_ADDR], X1, Y1)) /\ Divides(P, Off(Param, sram[B_ADDR], X1, Y2))
  BY <1>1, <1>2 DEF OnIt
<1>4. (Y1 + Y2) % P = 0
  BY <1>1, <1>2, <1>3, OppositePoints
<1>5. ~Abstract!IsZero(<<X1, Y1>>, Zero) /\ ~Abstract!IsZero(<<X2, Y2>>, Zero)
  BY <1>2, <1>3 DEF Abstract!IsZero
<1>6. Sums = {pt \in Word \X Word : Abstract!IsZero(pt, Zero)}
  BY <1>1, <1>4, <1>5 DEF Sums, Abstract!Sums
<1>7. QED
  BY <1>2, <1>6 DEF Abstract!IsZero

\* The loads say nothing yet, ...
LEMMA LoadKeepsValue ==
  ASSUME ProcessorTypeOK, Registers, Mapped, Value, Step(PAddProg), pc \in 0 .. 8
  PROVE  Value'
<1> SUFFICES ASSUME Sound
             PROVE  /\ Fraction(P, Param, X1, Y1, X2, Y2, pc', regs')
                    /\ Inversion(P, Run(X1, Y1, X2), pc', regs')
                    /\ Line(P, Gradient, X1, Y1, X2, pc', regs')
                    /\ pc' \in 63 .. 65 => <<regs'[8], regs'[9]>> \in Sums
  BY ValueFollows
<1>1. pc = 0 \/ pc = 1 \/ pc = 2 \/ pc = 3 \/ pc = 4 \/ pc = 5 \/ pc = 6 \/ pc = 7 \/ pc = 8
  OBVIOUS
<1>2. pc \in Nat
  BY StepInside
<1>3. pc' = pc + 1
  BY <1>1, <1>2, LoadEffects DEF Wrote, LoadedPrime
<1>4. pc' \in 0 .. 18 /\ pc' \notin 63 .. 65
  BY <1>1, <1>3
<1>5. QED
  BY <1>4, QuietPlaces

\* ... and the tests for zero end the call or say nothing.
LEMMA ZeroKeepsValue ==
  ASSUME ProcessorTypeOK, Registers, Mapped, Value, Step(PAddProg), pc \in 9 .. 17
  PROVE  Value'
<1> SUFFICES ASSUME Sound
             PROVE  /\ Fraction(P, Param, X1, Y1, X2, Y2, pc', regs')
                    /\ Inversion(P, Run(X1, Y1, X2), pc', regs')
                    /\ Line(P, Gradient, X1, Y1, X2, pc', regs')
                    /\ pc' \in 63 .. 65 => <<regs'[8], regs'[9]>> \in Sums
  BY ValueFollows
<1>1. InCall /\ pc \in Nat /\ Loaded /\ Path /\ Temporaries
  BY StepInside DEF Registers
<1>2. CASE pc \in 9 .. 17 /\ pc # 12 /\ pc # 16
  <2>1. pc = 9 \/ pc = 10 \/ pc = 11 \/ pc = 13 \/ pc = 14 \/ pc = 15 \/ pc = 17
    BY <1>2
  <2>2. pc' = pc + 1 \/ pc' = 39
    BY <1>1, <2>1, ZeroEffects DEF Wrote, BranchTo
  <2>3. (pc' \in 0 .. 18 \/ pc' \in 39 .. 43) /\ pc' \notin 63 .. 65
    BY <2>1, <2>2
  <2>4. QED
    BY <2>3, QuietPlaces
<1>3. CASE pc = 12
  <2>1. BranchTo(13, 12, 63)
    BY <1>1, <1>3, ZeroEffects
  <2>2. /\ regs[13] = BitOr(X1, Y1) /\ regs[12] = Zero
        /\ regs[8] = Add(X2, 0) /\ regs[9] = Add(Y2, 0)
    BY <1>1, <1>3 DEF Loaded, Temporaries
  <2>3. regs' = regs /\ (pc' = 13 \/ (pc' = 63 /\ BitOr(X1, Y1) = Zero))
    BY <1>3, <2>1, <2>2 DEF BranchTo
  <2>4. pc' = 63 => <<regs'[8], regs'[9]>> \in Sums
    BY <2>2, <2>3, ZeroFound
  <2>5. pc' \in 63 .. 65 => pc' = 63
    BY <2>3
  <2>6. pc' \in 0 .. 18 \/ pc' \in 63 .. 65
    BY <2>3
  <2>7. QED
    BY <2>4, <2>5, <2>6, QuietPlaces
<1>4. CASE pc = 16
  <2>1. BranchTo(13, 12, 63)
    BY <1>1, <1>4, ZeroEffects
  <2>2. /\ regs[13] = BitOr(X2, Y2) /\ regs[12] = Zero /\ BitOr(X1, Y1) # Zero
        /\ regs[8] = Add(X1, 0) /\ regs[9] = Add(Y1, 0)
    BY <1>1, <1>4 DEF Loaded, Temporaries, Path
  <2>3. regs' = regs /\ (pc' = 17 \/ (pc' = 63 /\ BitOr(X2, Y2) = Zero))
    BY <1>4, <2>1, <2>2 DEF BranchTo
  <2>4. pc' = 63 => <<regs'[8], regs'[9]>> \in Sums
    BY <2>2, <2>3, ZeroFound
  <2>5. pc' \in 63 .. 65 => pc' = 63
    BY <2>3
  <2>6. pc' \in 0 .. 18 \/ pc' \in 63 .. 65
    BY <2>3
  <2>7. QED
    BY <2>4, <2>5, <2>6, QuietPlaces
<1>5. QED
  BY <1>2, <1>3, <1>4

\* Two points with the same x are opposite, or one point.
LEMMA SameXKeepsValue ==
  ASSUME ProcessorTypeOK, Registers, Mapped, Value, Step(PAddProg), pc \in 39 .. 42
  PROVE  Value'
<1> SUFFICES ASSUME Sound
             PROVE  /\ Fraction(P, Param, X1, Y1, X2, Y2, pc', regs')
                    /\ Inversion(P, Run(X1, Y1, X2), pc', regs')
                    /\ Line(P, Gradient, X1, Y1, X2, pc', regs')
                    /\ pc' \in 63 .. 65 => <<regs'[8], regs'[9]>> \in Sums
  BY ValueFollows
<1>1. InCall /\ pc \in Nat /\ Loaded /\ Path /\ Temporaries
  BY StepInside DEF Registers
<1>2. CASE pc \in 39 .. 41
  <2>1. pc = 39 \/ pc = 40 \/ pc = 41
    BY <1>2
  <2>2. pc' = pc + 1 \/ pc' = 43
    BY <1>1, <2>1, SameXEffects DEF Wrote, BranchTo
  <2>3. pc' \in 39 .. 43 /\ pc' \notin 63 .. 65
    BY <2>1, <2>2
  <2>4. QED
    BY <2>3, QuietPlaces
<1>3. CASE pc = 42
  <2>1. BranchTo(0, 0, 63) /\ regs[9] = Zero
    BY <1>1, <1>3, SameXEffects DEF Temporaries
  <2>2. regs' = regs /\ pc' = 63
    BY <2>1 DEF BranchTo
  <2>3. regs[8] \in Word
    BY RegistersExist, RegistersAreWords
  <2>4. <<regs'[8], regs'[9]>> \in Sums
    BY <1>1, <1>3, <2>1, <2>2, <2>3, OppositeFound
  <2>5. QED
    BY <2>2, <2>4, QuietPlaces
<1>4. QED
  BY <1>2, <1>3

\* The chord: a difference, with the prime added to it, above and below.
LEMMA ChordKeepsValue ==
  ASSUME ProcessorTypeOK, Registers, Mapped, Value, Step(PAddProg), pc \in 18 .. 24
  PROVE  Value'
<1> SUFFICES ASSUME Sound
             PROVE  /\ Fraction(P, Param, X1, Y1, X2, Y2, pc', regs')
                    /\ Inversion(P, Run(X1, Y1, X2), pc', regs')
                    /\ Line(P, Gradient, X1, Y1, X2, pc', regs')
                    /\ pc' \in 63 .. 65 => <<regs'[8], regs'[9]>> \in Sums
  BY ValueFollows
<1>1. /\ FieldFits(P) /\ IsPrime(P) /\ P \in Word /\ P \in Int /\ P > 3
      /\ Param \in Word /\ Param \in Int /\ Param + P <= Half
      /\ X1 \in Int /\ Y1 \in Int /\ X2 \in Int /\ Y2 \in Int
      /\ Residue(P, X1, X1) /\ Residue(P, Y1, Y1) /\ Residue(P, X2, X2) /\ Residue(P, Y2, Y2)
      /\ Near(P, X1, X1) /\ Near(P, Y1, Y1) /\ Near(P, X2, X2) /\ Near(P, Y2, Y2)
      /\ Run(X1, Y1, X2) \in Int /\ Rise(Param, X1, Y1, X2, Y2) \in Int
      /\ ~Divides(P, Run(X1, Y1, X2)) /\ Gradient \in Int
  BY FieldFacts
<1>2. /\ InCall /\ pc \in Nat /\ Path /\ Temporaries
      /\ p = P /\ regs[0] = 0 /\ regs[1] = X1 /\ regs[2] = Y1 /\ regs[3] = X2 /\ regs[4] = Y2
      /\ regs[5] = P /\ regs[6] = Param /\ regs[12] = Zero
      /\ Fraction(P, Param, X1, Y1, X2, Y2, pc, regs)
      /\ Inversion(P, Run(X1, Y1, X2), pc, regs)
      /\ Line(P, Gradient, X1, Y1, X2, pc, regs)
  BY LoadedFacts
<1>3. CASE pc = 18
  <2>1. Wrote(13, Rem(Sub(regs[2], regs[4]), p))
    BY <1>2, <1>3, ChordEffects
  <2>2. /\ regs'[13] = Rem(Sub(Y1, Y2), P) /\ pc' = 19
        /\ regs'[7] = regs[7] /\ regs'[8] = regs[8] /\ regs'[14] = regs[14] /\ regs'[15] = regs[15]
        /\ regs'[16] = regs[16]
        /\ regs'[17] = regs[17] /\ regs'[18] = regs[18] /\ regs'[20] = regs[20] /\ regs'[21] = regs[21]
    BY RegistersExist, <1>2, <1>3, <2>1, AfterWrite
  <2>3. Near(P, regs'[13], Y1 - Y2)
    BY <1>1, <2>2, DifferenceHolds
  <2>4. Fraction(P, Param, X1, Y1, X2, Y2, pc', regs')
    BY <1>2, <1>3, <2>2, <2>3 DEF Fraction
  <2>5. Inversion(P, Run(X1, Y1, X2), pc', regs')
    BY <1>2, <1>3, <2>2, <2>3 DEF Inversion
  <2>6. Line(P, Gradient, X1, Y1, X2, pc', regs')
    BY <1>2, <1>3, <2>2, <2>3 DEF Line
  <2>7. QED
    BY <1>3, <2>2, <2>3, <2>4, <2>5, <2>6
<1>4. CASE pc = 19
  <2>1. Wrote(14, Rem(Add(regs[13], regs[5]), p))
    BY <1>2, <1>4, ChordEffects
  <2>2. /\ regs'[14] = Rem(Add(regs[13], P), P) /\ pc' = 20
        /\ regs'[7] = regs[7] /\ regs'[8] = regs[8] /\ regs'[13] = regs[13] /\ regs'[15] = regs[15]
        /\ regs'[16] = regs[16]
        /\ regs'[17] = regs[17] /\ regs'[18] = regs[18] /\ regs'[20] = regs[20] /\ regs'[21] = regs[21]
    BY RegistersExist, <1>2, <1>4, <2>1, AfterWrite
  <2>3. X1 # X2 /\ Near(P, regs[13], Y1 - Y2) /\ regs[13] \in Int /\ Y1 - Y2 \in Int
    BY <1>1, <1>2, <1>4 DEF Path, Fraction, Near
  <2>4. Residue(P, regs'[14], Y1 - Y2) /\ regs'[14] \in Int
    BY <1>1, <2>2, <2>3, PrimeHolds DEF Residue
  <2>5. X1 # X2 /\ Near(P, regs'[14], Rise(Param, X1, Y1, X2, Y2))
    BY <1>1, <2>3, <2>4, ResidueIsNear DEF Rise
  <2>6. Fraction(P, Param, X1, Y1, X2, Y2, pc', regs')
    BY <1>2, <1>4, <2>2, <2>5 DEF Fraction
  <2>7. Inversion(P, Run(X1, Y1, X2), pc', regs')
    BY <1>2, <1>4, <2>2, <2>5 DEF Inversion
  <2>8. Line(P, Gradient, X1, Y1, X2, pc', regs')
    BY <1>2, <1>4, <2>2, <2>5 DEF Line
  <2>9. QED
    BY <1>4, <2>2, <2>5, <2>6, <2>7, <2>8
<1>5. CASE pc = 20
  <2>1. Wrote(15, Rem(Sub(regs[1], regs[3]), p))
    BY <1>2, <1>5, ChordEffects
  <2>2. /\ regs'[15] = Rem(Sub(X1, X2), P) /\ pc' = 21
        /\ regs'[7] = regs[7] /\ regs'[8] = regs[8] /\ regs'[13] = regs[13] /\ regs'[14] = regs[14]
        /\ regs'[16] = regs[16]
        /\ regs'[17] = regs[17] /\ regs'[18] = regs[18] /\ regs'[20] = regs[20] /\ regs'[21] = regs[21]
    BY RegistersExist, <1>2, <1>5, <2>1, AfterWrite
  <2>3. Near(P, regs'[15], X1 - X2) /\ X1 # X2
    BY <1>1, <1>2, <1>5, <2>2, DifferenceHolds DEF Path
  <2>4. Fraction(P, Param, X1, Y1, X2, Y2, pc', regs')
    BY <1>2, <1>5, <2>2, <2>3 DEF Fraction
  <2>5. Inversion(P, Run(X1, Y1, X2), pc', regs')
    BY <1>2, <1>5, <2>2, <2>3 DEF Inversion
  <2>6. Line(P, Gradient, X1, Y1, X2, pc', regs')
    BY <1>2, <1>5, <2>2, <2>3 DEF Line
  <2>7. QED
    BY <1>5, <2>2, <2>3, <2>4, <2>5, <2>6
<1>6. CASE pc = 21
  <2>1. Wrote(20, Rem(Add(regs[15], regs[5]), p))
    BY <1>2, <1>6, ChordEffects
  <2>2. /\ regs'[20] = Rem(Add(regs[15], P), P) /\ pc' = 22
        /\ regs'[7] = regs[7] /\ regs'[8] = regs[8] /\ regs'[13] = regs[13] /\ regs'[14] = regs[14]
        /\ regs'[15] = regs[15]
        /\ regs'[16] = regs[16] /\ regs'[17] = regs[17] /\ regs'[18] = regs[18] /\ regs'[21] = regs[21]
    BY RegistersExist, <1>2, <1>6, <2>1, AfterWrite
  <2>3. X1 # X2 /\ Near(P, regs[15], X1 - X2) /\ regs[15] \in Int /\ X1 - X2 \in Int
    BY <1>1, <1>2, <1>6 DEF Path, Fraction, Near
  <2>4. Residue(P, regs'[20], X1 - X2)
    BY <1>1, <2>2, <2>3, PrimeHolds
  <2>5. X1 # X2 /\ Residue(P, regs'[20], Run(X1, Y1, X2))
    BY <2>3, <2>4 DEF Run
  <2>6. Fraction(P, Param, X1, Y1, X2, Y2, pc', regs')
    BY <1>2, <1>6, <2>2, <2>5 DEF Fraction
  <2>7. Inversion(P, Run(X1, Y1, X2), pc', regs')
    BY <1>2, <1>6, <2>2, <2>5 DEF Inversion
  <2>8. Line(P, Gradient, X1, Y1, X2, pc', regs')
    BY <1>2, <1>6, <2>2, <2>5 DEF Line
  <2>9. QED
    BY <1>6, <2>2, <2>5, <2>6, <2>7, <2>8
<1>7. CASE pc = 22
  <2>1. Linked
    BY <1>2, <1>7, ChordEffects
  <2>2. /\ pc' = 25
        /\ regs'[7] = regs[7] /\ regs'[8] = regs[8] /\ regs'[13] = regs[13] /\ regs'[14] = regs[14]
        /\ regs'[15] = regs[15]
        /\ regs'[16] = regs[16] /\ regs'[17] = regs[17] /\ regs'[18] = regs[18]
        /\ regs'[20] = regs[20] /\ regs'[21] = regs[21]
    BY RegistersExist, <2>1, AfterLink
  <2>3. X1 # X2
    BY <1>2, <1>7 DEF Path
  <2>4. Fraction(P, Param, X1, Y1, X2, Y2, pc', regs')
    BY <1>2, <1>7, <2>2, <2>3 DEF Fraction
  <2>5. Inversion(P, Run(X1, Y1, X2), pc', regs')
    BY <1>2, <1>7, <2>2, <2>3 DEF Inversion
  <2>6. Line(P, Gradient, X1, Y1, X2, pc', regs')
    BY <1>2, <1>7, <2>2, <2>3 DEF Line
  <2>7. QED
    BY <1>7, <2>2, <2>3, <2>4, <2>5, <2>6
<1>8. CASE pc = 23
  <2>1. Wrote(7, Rem(Mul(regs[14], regs[8]), p))
    BY <1>2, <1>8, ChordEffects
  <2>2. /\ regs'[7] = Rem(Mul(regs[14], regs[8]), P) /\ pc' = 24
        /\ regs'[8] = regs[8] /\ regs'[13] = regs[13] /\ regs'[14] = regs[14]
        /\ regs'[15] = regs[15] /\ regs'[16] = regs[16]
        /\ regs'[17] = regs[17] /\ regs'[18] = regs[18] /\ regs'[20] = regs[20] /\ regs'[21] = regs[21]
    BY RegistersExist, <1>2, <1>8, <2>1, AfterWrite
  <2>3. Near(P, regs[14], Rise(Param, X1, Y1, X2, Y2)) /\ regs[14] \in Int
    BY <1>1, <1>2, <1>8 DEF Path, Fraction, Near
  <2>4. LoopValue(P, Goal(P, Run(X1, Y1, X2)), FALSE, 7, regs[8], regs[20], regs[21])
    BY <1>2, <1>8 DEF Inversion
  <2>5. regs[8] \in Int
    BY RegistersExist, RegistersAreWords
  <2>6. Near(P, Rem(Mul(regs[14], regs[8]), P), Slope(P, Param, <<X1, Y1>>, <<X2, Y2>>))
    BY <1>1, <2>3, <2>4, <2>5, SlopeFound
  <2>7. Near(P, regs'[7], Gradient)
    BY <2>2, <2>6 DEF Gradient
  <2>8. Fraction(P, Param, X1, Y1, X2, Y2, pc', regs')
    BY <1>2, <1>8, <2>2, <2>7 DEF Fraction
  <2>9. Inversion(P, Run(X1, Y1, X2), pc', regs')
    BY <1>2, <1>8, <2>2, <2>7 DEF Inversion
  <2>10. Line(P, Gradient, X1, Y1, X2, pc', regs')
    BY <1>2, <1>8, <2>2, <2>7 DEF Line
  <2>11. QED
    BY <1>8, <2>2, <2>7, <2>8, <2>9, <2>10
<1>9. CASE pc = 24
  <2>1. BranchTo(0, 0, 51)
    BY <1>2, <1>9, ChordEffects
  <2>2. pc' = 51 /\ regs' = regs
    BY <2>1 DEF BranchTo
  <2>3. Fraction(P, Param, X1, Y1, X2, Y2, pc', regs')
    BY <1>2, <1>9, <2>2 DEF Fraction
  <2>4. Inversion(P, Run(X1, Y1, X2), pc', regs')
    BY <1>2, <1>9, <2>2 DEF Inversion
  <2>5. Line(P, Gradient, X1, Y1, X2, pc', regs')
    BY <1>2, <1>9, <2>2 DEF Line
  <2>6. QED
    BY <1>9, <2>2, <2>3, <2>4, <2>5
<1>10. pc = 18 \/ pc = 19 \/ pc = 20 \/ pc = 21 \/ pc = 22 \/ pc = 23 \/ pc = 24
  OBVIOUS
<1>11. QED
  BY <1>3, <1>4, <1>5, <1>6, <1>7, <1>8, <1>9, <1>10

\* The subroutine begins with one, the denominator and the exponent P - 2; one is
\* its own inverse.
LEMMA CallKeepsValue ==
  ASSUME ProcessorTypeOK, Registers, Mapped, Value, Step(PAddProg), pc \in 25 .. 30
  PROVE  Value'
<1> SUFFICES ASSUME Sound
             PROVE  /\ Fraction(P, Param, X1, Y1, X2, Y2, pc', regs')
                    /\ Inversion(P, Run(X1, Y1, X2), pc', regs')
                    /\ Line(P, Gradient, X1, Y1, X2, pc', regs')
                    /\ pc' \in 63 .. 65 => <<regs'[8], regs'[9]>> \in Sums
  BY ValueFollows
<1>1. /\ FieldFits(P) /\ IsPrime(P) /\ P \in Word /\ P \in Int /\ P > 3
      /\ Param \in Word /\ Param \in Int /\ Param + P <= Half
      /\ X1 \in Int /\ Y1 \in Int /\ X2 \in Int /\ Y2 \in Int
      /\ Residue(P, X1, X1) /\ Residue(P, Y1, Y1) /\ Residue(P, X2, X2) /\ Residue(P, Y2, Y2)
      /\ Near(P, X1, X1) /\ Near(P, Y1, Y1) /\ Near(P, X2, X2) /\ Near(P, Y2, Y2)
      /\ Run(X1, Y1, X2) \in Int /\ Rise(Param, X1, Y1, X2, Y2) \in Int
      /\ ~Divides(P, Run(X1, Y1, X2)) /\ Gradient \in Int
  BY FieldFacts
<1>2. /\ InCall /\ pc \in Nat /\ Path /\ Temporaries
      /\ p = P /\ regs[0] = 0 /\ regs[1] = X1 /\ regs[2] = Y1 /\ regs[3] = X2 /\ regs[4] = Y2
      /\ regs[5] = P /\ regs[6] = Param /\ regs[12] = Zero
      /\ Fraction(P, Param, X1, Y1, X2, Y2, pc, regs)
      /\ Inversion(P, Run(X1, Y1, X2), pc, regs)
      /\ Line(P, Gradient, X1, Y1, X2, pc, regs)
  BY LoadedFacts
<1> DEFINE g == Goal(P, Run(X1, Y1, X2))
           s == FALSE
<1>3. /\ pc' \in 31 .. 37 => LoopValue(P, g, s, pc' - 31, regs'[8], regs'[20], regs'[21])
      /\ pc' \in {38, 23, 50} => LoopValue(P, g, s, 7, regs'[8], regs'[20], regs'[21])
      => Inversion(P, Run(X1, Y1, X2), pc', regs')
  BY DEF Inversion
<1>4. CASE pc = 25
  <2>1. Wrote(8, 1)
    BY <1>2, <1>4, CallEffects
  <2>2. /\ pc' = 26
        /\ regs'[7] = regs[7] /\ regs'[13] = regs[13] /\ regs'[14] = regs[14]
        /\ regs'[15] = regs[15] /\ regs'[16] = regs[16]
        /\ regs'[17] = regs[17] /\ regs'[18] = regs[18] /\ regs'[20] = regs[20] /\ regs'[21] = regs[21]
    BY RegistersExist, <1>2, <1>4, <2>1, AfterWrite
  <2>3. Fraction(P, Param, X1, Y1, X2, Y2, pc', regs')
    BY <1>2, <1>4, <2>2 DEF Fraction
  <2>4. Inversion(P, Run(X1, Y1, X2), pc', regs')
    BY <1>2, <1>4, <2>2 DEF Inversion
  <2>5. Line(P, Gradient, X1, Y1, X2, pc', regs')
    BY <1>2, <1>4, <2>2 DEF Line
  <2>6. QED
    BY <1>4, <2>2, <2>3, <2>4, <2>5
<1>5. CASE pc = 26
  <2>1. Wrote(22, 1)
    BY <1>2, <1>5, CallEffects
  <2>2. /\ pc' = 27
        /\ regs'[7] = regs[7] /\ regs'[8] = regs[8] /\ regs'[13] = regs[13] /\ regs'[14] = regs[14]
        /\ regs'[15] = regs[15]
        /\ regs'[16] = regs[16] /\ regs'[17] = regs[17] /\ regs'[18] = regs[18]
        /\ regs'[20] = regs[20] /\ regs'[21] = regs[21]
    BY RegistersExist, <1>2, <1>5, <2>1, AfterWrite
  <2>3. Fraction(P, Param, X1, Y1, X2, Y2, pc', regs')
    BY <1>2, <1>5, <2>2 DEF Fraction
  <2>4. Inversion(P, Run(X1, Y1, X2), pc', regs')
    BY <1>2, <1>5, <2>2 DEF Inversion
  <2>5. Line(P, Gradient, X1, Y1, X2, pc', regs')
    BY <1>2, <1>5, <2>2 DEF Line
  <2>6. QED
    BY <1>5, <2>2, <2>3, <2>4, <2>5
<1>6. CASE pc = 27
  <2>1. BranchTo(20, 22, 38) /\ regs[22] = 1 /\ regs[8] = 1
    BY <1>2, <1>6, CallEffects DEF Temporaries
  <2>2. regs' = regs /\ (pc' = 28 \/ (pc' = 38 /\ regs[20] = 1))
    BY <1>6, <2>1 DEF BranchTo
  <2>3. Residue(P, regs[20], Run(X1, Y1, X2)) /\ regs[20] \in Int
    BY <1>2, <1>6 DEF Fraction, Residue
  <2>4. regs[20] = 1 => LoopValue(P, g, s, 7, 1, regs[20], regs[21])
    BY <1>1, <2>3, SubroutineBegins
  <2>5. Fraction(P, Param, X1, Y1, X2, Y2, pc', regs')
    BY <1>2, <1>6, <2>2 DEF Fraction
  <2>6. Inversion(P, Run(X1, Y1, X2), pc', regs')
    <3> HIDE DEF g, s
    <3>1. QED
      BY <1>3, <2>1, <2>2, <2>4
  <2>7. Line(P, Gradient, X1, Y1, X2, pc', regs')
    BY <2>2 DEF Line
  <2>8. QED
    BY <2>2, <2>5, <2>6, <2>7
<1>7. CASE pc = 28
  <2>1. Wrote(23, 2)
    BY <1>2, <1>7, CallEffects
  <2>2. /\ pc' = 29
        /\ regs'[7] = regs[7] /\ regs'[8] = regs[8] /\ regs'[13] = regs[13] /\ regs'[14] = regs[14]
        /\ regs'[15] = regs[15]
        /\ regs'[16] = regs[16] /\ regs'[17] = regs[17] /\ regs'[18] = regs[18]
        /\ regs'[20] = regs[20] /\ regs'[21] = regs[21]
    BY RegistersExist, <1>2, <1>7, <2>1, AfterWrite
  <2>3. Fraction(P, Param, X1, Y1, X2, Y2, pc', regs')
    BY <1>2, <1>7, <2>2 DEF Fraction
  <2>4. Inversion(P, Run(X1, Y1, X2), pc', regs')
    BY <1>2, <1>7, <2>2 DEF Inversion
  <2>5. Line(P, Gradient, X1, Y1, X2, pc', regs')
    BY <1>2, <1>7, <2>2 DEF Line
  <2>6. QED
    BY <1>7, <2>2, <2>3, <2>4, <2>5
<1>8. CASE pc = 29
  <2>1. Wrote(21, Sub(regs[5], regs[23]))
    BY <1>2, <1>8, CallEffects
  <2>2. /\ pc' = 30
        /\ regs'[7] = regs[7] /\ regs'[8] = regs[8] /\ regs'[13] = regs[13] /\ regs'[14] = regs[14]
        /\ regs'[15] = regs[15]
        /\ regs'[16] = regs[16] /\ regs'[17] = regs[17] /\ regs'[18] = regs[18] /\ regs'[20] = regs[20]
    BY RegistersExist, <1>2, <1>8, <2>1, AfterWrite
  <2>3. Fraction(P, Param, X1, Y1, X2, Y2, pc', regs')
    BY <1>2, <1>8, <2>2 DEF Fraction
  <2>4. Inversion(P, Run(X1, Y1, X2), pc', regs')
    BY <1>2, <1>8, <2>2 DEF Inversion
  <2>5. Line(P, Gradient, X1, Y1, X2, pc', regs')
    BY <1>2, <1>8, <2>2 DEF Line
  <2>6. QED
    BY <1>8, <2>2, <2>3, <2>4, <2>5
<1>9. CASE pc = 30
  <2>1. BranchTo(21, 0, 38) /\ regs[21] = Sub(P, 2) /\ regs[8] = 1
    BY <1>2, <1>9, CallEffects DEF Temporaries
  <2>2. Residue(P, regs[20], Run(X1, Y1, X2)) /\ regs[20] \in Int
    BY <1>2, <1>9 DEF Fraction, Residue
  <2>3. Sub(P, 2) = P - 2 /\ LoopValue(P, g, s, 0, 1, regs[20], P - 2)
    BY <1>1, <2>2, SubroutineBegins
  <2>4. regs' = regs /\ pc' = 31
    BY <1>1, <1>2, <1>9, <2>1, <2>3 DEF BranchTo
  <2>5. Fraction(P, Param, X1, Y1, X2, Y2, pc', regs')
    BY <1>2, <1>9, <2>4 DEF Fraction
  <2>6. LoopValue(P, g, s, pc' - 31, regs'[8], regs'[20], regs'[21])
    <3> DEFINE k == pc' - 31
    <3>1. k = 0 /\ regs'[8] = 1 /\ regs'[20] = regs[20] /\ regs'[21] = P - 2
      BY <2>1, <2>3, <2>4
    <3> HIDE DEF g, s, k
    <3>2. LoopValue(P, g, s, k, regs'[8], regs'[20], regs'[21])
      BY <2>3, <3>1
    <3>3. QED
      BY <3>2 DEF k
  <2>7. Inversion(P, Run(X1, Y1, X2), pc', regs')
    <3> HIDE DEF g, s
    <3>1. QED
      BY <1>3, <2>4, <2>6
  <2>8. Line(P, Gradient, X1, Y1, X2, pc', regs')
    BY <2>4 DEF Line
  <2>9. QED
    BY <2>4, <2>5, <2>7, <2>8
<1>10. pc = 25 \/ pc = 26 \/ pc = 27 \/ pc = 28 \/ pc = 29 \/ pc = 30
  OBVIOUS
<1>11. QED
  BY <1>4, <1>5, <1>6, <1>7, <1>8, <1>9, <1>10

\* The loop keeps its invariant, and the return leads to the case that called.
LEMMA LoopKeepsValue ==
  ASSUME ProcessorTypeOK, Registers, Mapped, Value, Step(PAddProg), pc \in 31 .. 38
  PROVE  Value'
<1> SUFFICES ASSUME Sound
             PROVE  /\ Fraction(P, Param, X1, Y1, X2, Y2, pc', regs')
                    /\ Inversion(P, Run(X1, Y1, X2), pc', regs')
                    /\ Line(P, Gradient, X1, Y1, X2, pc', regs')
                    /\ pc' \in 63 .. 65 => <<regs'[8], regs'[9]>> \in Sums
  BY ValueFollows
<1>1. /\ FieldFits(P) /\ IsPrime(P) /\ P \in Word /\ P \in Int /\ P > 3
      /\ Param \in Word /\ Param \in Int /\ Param + P <= Half
      /\ X1 \in Int /\ Y1 \in Int /\ X2 \in Int /\ Y2 \in Int
      /\ Residue(P, X1, X1) /\ Residue(P, Y1, Y1) /\ Residue(P, X2, X2) /\ Residue(P, Y2, Y2)
      /\ Near(P, X1, X1) /\ Near(P, Y1, Y1) /\ Near(P, X2, X2) /\ Near(P, Y2, Y2)
      /\ Run(X1, Y1, X2) \in Int /\ Rise(Param, X1, Y1, X2, Y2) \in Int
      /\ ~Divides(P, Run(X1, Y1, X2)) /\ Gradient \in Int
  BY FieldFacts
<1>2. /\ InCall /\ pc \in Nat /\ Path /\ Temporaries
      /\ p = P /\ regs[0] = 0 /\ regs[1] = X1 /\ regs[2] = Y1 /\ regs[3] = X2 /\ regs[4] = Y2
      /\ regs[5] = P /\ regs[6] = Param /\ regs[12] = Zero
      /\ Fraction(P, Param, X1, Y1, X2, Y2, pc, regs)
      /\ Inversion(P, Run(X1, Y1, X2), pc, regs)
      /\ Line(P, Gradient, X1, Y1, X2, pc, regs)
  BY LoadedFacts
<1> DEFINE a == regs[8]
           v == regs[20]
           e == regs[21]
           g == Goal(P, Run(X1, Y1, X2))
           s == FALSE
<1>3. /\ g \in Int /\ P > 1 /\ Half > 2 /\ (P - 1) * (P - 1) < Half /\ s \in BOOLEAN
      /\ a \in Word /\ v \in Word /\ e \in Word
  <2>1. P > 1 /\ Half > 2 /\ (P - 1) * (P - 1) < Half
    BY <1>1, NamesFit DEF FieldFits
  <2>2. g \in Int
    BY <1>1, GoalIsInt
  <2>3. a \in Word /\ v \in Word /\ e \in Word
    BY RegistersExist, RegistersAreWords
  <2>4. QED
    BY <2>1, <2>2, <2>3
<1>4. /\ pc \in 31 .. 37 => LoopValue(P, g, s, pc - 31, a, v, e)
      /\ pc = 38 => LoopValue(P, g, s, 7, a, v, e)
  BY <1>2 DEF Inversion
<1>5. /\ pc' \in 31 .. 37 => LoopValue(P, g, s, pc' - 31, regs'[8], regs'[20], regs'[21])
      /\ pc' \in {38, 23, 50} => LoopValue(P, g, s, 7, regs'[8], regs'[20], regs'[21])
      => Inversion(P, Run(X1, Y1, X2), pc', regs')
  BY DEF Inversion
<1>6. ASSUME pc' \in 31 .. 38 \/ pc' = 23 \/ pc' = 50,
             regs'[14] = regs[14], regs'[16] = regs[16],
             pc' = 23 => X1 # X2, pc' = 50 => X1 = X2
      PROVE  Fraction(P, Param, X1, Y1, X2, Y2, pc', regs') /\ Line(P, Gradient, X1, Y1, X2, pc', regs') /\ pc' \notin 63 .. 65
  <2>1. /\ X1 # X2 => Near(P, regs[14], Rise(Param, X1, Y1, X2, Y2))
        /\ X1 = X2 => Near(P, regs[16], Rise(Param, X1, Y1, X2, Y2))
    BY <1>2 DEF Fraction
  <2>2. Fraction(P, Param, X1, Y1, X2, Y2, pc', regs')
    BY <1>6, <2>1 DEF Fraction
  <2>3. Line(P, Gradient, X1, Y1, X2, pc', regs')
    BY <1>6 DEF Line
  <2>4. QED
    BY <1>6, <2>2, <2>3
<1> HIDE DEF g, s, a, v, e
<1>7. CASE pc \in 31 .. 37
  <2>1. /\ LoopMove(P, pc - 31, a, v, e, pc' - 31, regs'[8], regs'[20], regs'[21])
        /\ pc' \in 31 .. 38
        /\ regs'[14] = regs[14] /\ regs'[16] = regs[16]
    <3>1. /\ regs[22] = 1 /\ regs[23] = 2
          /\ pc = 32 => regs[13] = BitAnd(e, 1)
          /\ pc = 33 => e % 2 = 1
      BY <1>2, <1>7 DEF Temporaries, e
    <3>2. CASE pc \in {31, 33, 34, 35}
      <4>1. /\ pc = 31 => Wrote(13, BitAnd(e, 1))
            /\ pc = 33 => Wrote(8, Rem(Mul(a, v), P))
            /\ pc = 34 => Wrote(21, Quot(e, 2))
            /\ pc = 35 => Wrote(20, Rem(Mul(v, v), P))
        BY <1>2, <3>1, LoopEffects DEF a, v, e
      <4>2. /\ pc' = pc + 1
            /\ regs'[8] = IF pc = 33 THEN Rem(Mul(a, v), P) ELSE a
            /\ regs'[20] = IF pc = 35 THEN Rem(Mul(v, v), P) ELSE v
            /\ regs'[21] = IF pc = 34 THEN Quot(e, 2) ELSE e
            /\ regs'[14] = regs[14] /\ regs'[16] = regs[16]
        BY RegistersExist, <3>2, <4>1, AfterWrite DEF a, v, e
      <4>3. QED
        BY <3>1, <3>2, <4>2 DEF LoopMove
    <3>3. CASE pc \in {32, 36, 37}
      <4>1. /\ pc = 32 => BranchTo(13, 0, 34)
            /\ pc = 36 => BranchTo(21, 0, 38)
            /\ pc = 37 => BranchTo(0, 0, 31)
        BY <1>2, LoopEffects
      <4>2. BitAnd(e, 1) = IF e % 2 = 1 THEN 1 ELSE 0
        BY <1>3, NamesFit, LastBit
      <4>3. /\ regs'[8] = a /\ regs'[20] = v /\ regs'[21] = e
            /\ regs'[14] = regs[14] /\ regs'[16] = regs[16]
            /\ pc = 32 => pc' = 33 \/ (pc' = 34 /\ e % 2 # 1)
            /\ pc = 36 => pc' = 37 \/ (pc' = 38 /\ e = 0)
            /\ pc = 37 => pc' = 31
        BY <1>2, <3>1, <3>3, <4>1, <4>2 DEF BranchTo, a, v, e
      <4>4. QED
        BY <3>3, <4>3 DEF LoopMove
    <3>4. QED
      BY <1>7, <3>2, <3>3
  <2>2. LoopValue(P, g, s, pc' - 31, regs'[8], regs'[20], regs'[21])
    <3> DEFINE j == pc - 31
               k == pc' - 31
    <3>1. /\ j \in 0 .. 6 /\ P \in Word /\ P > 1 /\ (P - 1) * (P - 1) < Half /\ Half > 2
          /\ g \in Int /\ s \in BOOLEAN /\ a \in Word /\ v \in Word /\ e \in Word
      BY <1>1, <1>3, <1>7
    <3>2. LoopValue(P, g, s, j, a, v, e)
      BY <1>4, <1>7
    <3>3. LoopMove(P, j, a, v, e, k, regs'[8], regs'[20], regs'[21])
      BY <2>1
    <3> HIDE DEF j, k
    <3>4. LoopValue(P, g, s, k, regs'[8], regs'[20], regs'[21])
      BY <3>1, <3>2, <3>3, LoopValueKept
    <3>5. QED
      BY <3>4 DEF k
  <2>3. Inversion(P, Run(X1, Y1, X2), pc', regs')
    <3>1. pc' = 38 => pc' - 31 = 7
      OBVIOUS
    <3>2. QED
      BY <1>5, <2>1, <2>2, <3>1
  <2>4. QED
    BY <1>6, <2>1, <2>3
<1>8. CASE pc = 38
  <2>1. Returned /\ regs[10] = IF X1 # X2 THEN 22 ELSE 49
    BY <1>2, <1>8, LoopEffects DEF Path
  <2>2. pc' = (IF X1 # X2 THEN 23 ELSE 50) /\ regs' = regs
    BY <2>1, AfterReturn
  <2>3. Inversion(P, Run(X1, Y1, X2), pc', regs')
    BY <1>4, <1>5, <1>8, <2>2 DEF a, v, e
  <2>4. QED
    BY <1>6, <2>2, <2>3
<1>9. QED
  BY <1>7, <1>8

\* The tangent: the parameter is added to three times the square, y is doubled.
LEMMA TangentKeepsValue ==
  ASSUME ProcessorTypeOK, Registers, Mapped, Value, Step(PAddProg), pc \in 43 .. 50
  PROVE  Value'
<1> SUFFICES ASSUME Sound
             PROVE  /\ Fraction(P, Param, X1, Y1, X2, Y2, pc', regs')
                    /\ Inversion(P, Run(X1, Y1, X2), pc', regs')
                    /\ Line(P, Gradient, X1, Y1, X2, pc', regs')
                    /\ pc' \in 63 .. 65 => <<regs'[8], regs'[9]>> \in Sums
  BY ValueFollows
<1>1. /\ FieldFits(P) /\ IsPrime(P) /\ P \in Word /\ P \in Int /\ P > 3
      /\ Param \in Word /\ Param \in Int /\ Param + P <= Half
      /\ X1 \in Int /\ Y1 \in Int /\ X2 \in Int /\ Y2 \in Int
      /\ Residue(P, X1, X1) /\ Residue(P, Y1, Y1) /\ Residue(P, X2, X2) /\ Residue(P, Y2, Y2)
      /\ Near(P, X1, X1) /\ Near(P, Y1, Y1) /\ Near(P, X2, X2) /\ Near(P, Y2, Y2)
      /\ Run(X1, Y1, X2) \in Int /\ Rise(Param, X1, Y1, X2, Y2) \in Int
      /\ ~Divides(P, Run(X1, Y1, X2)) /\ Gradient \in Int
  BY FieldFacts
<1>2. /\ InCall /\ pc \in Nat /\ Path /\ Temporaries
      /\ p = P /\ regs[0] = 0 /\ regs[1] = X1 /\ regs[2] = Y1 /\ regs[3] = X2 /\ regs[4] = Y2
      /\ regs[5] = P /\ regs[6] = Param /\ regs[12] = Zero
      /\ Fraction(P, Param, X1, Y1, X2, Y2, pc, regs)
      /\ Inversion(P, Run(X1, Y1, X2), pc, regs)
      /\ Line(P, Gradient, X1, Y1, X2, pc, regs)
  BY LoadedFacts
<1>3. CASE pc = 43
  <2>1. Wrote(13, Rem(Mul(regs[1], regs[1]), p))
    BY <1>2, <1>3, TangentEffects
  <2>2. /\ regs'[13] = Rem(Mul(X1, X1), P) /\ pc' = 44
        /\ regs'[7] = regs[7] /\ regs'[8] = regs[8] /\ regs'[14] = regs[14] /\ regs'[15] = regs[15]
        /\ regs'[16] = regs[16]
        /\ regs'[17] = regs[17] /\ regs'[18] = regs[18] /\ regs'[20] = regs[20] /\ regs'[21] = regs[21]
    BY RegistersExist, <1>2, <1>3, <2>1, AfterWrite
  <2>3. Residue(P, regs'[13], X1 * X1)
    BY <1>1, <2>2, ResiduesHold
  <2>4. Fraction(P, Param, X1, Y1, X2, Y2, pc', regs')
    BY <1>2, <1>3, <2>2, <2>3 DEF Fraction
  <2>5. Inversion(P, Run(X1, Y1, X2), pc', regs')
    BY <1>2, <1>3, <2>2, <2>3 DEF Inversion
  <2>6. Line(P, Gradient, X1, Y1, X2, pc', regs')
    BY <1>2, <1>3, <2>2, <2>3 DEF Line
  <2>7. QED
    BY <1>3, <2>2, <2>3, <2>4, <2>5, <2>6
<1>4. CASE pc = 44
  <2>1. Wrote(14, 3)
    BY <1>2, <1>4, TangentEffects
  <2>2. /\ regs'[14] = 3 /\ pc' = 45
        /\ regs'[7] = regs[7] /\ regs'[8] = regs[8] /\ regs'[13] = regs[13] /\ regs'[15] = regs[15]
        /\ regs'[16] = regs[16]
        /\ regs'[17] = regs[17] /\ regs'[18] = regs[18] /\ regs'[20] = regs[20] /\ regs'[21] = regs[21]
    BY RegistersExist, <1>2, <1>4, <2>1, AfterWrite
  <2>3. regs'[13] = regs[13]
    BY <2>2
  <2>4. Fraction(P, Param, X1, Y1, X2, Y2, pc', regs')
    BY <1>2, <1>4, <2>2, <2>3 DEF Fraction
  <2>5. Inversion(P, Run(X1, Y1, X2), pc', regs')
    BY <1>2, <1>4, <2>2, <2>3 DEF Inversion
  <2>6. Line(P, Gradient, X1, Y1, X2, pc', regs')
    BY <1>2, <1>4, <2>2, <2>3 DEF Line
  <2>7. QED
    BY <1>4, <2>2, <2>3, <2>4, <2>5, <2>6
<1>5. CASE pc = 45
  <2>1. Wrote(15, Rem(Mul(regs[13], regs[14]), p))
    BY <1>2, <1>5, TangentEffects
  <2>2. /\ regs'[15] = Rem(Mul(regs[13], regs[14]), P) /\ pc' = 46
        /\ regs'[7] = regs[7] /\ regs'[8] = regs[8] /\ regs'[13] = regs[13] /\ regs'[14] = regs[14]
        /\ regs'[16] = regs[16]
        /\ regs'[17] = regs[17] /\ regs'[18] = regs[18] /\ regs'[20] = regs[20] /\ regs'[21] = regs[21]
    BY RegistersExist, <1>2, <1>5, <2>1, AfterWrite
  <2>3. regs[14] = 3 /\ Residue(P, regs[13], X1 * X1) /\ regs[13] \in Int
    BY <1>2, <1>5 DEF Temporaries, Fraction, Residue
  <2>4. 3 \in 0 .. P - 1
    BY <1>1
  <2>5. Residue(P, regs[14], 3)
    BY <1>1, <2>3, <2>4, OwnResidue
  <2>6. X1 * X1 \in Int
    BY <1>1, ProductIsInt
  <2>7. Residue(P, regs'[15], X1 * X1 * 3)
    <3> DEFINE t == X1 * X1
               i == 3
    <3>1. t \in Int /\ i \in Int /\ Residue(P, regs[13], t) /\ Residue(P, regs[14], i) /\ regs[14] \in Int
      BY <2>3, <2>5, <2>6
    <3> HIDE DEF t, i
    <3>2. Residue(P, Rem(Mul(regs[13], regs[14]), P), t * i)
      BY <1>1, <2>3, <3>1, ResiduesHold
    <3>3. QED
      BY <2>2, <3>2 DEF t, i
  <2>8. X1 * X1 * 3 = 3 * X1 * X1
    BY <1>1
  <2>9. Residue(P, regs'[15], 3 * X1 * X1)
    BY <2>7, <2>8
  <2>10. Fraction(P, Param, X1, Y1, X2, Y2, pc', regs')
    BY <1>2, <1>5, <2>2, <2>9 DEF Fraction
  <2>11. Inversion(P, Run(X1, Y1, X2), pc', regs')
    BY <1>2, <1>5, <2>2, <2>9 DEF Inversion
  <2>12. Line(P, Gradient, X1, Y1, X2, pc', regs')
    BY <1>2, <1>5, <2>2, <2>9 DEF Line
  <2>13. QED
    BY <1>5, <2>2, <2>9, <2>10, <2>11, <2>12
<1>6. CASE pc = 46
  <2>1. Wrote(16, Rem(Add(regs[15], regs[6]), p))
    BY <1>2, <1>6, TangentEffects
  <2>2. /\ regs'[16] = Rem(Add(regs[15], Param), P) /\ pc' = 47
        /\ regs'[7] = regs[7] /\ regs'[8] = regs[8] /\ regs'[13] = regs[13] /\ regs'[14] = regs[14]
        /\ regs'[15] = regs[15]
        /\ regs'[17] = regs[17] /\ regs'[18] = regs[18] /\ regs'[20] = regs[20] /\ regs'[21] = regs[21]
    BY RegistersExist, <1>2, <1>6, <2>1, AfterWrite
  <2>3. X1 = X2 /\ Residue(P, regs[15], 3 * X1 * X1) /\ regs[15] \in Int
    BY <1>2, <1>6 DEF Path, Fraction, Residue
  <2>4. Near(P, regs'[16], 3 * X1 * X1 + Param)
    <3> DEFINE t == 3 * X1 * X1
    <3>1. t \in Int
      BY <1>1, ProductIsInt
    <3>2. Residue(P, regs[15], t)
      BY <2>3
    <3> HIDE DEF t
    <3>3. Near(P, Rem(Add(regs[15], Param), P), t + Param)
      BY <1>1, <2>3, <3>1, <3>2, ParameterHolds
    <3>4. QED
      BY <2>2, <3>3 DEF t
  <2>5. X1 = X2 /\ Near(P, regs'[16], Rise(Param, X1, Y1, X2, Y2))
    BY <2>3, <2>4 DEF Rise
  <2>6. Fraction(P, Param, X1, Y1, X2, Y2, pc', regs')
    BY <1>2, <1>6, <2>2, <2>5 DEF Fraction
  <2>7. Inversion(P, Run(X1, Y1, X2), pc', regs')
    BY <1>2, <1>6, <2>2, <2>5 DEF Inversion
  <2>8. Line(P, Gradient, X1, Y1, X2, pc', regs')
    BY <1>2, <1>6, <2>2, <2>5 DEF Line
  <2>9. QED
    BY <1>6, <2>2, <2>5, <2>6, <2>7, <2>8
<1>7. CASE pc = 47
  <2>1. Wrote(14, 2)
    BY <1>2, <1>7, TangentEffects
  <2>2. /\ regs'[14] = 2 /\ pc' = 48
        /\ regs'[7] = regs[7] /\ regs'[8] = regs[8] /\ regs'[13] = regs[13] /\ regs'[15] = regs[15]
        /\ regs'[16] = regs[16]
        /\ regs'[17] = regs[17] /\ regs'[18] = regs[18] /\ regs'[20] = regs[20] /\ regs'[21] = regs[21]
    BY RegistersExist, <1>2, <1>7, <2>1, AfterWrite
  <2>3. X1 = X2
    BY <1>2, <1>7 DEF Path
  <2>4. Fraction(P, Param, X1, Y1, X2, Y2, pc', regs')
    BY <1>2, <1>7, <2>2, <2>3 DEF Fraction
  <2>5. Inversion(P, Run(X1, Y1, X2), pc', regs')
    BY <1>2, <1>7, <2>2, <2>3 DEF Inversion
  <2>6. Line(P, Gradient, X1, Y1, X2, pc', regs')
    BY <1>2, <1>7, <2>2, <2>3 DEF Line
  <2>7. QED
    BY <1>7, <2>2, <2>3, <2>4, <2>5, <2>6
<1>8. CASE pc = 48
  <2>1. Wrote(20, Rem(Mul(regs[2], regs[14]), p))
    BY <1>2, <1>8, TangentEffects
  <2>2. /\ regs'[20] = Rem(Mul(Y1, regs[14]), P) /\ pc' = 49
        /\ regs'[7] = regs[7] /\ regs'[8] = regs[8] /\ regs'[13] = regs[13] /\ regs'[14] = regs[14]
        /\ regs'[15] = regs[15]
        /\ regs'[16] = regs[16] /\ regs'[17] = regs[17] /\ regs'[18] = regs[18] /\ regs'[21] = regs[21]
    BY RegistersExist, <1>2, <1>8, <2>1, AfterWrite
  <2>3. X1 = X2 /\ regs[14] = 2
    BY <1>2, <1>8 DEF Temporaries, Path
  <2>4. 2 \in 0 .. P - 1
    BY <1>1
  <2>5. Residue(P, regs[14], 2)
    BY <1>1, <2>3, <2>4, OwnResidue
  <2>6. Residue(P, regs'[20], Y1 * 2)
    <3> DEFINE i == 2
    <3>1. i \in Int /\ Residue(P, regs[14], i) /\ regs[14] \in Int
      BY <2>3, <2>5
    <3> HIDE DEF i
    <3>2. Residue(P, Rem(Mul(Y1, regs[14]), P), Y1 * i)
      BY <1>1, <3>1, ResiduesHold
    <3>3. QED
      BY <2>2, <3>2 DEF i
  <2>7. Y1 * 2 = 2 * Y1
    BY <1>1
  <2>8. X1 = X2 /\ Residue(P, regs'[20], Run(X1, Y1, X2))
    BY <2>3, <2>6, <2>7 DEF Run
  <2>9. Fraction(P, Param, X1, Y1, X2, Y2, pc', regs')
    BY <1>2, <1>8, <2>2, <2>8 DEF Fraction
  <2>10. Inversion(P, Run(X1, Y1, X2), pc', regs')
    BY <1>2, <1>8, <2>2, <2>8 DEF Inversion
  <2>11. Line(P, Gradient, X1, Y1, X2, pc', regs')
    BY <1>2, <1>8, <2>2, <2>8 DEF Line
  <2>12. QED
    BY <1>8, <2>2, <2>8, <2>9, <2>10, <2>11
<1>9. CASE pc = 49
  <2>1. Linked
    BY <1>2, <1>9, TangentEffects
  <2>2. /\ pc' = 25
        /\ regs'[7] = regs[7] /\ regs'[8] = regs[8] /\ regs'[13] = regs[13] /\ regs'[14] = regs[14]
        /\ regs'[15] = regs[15]
        /\ regs'[16] = regs[16] /\ regs'[17] = regs[17] /\ regs'[18] = regs[18]
        /\ regs'[20] = regs[20] /\ regs'[21] = regs[21]
    BY RegistersExist, <2>1, AfterLink
  <2>3. X1 = X2
    BY <1>2, <1>9 DEF Path
  <2>4. Fraction(P, Param, X1, Y1, X2, Y2, pc', regs')
    BY <1>2, <1>9, <2>2, <2>3 DEF Fraction
  <2>5. Inversion(P, Run(X1, Y1, X2), pc', regs')
    BY <1>2, <1>9, <2>2, <2>3 DEF Inversion
  <2>6. Line(P, Gradient, X1, Y1, X2, pc', regs')
    BY <1>2, <1>9, <2>2, <2>3 DEF Line
  <2>7. QED
    BY <1>9, <2>2, <2>3, <2>4, <2>5, <2>6
<1>10. CASE pc = 50
  <2>1. Wrote(7, Rem(Mul(regs[16], regs[8]), p))
    BY <1>2, <1>10, TangentEffects
  <2>2. /\ regs'[7] = Rem(Mul(regs[16], regs[8]), P) /\ pc' = 51
        /\ regs'[8] = regs[8] /\ regs'[13] = regs[13] /\ regs'[14] = regs[14]
        /\ regs'[15] = regs[15] /\ regs'[16] = regs[16]
        /\ regs'[17] = regs[17] /\ regs'[18] = regs[18] /\ regs'[20] = regs[20] /\ regs'[21] = regs[21]
    BY RegistersExist, <1>2, <1>10, <2>1, AfterWrite
  <2>3. X1 = X2 /\ Near(P, regs[16], Rise(Param, X1, Y1, X2, Y2)) /\ regs[16] \in Int
    BY <1>1, <1>2, <1>10 DEF Path, Fraction, Near
  <2>4. LoopValue(P, Goal(P, Run(X1, Y1, X2)), FALSE, 7, regs[8], regs[20], regs[21])
    BY <1>2, <1>10 DEF Inversion
  <2>5. regs[8] \in Int
    BY RegistersExist, RegistersAreWords
  <2>6. Near(P, Rem(Mul(regs[16], regs[8]), P), Slope(P, Param, <<X1, Y1>>, <<X2, Y2>>))
    BY <1>1, <2>3, <2>4, <2>5, SlopeFound
  <2>7. Near(P, regs'[7], Gradient)
    BY <2>2, <2>6 DEF Gradient
  <2>8. Fraction(P, Param, X1, Y1, X2, Y2, pc', regs')
    BY <1>2, <1>10, <2>2, <2>7 DEF Fraction
  <2>9. Inversion(P, Run(X1, Y1, X2), pc', regs')
    BY <1>2, <1>10, <2>2, <2>7 DEF Inversion
  <2>10. Line(P, Gradient, X1, Y1, X2, pc', regs')
    BY <1>2, <1>10, <2>2, <2>7 DEF Line
  <2>11. QED
    BY <1>10, <2>2, <2>7, <2>8, <2>9, <2>10
<1>11. pc = 43 \/ pc = 44 \/ pc = 45 \/ pc = 46 \/ pc = 47 \/ pc = 48 \/ pc = 49 \/ pc = 50
  OBVIOUS
<1>12. QED
  BY <1>3, <1>4, <1>5, <1>6, <1>7, <1>8, <1>9, <1>10, <1>11

\* The line: its ordinate at zero, and the terms of the third point.
LEMMA LineKeepsValue ==
  ASSUME ProcessorTypeOK, Registers, Mapped, Value, Step(PAddProg), pc \in 51 .. 56
  PROVE  Value'
<1> SUFFICES ASSUME Sound
             PROVE  /\ Fraction(P, Param, X1, Y1, X2, Y2, pc', regs')
                    /\ Inversion(P, Run(X1, Y1, X2), pc', regs')
                    /\ Line(P, Gradient, X1, Y1, X2, pc', regs')
                    /\ pc' \in 63 .. 65 => <<regs'[8], regs'[9]>> \in Sums
  BY ValueFollows
<1>1. /\ FieldFits(P) /\ IsPrime(P) /\ P \in Word /\ P \in Int /\ P > 3
      /\ Param \in Word /\ Param \in Int /\ Param + P <= Half
      /\ X1 \in Int /\ Y1 \in Int /\ X2 \in Int /\ Y2 \in Int
      /\ Residue(P, X1, X1) /\ Residue(P, Y1, Y1) /\ Residue(P, X2, X2) /\ Residue(P, Y2, Y2)
      /\ Near(P, X1, X1) /\ Near(P, Y1, Y1) /\ Near(P, X2, X2) /\ Near(P, Y2, Y2)
      /\ Run(X1, Y1, X2) \in Int /\ Rise(Param, X1, Y1, X2, Y2) \in Int
      /\ ~Divides(P, Run(X1, Y1, X2)) /\ Gradient \in Int
  BY FieldFacts
<1>2. /\ InCall /\ pc \in Nat /\ Path /\ Temporaries
      /\ p = P /\ regs[0] = 0 /\ regs[1] = X1 /\ regs[2] = Y1 /\ regs[3] = X2 /\ regs[4] = Y2
      /\ regs[5] = P /\ regs[6] = Param /\ regs[12] = Zero
      /\ Fraction(P, Param, X1, Y1, X2, Y2, pc, regs)
      /\ Inversion(P, Run(X1, Y1, X2), pc, regs)
      /\ Line(P, Gradient, X1, Y1, X2, pc, regs)
  BY LoadedFacts
<1>3. CASE pc = 51
  <2>1. Wrote(13, Rem(Mul(regs[7], regs[1]), p))
    BY <1>2, <1>3, LineEffects
  <2>2. /\ regs'[13] = Rem(Mul(regs[7], X1), P) /\ pc' = 52
        /\ regs'[7] = regs[7] /\ regs'[8] = regs[8] /\ regs'[14] = regs[14] /\ regs'[15] = regs[15]
        /\ regs'[16] = regs[16]
        /\ regs'[17] = regs[17] /\ regs'[18] = regs[18] /\ regs'[20] = regs[20] /\ regs'[21] = regs[21]
    BY RegistersExist, <1>2, <1>3, <2>1, AfterWrite
  <2>3. Near(P, regs[7], Gradient) /\ regs[7] \in Int
    BY <1>1, <1>2, <1>3 DEF Line, Near, Residue
  <2>4. Near(P, regs'[13], Gradient * X1)
    <3>1. Near(P, Rem(Mul(regs[7], X1), P), Gradient * X1)
      BY <1>1, <2>3, ProductHolds
    <3>2. QED
      BY <2>2, <3>1
  <2>5. Fraction(P, Param, X1, Y1, X2, Y2, pc', regs')
    BY <1>2, <1>3, <2>2, <2>4 DEF Fraction
  <2>6. Inversion(P, Run(X1, Y1, X2), pc', regs')
    BY <1>2, <1>3, <2>2, <2>4 DEF Inversion
  <2>7. Line(P, Gradient, X1, Y1, X2, pc', regs')
    BY <1>2, <1>3, <2>2, <2>4 DEF Line
  <2>8. QED
    BY <1>3, <2>2, <2>4, <2>5, <2>6, <2>7
<1>4. CASE pc = 52
  <2>1. Wrote(17, Rem(Add(regs[2], regs[5]), p))
    BY <1>2, <1>4, LineEffects
  <2>2. /\ regs'[17] = Rem(Add(Y1, P), P) /\ pc' = 53
        /\ regs'[7] = regs[7] /\ regs'[8] = regs[8] /\ regs'[13] = regs[13] /\ regs'[14] = regs[14]
        /\ regs'[15] = regs[15]
        /\ regs'[16] = regs[16] /\ regs'[18] = regs[18] /\ regs'[20] = regs[20] /\ regs'[21] = regs[21]
    BY RegistersExist, <1>2, <1>4, <2>1, AfterWrite
  <2>3. Residue(P, regs'[17], Y1)
    BY <1>1, <2>2, PrimeHolds
  <2>4. Fraction(P, Param, X1, Y1, X2, Y2, pc', regs')
    BY <1>2, <1>4, <2>2, <2>3 DEF Fraction
  <2>5. Inversion(P, Run(X1, Y1, X2), pc', regs')
    BY <1>2, <1>4, <2>2, <2>3 DEF Inversion
  <2>6. Line(P, Gradient, X1, Y1, X2, pc', regs')
    BY <1>2, <1>4, <2>2, <2>3 DEF Line
  <2>7. QED
    BY <1>4, <2>2, <2>3, <2>4, <2>5, <2>6
<1>5. CASE pc = 53
  <2>1. Wrote(14, Rem(Sub(regs[17], regs[13]), p))
    BY <1>2, <1>5, LineEffects
  <2>2. /\ regs'[14] = Rem(Sub(regs[17], regs[13]), P) /\ pc' = 54
        /\ regs'[7] = regs[7] /\ regs'[8] = regs[8] /\ regs'[13] = regs[13] /\ regs'[15] = regs[15]
        /\ regs'[16] = regs[16]
        /\ regs'[17] = regs[17] /\ regs'[18] = regs[18] /\ regs'[20] = regs[20] /\ regs'[21] = regs[21]
    BY RegistersExist, <1>2, <1>5, <2>1, AfterWrite
  <2>3. Near(P, regs[13], Gradient * X1) /\ regs[13] \in Int /\ Residue(P, regs[17], Y1) /\ regs[17] \in Int
    BY <1>1, <1>2, <1>5 DEF Line, Near, Residue
  <2>4. Near(P, regs[17], Y1)
    BY <1>1, <2>3, ResidueIsNear
  <2>5. Near(P, regs'[14], Y1 - Gradient * X1)
    <3> DEFINE t == Gradient * X1
    <3>1. t \in Int /\ Near(P, regs[13], t)
      BY <1>1, <2>3, ProductIsInt
    <3> HIDE DEF t
    <3>2. Near(P, Rem(Sub(regs[17], regs[13]), P), Y1 - t)
      BY <1>1, <2>3, <2>4, <3>1, DifferenceHolds
    <3>3. QED
      BY <2>2, <3>2 DEF t
  <2>6. Fraction(P, Param, X1, Y1, X2, Y2, pc', regs')
    BY <1>2, <1>5, <2>2, <2>5 DEF Fraction
  <2>7. Inversion(P, Run(X1, Y1, X2), pc', regs')
    BY <1>2, <1>5, <2>2, <2>5 DEF Inversion
  <2>8. Line(P, Gradient, X1, Y1, X2, pc', regs')
    BY <1>2, <1>5, <2>2, <2>5 DEF Line
  <2>9. QED
    BY <1>5, <2>2, <2>5, <2>6, <2>7, <2>8
<1>6. CASE pc = 54
  <2>1. Wrote(15, Rem(Mul(regs[7], regs[7]), p))
    BY <1>2, <1>6, LineEffects
  <2>2. /\ regs'[15] = Rem(Mul(regs[7], regs[7]), P) /\ pc' = 55
        /\ regs'[7] = regs[7] /\ regs'[8] = regs[8] /\ regs'[13] = regs[13] /\ regs'[14] = regs[14]
        /\ regs'[16] = regs[16]
        /\ regs'[17] = regs[17] /\ regs'[18] = regs[18] /\ regs'[20] = regs[20] /\ regs'[21] = regs[21]
    BY RegistersExist, <1>2, <1>6, <2>1, AfterWrite
  <2>3. Near(P, regs[7], Gradient) /\ regs[7] \in Int
    BY <1>1, <1>2, <1>6 DEF Line, Near, Residue
  <2>4. Residue(P, regs'[15], Gradient * Gradient)
    BY <1>1, <2>2, <2>3, SquareHolds
  <2>5. Fraction(P, Param, X1, Y1, X2, Y2, pc', regs')
    BY <1>2, <1>6, <2>2, <2>4 DEF Fraction
  <2>6. Inversion(P, Run(X1, Y1, X2), pc', regs')
    BY <1>2, <1>6, <2>2, <2>4 DEF Inversion
  <2>7. Line(P, Gradient, X1, Y1, X2, pc', regs')
    BY <1>2, <1>6, <2>2, <2>4 DEF Line
  <2>8. QED
    BY <1>6, <2>2, <2>4, <2>5, <2>6, <2>7
<1>7. CASE pc = 55
  <2>1. Wrote(16, Rem(Sub(regs[5], regs[1]), p))
    BY <1>2, <1>7, LineEffects
  <2>2. /\ regs'[16] = Rem(Sub(P, X1), P) /\ pc' = 56
        /\ regs'[7] = regs[7] /\ regs'[8] = regs[8] /\ regs'[13] = regs[13] /\ regs'[14] = regs[14]
        /\ regs'[15] = regs[15]
        /\ regs'[17] = regs[17] /\ regs'[18] = regs[18] /\ regs'[20] = regs[20] /\ regs'[21] = regs[21]
    BY RegistersExist, <1>2, <1>7, <2>1, AfterWrite
  <2>3. Residue(P, regs'[16], -X1)
    BY <1>1, <2>2, PrimeHolds
  <2>4. Fraction(P, Param, X1, Y1, X2, Y2, pc', regs')
    BY <1>2, <1>7, <2>2, <2>3 DEF Fraction
  <2>5. Inversion(P, Run(X1, Y1, X2), pc', regs')
    BY <1>2, <1>7, <2>2, <2>3 DEF Inversion
  <2>6. Line(P, Gradient, X1, Y1, X2, pc', regs')
    BY <1>2, <1>7, <2>2, <2>3 DEF Line
  <2>7. QED
    BY <1>7, <2>2, <2>3, <2>4, <2>5, <2>6
<1>8. CASE pc = 56
  <2>1. Wrote(17, Rem(Sub(regs[5], regs[3]), p))
    BY <1>2, <1>8, LineEffects
  <2>2. /\ regs'[17] = Rem(Sub(P, X2), P) /\ pc' = 57
        /\ regs'[7] = regs[7] /\ regs'[8] = regs[8] /\ regs'[13] = regs[13] /\ regs'[14] = regs[14]
        /\ regs'[15] = regs[15]
        /\ regs'[16] = regs[16] /\ regs'[18] = regs[18] /\ regs'[20] = regs[20] /\ regs'[21] = regs[21]
    BY RegistersExist, <1>2, <1>8, <2>1, AfterWrite
  <2>3. Residue(P, regs'[17], -X2)
    BY <1>1, <2>2, PrimeHolds
  <2>4. Fraction(P, Param, X1, Y1, X2, Y2, pc', regs')
    BY <1>2, <1>8, <2>2, <2>3 DEF Fraction
  <2>5. Inversion(P, Run(X1, Y1, X2), pc', regs')
    BY <1>2, <1>8, <2>2, <2>3 DEF Inversion
  <2>6. Line(P, Gradient, X1, Y1, X2, pc', regs')
    BY <1>2, <1>8, <2>2, <2>3 DEF Line
  <2>7. QED
    BY <1>8, <2>2, <2>3, <2>4, <2>5, <2>6
<1>9. pc = 51 \/ pc = 52 \/ pc = 53 \/ pc = 54 \/ pc = 55 \/ pc = 56
  OBVIOUS
<1>10. QED
  BY <1>3, <1>4, <1>5, <1>6, <1>7, <1>8, <1>9

\* Where a slope was asked for, the sum is the third point of the line.
LEMMA ThirdPointFound ==
  ASSUME ProcessorTypeOK, Registers, InCall, Sound, pc = 62,
         NEW u \in Int, Residue(P, u, Gradient * Gradient - X1 - X2),
         NEW v \in Int, Residue(P, v, Gradient * (X1 - u) - Y1), Gradient \in Int
  PROVE  <<u, v>> \in Sums
<1>1. /\ IsPrime(P) /\ P \in Int /\ P > 3 /\ P \in Nat \ {0} /\ Zero = -1
      /\ X1 \in Int /\ X2 \in Int /\ Y1 \in Int /\ Y2 \in Int
  BY SoundMeans, MemoryIsWords DEF FieldFits
<1>2. /\ X1 \in 0 .. P - 1 /\ Y1 \in 0 .. P - 1 /\ X2 \in 0 .. P - 1 /\ Y2 \in 0 .. P - 1
      /\ ~Divides(P, Run(X1, Y1, X2))
  BY GroundFacts DEF OnIt
<1>3. X1 # X2 \/ Y1 = Y2
  BY DEF Registers, Path
<1>4. ~(X1 = X2 /\ (Y1 + Y2) % P = 0)
  <2> SUFFICES ASSUME X1 = X2 PROVE (Y1 + Y2) % P # 0
    OBVIOUS
  <2> DEFINE c == Y1 + Y2
  <2>1. c = Run(X1, Y1, X2) /\ c \in Int
    BY <1>1, <1>3 DEF Run
  <2> HIDE DEF c
  <2>2. c % P # 0
    BY <1>1, <1>2, <2>1, DividesIsZero
  <2>3. QED
    BY <2>2 DEF c
<1>5. ~Abstract!IsZero(<<X1, Y1>>, Zero) /\ ~Abstract!IsZero(<<X2, Y2>>, Zero)
  BY <1>1, <1>2 DEF Abstract!IsZero
<1>6. Abstract!Slope(P, Param, <<X1, Y1>>, <<X2, Y2>>) = Gradient
  BY DEF Abstract!Slope, Gradient, Slope
<1>7. Sums = {Abstract!ThirdPoint(P, Gradient, <<X1, Y1>>, <<X2, Y2>>)}
  BY <1>4, <1>5, <1>6 DEF Sums, Abstract!Sums
<1>8. u = (Gradient * Gradient - X1 - X2) % P
  <2> DEFINE t == Gradient * Gradient
             c == t - X1 - X2
  <2>1. t \in Int
    BY ProductIsInt
  <2> HIDE DEF t
  <2>2. c \in Int /\ Residue(P, u, c)
    BY <1>1, <2>1 DEF t
  <2> HIDE DEF c
  <2>3. u = c % P
    BY <1>1, <2>2, ResidueIsRemainder
  <2>4. QED
    BY <2>3 DEF c, t
<1>9. v = (Gradient * (X1 - u) - Y1) % P
  <2> DEFINE d == X1 - u
             t == Gradient * d
             c == t - Y1
  <2>1. d \in Int
    BY <1>1
  <2>2. t \in Int
    <3> HIDE DEF d
    <3>1. QED
      BY <2>1, ProductIsInt
  <2> HIDE DEF t
  <2>3. c \in Int /\ Residue(P, v, c)
    BY <1>1, <2>2 DEF t
  <2> HIDE DEF c
  <2>4. v = c % P
    BY <1>1, <2>3, ResidueIsRemainder
  <2>5. QED
    BY <2>4 DEF c, t
<1>10. Abstract!ThirdPoint(P, Gradient, <<X1, Y1>>, <<X2, Y2>>) = <<u, v>>
  BY <1>8, <1>9 DEF Abstract!ThirdPoint
<1>11. QED
  BY <1>7, <1>10

\* The third point: its x from the square of the slope, its y from the line.
LEMMA SumKeepsValue ==
  ASSUME ProcessorTypeOK, Registers, Mapped, Value, Step(PAddProg), pc \in 57 .. 62
  PROVE  Value'
<1> SUFFICES ASSUME Sound
             PROVE  /\ Fraction(P, Param, X1, Y1, X2, Y2, pc', regs')
                    /\ Inversion(P, Run(X1, Y1, X2), pc', regs')
                    /\ Line(P, Gradient, X1, Y1, X2, pc', regs')
                    /\ pc' \in 63 .. 65 => <<regs'[8], regs'[9]>> \in Sums
  BY ValueFollows
<1>1. /\ FieldFits(P) /\ IsPrime(P) /\ P \in Word /\ P \in Int /\ P > 3
      /\ Param \in Word /\ Param \in Int /\ Param + P <= Half
      /\ X1 \in Int /\ Y1 \in Int /\ X2 \in Int /\ Y2 \in Int
      /\ Residue(P, X1, X1) /\ Residue(P, Y1, Y1) /\ Residue(P, X2, X2) /\ Residue(P, Y2, Y2)
      /\ Near(P, X1, X1) /\ Near(P, Y1, Y1) /\ Near(P, X2, X2) /\ Near(P, Y2, Y2)
      /\ Run(X1, Y1, X2) \in Int /\ Rise(Param, X1, Y1, X2, Y2) \in Int
      /\ ~Divides(P, Run(X1, Y1, X2)) /\ Gradient \in Int
  BY FieldFacts
<1>2. /\ InCall /\ pc \in Nat /\ Path /\ Temporaries
      /\ p = P /\ regs[0] = 0 /\ regs[1] = X1 /\ regs[2] = Y1 /\ regs[3] = X2 /\ regs[4] = Y2
      /\ regs[5] = P /\ regs[6] = Param /\ regs[12] = Zero
      /\ Fraction(P, Param, X1, Y1, X2, Y2, pc, regs)
      /\ Inversion(P, Run(X1, Y1, X2), pc, regs)
      /\ Line(P, Gradient, X1, Y1, X2, pc, regs)
  BY LoadedFacts
<1>3. CASE pc = 57
  <2>1. Wrote(18, Rem(Add(regs[16], regs[17]), p))
    BY <1>2, <1>3, SumEffects
  <2>2. /\ regs'[18] = Rem(Add(regs[16], regs[17]), P) /\ pc' = 58
        /\ regs'[7] = regs[7] /\ regs'[8] = regs[8] /\ regs'[13] = regs[13] /\ regs'[14] = regs[14]
        /\ regs'[15] = regs[15]
        /\ regs'[16] = regs[16] /\ regs'[17] = regs[17] /\ regs'[20] = regs[20] /\ regs'[21] = regs[21]
    BY RegistersExist, <1>2, <1>3, <2>1, AfterWrite
  <2>3. Residue(P, regs[16], -X1) /\ Residue(P, regs[17], -X2) /\ regs[16] \in Int /\ regs[17] \in Int
    BY <1>1, <1>2, <1>3 DEF Line, Near, Residue
  <2>4. Residue(P, regs'[18], -X1 - X2)
    <3> DEFINE t == -X1
               u == -X2
    <3>1. t \in Int /\ u \in Int /\ Residue(P, regs[16], t) /\ Residue(P, regs[17], u) /\ t + u = -X1 - X2
      BY <1>1, <2>3
    <3> HIDE DEF t, u
    <3>2. Residue(P, Rem(Add(regs[16], regs[17]), P), t + u)
      BY <1>1, <2>3, <3>1, ResiduesHold
    <3>3. QED
      BY <2>2, <3>1, <3>2
  <2>5. Fraction(P, Param, X1, Y1, X2, Y2, pc', regs')
    BY <1>2, <1>3, <2>2, <2>4 DEF Fraction
  <2>6. Inversion(P, Run(X1, Y1, X2), pc', regs')
    BY <1>2, <1>3, <2>2, <2>4 DEF Inversion
  <2>7. Line(P, Gradient, X1, Y1, X2, pc', regs')
    BY <1>2, <1>3, <2>2, <2>4 DEF Line
  <2>8. QED
    BY <1>3, <2>2, <2>4, <2>5, <2>6, <2>7
<1>4. CASE pc = 58
  <2>1. Wrote(8, Rem(Add(regs[15], regs[18]), p))
    BY <1>2, <1>4, SumEffects
  <2>2. /\ regs'[8] = Rem(Add(regs[15], regs[18]), P) /\ pc' = 59
        /\ regs'[7] = regs[7] /\ regs'[13] = regs[13] /\ regs'[14] = regs[14]
        /\ regs'[15] = regs[15] /\ regs'[16] = regs[16]
        /\ regs'[17] = regs[17] /\ regs'[18] = regs[18] /\ regs'[20] = regs[20] /\ regs'[21] = regs[21]
    BY RegistersExist, <1>2, <1>4, <2>1, AfterWrite
  <2>3. Residue(P, regs[15], Gradient * Gradient) /\ Residue(P, regs[18], -X1 - X2) /\ regs[15] \in Int /\ regs[18] \in Int
    BY <1>1, <1>2, <1>4 DEF Line, Near, Residue
  <2>4. Residue(P, regs'[8], Gradient * Gradient - X1 - X2)
    <3> DEFINE t == Gradient * Gradient
               u == -X1 - X2
    <3>1. t \in Int
      BY <1>1, ProductIsInt
    <3>2. u \in Int /\ Residue(P, regs[15], t) /\ Residue(P, regs[18], u)
      BY <1>1, <2>3
    <3>3. t + u = t - X1 - X2
      <4> HIDE DEF t
      <4>1. QED
        BY <1>1, <3>1
    <3> HIDE DEF t, u
    <3>4. Residue(P, Rem(Add(regs[15], regs[18]), P), t + u)
      BY <1>1, <2>3, <3>1, <3>2, ResiduesHold
    <3>5. Residue(P, regs'[8], t - X1 - X2)
      BY <2>2, <3>3, <3>4
    <3>6. QED
      BY <3>5 DEF t
  <2>5. Fraction(P, Param, X1, Y1, X2, Y2, pc', regs')
    BY <1>2, <1>4, <2>2, <2>4 DEF Fraction
  <2>6. Inversion(P, Run(X1, Y1, X2), pc', regs')
    BY <1>2, <1>4, <2>2, <2>4 DEF Inversion
  <2>7. Line(P, Gradient, X1, Y1, X2, pc', regs')
    BY <1>2, <1>4, <2>2, <2>4 DEF Line
  <2>8. QED
    BY <1>4, <2>2, <2>4, <2>5, <2>6, <2>7
<1>5. CASE pc = 59
  <2>1. Wrote(13, Rem(Mul(regs[7], regs[8]), p))
    BY <1>2, <1>5, SumEffects
  <2>2. /\ regs'[13] = Rem(Mul(regs[7], regs[8]), P) /\ pc' = 60
        /\ regs'[7] = regs[7] /\ regs'[8] = regs[8] /\ regs'[14] = regs[14] /\ regs'[15] = regs[15]
        /\ regs'[16] = regs[16]
        /\ regs'[17] = regs[17] /\ regs'[18] = regs[18] /\ regs'[20] = regs[20] /\ regs'[21] = regs[21]
    BY RegistersExist, <1>2, <1>5, <2>1, AfterWrite
  <2>3. Near(P, regs[7], Gradient) /\ regs[7] \in Int /\ Residue(P, regs[8], Gradient * Gradient - X1 - X2) /\ regs[8] \in Int
    BY <1>1, <1>2, <1>5 DEF Line, Near, Residue
  <2>4. Near(P, regs'[13], Gradient * regs[8])
    <3>1. regs[8] \in 0 .. P - 1
      BY <1>1, <2>3 DEF Residue
    <3>2. Near(P, regs[8], regs[8])
      BY <1>1, <2>3, <3>1, OwnResidue, ResidueIsNear
    <3>3. Near(P, Rem(Mul(regs[7], regs[8]), P), Gradient * regs[8])
      BY <1>1, <2>3, <3>2, ProductHolds
    <3>4. QED
      BY <2>2, <3>3
  <2>5. Fraction(P, Param, X1, Y1, X2, Y2, pc', regs')
    BY <1>2, <1>5, <2>2, <2>4 DEF Fraction
  <2>6. Inversion(P, Run(X1, Y1, X2), pc', regs')
    BY <1>2, <1>5, <2>2, <2>4 DEF Inversion
  <2>7. Line(P, Gradient, X1, Y1, X2, pc', regs')
    BY <1>2, <1>5, <2>2, <2>4 DEF Line
  <2>8. QED
    BY <1>5, <2>2, <2>4, <2>5, <2>6, <2>7
<1>6. CASE pc = 60
  <2>1. Wrote(15, Rem(Sub(regs[5], regs[13]), p))
    BY <1>2, <1>6, SumEffects
  <2>2. /\ regs'[15] = Rem(Sub(P, regs[13]), P) /\ pc' = 61
        /\ regs'[7] = regs[7] /\ regs'[8] = regs[8] /\ regs'[13] = regs[13] /\ regs'[14] = regs[14]
        /\ regs'[16] = regs[16]
        /\ regs'[17] = regs[17] /\ regs'[18] = regs[18] /\ regs'[20] = regs[20] /\ regs'[21] = regs[21]
    BY RegistersExist, <1>2, <1>6, <2>1, AfterWrite
  <2>3. Near(P, regs[13], Gradient * regs[8]) /\ regs[13] \in Int /\ regs[8] \in Int
    BY <1>1, <1>2, <1>6 DEF Line, Near, Residue
  <2>4. Residue(P, regs'[15], -(Gradient * regs[8]))
    <3> DEFINE t == Gradient * regs[8]
    <3>1. t \in Int /\ Near(P, regs[13], t)
      BY <1>1, <2>3, ProductIsInt
    <3> HIDE DEF t
    <3>2. Residue(P, Rem(Sub(P, regs[13]), P), -t)
      BY <1>1, <2>3, <3>1, PrimeHolds
    <3>3. QED
      BY <2>2, <3>2 DEF t
  <2>5. Fraction(P, Param, X1, Y1, X2, Y2, pc', regs')
    BY <1>2, <1>6, <2>2, <2>4 DEF Fraction
  <2>6. Inversion(P, Run(X1, Y1, X2), pc', regs')
    BY <1>2, <1>6, <2>2, <2>4 DEF Inversion
  <2>7. Line(P, Gradient, X1, Y1, X2, pc', regs')
    BY <1>2, <1>6, <2>2, <2>4 DEF Line
  <2>8. QED
    BY <1>6, <2>2, <2>4, <2>5, <2>6, <2>7
<1>7. CASE pc = 61
  <2>1. Wrote(16, Rem(Sub(regs[5], regs[14]), p))
    BY <1>2, <1>7, SumEffects
  <2>2. /\ regs'[16] = Rem(Sub(P, regs[14]), P) /\ pc' = 62
        /\ regs'[7] = regs[7] /\ regs'[8] = regs[8] /\ regs'[13] = regs[13] /\ regs'[14] = regs[14]
        /\ regs'[15] = regs[15]
        /\ regs'[17] = regs[17] /\ regs'[18] = regs[18] /\ regs'[20] = regs[20] /\ regs'[21] = regs[21]
    BY RegistersExist, <1>2, <1>7, <2>1, AfterWrite
  <2>3. Near(P, regs[14], Y1 - Gradient * X1) /\ regs[14] \in Int
    BY <1>1, <1>2, <1>7 DEF Line, Near, Residue
  <2>4. Residue(P, regs'[16], Gradient * X1 - Y1)
    <3> DEFINE t == Gradient * X1
               u == Y1 - t
    <3>1. t \in Int
      BY <1>1, ProductIsInt
    <3>2. u \in Int /\ Near(P, regs[14], u)
      BY <1>1, <2>3, <3>1
    <3>3. -u = t - Y1
      <4> HIDE DEF t
      <4>1. QED
        BY <1>1, <3>1
    <3> HIDE DEF t, u
    <3>4. Residue(P, Rem(Sub(P, regs[14]), P), -u)
      BY <1>1, <2>3, <3>2, PrimeHolds
    <3>5. Residue(P, regs'[16], t - Y1)
      BY <2>2, <3>3, <3>4
    <3>6. QED
      BY <3>5 DEF t
  <2>5. Fraction(P, Param, X1, Y1, X2, Y2, pc', regs')
    BY <1>2, <1>7, <2>2, <2>4 DEF Fraction
  <2>6. Inversion(P, Run(X1, Y1, X2), pc', regs')
    BY <1>2, <1>7, <2>2, <2>4 DEF Inversion
  <2>7. Line(P, Gradient, X1, Y1, X2, pc', regs')
    BY <1>2, <1>7, <2>2, <2>4 DEF Line
  <2>8. QED
    BY <1>7, <2>2, <2>4, <2>5, <2>6, <2>7
<1>8. CASE pc = 62
  <2>1. Wrote(9, Rem(Add(regs[15], regs[16]), p))
    BY <1>2, <1>8, SumEffects
  <2>2. /\ regs'[9] = Rem(Add(regs[15], regs[16]), P) /\ pc' = 63
        /\ regs'[7] = regs[7] /\ regs'[8] = regs[8] /\ regs'[13] = regs[13] /\ regs'[14] = regs[14]
        /\ regs'[15] = regs[15]
        /\ regs'[16] = regs[16] /\ regs'[17] = regs[17] /\ regs'[18] = regs[18]
        /\ regs'[20] = regs[20] /\ regs'[21] = regs[21]
    BY RegistersExist, <1>2, <1>8, <2>1, AfterWrite
  <2>3. /\ Residue(P, regs[15], -(Gradient * regs[8]))
        /\ Residue(P, regs[16], Gradient * X1 - Y1)
        /\ regs[15] \in Int
        /\ regs[16] \in Int
        /\ Residue(P, regs[8], Gradient * Gradient - X1 - X2)
        /\ regs[8] \in Int
    BY <1>1, <1>2, <1>8 DEF Line, Near, Residue
  <2>4. Residue(P, regs'[9], Gradient * (X1 - regs[8]) - Y1)
    <3> DEFINE t == -(Gradient * regs[8])
               u == Gradient * X1 - Y1
    <3>1. t \in Int /\ u \in Int
      BY <1>1, <2>3, ProductIsInt
    <3>2. Residue(P, regs[15], t) /\ Residue(P, regs[16], u)
      BY <2>3
    <3>3. t + u = Gradient * (X1 - regs[8]) - Y1
      BY <1>1, <2>3
    <3> HIDE DEF t, u
    <3>4. Residue(P, Rem(Add(regs[15], regs[16]), P), t + u)
      BY <1>1, <2>3, <3>1, <3>2, ResiduesHold
    <3>5. QED
      BY <2>2, <3>3, <3>4
  <2>5. regs'[9] \in Int
    BY <2>4 DEF Residue
  <2>6. <<regs'[8], regs'[9]>> \in Sums
    BY <1>1, <1>2, <1>8, <2>2, <2>3, <2>4, <2>5, ThirdPointFound
  <2>7. Fraction(P, Param, X1, Y1, X2, Y2, pc', regs')
    BY <1>2, <1>8, <2>2, <2>6 DEF Fraction
  <2>8. Inversion(P, Run(X1, Y1, X2), pc', regs')
    BY <1>2, <1>8, <2>2, <2>6 DEF Inversion
  <2>9. Line(P, Gradient, X1, Y1, X2, pc', regs')
    BY <1>2, <1>8, <2>2, <2>6 DEF Line
  <2>10. QED
    BY <1>8, <2>2, <2>6, <2>7, <2>8, <2>9
<1>9. pc = 57 \/ pc = 58 \/ pc = 59 \/ pc = 60 \/ pc = 61 \/ pc = 62
  OBVIOUS
<1>10. QED
  BY <1>3, <1>4, <1>5, <1>6, <1>7, <1>8, <1>9

\* The result is stored as it is.
LEMMA StoreKeepsValue ==
  ASSUME ProcessorTypeOK, Registers, Mapped, Value, Step(PAddProg), pc \in 63 .. 64
  PROVE  Value'
<1> SUFFICES ASSUME Sound
             PROVE  /\ Fraction(P, Param, X1, Y1, X2, Y2, pc', regs')
                    /\ Inversion(P, Run(X1, Y1, X2), pc', regs')
                    /\ Line(P, Gradient, X1, Y1, X2, pc', regs')
                    /\ pc' \in 63 .. 65 => <<regs'[8], regs'[9]>> \in Sums
  BY ValueFollows
<1>1. /\ InCall /\ pc \in Nat /\ pc' = pc + 1 /\ regs' = regs
  <2>1. pc = 63 \/ pc = 64
    OBVIOUS
  <2>2. InCall /\ pc \in Nat
    BY StepInside
  <2>3. QED
    BY <2>1, <2>2, SumEffects DEF Stored
<1>2. <<regs[8], regs[9]>> \in Sums
  BY <1>1 DEF Value
<1>3. pc' = 64 \/ pc' = 65
  BY <1>1
<1>4. /\ Fraction(P, Param, X1, Y1, X2, Y2, pc', regs')
      /\ Inversion(P, Run(X1, Y1, X2), pc', regs')
      /\ Line(P, Gradient, X1, Y1, X2, pc', regs')
  BY <1>3, QuietPlaces
<1>5. QED
  BY <1>1, <1>2, <1>4

\* Each step of the program keeps what the registers stand for.
LEMMA ValueKept ==
  ASSUME ProcessorTypeOK, Registers, Mapped, Value, Step(PAddProg)
  PROVE  Value'
<1>1. pc \in 0 .. 8 \/ pc \in 9 .. 17 \/ pc \in 18 .. 24 \/ pc \in 25 .. 30 \/ pc \in 31 .. 38
      \/ pc \in 39 .. 42 \/ pc \in 43 .. 50 \/ pc \in 51 .. 56 \/ pc \in 57 .. 62 \/ pc \in 63 .. 64
  <2>1. pc \in 0 .. 64
    BY StepInside
  <2>2. QED
    BY <2>1
<1>2. QED
  BY <1>1, LoadKeepsValue, ZeroKeepsValue, ChordKeepsValue, CallKeepsValue, LoopKeepsValue,
     SameXKeepsValue, TangentKeepsValue, LineKeepsValue, SumKeepsValue, StoreKeepsValue

(***************************************************************************)
(* The invariant holds.                                                     *)
(***************************************************************************)
\* The inductive invariant.
KernelInvariant ==
  /\ ProcessorTypeOK
  /\ Mapped
  /\ Called
  /\ Registers
  /\ Value

\* The label pass of run_program maps the labels of the kernel, and no step forgets one.
LEMMA MappedKept ==
  ASSUME Mapped, RunProgram(PAddProg) \/ Step(PAddProg)
  PROVE  Mapped'
<1>1. CASE RunProgram(PAddProg)
  <2>1. labels' = LabelPass(PAddProg)
    BY <1>1 DEF RunProgram
  <2>2. ASSUME NEW l \in DOMAIN Places PROVE l \in DOMAIN labels' /\ labels'[l] = Places[l]
    <3>1. l \in LabelsOf(PAddProg) /\ LastAt(PAddProg, l) = Places[l]
      BY PlacesAreFound
    <3>2. QED
      BY <2>1, <3>1 DEF LabelPass
  <2>3. QED
    BY <2>2 DEF Mapped
<1>2. CASE Step(PAddProg)
  <2>1. status = "running" /\ Execute(Fetch(PAddProg))
    BY <1>2 DEF Step, Running
  <2>2. \A l \in DOMAIN labels : l \in DOMAIN labels' /\ labels'[l] = labels[l]
    BY <2>1, ExecuteKeepsLabels
  <2>3. QED
    BY <2>1, <2>2 DEF Mapped
<1>3. QED
  BY <1>1, <1>2

\* A step keeps the invariant of the registers, block by block.
LEMMA RegistersKept ==
  ASSUME ProcessorTypeOK, Registers, Mapped, Step(PAddProg)
  PROVE  Registers'
<1>1. pc \in 0 .. 8 \/ pc \in 9 .. 17 \/ pc \in 18 .. 24 \/ pc \in 25 .. 30 \/ pc \in 31 .. 38
      \/ pc \in 39 .. 42 \/ pc \in 43 .. 50 \/ pc \in 51 .. 56 \/ pc \in 57 .. 64
  <2>1. pc \in 0 .. 64
    BY StepInside
  <2>2. QED
    BY <2>1
<1>2. QED
  BY <1>1, LoadKept, ZeroKept, ChordKept, CallKept, LoopKept, SameXKept, TangentKept, LineKept, SumKept

\* The initial states satisfy the invariant, ...
LEMMA InitHolds == Init => KernelInvariant
<1> SUFFICES ASSUME Init PROVE KernelInvariant
  OBVIOUS
<1>1. status = "idle" /\ pc = 0 /\ labels = <<>>
  BY DEF Init, ProcessorInit
<1>2. ProcessorTypeOK
  <2>1. PICK m \in Boot : sram = m.sram /\ regs = m.regs /\ p = m.p
    BY DEF Init, ProcessorInit
  <2>2. sram \in [Addr -> Word] /\ regs \in [Reg -> Word] /\ p \in Word
    BY <2>1, BootAssumption
  <2>3. 0 \in Pc /\ DOMAIN labels = {}
    BY <1>1, PcAssumption DEF Pc
  <2>4. QED
    BY <1>1, <2>2, <2>3 DEF ProcessorTypeOK, Status
<1>3. QED
  BY <1>1, <1>2 DEF KernelInvariant, Mapped, Called, Registers, Value, InCall

\* The owner's stores are of words, to the first eight addresses.
LEMMA StoreFacts ==
  ASSUME ProcessorTypeOK, StoreInputs
  PROVE  /\ sram' \in [Addr -> Word] /\ Arguments' \in Inputs
<1>1. PICK in \in Inputs : sram' = [a \in Addr |-> IF a < 8 THEN in[a + 1] ELSE sram[a]]
  BY DEF StoreInputs
<1>2. in \in [1 .. 8 -> Word]
  BY <1>1, InputsAssumption
<1>3. sram \in [Addr -> Word] /\ \A a \in Addr : a \in Nat
  BY SizeAssumption DEF ProcessorTypeOK, Addr
<1>4. ASSUME NEW a \in Addr PROVE (IF a < 8 THEN in[a + 1] ELSE sram[a]) \in Word
  <2>1. CASE a < 8
    <3>1. a + 1 \in 1 .. 8
      BY <1>3, <2>1
    <3>2. QED
      BY <1>2, <2>1, <3>1
  <2>2. CASE ~(a < 8)
    BY <1>3, <2>2
  <2>3. QED
    BY <2>1, <2>2
<1>5. sram' \in [Addr -> Word]
  BY <1>1, <1>4
<1>6. ASSUME NEW k \in 1 .. 8 PROVE sram'[k - 1] = in[k]
  <2>1. k - 1 \in 0 .. 11 /\ k - 1 < 8 /\ (k - 1) + 1 = k
    OBVIOUS
  <2>2. k - 1 \in Addr
    BY <2>1, NamesFit
  <2> DEFINE a == k - 1
  <2>3. sram'[a] = IF a < 8 THEN in[a + 1] ELSE sram[a]
    BY <1>1, <2>2
  <2>4. QED
    BY <2>1, <2>3
<1>7. Arguments' = in
  <2>1. Arguments' = [k \in 1 .. 8 |-> in[k]]
    BY <1>6 DEF Arguments
  <2>2. QED
    BY <1>2, <2>1
<1>8. QED
  BY <1>1, <1>5, <1>7

\* ... and each step keeps it.
LEMMA NextKeeps == KernelInvariant /\ [Next]_vars => KernelInvariant'
<1> SUFFICES ASSUME KernelInvariant, [Next]_vars PROVE KernelInvariant'
  OBVIOUS
<1>1. ProcessorTypeOK /\ Mapped /\ Called /\ Registers /\ Value
  BY DEF KernelInvariant
<1>2. CASE StoreInputs
  <2>1. ProcessorTypeOK'
    BY <1>1, <1>2, StoreFacts DEF StoreInputs, ProcessorTypeOK, Status
  <2>2. status' = "idle"
    BY <1>2 DEF StoreInputs
  <2>3. QED
    BY <2>1, <2>2 DEF KernelInvariant, Mapped, Called, Registers, Value, InCall
<1>3. CASE Call
  <2>1. RunProgram(PAddProg) /\ Arguments \in Inputs
    BY <1>3 DEF Call
  <2>2. ProcessorTypeOK' /\ Mapped'
    BY <1>1, <2>1, ProgIsAddressable, RunTyped, MappedKept
  <2>3. /\ pc' = 0 /\ status' = "running" /\ Arguments' = Arguments
    BY <2>1 DEF RunProgram, Arguments
  <2>4. Called'
    BY <2>1, <2>3 DEF Called
  <2>5. Registers'
    BY <2>3 DEF Registers, Loaded, Path, Temporaries
  <2>6. Value'
    <3>1. Fraction(P', Param', X1', Y1', X2', Y2', 0, regs')
      BY DEF Fraction
    <3>2. Inversion(P', Run(X1', Y1', X2'), 0, regs')
      BY DEF Inversion
    <3>3. Line(P', Gradient', X1', Y1', X2', 0, regs')
      BY DEF Line
    <3>4. QED
      BY <2>3, <3>1, <3>2, <3>3 DEF Value
  <2>7. QED
    BY <2>2, <2>4, <2>5, <2>6 DEF KernelInvariant
<1>4. CASE Step(PAddProg)
  <2>1. ProcessorTypeOK' /\ Mapped' /\ Registers' /\ Value'
    BY <1>1, <1>4, ProgIsAddressable, RunTyped, MappedKept, RegistersKept, ValueKept
  <2>2. Arguments' = Arguments /\ InCall
    BY <1>1, <1>4, StepInside, ArgumentsKept
  <2>3. Called'
    BY <1>1, <2>2 DEF Called
  <2>4. QED
    BY <2>1, <2>3 DEF KernelInvariant
<1>5. CASE Trap(PAddProg)
  <2>1. ProcessorTypeOK' /\ status' = "crashed"
    BY <1>1, <1>5, ProgIsAddressable, RunTyped DEF Trap, Crash
  <2>2. QED
    BY <2>1 DEF KernelInvariant, Mapped, Called, Registers, Value, InCall
<1>6. CASE Finish(PAddProg)
  <2>1. /\ ProcessorTypeOK' /\ status = "running" /\ status' = "returned"
        /\ UNCHANGED <<sram, regs, p, pc, labels>>
        /\ pc >= 65
    BY <1>1, <1>6, ProgIsAddressable, RunTyped, ProgFacts DEF Finish
  <2>2. InCall /\ InCall' /\ pc = 65
    BY <1>1, <2>1 DEF InCall, Registers, Loaded
  <2>3. Called' /\ Mapped'
    BY <1>1, <2>1, <2>2 DEF Called, Mapped, Arguments
  <2>4. /\ P' = P /\ Param' = Param /\ Zero' = Zero /\ Arguments' = Arguments
        /\ X1' = X1 /\ Y1' = Y1 /\ X2' = X2 /\ Y2' = Y2
    BY <2>1 DEF P, Param, Zero, X1, Y1, X2, Y2, Arguments
  <2>5. Registers'
    <3>1. Loaded /\ Path /\ Temporaries
      BY <1>1, <2>2 DEF Registers
    <3>2. Loaded'
      BY <2>1, <2>2, <2>4, <3>1 DEF Loaded
    <3>3. Path'
      BY <2>1, <2>2, <3>1 DEF Path
    <3>4. Temporaries'
      BY <2>1, <2>2, <3>1 DEF Temporaries
    <3>5. QED
      BY <3>2, <3>3, <3>4 DEF Registers
  <2>6. Value'
    <3>1. (Sound' <=> Sound) /\ Gradient' = Gradient /\ Sums' = Sums
      BY <2>4 DEF Sound, Gradient, Sums
    <3>2. QED
      BY <1>1, <2>1, <2>2, <2>4, <3>1 DEF Value
  <2>7. QED
    BY <2>1, <2>3, <2>5, <2>6 DEF KernelInvariant
<1>7. CASE UNCHANGED vars
  <2>1. UNCHANGED <<sram, regs, p, pc, labels, status>>
    BY <1>7 DEF vars, procVars
  <2>2. /\ P' = P /\ Param' = Param /\ Zero' = Zero /\ Arguments' = Arguments
        /\ X1' = X1 /\ Y1' = Y1 /\ X2' = X2 /\ Y2' = Y2 /\ InCall' = InCall
    BY <2>1 DEF P, Param, Zero, X1, Y1, X2, Y2, Arguments, InCall
  <2>3. ProcessorTypeOK' /\ Mapped' /\ Called'
    BY <1>1, <2>1, <2>2 DEF ProcessorTypeOK, Mapped, Called
  <2>4. Registers'
    <3>1. InCall => Loaded' /\ Path' /\ Temporaries'
      <4> SUFFICES ASSUME InCall PROVE Loaded' /\ Path' /\ Temporaries'
        OBVIOUS
      <4>1. Loaded /\ Path /\ Temporaries
        BY <1>1 DEF Registers
      <4>2. Loaded'
        BY <2>1, <2>2, <4>1 DEF Loaded
      <4>3. Path'
        BY <2>1, <2>2, <4>1 DEF Path
      <4>4. Temporaries'
        BY <2>1, <2>2, <4>1 DEF Temporaries
      <4>5. QED
        BY <4>2, <4>3, <4>4
    <3>2. QED
      BY <2>2, <3>1 DEF Registers
  <2>5. Value'
    <3>1. (Sound' <=> Sound) /\ Gradient' = Gradient /\ Sums' = Sums
      BY <2>2 DEF Sound, Gradient, Sums
    <3>2. QED
      BY <1>1, <2>1, <2>2, <3>1 DEF Value
  <2>6. QED
    BY <2>3, <2>4, <2>5 DEF KernelInvariant
<1>8. QED
  BY <1>2, <1>3, <1>4, <1>5, <1>6, <1>7 DEF Next, RunStep

\* The inductive invariant of the kernel holds in every reachable state.
THEOREM Invariance == Spec => []KernelInvariant
<1>1. QED
  BY InitHolds, NextKeeps, PTL DEF Spec

\* Every member of the Processor keeps its C++ type through the kernel.
THEOREM TypeCorrect == Spec => []ProcessorTypeOK
<1>1. KernelInvariant => ProcessorTypeOK
  BY DEF KernelInvariant
<1>2. QED
  BY Invariance, <1>1, PTL

(***************************************************************************)
(* The answer.                                                              *)
(***************************************************************************)
\* The inputs for which the word is wide enough: MULP multiplies before it
\* reduces (processor.cc:139-147), and the curve's parameter is added to a
\* residue as the owner gave it (padd.h:326-331).
InputsFit ==
  \A in \in Inputs :
    Abstract!WellPosed(in) => (in[1] - 1) * (in[1] - 1) < Half /\ in[2] + in[1] <= Half

\* A call about well-posed inputs is one whose products fit.
LEMMA SoundCalls ==
  ASSUME InputsFit, Called, InCall, Abstract!WellPosed(Arguments)
  PROVE  Sound
<1> DEFINE in == Arguments
<1>1. in \in Inputs /\ Abstract!WellPosed(in) /\ in[1] = P /\ in[2] = Param
  BY ArgumentsAre DEF Called
<1> HIDE DEF in
<1>2. (P - 1) * (P - 1) < Half /\ Param + P <= Half
  BY <1>1 DEF InputsFit
<1>3. QED
  BY <1>2 DEF Sound

\* For every prime whose square fits a word: the subroutine, called from the
\* chord or the tangent, comes back to the one that called it, with an inverse
\* of the denominator, and the numerator is as it was.
THEOREM CallersAreKept ==
  ASSUME InputsFit
  PROVE  Spec => []CallerStateKept
<1>1. KernelInvariant => CallerStateKept
  <2> SUFFICES ASSUME KernelInvariant, status = "running" PROVE CallerStateKept
    BY DEF CallerStateKept
  <2>1. ProcessorTypeOK /\ Registers /\ Called /\ Value /\ InCall /\ Loaded /\ Path
    BY DEF KernelInvariant, Registers, InCall
  <2>2. /\ pc >= 6 => regs[1] = X1
        /\ pc >= 7 => regs[2] = Y1
        /\ pc >= 8 => regs[3] = X2
        /\ pc >= 9 => regs[4] = Y2
        /\ pc >= 2 => regs[6] = Param
    BY <2>1 DEF Loaded
  <2>3. pc \in 25 .. 38 => regs[10] = IF regs[1] # regs[3] THEN 22 ELSE 49
    BY <2>1, <2>2 DEF Path
  <2>4. ASSUME Abstract!WellPosed(Arguments), pc = 23 \/ pc = 50
        PROVE  /\ IsPrime(P) /\ FieldFits(P) /\ P \in Int /\ P \in Nat \ {0} /\ P > 3 /\ Param \in Int
               /\ X1 \in Int /\ Y1 \in Int /\ X2 \in Int /\ Y2 \in Int
               /\ Run(X1, Y1, X2) \in Int
               /\ \A r \in Reg : regs[r] \in Int
               /\ (Run(X1, Y1, X2) * regs[8]) % P = 1
               /\ Fraction(P, Param, X1, Y1, X2, Y2, pc, regs)
    <3>1. Sound /\ InCall /\ pc \in 17 .. 62
      BY <2>1, <2>4, SoundCalls
    <3>2. /\ IsPrime(P) /\ FieldFits(P) /\ P \in Int /\ P > 3 /\ Param \in Int
          /\ X1 \in Int /\ Y1 \in Int /\ X2 \in Int /\ Y2 \in Int
          /\ \A r \in Reg : regs[r] \in Int
      BY <2>1, <3>1, SoundMeans, MemoryIsWords, RegistersAreWords DEF FieldFits
    <3> DEFINE d == Run(X1, Y1, X2)
               s == FALSE
    <3>3. d \in Int /\ P \in Nat \ {0} /\ regs[8] \in Int
      BY <3>2, RegistersExist DEF Run
    <3>4. ~Divides(P, d)
      BY <2>1, <2>4, <3>1, GroundFacts
    <3>5. /\ LoopValue(P, Goal(P, d), s, 7, regs[8], regs[20], regs[21])
          /\ Fraction(P, Param, X1, Y1, X2, Y2, pc, regs)
      BY <2>1, <2>4, <3>1 DEF Value, Inversion
    <3>6. (d * regs[8]) % P = 1
      <4> HIDE DEF d
      <4>1. QED
        BY <3>2, <3>3, <3>4, <3>5, SubroutineEnds
    <3>7. QED
      BY <3>2, <3>3, <3>5, <3>6
  <2>5. ASSUME Abstract!WellPosed(Arguments), pc = 23
        PROVE  /\ regs[1] # regs[3]
               /\ (regs[8] * (regs[1] - regs[3])) % P = 1
               /\ (regs[14] - (regs[2] - regs[4])) % P = 0
    <3>1. X1 # X2 /\ regs[1] = X1 /\ regs[2] = Y1 /\ regs[3] = X2 /\ regs[4] = Y2
      BY <2>1, <2>2, <2>5 DEF Path
    <3>2. regs[8] \in Int /\ regs[14] \in Int /\ P \in Nat \ {0} /\ X1 \in Int /\ X2 \in Int /\ Y1 \in Int /\ Y2 \in Int
      BY <2>4, <2>5, RegistersExist
    <3>3. (Run(X1, Y1, X2) * regs[8]) % P = 1 /\ Near(P, regs[14], Rise(Param, X1, Y1, X2, Y2))
      BY <2>4, <2>5, <3>1 DEF Fraction
    <3>4. (X1 - X2) * regs[8] = regs[8] * (X1 - X2)
      BY <3>2
    <3>5. (regs[8] * (X1 - X2)) % P = 1
      BY <3>1, <3>3, <3>4 DEF Run
    <3> DEFINE t == Y1 - Y2
    <3>6. t \in Int /\ Same(P, regs[14], t)
      BY <3>1, <3>2, <3>3 DEF Near, Rise
    <3> HIDE DEF t
    <3>7. (regs[14] - t) % P = 0
      BY <3>2, <3>6, SameIsZero
    <3>8. QED
      BY <3>1, <3>5, <3>7 DEF t
  <2>6. ASSUME Abstract!WellPosed(Arguments), pc = 50
        PROVE  /\ regs[1] = regs[3] /\ regs[2] = regs[4]
               /\ (regs[8] * 2 * regs[2]) % P = 1
               /\ (regs[16] - (3 * regs[1] * regs[1] + regs[6])) % P = 0
    <3>1. /\ X1 = X2 /\ Y1 = Y2
          /\ regs[1] = X1 /\ regs[2] = Y1 /\ regs[3] = X2 /\ regs[4] = Y2 /\ regs[6] = Param
      BY <2>1, <2>2, <2>6 DEF Path
    <3>2. regs[8] \in Int /\ regs[16] \in Int /\ P \in Nat \ {0} /\ X1 \in Int /\ Y1 \in Int /\ Param \in Int
      BY <2>4, <2>6, RegistersExist
    <3>3. (Run(X1, Y1, X2) * regs[8]) % P = 1 /\ Near(P, regs[16], Rise(Param, X1, Y1, X2, Y2))
      BY <2>4, <2>6, <3>1 DEF Fraction
    <3>4. (2 * Y1) * regs[8] = regs[8] * 2 * Y1
      BY <3>2
    <3>5. (regs[8] * 2 * Y1) % P = 1
      BY <3>1, <3>3, <3>4 DEF Run
    <3> DEFINE t == 3 * X1 * X1 + Param
    <3>6. t \in Int /\ Same(P, regs[16], t)
      BY <3>1, <3>2, <3>3 DEF Near, Rise
    <3> HIDE DEF t
    <3>7. (regs[16] - t) % P = 0
      BY <3>2, <3>6, SameIsZero
    <3>8. QED
      BY <3>1, <3>5, <3>7 DEF t
  <2>7. QED
    BY <2>3, <2>5, <2>6 DEF CallerStateKept
<1>2. QED
  BY Invariance, <1>1, PTL

\* A call that is back has stored one of the pairs that stand for the sum.
LEMMA ResultIsSum ==
  ASSUME KernelInvariant, InCall, pc = 65, Sound
  PROVE  result \in Sums
<1>1. ProcessorTypeOK /\ Value /\ Temporaries
  BY DEF KernelInvariant, Registers
<1>2. result = <<regs[8], regs[9]>>
  BY <1>1 DEF Temporaries, result
<1>3. QED
  BY <1>1, <1>2 DEF Value

\* The pairs that stand for the sum of two points of a curve are zero or on that
\* curve.
LEMMA SumsOnCurve ==
  ASSUME ProcessorTypeOK, Sound, NEW pt \in Sums
  PROVE  IsZero(pt, Zero) \/ OnCurve(pt, P, Param, sram[B_ADDR])
<1> DEFINE n == P
           a == Param
           b == sram[B_ADDR]
           s == <<X1, Y1>>
           t == <<X2, Y2>>
<1>1. /\ IsPrime(n) /\ n \in Int /\ n > 3 /\ n \in Nat \ {0} /\ Zero = -1 /\ a \in Int /\ b \in Int
      /\ X1 \in Int /\ Y1 \in Int /\ X2 \in Int /\ Y2 \in Int
      /\ X1 = -1 \/ Y1 = -1 \/ OnIt(n, a, b, X1, Y1)
      /\ X2 = -1 \/ Y2 = -1 \/ OnIt(n, a, b, X2, Y2)
      /\ X1 # X2 \/ Y1 # Y2 \/ Y1 # 0
  BY SoundMeans, MemoryIsWords DEF FieldFits
<1>2. /\ Abstract!IsZero(s, Zero) <=> X1 = -1 \/ Y1 = -1
      /\ Abstract!IsZero(t, Zero) <=> X2 = -1 \/ Y2 = -1
      /\ IsZero(s, Zero) <=> X1 = -1 \/ Y1 = -1
      /\ IsZero(t, Zero) <=> X2 = -1 \/ Y2 = -1
  BY <1>1 DEF Abstract!IsZero, IsZero
<1>3. \A u, v \in Int : OnIt(n, a, b, u, v) => OnCurve(<<u, v>>, n, a, b)
  <2> SUFFICES ASSUME NEW u \in Int, NEW v \in Int, OnIt(n, a, b, u, v)
               PROVE  OnCurve(<<u, v>>, n, a, b)
    OBVIOUS
  <2>1. Abstract!OnCurve(<<u, v>>, n, a, b)
    BY <1>1, OnCurveMeans
  <2>2. QED
    BY <2>1 DEF Abstract!OnCurve, OnCurve
<1>4. Sums = IF Abstract!IsZero(s, Zero) THEN {t}
             ELSE IF Abstract!IsZero(t, Zero) THEN {s}
             ELSE IF X1 = X2 /\ (Y1 + Y2) % n = 0
                  THEN {q \in Word \X Word : Abstract!IsZero(q, Zero)}
             ELSE {Abstract!ThirdPoint(n, Abstract!Slope(n, a, s, t), s, t)}
  BY DEF Sums, Abstract!Sums
<1>5. CASE X1 = -1 \/ Y1 = -1
  <2>1. pt = t
    BY <1>2, <1>4, <1>5
  <2>2. QED
    BY <1>1, <1>2, <1>3, <2>1
<1>6. CASE ~(X1 = -1 \/ Y1 = -1) /\ (X2 = -1 \/ Y2 = -1)
  <2>1. pt = s
    BY <1>2, <1>4, <1>6
  <2>2. QED
    BY <1>1, <1>2, <1>3, <1>6, <2>1
<1>7. CASE ~(X1 = -1 \/ Y1 = -1) /\ ~(X2 = -1 \/ Y2 = -1) /\ X1 = X2 /\ (Y1 + Y2) % n = 0
  <2>1. Abstract!IsZero(pt, Zero)
    BY <1>2, <1>4, <1>7
  <2>2. QED
    BY <2>1 DEF Abstract!IsZero, IsZero
<1>8. CASE ~(X1 = -1 \/ Y1 = -1) /\ ~(X2 = -1 \/ Y2 = -1) /\ ~(X1 = X2 /\ (Y1 + Y2) % n = 0)
  <2>1. /\ X1 \in 0 .. n - 1 /\ Y1 \in 0 .. n - 1 /\ Divides(n, Off(a, b, X1, Y1))
        /\ X2 \in 0 .. n - 1 /\ Y2 \in 0 .. n - 1 /\ Divides(n, Off(a, b, X2, Y2))
    BY <1>1, <1>8 DEF OnIt
  <2>2. X1 = X2 => Y1 = Y2
    <3> SUFFICES ASSUME X1 = X2, Y1 # Y2 PROVE FALSE
      OBVIOUS
    <3>1. (Y1 + Y2) % n = 0
      BY <1>1, <2>1, OppositePoints
    <3>2. QED
      BY <1>8, <3>1
  <2>3. ~Divides(n, Run(X1, Y1, X2))
    <3>1. X1 # X2 \/ Y1 # 0
      BY <1>1, <2>2
    <3>2. QED
      BY <1>1, <2>1, <3>1, RunIsNoMultiple
  <2> DEFINE m == Slope(n, a, s, t)
             u == (m * m - X1 - X2) % n
             v == (m * (X1 - u) - Y1) % n
  <2>4. pt = <<u, v>>
    <3>1. pt = Abstract!ThirdPoint(n, Abstract!Slope(n, a, s, t), s, t)
      BY <1>2, <1>4, <1>8
    <3>2. Abstract!Slope(n, a, s, t) = m
      BY DEF Abstract!Slope, Slope
    <3> HIDE DEF m
    <3>3. Abstract!ThirdPoint(n, m, s, t) = <<u, v>>
      BY DEF Abstract!ThirdPoint
    <3>4. QED
      BY <3>1, <3>2, <3>3
  <2>5. m \in 0 .. n - 1 /\ Same(n, m * Run(X1, Y1, X2), Rise(a, X1, Y1, X2, Y2))
    BY <1>1, <2>3, SlopeSolves
  <2>6. m \in Int
    BY <1>1, <2>5
  <2> HIDE DEF m
  <2> DEFINE e == m * m
             f == e - X1 - X2
  <2>7. e \in Int
    BY <2>6, ProductIsInt
  <2>8. u \in 0 .. n - 1 /\ u \in Int /\ Same(n, u, m * m - X1 - X2)
    <3> HIDE DEF e
    <3>1. f \in Int
      BY <1>1, <2>7
    <3> DEFINE w == f % n
    <3> HIDE DEF f
    <3>2. w \in 0 .. n - 1 /\ Same(n, w, f)
      BY <1>1, <3>1, SameRemainder
    <3>3. w \in Int
      BY <3>2
    <3>4. u = w
      BY DEF f, e
    <3>5. QED
      BY <3>2, <3>3, <3>4 DEF f, e
  <2> HIDE DEF u
  <2> DEFINE d == X1 - u
             g == m * d
             h == g - Y1
  <2>9. v \in 0 .. n - 1 /\ v \in Int /\ Same(n, v, m * (X1 - u) - Y1)
    <3>1. d \in Int
      BY <1>1, <2>8
    <3>2. g \in Int
      <4> HIDE DEF d
      <4>1. QED
        BY <2>6, <3>1, ProductIsInt
    <3> HIDE DEF g
    <3>3. h \in Int
      BY <1>1, <3>2
    <3> DEFINE w == h % n
    <3> HIDE DEF h
    <3>4. w \in 0 .. n - 1 /\ Same(n, w, h)
      BY <1>1, <3>3, SameRemainder
    <3>5. w \in Int
      BY <3>4
    <3>6. v = w
      BY DEF h, g, d
    <3>7. QED
      BY <3>4, <3>5, <3>6 DEF h, g, d
  <2> HIDE DEF v
  <2>10. Divides(n, Off(a, b, u, v))
    BY <1>1, <2>1, <2>2, <2>3, <2>5, <2>6, <2>8, <2>9, LineMeetsCurve
  <2>11. OnIt(n, a, b, u, v)
    BY <2>8, <2>9, <2>10 DEF OnIt
  <2>12. QED
    BY <1>3, <2>4, <2>8, <2>9, <2>11
<1>9. QED
  BY <1>5, <1>6, <1>7, <1>8

\* For every curve whose prime's square fits a word: the sum of two of its points
\* that a call leaves is zero or a point of the curve.
THEOREM ResultsAreOnCurve ==
  ASSUME InputsFit
  PROVE  Spec => []ResultOnCurve
<1>1. KernelInvariant => ResultOnCurve
  <2> SUFFICES ASSUME KernelInvariant, status = "returned", Abstract!WellPosed(Arguments)
               PROVE  IsZero(result, Zero) \/ OnCurve(result, P, Param, sram[B_ADDR])
    BY DEF ResultOnCurve, Zero, Param
  <2>1. ProcessorTypeOK /\ Called /\ InCall /\ pc = 65
    BY DEF KernelInvariant, InCall, Registers, Loaded
  <2>2. Sound /\ result \in Sums
    BY <2>1, SoundCalls, ResultIsSum
  <2>3. QED
    BY <2>1, <2>2, SumsOnCurve
<1>2. QED
  BY Invariance, <1>1, PTL

(***************************************************************************)
(* The kernel implements the abstract addition.                             *)
(***************************************************************************)
\* Where an instruction may end the process: only the ADDP, SUBP and MULP divide
\* by what a caller chooses.
TrapsHere(i) ==
  /\ i = PAddProg[pc + 1]
  /\ Executable(i) => DivideTraps(i)
  /\ pc = 34 => regs[23] = 2

\* No load traps, ...
LEMMA LoadTraps ==
  ASSUME NEW i, TrapsHere(i), pc \in 0 .. 8
  PROVE  pc # 0 /\ p \in {0, -1}
<1>1. i = PAddProg[pc + 1] /\ (Executable(i) => DivideTraps(i)) /\ (pc = 34 => regs[23] = 2)
  BY DEF TrapsHere
<1>2. CASE pc = 0
  <2>1. Is(i, LoadPrime(P_ADDR))
    BY <1>1, <1>2, LoadListing, IsItself
  <2>2. Plain(i)
    BY <2>1 DEF Plain
  <2>3. QED
    BY <1>1, <2>2, OthersRun
<1>3. CASE pc = 1
  <2>1. Is(i, Load(A_ADDR, 6))
    BY <1>1, <1>3, LoadListing, IsItself
  <2>2. Plain(i)
    BY <2>1 DEF Plain
  <2>3. QED
    BY <1>1, <2>2, OthersRun
<1>4. CASE pc = 2
  <2>1. Is(i, Load(P_ADDR, 5))
    BY <1>1, <1>4, LoadListing, IsItself
  <2>2. Plain(i)
    BY <2>1 DEF Plain
  <2>3. QED
    BY <1>1, <2>2, OthersRun
<1>5. CASE pc = 3
  <2>1. Is(i, Load(Z_ADDR, 12))
    BY <1>1, <1>5, LoadListing, IsItself
  <2>2. Plain(i)
    BY <2>1 DEF Plain
  <2>3. QED
    BY <1>1, <2>2, OthersRun
<1>6. CASE pc = 4
  <2>1. Is(i, Set(0, 0))
    BY <1>1, <1>6, LoadListing, IsItself
  <2>2. Plain(i)
    BY <2>1 DEF Plain
  <2>3. QED
    BY <1>1, <2>2, OthersRun
<1>7. CASE pc = 5
  <2>1. Is(i, Load(X1_ADDR, 1))
    BY <1>1, <1>7, LoadListing, IsItself
  <2>2. Plain(i)
    BY <2>1 DEF Plain
  <2>3. QED
    BY <1>1, <2>2, OthersRun
<1>8. CASE pc = 6
  <2>1. Is(i, Load(Y1_ADDR, 2))
    BY <1>1, <1>8, LoadListing, IsItself
  <2>2. Plain(i)
    BY <2>1 DEF Plain
  <2>3. QED
    BY <1>1, <2>2, OthersRun
<1>9. CASE pc = 7
  <2>1. Is(i, Load(X2_ADDR, 3))
    BY <1>1, <1>9, LoadListing, IsItself
  <2>2. Plain(i)
    BY <2>1 DEF Plain
  <2>3. QED
    BY <1>1, <2>2, OthersRun
<1>10. CASE pc = 8
  <2>1. Is(i, Load(Y2_ADDR, 4))
    BY <1>1, <1>10, LoadListing, IsItself
  <2>2. Plain(i)
    BY <2>1 DEF Plain
  <2>3. QED
    BY <1>1, <2>2, OthersRun
<1>11. pc = 0 \/ pc = 1 \/ pc = 2 \/ pc = 3 \/ pc = 4 \/ pc = 5 \/ pc = 6 \/ pc = 7 \/ pc = 8
  OBVIOUS
<1>12. QED
  BY <1>2, <1>3, <1>4, <1>5, <1>6, <1>7, <1>8, <1>9, <1>10, <1>11

\* ... nor does a test for zero; ...
LEMMA ZeroTraps ==
  ASSUME NEW i, TrapsHere(i), pc \in 9 .. 17
  PROVE  pc # 0 /\ p \in {0, -1}
<1>1. i = PAddProg[pc + 1] /\ (Executable(i) => DivideTraps(i)) /\ (pc = 34 => regs[23] = 2)
  BY DEF TrapsHere
<1>2. CASE pc = 9
  <2>1. Is(i, Op2("OR", 1, 2, 13))
    BY <1>1, <1>2, ZeroListing, IsItself
  <2>2. QED
    BY <1>1, <1>2, <2>1, Op2Runs
<1>3. CASE pc = 10
  <2>1. Is(i, Op2("ADD", 3, 0, 8))
    BY <1>1, <1>3, ZeroListing, IsItself
  <2>2. QED
    BY <1>1, <1>3, <2>1, Op2Runs
<1>4. CASE pc = 11
  <2>1. Is(i, Op2("ADD", 4, 0, 9))
    BY <1>1, <1>4, ZeroListing, IsItself
  <2>2. QED
    BY <1>1, <1>4, <2>1, Op2Runs
<1>5. CASE pc = 12
  <2>1. Is(i, BranchEq(13, 12, "done"))
    BY <1>1, <1>5, ZeroListing, IsItself
  <2>2. Plain(i)
    BY <2>1 DEF Plain
  <2>3. QED
    BY <1>1, <2>2, OthersRun
<1>6. CASE pc = 13
  <2>1. Is(i, Op2("OR", 3, 4, 13))
    BY <1>1, <1>6, ZeroListing, IsItself
  <2>2. QED
    BY <1>1, <1>6, <2>1, Op2Runs
<1>7. CASE pc = 14
  <2>1. Is(i, Op2("ADD", 1, 0, 8))
    BY <1>1, <1>7, ZeroListing, IsItself
  <2>2. QED
    BY <1>1, <1>7, <2>1, Op2Runs
<1>8. CASE pc = 15
  <2>1. Is(i, Op2("ADD", 2, 0, 9))
    BY <1>1, <1>8, ZeroListing, IsItself
  <2>2. QED
    BY <1>1, <1>8, <2>1, Op2Runs
<1>9. CASE pc = 16
  <2>1. Is(i, BranchEq(13, 12, "done"))
    BY <1>1, <1>9, ZeroListing, IsItself
  <2>2. Plain(i)
    BY <2>1 DEF Plain
  <2>3. QED
    BY <1>1, <2>2, OthersRun
<1>10. CASE pc = 17
  <2>1. Is(i, BranchEq(1, 3, "xsame"))
    BY <1>1, <1>10, ZeroListing, IsItself
  <2>2. Plain(i)
    BY <2>1 DEF Plain
  <2>3. QED
    BY <1>1, <2>2, OthersRun
<1>11. pc = 9 \/ pc = 10 \/ pc = 11 \/ pc = 12 \/ pc = 13 \/ pc = 14 \/ pc = 15 \/ pc = 16 \/ pc = 17
  OBVIOUS
<1>12. QED
  BY <1>2, <1>3, <1>4, <1>5, <1>6, <1>7, <1>8, <1>9, <1>10, <1>11

\* ... the chord, ...
LEMMA ChordTraps ==
  ASSUME NEW i, TrapsHere(i), pc \in 18 .. 24
  PROVE  pc # 0 /\ p \in {0, -1}
<1>1. i = PAddProg[pc + 1] /\ (Executable(i) => DivideTraps(i)) /\ (pc = 34 => regs[23] = 2)
  BY DEF TrapsHere
<1>2. CASE pc = 18
  <2>1. Is(i, Op2("SUBP", 2, 4, 13))
    BY <1>1, <1>2, ChordListing, IsItself
  <2>2. QED
    BY <1>1, <1>2, <2>1, Op2Runs
<1>3. CASE pc = 19
  <2>1. Is(i, Op2("ADDP", 13, 5, 14))
    BY <1>1, <1>3, ChordListing, IsItself
  <2>2. QED
    BY <1>1, <1>3, <2>1, Op2Runs
<1>4. CASE pc = 20
  <2>1. Is(i, Op2("SUBP", 1, 3, 15))
    BY <1>1, <1>4, ChordListing, IsItself
  <2>2. QED
    BY <1>1, <1>4, <2>1, Op2Runs
<1>5. CASE pc = 21
  <2>1. Is(i, Op2("ADDP", 15, 5, 20))
    BY <1>1, <1>5, ChordListing, IsItself
  <2>2. QED
    BY <1>1, <1>5, <2>1, Op2Runs
<1>6. CASE pc = 22
  <2>1. Is(i, JumpLink("call_multinv", 10))
    BY <1>1, <1>6, ChordListing, IsItself
  <2>2. Plain(i)
    BY <2>1 DEF Plain
  <2>3. QED
    BY <1>1, <2>2, OthersRun
<1>7. CASE pc = 23
  <2>1. Is(i, Op2("MULP", 14, 8, 7))
    BY <1>1, <1>7, ChordListing, IsItself
  <2>2. QED
    BY <1>1, <1>7, <2>1, Op2Runs
<1>8. CASE pc = 24
  <2>1. Is(i, BranchEq(0, 0, "intersect"))
    BY <1>1, <1>8, ChordListing, IsItself
  <2>2. Plain(i)
    BY <2>1 DEF Plain
  <2>3. QED
    BY <1>1, <2>2, OthersRun
<1>9. pc = 18 \/ pc = 19 \/ pc = 20 \/ pc = 21 \/ pc = 22 \/ pc = 23 \/ pc = 24
  OBVIOUS
<1>10. QED
  BY <1>2, <1>3, <1>4, <1>5, <1>6, <1>7, <1>8, <1>9

\* No step from the dispatch on the points up to the call of the subroutine traps.
LEMMA CallTraps ==
  ASSUME NEW i, TrapsHere(i), pc \in 25 .. 30
  PROVE  pc # 0 /\ p \in {0, -1}
<1>1. i = PAddProg[pc + 1] /\ (Executable(i) => DivideTraps(i)) /\ (pc = 34 => regs[23] = 2)
  BY DEF TrapsHere
<1>2. CASE pc = 25
  <2>1. Is(i, Set(1, 8))
    BY <1>1, <1>2, CallListing, AtIs
  <2>2. Plain(i)
    BY <2>1 DEF Plain
  <2>3. QED
    BY <1>1, <2>2, OthersRun
<1>3. CASE pc = 26
  <2>1. Is(i, Set(1, 22))
    BY <1>1, <1>3, CallListing, IsItself
  <2>2. Plain(i)
    BY <2>1 DEF Plain
  <2>3. QED
    BY <1>1, <2>2, OthersRun
<1>4. CASE pc = 27
  <2>1. Is(i, BranchEq(20, 22, "mi_done"))
    BY <1>1, <1>4, CallListing, IsItself
  <2>2. Plain(i)
    BY <2>1 DEF Plain
  <2>3. QED
    BY <1>1, <2>2, OthersRun
<1>5. CASE pc = 28
  <2>1. Is(i, Set(2, 23))
    BY <1>1, <1>5, CallListing, IsItself
  <2>2. Plain(i)
    BY <2>1 DEF Plain
  <2>3. QED
    BY <1>1, <2>2, OthersRun
<1>6. CASE pc = 29
  <2>1. Is(i, Op2("SUB", 5, 23, 21))
    BY <1>1, <1>6, CallListing, IsItself
  <2>2. QED
    BY <1>1, <1>6, <2>1, Op2Runs
<1>7. CASE pc = 30
  <2>1. Is(i, BranchEq(21, 0, "mi_done"))
    BY <1>1, <1>7, CallListing, IsItself
  <2>2. Plain(i)
    BY <2>1 DEF Plain
  <2>3. QED
    BY <1>1, <2>2, OthersRun
<1>8. pc = 25 \/ pc = 26 \/ pc = 27 \/ pc = 28 \/ pc = 29 \/ pc = 30
  OBVIOUS
<1>9. QED
  BY <1>2, <1>3, <1>4, <1>5, <1>6, <1>7, <1>8

\* ... the loop, whose DIV is by two, ...
LEMMA LoopTraps ==
  ASSUME NEW i, TrapsHere(i), pc \in 31 .. 38
  PROVE  pc # 0 /\ p \in {0, -1}
<1>1. i = PAddProg[pc + 1] /\ (Executable(i) => DivideTraps(i)) /\ (pc = 34 => regs[23] = 2)
  BY DEF TrapsHere
<1>2. CASE pc = 31
  <2>1. Is(i, Op2("AND", 21, 22, 13))
    BY <1>1, <1>2, LoopListing, AtIs
  <2>2. QED
    BY <1>1, <1>2, <2>1, Op2Runs
<1>3. CASE pc = 32
  <2>1. Is(i, BranchEq(13, 0, "next"))
    BY <1>1, <1>3, LoopListing, IsItself
  <2>2. Plain(i)
    BY <2>1 DEF Plain
  <2>3. QED
    BY <1>1, <2>2, OthersRun
<1>4. CASE pc = 33
  <2>1. Is(i, Op2("MULP", 8, 20, 8))
    BY <1>1, <1>4, LoopListing, IsItself
  <2>2. QED
    BY <1>1, <1>4, <2>1, Op2Runs
<1>5. CASE pc = 34
  <2>1. Is(i, Op2("DIV", 21, 23, 21))
    BY <1>1, <1>5, LoopListing, AtIs
  <2>2. QED
    BY <1>1, <1>5, <2>1, Op2Runs DEF DivUndefined
<1>6. CASE pc = 35
  <2>1. Is(i, Op2("MULP", 20, 20, 20))
    BY <1>1, <1>6, LoopListing, IsItself
  <2>2. QED
    BY <1>1, <1>6, <2>1, Op2Runs
<1>7. CASE pc = 36
  <2>1. Is(i, BranchEq(21, 0, "mi_done"))
    BY <1>1, <1>7, LoopListing, IsItself
  <2>2. Plain(i)
    BY <2>1 DEF Plain
  <2>3. QED
    BY <1>1, <2>2, OthersRun
<1>8. CASE pc = 37
  <2>1. Is(i, BranchEq(0, 0, "while"))
    BY <1>1, <1>8, LoopListing, IsItself
  <2>2. Plain(i)
    BY <2>1 DEF Plain
  <2>3. QED
    BY <1>1, <2>2, OthersRun
<1>9. CASE pc = 38
  <2>1. Is(i, Return(10))
    BY <1>1, <1>9, LoopListing, AtIs
  <2>2. Plain(i)
    BY <2>1 DEF Plain
  <2>3. QED
    BY <1>1, <2>2, OthersRun
<1>10. pc = 31 \/ pc = 32 \/ pc = 33 \/ pc = 34 \/ pc = 35 \/ pc = 36 \/ pc = 37 \/ pc = 38
  OBVIOUS
<1>11. QED
  BY <1>2, <1>3, <1>4, <1>5, <1>6, <1>7, <1>8, <1>9, <1>10

\* No step that returns infinity, or leads to the tangent, traps.
LEMMA SameXTraps ==
  ASSUME NEW i, TrapsHere(i), pc \in 39 .. 42
  PROVE  pc # 0 /\ p \in {0, -1}
<1>1. i = PAddProg[pc + 1] /\ (Executable(i) => DivideTraps(i)) /\ (pc = 34 => regs[23] = 2)
  BY DEF TrapsHere
<1>2. CASE pc = 39
  <2>1. Is(i, BranchEq(2, 4, "ysame"))
    BY <1>1, <1>2, SameXListing, AtIs
  <2>2. Plain(i)
    BY <2>1 DEF Plain
  <2>3. QED
    BY <1>1, <2>2, OthersRun
<1>3. CASE pc = 40
  <2>1. Is(i, Op2("OR", 5, 5, 8))
    BY <1>1, <1>3, SameXListing, IsItself
  <2>2. QED
    BY <1>1, <1>3, <2>1, Op2Runs
<1>4. CASE pc = 41
  <2>1. Is(i, Op2("OR", 12, 12, 9))
    BY <1>1, <1>4, SameXListing, IsItself
  <2>2. QED
    BY <1>1, <1>4, <2>1, Op2Runs
<1>5. CASE pc = 42
  <2>1. Is(i, BranchEq(0, 0, "done"))
    BY <1>1, <1>5, SameXListing, IsItself
  <2>2. Plain(i)
    BY <2>1 DEF Plain
  <2>3. QED
    BY <1>1, <2>2, OthersRun
<1>6. pc = 39 \/ pc = 40 \/ pc = 41 \/ pc = 42
  OBVIOUS
<1>7. QED
  BY <1>2, <1>3, <1>4, <1>5, <1>6

\* ... the tangent, ...
LEMMA TangentTraps ==
  ASSUME NEW i, TrapsHere(i), pc \in 43 .. 50
  PROVE  pc # 0 /\ p \in {0, -1}
<1>1. i = PAddProg[pc + 1] /\ (Executable(i) => DivideTraps(i)) /\ (pc = 34 => regs[23] = 2)
  BY DEF TrapsHere
<1>2. CASE pc = 43
  <2>1. Is(i, Op2("MULP", 1, 1, 13))
    BY <1>1, <1>2, TangentListing, AtIs
  <2>2. QED
    BY <1>1, <1>2, <2>1, Op2Runs
<1>3. CASE pc = 44
  <2>1. Is(i, Set(3, 14))
    BY <1>1, <1>3, TangentListing, IsItself
  <2>2. Plain(i)
    BY <2>1 DEF Plain
  <2>3. QED
    BY <1>1, <2>2, OthersRun
<1>4. CASE pc = 45
  <2>1. Is(i, Op2("MULP", 13, 14, 15))
    BY <1>1, <1>4, TangentListing, IsItself
  <2>2. QED
    BY <1>1, <1>4, <2>1, Op2Runs
<1>5. CASE pc = 46
  <2>1. Is(i, Op2("ADDP", 15, 6, 16))
    BY <1>1, <1>5, TangentListing, IsItself
  <2>2. QED
    BY <1>1, <1>5, <2>1, Op2Runs
<1>6. CASE pc = 47
  <2>1. Is(i, Set(2, 14))
    BY <1>1, <1>6, TangentListing, IsItself
  <2>2. Plain(i)
    BY <2>1 DEF Plain
  <2>3. QED
    BY <1>1, <2>2, OthersRun
<1>7. CASE pc = 48
  <2>1. Is(i, Op2("MULP", 2, 14, 20))
    BY <1>1, <1>7, TangentListing, IsItself
  <2>2. QED
    BY <1>1, <1>7, <2>1, Op2Runs
<1>8. CASE pc = 49
  <2>1. Is(i, JumpLink("call_multinv", 10))
    BY <1>1, <1>8, TangentListing, IsItself
  <2>2. Plain(i)
    BY <2>1 DEF Plain
  <2>3. QED
    BY <1>1, <2>2, OthersRun
<1>9. CASE pc = 50
  <2>1. Is(i, Op2("MULP", 16, 8, 7))
    BY <1>1, <1>9, TangentListing, IsItself
  <2>2. QED
    BY <1>1, <1>9, <2>1, Op2Runs
<1>10. pc = 43 \/ pc = 44 \/ pc = 45 \/ pc = 46 \/ pc = 47 \/ pc = 48 \/ pc = 49 \/ pc = 50
  OBVIOUS
<1>11. QED
  BY <1>2, <1>3, <1>4, <1>5, <1>6, <1>7, <1>8, <1>9, <1>10

\* ... the line ...
LEMMA LineTraps ==
  ASSUME NEW i, TrapsHere(i), pc \in 51 .. 56
  PROVE  pc # 0 /\ p \in {0, -1}
<1>1. i = PAddProg[pc + 1] /\ (Executable(i) => DivideTraps(i)) /\ (pc = 34 => regs[23] = 2)
  BY DEF TrapsHere
<1>2. CASE pc = 51
  <2>1. Is(i, Op2("MULP", 7, 1, 13))
    BY <1>1, <1>2, LineListing, AtIs
  <2>2. QED
    BY <1>1, <1>2, <2>1, Op2Runs
<1>3. CASE pc = 52
  <2>1. Is(i, Op2("ADDP", 2, 5, 17))
    BY <1>1, <1>3, LineListing, IsItself
  <2>2. QED
    BY <1>1, <1>3, <2>1, Op2Runs
<1>4. CASE pc = 53
  <2>1. Is(i, Op2("SUBP", 17, 13, 14))
    BY <1>1, <1>4, LineListing, IsItself
  <2>2. QED
    BY <1>1, <1>4, <2>1, Op2Runs
<1>5. CASE pc = 54
  <2>1. Is(i, Op2("MULP", 7, 7, 15))
    BY <1>1, <1>5, LineListing, IsItself
  <2>2. QED
    BY <1>1, <1>5, <2>1, Op2Runs
<1>6. CASE pc = 55
  <2>1. Is(i, Op2("SUBP", 5, 1, 16))
    BY <1>1, <1>6, LineListing, IsItself
  <2>2. QED
    BY <1>1, <1>6, <2>1, Op2Runs
<1>7. CASE pc = 56
  <2>1. Is(i, Op2("SUBP", 5, 3, 17))
    BY <1>1, <1>7, LineListing, IsItself
  <2>2. QED
    BY <1>1, <1>7, <2>1, Op2Runs
<1>8. pc = 51 \/ pc = 52 \/ pc = 53 \/ pc = 54 \/ pc = 55 \/ pc = 56
  OBVIOUS
<1>9. QED
  BY <1>2, <1>3, <1>4, <1>5, <1>6, <1>7, <1>8

\* ... and the sum divide by the prime.
LEMMA SumTraps ==
  ASSUME NEW i, TrapsHere(i), pc \in 57 .. 64
  PROVE  pc # 0 /\ p \in {0, -1}
<1>1. i = PAddProg[pc + 1] /\ (Executable(i) => DivideTraps(i)) /\ (pc = 34 => regs[23] = 2)
  BY DEF TrapsHere
<1>2. CASE pc = 57
  <2>1. Is(i, Op2("ADDP", 16, 17, 18))
    BY <1>1, <1>2, SumListing, IsItself
  <2>2. QED
    BY <1>1, <1>2, <2>1, Op2Runs
<1>3. CASE pc = 58
  <2>1. Is(i, Op2("ADDP", 15, 18, 8))
    BY <1>1, <1>3, SumListing, IsItself
  <2>2. QED
    BY <1>1, <1>3, <2>1, Op2Runs
<1>4. CASE pc = 59
  <2>1. Is(i, Op2("MULP", 7, 8, 13))
    BY <1>1, <1>4, SumListing, IsItself
  <2>2. QED
    BY <1>1, <1>4, <2>1, Op2Runs
<1>5. CASE pc = 60
  <2>1. Is(i, Op2("SUBP", 5, 13, 15))
    BY <1>1, <1>5, SumListing, IsItself
  <2>2. QED
    BY <1>1, <1>5, <2>1, Op2Runs
<1>6. CASE pc = 61
  <2>1. Is(i, Op2("SUBP", 5, 14, 16))
    BY <1>1, <1>6, SumListing, IsItself
  <2>2. QED
    BY <1>1, <1>6, <2>1, Op2Runs
<1>7. CASE pc = 62
  <2>1. Is(i, Op2("ADDP", 15, 16, 9))
    BY <1>1, <1>7, SumListing, IsItself
  <2>2. QED
    BY <1>1, <1>7, <2>1, Op2Runs
<1>8. CASE pc = 63
  <2>1. Is(i, Store(8, OUT_ADDR1))
    BY <1>1, <1>8, SumListing, AtIs
  <2>2. Plain(i)
    BY <2>1 DEF Plain
  <2>3. QED
    BY <1>1, <2>2, OthersRun
<1>9. CASE pc = 64
  <2>1. Is(i, Store(9, OUT_ADDR2))
    BY <1>1, <1>9, SumListing, IsItself
  <2>2. Plain(i)
    BY <2>1 DEF Plain
  <2>3. QED
    BY <1>1, <2>2, OthersRun
<1>10. pc = 57 \/ pc = 58 \/ pc = 59 \/ pc = 60 \/ pc = 61 \/ pc = 62 \/ pc = 63 \/ pc = 64
  OBVIOUS
<1>11. QED
  BY <1>2, <1>3, <1>4, <1>5, <1>6, <1>7, <1>8, <1>9, <1>10

\* So a call ends early only on a modulus that a machine cannot divide by.
LEMMA TrapsOnModulus ==
  ASSUME KernelInvariant, Trap(PAddProg)
  PROVE  P \in {0, -1}
<1> DEFINE i == Fetch(PAddProg)
<1>1. /\ status = "running" /\ pc < 65 /\ i = PAddProg[pc + 1]
      /\ Executable(i) => DivideTraps(i)
      /\ InCall /\ Loaded /\ Temporaries
  BY ProgFacts DEF Trap, Running, Fetch, KernelInvariant, Registers, InCall
<1> HIDE DEF i
<1>2. pc \in 0 .. 64 /\ (pc >= 1 => p = P) /\ (pc = 34 => regs[23] = 2)
  BY <1>1 DEF Loaded, Temporaries
<1>3. TrapsHere(i)
  BY <1>1, <1>2 DEF TrapsHere
<1>4. pc \in 0 .. 8 \/ pc \in 9 .. 17 \/ pc \in 18 .. 24 \/ pc \in 25 .. 30 \/ pc \in 31 .. 38
      \/ pc \in 39 .. 42 \/ pc \in 43 .. 50 \/ pc \in 51 .. 56 \/ pc \in 57 .. 64
  BY <1>2
<1>5. pc # 0 /\ p \in {0, -1}
  BY <1>3, <1>4, LoadTraps, ZeroTraps, ChordTraps, CallTraps, LoopTraps, SameXTraps, TangentTraps,
     LineTraps, SumTraps
<1>6. QED
  BY <1>2, <1>5

\* Every step of the kernel is a step of the abstract addition, or none.
LEMMA StepImplements ==
  ASSUME InputsFit, KernelInvariant, [Next]_vars
  PROVE  [Abstract!Next]_(Abstract!vars)
<1>1. ProcessorTypeOK /\ Registers /\ Mapped
  BY DEF KernelInvariant
<1>2. CASE StoreInputs
  <2>1. Arguments' \in Inputs /\ status \in {"idle", "returned"} /\ status' = "idle"
    BY <1>1, <1>2, StoreFacts DEF StoreInputs
  <2>2. Abstract!Ask
    BY <2>1 DEF Abstract!Ask
  <2>3. QED
    BY <2>2 DEF Abstract!Next
<1>3. CASE Call
  <2>1. /\ status \in {"idle", "returned"} /\ status' = "running" /\ Arguments' = Arguments
    BY <1>3 DEF Call, RunProgram, Arguments
  <2>2. Abstract!Begin
    BY <2>1 DEF Abstract!Begin
  <2>3. QED
    BY <2>2 DEF Abstract!Next
<1>4. CASE Step(PAddProg)
  <2>1. status = "running" /\ status' = "running" /\ Arguments' = Arguments
    BY <1>1, <1>4, StepInside, ArgumentsKept
  <2>2. QED
    BY <2>1 DEF Abstract!vars
<1>5. CASE Trap(PAddProg)
  <2>1. P \in {0, -1} /\ status = "running" /\ status' = "crashed" /\ sram' = sram
    BY <1>5, TrapsOnModulus DEF Trap, Running, Crash
  <2>2. Arguments' = Arguments /\ Arguments[1] \in {0, -1}
    BY <2>1, ArgumentsAre DEF Arguments
  <2>3. Abstract!Trap
    BY <2>1, <2>2 DEF Abstract!Trap
  <2>4. QED
    BY <2>3 DEF Abstract!Next
<1>6. CASE Finish(PAddProg)
  <2>1. /\ status = "running" /\ status' = "returned" /\ sram' = sram
        /\ InCall /\ pc = 65
    <3>1. status = "running" /\ status' = "returned" /\ sram' = sram /\ pc >= 65 /\ InCall
      BY <1>6, ProgFacts DEF Finish, InCall
    <3>2. pc \in 0 .. 65
      BY <1>1, <3>1 DEF Registers, Loaded
    <3>3. QED
      BY <3>1, <3>2
  <2>2. Arguments' = Arguments /\ result' = result
    BY <2>1 DEF Arguments, result
  <2>3. result \in Word \X Word
    BY <1>1, AddressesExist DEF ProcessorTypeOK, result
  <2>4. Abstract!WellPosed(Arguments) =>
          result \in Abstract!Sums(Arguments[1], Arguments[2], Arguments[4],
                                   <<Arguments[5], Arguments[6]>>, <<Arguments[7], Arguments[8]>>)
    <3>1. Abstract!WellPosed(Arguments) => Sound
      BY <2>1, SoundCalls DEF KernelInvariant
    <3>2. Sound => result \in Sums
      BY <2>1, ResultIsSum
    <3>3. QED
      BY <3>1, <3>2, ArgumentsAre DEF Sums
  <2>5. result \in Abstract!Answers(Arguments)
    BY <2>3, <2>4 DEF Abstract!Answers
  <2>6. Abstract!Answer
    BY <2>1, <2>2, <2>5 DEF Abstract!Answer
  <2>7. QED
    BY <2>6 DEF Abstract!Next
<1>7. CASE UNCHANGED vars
  <2>1. status' = status /\ Arguments' = Arguments /\ result' = result
    BY <1>7 DEF vars, procVars, Arguments, result
  <2>2. QED
    BY <2>1 DEF Abstract!vars
<1>8. QED
  BY <1>2, <1>3, <1>4, <1>5, <1>6, <1>7 DEF Next, RunStep

\* For every word width, and all inputs whose prime's square fits a word, the
\* kernel does nothing that the abstract addition may not do: a call that comes
\* back has added the points, and only a modulus that a machine cannot divide by
\* ends one early.
THEOREM AdditionIsImplemented ==
  ASSUME InputsFit
  PROVE  Spec => Abstract!Init /\ [][Abstract!Next]_(Abstract!vars)
<1>1. Init => Abstract!Init
  <2> SUFFICES ASSUME Init PROVE Abstract!Init
    OBVIOUS
  <2>1. ProcessorTypeOK /\ status = "idle"
    BY InitHolds DEF KernelInvariant, Init, ProcessorInit
  <2>2. Arguments \in [1 .. 8 -> Word]
    <3>1. \A k \in 1 .. 8 : sram[k - 1] \in Word
      <4>1. \A k \in 1 .. 8 : k - 1 \in 0 .. 11
        OBVIOUS
      <4>2. \A k \in 1 .. 8 : k - 1 \in Addr
        BY <4>1, NamesFit
      <4>3. QED
        BY <2>1, <4>2 DEF ProcessorTypeOK
    <3>2. QED
      BY <3>1 DEF Arguments
  <2>3. QED
    BY <2>1, <2>2 DEF Abstract!Init
<1>2. KernelInvariant /\ [Next]_vars => [Abstract!Next]_(Abstract!vars)
  BY StepImplements
<1>3. QED
  BY Invariance, <1>1, <1>2, PTL DEF Spec
=============================================================================

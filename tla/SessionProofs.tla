--------------------------- MODULE SessionProofs ---------------------------
(***************************************************************************)
(* Theorems about an owner who runs both kernels on one Processor.  What is *)
(* proved of each kernel's calls holds of the calls of a session.           *)
(***************************************************************************)
EXTENDS Session, ProcessorProofs

InverseCall == INSTANCE MultInverseProofs WITH executed <- 0, Inputs <- InverseInputs
SumCall     == INSTANCE PAddProofs WITH stores <- 0, MaxStores <- 1, Inputs <- [1 .. 8 -> Word]

(***************************************************************************)
(* The kernels' own modules speak of the same machine and programs.         *)
(***************************************************************************)
LEMMA SameMachine ==
  /\ InverseCall!ProcessorTypeOK <=> ProcessorTypeOK
  /\ SumCall!ProcessorTypeOK <=> ProcessorTypeOK
  /\ \A q : /\ InverseCall!RunProgram(q) <=> RunProgram(q)
            /\ InverseCall!Step(q) <=> Step(q)
            /\ InverseCall!Trap(q) <=> Trap(q)
            /\ InverseCall!Finish(q) <=> Finish(q)
            /\ SumCall!RunProgram(q) <=> RunProgram(q)
            /\ SumCall!Step(q) <=> Step(q)
            /\ SumCall!Trap(q) <=> Trap(q)
            /\ SumCall!Finish(q) <=> Finish(q)
<1> USE DEF
      Half, Word, Wrap, Add, Sub, Mul, DivUndefined, Magnitude, Quot, Rem, Bit, BitsOf, WordWith,
      BitAnd, BitOr, BitXor, BitNot, Addr, Reg, NoLabel, AddrOf, RegOf, ValueOf, LabelOf,
      PcModulus, Pc, Status, ProcessorTypeOK, Target, Lookup, In, Advance, Exec_LDP, WriteReg,
      Exec_ADD, Exec_SUB, Exec_MUL, Exec_DIV, Exec_AND, Exec_OR, Exec_XOR, Exec_NOT, Exec_SET,
      Exec_LD, Exec_ST, Exec_JAL, Exec_RET, Exec_BEQ, Exec_ADDP, Exec_SUBP, Exec_MULP,
      DivideTraps, Executable, Crash, Execute, LabelsOf, LastAt, LabelPass, RunProgram, Running,
      Fetch, Step, Trap, Finish,
      InverseCall!Half, InverseCall!Word, InverseCall!Wrap, InverseCall!Add, InverseCall!Sub,
      InverseCall!Mul, InverseCall!DivUndefined, InverseCall!Magnitude, InverseCall!Quot,
      InverseCall!Rem, InverseCall!Bit, InverseCall!BitsOf, InverseCall!WordWith,
      InverseCall!BitAnd, InverseCall!BitOr, InverseCall!BitXor, InverseCall!BitNot,
      InverseCall!Addr, InverseCall!Reg, InverseCall!NoLabel, InverseCall!AddrOf,
      InverseCall!RegOf, InverseCall!ValueOf, InverseCall!LabelOf, InverseCall!PcModulus,
      InverseCall!Pc, InverseCall!Status, InverseCall!ProcessorTypeOK, InverseCall!Target,
      InverseCall!Lookup, InverseCall!In, InverseCall!Advance, InverseCall!Exec_LDP,
      InverseCall!WriteReg, InverseCall!Exec_ADD, InverseCall!Exec_SUB, InverseCall!Exec_MUL,
      InverseCall!Exec_DIV, InverseCall!Exec_AND, InverseCall!Exec_OR, InverseCall!Exec_XOR,
      InverseCall!Exec_NOT, InverseCall!Exec_SET, InverseCall!Exec_LD, InverseCall!Exec_ST,
      InverseCall!Exec_JAL, InverseCall!Exec_RET, InverseCall!Exec_BEQ, InverseCall!Exec_ADDP,
      InverseCall!Exec_SUBP, InverseCall!Exec_MULP, InverseCall!DivideTraps,
      InverseCall!Executable, InverseCall!Crash, InverseCall!Execute, InverseCall!LabelsOf,
      InverseCall!LastAt, InverseCall!LabelPass, InverseCall!RunProgram, InverseCall!Running,
      InverseCall!Fetch, InverseCall!Step, InverseCall!Trap, InverseCall!Finish,
      SumCall!Half, SumCall!Word, SumCall!Wrap, SumCall!Add, SumCall!Sub, SumCall!Mul,
      SumCall!DivUndefined, SumCall!Magnitude, SumCall!Quot, SumCall!Rem, SumCall!Bit,
      SumCall!BitsOf, SumCall!WordWith, SumCall!BitAnd, SumCall!BitOr, SumCall!BitXor,
      SumCall!BitNot, SumCall!Addr, SumCall!Reg, SumCall!NoLabel, SumCall!AddrOf, SumCall!RegOf,
      SumCall!ValueOf, SumCall!LabelOf, SumCall!PcModulus, SumCall!Pc, SumCall!Status,
      SumCall!ProcessorTypeOK, SumCall!Target, SumCall!Lookup, SumCall!In, SumCall!Advance,
      SumCall!Exec_LDP, SumCall!WriteReg, SumCall!Exec_ADD, SumCall!Exec_SUB, SumCall!Exec_MUL,
      SumCall!Exec_DIV, SumCall!Exec_AND, SumCall!Exec_OR, SumCall!Exec_XOR, SumCall!Exec_NOT,
      SumCall!Exec_SET, SumCall!Exec_LD, SumCall!Exec_ST, SumCall!Exec_JAL, SumCall!Exec_RET,
      SumCall!Exec_BEQ, SumCall!Exec_ADDP, SumCall!Exec_SUBP, SumCall!Exec_MULP,
      SumCall!DivideTraps, SumCall!Executable, SumCall!Crash, SumCall!Execute, SumCall!LabelsOf,
      SumCall!LastAt, SumCall!LabelPass, SumCall!RunProgram, SumCall!Running, SumCall!Fetch,
      SumCall!Step, SumCall!Trap, SumCall!Finish
<1>1. InverseCall!ProcessorTypeOK <=> ProcessorTypeOK
  OBVIOUS
<1>2. SumCall!ProcessorTypeOK <=> ProcessorTypeOK
  OBVIOUS
<1>3. ASSUME NEW q PROVE InverseCall!RunProgram(q) <=> RunProgram(q)
  OBVIOUS
<1>4. ASSUME NEW q PROVE InverseCall!Step(q) <=> Step(q)
  OBVIOUS
<1>5. ASSUME NEW q PROVE InverseCall!Trap(q) <=> Trap(q)
  OBVIOUS
<1>6. ASSUME NEW q PROVE InverseCall!Finish(q) <=> Finish(q)
  OBVIOUS
<1>7. ASSUME NEW q PROVE SumCall!RunProgram(q) <=> RunProgram(q)
  OBVIOUS
<1>8. ASSUME NEW q PROVE SumCall!Step(q) <=> Step(q)
  OBVIOUS
<1>9. ASSUME NEW q PROVE SumCall!Trap(q) <=> Trap(q)
  OBVIOUS
<1>10. ASSUME NEW q PROVE SumCall!Finish(q) <=> Finish(q)
  OBVIOUS
<1>11. QED
  <2> HIDE DEF
           ProcessorTypeOK, RunProgram, Step, Trap, Finish,
           InverseCall!ProcessorTypeOK, InverseCall!RunProgram, InverseCall!Step,
           InverseCall!Trap, InverseCall!Finish,
           SumCall!ProcessorTypeOK, SumCall!RunProgram, SumCall!Step, SumCall!Trap, SumCall!Finish
  <2>1. QED
    BY <1>1, <1>2, <1>3, <1>4, <1>5, <1>6, <1>7, <1>8, <1>9, <1>10

LEMMA SamePrograms ==
  /\ Inverting!MultInverseProg = InverseCall!MultInverseProg
  /\ Addition!PAddProg = SumCall!PAddProg
BY DEF
  Inverting!NoLabel, Inverting!A, Inverting!R, Inverting!V, Inverting!L, Inverting!Instr,
  Inverting!At, Inverting!BranchEq, Inverting!Op2, Inverting!Set, Inverting!Load, Inverting!Store,
  Inverting!LoadPrime, Inverting!JumpLink, Inverting!Return, Inverting!P_ADDR, Inverting!X_ADDR,
  Inverting!OUT_ADDR, Inverting!Setup, Inverting!SquareAndMultiply, Inverting!Finale,
  Inverting!MultInverseProg,
  InverseCall!NoLabel, InverseCall!A, InverseCall!R, InverseCall!V, InverseCall!L,
  InverseCall!Instr, InverseCall!At, InverseCall!BranchEq, InverseCall!Op2, InverseCall!Set,
  InverseCall!Load, InverseCall!Store, InverseCall!LoadPrime, InverseCall!JumpLink,
  InverseCall!Return, InverseCall!P_ADDR, InverseCall!X_ADDR, InverseCall!OUT_ADDR,
  InverseCall!Setup, InverseCall!SquareAndMultiply, InverseCall!Finale,
  InverseCall!MultInverseProg,
  Addition!NoLabel, Addition!A, Addition!R, Addition!V, Addition!L, Addition!Instr, Addition!At,
  Addition!BranchEq, Addition!Op2, Addition!Set, Addition!Load, Addition!Store,
  Addition!LoadPrime, Addition!JumpLink, Addition!Return, Addition!P_ADDR, Addition!A_ADDR,
  Addition!B_ADDR, Addition!Z_ADDR, Addition!X1_ADDR, Addition!Y1_ADDR, Addition!X2_ADDR,
  Addition!Y2_ADDR, Addition!OUT_ADDR1, Addition!OUT_ADDR2, Addition!LoadArguments,
  Addition!ZeroCases, Addition!Chord, Addition!Subroutine, Addition!SameX, Addition!Tangent,
  Addition!Intersect, Addition!StoreSum, Addition!PAddProg,
  SumCall!NoLabel, SumCall!A, SumCall!R, SumCall!V, SumCall!L, SumCall!Instr, SumCall!At,
  SumCall!BranchEq, SumCall!Op2, SumCall!Set, SumCall!Load, SumCall!Store, SumCall!LoadPrime,
  SumCall!JumpLink, SumCall!Return, SumCall!P_ADDR, SumCall!A_ADDR, SumCall!B_ADDR,
  SumCall!Z_ADDR, SumCall!X1_ADDR, SumCall!Y1_ADDR, SumCall!X2_ADDR, SumCall!Y2_ADDR,
  SumCall!OUT_ADDR1, SumCall!OUT_ADDR2, SumCall!LoadArguments, SumCall!ZeroCases, SumCall!Chord,
  SumCall!Subroutine, SumCall!SameX, SumCall!Tangent, SumCall!Intersect, SumCall!StoreSum,
  SumCall!PAddProg
\* A word holds the literals of the programs.
LEMMA SizesFit ==
  /\ P \in Nat /\ P \in Int /\ P > 3 /\ IsPrime(P)
  /\ Half \in Int /\ Half > P * P /\ Half > 3
<1>1. P \in Nat /\ P \in Int /\ P > 3 /\ IsPrime(P)
  <2>1. P \in Int
    BY CurveAssumption, WordFacts
  <2>2. QED
    BY <2>1, CurveAssumption
<1>2. Half \in Int
  BY HalfFacts
<1>3. P * P > 3
  BY <1>1
<1>4. QED
  BY <1>1, <1>2, <1>3, SessionBounds

\* The assumptions about the constants that the proofs about one kernel make hold
\* of a session's.
LEMMA InverseMayBeCalled ==
  /\ WordBits \in Nat \ {0}
  /\ 2^0 = 1 /\ \A k \in 0 .. WordBits : 2^(k + 1) = 2 * 2^k
  /\ SramSize \in Nat \ {0} /\ NumRegs \in Nat \ {0}
  /\ InverseCall!NoLabel \in STRING
  /\ InverseCall!PcModulus \in Nat \ {0} /\ InverseCall!PcModulus <= InverseCall!Half
  /\ {"multinv", "while", "next", "done"} \subseteq STRING
  /\ InverseInputs \subseteq InverseCall!Word \X InverseCall!Word
  /\ \A m \in Boot : /\ m.sram \in [InverseCall!Addr -> InverseCall!Word]
                     /\ m.regs \in [InverseCall!Reg -> InverseCall!Word]
                     /\ m.p \in InverseCall!Word
  /\ NumRegs > 23 /\ SramSize > InverseCall!OUT_ADDR
  /\ InverseCall!PcModulus > 18 /\ InverseCall!Half > 2
<1>1. /\ InverseCall!Half = Half /\ InverseCall!Word = Word
      /\ InverseCall!Addr = Addr /\ InverseCall!Reg = Reg
      /\ InverseCall!PcModulus = PcModulus /\ InverseCall!NoLabel = NoLabel /\ InverseCall!OUT_ADDR = 10
  BY DEF InverseCall!Half, InverseCall!Word, InverseCall!Addr, InverseCall!Reg, InverseCall!PcModulus,
         InverseCall!NoLabel, InverseCall!OUT_ADDR, Half, Word, Addr, Reg, PcModulus, NoLabel
<1>2. PcModulus > 18 /\ SramSize > 10 /\ Half > 2
  BY SessionBounds, PcAssumption, SizeAssumption, SizesFit
<1>3. {"multinv", "while", "next", "done"} \subseteq STRING
  BY SessionLabels
<1>4. /\ InverseInputs \subseteq InverseCall!Word \X InverseCall!Word
      /\ \A m \in Boot : /\ m.sram \in [InverseCall!Addr -> InverseCall!Word]
                         /\ m.regs \in [InverseCall!Reg -> InverseCall!Word]
                         /\ m.p \in InverseCall!Word
  BY <1>1, WordsAssumption
<1>5. /\ NumRegs > 23 /\ SramSize > InverseCall!OUT_ADDR
      /\ InverseCall!PcModulus > 18 /\ InverseCall!Half > 2
  BY <1>1, <1>2, SessionBounds
<1>6. /\ InverseCall!PcModulus \in Nat \ {0} /\ InverseCall!PcModulus <= InverseCall!Half
      /\ InverseCall!NoLabel \in STRING
  BY <1>1, PcAssumption, NoLabelAssumption
<1>7. QED
  BY <1>3, <1>4, <1>5, <1>6, WordBitsAssumption, PowersOfTwo, SizeAssumption

\* What holds of a call of the inverse kernel, whoever makes it, ...
LEMMA InverseCallKept ==
  ASSUME InverseCall!CallInvariant,
         \/ /\ RunProgram(Inverting!MultInverseProg)
            /\ <<sram[0], sram[1]>> \in InverseInputs
         \/ Step(Inverting!MultInverseProg)
         \/ Trap(Inverting!MultInverseProg)
         \/ Finish(Inverting!MultInverseProg)
         \/ UNCHANGED procVars
  PROVE  InverseCall!CallInvariant'
<1>1. \/ /\ InverseCall!RunProgram(InverseCall!MultInverseProg)
         /\ <<InverseCall!P, InverseCall!x>> \in InverseInputs
      \/ InverseCall!Step(InverseCall!MultInverseProg)
      \/ InverseCall!Trap(InverseCall!MultInverseProg)
      \/ InverseCall!Finish(InverseCall!MultInverseProg)
      \/ UNCHANGED <<sram, regs, p, pc, labels, status>>
  BY SameMachine, SamePrograms DEF procVars, InverseCall!P, InverseCall!x,
     InverseCall!P_ADDR, InverseCall!X_ADDR
<1>2. QED
  BY <1>1, InverseMayBeCalled, InverseCall!CallKept

\* ... and its answer, by Fermat's little theorem.
LEMMA InverseAnswered ==
  ASSUME InversesFit, InverseCall!CallInvariant, status = "returned"
  PROVE  (sram[1] * sram[10]) % sram[0] = 1
<1>1. /\ InverseCall!P = sram[0] /\ InverseCall!x = sram[1]
      /\ InverseCall!OUT_ADDR = 10 /\ InverseCall!Half = Half
  BY DEF InverseCall!P, InverseCall!x, InverseCall!P_ADDR, InverseCall!X_ADDR, InverseCall!OUT_ADDR,
         InverseCall!Half, Half
<1>2. InverseCall!InCall /\ pc = 18 /\ <<sram[0], sram[1]>> \in InverseInputs /\ sram[10] = regs[8]
  BY <1>1 DEF InverseCall!CallInvariant, InverseCall!InCall, InverseCall!Called, InverseCall!Registers
<1>3. \A n : InverseCall!Abstract!IsPrime(n) <=> IsPrime(n)
  BY DEF InverseCall!Abstract!IsPrime, IsPrime
<1>4. InverseCall!Abstract!HasInverse(sram[0], sram[1])
  <2> DEFINE in == <<sram[0], sram[1]>>
  <2>1. in \in InverseInputs /\ in[1] = sram[0] /\ in[2] = sram[1]
    BY <1>2
  <2> HIDE DEF in
  <2>2. IsPrime(sram[0]) /\ sram[1] % sram[0] # 0
    BY <2>1 DEF InversesFit
  <2>3. QED
    BY <1>3, <2>2 DEF InverseCall!Abstract!HasInverse
<1>5. InverseCall!InputsFit
  BY <1>1 DEF InversesFit, InverseCall!InputsFit
<1>6. pc \in 17 .. 18
  BY <1>2
<1>7. InverseCall!Abstract!HasInverse(InverseCall!P, InverseCall!x)
  BY <1>1, <1>4
<1>8. (InverseCall!x * regs[8]) % InverseCall!P = 1
  BY <1>2, <1>5, <1>6, <1>7, InverseMayBeCalled, InverseCall!AnswerIsInverse
<1>9. QED
  BY <1>1, <1>2, <1>8

\* The same for the addition.
LEMMA SumMayBeCalled ==
  /\ WordBits \in Nat \ {0}
  /\ 2^0 = 1 /\ \A k \in 0 .. WordBits : 2^(k + 1) = 2 * 2^k
  /\ SramSize \in Nat \ {0} /\ NumRegs \in Nat \ {0}
  /\ SumCall!NoLabel \in STRING
  /\ SumCall!PcModulus \in Nat \ {0} /\ SumCall!PcModulus <= SumCall!Half
  /\ {"call_multinv", "while", "next", "mi_done", "xsame", "ysame", "intersect", "done"} \subseteq STRING
  /\ [1 .. 8 -> Word] \subseteq [1 .. 8 -> SumCall!Word]
  /\ \A m \in Boot : /\ m.sram \in [SumCall!Addr -> SumCall!Word]
                     /\ m.regs \in [SumCall!Reg -> SumCall!Word]
                     /\ m.p \in SumCall!Word
  /\ NumRegs > 23 /\ SramSize > SumCall!OUT_ADDR2
  /\ SumCall!PcModulus > 65 /\ SumCall!Half > 3 /\ 1 \in Nat \ {0}
<1>1. /\ SumCall!Half = Half /\ SumCall!Word = Word /\ SumCall!Addr = Addr /\ SumCall!Reg = Reg
      /\ SumCall!PcModulus = PcModulus /\ SumCall!NoLabel = NoLabel /\ SumCall!OUT_ADDR2 = 11
  BY DEF SumCall!Half, SumCall!Word, SumCall!Addr, SumCall!Reg, SumCall!PcModulus,
         SumCall!NoLabel, SumCall!OUT_ADDR2, Half, Word, Addr, Reg, PcModulus, NoLabel
<1>2. {"call_multinv", "while", "next", "mi_done", "xsame", "ysame", "intersect", "done"} \subseteq STRING
  BY SessionLabels
<1>3. /\ [1 .. 8 -> Word] \subseteq [1 .. 8 -> SumCall!Word]
      /\ \A m \in Boot : /\ m.sram \in [SumCall!Addr -> SumCall!Word]
                         /\ m.regs \in [SumCall!Reg -> SumCall!Word]
                         /\ m.p \in SumCall!Word
  BY <1>1, WordsAssumption
<1>4. NumRegs > 23 /\ SramSize > SumCall!OUT_ADDR2 /\ SumCall!PcModulus > 65 /\ SumCall!Half > 3
  BY <1>1, SessionBounds, SizesFit
<1>5. /\ SumCall!PcModulus \in Nat \ {0} /\ SumCall!PcModulus <= SumCall!Half
      /\ SumCall!NoLabel \in STRING
  BY <1>1, PcAssumption, NoLabelAssumption
<1>6. QED
  BY <1>2, <1>3, <1>4, <1>5, WordBitsAssumption, PowersOfTwo, SizeAssumption

\* What the arguments of an addition are.
LEMMA ArgumentsAre ==
  /\ SumCall!Arguments = [k \in 1 .. 8 |-> sram[k - 1]]
  /\ SumCall!Arguments[1] = sram[0] /\ SumCall!Arguments[2] = sram[1] /\ SumCall!Arguments[3] = sram[2]
  /\ SumCall!Arguments[4] = sram[3] /\ SumCall!Arguments[5] = sram[4] /\ SumCall!Arguments[6] = sram[5]
  /\ SumCall!Arguments[7] = sram[6] /\ SumCall!Arguments[8] = sram[7]
BY DEF SumCall!Arguments

LEMMA AddressesAre == \A a \in 0 .. 11 : a \in Addr
BY SessionBounds, SizeAssumption DEF Addr

LEMMA SumCallKept ==
  ASSUME SumCall!KernelInvariant,
         \/ RunProgram(Addition!PAddProg) \/ Step(Addition!PAddProg)
         \/ Trap(Addition!PAddProg) \/ Finish(Addition!PAddProg)
         \/ UNCHANGED procVars
  PROVE  SumCall!KernelInvariant'
<1>1. sram \in [Addr -> Word]
  BY SameMachine DEF SumCall!KernelInvariant, ProcessorTypeOK
<1>2. SumCall!Arguments \in [1 .. 8 -> Word]
  <2>1. ASSUME NEW k \in 1 .. 8 PROVE sram[k - 1] \in Word
    <3>1. k - 1 \in 0 .. 11
      OBVIOUS
    <3>2. QED
      BY <1>1, <3>1, AddressesAre
  <2>2. QED
    BY <2>1, ArgumentsAre
<1>3. [SumCall!Next]_(SumCall!vars)
  <2>1. \/ SumCall!RunProgram(SumCall!PAddProg)
        \/ SumCall!Step(SumCall!PAddProg)
        \/ SumCall!Trap(SumCall!PAddProg)
        \/ SumCall!Finish(SumCall!PAddProg)
        \/ UNCHANGED procVars
    BY SameMachine, SamePrograms
  <2>2. UNCHANGED procVars => UNCHANGED SumCall!vars
    BY DEF procVars, SumCall!vars, SumCall!procVars
  <2>3. QED
    BY <1>2, <2>1, <2>2 DEF SumCall!Next, SumCall!Call, SumCall!RunStep
<1>4. QED
  BY <1>3, SumMayBeCalled, SumCall!NextKeeps

(***************************************************************************)
(* The sums of points of the session's curve.                               *)
(***************************************************************************)
\* A pair that stands for a point of the curve.
Stands(pt) == IsZero(pt, -1) \/ OnCurve(pt, P, CurveA, CurveB)

\* The owner has stored these two points.
Stored(s, t) ==
  /\ sram[0] = P /\ sram[1] = CurveA /\ sram[2] = CurveB /\ sram[3] = -1
  /\ sram[4] = s[1] /\ sram[5] = s[2] /\ sram[6] = t[1] /\ sram[7] = t[2]

\* What the kernel says of the sum r of s and t.
IsSum(r, s, t) ==
  IF IsZero(s, -1) THEN r = t
  ELSE IF IsZero(t, -1) THEN r = s
  ELSE IF s[1] = t[1] /\ (s[2] + t[2]) % P = 0 THEN IsZero(r, -1)
  ELSE r = ThirdPoint(P, Slope(P, CurveA, s, t), s, t)

\* A call about two points that can be added comes back with their sum.
LEMMA SumAnswered ==
  ASSUME SumCall!KernelInvariant, status = "returned",
         NEW s \in Word \X Word, NEW t \in Word \X Word, Stored(s, t),
         Stands(s), Stands(t), ~(s = t /\ s[2] = 0)
  PROVE  LET r == <<sram[10], sram[11]>>
         IN  r \in Word \X Word /\ Stands(r) /\ IsSum(r, s, t)
<1> DEFINE r == <<sram[10], sram[11]>>
           in == SumCall!Arguments
<1>1. /\ SumCall!P = P /\ SumCall!Param = CurveA /\ SumCall!Zero = -1 /\ sram[SumCall!B_ADDR] = CurveB
      /\ <<SumCall!X1, SumCall!Y1>> = s /\ <<SumCall!X2, SumCall!Y2>> = t
      /\ SumCall!result = r /\ SumCall!Half = Half /\ SumCall!Word = Word
  BY DEF Stored, SumCall!P, SumCall!Param, SumCall!Zero, SumCall!X1, SumCall!Y1, SumCall!X2,
         SumCall!Y2, SumCall!result, SumCall!P_ADDR, SumCall!A_ADDR, SumCall!B_ADDR, SumCall!Z_ADDR,
         SumCall!X1_ADDR, SumCall!Y1_ADDR, SumCall!X2_ADDR, SumCall!Y2_ADDR, SumCall!OUT_ADDR1,
         SumCall!OUT_ADDR2, SumCall!Half, SumCall!Word, Half, Word
<1>2. /\ in[1] = P /\ in[2] = CurveA /\ in[3] = CurveB /\ in[4] = -1
      /\ <<in[5], in[6]>> = s /\ <<in[7], in[8]>> = t
  BY ArgumentsAre DEF Stored
<1> HIDE DEF in
<1>3. \A pt, n, a, b, z : /\ SumCall!Abstract!IsZero(pt, z) <=> IsZero(pt, z)
                          /\ SumCall!Abstract!OnCurve(pt, n, a, b) <=> OnCurve(pt, n, a, b)
                          /\ SumCall!IsZero(pt, z) <=> IsZero(pt, z)
                          /\ SumCall!OnCurve(pt, n, a, b) <=> OnCurve(pt, n, a, b)
                          /\ SumCall!Abstract!IsPrime(n) <=> IsPrime(n)
  BY DEF SumCall!Abstract!IsZero, SumCall!Abstract!OnCurve, SumCall!IsZero, SumCall!OnCurve,
         SumCall!Abstract!IsPrime, IsZero, OnCurve, IsPrime
<1>4. \A n, a, u, v : SumCall!Abstract!Slope(n, a, u, v) = Slope(n, a, u, v)
  BY DEF SumCall!Abstract!Slope, Slope
<1>5. \A n, m, u, v : SumCall!Abstract!ThirdPoint(n, m, u, v) = ThirdPoint(n, m, u, v)
  BY DEF SumCall!Abstract!ThirdPoint, ThirdPoint
<1>6. SumCall!Abstract!WellPosed(in)
  BY <1>2, <1>3, SizesFit DEF SumCall!Abstract!WellPosed, Stands
<1>7. SumCall!Sound
  <2>1. (P - 1) * (P - 1) < Half
    <3>1. (P - 1) * (P - 1) = P * P - 2 * P + 1
      BY SizesFit
    <3>2. P * P \in Int
      BY SizesFit
    <3>3. QED
      BY <3>1, <3>2, SizesFit
  <2>2. CurveA + P <= Half
    BY CurveAssumption, SessionBounds, SizesFit, WordFacts
  <2>3. QED
    BY <1>1, <1>6, <2>1, <2>2 DEF SumCall!Sound, in
<1>8. SumCall!InCall /\ pc = 65 /\ SumCall!ProcessorTypeOK
  BY DEF SumCall!KernelInvariant, SumCall!InCall, SumCall!Registers, SumCall!Loaded
<1>9. r \in SumCall!Sums
  BY <1>1, <1>7, <1>8, SumMayBeCalled, SumCall!ResultIsSum
<1>10. Stands(r)
  <2>1. \/ SumCall!IsZero(r, SumCall!Zero)
        \/ SumCall!OnCurve(r, SumCall!P, SumCall!Param, sram[SumCall!B_ADDR])
    BY <1>7, <1>8, <1>9, SumMayBeCalled, SumCall!SumsOnCurve
  <2>2. QED
    BY <1>1, <1>3, <2>1 DEF Stands
<1>11. SumCall!Sums = IF IsZero(s, -1) THEN {t}
                      ELSE IF IsZero(t, -1) THEN {s}
                      ELSE IF s[1] = t[1] /\ (s[2] + t[2]) % P = 0
                           THEN {pt \in Word \X Word : IsZero(pt, -1)}
                      ELSE {ThirdPoint(P, Slope(P, CurveA, s, t), s, t)}
  BY <1>1, <1>3, <1>4, <1>5 DEF SumCall!Sums, SumCall!Abstract!Sums
<1>12. IsSum(r, s, t)
  BY <1>9, <1>11 DEF IsSum
<1>13. r \in Word \X Word
  <2>1. sram \in [Addr -> Word]
    BY <1>8, SameMachine DEF ProcessorTypeOK
  <2>2. QED
    BY <2>1, AddressesAre
<1>14. QED
  BY <1>10, <1>12, <1>13

\* The kernel's proofs speak of the same field and the same line.
LEMMA SameField ==
  /\ \A n : SumCall!IsPrime(n) <=> IsPrime(n)
  /\ \A n, a : SumCall!Divides(n, a) <=> Divides(n, a)
  /\ \A n, a, b : SumCall!Same(n, a, b) <=> Same(n, a, b)
  /\ \A n, a, s, t : SumCall!Slope(n, a, s, t) = Slope(n, a, s, t)
  /\ \A a, x1, y1, x2, y2 :
       SumCall!Rise(a, x1, y1, x2, y2) = IF x1 # x2 THEN y1 - y2 ELSE 3 * x1 * x1 + a
  /\ \A x1, y1, x2 : SumCall!Run(x1, y1, x2) = IF x1 # x2 THEN x1 - x2 ELSE 2 * y1
  /\ \A a, b, u, v : SumCall!Off(a, b, u, v) = v * v - u * u * u - a * u - b
BY DEF SumCall!IsPrime, SumCall!Divides, SumCall!Same, SumCall!Slope, SumCall!Rise, SumCall!Run,
       SumCall!Off, IsPrime, Divides, Same, Slope

\* The coordinates of a point of the curve are residues, and it solves the equation.
LEMMA PointFacts ==
  ASSUME NEW s, OnCurve(s, P, CurveA, CurveB)
  PROVE  /\ s[1] \in 0 .. P - 1 /\ s[2] \in 0 .. P - 1 /\ s = <<s[1], s[2]>>
         /\ s[1] \in Int /\ s[2] \in Int /\ ~IsZero(s, -1) /\ s # Zero
         /\ s \in Word \X Word
         /\ Divides(P, s[2] * s[2] - s[1] * s[1] * s[1] - CurveA * s[1] - CurveB)
<1>1. s[1] \in 0 .. P - 1 /\ s[2] \in 0 .. P - 1 /\ s = <<s[1], s[2]>>
  BY DEF OnCurve
<1>2. s[1] \in Int /\ s[2] \in Int /\ s[1] # -1 /\ s[2] # -1
  BY <1>1
<1>3. s[1] \in Word /\ s[2] \in Word
  <2>1. \A k \in 0 .. P - 1 : k \in Word
    BY SizesFit, CurveAssumption, HalfFacts DEF Word
  <2>2. QED
    BY <1>1, <2>1
<1>4. Divides(P, s[2] * s[2] - s[1] * s[1] * s[1] - CurveA * s[1] - CurveB)
  <2> DEFINE e == s[2] * s[2]
             f == s[1] * s[1] * s[1]
             g == CurveA * s[1]
             h == e - f - g - CurveB
  <2>1. e \in Int /\ f \in Int /\ g \in Int /\ CurveB \in Int
    BY <1>2, ProductIsInt, CurveAssumption, WordFacts
  <2>2. h % P = 0
    BY DEF OnCurve
  <2>3. h \in Int
    <3> HIDE DEF e, f, g
    <3>1. QED
      BY <2>1
  <2> HIDE DEF h
  <2>4. Divides(P, h)
    BY <2>2, <2>3, SizesFit, DividesIsZero
  <2>5. QED
    BY <2>4 DEF h
<1>5. QED
  BY <1>1, <1>2, <1>3, <1>4 DEF IsZero, Zero

\* Two points with the same x that are not opposite are the same point, and their
\* y is not 0.
LEMMA NotOpposite ==
  ASSUME NEW s, OnCurve(s, P, CurveA, CurveB), NEW t, OnCurve(t, P, CurveA, CurveB), s[1] = t[1],
         (s[2] + t[2]) % P # 0
  PROVE  s = t
<1>1. /\ s[2] \in 0 .. P - 1 /\ t[2] \in 0 .. P - 1 /\ s = <<s[1], s[2]>> /\ t = <<t[1], t[2]>>
      /\ s[1] \in Int /\ s[2] \in Int /\ t[2] \in Int /\ CurveA \in Int /\ CurveB \in Int
      /\ Divides(P, s[2] * s[2] - s[1] * s[1] * s[1] - CurveA * s[1] - CurveB)
      /\ Divides(P, t[2] * t[2] - s[1] * s[1] * s[1] - CurveA * s[1] - CurveB)
  BY PointFacts, CurveAssumption, WordFacts
<1>2. SUFFICES ASSUME s[2] # t[2] PROVE FALSE
  BY <1>1
<1>3. /\ SumCall!Divides(P, SumCall!Off(CurveA, CurveB, s[1], s[2]))
      /\ SumCall!Divides(P, SumCall!Off(CurveA, CurveB, s[1], t[2]))
      /\ SumCall!IsPrime(P)
  BY <1>1, SameField, SizesFit
<1>4. (s[2] + t[2]) % P = 0
  BY <1>1, <1>2, <1>3, SizesFit, SumMayBeCalled, SumCall!OppositePoints
<1>5. QED
  BY <1>4

\* The chord has one slope, and it is a slope of the chord drawn the other way.
LEMMA ChordSlope ==
  ASSUME NEW s, OnCurve(s, P, CurveA, CurveB), NEW t, OnCurve(t, P, CurveA, CurveB), s[1] # t[1]
  PROVE  LET m == Slope(P, CurveA, s, t)
         IN  /\ m \in 0 .. P - 1
             /\ Same(P, m * (s[1] - t[1]), s[2] - t[2])
             /\ \A k \in 0 .. P - 1 : Same(P, k * (s[1] - t[1]), s[2] - t[2]) => k = m
<1> DEFINE m == Slope(P, CurveA, s, t)
<1>1. /\ s[1] \in 0 .. P - 1 /\ s[2] \in 0 .. P - 1 /\ s = <<s[1], s[2]>>
      /\ t[1] \in 0 .. P - 1 /\ t[2] \in 0 .. P - 1 /\ t = <<t[1], t[2]>>
      /\ s[1] \in Int /\ s[2] \in Int /\ t[1] \in Int /\ t[2] \in Int /\ CurveA \in Int
  BY PointFacts, CurveAssumption, WordFacts
<1>2. SumCall!IsPrime(P) /\ P \in Int /\ P > 3
  BY SameField, SizesFit
<1>3. ~SumCall!Divides(P, SumCall!Run(s[1], s[2], t[1]))
  BY <1>1, <1>2, SumMayBeCalled, SumCall!RunIsNoMultiple
<1>4. /\ SumCall!Run(s[1], s[2], t[1]) = s[1] - t[1]
      /\ SumCall!Rise(CurveA, s[1], s[2], t[1], t[2]) = s[2] - t[2]
      /\ SumCall!Slope(P, CurveA, <<s[1], s[2]>>, <<t[1], t[2]>>) = m
  BY <1>1, SameField
<1> HIDE DEF m
<1>5. m \in 0 .. P - 1 /\ SumCall!Same(P, m * (s[1] - t[1]), s[2] - t[2])
  BY <1>1, <1>2, <1>3, <1>4, SumMayBeCalled, SumCall!SlopeSolves
<1>6. ASSUME NEW k \in 0 .. P - 1, Same(P, k * (s[1] - t[1]), s[2] - t[2])
      PROVE  k = m
  <2>1. /\ k \in Int
        /\ SumCall!Same(P, k * SumCall!Run(s[1], s[2], t[1]),
                        SumCall!Rise(CurveA, s[1], s[2], t[1], t[2]))
    BY <1>4, <1>6, SameField
  <2>2. SumCall!Same(P, k, m)
    BY <1>1, <1>2, <1>3, <1>4, <2>1, SumMayBeCalled, SumCall!SlopeIsUnique
  <2>3. P \in Nat \ {0} /\ k \in Int /\ m \in Int /\ Same(P, k, m)
    BY <1>2, <1>5, <2>1, <2>2, SameField
  <2>4. k % P = m % P
    BY <2>3, SameIff
  <2>5. k % P = k /\ m % P = m
    BY <1>5, <2>3, ResidueIsItself
  <2>6. QED
    BY <2>4, <2>5
<1>7. QED
  BY <1>5, <1>6, SameField DEF m

\* The sum of two points does not depend on their order.
LEMMA ChordCommutes ==
  ASSUME NEW s, OnCurve(s, P, CurveA, CurveB), NEW t, OnCurve(t, P, CurveA, CurveB), s[1] # t[1]
  PROVE  ThirdPoint(P, Slope(P, CurveA, s, t), s, t) = ThirdPoint(P, Slope(P, CurveA, t, s), t, s)
<1> DEFINE m == Slope(P, CurveA, s, t)
           d == s[1] - t[1]
           h == s[2] - t[2]
<1>1. /\ s[1] \in Int /\ s[2] \in Int /\ t[1] \in Int /\ t[2] \in Int /\ d \in Int /\ h \in Int
      /\ P \in Nat \ {0} /\ P \in Int
  BY PointFacts, SizesFit
<1>2. m \in 0 .. P - 1 /\ Same(P, m * d, h)
  BY ChordSlope
<1>3. m \in Int
  BY <1>1, <1>2
<1> HIDE DEF m
<1> DEFINE w == m * d
<1>4. w \in Int /\ m * (t[1] - s[1]) = -w
  <2>1. t[1] - s[1] = -d
    BY <1>1
  <2> HIDE DEF d
  <2>2. QED
    BY <1>1, <1>3, <2>1, ProductIsInt, ProductOfNegated
<1>5. Same(P, -w, -h)
  <2>1. w \in Int /\ h \in Int /\ P \in Int /\ Same(P, w, h)
    BY <1>1, <1>2, <1>4
  <2> HIDE DEF w, h
  <2>2. PICK q \in Int : w - h = P * q
    BY <2>1 DEF Same, Divides
  <2>3. (-w) - (-h) = P * (-q) /\ -q \in Int
    BY <2>1, <2>2, ProductOfNegated
  <2>4. QED
    BY <2>3 DEF Same, Divides
<1>6. Slope(P, CurveA, t, s) = m
  <2>1. -h = t[2] - s[2]
    BY <1>1
  <2>2. Same(P, m * (t[1] - s[1]), t[2] - s[2])
    BY <1>4, <1>5, <2>1
  <2>3. QED
    BY <1>2, <2>2, ChordSlope
<1> DEFINE e == m * m
           x3 == (e - s[1] - t[1]) % P
           y3 == m * (s[1] - x3)
           z3 == m * (t[1] - x3)
<1>7. e \in Int /\ x3 \in Int /\ (e - t[1] - s[1]) % P = x3
  <2>1. e \in Int
    BY <1>3, ProductIsInt
  <2> HIDE DEF e
  <2>2. e - t[1] - s[1] = e - s[1] - t[1] /\ e - s[1] - t[1] \in Int
    BY <1>1, <2>1
  <2>3. QED
    BY <1>1, <2>1, <2>2, SameRemainder
<1> HIDE DEF e, x3
<1>8. (y3 - s[2]) % P = (z3 - t[2]) % P
  <2>1. y3 \in Int /\ z3 \in Int
    <3>1. s[1] - x3 \in Int /\ t[1] - x3 \in Int
      BY <1>1, <1>7
    <3>2. QED
      BY <1>3, <3>1, ProductIsInt
  <2>2. y3 - z3 = w
    BY <1>1, <1>3, <1>7
  <2> HIDE DEF y3, z3
  <2>3. (y3 - s[2]) - (z3 - t[2]) = w - h
    BY <1>1, <2>1, <2>2
  <2>4. Same(P, y3 - s[2], z3 - t[2])
    BY <1>2, <2>3 DEF Same
  <2>5. y3 - s[2] \in Int /\ z3 - t[2] \in Int
    BY <1>1, <2>1
  <2> DEFINE u == y3 - s[2]
             v == z3 - t[2]
  <2>6. u \in Int /\ v \in Int /\ Same(P, u, v)
    BY <2>4, <2>5
  <2> HIDE DEF u, v
  <2>7. u % P = v % P
    BY <1>1, <2>6, SameIff
  <2>8. QED
    BY <2>7 DEF u, v
<1>9. QED
  BY <1>6, <1>7, <1>8 DEF ThirdPoint, m, e, x3

(***************************************************************************)
(* The multiples of the session's point.                                    *)
(***************************************************************************)
\* The multiple after s.
NextMultiple(s) ==
  IF s = Zero THEN Base
  ELSE IF s[1] = Base[1] /\ (s[2] + Base[2]) % P = 0 THEN Zero
  ELSE ThirdPoint(P, Slope(P, CurveA, s, Base), s, Base)

AreMultiples(f, m) == f = [n \in 0 .. m |-> IF n = 0 THEN Zero ELSE NextMultiple(f[n - 1])]

LEMMA MultiplesExist == \E f : AreMultiples(f, MaxMultiple)
<1> DEFINE S == {m \in 0 .. MaxMultiple : \E f : AreMultiples(f, m)}
<1>1. MaxMultiple \in Nat
  BY SessionBounds
<1>2. 0 \in S
  <2> DEFINE f == [n \in 0 .. 0 |-> Zero]
  <2>1. f = [n \in 0 .. 0 |-> IF n = 0 THEN Zero ELSE NextMultiple(f[n - 1])]
    OBVIOUS
  <2>2. AreMultiples(f, 0)
    BY <2>1 DEF AreMultiples
  <2>3. QED
    BY <1>1, <2>2
<1>3. ASSUME NEW m \in 0 .. MaxMultiple - 1, m \in S PROVE m + 1 \in S
  <2>1. PICK f : AreMultiples(f, m)
    BY <1>3
  <2> DEFINE g == [n \in 0 .. m + 1 |-> IF n = m + 1 THEN NextMultiple(f[m]) ELSE f[n]]
  <2>2. m \in Nat /\ m + 1 \in 0 .. MaxMultiple
    BY <1>1
  <2>3. ASSUME NEW n \in 0 .. m + 1
        PROVE  g[n] = IF n = 0 THEN Zero ELSE NextMultiple(g[n - 1])
    <3>1. CASE n = m + 1
      <4>1. n # 0 /\ n - 1 = m /\ g[m] = f[m] /\ g[n] = NextMultiple(f[m])
        BY <2>2, <3>1
      <4>2. QED
        BY <4>1
    <3>2. CASE n # m + 1
      <4>1. n \in 0 .. m /\ g[n] = f[n] /\ (n # 0 => g[n - 1] = f[n - 1])
        BY <2>2, <3>2
      <4>2. f[n] = IF n = 0 THEN Zero ELSE NextMultiple(f[n - 1])
        BY <2>1, <4>1 DEF AreMultiples
      <4>3. QED
        BY <4>1, <4>2
    <3>3. QED
      BY <3>1, <3>2
  <2>4. AreMultiples(g, m + 1)
    <3>1. g = [n \in 0 .. m + 1 |-> g[n]]
      OBVIOUS
    <3> HIDE DEF g
    <3>2. QED
      BY <2>3, <3>1 DEF AreMultiples
  <2> HIDE DEF g
  <2>5. QED
    BY <2>2, <2>4
<1>4. MaxMultiple \in S
  <2> HIDE DEF S
  <2>1. \A m \in 0 .. MaxMultiple : m \in S
    BY <1>1, <1>2, <1>3, UpTo
  <2>2. QED
    BY <1>1, <2>1
<1>5. QED
  BY <1>4

\* Each multiple follows from the one before.
LEMMA MultipleFollows ==
  /\ Multiple[0] = Zero
  /\ \A n \in 0 .. MaxMultiple - 1 : Multiple[n + 1] = NextMultiple(Multiple[n])
<1>1. Multiple = CHOOSE f : AreMultiples(f, MaxMultiple)
  BY DEF Multiple, AreMultiples, NextMultiple
<1>2. AreMultiples(Multiple, MaxMultiple)
  BY <1>1, MultiplesExist
<1>3. MaxMultiple \in Nat
  BY SessionBounds
<1>4. \A n \in 0 .. MaxMultiple : Multiple[n] = IF n = 0 THEN Zero ELSE NextMultiple(Multiple[n - 1])
  BY <1>2 DEF AreMultiples
<1>5. ASSUME NEW n \in 0 .. MaxMultiple - 1 PROVE Multiple[n + 1] = NextMultiple(Multiple[n])
  <2>1. n + 1 \in 0 .. MaxMultiple /\ n + 1 # 0 /\ (n + 1) - 1 = n
    BY <1>3
  <2>2. QED
    BY <1>4, <2>1
<1>6. QED
  BY <1>3, <1>4, <1>5

\* A pair stands for the multiple n.
Means(pt, n) ==
  \/ Multiple[n] = Zero /\ IsZero(pt, -1)
  \/ pt = Multiple[n] /\ OnCurve(pt, P, CurveA, CurveB)

LEMMA MeansPoint == \A pt, n : Means(pt, n) => Stands(pt)
BY DEF Means, Stands

LEMMA BaseFacts ==
  OnCurve(Base, P, CurveA, CurveB) /\ Base[2] # 0 /\ ~IsZero(Base, -1) /\ Stands(Base)
<1>1. OnCurve(Base, P, CurveA, CurveB) /\ Base[2] # 0
  BY CurveAssumption
<1>2. QED
  BY <1>1, PointFacts DEF Stands

\* A third point of a line is a pair of residues, never one of the pairs for zero.
LEMMA ThirdIsResidues ==
  ASSUME NEW s \in Int \X Int, NEW t \in Int \X Int, NEW m \in Int
  PROVE  ~IsZero(ThirdPoint(P, m, s, t), -1)
<1>1. s[1] \in Int /\ s[2] \in Int /\ t[1] \in Int /\ P \in Nat \ {0}
  BY SizesFit
<1> DEFINE e == m * m
           f == e - s[1] - t[1]
           x3 == f % P
           g == m * (s[1] - x3)
           h == g - s[2]
           y3 == h % P
<1>2. e \in Int
  BY ProductIsInt
<1>3. f \in Int
  <2> HIDE DEF e
  <2>1. QED
    BY <1>1, <1>2
<1>4. x3 \in 0 .. P - 1 /\ x3 \in Int
  <2> HIDE DEF f
  <2>1. x3 \in 0 .. P - 1
    BY <1>1, <1>3, SameRemainder
  <2>2. QED
    BY <2>1
<1> HIDE DEF x3
<1>5. g \in Int
  <2>1. s[1] - x3 \in Int
    BY <1>1, <1>4
  <2>2. QED
    BY <2>1, ProductIsInt
<1>6. h \in Int
  <2> HIDE DEF g
  <2>1. QED
    BY <1>1, <1>5
<1>7. y3 \in 0 .. P - 1
  <2> HIDE DEF h
  <2>1. QED
    BY <1>1, <1>6, SameRemainder
<1>8. ThirdPoint(P, m, s, t) = <<x3, y3>>
  BY DEF ThirdPoint, x3
<1> HIDE DEF y3
<1>9. x3 # -1 /\ y3 # -1
  BY <1>4, <1>7
<1>10. QED
  BY <1>8, <1>9 DEF IsZero

\* The slope of the line through two points is a number.
LEMMA SlopeIsInt ==
  ASSUME NEW s, OnCurve(s, P, CurveA, CurveB), NEW t, OnCurve(t, P, CurveA, CurveB),
         s[1] # t[1] \/ s[2] # 0
  PROVE  Slope(P, CurveA, s, t) \in Int
<1>1. /\ s[1] \in 0 .. P - 1 /\ s[2] \in 0 .. P - 1 /\ s = <<s[1], s[2]>>
      /\ t[1] \in 0 .. P - 1 /\ t[2] \in 0 .. P - 1 /\ t = <<t[1], t[2]>>
      /\ s[1] \in Int /\ s[2] \in Int /\ t[1] \in Int /\ t[2] \in Int /\ CurveA \in Int
  BY PointFacts, CurveAssumption, WordFacts
<1>2. SumCall!IsPrime(P) /\ P \in Int /\ P > 3
  BY SameField, SizesFit
<1>3. ~SumCall!Divides(P, SumCall!Run(s[1], s[2], t[1]))
  BY <1>1, <1>2, SumMayBeCalled, SumCall!RunIsNoMultiple
<1>4. SumCall!Slope(P, CurveA, <<s[1], s[2]>>, <<t[1], t[2]>>) = Slope(P, CurveA, s, t)
  BY <1>1, SameField
<1>5. SumCall!Slope(P, CurveA, <<s[1], s[2]>>, <<t[1], t[2]>>) \in 0 .. P - 1
  BY <1>1, <1>2, <1>3, SumMayBeCalled, SumCall!SlopeSolves
<1>6. QED
  BY <1>4, <1>5

\* A sum that is neither of the points nor zero is a point of the curve.
LEMMA ThirdOnCurve ==
  ASSUME NEW s, OnCurve(s, P, CurveA, CurveB), NEW t, OnCurve(t, P, CurveA, CurveB),
         s[1] # t[1] \/ s[2] # 0, NEW r, Stands(r),
         r = ThirdPoint(P, Slope(P, CurveA, s, t), s, t)
  PROVE  OnCurve(r, P, CurveA, CurveB)
<1>1. s \in Int \X Int /\ t \in Int \X Int
  <2>1. /\ s = <<s[1], s[2]>> /\ t = <<t[1], t[2]>>
        /\ s[1] \in Int /\ s[2] \in Int /\ t[1] \in Int /\ t[2] \in Int
    BY PointFacts
  <2>2. QED
    BY <2>1
<1>2. ~IsZero(r, -1)
  BY <1>1, SlopeIsInt, ThirdIsResidues
<1>3. QED
  BY <1>2 DEF Stands

\* The sum of a multiple and the point, in either order, is the next multiple.
LEMMA NextIsReached ==
  ASSUME NEW n \in 0 .. MaxMultiple - 1, NEW s, Means(s, n),
         NEW r, Stands(r), IsSum(r, s, Base) \/ IsSum(r, Base, s)
  PROVE  Means(r, n + 1)
<1>1. Multiple[n + 1] = NextMultiple(Multiple[n])
  BY MultipleFollows
<1>2. CASE Multiple[n] = Zero /\ IsZero(s, -1)
  <2>1. r = Base /\ Multiple[n + 1] = Base
    BY <1>1, <1>2, BaseFacts DEF IsSum, NextMultiple
  <2>2. QED
    BY <2>1, BaseFacts DEF Means
<1>3. CASE s = Multiple[n] /\ OnCurve(s, P, CurveA, CurveB)
  <2>1. /\ s # Zero /\ ~IsZero(s, -1) /\ s[1] \in Int /\ s[2] \in Int
        /\ Base[1] \in Int /\ Base[2] \in Int
    BY <1>3, PointFacts, BaseFacts
  <2>2. s[2] + Base[2] = Base[2] + s[2]
    BY <2>1
  <2>3. CASE s[1] = Base[1] /\ (s[2] + Base[2]) % P = 0
    <3>1. Multiple[n + 1] = Zero
      BY <1>1, <1>3, <2>1, <2>3 DEF NextMultiple
    <3>2. IsZero(r, -1)
      BY <2>1, <2>2, <2>3, BaseFacts DEF IsSum
    <3>3. QED
      BY <3>1, <3>2 DEF Means
  <2>4. CASE ~(s[1] = Base[1] /\ (s[2] + Base[2]) % P = 0)
    <3>1. Multiple[n + 1] = ThirdPoint(P, Slope(P, CurveA, s, Base), s, Base)
      BY <1>1, <1>3, <2>1, <2>4 DEF NextMultiple
    <3>2. \/ r = ThirdPoint(P, Slope(P, CurveA, s, Base), s, Base)
          \/ r = ThirdPoint(P, Slope(P, CurveA, Base, s), Base, s)
      BY <2>1, <2>2, <2>4, BaseFacts DEF IsSum
    <3>3. s[1] # Base[1] \/ s = Base
      BY <1>3, <2>4, BaseFacts, NotOpposite
    <3>4. r = ThirdPoint(P, Slope(P, CurveA, s, Base), s, Base)
      BY <1>3, <3>2, <3>3, BaseFacts, ChordCommutes
    <3>5. OnCurve(r, P, CurveA, CurveB)
      BY <1>3, <3>3, <3>4, BaseFacts, ThirdOnCurve
    <3>6. QED
      BY <3>1, <3>4, <3>5 DEF Means
  <2>5. QED
    BY <2>3, <2>4
<1>4. QED
  BY <1>2, <1>3 DEF Means

\* The double of a multiple is the multiple that associativity makes it.
LEMMA DoubleIsReached ==
  ASSUME DoublingLaw, NEW n \in 0 .. MaxMultiple, 2 * n <= MaxMultiple,
         NEW s, Means(s, n), s[2] # 0, NEW r, Stands(r), IsSum(r, s, s)
  PROVE  Means(r, 2 * n)
<1> DEFINE t == Multiple[n]
<1>1. Multiple[2 * n] = IF t = Zero \/ t[2] = 0 THEN Zero
                        ELSE ThirdPoint(P, Slope(P, CurveA, t, t), t, t)
  BY DEF DoublingLaw
<1>2. CASE t = Zero /\ IsZero(s, -1)
  <2>1. IsZero(r, -1)
    BY <1>2 DEF IsSum
  <2>2. QED
    BY <1>1, <1>2, <2>1 DEF Means
<1>3. CASE s = t /\ OnCurve(s, P, CurveA, CurveB)
  <2>1. s # Zero /\ ~IsZero(s, -1) /\ s[2] \in 0 .. P - 1 /\ s[1] \in 0 .. P - 1 /\ s[2] \in Int
    BY <1>3, PointFacts
  <2>2. (s[2] + s[2]) % P # 0
    <3> DEFINE d == s[2] + s[2]
    <3>1. d \in Int /\ SumCall!Run(s[1], s[2], s[1]) = d
      BY <2>1, SameField
    <3>2. ~SumCall!Divides(P, SumCall!Run(s[1], s[2], s[1]))
      BY <2>1, SizesFit, SameField, SumMayBeCalled, SumCall!RunIsNoMultiple
    <3> HIDE DEF d
    <3>3. ~Divides(P, d)
      BY <3>1, <3>2, SameField
    <3>4. d % P # 0
      BY <3>1, <3>3, SizesFit, DividesIsZero
    <3>5. QED
      BY <3>4 DEF d
  <2>3. r = ThirdPoint(P, Slope(P, CurveA, s, s), s, s)
    BY <2>1, <2>2 DEF IsSum
  <2>4. Multiple[2 * n] = r
    BY <1>1, <1>3, <2>1, <2>3
  <2>5. OnCurve(r, P, CurveA, CurveB)
    BY <1>3, <2>3, ThirdOnCurve
  <2>6. QED
    BY <2>4, <2>5 DEF Means
<1>4. QED
  BY <1>2, <1>3 DEF Means

(***************************************************************************)
(* The invariant of a session.                                              *)
(***************************************************************************)
SessionTypeOK ==
  /\ ProcessorTypeOK
  /\ phase \in {"resting", "stored", "called"}
  /\ acc \in Word \X Word
  /\ multiple \in 0 .. MaxMultiple
  /\ pending \in 0 .. MaxMultiple

\* The owner waits for its call to come back before it stores or reads.
Control ==
  /\ phase = "resting" => status \in {"idle", "returned"} /\ pending = multiple
  /\ phase = "stored" => status = "idle"
  /\ phase = "called" => status \in {"running", "returned", "crashed"}
  /\ phase # "resting" => prog \in {Inverting!MultInverseProg, Addition!PAddProg}

\* An inversion, from the owner's stores to the next: the kernel's own invariant
\* holds of it, on whatever object.
Inversion ==
  prog = Inverting!MultInverseProg =>
    /\ pending = multiple
    /\ phase = "stored" => <<sram[0], sram[1]>> \in InverseInputs
    /\ phase # "stored" => InverseCall!CallInvariant
    /\ phase = "resting" => status = "returned"

\* An addition, until its result is read.
Asked ==
  \/ pending = multiple + 1 /\ (Stored(acc, Base) \/ Stored(Base, acc))
  \/ pending = 2 * multiple /\ Stored(acc, acc) /\ acc[2] # 0

Summation ==
  prog = Addition!PAddProg /\ phase # "resting" =>
    /\ Asked
    /\ phase = "called" => SumCall!KernelInvariant

\* The inductive invariant, but for what the owner's point stands for.
CallsInvariant ==
  /\ SessionTypeOK
  /\ Control
  /\ Inversion
  /\ Summation

ProgramFacts ==
  /\ Addressable(Inverting!MultInverseProg) /\ Addressable(Addition!PAddProg)
  /\ Inverting!MultInverseProg # Addition!PAddProg
  /\ Inverting!MultInverseProg # <<>> /\ Addition!PAddProg # <<>>

\* A program with instructions is not the empty one, ...
LEMMA NotEmpty == ASSUME NEW q, Len(q) # 0 PROVE q # <<>>
OBVIOUS

\* ... and programs of different lengths are different.
LEMMA LengthsTell ==
  ASSUME NEW q, NEW r, Len(q) = 18, Len(r) = 65
  PROVE  q # r /\ q # <<>> /\ r # <<>>
<1>1. Len(q) # 0 /\ Len(r) # 0
  OBVIOUS
<1>2. q # <<>> /\ r # <<>>
  BY <1>1, NotEmpty
<1>3. q # r
  OBVIOUS
<1>4. QED
  BY <1>2, <1>3

\* The two programs are not the same, and neither is longer than pc_ can count.
LEMMA ProgramsDiffer == ProgramFacts
<1>1. Len(InverseCall!MultInverseProg) = 18
  BY InverseMayBeCalled, InverseCall!Listing
<1>2. Len(SumCall!PAddProg) = 65
  BY SumMayBeCalled, SumCall!Listing
<1>3. InverseCall!Addressable(InverseCall!MultInverseProg)
  BY InverseMayBeCalled, InverseCall!ProgIsAddressable
<1>4. SumCall!Addressable(SumCall!PAddProg)
  BY SumMayBeCalled, SumCall!ProgIsAddressable
<1>5. \A q : InverseCall!Addressable(q) <=> Addressable(q)
  BY DEF InverseCall!Addressable, InverseCall!Program, InverseCall!Instruction, InverseCall!Opcode,
         InverseCall!Operand, InverseCall!Unset, InverseCall!Addr, InverseCall!Reg, InverseCall!Word,
         InverseCall!Half, InverseCall!PcModulus, Addressable, Program, Instruction, Opcode, Operand,
         Unset, Addr, Reg, Word, Half, PcModulus
<1>6. \A q : SumCall!Addressable(q) <=> Addressable(q)
  BY DEF SumCall!Addressable, SumCall!Program, SumCall!Instruction, SumCall!Opcode,
         SumCall!Operand, SumCall!Unset, SumCall!Addr, SumCall!Reg, SumCall!Word,
         SumCall!Half, SumCall!PcModulus, Addressable, Program, Instruction, Opcode, Operand,
         Unset, Addr, Reg, Word, Half, PcModulus
<1> DEFINE q == InverseCall!MultInverseProg
           r == SumCall!PAddProg
<1>7. q # r /\ q # <<>> /\ r # <<>>
  <2>1. Len(q) = 18 /\ Len(r) = 65
    BY <1>1, <1>2
  <2> HIDE DEF q, r
  <2>2. QED
    BY <2>1, LengthsTell
<1>8. Addressable(q) /\ Addressable(r)
  BY <1>3, <1>4, <1>5, <1>6
<1>9. QED
  BY <1>7, <1>8, SamePrograms DEF ProgramFacts

\* Between two calls, a kernel's invariant says no more than the types.
LEMMA QuietCalls ==
  ProcessorTypeOK /\ status = "idle" => InverseCall!CallInvariant /\ SumCall!KernelInvariant
<1> SUFFICES ASSUME ProcessorTypeOK, status = "idle"
             PROVE  InverseCall!CallInvariant /\ SumCall!KernelInvariant
  OBVIOUS
<1>1. InverseCall!ProcessorTypeOK /\ SumCall!ProcessorTypeOK
  BY SameMachine
<1>2. InverseCall!CallInvariant
  BY <1>1 DEF InverseCall!CallInvariant, InverseCall!Mapped, InverseCall!Called,
              InverseCall!Registers, InverseCall!Value, InverseCall!InCall
<1>3. SumCall!KernelInvariant
  BY <1>1 DEF SumCall!KernelInvariant, SumCall!Mapped, SumCall!Called, SumCall!Registers,
              SumCall!Value, SumCall!InCall
<1>4. QED
  BY <1>2, <1>3

\* A new object and an owner with nothing but zero.
LEMMA InitCalls == Init => CallsInvariant
<1> SUFFICES ASSUME Init PROVE CallsInvariant
  OBVIOUS
<1>1. /\ status = "idle" /\ pc = 0 /\ labels = <<>>
      /\ prog = <<>> /\ phase = "resting" /\ acc = Zero /\ multiple = 0 /\ pending = 0
  BY DEF Init, ProcessorInit
<1>2. ProcessorTypeOK
  <2>1. PICK m \in Boot : sram = m.sram /\ regs = m.regs /\ p = m.p
    BY DEF Init, ProcessorInit
  <2>2. sram \in [Addr -> Word] /\ regs \in [Reg -> Word] /\ p \in Word
    BY <2>1, WordsAssumption
  <2>3. 0 \in Pc /\ DOMAIN labels = {}
    BY <1>1, PcAssumption DEF Pc
  <2>4. QED
    BY <1>1, <2>2, <2>3 DEF ProcessorTypeOK, Status
<1>3. SessionTypeOK
  <2>1. acc \in Word \X Word
    BY <1>1, WordFacts DEF Zero
  <2>2. 0 \in 0 .. MaxMultiple
    BY SessionBounds
  <2>3. QED
    BY <1>1, <1>2, <2>1, <2>2 DEF SessionTypeOK
<1>4. QED
  BY <1>1, <1>3, ProgramsDiffer DEF CallsInvariant, Control, Inversion, Summation, ProgramFacts

\* The owner's stores: the object is idle, and its memory is of words.
LEMMA PrepareTyped ==
  ASSUME ProcessorTypeOK, NEW q, NEW memory \in [Addr -> Word], Prepare(q, memory)
  PROVE  /\ ProcessorTypeOK' /\ phase = "resting" /\ phase' = "stored" /\ prog' = q
         /\ sram' = memory /\ status' = "idle" /\ UNCHANGED <<acc, multiple>>
BY DEF Prepare, ProcessorTypeOK, Status

\* The points of a sum are stored where the kernel reads them.
LEMMA PrepareSumStores ==
  ASSUME ProcessorTypeOK, NEW s \in Word \X Word, NEW t \in Word \X Word, PrepareSum(s, t)
  PROVE  /\ ProcessorTypeOK' /\ phase = "resting" /\ phase' = "stored" /\ prog' = Addition!PAddProg
         /\ status' = "idle" /\ UNCHANGED <<acc, multiple>> /\ Stored(s, t)'
<1> DEFINE memory == [sram EXCEPT ![0] = P, ![1] = CurveA, ![2] = CurveB, ![3] = -1,
                                  ![4] = s[1], ![5] = s[2], ![6] = t[1], ![7] = t[2]]
<1>1. sram \in [Addr -> Word] /\ Prepare(Addition!PAddProg, memory)
  BY DEF ProcessorTypeOK, PrepareSum
<1>2. /\ P \in Word /\ CurveA \in Word /\ CurveB \in Word /\ -1 \in Word
      /\ s[1] \in Word /\ s[2] \in Word /\ t[1] \in Word /\ t[2] \in Word
  BY CurveAssumption, WordFacts
<1>3. memory \in [Addr -> Word]
  BY <1>1, <1>2
<1>4. /\ 0 \in Addr /\ 1 \in Addr /\ 2 \in Addr /\ 3 \in Addr
      /\ 4 \in Addr /\ 5 \in Addr /\ 6 \in Addr /\ 7 \in Addr
  BY AddressesAre
<1>5. /\ memory[0] = P /\ memory[1] = CurveA /\ memory[2] = CurveB /\ memory[3] = -1
      /\ memory[4] = s[1] /\ memory[5] = s[2] /\ memory[6] = t[1] /\ memory[7] = t[2]
  BY <1>1, <1>4
<1> HIDE DEF memory
<1>6. /\ ProcessorTypeOK' /\ phase = "resting" /\ phase' = "stored" /\ prog' = Addition!PAddProg
      /\ sram' = memory /\ status' = "idle" /\ UNCHANGED <<acc, multiple>>
  BY <1>1, <1>3, PrepareTyped
<1>7. QED
  BY <1>5, <1>6 DEF Stored

\* The owner asks for a sum of its point and the other one, ...
LEMMA AddBaseKeeps == CallsInvariant /\ AddBase => CallsInvariant'
<1> SUFFICES ASSUME CallsInvariant, AddBase PROVE CallsInvariant'
  OBVIOUS
<1>1. ProcessorTypeOK /\ acc \in Word \X Word /\ multiple \in 0 .. MaxMultiple /\ Base \in Word \X Word
  BY BaseFacts, PointFacts DEF CallsInvariant, SessionTypeOK
<1>2. /\ ProcessorTypeOK' /\ phase' = "stored" /\ prog' = Addition!PAddProg /\ status' = "idle"
      /\ UNCHANGED <<acc, multiple>> /\ (Stored(acc, Base)' \/ Stored(Base, acc)')
  <2>1. CASE PrepareSum(acc, Base)
    <3>1. /\ ProcessorTypeOK' /\ phase' = "stored" /\ prog' = Addition!PAddProg /\ status' = "idle"
          /\ UNCHANGED <<acc, multiple>>
      BY <1>1, <2>1, PrepareSumStores
    <3>2. Stored(acc, Base)'
      BY <1>1, <2>1, <3>1, PrepareSumStores DEF Stored
    <3>3. QED
      BY <3>1, <3>2
  <2>2. CASE PrepareSum(Base, acc)
    <3>1. /\ ProcessorTypeOK' /\ phase' = "stored" /\ prog' = Addition!PAddProg /\ status' = "idle"
          /\ UNCHANGED <<acc, multiple>>
      BY <1>1, <2>2, PrepareSumStores
    <3>2. Stored(Base, acc)'
      BY <1>1, <2>2, <3>1, PrepareSumStores DEF Stored
    <3>3. QED
      BY <3>1, <3>2
  <2>3. QED
    BY <2>1, <2>2 DEF AddBase
<1>3. pending' = multiple + 1 /\ pending' \in 0 .. MaxMultiple
  <2>1. MaxMultiple \in Nat /\ multiple < MaxMultiple /\ pending' = multiple + 1
    BY SessionBounds DEF AddBase
  <2>2. QED
    BY <1>1, <2>1
<1>4. Asked'
  BY <1>2, <1>3 DEF Asked
<1>5. QED
  BY <1>1, <1>2, <1>3, <1>4, ProgramsDiffer
     DEF CallsInvariant, SessionTypeOK, Control, Inversion, Summation, ProgramFacts

\* ... for its double, ...
LEMMA DoubleKeeps == CallsInvariant /\ Double => CallsInvariant'
<1> SUFFICES ASSUME CallsInvariant, Double PROVE CallsInvariant'
  OBVIOUS
<1>1. ProcessorTypeOK /\ acc \in Word \X Word /\ multiple \in 0 .. MaxMultiple
  BY DEF CallsInvariant, SessionTypeOK
<1>2. /\ ProcessorTypeOK' /\ phase' = "stored" /\ prog' = Addition!PAddProg /\ status' = "idle"
      /\ UNCHANGED <<acc, multiple>>
  BY <1>1, PrepareSumStores DEF Double
<1>3. Stored(acc, acc)'
  BY <1>1, <1>2, PrepareSumStores DEF Double, Stored
<1>4. pending' = 2 * multiple /\ pending' \in 0 .. MaxMultiple /\ acc[2] # 0
  <2>1. MaxMultiple \in Nat /\ 2 * multiple <= MaxMultiple /\ pending' = 2 * multiple /\ acc[2] # 0
    BY SessionBounds DEF Double
  <2>2. QED
    BY <1>1, <2>1
<1>5. Asked'
  BY <1>2, <1>3, <1>4 DEF Asked
<1>6. QED
  BY <1>1, <1>2, <1>4, <1>5, ProgramsDiffer
     DEF CallsInvariant, SessionTypeOK, Control, Inversion, Summation, ProgramFacts

\* ... or for an inverse.
LEMMA InvertKeeps ==
  ASSUME NEW in \in InverseInputs
  PROVE  CallsInvariant /\ Invert(in) => CallsInvariant'
<1> SUFFICES ASSUME CallsInvariant, Invert(in) PROVE CallsInvariant'
  OBVIOUS
<1> DEFINE memory == [sram EXCEPT ![0] = in[1], ![1] = in[2]]
<1>1. /\ ProcessorTypeOK /\ sram \in [Addr -> Word] /\ acc \in Word \X Word
      /\ multiple \in 0 .. MaxMultiple /\ pending \in 0 .. MaxMultiple
      /\ phase = "resting" => pending = multiple
  BY DEF CallsInvariant, SessionTypeOK, ProcessorTypeOK, Control
<1>2. in \in Word \X Word /\ in = <<in[1], in[2]>> /\ in[1] \in Word /\ in[2] \in Word
  BY WordsAssumption
<1>3. 0 \in Addr /\ 1 \in Addr
  BY AddressesAre
<1>4. memory \in [Addr -> Word] /\ memory[0] = in[1] /\ memory[1] = in[2]
  BY <1>1, <1>2, <1>3
<1>5. Prepare(Inverting!MultInverseProg, memory) /\ pending' = pending
  BY DEF Invert
<1> HIDE DEF memory
<1>6. /\ ProcessorTypeOK' /\ phase = "resting" /\ phase' = "stored" /\ prog' = Inverting!MultInverseProg
      /\ sram' = memory /\ status' = "idle" /\ UNCHANGED <<acc, multiple>>
  BY <1>1, <1>4, <1>5, PrepareTyped
<1>7. <<sram'[0], sram'[1]>> \in InverseInputs
  BY <1>2, <1>4, <1>6
<1>8. QED
  BY <1>1, <1>5, <1>6, <1>7, ProgramsDiffer
     DEF CallsInvariant, SessionTypeOK, Control, Inversion, Summation, ProgramFacts

\* The call begins on the memory that was stored, and runs by itself.
LEMMA CallKeeps == CallsInvariant /\ Call => CallsInvariant'
<1> SUFFICES ASSUME CallsInvariant, Call PROVE CallsInvariant'
  OBVIOUS
<1>1. /\ phase = "stored" /\ phase' = "called" /\ RunProgram(prog)
      /\ UNCHANGED <<prog, acc, multiple, pending>>
  BY DEF Call
<1>2. /\ SessionTypeOK /\ ProcessorTypeOK /\ status = "idle"
      /\ prog \in {Inverting!MultInverseProg, Addition!PAddProg}
      /\ InverseCall!CallInvariant /\ SumCall!KernelInvariant
  BY <1>1, QuietCalls DEF CallsInvariant, SessionTypeOK, Control
<1>3. sram' = sram /\ status' = "running"
  BY <1>1 DEF RunProgram
<1>4. ProcessorTypeOK'
  BY <1>1, <1>2, ProgramsDiffer, RunTyped DEF ProgramFacts
<1>5. prog = Inverting!MultInverseProg =>
        pending = multiple /\ <<sram[0], sram[1]>> \in InverseInputs /\ InverseCall!CallInvariant'
  <2> SUFFICES ASSUME prog = Inverting!MultInverseProg
               PROVE  /\ pending = multiple /\ <<sram[0], sram[1]>> \in InverseInputs
                      /\ InverseCall!CallInvariant'
    OBVIOUS
  <2>1. pending = multiple /\ <<sram[0], sram[1]>> \in InverseInputs
    BY <1>1 DEF CallsInvariant, Inversion
  <2>2. RunProgram(Inverting!MultInverseProg)
    BY <1>1
  <2>3. QED
    BY <1>2, <2>1, <2>2, InverseCallKept
<1>6. prog = Addition!PAddProg => Asked /\ SumCall!KernelInvariant'
  <2> SUFFICES ASSUME prog = Addition!PAddProg PROVE Asked /\ SumCall!KernelInvariant'
    OBVIOUS
  <2>1. Asked
    BY <1>1 DEF CallsInvariant, Summation
  <2>2. RunProgram(Addition!PAddProg)
    BY <1>1
  <2>3. QED
    BY <1>2, <2>1, <2>2, SumCallKept
<1>7. Asked => Asked'
  BY <1>1, <1>3 DEF Asked, Stored
<1>8. SessionTypeOK'
  BY <1>1, <1>2, <1>4 DEF SessionTypeOK
<1>9. QED
  BY <1>1, <1>2, <1>3, <1>5, <1>6, <1>7, <1>8 DEF CallsInvariant, Control, Inversion, Summation

\* A step of the addition leaves the points that were stored.
LEMMA RunLeavesArguments ==
  ASSUME SumCall!KernelInvariant,
         Step(Addition!PAddProg) \/ Trap(Addition!PAddProg) \/ Finish(Addition!PAddProg)
  PROVE  \A a \in 0 .. 7 : sram'[a] = sram[a]
<1>1. CASE Step(Addition!PAddProg)
  <2>1. SumCall!Step(SumCall!PAddProg)
    BY <1>1, SameMachine, SamePrograms
  <2>2. SumCall!ProcessorTypeOK /\ SumCall!Registers /\ SumCall!Mapped
    BY DEF SumCall!KernelInvariant
  <2>3. QED
    BY <2>1, <2>2, SumMayBeCalled, SumCall!StepInside
<1>2. CASE Trap(Addition!PAddProg) \/ Finish(Addition!PAddProg)
  BY <1>2 DEF Trap, Crash, Finish
<1>3. QED
  BY <1>1, <1>2

LEMMA RunStepKeeps == CallsInvariant /\ RunStep => CallsInvariant'
<1> SUFFICES ASSUME CallsInvariant, RunStep PROVE CallsInvariant'
  OBVIOUS
<1>1. /\ Step(prog) \/ Trap(prog) \/ Finish(prog)
      /\ UNCHANGED <<prog, phase, acc, multiple, pending>>
  BY DEF RunStep, ownerVars
<1>2. status = "running"
  BY <1>1 DEF Step, Trap, Finish, Running
<1>3. /\ SessionTypeOK /\ ProcessorTypeOK /\ phase = "called"
      /\ prog \in {Inverting!MultInverseProg, Addition!PAddProg}
  BY <1>2 DEF CallsInvariant, SessionTypeOK, Control
<1>4. ProcessorTypeOK'
  BY <1>1, <1>3, ProgramsDiffer, RunTyped DEF ProgramFacts
<1>5. status' \in {"running", "returned", "crashed"}
  <2>1. CASE Step(prog)
    <3>1. status' = status
      BY <2>1 DEF Step, Execute, Exec_LDP, WriteReg, Exec_ADD, Exec_SUB, Exec_MUL, Exec_DIV, Exec_AND,
                  Exec_OR, Exec_XOR, Exec_NOT, Exec_SET, Exec_LD, Exec_ST, Exec_JAL, Exec_RET, Exec_BEQ,
                  Exec_ADDP, Exec_SUBP, Exec_MULP
    <3>2. QED
      BY <1>2, <3>1
  <2>2. CASE Trap(prog) \/ Finish(prog)
    BY <2>2 DEF Trap, Crash, Finish
  <2>3. QED
    BY <1>1, <2>1, <2>2
<1>6. prog = Inverting!MultInverseProg => pending = multiple /\ InverseCall!CallInvariant'
  <2> SUFFICES ASSUME prog = Inverting!MultInverseProg
               PROVE  pending = multiple /\ InverseCall!CallInvariant'
    OBVIOUS
  <2>1. pending = multiple /\ InverseCall!CallInvariant
    BY <1>3 DEF CallsInvariant, Inversion
  <2>2. \/ Step(Inverting!MultInverseProg) \/ Trap(Inverting!MultInverseProg)
        \/ Finish(Inverting!MultInverseProg)
    BY <1>1
  <2>3. QED
    BY <2>1, <2>2, InverseCallKept
<1>7. prog = Addition!PAddProg => Asked' /\ SumCall!KernelInvariant'
  <2> SUFFICES ASSUME prog = Addition!PAddProg PROVE Asked' /\ SumCall!KernelInvariant'
    OBVIOUS
  <2>1. Asked /\ SumCall!KernelInvariant
    BY <1>3 DEF CallsInvariant, Summation
  <2>2. Step(Addition!PAddProg) \/ Trap(Addition!PAddProg) \/ Finish(Addition!PAddProg)
    BY <1>1
  <2>3. SumCall!KernelInvariant'
    BY <2>1, <2>2, SumCallKept
  <2>4. \A a \in 0 .. 7 : sram'[a] = sram[a]
    BY <2>1, <2>2, RunLeavesArguments
  <2>5. /\ sram'[0] = sram[0] /\ sram'[1] = sram[1] /\ sram'[2] = sram[2] /\ sram'[3] = sram[3]
        /\ sram'[4] = sram[4] /\ sram'[5] = sram[5] /\ sram'[6] = sram[6] /\ sram'[7] = sram[7]
    BY <2>4
  <2>6. Asked'
    BY <1>1, <2>1, <2>5 DEF Asked, Stored
  <2>7. QED
    BY <2>3, <2>6
<1>8. SessionTypeOK'
  BY <1>1, <1>3, <1>4 DEF SessionTypeOK
<1>9. QED
  BY <1>1, <1>3, <1>5, <1>6, <1>7, <1>8 DEF CallsInvariant, Control, Inversion, Summation

\* What a call leaves for the owner to read: of an addition, the sum it asked for.
LEMMA SumIsRead ==
  ASSUME CallsInvariant, phase = "called", status = "returned", prog = Addition!PAddProg, Stands(acc)
  PROVE  LET r == <<sram[10], sram[11]>>
         IN  /\ r \in Word \X Word /\ Stands(r)
             /\ \/ pending = multiple + 1 /\ (IsSum(r, acc, Base) \/ IsSum(r, Base, acc))
                \/ pending = 2 * multiple /\ acc[2] # 0 /\ IsSum(r, acc, acc)
<1>1. SumCall!KernelInvariant /\ Asked /\ acc \in Word \X Word
  BY DEF CallsInvariant, Summation, SessionTypeOK
<1>2. Base \in Word \X Word /\ Stands(Base) /\ Base[2] # 0
  BY BaseFacts, PointFacts
<1>3. CASE pending = multiple + 1 /\ Stored(acc, Base)
  BY <1>1, <1>2, <1>3, SumAnswered
<1>4. CASE pending = multiple + 1 /\ Stored(Base, acc)
  BY <1>1, <1>2, <1>4, SumAnswered
<1>5. CASE pending = 2 * multiple /\ Stored(acc, acc) /\ acc[2] # 0
  BY <1>1, <1>5, SumAnswered
<1>6. QED
  BY <1>1, <1>3, <1>4, <1>5 DEF Asked

LEMMA CollectKeeps == CallsInvariant /\ Stands(acc) /\ Collect => CallsInvariant'
<1> SUFFICES ASSUME CallsInvariant, Stands(acc), Collect PROVE CallsInvariant'
  OBVIOUS
<1>1. /\ phase = "called" /\ status = "returned" /\ phase' = "resting"
      /\ acc' = IF prog = Addition!PAddProg THEN <<sram[10], sram[11]>> ELSE acc
      /\ multiple' = pending /\ UNCHANGED procVars /\ prog' = prog /\ pending' = pending
  BY DEF Collect
<1>2. SessionTypeOK /\ Inversion
  BY DEF CallsInvariant
<1>3. ProcessorTypeOK' /\ status' = status
  BY <1>1, <1>2 DEF SessionTypeOK, ProcessorTypeOK, procVars
<1>4. acc' \in Word \X Word
  BY <1>1, <1>2, SumIsRead DEF SessionTypeOK
<1>5. prog = Inverting!MultInverseProg => InverseCall!CallInvariant'
  BY <1>1, <1>2, InverseCallKept DEF Inversion
<1>6. SessionTypeOK'
  BY <1>1, <1>2, <1>3, <1>4 DEF SessionTypeOK
<1>7. QED
  BY <1>1, <1>3, <1>5, <1>6 DEF CallsInvariant, Control, Inversion, Summation

\* A step of nobody.
LEMMA StutterKeeps == CallsInvariant /\ UNCHANGED vars => CallsInvariant'
<1> SUFFICES ASSUME CallsInvariant, UNCHANGED vars PROVE CallsInvariant'
  OBVIOUS
<1>1. /\ UNCHANGED procVars /\ UNCHANGED <<prog, phase, acc, multiple, pending>>
      /\ UNCHANGED <<sram, regs, p, pc, labels, status>>
  BY DEF vars, procVars, ownerVars
<1>2. SessionTypeOK /\ Control /\ Inversion /\ Summation
  BY DEF CallsInvariant
<1>3. SessionTypeOK' /\ Control'
  BY <1>1, <1>2 DEF SessionTypeOK, ProcessorTypeOK, Control
<1>4. Inversion'
  <2>1. InverseCall!CallInvariant => InverseCall!CallInvariant'
    BY <1>1, InverseCallKept
  <2>2. QED
    BY <1>1, <1>2, <2>1 DEF Inversion
<1>5. Summation'
  <2>1. SumCall!KernelInvariant => SumCall!KernelInvariant'
    BY <1>1, SumCallKept
  <2>2. Asked => Asked'
    BY <1>1 DEF Asked, Stored
  <2>3. QED
    BY <1>1, <1>2, <2>1, <2>2 DEF Summation
<1>6. QED
  BY <1>3, <1>4, <1>5 DEF CallsInvariant

\* Of the owner's point it is enough for the calls that it stands for a point of
\* the curve.
SessionInvariant == CallsInvariant /\ Stands(acc)

LEMMA InitHolds == Init => SessionInvariant
<1>1. Init => Stands(acc)
  BY DEF Init, Stands, IsZero, Zero
<1>2. QED
  BY <1>1, InitCalls DEF SessionInvariant

LEMMA NextKeeps == SessionInvariant /\ [Next]_vars => SessionInvariant'
<1> SUFFICES ASSUME SessionInvariant, [Next]_vars PROVE SessionInvariant'
  OBVIOUS
<1>1. CallsInvariant /\ Stands(acc)
  BY DEF SessionInvariant
<1>2. CallsInvariant'
  BY <1>1, AddBaseKeeps, DoubleKeeps, InvertKeeps, CallKeeps, RunStepKeeps, CollectKeeps,
     StutterKeeps DEF Next
<1>3. Stands(acc)'
  <2>1. CASE Collect /\ prog = Addition!PAddProg
    <3>1. phase = "called" /\ status = "returned" /\ acc' = <<sram[10], sram[11]>>
      BY <2>1 DEF Collect
    <3>2. Stands(<<sram[10], sram[11]>>)
      BY <1>1, <2>1, <3>1, SumIsRead
    <3>3. QED
      BY <3>1, <3>2 DEF Stands
  <2>2. CASE ~(Collect /\ prog = Addition!PAddProg)
    <3>1. acc' = acc
      BY <2>2 DEF Next, AddBase, Double, Invert, PrepareSum, Prepare, Call, RunStep, Collect,
                   ownerVars, vars
    <3>2. QED
      BY <1>1, <3>1 DEF Stands
  <2>3. QED
    BY <2>1, <2>2
<1>4. QED
  BY <1>2, <1>3 DEF SessionInvariant

\* The inductive invariant holds in every reachable state: whatever one kernel
\* left in the object, its registers and its labels included, the next call of
\* the other is what that kernel's proofs say of a call.
THEOREM Invariance == Spec => []SessionInvariant
<1>1. QED
  BY InitHolds, NextKeeps, PTL DEF Spec

\* For every word width, every curve, and all numbers and primes to invert whose
\* products fit a word (InversesFit): an inversion between additions is right
\* (mult_inverse.h:13-18), whatever an addition left in the object.
THEOREM InversesBetween ==
  ASSUME InversesFit
  PROVE  Spec => []InverseBetween
<1>1. SessionInvariant => InverseBetween
  <2> SUFFICES ASSUME SessionInvariant, phase = "resting", prog = Inverting!MultInverseProg
               PROVE  (sram[1] * sram[10]) % sram[0] = 1
    BY DEF InverseBetween
  <2>1. InverseCall!CallInvariant /\ status = "returned"
    BY DEF SessionInvariant, CallsInvariant, Inversion
  <2>2. QED
    BY <2>1, InverseAnswered
<1>2. QED
  BY Invariance, <1>1, PTL

(***************************************************************************)
(* The owner's point is the multiple.                                       *)
(***************************************************************************)
\* With what the owner's point stands for, the invariant of the theorem below.
MultipleInvariant == SessionInvariant /\ Means(acc, multiple)

LEMMA MultipleInit == Init => MultipleInvariant
<1> SUFFICES ASSUME Init PROVE MultipleInvariant
  OBVIOUS
<1>1. acc = Zero /\ multiple = 0 /\ IsZero(acc, -1)
  BY DEF Init, IsZero, Zero
<1>2. Means(acc, multiple)
  BY <1>1, MultipleFollows DEF Means
<1>3. QED
  BY <1>2, InitHolds DEF MultipleInvariant

LEMMA MultipleKept ==
  ASSUME DoublingLaw
  PROVE  MultipleInvariant /\ [Next]_vars => MultipleInvariant'
<1> SUFFICES ASSUME MultipleInvariant, [Next]_vars PROVE MultipleInvariant'
  OBVIOUS
<1>1. /\ SessionInvariant /\ CallsInvariant /\ Stands(acc) /\ Means(acc, multiple)
      /\ multiple \in 0 .. MaxMultiple /\ pending \in 0 .. MaxMultiple
  BY DEF MultipleInvariant, SessionInvariant, CallsInvariant, SessionTypeOK
<1>2. SessionInvariant'
  BY <1>1, NextKeeps
<1>3. Means(acc, multiple)'
  <2>1. CASE Collect /\ prog = Addition!PAddProg
    <3> DEFINE r == <<sram[10], sram[11]>>
    <3>1. phase = "called" /\ status = "returned" /\ acc' = r /\ multiple' = pending
      BY <2>1 DEF Collect
    <3>2. /\ Stands(r)
          /\ \/ pending = multiple + 1 /\ (IsSum(r, acc, Base) \/ IsSum(r, Base, acc))
             \/ pending = 2 * multiple /\ acc[2] # 0 /\ IsSum(r, acc, acc)
      BY <1>1, <2>1, <3>1, SumIsRead
    <3> HIDE DEF r
    <3>3. CASE pending = multiple + 1 /\ (IsSum(r, acc, Base) \/ IsSum(r, Base, acc))
      <4>1. multiple \in 0 .. MaxMultiple - 1
        <5>1. MaxMultiple \in Nat
          BY SessionBounds
        <5>2. QED
          BY <1>1, <3>3, <5>1
      <4>2. Means(r, multiple + 1)
        BY <1>1, <3>2, <3>3, <4>1, NextIsReached
      <4>3. QED
        BY <3>1, <3>3, <4>2 DEF Means
    <3>4. CASE pending = 2 * multiple /\ acc[2] # 0 /\ IsSum(r, acc, acc)
      <4>1. 2 * multiple <= MaxMultiple
        BY <1>1, <3>4
      <4>2. Means(r, 2 * multiple)
        BY <1>1, <3>2, <3>4, <4>1, DoubleIsReached
      <4>3. QED
        BY <3>1, <3>4, <4>2 DEF Means
    <3>5. QED
      BY <3>2, <3>3, <3>4
  <2>2. CASE ~(Collect /\ prog = Addition!PAddProg)
    <3>1. acc' = acc
      BY <2>2 DEF Next, AddBase, Double, Invert, PrepareSum, Prepare, Call, RunStep, Collect,
                   ownerVars, vars
    <3>2. multiple' = multiple
      <4>1. CASE Collect
        <5>1. phase = "called" /\ multiple' = pending /\ prog # Addition!PAddProg
          BY <2>2, <4>1 DEF Collect
        <5>2. prog = Inverting!MultInverseProg
          BY <1>1, <5>1 DEF CallsInvariant, Control
        <5>3. QED
          BY <1>1, <5>1, <5>2 DEF CallsInvariant, Inversion
      <4>2. CASE ~Collect
        BY <4>2 DEF Next, AddBase, Double, Invert, PrepareSum, Prepare, Call, RunStep, ownerVars, vars
      <4>3. QED
        BY <4>1, <4>2
    <3>3. QED
      BY <1>1, <3>1, <3>2 DEF Means
  <2>3. QED
    BY <2>1, <2>2
<1>4. QED
  BY <1>2, <1>3 DEF MultipleInvariant

\* For every word width and every curve on which doubling is repeated addition:
\* however the owner reaches a multiple, its point is that multiple
\* (padd.h:93-440), in whatever form zero came back in between.
THEOREM MultiplesAreReached ==
  ASSUME DoublingLaw
  PROVE  Spec => []PointIsMultiple
<1>1. MultipleInvariant => PointIsMultiple
  <2> SUFFICES ASSUME MultipleInvariant
               PROVE  IF Multiple[multiple] = Zero THEN IsZero(acc, -1) ELSE acc = Multiple[multiple]
    BY DEF PointIsMultiple
  <2>1. Means(acc, multiple)
    BY DEF MultipleInvariant
  <2>2. OnCurve(acc, P, CurveA, CurveB) => acc # Zero
    BY PointFacts
  <2>3. QED
    BY <2>1, <2>2 DEF Means
<1>2. MultipleInvariant /\ [Next]_vars => MultipleInvariant'
  BY MultipleKept
<1>3. QED
  BY MultipleInit, <1>1, <1>2, PTL DEF Spec
=============================================================================

--------------------------- MODULE HostFloatProofs ---------------------------
(***************************************************************************)
(* Theorems about a Processor that its owner uses any number of times, for  *)
(* every word width, memory size, set of programs and indeterminate initial *)
(* contents: types, where jumps land, what the prime-field ops leave, what  *)
(* the tests assert, and what every arithmetic executor leaves; and, with   *)
(* the same lemmas about numbers, about the comparison of floats of every   *)
(* format.                                                                  *)
(***************************************************************************)
EXTENDS ArithmeticTests, FloatCompare, ProcessorProofs

(***************************************************************************)
(* LabelsCurrent is not inductive: it does not say that the labels of the   *)
(* running program are in the domain of labels_, and without that the first *)
(* jump to one could insert 0 under it.                                     *)
(***************************************************************************)
LabelsMapped ==
  status = "running" =>
    \A l \in LabelsOf(prog) : l \in DOMAIN labels /\ labels[l] = LastAt(prog, l)

IInv == TypeOK /\ LabelsMapped /\ LabelsHaveOrigin

\* The program a step works on is one that pc_ can address.
LEMMA ProgAddressable ==
  /\ \A q \in Programs : Addressable(q)
  /\ TypeOK => Addressable(prog)
<1>1. \A q \in Programs : Addressable(q)
  BY ProgramsAssumption DEF Addressable
<1>2. Addressable(<<>>)
  BY PcAssumption DEF Addressable, Program
<1>3. QED
  BY <1>1, <1>2 DEF TypeOK

\* A new object satisfies the invariant whatever its memory holds.
LEMMA InitIInv == Init => IInv
<1> SUFFICES ASSUME Init PROVE IInv
  OBVIOUS
<1>1. sram \in [Addr -> Word] /\ regs \in [Reg -> Word] /\ p \in Word
  BY BootAssumption DEF Init, ProcessorInit
<1>2. pc \in Pc
  BY PcAssumption DEF Init, ProcessorInit, Pc
<1>3. labels = <<>> /\ DOMAIN labels = {} /\ status = "idle" /\ prog = <<>>
  BY DEF Init, ProcessorInit
<1>4. QED
  BY <1>1, <1>2, <1>3
     DEF IInv, TypeOK, ProcessorTypeOK, Status, LabelsMapped, LabelsHaveOrigin

\* Every step keeps the types (processor.cc:187-203).
LEMMA TypeOKStep == TypeOK /\ [Next]_vars => TypeOK'
<1> SUFFICES ASSUME TypeOK, [Next]_vars PROVE TypeOK'
  OBVIOUS
<1> USE DEF TypeOK
<1>1. CASE \E w \in HostWrites : WriteSram(w)
  <2>1. PICK w \in HostWrites : WriteSram(w)
    BY <1>1
  <2>2. w.addr \in Addr /\ w.value \in Word
    BY HostWritesAssumption
  <2>3. sram' \in [Addr -> Word]
    BY <2>1, <2>2 DEF WriteSram, ProcessorTypeOK
  <2>4. QED
    BY <2>1, <2>3 DEF WriteSram, ProcessorTypeOK, Status
<1>2. CASE \E q \in Programs : Call(q)
  BY <1>2, ProgAddressable, RunTyped DEF Call
<1>3. CASE RunStep
  BY <1>3, ProgAddressable, RunTyped DEF RunStep
<1>4. CASE UNCHANGED vars
  BY <1>4 DEF vars, procVars, ProcessorTypeOK
<1>5. QED
  BY <1>1, <1>2, <1>3, <1>4 DEF Next

\* Every step keeps the running program's labels where the label pass put them.
LEMMA LabelsMappedStep == LabelsMapped /\ [Next]_vars => LabelsMapped'
<1> SUFFICES ASSUME LabelsMapped, [Next]_vars PROVE LabelsMapped'
  OBVIOUS
<1>1. CASE \E w \in HostWrites : WriteSram(w)
  BY <1>1 DEF WriteSram, LabelsMapped
<1>2. CASE \E q \in Programs : Call(q)
  BY <1>2 DEF Call, RunProgram, LabelPass, LabelsMapped
<1>3. CASE Step(prog) /\ UNCHANGED prog
  <2>1. Execute(Fetch(prog)) /\ status = "running" /\ prog' = prog
    BY <1>3 DEF Step, Running
  <2>2. \A k \in DOMAIN labels : k \in DOMAIN labels' /\ labels'[k] = labels[k]
    BY <2>1, ExecuteKeepsLabels
  <2>3. LabelsOf(prog)' = LabelsOf(prog) /\ \A l : LastAt(prog, l)' = LastAt(prog, l)
    BY <2>1 DEF LabelsOf, LastAt
  <2>4. QED
    BY <2>1, <2>2, <2>3 DEF LabelsMapped
<1>4. CASE (Trap(prog) \/ Finish(prog)) /\ UNCHANGED prog
  BY <1>4 DEF Trap, Crash, Finish, LabelsMapped
<1>5. CASE UNCHANGED vars
  BY <1>5 DEF vars, procVars, LabelsMapped
<1>6. QED
  BY <1>1, <1>2, <1>3, <1>4, <1>5 DEF Next, RunStep

\* Every step keeps the origin of the entries of labels_.
LEMMA LabelsHaveOriginStep == LabelsHaveOrigin /\ [Next]_vars => LabelsHaveOrigin'
<1> SUFFICES ASSUME LabelsHaveOrigin, [Next]_vars PROVE LabelsHaveOrigin'
  OBVIOUS
<1>1. CASE \E w \in HostWrites : WriteSram(w)
  BY <1>1 DEF WriteSram, LabelsHaveOrigin
<1>2. CASE \E q \in Programs : Call(q)
  BY <1>2 DEF Call, RunProgram, LabelPass, LabelsHaveOrigin
<1>3. CASE Step(prog)
  <2>1. /\ \A k \in DOMAIN labels : k \in DOMAIN labels' /\ labels'[k] = labels[k]
        /\ \A k \in DOMAIN labels' : k \in DOMAIN labels \/ labels'[k] = 0
    BY <1>3, ExecuteKeepsLabels DEF Step
  <2>2. QED
    BY <2>1 DEF LabelsHaveOrigin
<1>4. CASE Trap(prog) \/ Finish(prog) \/ UNCHANGED vars
  BY <1>4 DEF Trap, Crash, Finish, vars, procVars, LabelsHaveOrigin
<1>5. QED
  BY <1>1, <1>2, <1>3, <1>4 DEF Next, RunStep

\* The inductive invariant holds in every reachable state.
THEOREM Invariance == Spec => []IInv
<1>1. Init => IInv
  BY InitIInv
<1>2. IInv /\ [Next]_vars => IInv'
  BY TypeOKStep, LabelsMappedStep, LabelsHaveOriginStep DEF IInv
<1>3. QED
  BY <1>1, <1>2, PTL DEF Spec

\* Every member of a Processor keeps its C++ type however the object is used:
\* registers, SRAM and p_ hold words, pc_ and labels_ addresses of instructions.
THEOREM TypeCorrect == Spec => []TypeOK
<1>1. IInv => TypeOK
  BY DEF IInv
<1>2. QED
  BY Invariance, <1>1, PTL

\* While a program runs, labels_ holds its own layout for its own labels, never
\* an earlier program's.
THEOREM LabelsAreCurrent == Spec => []LabelsCurrent
<1>1. IInv => LabelsCurrent
  BY DEF IInv, LabelsMapped, LabelsCurrent
<1>2. QED
  BY Invariance, <1>1, PTL

\* What an undefined label leads to is 0 or a place in an earlier program.
THEOREM LabelsOriginate == Spec => []LabelsHaveOrigin
<1>1. IInv => LabelsHaveOrigin
  BY DEF IInv
<1>2. QED
  BY Invariance, <1>1, PTL

\* A taken jump to a label of the running program lands on an instruction of
\* that program that carries the label.
THEOREM JumpsAreCorrect == Spec => JumpsLandOnLabel
<1>1. IInv /\ [Next]_vars => [JumpStep]_vars
  <2> SUFFICES ASSUME IInv, Next, NEW l \in LabelsOf(prog), Running(prog),
                      status' = "running", Jumps(Fetch(prog), l)
               PROVE  pc' < Len(prog) /\ prog[pc' + 1].label = l
    BY DEF JumpStep
  <2> DEFINE i == Fetch(prog)
  <2>1. Execute(i)
    BY DEF Next, WriteSram, Call, RunProgram, RunStep, Step, Trap, Crash, Finish, Running
  <2>2. Lookup(l)
    BY <2>1, ExecuteByOp DEF Jumps, Exec_JAL, Exec_BEQ
  <2>3. pc' = LastAt(prog, l)
    BY <2>2 DEF Lookup, Target, IInv, LabelsMapped, Running
  <2>4. prog \in Program /\ Len(prog) \in Nat
    BY ProgAddressable DEF IInv, Addressable, Program
  <2>5. QED
    BY <2>3, <2>4, LastAtFacts
<1>2. QED
  BY Invariance, <1>1, PTL DEF Spec, JumpsLandOnLabel

\* The bounds FieldOpsReduce sets on the result r of an exact value x.
Reduces(x, r) ==
  x \in Word => /\ (x - r) % p = 0
                /\ -p < r /\ r < p
                /\ x >= 0 => r >= 0

\* The opcode decides which prime-field executor runs (processor.cc:138-158).
LEMMA FieldByOp ==
  ASSUME NEW i, Execute(i)
  PROVE  /\ i.op = "ADDP" => WriteReg(i, Rem(Wrap(In(i, 1) + In(i, 2)), p))
         /\ i.op = "SUBP" => WriteReg(i, Rem(Wrap(In(i, 1) - In(i, 2)), p))
         /\ i.op = "MULP" => WriteReg(i, Rem(Wrap(In(i, 1) * In(i, 2)), p))
BY DEF Execute, Exec_LDP, Exec_SET, Exec_LD, Exec_ST, Exec_ADD, Exec_SUB, Exec_MUL,
       Exec_DIV, Exec_AND, Exec_OR, Exec_XOR, Exec_NOT, Exec_JAL, Exec_RET, Exec_BEQ,
       Exec_ADDP, Exec_SUBP, Exec_MULP, Add, Sub, Mul

\* A step of a prime-field instruction on residues reduces its exact result.
LEMMA FieldStepReduces == TypeOK /\ Next => FieldStep(Reduces)
<1> DEFINE i == Fetch(prog)
           x == Exact(i)
<1> SUFFICES ASSUME TypeOK, Next, Running(prog), status' = "running",
                    FieldOperands(i), x \in Word
             PROVE  LET r == regs'[RegOf(i.outputs[1])]
                    IN  (x - r) % p = 0 /\ -p < r /\ r < p /\ (x >= 0 => r >= 0)
  BY DEF FieldStep, Reduces
<1>1. Execute(i) /\ Executable(i)
  BY DEF Next, WriteSram, Call, RunProgram, RunStep, Step, Trap, Crash, Finish, Running
<1>2. i \in Instruction /\ ProcessorTypeOK
  BY ProgAddressable, FetchFacts DEF TypeOK
<1>3. RegOf(i.outputs[1]) \in Reg
  BY <1>1, <1>2, ExecutableFacts, OperandFacts DEF FieldOperands
<1>4. p \in Word /\ p > 0
  <2>1. p \in Word /\ p \in Int
    BY <1>2, WordFacts DEF ProcessorTypeOK
  <2>2. In(i, 1) \in 0 .. p - 1
    BY DEF FieldOperands, Field
  <2>3. QED
    BY <2>1, <2>2
<1>5. WriteReg(i, Rem(Wrap(x), p))
  <2>1. CASE i.op = "ADDP"
    BY <2>1, <1>1, FieldByOp DEF Exact
  <2>2. CASE i.op = "SUBP"
    BY <2>2, <1>1, FieldByOp DEF Exact
  <2>3. CASE i.op = "MULP"
    BY <2>3, <1>1, FieldByOp DEF Exact
  <2>4. QED
    BY <2>1, <2>2, <2>3 DEF FieldOperands
<1>6. regs'[RegOf(i.outputs[1])] = Rem(x, p)
  BY <1>2, <1>3, <1>5, WrapOfWord DEF WriteReg, ProcessorTypeOK
<1>7. QED
  BY <1>4, <1>6, RemLaw

\* For every width, every p_ and every program: on residues whose exact result
\* fits a word, ADDP, SUBP and MULP leave a value congruent to it modulo p_,
\* smaller than p_ in magnitude, and negative only if the exact result is.
THEOREM FieldOpsAreReduced == Spec => FieldOpsReduce
<1>1. IInv /\ [Next]_vars => [FieldStep(Reduces)]_vars
  BY FieldStepReduces DEF IInv
<1>2. QED
  BY Invariance, <1>1, PTL DEF Spec, FieldOpsReduce, Reduces

(***************************************************************************)
(* The tests of the class, and the programs that use every arithmetic       *)
(* executor: what each has left at each of its places.  TestsPass and       *)
(* ArithmeticLaws speak of the end alone and are not inductive.             *)
(***************************************************************************)
Inside(q) == status \in {"running", "returned"} /\ prog = q

\* A call returns at the end of its program.
ReturnedAtEnd == status = "returned" => pc >= Len(prog)

LoadStoreLeaves == Inside(LoadStore) =>
  /\ pc >= 1 => regs[3] = sram[5]
  /\ pc >= 2 => sram[23] = sram[5]

\* The first branch is taken, so that place 5 is skipped; the second is not.
BranchLeaves == Inside(Branch) =>
  /\ pc # 5
  /\ pc \in 1 .. 7 => regs[1] = 1
  /\ pc >= 2 => regs[3] = 5
  /\ pc >= 3 => regs[4] = 5
  /\ pc >= 4 => regs[5] = 10
  /\ pc >= 8 => regs[1] = 6
  /\ pc >= 9 => sram[23] = 6

AddPLeaves == Inside(AddP) =>
  /\ pc >= 1 => p = sram[0]
  /\ pc >= 2 => regs[1] = 23
  /\ pc >= 3 /\ sram[0] = 37 => regs[3] = 9
  /\ pc >= 4 /\ sram[0] = 37 => sram[16] = 9

\* Places 5 and 6 are the subroutine, 101 is where the test returns to.
SubroutineLeaves == Inside(Subroutine) =>
  /\ pc \in 0 .. 6 \cup {101}
  /\ pc \in {1, 5} => regs[1] = 1
  /\ pc \in {2, 6} => regs[1] = 2
  /\ pc \in {5, 6} => regs[10] = 1
  /\ pc \in {3, 4, 101} => sram[23] = 2
  /\ pc = 4 => regs[5] = 100

IntegerLeaves == Inside(Integer4) =>
  /\ pc >= 3 => regs[2] = Add(regs[0], regs[1])
  /\ pc >= 4 => regs[3] = Sub(regs[0], regs[1])
  /\ pc >= 5 => regs[4] = Mul(regs[0], regs[1])
  /\ pc >= 6 => regs[5] = Quot(regs[0], regs[1])

BitwiseLeaves == Inside(Bitwise4) =>
  /\ pc >= 3 => regs[2] = BitAnd(regs[0], regs[1])
  /\ pc >= 4 => regs[3] = BitOr(regs[0], regs[1])
  /\ pc >= 5 => regs[4] = BitXor(regs[0], regs[1])
  /\ pc >= 6 => regs[5] = BitNot(regs[0])

TestsInv ==
  /\ IInv
  /\ ReturnedAtEnd
  /\ LoadStoreLeaves /\ BranchLeaves /\ AddPLeaves /\ SubroutineLeaves
  /\ IntegerLeaves /\ BitwiseLeaves

\* What the tests name exists.
LEMMA TestNames ==
  /\ \A r \in 0 .. 10 : r \in Reg
  /\ \A a \in 0 .. 23 : a \in Addr
  /\ PcModulus \in Nat /\ PcModulus > 101 /\ Half \in Nat /\ Half > 101
BY TestsFit, SizeAssumption, PcAssumption, HalfFacts DEF Reg, Addr

\* Whatever happens, a program that was running or has returned was just called, stays
\* where it was, or executes an instruction.
LEMMA ProgramSteps ==
  ASSUME TypeOK, [Next]_vars, NEW q, Inside(q)'
  PROVE  \/ pc' = 0
         \/ Inside(q) /\ UNCHANGED <<sram, regs, p, pc>>
         \/ /\ Inside(q) /\ Step(q) /\ Execute(Fetch(q)) /\ Fetch(q) = q[pc + 1]
            /\ pc \in 0 .. Len(q) - 1 /\ pc \in Nat
<1>0. pc \in Nat
  BY PcAssumption DEF TypeOK, ProcessorTypeOK, Pc
<1>1. CASE \E w \in HostWrites : WriteSram(w)
  BY <1>1 DEF WriteSram, Inside
<1>2. CASE \E a \in Programs : Call(a)
  BY <1>2 DEF Call, RunProgram
<1>3. CASE Step(prog) /\ UNCHANGED prog
  <2>1. prog = q /\ status = "running" /\ pc < Len(q) /\ Execute(Fetch(q)) /\ Step(q)
    BY <1>3 DEF Inside, Step, Running
  <2>2. Len(q) \in Nat
    BY <2>1, ProgAddressable DEF Addressable, Program
  <2>3. QED
    BY <1>0, <2>1, <2>2 DEF Inside, Fetch
<1>4. CASE (Trap(prog) \/ Finish(prog)) /\ UNCHANGED prog
  BY <1>4 DEF Trap, Crash, Finish, Inside
<1>5. CASE UNCHANGED vars
  BY <1>5 DEF vars, procVars, Inside
<1>6. QED
  BY <1>1, <1>2, <1>3, <1>4, <1>5 DEF Next, RunStep

\* No executor changes where the owner's thread is.
LEMMA ReturnedAtEndKept == TypeOK /\ ReturnedAtEnd /\ [Next]_vars => ReturnedAtEnd'
<1> SUFFICES ASSUME TypeOK, ReturnedAtEnd, [Next]_vars PROVE ReturnedAtEnd'
  OBVIOUS
<1>1. CASE \E w \in HostWrites : WriteSram(w)
  BY <1>1 DEF WriteSram, ReturnedAtEnd
<1>2. CASE \E a \in Programs : Call(a)
  BY <1>2 DEF Call, RunProgram, ReturnedAtEnd
<1>3. CASE Step(prog) /\ UNCHANGED prog
  <2>1. status' = status /\ status = "running"
    BY <1>3 DEF Step, Running, Execute, Exec_LDP, Exec_SET, Exec_LD, Exec_ST, Exec_ADD,
      Exec_SUB, Exec_MUL, Exec_DIV, Exec_AND, Exec_OR, Exec_XOR, Exec_NOT, Exec_JAL, Exec_RET,
      Exec_BEQ, Exec_ADDP, Exec_SUBP, Exec_MULP, WriteReg
  <2>2. QED
    BY <2>1 DEF ReturnedAtEnd
<1>4. CASE (Trap(prog) \/ Finish(prog)) /\ UNCHANGED prog
  BY <1>4 DEF Trap, Crash, Finish, ReturnedAtEnd
<1>5. CASE UNCHANGED vars
  BY <1>5 DEF vars, procVars, ReturnedAtEnd
<1>6. QED
  BY <1>1, <1>2, <1>3, <1>4, <1>5 DEF Next, RunStep

(***************************************************************************)
(* The instructions of the programs, by their places.                       *)
(***************************************************************************)
LEMMA TestListing ==
  /\ Len(LoadStore) = 2
  /\ LoadStore[1] = Load(5, 3) /\ LoadStore[2] = Store(3, 23)
  /\ Len(Branch) = 9
  /\ Branch[1] = Set(1, 1) /\ Branch[2] = Set(5, 3) /\ Branch[3] = Set(5, 4)
  /\ Branch[4] = Set(10, 5) /\ Branch[5] = BranchEq(3, 4, "next")
  /\ Branch[6] = Op2("ADD", 5, 1, 1)
  /\ Branch[7] = At("next", Instr("BEQ", <<R(4), R(5)>>, <<R(1), L("done")>>))
  /\ Branch[8] = Op2("ADD", 4, 1, 1) /\ Branch[9] = At("done", Store(1, 23))
  /\ Len(AddP) = 4
  /\ AddP[1] = LoadPrime(0) /\ AddP[2] = Set(23, 1) /\ AddP[3] = Op2("ADDP", 1, 1, 3)
  /\ AddP[4] = Store(3, 16)
  /\ Len(Subroutine) = 7
  /\ Subroutine[1] = Set(1, 1) /\ Subroutine[2] = JumpLink("call_add", 10)
  /\ Subroutine[3] = Store(1, 23) /\ Subroutine[4] = Set(100, 5) /\ Subroutine[5] = Return(5)
  /\ Subroutine[6] = At("call_add", Op2("ADD", 1, 1, 1)) /\ Subroutine[7] = Return(10)
BY DEF LoadStore, Branch, AddP, Subroutine

\* The same of the arithmetic programs.
LEMMA ArithmeticListing ==
  /\ Len(Integer4) = 6
  /\ Integer4[1] = Load(1, 0) /\ Integer4[2] = Load(2, 1)
  /\ Integer4[3] = Op2("ADD", 0, 1, 2) /\ Integer4[4] = Op2("SUB", 0, 1, 3)
  /\ Integer4[5] = Op2("MUL", 0, 1, 4) /\ Integer4[6] = Op2("DIV", 0, 1, 5)
  /\ Len(Bitwise4) = 6
  /\ Bitwise4[1] = Load(1, 0) /\ Bitwise4[2] = Load(2, 1)
  /\ Bitwise4[3] = Op2("AND", 0, 1, 2) /\ Bitwise4[4] = Op2("OR", 0, 1, 3)
  /\ Bitwise4[5] = Op2("XOR", 0, 1, 4) /\ Bitwise4[6] = Instr("NOT", <<R(0)>>, <<R(5)>>)
BY DEF Integer4, Bitwise4, Operands

\* The label pass finds the labels of the tests where the text has them.
LEMMA TestLabels ==
  /\ Branch \in Program => "next" \in LabelsOf(Branch) /\ LastAt(Branch, "next") = 6
  /\ Subroutine \in Program =>
       "call_add" \in LabelsOf(Subroutine) /\ LastAt(Subroutine, "call_add") = 5
<1>1. ASSUME Branch \in Program
      PROVE  "next" \in LabelsOf(Branch) /\ LastAt(Branch, "next") = 6
  <2> DEFINE q == Branch
             j == LastAt(q, "next")
  <2>1. /\ q[1].label = "" /\ q[2].label = "" /\ q[3].label = "" /\ q[4].label = ""
        /\ q[5].label = "" /\ q[6].label = "" /\ q[8].label = ""
    <3>1. Set(1, 1).label = "" /\ Set(5, 3).label = "" /\ Set(5, 4).label = "" /\ Set(10, 5).label = ""
      BY SetUnlabelled
    <3>2. BranchEq(3, 4, "next").label = ""
      BY BranchUnlabelled
    <3>3. Op2("ADD", 5, 1, 1).label = "" /\ Op2("ADD", 4, 1, 1).label = ""
      BY Op2Unlabelled
    <3>4. QED
      BY <3>1, <3>2, <3>3, TestListing
  <2>2. q[7].label = "next"
    <3>1. \A i : At("next", Instr("BEQ", i, <<R(1), L("done")>>)).label = "next"
      BY DEF At, Instr
    <3>2. QED
      BY <3>1, TestListing
  <2>3. q[9].label = "done" /\ Len(q) = 9
    BY TestListing, StoreLabelled
  <2> HIDE DEF q
  <2>4. \A k \in 1 .. 9 : q[k].label = "next" => k = 7
    <3>1. \A k \in 1 .. 9 : k = 1 \/ k = 2 \/ k = 3 \/ k = 4 \/ k = 5 \/ k = 6 \/ k = 7 \/ k = 8 \/ k = 9
      OBVIOUS
    <3>2. QED
      BY <2>1, <2>3, <3>1
  <2>5. "next" \in LabelsOf(q)
    <3>1. 7 \in 1 .. Len(q)
      BY <2>3
    <3>2. QED
      BY <2>2, <3>1 DEF LabelsOf, NoLabel
  <2>6. j \in 0 .. Len(q) - 1 /\ q[j + 1].label = "next"
    BY <1>1, <2>5, LastAtFacts DEF q
  <2> HIDE DEF j
  <2>7. j + 1 \in 1 .. 9 /\ j \in Int
    BY <2>3, <2>6
  <2>8. j + 1 = 7
    BY <2>4, <2>6, <2>7
  <2>9. j = 6
    BY <2>7, <2>8
  <2>10. QED
    BY <2>5, <2>9 DEF j, q
<1>2. ASSUME Subroutine \in Program
      PROVE  "call_add" \in LabelsOf(Subroutine) /\ LastAt(Subroutine, "call_add") = 5
  <2> DEFINE q == Subroutine
             j == LastAt(q, "call_add")
  <2>1. /\ q[1].label = "" /\ q[2].label = "" /\ q[3].label = "" /\ q[4].label = ""
        /\ q[5].label = "" /\ q[7].label = ""
    <3>1. Set(1, 1).label = "" /\ Set(100, 5).label = ""
      BY SetUnlabelled
    <3>2. JumpLink("call_add", 10).label = "" /\ Store(1, 23).label = ""
      BY JumpUnlabelled, StoreUnlabelled
    <3>3. Return(5).label = "" /\ Return(10).label = ""
      BY ReturnUnlabelled
    <3>4. QED
      BY <3>1, <3>2, <3>3, TestListing
  <2>2. q[6].label = "call_add" /\ Len(q) = 7
    BY TestListing, Op2Labelled
  <2> HIDE DEF q
  <2>3. \A k \in 1 .. 7 : q[k].label = "call_add" => k = 6
    <3>1. \A k \in 1 .. 7 : k = 1 \/ k = 2 \/ k = 3 \/ k = 4 \/ k = 5 \/ k = 6 \/ k = 7
      OBVIOUS
    <3>2. QED
      BY <2>1, <3>1
  <2>4. "call_add" \in LabelsOf(q)
    <3>1. 6 \in 1 .. Len(q)
      BY <2>2
    <3>2. QED
      BY <2>2, <3>1 DEF LabelsOf, NoLabel
  <2>5. j \in 0 .. Len(q) - 1 /\ q[j + 1].label = "call_add"
    BY <1>2, <2>4, LastAtFacts DEF q
  <2> HIDE DEF j
  <2>6. j + 1 \in 1 .. 7 /\ j \in Int
    BY <2>2, <2>5
  <2>7. j + 1 = 6
    BY <2>3, <2>5, <2>6
  <2>8. j = 5
    BY <2>6, <2>7
  <2>9. QED
    BY <2>4, <2>8 DEF j, q
<1>3. QED
  BY <1>1, <1>2

\* A jump to a label of the running program finds it.
LEMMA JumpTarget ==
  ASSUME IInv, status = "running"
  PROVE  /\ prog = Branch => Target("next") = 6
         /\ prog = Subroutine => Target("call_add") = 5
<1>1. prog \in Program
  BY ProgAddressable DEF IInv, Addressable
<1>2. QED
  BY <1>1, TestLabels DEF IInv, LabelsMapped, Target

(***************************************************************************)
(* Each program keeps what it is to leave.                                  *)
(***************************************************************************)
\* The registers after an instruction that writes one, ...
LEMMA AfterWrote ==
  ASSUME TypeOK, NEW d \in Reg, NEW v, Wrote(d, v)
  PROVE  /\ regs'[d] = v
         /\ \A r \in Reg : r # d => regs'[r] = regs[r]
         /\ pc' = pc + 1 /\ sram' = sram /\ p' = p
BY DEF TypeOK, ProcessorTypeOK, Wrote

\* ... and the memory after a store.
LEMMA AfterStore ==
  ASSUME TypeOK, NEW i, Execute(i), NEW a \in Addr, NEW r, Is(i, Store(r, a))
  PROVE  /\ sram'[a] = regs[r]
         /\ \A b \in Addr : b # a => sram'[b] = sram[b]
         /\ pc' = pc + 1 /\ regs' = regs /\ p' = p
<1>1. sram' = [sram EXCEPT ![a] = regs[r]] /\ pc' = pc + 1 /\ UNCHANGED <<regs, p, status>>
  BY StoreEffect
<1>2. QED
  BY <1>1 DEF TypeOK, ProcessorTypeOK

\* The load and the store of the first test.
LEMMA LoadStoreKept == TypeOK /\ LoadStoreLeaves /\ [Next]_vars => LoadStoreLeaves'
<1> SUFFICES ASSUME TypeOK, LoadStoreLeaves, [Next]_vars, Inside(LoadStore)'
             PROVE  /\ pc' >= 1 => regs'[3] = sram'[5]
                    /\ pc' >= 2 => sram'[23] = sram'[5]
  BY DEF LoadStoreLeaves
<1> DEFINE i == Fetch(LoadStore)
<1>1. CASE pc' = 0
  BY <1>1
<1>2. CASE Inside(LoadStore) /\ UNCHANGED <<sram, regs, p, pc>>
  BY <1>2 DEF LoadStoreLeaves
<1>3. CASE /\ Inside(LoadStore) /\ Execute(i) /\ i = LoadStore[pc + 1]
           /\ pc \in 0 .. Len(LoadStore) - 1 /\ pc \in Nat
  <2> HIDE DEF i
  <2>1. pc = 0 \/ pc = 1
    BY <1>3, TestListing
  <2>2. CASE pc = 0
    <3>1. i = Load(5, 3)
      BY <1>3, <2>2, TestListing
    <3>2. Wrote(3, sram[5])
      BY <1>3, <3>1, IsItself, LoadEffect
    <3>3. regs'[3] = sram[5] /\ sram' = sram /\ pc' = 1
      BY <2>2, <3>2, AfterWrote, TestNames
    <3>4. QED
      BY <3>3
  <2>3. CASE pc = 1
    <3>1. i = Store(3, 23) /\ regs[3] = sram[5]
      BY <1>3, <2>3, TestListing DEF LoadStoreLeaves
    <3>2. 23 \in Addr /\ 5 \in Addr /\ Is(i, Store(3, 23))
      BY <3>1, TestNames, IsItself
    <3>3. sram'[23] = regs[3] /\ sram'[5] = sram[5] /\ regs' = regs
      BY <1>3, <3>2, AfterStore
    <3>4. QED
      BY <3>1, <3>3
  <2>4. QED
    BY <2>1, <2>2, <2>3
<1>4. QED
  BY <1>1, <1>2, <1>3, ProgramSteps

\* Small numbers are what they are in any word.
LEMMA SmallSums == \A n \in 0 .. 101 : Wrap(n) = n
<1> SUFFICES ASSUME NEW n \in 0 .. 101 PROVE Wrap(n) = n
  OBVIOUS
<1>1. n \in Word
  BY TestNames DEF Word
<1>2. QED
  BY <1>1, WrapOfWord

\* The branch that is taken and the one that is not.
LEMMA BranchKept == IInv /\ BranchLeaves /\ [Next]_vars => BranchLeaves'
<1> DEFINE i == Fetch(Branch)
           At5 == /\ pc # 5
                  /\ pc \in 1 .. 7 => regs[1] = 1
                  /\ pc >= 2 => regs[3] = 5
                  /\ pc >= 3 => regs[4] = 5
                  /\ pc >= 4 => regs[5] = 10
                  /\ pc >= 8 => regs[1] = 6
                  /\ pc >= 9 => sram[23] = 6
<1> SUFFICES ASSUME IInv, BranchLeaves, [Next]_vars, Inside(Branch)' PROVE At5'
  BY DEF BranchLeaves
<1>0. TypeOK /\ (Inside(Branch) => At5)
  BY DEF IInv, BranchLeaves
<1>1. CASE pc' = 0
  BY <1>1
<1>2. CASE Inside(Branch) /\ UNCHANGED <<sram, regs, p, pc>>
  BY <1>0, <1>2
<1>3. CASE /\ Inside(Branch) /\ Step(Branch) /\ Execute(i) /\ i = Branch[pc + 1]
           /\ pc \in 0 .. Len(Branch) - 1 /\ pc \in Nat
  <2> HIDE DEF i
  <2>0. \A d \in {1, 3, 4, 5} : d \in Reg
    BY TestNames
  <2>1. \/ pc = 0 \/ pc = 1 \/ pc = 2 \/ pc = 3 \/ pc = 4 \/ pc = 6 \/ pc = 7 \/ pc = 8
    BY <1>0, <1>3, TestListing
  <2>2. CASE pc = 0
    <3>1. i = Set(1, 1)
      BY <1>3, <2>2, TestListing
    <3>2. Wrote(1, 1)
      BY <1>3, <3>1, IsItself, LoadEffect
    <3>3. regs'[1] = 1 /\ pc' = 1
      BY <1>0, <2>0, <2>2, <3>2, AfterWrote
    <3>4. QED
      BY <3>3
  <2>3. CASE pc = 1
    <3>1. i = Set(5, 3)
      BY <1>3, <2>3, TestListing
    <3>2. Wrote(3, 5)
      BY <1>3, <3>1, IsItself, LoadEffect
    <3>3. regs'[3] = 5 /\ regs'[1] = regs[1] /\ pc' = 2
      BY <1>0, <2>0, <2>3, <3>2, AfterWrote
    <3>4. QED
      BY <1>0, <1>3, <2>3, <3>3
  <2>4. CASE pc = 2
    <3>1. i = Set(5, 4)
      BY <1>3, <2>4, TestListing
    <3>2. Wrote(4, 5)
      BY <1>3, <3>1, IsItself, LoadEffect
    <3>3. regs'[4] = 5 /\ regs'[1] = regs[1] /\ regs'[3] = regs[3] /\ pc' = 3
      BY <1>0, <2>0, <2>4, <3>2, AfterWrote
    <3>4. QED
      BY <1>0, <1>3, <2>4, <3>3
  <2>5. CASE pc = 3
    <3>1. i = Set(10, 5)
      BY <1>3, <2>5, TestListing
    <3>2. Wrote(5, 10)
      BY <1>3, <3>1, IsItself, LoadEffect
    <3>3. regs'[5] = 10 /\ regs'[1] = regs[1] /\ regs'[3] = regs[3] /\ regs'[4] = regs[4] /\ pc' = 4
      BY <1>0, <2>0, <2>5, <3>2, AfterWrote
    <3>4. QED
      BY <1>0, <1>3, <2>5, <3>3
  <2>6. CASE pc = 4
    <3>1. i = BranchEq(3, 4, "next")
      BY <1>3, <2>6, TestListing
    <3>2. Branched(3, 4, "next")
      BY <1>3, <3>1, IsItself, BranchEffect
    <3>3. Target("next") = 6 /\ regs[3] = regs[4]
      BY <1>0, <1>3, <2>6, JumpTarget DEF Step, Running, Inside
    <3>4. pc' = 6 /\ UNCHANGED <<sram, regs>>
      BY <3>2, <3>3 DEF Branched
    <3>5. QED
      BY <1>0, <1>3, <2>6, <3>4
  <2>7. CASE pc = 6
    <3>1. i = At("next", Instr("BEQ", <<R(4), R(5)>>, <<R(1), L("done")>>))
      BY <1>3, <2>7, TestListing
    <3>2. i.op = "BEQ" /\ In(i, 1) = regs[4] /\ In(i, 2) = regs[5]
      BY <3>1 DEF At, Instr, In, RegOf, R
    <3>3. regs[4] # regs[5]
      BY <1>0, <1>3, <2>7
    <3>4. pc' = 7 /\ UNCHANGED <<sram, regs>>
      BY <1>3, <2>7, <3>2, <3>3, ExecuteByOp DEF Exec_BEQ, Advance
    <3>5. QED
      BY <1>0, <1>3, <2>7, <3>4
  <2>8. CASE pc = 7
    <3>1. i = Op2("ADD", 4, 1, 1)
      BY <1>3, <2>8, TestListing
    <3>2. Wrote(1, Add(regs[4], regs[1]))
      BY <1>3, <3>1, IsItself, Op2Effect
    <3>3. Add(regs[4], regs[1]) = 6
      <4>1. regs[4] = 5 /\ regs[1] = 1
        BY <1>0, <1>3, <2>8
      <4>2. QED
        BY <4>1, SmallSums DEF Add
    <3>4. regs'[1] = 6 /\ regs'[3] = regs[3] /\ regs'[4] = regs[4] /\ regs'[5] = regs[5] /\ pc' = 8
      BY <1>0, <2>0, <2>8, <3>2, <3>3, AfterWrote
    <3>5. QED
      BY <1>0, <1>3, <2>8, <3>4
  <2>9. CASE pc = 8
    <3>1. i = At("done", Store(1, 23))
      BY <1>3, <2>9, TestListing
    <3>2. Is(i, Store(1, 23))
      BY <3>1, AtIs
    <3>3. 23 \in Addr
      BY TestNames
    <3>4. sram'[23] = regs[1] /\ regs' = regs /\ pc' = 9
      BY <1>0, <1>3, <2>9, <3>2, <3>3, AfterStore
    <3>5. QED
      BY <1>0, <1>3, <2>9, <3>4
  <2>10. QED
    BY <2>1, <2>2, <2>3, <2>4, <2>5, <2>6, <2>7, <2>8, <2>9
<1>4. QED
  BY <1>0, <1>1, <1>2, <1>3, ProgramSteps

\* 23 + 23 modulo 37.
LEMMA NineIsLeft == Rem(Add(23, 23), 37) = 9
<1>1. Add(23, 23) = 46
  BY SmallSums DEF Add
<1>2. Quot(46, 37) = 1
  <2>1. Magnitude(46) \div Magnitude(37) = 1
    BY DEF Magnitude
  <2>2. Quot(46, 37) = Wrap(1)
    BY <2>1 DEF Quot
  <2>3. QED
    BY <2>2, SmallSums
<1>3. Rem(46, 37) = Wrap(9)
  BY <1>2 DEF Rem
<1>4. QED
  BY <1>1, <1>3, SmallSums

\* The sum in the prime field that the owner stored.
LEMMA AddPKept == IInv /\ AddPLeaves /\ [Next]_vars => AddPLeaves'
<1> DEFINE i == Fetch(AddP)
           Left == /\ pc >= 1 => p = sram[0]
                   /\ pc >= 2 => regs[1] = 23
                   /\ pc >= 3 /\ sram[0] = 37 => regs[3] = 9
                   /\ pc >= 4 /\ sram[0] = 37 => sram[16] = 9
<1> SUFFICES ASSUME IInv, AddPLeaves, [Next]_vars, Inside(AddP)' PROVE Left'
  BY DEF AddPLeaves
<1>0. TypeOK /\ (Inside(AddP) => Left)
  BY DEF IInv, AddPLeaves
<1>1. CASE pc' = 0
  BY <1>1
<1>2. CASE Inside(AddP) /\ UNCHANGED <<sram, regs, p, pc>>
  BY <1>0, <1>2
<1>3. CASE /\ Inside(AddP) /\ Execute(i) /\ i = AddP[pc + 1]
           /\ pc \in 0 .. Len(AddP) - 1 /\ pc \in Nat
  <2> HIDE DEF i
  <2>0. 1 \in Reg /\ 3 \in Reg /\ 0 \in Addr /\ 16 \in Addr
    BY TestNames
  <2>1. pc = 0 \/ pc = 1 \/ pc = 2 \/ pc = 3
    BY <1>3, TestListing
  <2>2. CASE pc = 0
    <3>1. i = LoadPrime(0)
      BY <1>3, <2>2, TestListing
    <3>2. p' = sram[0] /\ pc' = 1 /\ sram' = sram
      BY <1>3, <2>2, <3>1, IsItself, LoadEffect
    <3>3. QED
      BY <3>2
  <2>3. CASE pc = 1
    <3>1. i = Set(23, 1)
      BY <1>3, <2>3, TestListing
    <3>2. Wrote(1, 23)
      BY <1>3, <3>1, IsItself, LoadEffect
    <3>3. regs'[1] = 23 /\ pc' = 2 /\ sram' = sram /\ p' = p
      BY <1>0, <2>0, <2>3, <3>2, AfterWrote
    <3>4. QED
      BY <1>0, <1>3, <2>3, <3>3
  <2>4. CASE pc = 2
    <3>1. i = Op2("ADDP", 1, 1, 3)
      BY <1>3, <2>4, TestListing
    <3>2. Wrote(3, Rem(Add(regs[1], regs[1]), p))
      BY <1>3, <3>1, IsItself, Op2Effect
    <3>3. regs'[3] = Rem(Add(regs[1], regs[1]), p) /\ regs'[1] = regs[1] /\ pc' = 3
          /\ sram' = sram /\ p' = p
      BY <1>0, <2>0, <2>4, <3>2, AfterWrote
    <3>4. regs[1] = 23 /\ p = sram[0]
      BY <1>0, <1>3, <2>4
    <3>5. QED
      BY <3>3, <3>4, NineIsLeft
  <2>5. CASE pc = 3
    <3>1. i = Store(3, 16)
      BY <1>3, <2>5, TestListing
    <3>2. Is(i, Store(3, 16))
      BY <3>1, IsItself
    <3>3. sram'[16] = regs[3] /\ sram'[0] = sram[0] /\ regs' = regs /\ p' = p /\ pc' = 4
      BY <1>0, <1>3, <2>0, <2>5, <3>2, AfterStore
    <3>4. QED
      BY <1>0, <1>3, <2>5, <3>3
  <2>6. QED
    BY <2>1, <2>2, <2>3, <2>4, <2>5
<1>4. QED
  BY <1>0, <1>1, <1>2, <1>3, ProgramSteps

\* The call of the subroutine, the return from it and the return of the test to a place
\* behind the program.
LEMMA SubroutineKept == IInv /\ SubroutineLeaves /\ [Next]_vars => SubroutineLeaves'
<1> DEFINE i == Fetch(Subroutine)
           Left == /\ pc \in 0 .. 6 \cup {101}
                   /\ pc \in {1, 5} => regs[1] = 1
                   /\ pc \in {2, 6} => regs[1] = 2
                   /\ pc \in {5, 6} => regs[10] = 1
                   /\ pc \in {3, 4, 101} => sram[23] = 2
                   /\ pc = 4 => regs[5] = 100
<1> SUFFICES ASSUME IInv, SubroutineLeaves, [Next]_vars, Inside(Subroutine)' PROVE Left'
  BY DEF SubroutineLeaves
<1>0. TypeOK /\ (Inside(Subroutine) => Left)
  BY DEF IInv, SubroutineLeaves
<1>1. CASE pc' = 0
  BY <1>1
<1>2. CASE Inside(Subroutine) /\ UNCHANGED <<sram, regs, p, pc>>
  BY <1>0, <1>2
<1>3. CASE /\ Inside(Subroutine) /\ Step(Subroutine) /\ Execute(i) /\ i = Subroutine[pc + 1]
           /\ pc \in 0 .. Len(Subroutine) - 1 /\ pc \in Nat
  <2> HIDE DEF i
  <2>0. 1 \in Reg /\ 5 \in Reg /\ 10 \in Reg /\ 23 \in Addr
    BY TestNames
  <2>1. pc = 0 \/ pc = 1 \/ pc = 2 \/ pc = 3 \/ pc = 4 \/ pc = 5 \/ pc = 6
    BY <1>3, TestListing
  <2>a. \A n \in 0 .. 101 : n % PcModulus = n
    <3>1. \A n \in 0 .. 101 : n \in 0 .. PcModulus - 1
      BY TestNames
    <3>2. PcModulus \in Nat \ {0}
      BY TestNames
    <3>3. QED
      BY <3>1, <3>2, ResidueIsItself
  <2>2. CASE pc = 0
    <3>1. i = Set(1, 1)
      BY <1>3, <2>2, TestListing
    <3>2. Wrote(1, 1)
      BY <1>3, <3>1, IsItself, LoadEffect
    <3>3. regs'[1] = 1 /\ pc' = 1
      BY <1>0, <2>0, <2>2, <3>2, AfterWrote
    <3>4. QED
      BY <3>3
  <2>3. CASE pc = 1
    <3>1. i = JumpLink("call_add", 10)
      BY <1>3, <2>3, TestListing
    <3>2. regs' = [regs EXCEPT ![10] = pc] /\ pc' = Target("call_add")
      BY <1>3, <3>1, IsItself, JumpLinkEffect
    <3>3. pc' = 5
      BY <1>3, <3>2, JumpTarget DEF Step, Running, Inside
    <3>4. regs'[10] = 1 /\ regs'[1] = regs[1]
      BY <1>0, <2>0, <2>3, <3>2 DEF TypeOK, ProcessorTypeOK
    <3>5. QED
      BY <1>0, <1>3, <2>3, <3>3, <3>4
  <2>4. CASE pc = 2
    <3>1. i = Store(1, 23)
      BY <1>3, <2>4, TestListing
    <3>2. Is(i, Store(1, 23))
      BY <3>1, IsItself
    <3>3. sram'[23] = regs[1] /\ pc' = 3
      BY <1>0, <1>3, <2>0, <2>4, <3>2, AfterStore
    <3>4. QED
      BY <1>0, <1>3, <2>4, <3>3
  <2>5. CASE pc = 3
    <3>1. i = Set(100, 5)
      BY <1>3, <2>5, TestListing
    <3>2. Wrote(5, 100)
      BY <1>3, <3>1, IsItself, LoadEffect
    <3>3. regs'[5] = 100 /\ pc' = 4 /\ sram' = sram
      BY <1>0, <2>0, <2>5, <3>2, AfterWrote
    <3>4. QED
      BY <1>0, <1>3, <2>5, <3>3
  <2>6. CASE pc = 4
    <3>1. i = Return(5) /\ regs[5] = 100
      BY <1>0, <1>3, <2>6, TestListing
    <3>2. pc' = Add(regs[5], 1) % PcModulus /\ sram' = sram
      BY <1>3, <3>1, IsItself, ReturnEffect
    <3>3. Add(100, 1) = 101
      BY SmallSums DEF Add
    <3>4. pc' = 101
      BY <2>a, <3>1, <3>2, <3>3
    <3>5. QED
      BY <1>0, <1>3, <2>6, <3>2, <3>4
  <2>7. CASE pc = 5
    <3>1. i = At("call_add", Op2("ADD", 1, 1, 1)) /\ regs[1] = 1
      BY <1>0, <1>3, <2>7, TestListing
    <3>2. Is(i, Op2("ADD", 1, 1, 1))
      BY <3>1, AtIs
    <3>3. Wrote(1, Add(regs[1], regs[1]))
      BY <1>3, <3>2, Op2Effect
    <3>4. Add(1, 1) = 2
      BY SmallSums DEF Add
    <3>5. regs'[1] = 2 /\ regs'[10] = regs[10] /\ pc' = 6
      BY <1>0, <2>0, <2>7, <3>1, <3>3, <3>4, AfterWrote
    <3>6. QED
      BY <1>0, <1>3, <2>7, <3>5
  <2>8. CASE pc = 6
    <3>1. i = Return(10) /\ regs[10] = 1
      BY <1>0, <1>3, <2>8, TestListing
    <3>2. pc' = Add(regs[10], 1) % PcModulus /\ regs' = regs
      BY <1>3, <3>1, IsItself, ReturnEffect
    <3>3. Add(1, 1) = 2
      BY SmallSums DEF Add
    <3>4. pc' = 2
      BY <2>a, <3>1, <3>2, <3>3
    <3>5. QED
      BY <1>0, <1>3, <2>8, <3>2, <3>4
  <2>9. QED
    BY <2>1, <2>2, <2>3, <2>4, <2>5, <2>6, <2>7, <2>8
<1>4. QED
  BY <1>0, <1>1, <1>2, <1>3, ProgramSteps

\* Each operation of integers writes a register of its own.
LEMMA IntegerKept == TypeOK /\ IntegerLeaves /\ [Next]_vars => IntegerLeaves'
<1> DEFINE i == Fetch(Integer4)
           Left == /\ pc >= 3 => regs[2] = Add(regs[0], regs[1])
                   /\ pc >= 4 => regs[3] = Sub(regs[0], regs[1])
                   /\ pc >= 5 => regs[4] = Mul(regs[0], regs[1])
                   /\ pc >= 6 => regs[5] = Quot(regs[0], regs[1])
<1> SUFFICES ASSUME TypeOK, IntegerLeaves, [Next]_vars, Inside(Integer4)' PROVE Left'
  BY DEF IntegerLeaves
<1>0. Inside(Integer4) => Left
  BY DEF IntegerLeaves
<1>1. CASE pc' = 0
  BY <1>1
<1>2. CASE Inside(Integer4) /\ UNCHANGED <<sram, regs, p, pc>>
  BY <1>0, <1>2
<1>3. CASE /\ Inside(Integer4) /\ Execute(i) /\ i = Integer4[pc + 1]
           /\ pc \in 0 .. Len(Integer4) - 1 /\ pc \in Nat
  <2> HIDE DEF i
  <2>0. \A d \in 0 .. 5 : d \in Reg
    BY TestNames
  <2>1. pc = 0 \/ pc = 1 \/ pc = 2 \/ pc = 3 \/ pc = 4 \/ pc = 5
    BY <1>3, ArithmeticListing
  <2>2. CASE pc \in 0 .. 1
    <3>1. i = Load(1, 0) \/ i = Load(2, 1)
      BY <1>3, <2>1, <2>2, ArithmeticListing
    <3>2. pc' = pc + 1
      BY <1>3, <3>1, IsItself, LoadEffect DEF Wrote
    <3>3. QED
      BY <2>2, <3>2
  <2>3. CASE pc = 2
    <3>1. i = Op2("ADD", 0, 1, 2)
      BY <1>3, <2>3, ArithmeticListing
    <3>2. Wrote(2, Add(regs[0], regs[1]))
      BY <1>3, <3>1, IsItself, Op2Effect
    <3>3. regs'[2] = Add(regs[0], regs[1]) /\ regs'[0] = regs[0] /\ regs'[1] = regs[1] /\ pc' = 3
      BY <2>0, <2>3, <3>2, AfterWrote
    <3>4. QED
      BY <3>3
  <2>4. CASE pc = 3
    <3>1. i = Op2("SUB", 0, 1, 3)
      BY <1>3, <2>4, ArithmeticListing
    <3>2. Wrote(3, Sub(regs[0], regs[1]))
      BY <1>3, <3>1, IsItself, Op2Effect
    <3>3. regs'[3] = Sub(regs[0], regs[1]) /\ regs'[0] = regs[0] /\ regs'[1] = regs[1]
          /\ regs'[2] = regs[2] /\ pc' = 4
      BY <2>0, <2>4, <3>2, AfterWrote
    <3>4. QED
      BY <1>0, <1>3, <2>4, <3>3
  <2>5. CASE pc = 4
    <3>1. i = Op2("MUL", 0, 1, 4)
      BY <1>3, <2>5, ArithmeticListing
    <3>2. Wrote(4, Mul(regs[0], regs[1]))
      BY <1>3, <3>1, IsItself, Op2Effect
    <3>3. regs'[4] = Mul(regs[0], regs[1]) /\ regs'[0] = regs[0] /\ regs'[1] = regs[1]
          /\ regs'[2] = regs[2] /\ regs'[3] = regs[3] /\ pc' = 5
      BY <2>0, <2>5, <3>2, AfterWrote
    <3>4. QED
      BY <1>0, <1>3, <2>5, <3>3
  <2>6. CASE pc = 5
    <3>1. i = Op2("DIV", 0, 1, 5)
      BY <1>3, <2>6, ArithmeticListing
    <3>2. Wrote(5, Quot(regs[0], regs[1]))
      BY <1>3, <3>1, IsItself, Op2Effect
    <3>3. regs'[5] = Quot(regs[0], regs[1]) /\ regs'[0] = regs[0] /\ regs'[1] = regs[1]
          /\ regs'[2] = regs[2] /\ regs'[3] = regs[3] /\ regs'[4] = regs[4] /\ pc' = 6
      BY <2>0, <2>6, <3>2, AfterWrote
    <3>4. QED
      BY <1>0, <1>3, <2>6, <3>3
  <2>7. QED
    BY <2>1, <2>2, <2>3, <2>4, <2>5, <2>6
<1>4. QED
  BY <1>1, <1>2, <1>3, ProgramSteps

\* So does each bitwise operation.
LEMMA BitwiseKept == TypeOK /\ BitwiseLeaves /\ [Next]_vars => BitwiseLeaves'
<1> DEFINE i == Fetch(Bitwise4)
           Left == /\ pc >= 3 => regs[2] = BitAnd(regs[0], regs[1])
                   /\ pc >= 4 => regs[3] = BitOr(regs[0], regs[1])
                   /\ pc >= 5 => regs[4] = BitXor(regs[0], regs[1])
                   /\ pc >= 6 => regs[5] = BitNot(regs[0])
<1> SUFFICES ASSUME TypeOK, BitwiseLeaves, [Next]_vars, Inside(Bitwise4)' PROVE Left'
  BY DEF BitwiseLeaves
<1>0. Inside(Bitwise4) => Left
  BY DEF BitwiseLeaves
<1>1. CASE pc' = 0
  BY <1>1
<1>2. CASE Inside(Bitwise4) /\ UNCHANGED <<sram, regs, p, pc>>
  BY <1>0, <1>2
<1>3. CASE /\ Inside(Bitwise4) /\ Execute(i) /\ i = Bitwise4[pc + 1]
           /\ pc \in 0 .. Len(Bitwise4) - 1 /\ pc \in Nat
  <2> HIDE DEF i
  <2>0. \A d \in 0 .. 5 : d \in Reg
    BY TestNames
  <2>1. pc = 0 \/ pc = 1 \/ pc = 2 \/ pc = 3 \/ pc = 4 \/ pc = 5
    BY <1>3, ArithmeticListing
  <2>2. CASE pc \in 0 .. 1
    <3>1. i = Load(1, 0) \/ i = Load(2, 1)
      BY <1>3, <2>1, <2>2, ArithmeticListing
    <3>2. pc' = pc + 1
      BY <1>3, <3>1, IsItself, LoadEffect DEF Wrote
    <3>3. QED
      BY <2>2, <3>2
  <2>3. CASE pc = 2
    <3>1. i = Op2("AND", 0, 1, 2)
      BY <1>3, <2>3, ArithmeticListing
    <3>2. Wrote(2, BitAnd(regs[0], regs[1]))
      BY <1>3, <3>1, IsItself, Op2Effect
    <3>3. regs'[2] = BitAnd(regs[0], regs[1]) /\ regs'[0] = regs[0] /\ regs'[1] = regs[1] /\ pc' = 3
      BY <2>0, <2>3, <3>2, AfterWrote
    <3>4. QED
      BY <3>3
  <2>4. CASE pc = 3
    <3>1. i = Op2("OR", 0, 1, 3)
      BY <1>3, <2>4, ArithmeticListing
    <3>2. Wrote(3, BitOr(regs[0], regs[1]))
      BY <1>3, <3>1, IsItself, Op2Effect
    <3>3. regs'[3] = BitOr(regs[0], regs[1]) /\ regs'[0] = regs[0] /\ regs'[1] = regs[1]
          /\ regs'[2] = regs[2] /\ pc' = 4
      BY <2>0, <2>4, <3>2, AfterWrote
    <3>4. QED
      BY <1>0, <1>3, <2>4, <3>3
  <2>5. CASE pc = 4
    <3>1. i = Op2("XOR", 0, 1, 4)
      BY <1>3, <2>5, ArithmeticListing
    <3>2. Wrote(4, BitXor(regs[0], regs[1]))
      BY <1>3, <3>1, IsItself, Op2Effect
    <3>3. regs'[4] = BitXor(regs[0], regs[1]) /\ regs'[0] = regs[0] /\ regs'[1] = regs[1]
          /\ regs'[2] = regs[2] /\ regs'[3] = regs[3] /\ pc' = 5
      BY <2>0, <2>5, <3>2, AfterWrote
    <3>4. QED
      BY <1>0, <1>3, <2>5, <3>3
  <2>6. CASE pc = 5
    <3>1. i = Instr("NOT", <<R(0)>>, <<R(5)>>)
      BY <1>3, <2>6, ArithmeticListing
    <3>2. Wrote(5, BitNot(regs[0]))
      BY <1>3, <3>1, NotEffect
    <3>3. regs'[5] = BitNot(regs[0]) /\ regs'[0] = regs[0] /\ regs'[1] = regs[1]
          /\ regs'[2] = regs[2] /\ regs'[3] = regs[3] /\ regs'[4] = regs[4] /\ pc' = 6
      BY <2>0, <2>6, <3>2, AfterWrote
    <3>4. QED
      BY <1>0, <1>3, <2>6, <3>3
  <2>7. QED
    BY <2>1, <2>2, <2>3, <2>4, <2>5, <2>6
<1>4. QED
  BY <1>1, <1>2, <1>3, ProgramSteps

\* What a program leaves at each place is an invariant.
LEMMA TestsInvariance == Spec => []TestsInv
<1>1. Init => TestsInv
  BY InitIInv DEF TestsInv, Init, ProcessorInit, Inside, ReturnedAtEnd, LoadStoreLeaves,
     BranchLeaves, AddPLeaves, SubroutineLeaves, IntegerLeaves, BitwiseLeaves
<1>2. TestsInv /\ [Next]_vars => TestsInv'
  <2>1. TestsInv => TypeOK
    BY DEF TestsInv, IInv
  <2>2. IInv /\ [Next]_vars => IInv'
    BY TypeOKStep, LabelsMappedStep, LabelsHaveOriginStep DEF IInv
  <2>3. QED
    BY <2>1, <2>2, ReturnedAtEndKept, LoadStoreKept, BranchKept, AddPKept, SubroutineKept,
       IntegerKept, BitwiseKept DEF TestsInv
<1>3. QED
  BY <1>1, <1>2, PTL DEF Spec

\* The assertions of the tests hold for every width of a word, size of the memory and set
\* of programs, however the object was used before.
THEOREM TestsAlwaysPass == Spec => []TestsPass
<1>1. TestsInv => TestsPass
  <2> SUFFICES ASSUME TestsInv, status = "returned"
               PROVE  /\ prog = LoadStore => sram[23] = sram[5]
                      /\ prog = Branch => sram[23] = 6
                      /\ prog = AddP /\ sram[0] = 37 => sram[16] = 9
                      /\ prog = Subroutine => sram[23] = 2
    BY DEF TestsPass
  <2>1. pc >= Len(prog) /\ pc \in Nat /\ Inside(prog)
    BY PcAssumption DEF TestsInv, ReturnedAtEnd, IInv, TypeOK, ProcessorTypeOK, Pc, Inside
  <2>2. prog = LoadStore => sram[23] = sram[5]
    BY <2>1, TestListing DEF TestsInv, LoadStoreLeaves
  <2>3. prog = Branch => sram[23] = 6
    BY <2>1, TestListing DEF TestsInv, BranchLeaves
  <2>4. prog = AddP /\ sram[0] = 37 => sram[16] = 9
    BY <2>1, TestListing DEF TestsInv, AddPLeaves
  <2>5. prog = Subroutine => sram[23] = 2
    <3>1. SUFFICES ASSUME prog = Subroutine PROVE sram[23] = 2
      OBVIOUS
    <3>2. pc >= 7 /\ pc \in 0 .. 6 \cup {101} /\ (pc \in {3, 4, 101} => sram[23] = 2)
      BY <2>1, <3>1, TestListing DEF TestsInv, SubroutineLeaves
    <3>3. QED
      BY <3>2
  <2>6. QED
    BY <2>2, <2>3, <2>4, <2>5
<1>2. QED
  BY <1>1, TestsInvariance, PTL

\* Every width of a word: the integer and bitwise executors leave what exact arithmetic
\* says, sums, differences and products modulo 2^WordBits, quotients truncated toward zero.
THEOREM ArithmeticIsExact == Spec => []ArithmeticLaws
<1>1. TestsInv => ArithmeticLaws
  <2> SUFFICES ASSUME TestsInv, status = "returned" PROVE ArithmeticLaws
    BY DEF ArithmeticLaws
  <2> DEFINE a == regs[0]
             b == regs[1]
  <2>1. pc >= Len(prog) /\ pc \in Nat /\ Inside(prog)
    BY PcAssumption DEF TestsInv, ReturnedAtEnd, IInv, TypeOK, ProcessorTypeOK, Pc, Inside
  <2>2. a \in Word /\ b \in Word /\ a \in Int /\ b \in Int
    <3>1. 0 \in Reg /\ 1 \in Reg /\ regs \in [Reg -> Word]
      BY TestNames DEF TestsInv, IInv, TypeOK, ProcessorTypeOK
    <3>2. a \in Word /\ b \in Word
      BY <3>1
    <3>3. QED
      BY <3>2, WordFacts
  <2>3. ASSUME prog = Integer4
        PROVE  /\ Congruent(regs[2], a + b) /\ Congruent(regs[3], a - b)
               /\ Congruent(regs[4], a * b)
               /\ ~DivUndefined(a, b) =>
                    LET r == a - b * regs[5]
                    IN  Magnitude(r) < Magnitude(b) /\ r * a >= 0
    <3>1. /\ regs[2] = Wrap(a + b) /\ regs[3] = Wrap(a - b) /\ regs[4] = Wrap(a * b)
          /\ regs[5] = Quot(a, b)
      BY <2>1, <2>3, ArithmeticListing DEF TestsInv, IntegerLeaves, Add, Sub, Mul
    <3>2. a + b \in Int /\ a - b \in Int /\ a * b \in Int
      BY <2>2
    <3> HIDE DEF a, b
    <3>3. Congruent(Wrap(a + b), a + b) /\ Congruent(Wrap(a - b), a - b)
          /\ Congruent(Wrap(a * b), a * b)
      BY <3>2, WrapIsCongruent DEF Congruent
    <3>4. QED
      BY <2>2, <3>1, <3>3, DivisionTruncates
  <2>4. ASSUME prog = Bitwise4
        PROVE  regs[2] + regs[3] = a + b /\ regs[4] = regs[3] - regs[2] /\ regs[5] = -a - 1
    <3>1. /\ regs[2] = BitAnd(a, b) /\ regs[3] = BitOr(a, b) /\ regs[4] = BitXor(a, b)
          /\ regs[5] = BitNot(a)
      BY <2>1, <2>4, ArithmeticListing DEF TestsInv, BitwiseLeaves
    <3> HIDE DEF a, b
    <3>2. QED
      BY <2>2, <3>1, BitwiseSums
  <2>5. QED
    BY <2>3, <2>4 DEF ArithmeticLaws
<1>2. QED
  BY <1>1, TestsInvariance, PTL

(***************************************************************************)
(* Comparison of floats, for any numbers of exponent and of fraction bits.  *)
(* Position counts the numbers from zero, upwards and downwards.            *)
(***************************************************************************)
Position(x) == IF sign_bit(x) THEN -magnitude(x) ELSE magnitude(x)

\* What a magnitude stands for, and what a position does.
Size(m) ==
  IF m \div 2^kFractionBitCount = 0 THEN 2 * (m % 2^kFractionBitCount)
  ELSE (2^kFractionBitCount + (m % 2^kFractionBitCount)) * 2^(m \div 2^kFractionBitCount)
SizeAt(j) == IF j < 0 THEN -Size(-j) ELSE Size(j)

\* The position of infinity.
Infinity == (2^kExponentBitCount - 1) * 2^kFractionBitCount

LEMMA FormatFacts ==
  /\ 2^kFractionBitCount \in Nat \ {0} /\ 2^kExponentBitCount \in Nat \ {0, 1}
  /\ kSignBitMask = 2^kExponentBitCount * 2^kFractionBitCount
  /\ kSignBitMask \in Nat \ {0}
  /\ kSignBitMask = Infinity + 2^kFractionBitCount
  /\ Infinity \in Nat /\ Infinity < kSignBitMask
<1> DEFINE F == 2^kFractionBitCount
           E == 2^kExponentBitCount
<1>1. F \in Nat \ {0} /\ E \in Nat \ {0, 1} /\ kSignBitMask = E * F
  BY FormatPowers DEF kSignBitMask
<1>2. Infinity = (E - 1) * F
  BY DEF Infinity
<1> HIDE DEF F, E
<1>3. E * F = (E - 1) * F + F /\ (E - 1) * F \in Nat
  BY <1>1
<1>4. QED
  BY <1>1, <1>2, <1>3 DEF F, E

\* The fields of a magnitude.
LEMMA FieldsAre ==
  ASSUME NEW m \in 0 .. kSignBitMask - 1
  PROVE  /\ m = 2^kFractionBitCount * (m \div 2^kFractionBitCount) + (m % 2^kFractionBitCount)
         /\ m % 2^kFractionBitCount \in 0 .. 2^kFractionBitCount - 1
         /\ m \div 2^kFractionBitCount \in 0 .. 2^kExponentBitCount - 1
<1> DEFINE F == 2^kFractionBitCount
           E == 2^kExponentBitCount
           e == m \div F
           f == m % F
<1>1. F \in Nat \ {0} /\ E \in Nat \ {0, 1} /\ m \in 0 .. E * F - 1 /\ m \in Int
  BY FormatFacts
<1>2. m = F * e + f /\ f \in 0 .. F - 1 /\ e \in Int
  BY <1>1, DivMod
<1> HIDE DEF F, E, e, f
<1>3. ASSUME e < 0 PROVE FALSE
  <2>1. F * e <= F * (-1)
    BY <1>1, <1>2, <1>3
  <2>2. QED
    BY <1>1, <1>2, <2>1
<1>4. ASSUME e >= E PROVE FALSE
  <2>1. F * e >= F * E /\ F * E = E * F
    BY <1>1, <1>2, <1>4
  <2>2. QED
    BY <1>1, <1>2, <2>1
<1>5. e \in 0 .. E - 1
  BY <1>1, <1>2, <1>3, <1>4
<1>6. QED
  BY <1>2, <1>5 DEF F, E, e, f

\* The next magnitude has the next fraction, or the next exponent.
LEMMA NextFields ==
  ASSUME NEW m \in 0 .. kSignBitMask - 2
  PROVE  LET F == 2^kFractionBitCount
             e == m \div F
             f == m % F
         IN  \/ f + 1 < F /\ (m + 1) \div F = e /\ (m + 1) % F = f + 1
             \/ f = F - 1 /\ (m + 1) \div F = e + 1 /\ (m + 1) % F = 0
<1> DEFINE F == 2^kFractionBitCount
           e == m \div F
           f == m % F
<1>1. F \in Nat \ {0} /\ m = F * e + f /\ f \in 0 .. F - 1 /\ e \in Int
  BY FormatFacts, FieldsAre
<1> HIDE DEF F, e, f
<1>2. CASE f + 1 < F
  <2>1. m + 1 = F * e + (f + 1) /\ f + 1 \in 0 .. F - 1
    BY <1>1, <1>2
  <2>2. QED
    BY <1>1, <1>2, <2>1, RemainderIsUnique DEF F, e, f
<1>3. CASE f = F - 1
  <2>1. m + 1 = F * (e + 1) + 0 /\ 0 \in 0 .. F - 1 /\ e + 1 \in Int
    BY <1>1, <1>3
  <2>2. (F * (e + 1) + 0) % F = 0 /\ (F * (e + 1) + 0) \div F = e + 1
    BY <1>1, <2>1, RemainderIsUnique
  <2>3. (m + 1) % F = 0 /\ (m + 1) \div F = e + 1
    BY <2>1, <2>2
  <2>4. QED
    BY <1>3, <2>3 DEF F, e, f
<1>4. QED
  BY <1>1, <1>2, <1>3

\* ... and stands for more.
LEMMA SizeGrows ==
  /\ Size(0) = 0
  /\ \A m \in 0 .. kSignBitMask - 1 : Size(m) \in Nat
  /\ \A m \in 0 .. kSignBitMask - 2 : Size(m) < Size(m + 1)
<1> DEFINE F == 2^kFractionBitCount
           E == 2^kExponentBitCount
<1>1. F \in Nat \ {0} /\ E \in Nat \ {0, 1}
  BY FormatFacts
<1>2. \A e \in 0 .. E : 2^e \in Nat \ {0} /\ 2^(e + 1) = 2 * 2^e
  BY FormatPowers
<1>3. Size(0) = 0
  <2>1. 0 = F * 0 + 0 /\ 0 \in 0 .. F - 1
    BY <1>1
  <2>2. 0 \div F = 0 /\ 0 % F = 0
    BY <1>1, <2>1, RemainderIsUnique
  <2>3. QED
    BY <2>2 DEF Size
<1>4. ASSUME NEW m \in 0 .. kSignBitMask - 1 PROVE Size(m) \in Nat
  <2> DEFINE e == m \div F
             f == m % F
  <2>1. f \in 0 .. F - 1 /\ e \in 0 .. E - 1
    BY FieldsAre
  <2>2. Size(m) = IF e = 0 THEN 2 * f ELSE (F + f) * 2^e
    BY DEF Size
  <2> HIDE DEF e, f, F, E
  <2>3. 2^e \in Nat /\ F + f \in Nat /\ 2 * f \in Nat
    BY <1>1, <1>2, <2>1
  <2>4. (F + f) * 2^e \in Nat
    BY <2>3
  <2>5. QED
    BY <2>2, <2>3, <2>4
<1>5. ASSUME NEW m \in 0 .. kSignBitMask - 2 PROVE Size(m) < Size(m + 1)
  <2> DEFINE e == m \div F
             f == m % F
             d == (m + 1) \div F
             g == (m + 1) % F
  <2>0. m \in 0 .. kSignBitMask - 1 /\ m + 1 \in 0 .. kSignBitMask - 1
    BY FormatFacts
  <2>1. f \in 0 .. F - 1 /\ e \in 0 .. E - 1 /\ g \in 0 .. F - 1 /\ d \in 0 .. E - 1
    BY <2>0, FieldsAre
  <2>2. \/ f + 1 < F /\ d = e /\ g = f + 1
        \/ f = F - 1 /\ d = e + 1 /\ g = 0
    BY NextFields
  <2>3. /\ Size(m) = IF e = 0 THEN 2 * f ELSE (F + f) * 2^e
        /\ Size(m + 1) = IF d = 0 THEN 2 * g ELSE (F + g) * 2^d
    BY DEF Size
  <2> HIDE DEF e, f, d, g, F, E
  <2>4. e \in 0 .. E /\ 2^e \in Nat \ {0} /\ 2^(e + 1) = 2 * 2^e
    BY <1>1, <1>2, <2>1
  <2>5. CASE f + 1 < F /\ d = e /\ g = f + 1
    <3>1. CASE e = 0
      BY <2>1, <2>3, <2>5, <3>1
    <3>2. CASE e # 0
      <4>1. Size(m) = (F + f) * 2^e /\ Size(m + 1) = (F + f + 1) * 2^e
        BY <1>1, <2>1, <2>3, <2>5, <3>2
      <4> DEFINE w == 2^e
      <4>2. w \in Nat \ {0}
        BY <2>4
      <4> HIDE DEF w
      <4>3. (F + f + 1) * w = (F + f) * w + w /\ (F + f) * w \in Nat
        BY <1>1, <2>1, <4>2
      <4>4. (F + f) * w < (F + f + 1) * w
        BY <4>2, <4>3
      <4>5. QED
        BY <4>1, <4>4 DEF w
    <3>3. QED
      BY <3>1, <3>2
  <2>6. CASE f = F - 1 /\ d = e + 1 /\ g = 0
    <3>1. d # 0 /\ F + 0 = F
      BY <1>1, <2>1, <2>6
    <3>2. Size(m + 1) = F * 2^(e + 1)
      BY <2>3, <2>6, <3>1
    <3>3. CASE e = 0
      <4>1. 2^(e + 1) >= 2 /\ 2^(e + 1) \in Nat
        BY <2>4
      <4> DEFINE w == 2^(e + 1)
      <4> HIDE DEF w
      <4>2. w \in Nat /\ w >= 2
        BY <4>1 DEF w
      <4>3. F * w >= 2 * F
        BY <1>1, <4>2
      <4>4. Size(m) = 2 * (F - 1)
        BY <2>3, <2>6, <3>3
      <4>5. QED
        BY <1>1, <3>2, <4>2, <4>3, <4>4 DEF w
    <3>4. CASE e # 0
      <4> DEFINE w == 2^e
      <4>1. w \in Nat \ {0} /\ 2^(e + 1) = 2 * w
        BY <2>4
      <4>2. Size(m) = (F + (F - 1)) * w
        BY <2>3, <2>6, <3>4
      <4>3. Size(m + 1) = F * (2 * w)
        BY <3>2, <4>1
      <4> HIDE DEF w
      <4>4. F * (2 * w) = (F + (F - 1)) * w + w /\ (F + (F - 1)) * w \in Nat
        BY <1>1, <4>1
      <4>5. QED
        BY <4>1, <4>2, <4>3, <4>4
    <3>5. QED
      BY <3>3, <3>4
  <2>7. QED
    BY <2>2, <2>5, <2>6
<1>6. QED
  BY <1>3, <1>4, <1>5

\* By induction on the distance, a larger magnitude stands for more.
LEMMA SizeIncreases ==
  ASSUME NEW m \in 0 .. kSignBitMask - 1, NEW n \in 0 .. kSignBitMask - 1, m < n
  PROVE  Size(m) < Size(n)
<1> DEFINE top == kSignBitMask - 1 - (m + 1)
           T == {k \in 0 .. top : Size(m) < Size(m + 1 + k)}
<1>1. kSignBitMask \in Nat \ {0} /\ top \in Nat /\ n - (m + 1) \in 0 .. top
  BY FormatFacts
<1>2. 0 \in T
  <2>1. m \in 0 .. kSignBitMask - 2 /\ m + 1 + 0 = m + 1
    BY <1>1
  <2>2. QED
    BY <1>1, <2>1, SizeGrows
<1>3. ASSUME NEW k \in 0 .. top - 1, k \in T PROVE k + 1 \in T
  <2>1. /\ m + 1 + k \in 0 .. kSignBitMask - 2 /\ m + 1 + k \in 0 .. kSignBitMask - 1
        /\ m + 1 + (k + 1) = (m + 1 + k) + 1 /\ k + 1 \in 0 .. top
        /\ (m + 1 + k) + 1 \in 0 .. kSignBitMask - 1
    BY <1>1
  <2>2. Size(m + 1 + k) < Size((m + 1 + k) + 1)
    BY <2>1, SizeGrows
  <2>3. Size(m) < Size(m + 1 + k)
    BY <1>3
  <2>4. Size(m) \in Nat /\ Size(m + 1 + k) \in Nat /\ Size((m + 1 + k) + 1) \in Nat
    BY <2>1, SizeGrows
  <2>5. QED
    BY <2>1, <2>2, <2>3, <2>4
<1> HIDE DEF T
<1>4. \A k \in 0 .. top : k \in T
  BY <1>1, <1>2, <1>3, UpTo
<1>5. Size(m) < Size(m + 1 + (n - (m + 1)))
  BY <1>1, <1>4 DEF T
<1>6. m + 1 + (n - (m + 1)) = n
  BY <1>1
<1>7. QED
  BY <1>5, <1>6

\* The numbers lie in the order of their positions.
Positions == -(kSignBitMask - 1) .. kSignBitMask - 1

LEMMA SizeAtIncreases ==
  /\ \A j \in Positions : SizeAt(j) \in Int
  /\ \A j, k \in Positions : j < k => SizeAt(j) < SizeAt(k)
  /\ \A j, k \in Positions : SizeAt(j) <= SizeAt(k) <=> j <= k
  /\ \A j, k \in Positions : SizeAt(j) = SizeAt(k) <=> j = k
<1>1. kSignBitMask \in Nat \ {0}
  BY FormatFacts
<1>2. ASSUME NEW j \in Positions PROVE SizeAt(j) \in Int
  <2>1. CASE j < 0
    <3>1. -j \in 0 .. kSignBitMask - 1
      BY <1>1, <2>1 DEF Positions
    <3>2. Size(-j) \in Nat
      BY <3>1, SizeGrows
    <3>3. QED
      BY <2>1, <3>2 DEF SizeAt
  <2>2. CASE j >= 0
    <3>1. j \in 0 .. kSignBitMask - 1 /\ ~(j < 0)
      BY <1>1, <2>2 DEF Positions
    <3>2. QED
      BY <3>1, SizeGrows DEF SizeAt
  <2>3. QED
    BY <1>1, <2>1, <2>2 DEF Positions
<1>3. ASSUME NEW j \in Positions, NEW k \in Positions, j < k PROVE SizeAt(j) < SizeAt(k)
  <2>0. j \in Int /\ k \in Int
    BY <1>1 DEF Positions
  <2>1. CASE k < 0
    <3>1. j < 0 /\ -j \in 0 .. kSignBitMask - 1 /\ -k \in 0 .. kSignBitMask - 1 /\ -k < -j
      BY <1>1, <1>3, <2>0, <2>1 DEF Positions
    <3>2. Size(-k) < Size(-j) /\ Size(-k) \in Nat /\ Size(-j) \in Nat
      BY <3>1, SizeIncreases, SizeGrows
    <3>3. QED
      BY <2>1, <3>1, <3>2 DEF SizeAt
  <2>2. CASE j < 0 /\ k >= 0
    <3>1. -j \in 0 .. kSignBitMask - 1 /\ 0 \in 0 .. kSignBitMask - 1 /\ 0 < -j
          /\ k \in 0 .. kSignBitMask - 1 /\ ~(k < 0)
      BY <1>1, <2>0, <2>2 DEF Positions
    <3>2. Size(0) < Size(-j) /\ Size(0) = 0 /\ Size(-j) \in Nat /\ Size(k) \in Nat
      BY <3>1, SizeIncreases, SizeGrows
    <3>3. QED
      BY <2>2, <3>1, <3>2 DEF SizeAt
  <2>3. CASE j >= 0
    <3>1. ~(j < 0) /\ ~(k < 0) /\ j \in 0 .. kSignBitMask - 1 /\ k \in 0 .. kSignBitMask - 1
      BY <1>1, <1>3, <2>0, <2>3 DEF Positions
    <3>2. Size(j) < Size(k)
      BY <1>3, <3>1, SizeIncreases
    <3>3. QED
      BY <3>1, <3>2 DEF SizeAt
  <2>4. QED
    BY <2>0, <2>1, <2>2, <2>3
<1>4. ASSUME NEW j \in Positions, NEW k \in Positions
      PROVE  /\ SizeAt(j) <= SizeAt(k) <=> j <= k
             /\ SizeAt(j) = SizeAt(k) <=> j = k
  <2>1. j \in Int /\ k \in Int /\ SizeAt(j) \in Int /\ SizeAt(k) \in Int
    BY <1>1, <1>2 DEF Positions
  <2>2. (j < k => SizeAt(j) < SizeAt(k)) /\ (k < j => SizeAt(k) < SizeAt(j))
    BY <1>3
  <2>3. j = k => SizeAt(j) = SizeAt(k)
    OBVIOUS
  <2> HIDE DEF Positions
  <2>4. QED
    BY <2>1, <2>2, <2>3
<1>5. QED
  BY <1>2, <1>3, <1>4

\* What the bits say of a number.
LEMMA BitsAre ==
  ASSUME NEW x \in Bits
  PROVE  /\ magnitude(x) \in 0 .. kSignBitMask - 1
         /\ x = IF sign_bit(x) THEN kSignBitMask + magnitude(x) ELSE magnitude(x)
         /\ fraction_bits(x) = magnitude(x) % 2^kFractionBitCount
         /\ exponent_bits(x) = magnitude(x) \div 2^kFractionBitCount
<1> DEFINE F == 2^kFractionBitCount
           E == 2^kExponentBitCount
           S == kSignBitMask
           m == IF x >= S THEN x - S ELSE x
<1>1. F \in Nat \ {0} /\ E \in Nat \ {0} /\ S \in Nat \ {0} /\ S = E * F
  BY FormatFacts
<1>2. x \in 0 .. 2 * S - 1
  BY DEF Bits
<1>3. m \in 0 .. S - 1 /\ m \in Int
  BY <1>1, <1>2
<1>4. magnitude(x) = m
  <2> DEFINE q == IF x >= S THEN 1 ELSE 0
  <2>1. x = S * q + m /\ q \in Int
    BY <1>1, <1>2
  <2> HIDE DEF m, S, q
  <2>2. x % S = m
    BY <1>1, <1>3, <2>1, RemainderIsUnique
  <2>3. QED
    BY <2>2 DEF magnitude, S
<1>5. fraction_bits(x) = m % F
  <2>1. CASE x >= S
    <3>1. x = S + m
      BY <1>2, <1>1, <2>1
    <3>2. m = F * (m \div F) + (m % F) /\ m % F \in 0 .. F - 1 /\ m \div F \in Int
      BY <1>1, <1>3, DivMod
    <3> DEFINE q == m \div F
               r == m % F
    <3> HIDE DEF m, F, E, S, q, r
    <3>3. m = F * q + r /\ r \in 0 .. F - 1 /\ q \in Int
      BY <3>2 DEF q, r
    <3>4. x = F * (E + q) + r
      <4>1. F * (E + q) = E * F + F * q
        BY <1>1, <3>3
      <4>2. QED
        BY <1>1, <3>1, <3>3, <4>1
    <3>5. x % F = r
      BY <1>1, <3>3, <3>4, RemainderIsUnique
    <3>6. QED
      BY <3>5 DEF fraction_bits, F, r
  <2>2. CASE ~(x >= S)
    <3>1. m = x
      BY <2>2
    <3>2. QED
      BY <3>1 DEF fraction_bits
  <2>3. QED
    BY <2>1, <2>2
<1>6. x = IF sign_bit(x) THEN S + m ELSE m
  BY <1>1, <1>2 DEF sign_bit
<1> HIDE DEF m
<1>7. QED
  BY <1>3, <1>4, <1>5, <1>6 DEF exponent_bits

\* The biased numbers are in the order of the positions, and so are the values;
\* what lies beyond infinity is no number.
LEMMA PositionFacts ==
  ASSUME NEW x \in Bits
  PROVE  /\ Position(x) \in Positions /\ Position(x) \in Int
         /\ SignAndMagnitudeToBiased(x) = kSignBitMask + Position(x)
         /\ Value(x) = SizeAt(Position(x))
         /\ ~is_nan(x) <=> Position(x) \in -Infinity .. Infinity
<1> DEFINE S == kSignBitMask
           m == magnitude(x)
           F == 2^kFractionBitCount
           E == 2^kExponentBitCount
<1>1. S \in Nat \ {0} /\ m \in 0 .. S - 1 /\ m \in Int /\ Infinity \in Nat /\ Infinity < S
  BY FormatFacts, BitsAre
<1>2. x = IF sign_bit(x) THEN S + m ELSE m
  BY BitsAre
<1>3. Position(x) = IF sign_bit(x) THEN -m ELSE m
  BY DEF Position
<1>4. Position(x) \in Positions /\ Position(x) \in Int
  BY <1>1, <1>3 DEF Positions
<1>5. SignAndMagnitudeToBiased(x) = S + Position(x)
  <2>1. CASE sign_bit(x)
    <3>1. SignAndMagnitudeToBiased(x) = ((2 * S - 1 - (S + m)) + 1) % (2 * S)
      BY <1>2, <2>1 DEF SignAndMagnitudeToBiased
    <3> HIDE DEF S, m
    <3>2. (2 * S - 1 - (S + m)) + 1 = S - m /\ S - m \in 0 .. 2 * S - 1 /\ 2 * S \in Nat \ {0}
      BY <1>1
    <3>3. (S - m) % (2 * S) = S - m
      BY <3>2, ResidueIsItself
    <3>4. QED
      BY <1>1, <1>3, <2>1, <3>1, <3>2, <3>3
  <2>2. CASE ~sign_bit(x)
    BY <1>2, <1>3, <2>2 DEF SignAndMagnitudeToBiased
  <2>3. QED
    BY <2>1, <2>2
<1>6. Value(x) = SizeAt(Position(x))
  <2>1. Value(x) = IF sign_bit(x) THEN -Size(m) ELSE Size(m)
    BY BitsAre DEF Value, Size
  <2>2. Size(m) \in Nat /\ Size(0) = 0
    BY <1>1, SizeGrows
  <2> HIDE DEF m
  <2>3. CASE sign_bit(x) /\ m # 0
    <3>1. Position(x) < 0 /\ -Position(x) = m
      BY <1>1, <1>3, <2>3
    <3>2. QED
      BY <2>1, <2>3, <3>1 DEF SizeAt
  <2>4. CASE sign_bit(x) /\ m = 0
    <3>1. Position(x) = 0
      <4>1. Position(x) = -m
        BY <1>3, <2>4
      <4>2. Position(x) + m = 0
        BY <1>1, <1>4, <4>1
      <4>3. QED
        BY <1>4, <2>4, <4>2
    <3>2. QED
      BY <2>1, <2>2, <2>4, <3>1 DEF SizeAt
  <2>5. CASE ~sign_bit(x)
    <3>1. Position(x) = m /\ ~(m < 0)
      BY <1>1, <1>3, <2>5
    <3>2. QED
      BY <2>1, <2>5, <3>1 DEF SizeAt
  <2>6. QED
    BY <2>3, <2>4, <2>5
<1>7. is_nan(x) <=> m > Infinity
  <2> DEFINE e == m \div F
             f == m % F
  <2>1. is_nan(x) <=> e = E - 1 /\ f # 0
    BY BitsAre DEF is_nan
  <2>2. m = F * e + f /\ f \in 0 .. F - 1 /\ e \in 0 .. E - 1
    BY <1>1, FieldsAre
  <2>3. F \in Nat \ {0} /\ E \in Nat \ {0, 1} /\ Infinity = (E - 1) * F
    BY FormatFacts DEF Infinity
  <2> HIDE DEF e, f, m, F, E
  <2>4. CASE e = E - 1
    <3>1. F * e = (E - 1) * F /\ F * e \in Int
      BY <2>2, <2>3, <2>4
    <3>2. QED
      BY <2>1, <2>2, <2>3, <2>4, <3>1
  <2>5. CASE e <= E - 2
    <3>1. F * e <= F * (E - 2) /\ F * (E - 2) = (E - 1) * F - F /\ F * e \in Int
          /\ (E - 1) * F \in Int
      BY <2>2, <2>3, <2>5
    <3>2. m < Infinity
      BY <2>2, <2>3, <3>1
    <3>3. QED
      BY <1>1, <2>1, <2>2, <2>3, <2>5, <3>2
  <2>6. QED
    BY <2>2, <2>3, <2>4, <2>5
<1>8. ~is_nan(x) <=> Position(x) \in -Infinity .. Infinity
  <2> HIDE DEF m
  <2>1. QED
    BY <1>1, <1>3, <1>7
<1>9. QED
  BY <1>4, <1>5, <1>6, <1>8

\* Every position up to infinity is that of a number.
LEMMA RepresentableAre ==
  Representable = {SizeAt(j) : j \in -Infinity .. Infinity}
<1> DEFINE S == kSignBitMask
<1>1. S \in Nat \ {0} /\ Infinity \in Nat /\ Infinity < S
  BY FormatFacts
<1>2. ASSUME NEW x \in Bits, ~is_nan(x)
      PROVE  \E j \in -Infinity .. Infinity : Value(x) = SizeAt(j)
  BY <1>2, PositionFacts
<1>3. ASSUME NEW j \in -Infinity .. Infinity
      PROVE  \E x \in Bits : ~is_nan(x) /\ Value(x) = SizeAt(j)
  <2> DEFINE x == IF j < 0 THEN S - j ELSE j
             m == IF j < 0 THEN -j ELSE j
  <2>1. j \in Int /\ m \in 0 .. S - 1 /\ m \in Int /\ x \in 0 .. 2 * S - 1
    BY <1>1
  <2>2. x \in Bits
    BY <2>1 DEF Bits
  <2>3. sign_bit(x) <=> j < 0
    BY <1>1, <2>1 DEF sign_bit
  <2>4. magnitude(x) = m
    <3> DEFINE q == IF j < 0 THEN 1 ELSE 0
    <3>1. x = S * q + m /\ q \in Int
      BY <1>1, <2>1
    <3> HIDE DEF m, S, x, q
    <3>2. x % S = m
      BY <1>1, <2>1, <3>1, RemainderIsUnique
    <3>3. QED
      BY <3>2 DEF magnitude, S
  <2>5. Position(x) = j
    <3>1. Position(x) = IF j < 0 THEN -m ELSE m
      BY <2>3, <2>4 DEF Position
    <3>2. QED
      BY <2>1, <3>1
  <2> HIDE DEF x
  <2>6. QED
    BY <2>2, <2>5, PositionFacts
<1>4. QED
  BY <1>2, <1>3 DEF Representable

\* As many numbers lie on the way as there are positions.
LEMMA UlpsAreDistance ==
  ASSUME NEW x \in Bits, NEW y \in Bits, ~is_nan(x), ~is_nan(y), Position(x) <= Position(y)
  PROVE  Ulps(x, y) = Position(y) - Position(x) /\ Ulps(y, x) = Position(y) - Position(x)
<1> DEFINE a == Position(x)
           b == Position(y)
           I == -Infinity .. Infinity
           D == a + 1 .. b
           T == {SizeAt(j) : j \in D}
           f == [j \in D |-> SizeAt(j)]
<1>1. a \in I /\ b \in I /\ a \in Int /\ b \in Int /\ a <= b /\ Infinity \in Nat
      /\ Infinity < kSignBitMask /\ kSignBitMask \in Nat
  BY FormatFacts, PositionFacts
<1>2. Value(x) = SizeAt(a) /\ Value(y) = SizeAt(b)
  BY PositionFacts
<1>3. I \subseteq Positions /\ D \subseteq I
  BY <1>1 DEF Positions
<1> HIDE DEF a, b
<1>4. \A j \in I : /\ SizeAt(a) < SizeAt(j) <=> a < j
                   /\ SizeAt(j) <= SizeAt(b) <=> j <= b
                   /\ ~(SizeAt(b) < SizeAt(j) /\ SizeAt(j) <= SizeAt(a))
  <2> SUFFICES ASSUME NEW j \in I
               PROVE  /\ SizeAt(a) < SizeAt(j) <=> a < j
                      /\ SizeAt(j) <= SizeAt(b) <=> j <= b
                      /\ ~(SizeAt(b) < SizeAt(j) /\ SizeAt(j) <= SizeAt(a))
    OBVIOUS
  <2>1. j \in Positions /\ a \in Positions /\ b \in Positions /\ j \in Int
    BY <1>1, <1>3
  <2>2. /\ SizeAt(j) <= SizeAt(a) <=> j <= a
        /\ SizeAt(j) <= SizeAt(b) <=> j <= b
        /\ SizeAt(a) \in Int /\ SizeAt(b) \in Int /\ SizeAt(j) \in Int
    BY <2>1, SizeAtIncreases
  <2> HIDE DEF I
  <2>3. QED
    BY <1>1, <2>1, <2>2
<1>5. {v \in Representable : (Value(x) < v /\ v <= Value(y)) \/ (Value(y) < v /\ v <= Value(x))} = T
  <2>1. \A j \in I : ((SizeAt(a) < SizeAt(j) /\ SizeAt(j) <= SizeAt(b))
                        \/ (SizeAt(b) < SizeAt(j) /\ SizeAt(j) <= SizeAt(a))) <=> j \in D
    <3>1. \A j \in I : j \in D <=> a < j /\ j <= b
      BY <1>1
    <3>2. QED
      BY <1>4, <3>1
  <2> HIDE DEF D
  <2>2. QED
    BY <1>2, <1>3, <2>1, RepresentableAre
<1>6. {v \in Representable : (Value(y) < v /\ v <= Value(x)) \/ (Value(x) < v /\ v <= Value(y))} = T
  BY <1>5
<1>7. f \in Bijection(D, T)
  <2>1. \A j, k \in D : SizeAt(j) = SizeAt(k) => j = k
    BY <1>3, SizeAtIncreases
  <2> HIDE DEF D
  <2>2. f \in [D -> T] /\ (\A j, k \in D : f[j] = f[k] => j = k) /\ \A t \in T : \E j \in D : f[j] = t
    BY <2>1
  <2>3. QED
    BY <2>2 DEF Bijection, Injection, Surjection, IsInjective
<1>8. ExistsBijection(D, T)
  BY <1>7 DEF ExistsBijection
<1>9. IsFiniteSet(D) /\ Cardinality(D) = b - a
  <2>1. a + 1 \in Int
    BY <1>1
  <2>2. IsFiniteSet(D) /\ Cardinality(D) = IF a + 1 > b THEN 0 ELSE b - (a + 1) + 1
    BY <1>1, <2>1, FS_Interval
  <2>3. QED
    BY <1>1, <2>2
<1> HIDE DEF D, T, f
<1>10. Cardinality(T) = b - a
  BY <1>8, <1>9, FS_Bijection
<1>11. QED
  BY <1>5, <1>6, <1>10 DEF Ulps, a, b

\* EXPECT_FLOAT_EQ and EXPECT_DOUBLE_EQ for every format (gtest-internal.h:333-387): two
\* numbers are almost equal when at most kMaxUlps numbers lie on the way from one to the
\* other, through zero, the denormalized numbers and the changes of the exponent; no NaN
\* is equal to anything.
THEOREM UlpsAreStepsOfAnyFormat ==
  \A x, y \in Bits :
    AlmostEquals(x, y) = (~is_nan(x) /\ ~is_nan(y) /\ Ulps(x, y) <= kMaxUlps)
<1> SUFFICES ASSUME NEW x \in Bits, NEW y \in Bits
             PROVE  AlmostEquals(x, y) <=> ~is_nan(x) /\ ~is_nan(y) /\ Ulps(x, y) <= kMaxUlps
  BY DEF AlmostEquals
<1> SUFFICES ASSUME ~is_nan(x), ~is_nan(y)
             PROVE  DistanceBetweenSignAndMagnitudeNumbers(x, y) = Ulps(x, y)
  BY DEF AlmostEquals
<1> DEFINE a == Position(x)
           b == Position(y)
<1>1. a \in Int /\ b \in Int /\ kSignBitMask \in Int
  BY FormatFacts, PositionFacts
<1>2. /\ SignAndMagnitudeToBiased(x) = kSignBitMask + a
      /\ SignAndMagnitudeToBiased(y) = kSignBitMask + b
  BY PositionFacts
<1>3. DistanceBetweenSignAndMagnitudeNumbers(x, y) = IF a >= b THEN a - b ELSE b - a
  <2>1. DistanceBetweenSignAndMagnitudeNumbers(x, y) =
          IF kSignBitMask + a >= kSignBitMask + b
          THEN (kSignBitMask + a) - (kSignBitMask + b)
          ELSE (kSignBitMask + b) - (kSignBitMask + a)
    BY <1>2 DEF DistanceBetweenSignAndMagnitudeNumbers
  <2> HIDE DEF a, b
  <2>2. QED
    BY <1>1, <2>1
<1>4. CASE a <= b
  <2>1. Ulps(x, y) = b - a
    BY <1>4, UlpsAreDistance
  <2> HIDE DEF a, b
  <2>2. QED
    BY <1>1, <1>3, <1>4, <2>1
<1>5. CASE b <= a
  <2>1. Ulps(x, y) = a - b
    BY <1>5, UlpsAreDistance
  <2> HIDE DEF a, b
  <2>2. QED
    BY <1>1, <1>3, <1>5, <2>1
<1>6. QED
  BY <1>1, <1>4, <1>5
=============================================================================

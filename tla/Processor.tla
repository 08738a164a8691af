----------------------------- MODULE Processor -----------------------------
(***************************************************************************)
(* One Processor object: its members, one action per executor class, and    *)
(* run_program.  The thread that calls run_program is the only one, so a    *)
(* step is one iteration of its loop.  The members outlive a call: nothing  *)
(* but pc_ is reset between two programs run on one Processor.              *)
(***************************************************************************)
EXTENDS Isa

CONSTANT PcBits   \* width of pc_ (uint32_t)

PcModulus == 2^PcBits

\* uint32_t is narrower than int64_t: every pc is a nonnegative Word.
ASSUME PcAssumption == /\ PcModulus \in Nat \ {0}
                       /\ PcModulus <= Half

VARIABLES
  sram,      \* sram_
  regs,      \* regs_
  p,         \* p_, the prime
  pc,        \* pc_
  labels,    \* labels_: a function from the labels inserted so far
  status     \* where the owner's thread is: not in a call, in one, back, dead

procVars == <<sram, regs, p, pc, labels, status>>

Pc == 0 .. PcModulus - 1

Status == {"idle", "running", "returned", "crashed"}

ProcessorTypeOK ==
  /\ sram \in [Addr -> Word]
  /\ regs \in [Reg -> Word]
  /\ p \in Word
  /\ pc \in Pc
  /\ DOMAIN labels \subseteq STRING
  /\ \A l \in DOMAIN labels : labels[l] \in Pc
  /\ status \in Status

(***************************************************************************)
(* labels_[l] on an unordered_map inserts 0 when l is absent.               *)
(***************************************************************************)
\* Fault: an absent label stands for the place of the jump.
TargetHere(l) == IF l \in DOMAIN labels THEN labels[l] ELSE pc

Target(l) == IF l \in DOMAIN labels THEN labels[l] ELSE 0

Lookup(l) ==
  /\ pc' = Target(l)
  /\ labels' = [k \in DOMAIN labels \cup {l} |-> Target(k)]

(***************************************************************************)
(* The executors.  Executor::next_pc runs execute and returns pc_ + 1;      *)
(* JAL, RET and BEQ override it.                                            *)
(***************************************************************************)
In(i, k) == regs[RegOf(i.inputs[k])]
Advance  == pc' = pc + 1

Exec_LDP(i) ==
  /\ i.op = "LDP"
  /\ p' = sram[AddrOf(i.inputs[1])]
  /\ Advance
  /\ UNCHANGED <<sram, regs, labels, status>>

WriteReg(i, v) ==
  /\ regs' = [regs EXCEPT ![RegOf(i.outputs[1])] = v]
  /\ Advance
  /\ UNCHANGED <<sram, p, labels, status>>

Exec_ADD(i) == i.op = "ADD" /\ WriteReg(i, Add(In(i, 1), In(i, 2)))
Exec_SUB(i) == i.op = "SUB" /\ WriteReg(i, Sub(In(i, 1), In(i, 2)))
Exec_MUL(i) == i.op = "MUL" /\ WriteReg(i, Mul(In(i, 1), In(i, 2)))
Exec_DIV(i) == i.op = "DIV" /\ WriteReg(i, Quot(In(i, 1), In(i, 2)))
Exec_AND(i) == i.op = "AND" /\ WriteReg(i, BitAnd(In(i, 1), In(i, 2)))
Exec_OR(i)  == i.op = "OR"  /\ WriteReg(i, BitOr(In(i, 1), In(i, 2)))

\* Fault: bit_or in the place of bit_xor.
XorAsOr(i) == i.op = "XOR" /\ WriteReg(i, BitOr(In(i, 1), In(i, 2)))

Exec_XOR(i) == i.op = "XOR" /\ WriteReg(i, BitXor(In(i, 1), In(i, 2)))
Exec_NOT(i) == i.op = "NOT" /\ WriteReg(i, BitNot(In(i, 1)))
Exec_SET(i) == i.op = "SET" /\ WriteReg(i, ValueOf(i.inputs[1]))
Exec_LD(i)  == i.op = "LD"  /\ WriteReg(i, sram[AddrOf(i.inputs[1])])

Exec_ST(i) ==
  /\ i.op = "ST"
  /\ sram' = [sram EXCEPT ![AddrOf(i.outputs[1])] = In(i, 1)]
  /\ Advance
  /\ UNCHANGED <<regs, p, labels, status>>

\* Fault: both JAL and RET add the one.
LinkBehind(i) ==
  /\ i.op = "JAL"
  /\ regs' = [regs EXCEPT ![RegOf(i.outputs[1])] = pc + 1]
  /\ Lookup(LabelOf(i.inputs[1]))
  /\ UNCHANGED <<sram, p, status>>

\* The link register gets the pc of the JAL itself, and RET adds the one.
Exec_JAL(i) ==
  /\ i.op = "JAL"
  /\ regs' = [regs EXCEPT ![RegOf(i.outputs[1])] = pc]
  /\ Lookup(LabelOf(i.inputs[1]))
  /\ UNCHANGED <<sram, p, status>>

\* Fault: neither JAL nor RET adds the one.
ReturnTo(i) ==
  /\ i.op = "RET"
  /\ pc' = In(i, 1) % PcModulus
  /\ UNCHANGED <<sram, regs, p, labels, status>>

\* Fault: the 64-bit sum is kept.
ReturnUntruncated(i) ==
  /\ i.op = "RET"
  /\ pc' = Add(In(i, 1), 1)
  /\ UNCHANGED <<sram, regs, p, labels, status>>

\* The 64-bit sum is converted to the uint32_t that next_pc returns.
Exec_RET(i) ==
  /\ i.op = "RET"
  /\ pc' = Add(In(i, 1), 1) % PcModulus
  /\ UNCHANGED <<sram, regs, p, labels, status>>

Exec_BEQ(i) ==
  /\ i.op = "BEQ"
  /\ IF In(i, 1) = In(i, 2)
     THEN Lookup(LabelOf(i.outputs[1]))
     ELSE Advance /\ UNCHANGED labels
  /\ UNCHANGED <<sram, regs, p, status>>

\* Fault: the plain ADD in the place of the prime-field one.
AddUnreduced(i) == i.op = "ADDP" /\ WriteReg(i, Add(In(i, 1), In(i, 2)))

\* The result is reduced with the C++ remainder: its sign is the dividend's.
Exec_ADDP(i) == i.op = "ADDP" /\ WriteReg(i, Rem(Add(In(i, 1), In(i, 2)), p))
Exec_SUBP(i) == i.op = "SUBP" /\ WriteReg(i, Rem(Sub(In(i, 1), In(i, 2)), p))
Exec_MULP(i) == i.op = "MULP" /\ WriteReg(i, Rem(Mul(In(i, 1), In(i, 2)), p))

(***************************************************************************)
(* The steps that end the process: a divide that traps, an operand that     *)
(* the repeated field does not have (at() checks its index), an opcode with *)
(* no executor (the map yields a null pointer).                             *)
(***************************************************************************)
DivideTraps(i) ==
  \/ i.op = "DIV"  /\ DivUndefined(In(i, 1), In(i, 2))
  \/ i.op = "ADDP" /\ DivUndefined(Add(In(i, 1), In(i, 2)), p)
  \/ i.op = "SUBP" /\ DivUndefined(Sub(In(i, 1), In(i, 2)), p)
  \/ i.op = "MULP" /\ DivUndefined(Mul(In(i, 1), In(i, 2)), p)

Executable(i) ==
  /\ i.op \notin {"UNSPECIFIED", "unnamed"}
  /\ i.inputs # <<>>
  /\ i.op \notin {"LDP", "SET", "LD", "ST", "NOT", "JAL", "RET"} => Len(i.inputs) >= 2
  /\ \/ i.outputs # <<>>
     \/ i.op \in {"LDP", "RET"}
     \/ i.op = "BEQ" /\ In(i, 1) # In(i, 2)

Crash ==
  /\ status' = "crashed"
  /\ UNCHANGED <<sram, regs, p, pc, labels>>

\* exec_[i.op()]->next_pc(i, this)
Execute(i) ==
  \/ Exec_LDP(i) \/ Exec_SET(i) \/ Exec_LD(i)  \/ Exec_ST(i)
  \/ Exec_ADD(i) \/ Exec_SUB(i) \/ Exec_MUL(i) \/ Exec_DIV(i)
  \/ Exec_AND(i) \/ Exec_OR(i)  \/ Exec_XOR(i) \/ Exec_NOT(i)
  \/ Exec_JAL(i) \/ Exec_RET(i) \/ Exec_BEQ(i)
  \/ Exec_ADDP(i) \/ Exec_SUBP(i) \/ Exec_MULP(i)

(***************************************************************************)
(* run_program(prog).  Positions in prog are counted from 0, as pc_ does.   *)
(***************************************************************************)
LabelsOf(prog) == {prog[j].label : j \in 1 .. Len(prog)} \ {NoLabel}

\* The label pass overwrites: the last instruction that carries l wins.
LastAt(prog, l) ==
  CHOOSE j \in 0 .. Len(prog) - 1 :
    /\ prog[j + 1].label = l
    /\ \A k \in j + 2 .. Len(prog) : prog[k].label # l

\* Fault: insert() in the place of operator[], which keeps an earlier entry.
KeepFirst(prog) ==
  [l \in DOMAIN labels \cup LabelsOf(prog) |->
     IF l \in DOMAIN labels THEN labels[l] ELSE LastAt(prog, l)]

\* Labels of earlier programs stay in labels_ unless prog defines them again.
LabelPass(prog) ==
  [l \in DOMAIN labels \cup LabelsOf(prog) |->
     IF l \in LabelsOf(prog) THEN LastAt(prog, l) ELSE labels[l]]

RunProgram(prog) ==
  /\ status \in {"idle", "returned"}
  /\ labels' = LabelPass(prog)
  /\ pc' = 0
  /\ status' = "running"
  /\ UNCHANGED <<sram, regs, p>>

Running(prog) == status = "running" /\ pc < Len(prog)

Fetch(prog) == prog[pc + 1]

Step(prog) ==
  /\ Running(prog)
  /\ Executable(Fetch(prog))
  /\ Execute(Fetch(prog))

Trap(prog) ==
  /\ Running(prog)
  /\ Executable(Fetch(prog)) => DivideTraps(Fetch(prog))
  /\ Crash

Finish(prog) ==
  /\ status = "running"
  /\ pc >= Len(prog)
  /\ status' = "returned"
  /\ UNCHANGED <<sram, regs, p, pc, labels>>

\* Boot: what an uninitialised Processor may hold in memory that nothing sets.
ProcessorInit(Boot) ==
  /\ \E m \in Boot : sram = m.sram /\ regs = m.regs /\ p = m.p
  /\ pc = 0
  /\ labels = <<>>
  /\ status = "idle"
=============================================================================

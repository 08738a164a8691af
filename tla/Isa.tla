-------------------------------- MODULE Isa --------------------------------
(***************************************************************************)
(* The VPU instruction format of isa.proto.  An operand is a protobuf       *)
(* `oneof': reading the member that is not set returns that member's        *)
(* default, and the executors read it without looking at which one is set.  *)
(***************************************************************************)
EXTENDS Words, Sequences

CONSTANTS SramSize,   \* words of scratchpad: 65536 in processor.h
          NumRegs     \* registers: 32 in processor.h

ASSUME SizeAssumption == SramSize \in Nat \ {0} /\ NumRegs \in Nat \ {0}

Addr == 0 .. SramSize - 1
Reg  == 0 .. NumRegs - 1

NoLabel == ""         \* an instruction with no label has the empty one

\* Stated because the provers do not know that a literal is a string.
ASSUME NoLabelAssumption == NoLabel \in STRING

\* (A), (R), (V) and (L) of the comments in isa.proto.
A(n) == [kind |-> "addr",  addr  |-> n]
R(n) == [kind |-> "reg",   reg   |-> n]
V(n) == [kind |-> "value", value |-> n]
L(l) == [kind |-> "label", label |-> l]

Unset == [kind |-> "none"]   \* an operand in which no member was set

Operand == [kind : {"addr"}, addr : Addr]
             \cup [kind : {"reg"}, reg : Reg]
             \cup [kind : {"value"}, value : Word]
             \cup [kind : {"label"}, label : STRING]
             \cup {Unset}

AddrOf(o)  == IF o.kind = "addr"  THEN o.addr  ELSE 0
RegOf(o)   == IF o.kind = "reg"   THEN o.reg   ELSE 0
ValueOf(o) == IF o.kind = "value" THEN o.value ELSE 0
LabelOf(o) == IF o.kind = "label" THEN o.label ELSE NoLabel

\* An enum of proto3 is open: "unnamed" is any number that it gives no name.
Opcode == {"UNSPECIFIED", "LDP", "ADD", "SUB", "MUL", "DIV", "SET", "AND", "OR",
           "NOT", "XOR", "LD", "ST", "JAL", "RET", "BEQ", "ADDP", "SUBP", "MULP", "unnamed"}

Instruction == [op : Opcode, inputs : Seq(Operand), outputs : Seq(Operand), label : STRING]

\* VPUProgram: the instructions in the order the generator added them.
Program == Seq(Instruction)

\* The calls a generator makes for one instruction: set_op, add_inputs and
\* add_outputs in order; At(l, i) is the same instruction with set_label(l).
Instr(op, ins, outs) == [op |-> op, inputs |-> ins, outputs |-> outs, label |-> NoLabel]
At(l, i) == [i EXCEPT !.label = l]

BranchEq(r, s, l) == Instr("BEQ", <<R(r), R(s)>>, <<L(l)>>)
Op2(op, r, s, d)  == Instr(op, <<R(r), R(s)>>, <<R(d)>>)
Set(v, d)         == Instr("SET", <<V(v)>>, <<R(d)>>)
Load(a, d)        == Instr("LD", <<A(a)>>, <<R(d)>>)
Store(r, a)       == Instr("ST", <<R(r)>>, <<A(a)>>)
LoadPrime(a)      == Instr("LDP", <<A(a)>>, <<>>)
JumpLink(l, d)    == Instr("JAL", <<L(l)>>, <<R(d)>>)
Return(r)         == Instr("RET", <<R(r)>>, <<>>)
=============================================================================

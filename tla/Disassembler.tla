---------------------------- MODULE Disassembler ----------------------------
(***************************************************************************)
(* program_to_str of tools.cc.  A text is the sequence of its words: a word *)
(* is a prefix, which tells the kind of the operand, and what follows it.   *)
(* An exception leaves program_to_str as a whole: nothing is printed.       *)
(***************************************************************************)
EXTENDS Isa
LOCAL INSTANCE SequencesExt

Prefix == [addr |-> "0x", reg |-> "$R", value |-> "%", label |-> "["]

inout_to_str(o) ==
  <<Prefix[o.kind],
    CASE o.kind = "addr"  -> o.addr
      [] o.kind = "reg"   -> o.reg
      [] o.kind = "value" -> o.value
      [] o.kind = "label" -> o.label>>

Texts(operands) == [k \in DOMAIN operands |-> inout_to_str(operands[k])]

\* Fault: the outputs are left out.
InputsOnly(i) == <<i.op>> \o Texts(i.inputs)

\* The label an instruction carries is not part of its line.
instr_to_str(i) == <<i.op>> \o Texts(i.inputs) \o Texts(i.outputs)

DisassemblyError == <<"error">>

\* std::out_of_range: VPUOp_Name gives a number without a name the empty
\* string, which has nothing at 7 for substr.
OutOfRange == <<"out of range">>

Named(i) == i.op # "unnamed"
Printable(i) == \A o \in ToSet(i.inputs) \cup ToSet(i.outputs) : o.kind # "none"

\* The first instruction that cannot be printed is what the exception is about.
program_to_str(prog) ==
  LET faulty == SelectSeq(prog, LAMBDA i : ~Named(i) \/ ~Printable(i))
  IN  IF faulty = <<>> THEN [k \in DOMAIN prog |-> instr_to_str(prog[k])]
      ELSE IF Named(Head(faulty)) THEN DisassemblyError ELSE OutOfRange
=============================================================================

------------------------------- MODULE MCHost -------------------------------
(***************************************************************************)
(* Instances of Host for TLC.                                               *)
(***************************************************************************)
EXTENDS ArithmeticTests

\* A new object's memory: every word the same, 0, 1 or all ones.
Filled(g) == [sram |-> [a \in Addr |-> g], regs |-> [r \in Reg |-> g], p |-> g]

MCBoot == {Filled(0), Filled(1), Filled(-1)}

TestWrites == {[addr |-> 5, value |-> 42], [addr |-> 0, value |-> 37]}

(***************************************************************************)
(* Programs that share label names at different places, use a label twice,  *)
(* jump to labels they do not have, or are not well formed.                 *)
(***************************************************************************)
Early == <<BranchEq(0, 0, "done"), At("done", Set(1, 1))>>

Late == <<JumpLink("next", 2), Return(2), At("next", Set(-2, 2)), At("done", Return(2))>>

Twice == <<BranchEq(0, 1, "next"), At("next", Set(0, 0)), Set(0, 1), At("next", Set(1, 1))>>

Dangling == <<Set(0, 0), Set(1, 2), BranchEq(0, 1, "done"), JumpLink("next", 1)>>

Malformed ==
  {<<Instr("ADD", <<R(0)>>, <<R(1)>>)>>,                   \* one operand of two
   <<Instr("ST", <<R(0)>>, <<>>)>>,                        \* no destination
   <<Return(0), Instr("UNSPECIFIED", <<R(0)>>, <<R(0)>>)>>,  \* no such executor
   <<Instr("BEQ", <<R(0), R(0)>>, <<R(1), L("done")>>)>>,  \* a register where the label is read
   <<Instr("LD", <<V(1)>>, <<L("done")>>)>>,               \* operands of other kinds
   <<Instr("ADD", <<Unset, R(1)>>, <<Unset>>)>>}           \* operands with no member set

LabelPrograms == {Early, Late, Twice, Dangling} \cup Malformed

ArithPrograms == {Field3, Integer4, Bitwise4}

ArithWrites ==
  {[addr |-> 0, value |-> v] : v \in {0, 5, 7}}
    \cup [addr : {1, 2}, value : {-Half, -3, -1, 0, 2, 4}]

(***************************************************************************)
(* An owner uses one object for one suite of programs; mixing the suites in *)
(* one behaviour multiplies the states and shows nothing more.              *)
(***************************************************************************)
Suites ==
  {[programs |-> TestPrograms,  writes |-> TestWrites,  boot |-> MCBoot],
   [programs |-> LabelPrograms, writes |-> {},          boot |-> MCBoot]}
    \cup [programs : {{q} : q \in ArithPrograms}, writes : {ArithWrites}, boot : {{Filled(0)}}]

MCPrograms == UNION {s.programs : s \in Suites}
MCWrites   == UNION {s.writes : s \in Suites}

VARIABLE suite

MCInit == suite \in Suites /\ ProcessorInit(suite.boot) /\ prog = <<>>

MCNext ==
  /\ \/ \E w \in suite.writes : WriteSram(w)
     \/ \E q \in suite.programs : Call(q)
     \/ RunStep
  /\ UNCHANGED suite

MCSpec == MCInit /\ [][MCNext]_<<vars, suite>> /\ Fairness
=============================================================================

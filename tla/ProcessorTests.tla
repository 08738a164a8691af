--------------------------- MODULE ProcessorTests ---------------------------
(***************************************************************************)
(* The programs of tests/processor_test.cc and what each test asserts.      *)
(***************************************************************************)
EXTENDS Host

LoadStore == <<Load(5, 3), Store(3, 23)>>

Branch ==
  <<Set(1, 1), Set(5, 3), Set(5, 4), Set(10, 5),
    BranchEq(3, 4, "next"),
    Op2("ADD", 5, 1, 1),
    \* the test adds a register operand before the label
    At("next", Instr("BEQ", <<R(4), R(5)>>, <<R(1), L("done")>>)),
    Op2("ADD", 4, 1, 1),
    At("done", Store(1, 23))>>

AddP == <<LoadPrime(0), Set(23, 1), Op2("ADDP", 1, 1, 3), Store(3, 16)>>

Subroutine ==
  <<Set(1, 1),
    JumpLink("call_add", 10),
    Store(1, 23),
    Set(100, 5),
    Return(5),
    At("call_add", Op2("ADD", 1, 1, 1)),
    Return(10)>>

TestPrograms == {LoadStore, Branch, AddP, Subroutine}

\* The registers, the address and the place that the tests name exist.
ASSUME TestsFit == NumRegs > 10 /\ SramSize > 23 /\ PcModulus > 101

\* Each test's assertion holds after its program however the object was used
\* before: the registers, p_ and labels_ an earlier program left do not leak
\* into the result (processor_test.cc:31, 95, 128, 175).
TestsPass ==
  status = "returned" =>
    /\ prog = LoadStore => sram[23] = sram[5]
    /\ prog = Branch => sram[23] = 6
    /\ prog = AddP /\ sram[0] = 37 => sram[16] = 9
    /\ prog = Subroutine => sram[23] = 2

\* Every test program comes back to its caller, or dies where its prime is
\* zero, whatever is in memory when it starts (processor.cc:198, the loop).
RunsEnd ==
  (status = "running" /\ prog \in TestPrograms) ~> (status \in {"returned", "crashed"})
=============================================================================

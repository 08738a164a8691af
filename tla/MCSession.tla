----------------------------- MODULE MCSession -----------------------------
(***************************************************************************)
(* The instance of Session for TLC: the curve and the numbers of the tests. *)
(***************************************************************************)
EXTENDS Session

\* Its multiples are a cycle of eight, with a point whose y is 0 among them.
MCBase == <<36, 31>>

MCBoot == {[sram |-> [a \in Addr |-> -1], regs |-> [r \in Reg |-> -1], p |-> -1]}

MCInverseInputs == {<<37, 4>>, <<2, 1>>, <<13, 12>>}

\* The hypotheses of the theorems hold of this curve and these numbers.
ASSUME MCDoublingLaw == DoublingLaw
ASSUME MCInversesFit == InversesFit
=============================================================================

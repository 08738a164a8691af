--------------------------- MODULE MCMultInverse ---------------------------
(***************************************************************************)
(* Instances of MultInverse for TLC.                                        *)
(***************************************************************************)
EXTENDS MultInverse

\* A new object's memory: every word the same, 0, 1 or all ones.
MCBoot == {[sram |-> [a \in Addr |-> g], regs |-> [r \in Reg |-> g], p |-> g] : g \in {0, 1, -1}}

\* Every residue of every prime up to 11, unreduced and negative values too,
\* and moduli that are no primes: composite, one, zero and negative.
MCInputs ==
  UNION {{q} \X (-2 .. q) : q \in {2, 3, 5, 7, 11}}
    \cup {-Half, -7, -1, 0, 1, 4, 9} \X {-Half, -1, 1, 2}

\* A prime whose square does not fit a word.
MCLargeInputs == {31} \X (1 .. 30)
=============================================================================

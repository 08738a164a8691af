------------------------------- MODULE MCPAdd -------------------------------
(***************************************************************************)
(* Instances of PAdd for TLC.                                               *)
(***************************************************************************)
EXTENDS PAdd

\* A new object's memory: every word the same, 0 or all ones.
MCBoot == {[sram |-> [a \in Addr |-> g], regs |-> [r \in Reg |-> g], p |-> g] : g \in {0, -1}}

\* The points of a curve, and zero as the tests write it, as the kernel itself
\* gives it (the prime and the value of zero), and with one coordinate only.
Points(q, a, b) ==
  {pt \in (0 .. q - 1) \X (0 .. q - 1) : OnCurve(pt, q, a, b)}

Zeros(q) == {<<-1, -1>>, <<q, -1>>, <<-1, 2>>, <<3, -1>>}

Sum(q, a, b, zero, S) ==
  {<<q, a, b, zero, s[1], s[2], t[1], t[2]>> : s \in S, t \in S}

OnCurves(q, a, b) == Sum(q, a, b, -1, Points(q, a, b) \cup Zeros(q))

\* Moduli that are no primes, and points that are on no curve.
Degenerate ==
  UNION {Sum(q, 1, 1, -1, {<<1, 1>>, <<1, 2>>, <<-Half, 0>>}) : q \in {-Half, -5, -1, 0, 1, 2, 9}}

\* The curve modulo 7 has a negative a, the curves modulo 7 and 11 points with y = 0.
MCInputs ==
  OnCurves(5, 1, 1) \cup OnCurves(7, -4, 2) \cup OnCurves(11, 3, 7) \cup Degenerate

\* Zero defined as the prime, which no coordinate is equal to.
MCMarkerInputs == Sum(5, 1, 1, 5, Points(5, 1, 1) \cup {<<5, 5>>, <<5, 2>>, <<3, 5>>})

MCTorsionInputs == {in \in OnCurves(5, 1, 0) : in[6] = 0 /\ in[8] = 0}
=============================================================================

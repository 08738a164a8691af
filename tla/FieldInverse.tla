---------------------------- MODULE FieldInverse ----------------------------
(***************************************************************************)
(* What the multiplicative-inverse kernel promises its caller: after a call *)
(* the output word is an inverse of x modulo the prime, the inputs are as   *)
(* they were left, and the call ends.  A modulus that is not a prime, or an *)
(* x without an inverse, leaves the output unspecified; a modulus that a    *)
(* machine word cannot always be divided by may end the process.            *)
(***************************************************************************)
EXTENDS Curve

CONSTANTS Inputs,   \* the <<prime, x>> pairs the caller asks about
          Results   \* the values the output may hold

VARIABLES prime, x, out, phase

vars == <<prime, x, out, phase>>

\* Inverses of v modulo P that are smaller than P in magnitude, and residues
\* when v is not negative.
Inverses(P, v) ==
  {y \in 1 - P .. P - 1 : (v * y) % P = 1 /\ (v >= 0 => y >= 0)}

Init ==
  /\ prime \in Results /\ x \in Results /\ out \in Results
  /\ phase = "idle"

Ask ==
  /\ phase \in {"idle", "returned"}
  /\ prime' \in Results /\ x' \in Results
  /\ <<prime', x'>> \in Inputs
  /\ phase' = "idle"
  /\ UNCHANGED out

Begin ==
  /\ phase \in {"idle", "returned"}
  /\ phase' = "computing"
  /\ UNCHANGED <<prime, x, out>>

HasInverse(P, v) == IsPrime(P) /\ v % P # 0

Answer ==
  /\ phase = "computing"
  /\ out' \in IF HasInverse(prime, x) THEN Inverses(prime, x) ELSE Results
  /\ phase' = "answered"
  /\ UNCHANGED <<prime, x>>

Trap ==
  /\ phase = "computing"
  /\ prime \in {0, -1}
  /\ phase' = "crashed"
  /\ UNCHANGED <<prime, x, out>>

Finish ==
  /\ phase = "answered"
  /\ phase' = "returned"
  /\ UNCHANGED <<prime, x, out>>

Next == Ask \/ Begin \/ Answer \/ Trap \/ Finish

Spec == Init /\ [][Next]_vars /\ WF_vars(Answer \/ Trap) /\ WF_vars(Finish)
=============================================================================

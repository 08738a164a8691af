--------------------------- MODULE PointAddition ---------------------------
(***************************************************************************)
(* What the point-addition kernel promises its caller: a call comes back    *)
(* with the sum of the two points it was given, by the chord and tangent    *)
(* rule on y^2 = x^3 + a x + b over the field of p elements.                *)
(***************************************************************************)
EXTENDS Curve

CONSTANTS Inputs,   \* the argument tuples the caller passes
          Coords    \* the values a coordinate may have

(***************************************************************************)
(* args is <<p, a, b, zero, x1, y1, x2, y2>>, in the order of the addresses *)
(* of the kernel's inputs; sum is the pair a caller reads, <<>> until then. *)
(***************************************************************************)
VARIABLES args, sum, phase

vars == <<args, sum, phase>>

\* The pairs that stand for the sum of the points s and t.
Sums(p, a, zero, s, t) ==
  IF IsZero(s, zero) THEN {t}
  ELSE IF IsZero(t, zero) THEN {s}
  ELSE IF s[1] = t[1] /\ (s[2] + t[2]) % p = 0
       THEN {pt \in Coords \X Coords : IsZero(pt, zero)}
  ELSE {ThirdPoint(p, Slope(p, a, s, t), s, t)}

(***************************************************************************)
(* What the promise is about: a field of characteristic above three, two    *)
(* points of the curve, and -1 (all ones) as the value of zero.  The double *)
(* of a point with y = 0 is left out: the kernel gives no zero there.       *)
(***************************************************************************)
WellPosed(in) ==
  LET s == <<in[5], in[6]>>
      t == <<in[7], in[8]>>
  IN  /\ IsPrime(in[1]) /\ in[1] > 3
      /\ in[4] = -1
      /\ \A pt \in {s, t} : IsZero(pt, in[4]) \/ OnCurve(pt, in[1], in[2], in[3])
      /\ ~(s = t /\ s[2] = 0)

Answers(in) ==
  IF WellPosed(in) THEN Sums(in[1], in[2], in[4], <<in[5], in[6]>>, <<in[7], in[8]>>)
  ELSE Coords \X Coords

Init == args \in [1 .. 8 -> Coords] /\ sum = <<>> /\ phase = "idle"

Ask ==
  /\ phase \in {"idle", "returned"}
  /\ args' \in Inputs
  /\ sum' = <<>>
  /\ phase' = "idle"

Begin ==
  /\ phase \in {"idle", "returned"}
  /\ sum' = <<>>
  /\ phase' = "running"
  /\ UNCHANGED args

Answer ==
  /\ phase = "running"
  /\ sum' \in Answers(args)
  /\ phase' = "returned"
  /\ UNCHANGED args

\* A modulus that a machine word cannot always be divided by may end the process.
Trap ==
  /\ phase = "running"
  /\ args[1] \in {0, -1}
  /\ phase' = "crashed"
  /\ UNCHANGED <<args, sum>>

Next == Ask \/ Begin \/ Answer \/ Trap

Spec == Init /\ [][Next]_vars /\ WF_vars(Answer \/ Trap)
=============================================================================

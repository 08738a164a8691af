------------------------------- MODULE Curve -------------------------------
(***************************************************************************)
(* The curve y^2 = x^3 + a x + b over the field of p elements, by its       *)
(* equations: no algorithm of the kernels is repeated here.                 *)
(***************************************************************************)
EXTENDS Integers

IsPrime(n) == n > 1 /\ \A d \in 2 .. n - 1 : n % d # 0

\* padd.h: "if x or y is this, the point is zero".
IsZero(pt, zero) == pt[1] = zero \/ pt[2] = zero

OnCurve(pt, p, a, b) ==
  /\ pt \in (0 .. p - 1) \X (0 .. p - 1)
  /\ (pt[2] * pt[2] - pt[1] * pt[1] * pt[1] - a * pt[1] - b) % p = 0

\* The slope of the line through two points with different x, or of the tangent
\* in a point with y # 0: the one residue that solves the equation.
Slope(p, a, s, t) ==
  CHOOSE m \in 0 .. p - 1 :
    IF s[1] # t[1] THEN (m * (s[1] - t[1]) - (s[2] - t[2])) % p = 0
    ELSE (m * 2 * s[2] - 3 * s[1] * s[1] - a) % p = 0

ThirdPoint(p, m, s, t) ==
  LET x3 == (m * m - s[1] - t[1]) % p
  IN  <<x3, (m * (s[1] - x3) - s[2]) % p>>
=============================================================================

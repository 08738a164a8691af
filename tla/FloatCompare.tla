---------------------------- MODULE FloatCompare ----------------------------
(***************************************************************************)
(* EXPECT_FLOAT_EQ and EXPECT_DOUBLE_EQ: the class template FloatingPoint   *)
(* (gtest-internal.h) for any numbers of exponent and of fraction bits.     *)
(* Bits are natural numbers.                                                *)
(***************************************************************************)
EXTENDS Integers, FiniteSets

CONSTANTS kExponentBitCount, kFractionBitCount, kMaxUlps

ASSUME FormatAssumption ==
  kExponentBitCount \in Nat \ {0} /\ kFractionBitCount \in Nat \ {0} /\ kMaxUlps \in Nat

\* Arithmetic that holds for every format, stated because the provers do not
\* reason about exponents.
ASSUME FormatPowers ==
  /\ 2 ^ (kExponentBitCount + kFractionBitCount) = 2 ^ kExponentBitCount * 2 ^ kFractionBitCount
  /\ 2 ^ kFractionBitCount \in Nat \ {0} /\ 2 ^ kExponentBitCount \in Nat \ {0, 1}
  /\ \A e \in 0 .. 2 ^ kExponentBitCount : 2 ^ e \in Nat \ {0} /\ 2 ^ (e + 1) = 2 * 2 ^ e

kSignBitMask == 2 ^ (kExponentBitCount + kFractionBitCount)
Bits == 0 .. 2 * kSignBitMask - 1

sign_bit(x) == x >= kSignBitMask
magnitude(x) == x % kSignBitMask
exponent_bits(x) == magnitude(x) \div 2 ^ kFractionBitCount
fraction_bits(x) == x % 2 ^ kFractionBitCount

is_nan(x) == exponent_bits(x) = 2 ^ kExponentBitCount - 1 /\ fraction_bits(x) # 0

\* Fault: the complement alone, which keeps the two zeros apart.
OnesComplement(sam) == IF sign_bit(sam) THEN 2 * kSignBitMask - 1 - sam ELSE kSignBitMask + sam
SignAndMagnitudeToBiased(sam) ==
  IF sign_bit(sam) THEN ((2 * kSignBitMask - 1 - sam) + 1) % (2 * kSignBitMask)
  ELSE kSignBitMask + sam

DistanceBetweenSignAndMagnitudeNumbers(sam1, sam2) ==
  LET biased1 == SignAndMagnitudeToBiased(sam1)
      biased2 == SignAndMagnitudeToBiased(sam2)
  IN  IF biased1 >= biased2 THEN biased1 - biased2 ELSE biased2 - biased1

AlmostEquals(x, y) ==
  /\ ~is_nan(x) /\ ~is_nan(y)
  /\ DistanceBetweenSignAndMagnitudeNumbers(x, y) <= kMaxUlps

(***************************************************************************)
(* The numbers that the bits stand for, in units of half the least one.     *)
(* Infinity is where the next number would be.                              *)
(***************************************************************************)
Value(x) ==
  LET size == IF exponent_bits(x) = 0 THEN 2 * fraction_bits(x)
              ELSE (2 ^ kFractionBitCount + fraction_bits(x)) * 2 ^ exponent_bits(x)
  IN  IF sign_bit(x) THEN -size ELSE size

Representable == {Value(z) : z \in {b \in Bits : ~is_nan(b)}}

\* The steps from one number to the next one, between two numbers.
Ulps(x, y) ==
  Cardinality({v \in Representable : (Value(x) < v /\ v <= Value(y)) \/ (Value(y) < v /\ v <= Value(x))})
=============================================================================

------------------------------- MODULE Words -------------------------------
(***************************************************************************)
(* The machine words of the VPU: `typedef int64_t Word' and the C++ integer *)
(* operators the executors apply to it.  The width is a parameter, so that  *)
(* every fact is about any two's complement width and the model checker can *)
(* use a narrow one; the hardware's is 64.                                  *)
(***************************************************************************)
EXTENDS Integers

CONSTANT WordBits   \* width of a Word (64 in processor.h)

Half == 2^(WordBits - 1)

ASSUME WordBitsAssumption == WordBits \in Nat \ {0}

\* Arithmetic that holds for every width, stated because the provers do not
\* reason about exponents.
ASSUME PowersOfTwo == 2^0 = 1 /\ \A k \in 0 .. WordBits : 2^(k + 1) = 2 * 2^k

Word == -Half .. Half - 1

\* Two's complement truncation: what the compiled code leaves in a register
\* when a sum, a difference or a product does not fit.
Wrap(n) == ((n + Half) % (2 * Half)) - Half

Add(a, b) == Wrap(a + b)
Sub(a, b) == Wrap(a - b)
Mul(a, b) == Wrap(a * b)

(***************************************************************************)
(* Division truncates toward zero (C++), unlike \div, which rounds down.    *)
(* For the two undefined cases Quot and Rem give what a divide unit that    *)
(* does not trap leaves (AArch64: x / 0 = 0, MIN / -1 = MIN); x86-64 raises *)
(* SIGFPE there, which Processor adds as the other outcome.                 *)
(***************************************************************************)
DivUndefined(a, b) == b = 0 \/ (a = -Half /\ b = -1)

Magnitude(n) == IF n < 0 THEN -n ELSE n

Quot(a, b) ==
  IF b = 0 THEN 0
  ELSE LET q == Magnitude(a) \div Magnitude(b)
       IN  Wrap(IF (a < 0) # (b < 0) THEN -q ELSE q)

\* The sign of a remainder is the sign of the dividend: -1 % 37 is -1.
Rem(a, b) == Wrap(a - b * Quot(a, b))

(***************************************************************************)
(* Bitwise operators, on the set of the bits that are 1.  A word and its    *)
(* set of bits determine each other.                                        *)
(***************************************************************************)
Bit == 0 .. WordBits - 1

BitsOf == [w \in Word |-> {k \in Bit : (w \div 2^k) % 2 = 1}]

WordWith(S) == CHOOSE w \in Word : BitsOf[w] = S

BitAnd(a, b) == WordWith(BitsOf[a] \cap BitsOf[b])
BitOr(a, b)  == WordWith(BitsOf[a] \cup BitsOf[b])
BitXor(a, b) == WordWith((BitsOf[a] \cup BitsOf[b]) \ (BitsOf[a] \cap BitsOf[b]))
BitNot(a)    == WordWith(Bit \ BitsOf[a])
=============================================================================

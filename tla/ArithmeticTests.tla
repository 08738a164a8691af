-------------------------- MODULE ArithmeticTests ---------------------------
(***************************************************************************)
(* Programs that use every arithmetic executor, and what they leave.        *)
(***************************************************************************)
EXTENDS ProcessorTests

Operands == <<Load(1, 0), Load(2, 1)>>

Field3 == <<LoadPrime(0)>> \o Operands \o
          <<Op2("ADDP", 0, 1, 2), Op2("SUBP", 0, 1, 3), Op2("MULP", 0, 1, 4)>>

Integer4 == Operands \o
            <<Op2("ADD", 0, 1, 2), Op2("SUB", 0, 1, 3), Op2("MUL", 0, 1, 4), Op2("DIV", 0, 1, 5)>>

Bitwise4 == Operands \o
            <<Op2("AND", 0, 1, 2), Op2("OR", 0, 1, 3), Op2("XOR", 0, 1, 4),
              Instr("NOT", <<R(0)>>, <<R(5)>>)>>

\* Modulo 2^WordBits.
Congruent(m, n) == (m - n) % (2 * Half) = 0

\* What the integer and bitwise executors leave, stated in exact arithmetic and
\* without bits: two's complement sums, differences and products, a quotient
\* truncated toward zero, and AND + OR = a + b, XOR = OR - AND, NOT a = -a - 1
\* (processor.cc:24-64).
ArithmeticLaws ==
  status = "returned" =>
    LET a == regs[0]
        b == regs[1]
    IN  /\ prog = Integer4 =>
             /\ Congruent(regs[2], a + b)
             /\ Congruent(regs[3], a - b)
             /\ Congruent(regs[4], a * b)
             /\ ~DivUndefined(a, b) =>
                  LET r == a - b * regs[5]
                  IN  Magnitude(r) < Magnitude(b) /\ r * a >= 0
        /\ prog = Bitwise4 =>
             /\ regs[2] + regs[3] = a + b
             /\ regs[4] = regs[3] - regs[2]
             /\ regs[5] = -a - 1
=============================================================================

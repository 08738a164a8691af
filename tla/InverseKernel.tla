--------------------------- MODULE InverseKernel ---------------------------
(***************************************************************************)
(* The program that MultInverse::generate appends to an empty VPUProgram    *)
(* (mult_inverse.h), block by block.                                        *)
(***************************************************************************)
EXTENDS Isa

P_ADDR == 0
X_ADDR == 1
OUT_ADDR == 10

\* Stated because the provers do not know that a literal is a string.
ASSUME InverseLabels == {"multinv", "while", "next", "done"} \subseteq STRING

\* R8 the result, R20 x, R21 the exponent, R22 one, R23 two, R0 zero.
Setup ==
  <<At("multinv", LoadPrime(P_ADDR)),
    Set(1, 8),
    Load(X_ADDR, 20),
    Set(1, 22),
    BranchEq(20, 22, "done"),
    Load(P_ADDR, 21),
    Set(2, 23),
    Op2("SUB", 21, 23, 21),
    Set(0, 0),
    BranchEq(21, 0, "done")>>

\* Fault: the power is squared before it is multiplied in.
SquareFirst ==
  <<At("while", Op2("MULP", 20, 20, 20)), Op2("AND", 21, 22, 13), BranchEq(13, 0, "next"),
    Op2("MULP", 8, 20, 8), At("next", Op2("DIV", 21, 23, 21)), BranchEq(21, 0, "done"),
    BranchEq(0, 0, "while")>>

\* Fault: the exponent is counted down.
CountDown ==
  <<At("while", Op2("AND", 21, 22, 13)), BranchEq(13, 0, "next"), Op2("MULP", 8, 20, 8),
    At("next", Op2("SUB", 21, 22, 21)), Op2("MULP", 20, 20, 20), BranchEq(21, 0, "done"),
    BranchEq(0, 0, "while")>>

SquareAndMultiply ==
  <<At("while", Op2("AND", 21, 22, 13)),
    BranchEq(13, 0, "next"),
    Op2("MULP", 8, 20, 8),
    At("next", Op2("DIV", 21, 23, 21)),
    Op2("MULP", 20, 20, 20),
    BranchEq(21, 0, "done"),
    BranchEq(0, 0, "while")>>

\* Fault: the last power is stored, not the product.
StorePower == <<At("done", Store(20, OUT_ADDR))>>

Finale == <<At("done", Store(8, OUT_ADDR))>>

MultInverseProg == Setup \o SquareAndMultiply \o Finale
=============================================================================

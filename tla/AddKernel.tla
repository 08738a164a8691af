----------------------------- MODULE AddKernel -----------------------------
(***************************************************************************)
(* The program that PAdd::generate appends to an empty VPUProgram (padd.h), *)
(* block by block.  The inverse is a subroutine inside it, called from the  *)
(* chord and from the tangent.                                              *)
(***************************************************************************)
EXTENDS Isa

P_ADDR == 0
A_ADDR == 1
B_ADDR == 2
Z_ADDR == 3
X1_ADDR == 4
Y1_ADDR == 5
X2_ADDR == 6
Y2_ADDR == 7
OUT_ADDR1 == 10
OUT_ADDR2 == 11

\* Stated because the provers do not know that a literal is a string.
ASSUME AddLabels ==
  {"call_multinv", "while", "next", "mi_done", "xsame", "ysame", "intersect", "done"} \subseteq STRING

\* R0 zero, R1-R4 x1 y1 x2 y2, R5 the prime, R6 a, R12 the zero marker.
LoadArguments ==
  <<LoadPrime(P_ADDR), Load(A_ADDR, 6), Load(P_ADDR, 5), Load(Z_ADDR, 12), Set(0, 0),
    Load(X1_ADDR, 1), Load(Y1_ADDR, 2), Load(X2_ADDR, 3), Load(Y2_ADDR, 4)>>

\* Fault: the point that is zero is moved, not the other one.
MoveZero ==
  <<Op2("OR", 1, 2, 13), Op2("ADD", 1, 0, 8), Op2("ADD", 2, 0, 9), BranchEq(13, 12, "done"),
    Op2("OR", 3, 4, 13), Op2("ADD", 3, 0, 8), Op2("ADD", 4, 0, 9), BranchEq(13, 12, "done"),
    BranchEq(1, 3, "xsame")>>

\* The other point is moved to R8, R9 before each test for zero.
ZeroCases ==
  <<Op2("OR", 1, 2, 13), Op2("ADD", 3, 0, 8), Op2("ADD", 4, 0, 9), BranchEq(13, 12, "done"),
    Op2("OR", 3, 4, 13), Op2("ADD", 1, 0, 8), Op2("ADD", 2, 0, 9), BranchEq(13, 12, "done"),
    BranchEq(1, 3, "xsame")>>

\* R14 := y1 - y2, R20 := x1 - x2, R7 := R14 / R20.
Chord ==
  <<Op2("SUBP", 2, 4, 13), Op2("ADDP", 13, 5, 14),
    Op2("SUBP", 1, 3, 15), Op2("ADDP", 15, 5, 20),
    JumpLink("call_multinv", 10),
    Op2("MULP", 14, 8, 7),
    BranchEq(0, 0, "intersect")>>

\* Fault: the subroutine's temporary is r, not R13.
WithTemporary(r) ==
  <<At("call_multinv", Set(1, 8)), Set(1, 22), BranchEq(20, 22, "mi_done"),
    Set(2, 23), Op2("SUB", 5, 23, 21), BranchEq(21, 0, "mi_done"),
    At("while", Op2("AND", 21, 22, r)), BranchEq(r, 0, "next"), Op2("MULP", 8, 20, 8),
    At("next", Op2("DIV", 21, 23, 21)), Op2("MULP", 20, 20, 20), BranchEq(21, 0, "mi_done"),
    BranchEq(0, 0, "while"), At("mi_done", Return(10))>>

NumeratorAsTemporary == WithTemporary(14)

\* R8 := 1 / R20; R21 the exponent, R22 one, R23 two, R10 the link.
Subroutine ==
  <<At("call_multinv", Set(1, 8)), Set(1, 22), BranchEq(20, 22, "mi_done"),
    Set(2, 23), Op2("SUB", 5, 23, 21), BranchEq(21, 0, "mi_done"),
    At("while", Op2("AND", 21, 22, 13)), BranchEq(13, 0, "next"), Op2("MULP", 8, 20, 8),
    At("next", Op2("DIV", 21, 23, 21)), Op2("MULP", 20, 20, 20), BranchEq(21, 0, "mi_done"),
    BranchEq(0, 0, "while"),
    At("mi_done", Return(10))>>

\* Fault: the result zero does not carry its marker.
ZeroUnmarked ==
  <<At("xsame", BranchEq(2, 4, "ysame")),
    Op2("OR", 5, 5, 8), Op2("OR", 5, 5, 9), BranchEq(0, 0, "done")>>

\* Points with the same x and different y add up to (P, zero).
SameX ==
  <<At("xsame", BranchEq(2, 4, "ysame")),
    Op2("OR", 5, 5, 8), Op2("OR", 12, 12, 9), BranchEq(0, 0, "done")>>

\* R16 := 3 x1^2 + a, R20 := 2 y1, R7 := R16 / R20.
Tangent ==
  <<At("ysame", Op2("MULP", 1, 1, 13)), Set(3, 14), Op2("MULP", 13, 14, 15),
    Op2("ADDP", 15, 6, 16), Set(2, 14), Op2("MULP", 2, 14, 20),
    JumpLink("call_multinv", 10),
    Op2("MULP", 16, 8, 7)>>

\* Fault: x1 is subtracted twice, x2 never.
SubtractX1Twice ==
  <<At("intersect", Op2("MULP", 7, 1, 13)), Op2("ADDP", 2, 5, 17), Op2("SUBP", 17, 13, 14),
    Op2("MULP", 7, 7, 15), Op2("SUBP", 5, 1, 16), Op2("SUBP", 5, 1, 17),
    Op2("ADDP", 16, 17, 18), Op2("ADDP", 15, 18, 8),
    Op2("MULP", 7, 8, 13), Op2("SUBP", 5, 13, 15), Op2("SUBP", 5, 14, 16),
    Op2("ADDP", 15, 16, 9)>>

\* R14 := y1 - m x1, R8 := m^2 - x1 - x2, R9 := - m R8 - R14.
Intersect ==
  <<At("intersect", Op2("MULP", 7, 1, 13)), Op2("ADDP", 2, 5, 17), Op2("SUBP", 17, 13, 14),
    Op2("MULP", 7, 7, 15), Op2("SUBP", 5, 1, 16), Op2("SUBP", 5, 3, 17),
    Op2("ADDP", 16, 17, 18), Op2("ADDP", 15, 18, 8),
    Op2("MULP", 7, 8, 13), Op2("SUBP", 5, 13, 15), Op2("SUBP", 5, 14, 16),
    Op2("ADDP", 15, 16, 9)>>

StoreSum == <<At("done", Store(8, OUT_ADDR1)), Store(9, OUT_ADDR2)>>

PAddProg ==
  LoadArguments \o ZeroCases \o Chord \o Subroutine \o SameX \o Tangent \o Intersect \o StoreSum
=============================================================================

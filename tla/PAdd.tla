-------------------------------- MODULE PAdd --------------------------------
(***************************************************************************)
(* The elliptic-curve point-addition kernel (padd.h): the program that      *)
(* PAdd::generate assembles, run on a Processor by an owner who stores the  *)
(* arguments in SRAM and calls run_program.  The inverse is computed by a   *)
(* subroutine inside the program, called from the chord and the tangent.    *)
(***************************************************************************)
EXTENDS Processor, AddKernel, Curve

CONSTANTS Inputs,    \* tuples <<p, a, b, zero, x1, y1, x2, y2>> the owner stores
          Boot,      \* indeterminate contents of a new object's memory
          MaxStores  \* bound: argument tuples the owner stores in one object

ASSUME InputsAssumption == Inputs \subseteq [1 .. 8 -> Word]

ASSUME BootAssumption ==
  \A m \in Boot : m.sram \in [Addr -> Word] /\ m.regs \in [Reg -> Word] /\ m.p \in Word

ASSUME KernelFits == /\ NumRegs > 23 /\ SramSize > OUT_ADDR2
                     /\ PcModulus > 65 /\ Half > 3 /\ MaxStores \in Nat \ {0}

VARIABLE stores   \* argument tuples stored so far

vars == <<procVars, stores>>

Init == ProcessorInit(Boot) /\ stores = 0

Arguments == [k \in 1 .. 8 |-> sram[k - 1]]

\* The owner's stores to sram_[0] .. sram_[7] (padd_test.cc:49-56).
StoreInputs ==
  /\ status \in {"idle", "returned"}
  /\ stores < MaxStores
  /\ stores' = stores + 1
  /\ \E in \in Inputs : sram' = [a \in Addr |-> IF a < 8 THEN in[a + 1] ELSE sram[a]]
  /\ status' = "idle"
  /\ UNCHANGED <<regs, p, pc, labels>>

\* The arguments must have been stored: the call is about one of Inputs.
Call ==
  /\ RunProgram(PAddProg)
  /\ Arguments \in Inputs
  /\ UNCHANGED stores

RunStep ==
  /\ Step(PAddProg) \/ Trap(PAddProg) \/ Finish(PAddProg)
  /\ UNCHANGED stores

Next == StoreInputs \/ Call \/ RunStep

\* run_program is a loop on the caller's own thread: it keeps running.
Spec == Init /\ [][Next]_vars /\ WF_vars(RunStep)

(***************************************************************************)
(* Properties.                                                              *)
(***************************************************************************)
P == sram[P_ADDR]
point1 == <<sram[X1_ADDR], sram[Y1_ADDR]>>
point2 == <<sram[X2_ADDR], sram[Y2_ADDR]>>
result == <<sram[OUT_ADDR1], sram[OUT_ADDR2]>>

Abstract == INSTANCE PointAddition
              WITH Coords <- Word, args <- Arguments, phase <- status,
                   sum <- IF status = "returned" THEN result ELSE <<>>

\* The kernel implements the abstract addition: each call ends, with a sum of
\* the two points in SRAM and the arguments as the caller left them.
ImplementsAddition == Abstract!Spec

\* The result of adding two points of a curve is zero or a point of that curve,
\* although the kernel never reads the curve's b (padd.h:143-440).
ResultOnCurve ==
  (status = "returned" /\ Abstract!WellPosed(Arguments)) =>
    \/ IsZero(result, sram[Z_ADDR])
    \/ OnCurve(result, P, sram[A_ADDR], sram[B_ADDR])

\* The subroutine goes back behind the JAL that entered it, whatever was stored,
\* with the inverse of its argument in R8 and the caller's numerator as it was:
\* none of the caller's live registers is among those the loop overwrites
\* (padd.h:173-182, 190-279, 344-354).
CallerStateKept ==
  /\ status = "running" /\ pc \in 25 .. 38 =>
       regs[10] = IF regs[1] # regs[3] THEN 22 ELSE 49
  /\ status = "running" /\ Abstract!WellPosed(Arguments) =>
    /\ pc = 23 => /\ regs[1] # regs[3]
                  /\ (regs[8] * (regs[1] - regs[3])) % P = 1
                  /\ (regs[14] - (regs[2] - regs[4])) % P = 0
    /\ pc = 50 => /\ regs[1] = regs[3] /\ regs[2] = regs[4]
                  /\ (regs[8] * 2 * regs[2]) % P = 1
                  /\ (regs[16] - (3 * regs[1] * regs[1] + regs[6])) % P = 0

\* padd.h:17: a point is zero if its x or its y has the value of EC-Zero.  The
\* sum of zero and another point is that point.
MarkerMeansZero ==
  LET zero(pt) == IsZero(pt, sram[Z_ADDR])
  IN  status = "returned" =>
        /\ zero(point1) /\ ~zero(point2) => result = point2
        /\ zero(point2) /\ ~zero(point1) => result = point1

\* README.md:18, "add two EC points together": the tangent in a point with y = 0
\* is vertical, so the point added to itself gives zero.
TorsionDoublesToZero ==
  (status = "returned" /\ point1 = point2 /\ point1[2] = 0)
    => IsZero(result, sram[Z_ADDR])
=============================================================================

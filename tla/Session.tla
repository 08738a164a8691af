------------------------------ MODULE Session ------------------------------
(***************************************************************************)
(* One owner, one Processor, both kernels.  The owner computes multiples of *)
(* a point by adding it to an accumulator and by doubling the accumulator,  *)
(* feeding the words it read from SRAM back as arguments, zero in whatever  *)
(* form the kernel gave it included, and inverts numbers modulo some prime  *)
(* in between.  No call of one kernel may depend on what the other left.    *)
(***************************************************************************)
EXTENDS Processor, Curve, Disassembler

CONSTANTS P, CurveA, CurveB,   \* the curve
          Base,                \* the point of it that is multiplied
          MaxMultiple,         \* bound: the largest multiple computed
          InverseInputs,       \* <<prime, x>> pairs to invert in between
          Boot                 \* indeterminate contents of the new object's memory

\* The point is not one whose double the kernel gets wrong.
ASSUME CurveAssumption ==
  /\ IsPrime(P) /\ P > 3 /\ P \in Word /\ CurveA \in Word /\ CurveB \in Word
  /\ OnCurve(Base, P, CurveA, CurveB) /\ Base[2] # 0

\* A word holds every product, and the sum of the parameter and a residue.
ASSUME SessionBounds ==
  /\ NumRegs > 23 /\ SramSize > 11 /\ PcModulus > 65
  /\ Half > P * P /\ Half >= P + CurveA /\ MaxMultiple \in Nat \ {0}

ASSUME WordsAssumption ==
  /\ InverseInputs \subseteq Word \X Word
  /\ \A m \in Boot : m.sram \in [Addr -> Word] /\ m.regs \in [Reg -> Word] /\ m.p \in Word

\* Stated because the provers do not know that a literal is a string.
ASSUME SessionLabels ==
  {"multinv", "call_multinv", "while", "next", "mi_done", "xsame", "ysame", "intersect", "done"}
    \subseteq STRING

Inverting == INSTANCE InverseKernel
Addition  == INSTANCE AddKernel

VARIABLES
  prog,        \* the program of the latest call
  phase,       \* where the owner is: "resting", "stored", "called"
  acc,         \* the owner's point
  multiple,    \* ghost: the multiple of Base that acc stands for
  pending      \* ghost: the multiple that the call in progress is to give

ownerVars == <<prog, phase, acc, multiple, pending>>
vars == <<procVars, ownerVars>>

Zero == <<-1, -1>>   \* EC-Zero, as the tests define it

Init ==
  /\ ProcessorInit(Boot)
  /\ prog = <<>> /\ phase = "resting"
  /\ acc = Zero /\ multiple = 0 /\ pending = 0

\* The owner stores the arguments of a call and chooses the program.
Prepare(q, memory) ==
  /\ phase = "resting" /\ phase' = "stored"
  /\ prog' = q
  /\ sram' = memory
  /\ status' = "idle"
  /\ UNCHANGED <<regs, p, pc, labels, acc, multiple>>

PrepareSum(s, t) ==
  Prepare(Addition!PAddProg,
          [sram EXCEPT ![0] = P, ![1] = CurveA, ![2] = CurveB, ![3] = -1,
                       ![4] = s[1], ![5] = s[2], ![6] = t[1], ![7] = t[2]])

AddBase ==
  /\ multiple < MaxMultiple
  /\ pending' = multiple + 1
  /\ PrepareSum(acc, Base) \/ PrepareSum(Base, acc)

\* A point with y = 0 is not doubled: the kernel gives no zero there.
Double ==
  /\ 2 * multiple <= MaxMultiple
  /\ acc[2] # 0
  /\ pending' = 2 * multiple
  /\ PrepareSum(acc, acc)

Invert(in) ==
  /\ Prepare(Inverting!MultInverseProg, [sram EXCEPT ![0] = in[1], ![1] = in[2]])
  /\ UNCHANGED pending

Call ==
  /\ phase = "stored" /\ phase' = "called"
  /\ RunProgram(prog)
  /\ UNCHANGED <<prog, acc, multiple, pending>>

RunStep == (Step(prog) \/ Trap(prog) \/ Finish(prog)) /\ UNCHANGED ownerVars

\* The owner reads the output: a sum becomes its point.
Collect ==
  /\ phase = "called" /\ status = "returned" /\ phase' = "resting"
  /\ acc' = IF prog = Addition!PAddProg THEN <<sram[10], sram[11]>> ELSE acc
  /\ multiple' = pending
  /\ UNCHANGED <<procVars, prog, pending>>

Next ==
  \/ AddBase \/ Double \/ Call \/ RunStep \/ Collect
  \/ \E in \in InverseInputs : Invert(in)

Spec == Init /\ [][Next]_vars /\ WF_vars(RunStep)

(***************************************************************************)
(* Properties.                                                              *)
(***************************************************************************)

\* n times Base, by the group law.
Multiple ==
  LET sum(s) ==
        IF s = Zero THEN Base
        ELSE IF s[1] = Base[1] /\ (s[2] + Base[2]) % P = 0 THEN Zero
        ELSE ThirdPoint(P, Slope(P, CurveA, s, Base), s, Base)
      times[n \in 0 .. MaxMultiple] == IF n = 0 THEN Zero ELSE sum(times[n - 1])
  IN  times

\* The double of a multiple is that many times two of Base.  The group law is
\* associative: a fact of the curve, not of the program.
DoublingLaw ==
  \A n \in 0 .. MaxMultiple : 2 * n <= MaxMultiple =>
    LET s == Multiple[n]
    IN  Multiple[2 * n] = IF s = Zero \/ s[2] = 0 THEN Zero
                          ELSE ThirdPoint(P, Slope(P, CurveA, s, s), s, s)

\* What is inverted has an inverse, and no product on the way leaves the word.
InversesFit ==
  \A in \in InverseInputs :
    /\ IsPrime(in[1]) /\ in[2] % in[1] # 0
    /\ in[2] * in[2] < Half /\ (in[1] - 1) * (in[1] - 1) < Half

\* However the owner reaches a multiple, by additions in either order and by
\* doublings, through zero and past it, with inversions in between, its point is
\* that multiple: the kernel's addition is a group law on its own results
\* (padd.h:93-440), and no call sees what another left in the object.
PointIsMultiple ==
  phase = "resting" =>
    IF Multiple[multiple] = Zero THEN IsZero(acc, -1) ELSE acc = Multiple[multiple]

\* An inversion gives the inverse on an object that has just added points over
\* another prime, with that kernel's labels still in labels_ (mult_inverse.h).
InverseBetween ==
  (phase = "resting" /\ prog = Inverting!MultInverseProg) => (sram[1] * sram[10]) % sram[0] = 1

\* Every call of a session comes back: with a prime in SRAM nothing traps and
\* every loop ends, whatever the registers and labels of the other kernel.
CallsReturn == (status = "running") ~> (status = "returned")

\* The listing that the Print tests show is complete, and it tells apart any two
\* instructions that differ in more than the label they carry (tools.cc:28-37).
ListingTells ==
  LET text == program_to_str(prog)
  IN  /\ text \notin {DisassemblyError, OutOfRange}
      /\ \A j, k \in DOMAIN prog :
           text[j] = text[k] => At(NoLabel, prog[j]) = At(NoLabel, prog[k])
=============================================================================

---------------------------- MODULE MultInverse ----------------------------
(***************************************************************************)
(* The multiplicative-inverse kernel (mult_inverse.h): the program that     *)
(* MultInverse::generate assembles, run on a Processor by an owner who      *)
(* stores the prime and x in SRAM and calls run_program, again and again.   *)
(***************************************************************************)
EXTENDS Processor, InverseKernel

CONSTANTS Inputs,   \* the <<prime, x>> pairs the owner stores
          Boot      \* indeterminate contents of a new object's memory

ASSUME InputsAssumption == Inputs \subseteq Word \X Word

ASSUME BootAssumption ==
  \A m \in Boot : m.sram \in [Addr -> Word] /\ m.regs \in [Reg -> Word] /\ m.p \in Word

ASSUME KernelFits == NumRegs > 23 /\ SramSize > OUT_ADDR /\ PcModulus > 18 /\ Half > 2

VARIABLE executed   \* history: instructions executed by the current call

vars == <<procVars, executed>>

Init == ProcessorInit(Boot) /\ executed = 0

\* The owner's stores to sram_[0] and sram_[1] (mult_inverse_test.cc:36-37).
StoreInputs ==
  /\ status \in {"idle", "returned"}
  /\ \E in \in Inputs : sram' = [sram EXCEPT ![P_ADDR] = in[1], ![X_ADDR] = in[2]]
  /\ status' = "idle"
  /\ executed' = 0
  /\ UNCHANGED <<regs, p, pc, labels>>

\* The prime and x must have been stored: the call is about one of Inputs.
Call ==
  /\ RunProgram(MultInverseProg)
  /\ <<sram[P_ADDR], sram[X_ADDR]>> \in Inputs
  /\ executed' = 0

RunStep ==
  \/ Step(MultInverseProg) /\ executed' = executed + 1
  \/ (Trap(MultInverseProg) \/ Finish(MultInverseProg)) /\ UNCHANGED executed

Next == StoreInputs \/ Call \/ RunStep

\* run_program is a loop on the caller's own thread: it keeps running.
Spec == Init /\ [][Next]_vars /\ WF_vars(RunStep)

(***************************************************************************)
(* Properties.                                                              *)
(***************************************************************************)
P == sram[P_ADDR]
x == sram[X_ADDR]

\* A caller sees a call begin, the store of the output, and the call's end.
phase ==
  CASE status = "running" -> IF pc < Len(MultInverseProg) THEN "computing" ELSE "answered"
    [] OTHER -> status

Abstract == INSTANCE FieldInverse
              WITH Results <- Word, prime <- P, out <- sram[OUT_ADDR]

\* Whenever a call is back, the output is an inverse of x modulo the prime, for
\* every x that has one and whatever the registers held before the call
\* (mult_inverse.h:13-18).
InverseCorrect ==
  (status = "returned" /\ Abstract!HasInverse(P, x)) => (x * sram[OUT_ADDR]) % P = 1

\* b to the power e modulo P, by its definition.
Power(b, e) ==
  LET pow[k \in 0 .. e] == IF k = 0 THEN 1 % P ELSE (pow[k - 1] * b) % P
  IN  pow[e]

\* No product of the loop exceeds a word: x is squared as the caller gave it,
\* everything later is a remainder.
ProductsFit == x * x < Half /\ (P - 1) * (P - 1) < Half

\* At the head of the loop the partial result and the power still to be
\* computed make up x^(P-2), in every iteration and for every modulus
\* (mult_inverse.h:92-137); and the work is a fixed number of instructions for
\* each bit of the exponent, for negative ones too, as the README's "brute force
\* approaches will not be sufficient" demands.
BitLength(n) == CHOOSE k \in 0 .. WordBits : 2^k > n /\ (k = 0 \/ 2^(k - 1) <= n)

LoopInvariant ==
  /\ status = "running" /\ pc = 10 /\ P > 1 /\ ProductsFit =>
       (regs[8] * Power(regs[20], regs[21])) % P = Power(x, P - 2)
  /\ status = "running" => executed <= 11 + 7 * BitLength(Magnitude(P - 2))

\* The kernel implements the abstract inverse: only the store at "done" is
\* visible to the caller, and every call ends.
ImplementsInverse == Abstract!Spec
=============================================================================

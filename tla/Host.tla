-------------------------------- MODULE Host --------------------------------
(***************************************************************************)
(* The owner of one Processor object: between calls it stores words in the  *)
(* public sram_, and it calls run_program with one program or another, any  *)
(* number of times.  The tests use a fresh object for each call; nothing in *)
(* the class requires it, so here the object is reused.                     *)
(***************************************************************************)
EXTENDS Processor

CONSTANTS Programs,    \* the programs the owner may run
          HostWrites,  \* the stores it may make: records with addr and value
          Boot         \* indeterminate contents of a new object's memory

ASSUME ProgramsAssumption ==
  /\ Programs \subseteq Program
  /\ \A q \in Programs : Len(q) < PcModulus

ASSUME HostWritesAssumption == HostWrites \subseteq [addr : Addr, value : Word]

ASSUME BootAssumption ==
  \A m \in Boot : m.sram \in [Addr -> Word] /\ m.regs \in [Reg -> Word] /\ m.p \in Word

VARIABLE prog    \* the argument of the latest call of run_program

vars == <<procVars, prog>>

Init == ProcessorInit(Boot) /\ prog = <<>>

WriteSram(w) ==
  /\ status \in {"idle", "returned"}
  /\ sram' = [sram EXCEPT ![w.addr] = w.value]
  /\ status' = "idle"
  /\ UNCHANGED <<regs, p, pc, labels, prog>>

Call(q) == RunProgram(q) /\ prog' = q

RunStep == (Step(prog) \/ Trap(prog) \/ Finish(prog)) /\ UNCHANGED prog

Next ==
  \/ \E w \in HostWrites : WriteSram(w)
  \/ \E q \in Programs : Call(q)
  \/ RunStep

\* run_program is a loop on the caller's own thread: it keeps running.
Fairness == WF_vars(RunStep)

Spec == Init /\ [][Next]_vars
FairSpec == Spec /\ Fairness

(***************************************************************************)
(* Properties.                                                              *)
(***************************************************************************)

\* Every member keeps its C++ type, and the program in progress is one the
\* owner passed to run_program.
TypeOK ==
  /\ ProcessorTypeOK
  /\ prog \in Programs \cup {<<>>}

\* The label an executing branch or call names, when it is taken.
Jumps(i, l) ==
  \/ i.op = "JAL" /\ l = LabelOf(i.inputs[1])
  \/ i.op = "BEQ" /\ In(i, 1) = In(i, 2) /\ l = LabelOf(i.outputs[1])

\* A taken jump to a label that the running program defines lands on an
\* instruction of that program carrying the label, whatever programs ran
\* before on this object and left in labels_ (processor.cc, run_program).
JumpStep ==
  \A l \in LabelsOf(prog) :
    (Running(prog) /\ status' = "running" /\ Jumps(Fetch(prog), l))
      => (pc' < Len(prog) /\ prog[pc' + 1].label = l)

JumpsLandOnLabel == [][JumpStep]_vars

\* While a program runs, what labels_ holds for its labels is its own layout,
\* never an earlier program's: no executor overwrites an entry.
LabelsCurrent ==
  status = "running" => \A l \in LabelsOf(prog) : labels[l] = LastAt(prog, l)

\* No entry of labels_ comes from nowhere: what a jump finds under a label its
\* own program lacks is 0, or where some program of the owner has that label.
LabelsHaveOrigin ==
  \A l \in DOMAIN labels :
    labels[l] # 0 => \E q \in Programs : l \in LabelsOf(q) /\ labels[l] = LastAt(q, l)

\* The executing prime-field instruction has operands that are residues.
Field == 0 .. p - 1

FieldOperands(i) ==
  /\ i.op \in {"ADDP", "SUBP", "MULP"}
  /\ In(i, 1) \in Field /\ In(i, 2) \in Field

Exact(i) ==
  CASE i.op = "ADDP" -> In(i, 1) + In(i, 2)
    [] i.op = "SUBP" -> In(i, 1) - In(i, 2)
    [] i.op = "MULP" -> In(i, 1) * In(i, 2)

FieldStep(Good(_, _)) ==
  (Running(prog) /\ status' = "running" /\ FieldOperands(Fetch(prog)))
    => Good(Exact(Fetch(prog)), regs'[RegOf(Fetch(prog).outputs[1])])

\* On residues whose exact result fits a word, ADDP, SUBP and MULP leave a
\* value congruent to it modulo p_, smaller than p_ in magnitude and with the
\* sign of the exact result (processor.cc, Exec_BinaryPrime).
FieldOpsReduce ==
  [][FieldStep(LAMBDA x, r :
       x \in Word => /\ (x - r) % p = 0
                     /\ -p < r /\ r < p
                     /\ x >= 0 => r >= 0)]_vars

\* isa.proto: the prime-field ops "implicitly perform a modulo", so on residues
\* whose exact result fits a word they yield a residue.
FieldOpsClosed == [][FieldStep(LAMBDA x, r : x \in Word => r \in Field)]_vars

\* isa.proto, RET: "Return to pc in R".
ReturnStep ==
  (Running(prog) /\ status' = "running" /\ Fetch(prog).op = "RET")
    => pc' = In(Fetch(prog), 1) % PcModulus

ReturnsToRegister == [][ReturnStep]_vars
=============================================================================

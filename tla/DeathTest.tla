----------------------------- MODULE DeathTest -----------------------------
(***************************************************************************)
(* Death tests on POSIX (gtest-death-test.cc): the process of the test, one *)
(* child at a time, the pipe between them, and whoever else came to hold    *)
(* its write end.  A test is the sequence of the death assertions that it   *)
(* executes; a loop repeats a line.  What the statement does in the child,  *)
(* and how far a re-executed program gets, is the environment.              *)
(***************************************************************************)
EXTENDS Integers, Sequences

CONSTANTS
  Bodies,      \* sequences of [line, predicate, fatal]: the bodies of tests
  Turns,      \* --gtest_repeat
  Startups,   \* what may become of a re-executed program: subset of
              \* {"runs", "diverges", "exec_fails", "crashes"}
  Deeds       \* what a statement may do in the child

NoStatus == "none"
Statuses == {"exit 0", "exit 1", "signal"}

\* __LINE__, the predicate on the exit status, and ASSERT_ or EXPECT_.
Assertions == [line : Nat, predicate : {"death", "exit 0", "killed"}, fatal : BOOLEAN]

ASSUME BodiesAssumption == Bodies \subseteq Seq(Assertions)

\* A statement ends its process, or the macro behind it does (gtest-death-test-internal.h).
ASSUME DeedsAssumption ==
  Deeds \subseteq [way : {"dies"}, status : Statuses, matches : BOOLEAN]
                 \cup [way : {"returns", "throws", "completes"}, matches : BOOLEAN]

VARIABLES
  death_test_style, body, turn,
  role,        \* where the parent is
  next,        \* the position of its next death assertion
  death_test_count,
  outcome, status,          \* members of the DeathTestImpl
  last_death_test_message,  \* <<>>, or the assertion that it is about
  failures,    \* the assertions that failed: <<turn, position>>
  pipe,        \* bytes in it
  writers,     \* the holders of its write end
  child,       \* the child process
  stderr,      \* what was captured of it: does the regular expression match?
  executed,    \* deathHistory: of this assertion, the deeds that ended its statement
  kept         \* deathHistory: and the statement did not close its descriptors

parent == <<death_test_style, body, turn, role, next, death_test_count, outcome, status,
            last_death_test_message, failures>>
deathHistory == <<executed, kept>>
deathVars == <<parent, pipe, writers, child, stderr, deathHistory>>

Assertion == body[next]
Here == <<turn, next>>

NoChild == [at |-> "none", body |-> <<>>, next |-> 0, count |-> 0, index |-> 0, line |-> 0,
            byte |-> NoStatus, status |-> NoStatus, failed |-> FALSE]

\* ExitedUnsuccessfully, ExitedWithCode(0) and KilledBySignal.
Satisfies(how, predicate) ==
  CASE predicate = "death"  -> how # "exit 0"
    [] predicate = "exit 0" -> how = "exit 0"
    [] predicate = "killed" -> how = "signal"

DeathInit ==
  /\ death_test_style \in {"fast", "threadsafe", "unknown"}
  /\ body \in Bodies /\ turn = 1 /\ role = "create" /\ next = 1
  /\ death_test_count = 0 /\ outcome = "IN_PROGRESS" /\ status = NoStatus
  /\ last_death_test_message = <<>> /\ failures = {}
  /\ pipe = <<>> /\ writers = {} /\ child = NoChild /\ stderr = FALSE /\ executed = <<>> /\ kept = TRUE

(***************************************************************************)
(* The parent: the macro GTEST_DEATH_TEST_, one assertion after the other.  *)
(***************************************************************************)
\* The assertion is over: the next one, unless an ASSERT failed.
Conclude(passed) ==
  /\ failures' = IF passed THEN failures ELSE failures \cup {Here}
  /\ next' = IF passed \/ ~Assertion.fatal THEN next + 1 ELSE Len(body) + 1
  /\ role' = "create"

\* DefaultDeathTestFactory::Create, in a process that is no child.
Create ==
  /\ role = "create" /\ next <= Len(body)
  /\ death_test_count' = death_test_count + 1
  /\ outcome' = "IN_PROGRESS" /\ status' = NoStatus
  /\ IF death_test_style = "unknown"
     THEN last_death_test_message' = Here /\ Conclude(FALSE)
     ELSE role' = "spawn" /\ UNCHANGED <<last_death_test_message, failures, next>>
  /\ UNCHANGED <<death_test_style, body, turn, pipe, writers, child, stderr, deathHistory>>

\* The child of fork() is at the statement, that of exec at its own main.
Spawned ==
  IF death_test_style = "fast"
  THEN [NoChild EXCEPT !.at = "statement"]
  ELSE [NoChild EXCEPT !.at = "main", !.index = death_test_count, !.line = Assertion.line]

\* AssumeRole up to the fork, which may fail.
AssumeRole ==
  /\ role = "spawn"
  /\ last_death_test_message' = <<>>
  /\ pipe' = <<>> /\ stderr' = FALSE /\ executed' = <<>> /\ kept' = TRUE
  /\ \/ role' = "close" /\ child' = Spawned /\ writers' = {"parent", "child"}
     \/ role' = "abort" /\ UNCHANGED child /\ writers' = {}
  /\ UNCHANGED <<death_test_style, body, turn, next, death_test_count, outcome, status, failures>>

\* Fault: the parent keeps its write end.
KeepWriteEnd == writers
Closed == writers \ {"parent"}

CloseWriteEnd ==
  /\ role = "close" /\ role' = "read"
  /\ writers' = Closed
  /\ UNCHANGED <<death_test_style, body, turn, next, death_test_count, outcome, status,
                 last_death_test_message, failures, pipe, child, stderr, deathHistory>>

Outcome(byte) ==
  CASE byte = "R" -> "RETURNED" [] byte = "T" -> "THREW" [] byte = "L" -> "LIVED"
    [] OTHER -> "IN_PROGRESS"

\* The read blocks until there is a byte or nobody is left to write one.
ReadAndInterpretStatusByte ==
  /\ role = "read"
  /\ \/ /\ pipe = <<>> /\ writers = {}
        /\ outcome' = "DIED" /\ role' = "wait" /\ UNCHANGED pipe
     \/ /\ pipe # <<>>
        /\ pipe' = Tail(pipe)
        /\ outcome' = Outcome(Head(pipe))
        /\ role' = IF outcome' = "IN_PROGRESS" THEN "abort" ELSE "wait"
  /\ UNCHANGED <<death_test_style, body, turn, next, death_test_count, status,
                 last_death_test_message, failures, writers, child, stderr, deathHistory>>

Wait ==
  /\ role = "wait" /\ child.at = "dead"
  /\ role' = "judge" /\ status' = child.status
  /\ child' = NoChild
  /\ UNCHANGED <<death_test_style, body, turn, next, death_test_count, outcome,
                 last_death_test_message, failures, pipe, writers, stderr, deathHistory>>

\* Fault: the status decides alone, a child that lived exits with one, too.
PassedByStatus == Satisfies(status, Assertion.predicate) /\ stderr
DeathTestPassed == outcome = "DIED" /\ Satisfies(status, Assertion.predicate) /\ stderr

Judge ==
  /\ role = "judge"
  /\ last_death_test_message' = Here
  /\ Conclude(DeathTestPassed)
  /\ UNCHANGED <<death_test_style, body, turn, death_test_count, outcome, status,
                 pipe, writers, child, stderr, deathHistory>>

\* The test is over; --gtest_repeat runs it again.
EndBody ==
  /\ role = "create" /\ next > Len(body)
  /\ IF turn < Turns
     THEN turn' = turn + 1 /\ next' = 1 /\ death_test_count' = 0 /\ UNCHANGED role
     ELSE role' = "done" /\ UNCHANGED <<turn, next, death_test_count>>
  /\ UNCHANGED <<death_test_style, body, outcome, status, last_death_test_message, failures,
                 pipe, writers, child, stderr, deathHistory>>

(***************************************************************************)
(* The child.                                                               *)
(***************************************************************************)
\* It ends, its descriptors are closed, its stderr stays.
Dead(how, matches) ==
  /\ child' = [child EXCEPT !.at = "dead", !.status = how]
  /\ writers' = writers \ {"child"}
  /\ stderr' = matches

\* The re-executed program: it may fail to start, crash on the way or execute
\* other death assertions than its parent did.  DeathTestAbort does not find a
\* flag in the copy of the parent's memory: it calls abort().
Main ==
  /\ child.at = "main"
  /\ \/ \E matches \in BOOLEAN :
          Startups \cap {"exec_fails", "crashes"} # {} /\ Dead("signal", matches)
     \/ \E b \in (IF "runs" \in Startups THEN {body} ELSE {})
                  \cup (IF "diverges" \in Startups THEN Bodies ELSE {}) :
          child' = [child EXCEPT !.at = "create", !.body = b, !.next = 1]
          /\ UNCHANGED <<writers, stderr>>
  /\ UNCHANGED <<parent, pipe, deathHistory>>

\* Fault: any death assertion of the line will do.
SameLine == child.body[child.next].line = child.line
ThisOne == child.body[child.next].line = child.line /\ child.count + 1 = child.index

\* DefaultDeathTestFactory::Create in the child: the one assertion of the flag
\* is executed, those before it are skipped, those behind it fail.
ChildCreate ==
  /\ child.at = "create" /\ child.next <= Len(child.body)
  /\ LET late == child.count + 1 > child.index
     IN  child' = [child EXCEPT
           !.at = IF ~late /\ ThisOne THEN "statement" ELSE "create",
           !.count = @ + 1, !.failed = @ \/ late,
           !.next = IF late /\ child.body[child.next].fatal THEN Len(child.body) + 1 ELSE @ + 1]
  /\ UNCHANGED <<parent, pipe, writers, stderr, deathHistory>>

\* It never came to the statement, and main returns.
ChildReturns ==
  /\ child.at = "create" /\ child.next > Len(child.body)
  /\ \E matches \in BOOLEAN : Dead(IF child.failed THEN "exit 1" ELSE "exit 0", matches)
  /\ UNCHANGED <<parent, pipe, deathHistory>>

Byte(deed) ==
  CASE deed.way = "returns" -> "R" [] deed.way = "throws" -> "T" [] deed.way = "completes" -> "L"

\* What the statement does last.  Its return, its exception and its end all lead
\* to Abort.
Statement ==
  /\ child.at = "statement"
  /\ \E deed \in Deeds :
       /\ executed' = Append(executed, deed)
       /\ IF deed.way = "dies" THEN Dead(deed.status, deed.matches)
          ELSE child' = [child EXCEPT !.at = "abort", !.byte = Byte(deed)]
               /\ stderr' = deed.matches /\ UNCHANGED writers
  /\ UNCHANGED <<parent, pipe, kept>>

\* Before that it may close every descriptor that it finds open, ...
CloseAll ==
  /\ child.at = "statement" /\ "child" \in writers
  /\ writers' = writers \ {"child"}
  /\ kept' = FALSE
  /\ UNCHANGED <<parent, pipe, child, stderr, executed>>

\* ... or start a process that inherits the write end and outlives it.
Fork ==
  /\ child.at = "statement" /\ "child" \in writers
  /\ writers' = writers \cup {"heir"}
  /\ UNCHANGED <<parent, pipe, child, stderr, deathHistory>>

HeirEnds ==
  /\ "heir" \in writers /\ writers' = writers \ {"heir"}
  /\ UNCHANGED <<parent, pipe, child, stderr, deathHistory>>

\* DeathTestImpl::Abort: the byte, then _exit(1).  Without its descriptor the
\* child ends in DeathTestAbort, by abort() or by writing to a null FILE.
Abort ==
  /\ child.at = "abort"
  /\ IF "child" \notin writers
     THEN Dead("signal", stderr) /\ UNCHANGED pipe
     ELSE /\ pipe' = Append(pipe, child.byte)
          /\ child' = [child EXCEPT !.at = "_exit"]
          /\ UNCHANGED <<writers, stderr>>
  /\ UNCHANGED <<parent, deathHistory>>

Exit ==
  /\ child.at = "_exit"
  /\ Dead("exit 1", stderr)
  /\ UNCHANGED <<parent, pipe, deathHistory>>

(***************************************************************************)
Parent == Create \/ AssumeRole \/ CloseWriteEnd \/ ReadAndInterpretStatusByte \/ Wait \/ Judge \/ EndBody
Child == Main \/ ChildCreate \/ ChildReturns \/ Statement \/ Abort \/ Exit
ParentStopped == role \in {"done", "abort"} /\ UNCHANGED deathVars

DeathNext == Parent \/ Child \/ CloseAll \/ Fork \/ HeirEnds \/ ParentStopped

\* Each process is scheduled; statements and those that inherit a descriptor
\* from them end, and nothing makes a statement close or fork.
DeathFairness == WF_deathVars(Parent) /\ WF_deathVars(Child) /\ WF_deathVars(HeirEnds)

DeathSpec == DeathInit /\ [][DeathNext]_deathVars /\ DeathFairness

(***************************************************************************)
(* Properties.                                                              *)
(***************************************************************************)
\* Every variable keeps its type; the parent waits for a child it has.
DeathTypeOK ==
  /\ role \in {"create", "spawn", "close", "read", "wait", "judge", "done", "abort"}
  /\ next \in 1 .. Len(body) + 1 /\ death_test_count \in 0 .. Len(body)
  /\ outcome \in {"IN_PROGRESS", "DIED", "LIVED", "RETURNED", "THREW"}
  /\ status \in Statuses \cup {NoStatus}
  /\ writers \subseteq {"parent", "child", "heir"}
  /\ child.at \in {"none", "main", "create", "statement", "abort", "_exit", "dead"}
  /\ role \in {"read", "wait"} => child.at # "none"

Good(deed) == deed.way = "dies" /\ Satisfies(deed.status, Assertion.predicate) /\ deed.matches

\* When the child got to the statement and the statement left the pipe alone, the
\* assertion passes if and only if the statement ended the process, with the
\* status and the output that were asked for, whoever was faster and however
\* long another process kept the pipe open.
VerdictIsTrue ==
  role = "judge" /\ kept /\ executed # <<>> =>
    DeathTestPassed = Good(executed[1])

\* A child executes one statement, and a re-executed program that behaves like
\* its parent executes the one of the assertion that the parent oversees, in
\* every turn of a loop and of --gtest_repeat.
ChildRunsThisOne ==
  /\ Len(executed) <= 1
  /\ child.at = "statement" /\ child.body = body => child.next = next + 1
  /\ child.at = "dead" /\ child.body = body => executed # <<>>

\* The parent waits no more: neither for a byte that nobody will write nor for
\* the end of a child that is not there.
TestEnded == role \in {"done", "abort"}
=============================================================================

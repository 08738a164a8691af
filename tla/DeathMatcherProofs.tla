------------------------ MODULE DeathMatcherProofs ------------------------
(***************************************************************************)
(* Theorems about death tests and about the matchers that a program hands   *)
(* them and its other assertions.                                           *)
(***************************************************************************)
EXTENDS DeathTest, Matchers, FiniteSetTheorems, SequenceTheorems, TLAPS

(***************************************************************************)
(* Theorems about death tests, for every set of test bodies, any number of  *)
(* repetitions, and whatever statements and re-executed programs may do:    *)
(* types, what the verdict means, and which statement a child executes.     *)
(***************************************************************************)
Bytes == {"R", "T", "L"}

\* A child, and the sequences that DeathTypeOK leaves open.
Children ==
  [at : {"none", "main", "create", "statement", "abort", "_exit", "dead"},
   body : Bodies \cup {<<>>}, next : Nat, count : Nat, index : Nat, line : Nat,
   byte : Bytes \cup {NoStatus}, status : Statuses \cup {NoStatus}, failed : BOOLEAN]

ParentTyped ==
  /\ death_test_style \in {"fast", "threadsafe", "unknown"}
  /\ body \in Bodies
  /\ role \in {"create", "spawn", "close", "read", "wait", "judge", "done", "abort"}
  /\ next \in 1 .. Len(body) + 1 /\ death_test_count \in 0 .. Len(body)
  /\ outcome \in {"IN_PROGRESS", "DIED", "LIVED", "RETURNED", "THREW"}
  /\ status \in Statuses \cup {NoStatus}

ChildTyped ==
  /\ child \in Children
  /\ writers \subseteq {"parent", "child", "heir"}
  /\ pipe \in Seq(Bytes) /\ stderr \in BOOLEAN
  /\ executed \in Seq(Deeds) /\ kept \in BOOLEAN

(***************************************************************************)
(* The inductive invariant.                                                 *)
(***************************************************************************)
\* death_test_count counts the assertions that were created, this one included,
\* and the parent oversees a child from the fork until it has waited for it.
ParentCounts ==
  /\ role = "create" /\ next <= Len(body) => death_test_count = next - 1
  /\ role \in {"spawn", "close", "read", "wait", "judge"} =>
       next <= Len(body) /\ death_test_count = next
  /\ role \in {"spawn", "close", "read"} => outcome = "IN_PROGRESS"
  /\ child.at # "none" <=> role \in {"close", "read", "wait"}

\* How far the child got with its one statement.
StatementOnce ==
  /\ Len(executed) <= 1
  /\ child.at \in {"main", "create", "statement"} => executed = <<>>
  /\ child.at \in {"abort", "_exit"} =>
       executed # <<>> /\ executed[1].way # "dies" /\ child.byte = Byte(executed[1])
  /\ child.at \in {"main", "create", "statement", "abort"} /\ kept => "child" \in writers
  /\ child.at = "_exit" => "child" \in writers
  /\ child.at = "dead" /\ executed # <<>> /\ executed[1].way = "dies" =>
       child.status = executed[1].status /\ stderr = executed[1].matches

\* The byte in the pipe is that of the statement; it is there from the time when
\* the child has written it until the parent has read it.
PipeTells ==
  /\ pipe # <<>> =>
       /\ role \in {"close", "read"} /\ child.at \in {"_exit", "dead"}
       /\ executed # <<>> /\ executed[1].way # "dies" /\ pipe = <<Byte(executed[1])>>
  /\ role \in {"close", "read"} /\ child.at \in {"_exit", "dead"} /\ kept
       /\ executed # <<>> /\ executed[1].way # "dies" => pipe # <<>>

\* What the parent made of it.
OutcomeTells ==
  /\ role \in {"wait", "judge"} =>
       \/ outcome = "DIED"
       \/ outcome # "IN_PROGRESS" /\ executed # <<>> /\ executed[1].way # "dies"
            /\ child.at \in {"_exit", "dead", "none"}
  /\ role \in {"wait", "judge"} /\ outcome = "DIED" =>
       /\ "child" \notin writers
       /\ kept /\ executed # <<>> => executed[1].way = "dies"
  /\ role = "judge" /\ executed # <<>> /\ executed[1].way = "dies" =>
       status = executed[1].status /\ stderr = executed[1].matches

\* A re-executed program that behaves like its parent comes to the assertion of
\* the flag, and not past it.
ChildOnTrack ==
  /\ child.at = "main" => child.body = <<>> /\ child.count = 0 /\ child.index = next
                          /\ child.line = body[next].line
  /\ child.at = "create" /\ child.body = body =>
       /\ child.next = child.count + 1 /\ child.count < child.index /\ child.index = next
       /\ child.line = body[next].line
  /\ child.at = "statement" /\ child.body = body => child.next = next + 1
  /\ child.at = "dead" /\ child.body = body => executed # <<>>

DeathInv ==
  /\ ParentTyped /\ ChildTyped
  /\ ParentCounts /\ StatementOnce /\ PipeTells /\ OutcomeTells /\ ChildOnTrack

(***************************************************************************)
(* What the constants give.                                                 *)
(***************************************************************************)
\* The length of a test's body, and its elements.
LEMMA BodyFacts ==
  /\ \A b \in Bodies : Len(b) \in Nat /\ \A k \in 1 .. Len(b) : b[k] \in Assertions
  /\ \A b \in Bodies \cup {<<>>} : Len(b) \in Nat
BY BodiesAssumption

\* Nothing was written or done at first.
LEMMA EmptyFacts == <<>> \in Seq(Bytes) /\ <<>> \in Seq(Deeds)
OBVIOUS

\* What is written for a deed, and what the process leaves.
LEMMA DeedFacts ==
  \A d \in Deeds :
    /\ d.matches \in BOOLEAN
    /\ d.way = "dies" => d.status \in Statuses
    /\ d.way # "dies" => Byte(d) \in Bytes
BY DeedsAssumption DEF Byte, Bytes

\* The end of a process changes its own record, its descriptor and what there is
\* to read of its stderr.
LEMMA DeadFacts ==
  ASSUME child \in Children, NEW how \in Statuses, NEW matches, Dead(how, matches)
  PROVE  /\ child' \in Children /\ child'.at = "dead" /\ child'.status = how
         /\ child'.body = child.body
         /\ writers' = writers \ {"child"} /\ stderr' = matches
BY DEF Dead, Children

\* What a child is at first.
LEMMA SpawnedFacts ==
  ASSUME ParentTyped, role = "spawn", next <= Len(body)
  PROVE  /\ NoChild \in Children /\ Spawned \in Children
         /\ NoChild.at = "none" /\ Spawned.at \in {"statement", "main"}
         /\ Spawned.body = <<>> /\ Spawned.count = 0
         /\ Spawned.at = "main" => Spawned.index = death_test_count /\ Spawned.line = body[next].line
<1>1. body[next] \in Assertions /\ body[next].line \in Nat
  <2>1. body \in Bodies /\ next \in 1 .. Len(body)
    BY BodyFacts DEF ParentTyped
  <2>2. body[next] \in Assertions
    BY <2>1, BodyFacts
  <2>3. QED
    BY <2>2 DEF Assertions
<1>2. death_test_count \in Nat
  BY BodyFacts DEF ParentTyped
<1>3. NoChild \in Children
  BY DEF NoChild, Children, NoStatus
<1>4. CASE death_test_style = "fast"
  BY <1>3, <1>4 DEF Spawned, NoChild, Children
<1>5. CASE death_test_style # "fast"
  BY <1>1, <1>2, <1>3, <1>5 DEF Spawned, NoChild, Children, Assertion
<1>6. QED
  BY <1>3, <1>4, <1>5 DEF NoChild

\* A new test program.
LEMMA DeathInitInv == DeathInit => DeathInv
<1> SUFFICES ASSUME DeathInit PROVE DeathInv
  OBVIOUS
<1>1. Len(body) \in Nat
  BY BodyFacts DEF DeathInit
<1>2. ParentTyped
  BY <1>1 DEF DeathInit, ParentTyped, NoStatus
<1>3. ChildTyped
  <2>1. child \in Children
    BY DEF DeathInit, Children, NoChild, NoStatus
  <2>2. QED
    BY <2>1, EmptyFacts DEF DeathInit, ChildTyped
<1>4. ParentCounts /\ OutcomeTells /\ PipeTells
  BY DEF DeathInit, ParentCounts, OutcomeTells, PipeTells, NoChild
<1>5. StatementOnce /\ ChildOnTrack
  BY DEF DeathInit, StatementOnce, ChildOnTrack, NoChild
<1>6. QED
  BY <1>2, <1>3, <1>4, <1>5 DEF DeathInv

(***************************************************************************)
(* The parent's steps.                                                      *)
(***************************************************************************)
\* Of its members, the parent's steps keep the types; the others leave them.
LEMMA ParentTypedStep == DeathInv /\ [DeathNext]_deathVars => ParentTyped' /\ ParentCounts'
<1> SUFFICES ASSUME DeathInv, [DeathNext]_deathVars PROVE ParentTyped' /\ ParentCounts'
  OBVIOUS
<1>1. Len(body) \in Nat /\ ParentTyped /\ ParentCounts /\ ChildTyped
  BY BodyFacts DEF DeathInv, ParentTyped
<1>2. CASE Create
  BY <1>1, <1>2 DEF Create, Conclude, ParentTyped, ParentCounts, NoStatus
<1>3. CASE AssumeRole
  BY <1>1, <1>3, SpawnedFacts DEF AssumeRole, ParentTyped, ParentCounts
<1>4. CASE CloseWriteEnd
  BY <1>1, <1>4 DEF CloseWriteEnd, ParentTyped, ParentCounts
<1>5. CASE ReadAndInterpretStatusByte
  <2>1. CASE pipe # <<>>
    <3>1. Head(pipe) \in Bytes
      BY <1>1, <2>1 DEF ChildTyped
    <3>2. outcome' \in {"RETURNED", "THREW", "LIVED"} /\ role' = "wait"
      BY <1>5, <2>1, <3>1 DEF ReadAndInterpretStatusByte, Outcome, Bytes
    <3>3. QED
      BY <1>1, <1>5, <3>2 DEF ReadAndInterpretStatusByte, ParentTyped, ParentCounts
  <2>2. CASE pipe = <<>>
    BY <1>1, <1>5, <2>2 DEF ReadAndInterpretStatusByte, ParentTyped, ParentCounts
  <2>3. QED
    BY <2>1, <2>2
<1>6. CASE Wait
  BY <1>1, <1>6 DEF Wait, ParentTyped, ParentCounts, ChildTyped, Children, NoChild
<1>7. CASE Judge
  BY <1>1, <1>7 DEF Judge, Conclude, ParentTyped, ParentCounts
<1>8. CASE EndBody
  BY <1>1, <1>8 DEF EndBody, ParentTyped, ParentCounts
<1>9. CASE UNCHANGED <<parent, child>>
  BY <1>1, <1>9 DEF parent, ParentTyped, ParentCounts
<1>10. CASE Child
  <2>1. UNCHANGED parent
    BY <1>10 DEF Child, Main, ChildCreate, ChildReturns, Statement, Abort, Exit
  <2>2. child.at # "none" /\ child'.at # "none"
    BY <1>1, <1>10 DEF Child, Main, ChildCreate, ChildReturns, Statement, Abort, Exit, Dead, ChildTyped, Children
  <2>3. QED
    BY <1>1, <2>1, <2>2 DEF parent, ParentTyped, ParentCounts
<1>11. CloseAll \/ Fork \/ HeirEnds \/ ParentStopped \/ UNCHANGED deathVars => UNCHANGED <<parent, child>>
  BY DEF CloseAll, Fork, HeirEnds, ParentStopped, deathVars
<1>12. QED
  BY <1>2, <1>3, <1>4, <1>5, <1>6, <1>7, <1>8, <1>9, <1>10, <1>11 DEF DeathNext, Parent

(***************************************************************************)
(* The steps of the child and of those that hold its descriptor.            *)
(***************************************************************************)
\* What every step leaves of the pipe, the child and what is known of it.
LEMMA ChildTypedStep == DeathInv /\ [DeathNext]_deathVars => ChildTyped'
<1> SUFFICES ASSUME DeathInv, [DeathNext]_deathVars PROVE ChildTyped'
  OBVIOUS
<1> DEFINE Others == <<pipe, stderr, executed, kept>>
<1>1. ParentTyped /\ ChildTyped /\ ParentCounts /\ StatementOnce
  BY DEF DeathInv
<1>2. CASE UNCHANGED <<child, Others>> /\ writers' \subseteq writers \cup {"heir"}
  BY <1>1, <1>2 DEF ChildTyped
<1>3. CASE AssumeRole
  <2>1. child' \in Children
    BY <1>1, <1>3, SpawnedFacts DEF AssumeRole, ChildTyped, ParentCounts
  <2>2. QED
    BY <1>3, <2>1, EmptyFacts DEF AssumeRole, ChildTyped
<1>4. CASE ReadAndInterpretStatusByte
  <2>1. pipe' \in Seq(Bytes)
    BY <1>1, <1>4 DEF ReadAndInterpretStatusByte, ChildTyped
  <2>2. UNCHANGED <<child, writers, stderr, executed, kept>>
    BY <1>4 DEF ReadAndInterpretStatusByte, deathHistory
  <2>3. QED
    BY <1>1, <2>1, <2>2 DEF ChildTyped
<1>5. CASE Wait
  <2>1. NoChild \in Children
    BY DEF NoChild, Children, NoStatus
  <2>2. QED
    BY <1>1, <1>5, <2>1 DEF Wait, ChildTyped, deathHistory
<1>6. ASSUME NEW how \in Statuses, NEW matches \in BOOLEAN, Dead(how, matches),
             UNCHANGED <<pipe, kept>>, executed' \in Seq(Deeds)
      PROVE  ChildTyped'
  BY <1>1, <1>6, DeadFacts DEF ChildTyped
<1>7. CASE Main
  <2>1. CASE \E matches \in BOOLEAN : Dead("signal", matches)
    <3>1. PICK matches \in BOOLEAN : Dead("signal", matches)
      BY <2>1
    <3>2. "signal" \in Statuses /\ UNCHANGED <<pipe, executed, kept>>
      BY <1>7 DEF Main, Statuses, deathHistory
    <3>3. QED
      BY <1>1, <1>6, <3>1, <3>2 DEF ChildTyped
  <2>2. CASE \E b \in Bodies : child' = [child EXCEPT !.at = "create", !.body = b, !.next = 1]
    <3>1. child' \in Children
      <4>1. PICK b \in Bodies : child' = [child EXCEPT !.at = "create", !.body = b, !.next = 1]
        BY <2>2
      <4>2. child \in Children
        BY <1>1 DEF ChildTyped
      <4>3. QED
        BY <4>1, <4>2 DEF Children
    <3>2. UNCHANGED Others /\ UNCHANGED writers
      BY <1>7, <1>1, <2>2 DEF Main, Dead, deathHistory, ChildTyped, Children
    <3>3. QED
      BY <1>1, <3>1, <3>2 DEF ChildTyped
  <2>3. QED
    BY <1>1, <1>7, <2>1, <2>2 DEF Main, ParentTyped
<1>8. CASE ChildCreate
  <2>1. Len(child.body) \in Nat
    BY <1>1, BodyFacts DEF ChildTyped, Children
  <2>2. child' \in Children
    <3>1. child \in Children /\ child.next \in Nat /\ child.count \in Nat
      BY <1>1 DEF ChildTyped, Children
    <3> DEFINE late == child.count + 1 > child.index
               at == IF ~late /\ ThisOne THEN "statement" ELSE "create"
               behind == IF late /\ child.body[child.next].fatal THEN Len(child.body) + 1 ELSE child.next + 1
               failed == child.failed \/ late
    <3>2. child' = [child EXCEPT !.at = at, !.count = child.count + 1, !.failed = failed, !.next = behind]
      BY <1>8 DEF ChildCreate
    <3>3. at \in {"statement", "create"} /\ behind \in Nat /\ failed \in BOOLEAN /\ child.count + 1 \in Nat
      BY <2>1, <3>1
    <3> HIDE DEF late, at, behind, failed
    <3>4. QED
      BY <3>1, <3>2, <3>3 DEF Children
  <2>3. QED
    BY <1>1, <1>8, <2>2 DEF ChildCreate, ChildTyped, deathHistory
<1>9. CASE ChildReturns
  BY <1>1, <1>6, <1>9 DEF ChildReturns, ChildTyped, Statuses, deathHistory
<1>10. CASE Statement
  <2>1. PICK deed \in Deeds :
          /\ executed' = Append(executed, deed)
          /\ IF deed.way = "dies" THEN Dead(deed.status, deed.matches)
             ELSE child' = [child EXCEPT !.at = "abort", !.byte = Byte(deed)]
                  /\ stderr' = deed.matches /\ UNCHANGED writers
    BY <1>10 DEF Statement
  <2>2. executed' \in Seq(Deeds) /\ UNCHANGED <<pipe, kept>>
    BY <1>1, <1>10, <2>1 DEF ChildTyped, Statement
  <2>3. CASE deed.way = "dies"
    BY <1>6, <2>1, <2>2, <2>3, DeedFacts
  <2>4. CASE deed.way # "dies"
    <3>1. child \in Children
      BY <1>1 DEF ChildTyped
    <3>2. Byte(deed) \in Bytes /\ deed.matches \in BOOLEAN
      BY <2>4, DeedFacts
    <3>3. child' = [child EXCEPT !.at = "abort", !.byte = Byte(deed)]
          /\ stderr' = deed.matches /\ UNCHANGED writers
      BY <2>1, <2>4
    <3>4. child' \in Children
      BY <3>1, <3>2, <3>3 DEF Children
    <3>5. QED
      BY <1>1, <2>2, <3>2, <3>3, <3>4 DEF ChildTyped
  <2>5. QED
    BY <2>3, <2>4
<1>11. CASE CloseAll
  BY <1>1, <1>11 DEF CloseAll, ChildTyped
<1>12. CASE Abort
  <2>1. CASE "child" \notin writers
    BY <1>1, <1>6, <1>12, <2>1 DEF Abort, ChildTyped, Statuses, deathHistory
  <2>2. CASE "child" \in writers
    <3>1. child' = [child EXCEPT !.at = "_exit"] /\ pipe' = Append(pipe, child.byte)
          /\ UNCHANGED <<writers, stderr, executed, kept>>
      BY <1>12, <2>2 DEF Abort, deathHistory
    <3>2. child.byte \in Bytes
      <4>1. executed # <<>> /\ executed[1] \in Deeds /\ executed[1].way # "dies"
            /\ child.byte = Byte(executed[1])
        BY <1>1, <1>12 DEF Abort, ChildTyped, StatementOnce
      <4>2. QED
        BY <4>1, DeedFacts
    <3>3. child' \in Children
      BY <1>1, <3>1 DEF ChildTyped, Children
    <3>4. QED
      BY <1>1, <3>1, <3>2, <3>3 DEF ChildTyped
  <2>3. QED
    BY <2>1, <2>2
<1>13. CASE Exit
  BY <1>1, <1>6, <1>13 DEF Exit, ChildTyped, Statuses, deathHistory
<1>14. ASSUME Create \/ CloseWriteEnd \/ Judge \/ EndBody \/ Fork \/ HeirEnds \/ ParentStopped
              \/ UNCHANGED deathVars
       PROVE  UNCHANGED <<child, Others>> /\ writers' \subseteq writers \cup {"heir"}
  BY <1>14 DEF Create, CloseWriteEnd, Closed, Judge, EndBody, Fork, HeirEnds, ParentStopped,
     deathVars, deathHistory
<1>15. QED
  BY <1>2, <1>3, <1>4, <1>5, <1>7, <1>8, <1>9, <1>10, <1>11, <1>12, <1>13, <1>14
     DEF DeathNext, Parent, Child

\* A statement ends once, and what it did is what its process and its byte tell.
LEMMA StatementOnceStep == DeathInv /\ [DeathNext]_deathVars => StatementOnce'
<1> SUFFICES ASSUME DeathInv, [DeathNext]_deathVars PROVE StatementOnce'
  OBVIOUS
<1>1. ChildTyped /\ ParentTyped /\ ParentCounts /\ StatementOnce
  BY DEF DeathInv
<1> USE DEF StatementOnce
<1>2. CASE UNCHANGED <<child, executed, kept, stderr>> /\ ("child" \in writers => "child" \in writers')
  BY <1>1, <1>2
<1>3. CASE AssumeRole
  <2>1. executed' = <<>> /\ Len(executed') = 0
    BY <1>3 DEF AssumeRole
  <2>2. child'.at \in {"none", "main", "statement"}
    BY <1>1, <1>3, SpawnedFacts DEF AssumeRole, ParentCounts, ChildTyped, Children
  <2>3. child'.at # "none" => "child" \in writers'
    BY <1>1, <1>3 DEF AssumeRole, ParentCounts, ChildTyped, Children
  <2>4. QED
    BY <2>1, <2>2, <2>3
<1>4. CASE Wait
  BY <1>1, <1>4 DEF Wait, NoChild, deathHistory
<1>5. ASSUME NEW how \in Statuses, NEW matches \in BOOLEAN, Dead(how, matches),
             executed' = <<>> \/ (executed' = executed /\ executed[1].way # "dies" /\ executed # <<>>)
      PROVE  StatementOnce'
  <2>1. child'.at = "dead" /\ Len(executed') <= 1
    BY <1>1, <1>5, DeadFacts DEF ChildTyped
  <2>2. QED
    BY <1>5, <2>1
<1>6. CASE Main
  <2>1. UNCHANGED <<executed, kept>> /\ executed = <<>> /\ child.at = "main"
    BY <1>1, <1>6 DEF Main, deathHistory
  <2>2. CASE \E matches \in BOOLEAN : Dead("signal", matches)
    <3>1. PICK matches \in BOOLEAN : Dead("signal", matches)
      BY <2>2
    <3>2. QED
      <4>1. executed' = <<>> /\ "signal" \in Statuses
        BY <2>1 DEF Statuses
      <4>2. QED
        BY <1>5, <3>1, <4>1
  <2>3. CASE UNCHANGED writers /\ child'.at = "create"
    BY <1>1, <2>1, <2>3
  <2>4. QED
    BY <1>1, <1>6, <2>2, <2>3 DEF Main, ChildTyped, Children
<1>7. CASE ChildCreate
  <2>1. child.at = "create" /\ child'.at \in {"create", "statement"}
    BY <1>1, <1>7 DEF ChildCreate, ChildTyped, Children
  <2>2. QED
    BY <1>1, <1>7, <2>1 DEF ChildCreate, deathHistory
<1>8. CASE ChildReturns
  <2>1. PICK matches \in BOOLEAN : Dead(IF child.failed THEN "exit 1" ELSE "exit 0", matches)
    BY <1>8 DEF ChildReturns
  <2>2. executed' = executed /\ executed = <<>>
    BY <1>1, <1>8 DEF ChildReturns, deathHistory
  <2>3. executed' = <<>> /\ (IF child.failed THEN "exit 1" ELSE "exit 0") \in Statuses
    BY <2>2 DEF Statuses
  <2>4. QED
    BY <1>5, <2>1, <2>3
<1>9. CASE Statement
  <2>1. PICK deed \in Deeds :
          /\ executed' = Append(executed, deed)
          /\ IF deed.way = "dies" THEN Dead(deed.status, deed.matches)
             ELSE child' = [child EXCEPT !.at = "abort", !.byte = Byte(deed)]
                  /\ stderr' = deed.matches /\ UNCHANGED writers
    BY <1>9 DEF Statement
  <2>2. executed' = <<deed>> /\ Len(executed') = 1 /\ executed'[1] = deed /\ executed' # <<>>
    BY <1>1, <1>9, <2>1 DEF Statement, ChildTyped
  <2>3. kept' = kept /\ child.at = "statement"
    BY <1>9 DEF Statement
  <2>4. CASE deed.way = "dies"
    <3>1. child'.at = "dead" /\ child'.status = deed.status /\ stderr' = deed.matches
      BY <1>1, <2>1, <2>4, DeadFacts, DeedFacts DEF ChildTyped
    <3>2. QED
      BY <2>2, <3>1
  <2>5. CASE deed.way # "dies"
    <3>1. child'.at = "abort" /\ child'.byte = Byte(deed) /\ writers' = writers
      BY <1>1, <2>1, <2>5 DEF ChildTyped, Children
    <3>2. QED
      BY <1>1, <2>2, <2>3, <2>5, <3>1
  <2>6. QED
    BY <2>4, <2>5
<1>10. CASE CloseAll
  BY <1>1, <1>10 DEF CloseAll
<1>11. CASE Abort
  <2>1. UNCHANGED <<executed, kept>> /\ executed # <<>> /\ executed[1].way # "dies"
    BY <1>1, <1>11 DEF Abort, deathHistory
  <2>2. CASE "child" \notin writers
    BY <1>1, <1>5, <1>11, <2>1, <2>2 DEF Abort, ChildTyped, Statuses
  <2>3. CASE "child" \in writers
    <3>1. child'.at = "_exit" /\ child'.byte = child.byte /\ writers' = writers
      BY <1>1, <1>11, <2>3 DEF Abort, ChildTyped, Children
    <3>2. QED
      BY <1>1, <1>11, <2>1, <2>3, <3>1 DEF Abort
  <2>4. QED
    BY <2>2, <2>3
<1>12. CASE Exit
  BY <1>1, <1>5, <1>12 DEF Exit, ChildTyped, Statuses, deathHistory
<1>13. ASSUME Create \/ CloseWriteEnd \/ ReadAndInterpretStatusByte \/ Judge \/ EndBody \/ Fork
              \/ HeirEnds \/ ParentStopped \/ UNCHANGED deathVars
       PROVE  UNCHANGED <<child, executed, kept, stderr>> /\ ("child" \in writers => "child" \in writers')
  BY <1>13 DEF Create, CloseWriteEnd, Closed, ReadAndInterpretStatusByte, Judge, EndBody, Fork,
     HeirEnds, ParentStopped, deathVars, deathHistory
<1>14. QED
  BY <1>2, <1>3, <1>4, <1>6, <1>7, <1>8, <1>9, <1>10, <1>11, <1>12, <1>13
     DEF DeathNext, Parent, Child

(***************************************************************************)
(* What the parent is told.                                                 *)
(***************************************************************************)
\* Every byte in the pipe is the byte of this statement.
LEMMA PipeTellsStep == DeathInv /\ [DeathNext]_deathVars => PipeTells'
<1> SUFFICES ASSUME DeathInv, [DeathNext]_deathVars PROVE PipeTells'
  OBVIOUS
<1>1. ChildTyped /\ ParentTyped /\ ParentCounts /\ StatementOnce /\ PipeTells /\ OutcomeTells
  BY DEF DeathInv
<1> USE DEF PipeTells
<1>2. CASE pipe' = pipe /\ pipe = <<>> /\ (executed' = <<>> \/ role' \notin {"close", "read"})
  BY <1>2
<1>3. CASE Create \/ Wait \/ Judge \/ EndBody
  BY <1>1, <1>2, <1>3 DEF Create, Conclude, Wait, Judge, EndBody
<1>4. CASE AssumeRole
  BY <1>4 DEF AssumeRole
<1>5. CASE CloseWriteEnd
  BY <1>1, <1>5 DEF CloseWriteEnd, deathHistory
<1>6. CASE ReadAndInterpretStatusByte
  <2>1. role' \in {"wait", "abort"} /\ (pipe = <<>> \/ pipe = <<Byte(executed[1])>>)
    BY <1>1, <1>6 DEF ReadAndInterpretStatusByte
  <2>2. pipe' = <<>>
    BY <1>1, <1>6, <2>1 DEF ReadAndInterpretStatusByte, ChildTyped
  <2>3. QED
    BY <2>1, <2>2
<1>7. CASE Main \/ ChildCreate \/ ChildReturns
  <2>1. pipe' = pipe /\ executed' = executed /\ executed = <<>>
    BY <1>1, <1>7 DEF Main, ChildCreate, ChildReturns, deathHistory, StatementOnce
  <2>2. QED
    BY <1>1, <1>2, <2>1
<1>8. CASE Statement
  <2>1. pipe = <<>> /\ pipe' = pipe
    BY <1>1, <1>8 DEF Statement
  <2>2. PICK deed \in Deeds :
          /\ executed' = Append(executed, deed)
          /\ IF deed.way = "dies" THEN Dead(deed.status, deed.matches)
             ELSE child' = [child EXCEPT !.at = "abort", !.byte = Byte(deed)]
                  /\ stderr' = deed.matches /\ UNCHANGED writers
    BY <1>8 DEF Statement
  <2>3. executed'[1] = deed
    BY <1>1, <1>8, <2>2 DEF Statement, StatementOnce, ChildTyped
  <2>4. deed.way # "dies" => child'.at = "abort"
    BY <1>1, <2>2 DEF ChildTyped, Children
  <2>5. QED
    BY <2>1, <2>3, <2>4
<1>9. CASE CloseAll
  BY <1>1, <1>9 DEF CloseAll, parent
<1>10. CASE Abort
  <2>1. pipe = <<>> /\ executed # <<>> /\ executed[1].way # "dies" /\ child.byte = Byte(executed[1])
    BY <1>1, <1>10 DEF Abort, StatementOnce
  <2>2. UNCHANGED <<role, executed, kept>>
    BY <1>10 DEF Abort, parent, deathHistory
  <2>3. CASE "child" \notin writers
    BY <1>1, <1>10, <2>1, <2>2, <2>3 DEF Abort, StatementOnce
  <2>4. CASE "child" \in writers
    <3>1. role \in {"close", "read"}
      BY <1>1, <1>10, <2>4 DEF Abort, OutcomeTells, ParentCounts
    <3>2. pipe' = <<Byte(executed[1])>> /\ child'.at = "_exit"
      BY <1>1, <1>10, <2>1, <2>4 DEF Abort, ChildTyped, Children
    <3>3. QED
      BY <2>1, <2>2, <3>1, <3>2
  <2>5. QED
    BY <2>3, <2>4
<1>11. CASE Exit
  <2>1. child'.at = "dead" /\ child.at = "_exit"
    BY <1>1, <1>11 DEF Exit, Dead, ChildTyped, Children
  <2>2. UNCHANGED <<role, pipe, executed, kept>>
    BY <1>11 DEF Exit, parent, deathHistory
  <2>3. QED
    BY <1>1, <2>1, <2>2
<1>12. CASE Fork \/ HeirEnds \/ ParentStopped \/ UNCHANGED deathVars
  BY <1>1, <1>12 DEF Fork, HeirEnds, ParentStopped, deathVars, parent, deathHistory
<1>13. QED
  BY <1>3, <1>4, <1>5, <1>6, <1>7, <1>8, <1>9, <1>10, <1>11, <1>12 DEF DeathNext, Parent, Child

\* The parent takes the child for dead only when nobody can write a byte any more,
\* and otherwise knows what the child's statement did instead.
LEMMA OutcomeTellsStep == DeathInv /\ [DeathNext]_deathVars => OutcomeTells'
<1> SUFFICES ASSUME DeathInv, [DeathNext]_deathVars PROVE OutcomeTells'
  OBVIOUS
<1>1. ChildTyped /\ ParentTyped /\ ParentCounts /\ StatementOnce /\ PipeTells /\ OutcomeTells
  BY DEF DeathInv
<1> USE DEF OutcomeTells
<1>2. CASE Create \/ AssumeRole \/ CloseWriteEnd \/ Judge \/ EndBody
  <2>1. role' \notin {"wait", "judge"}
    BY <1>1, <1>2 DEF Create, Conclude, AssumeRole, CloseWriteEnd, Judge, EndBody
  <2>2. QED
    BY <2>1
<1>3. CASE ReadAndInterpretStatusByte
  <2>1. UNCHANGED <<child, executed, kept, writers>> /\ role = "read"
    BY <1>3 DEF ReadAndInterpretStatusByte, deathHistory
  <2>2. CASE pipe = <<>>
    <3>1. writers = {} /\ outcome' = "DIED" /\ role' = "wait"
      BY <1>3, <2>2 DEF ReadAndInterpretStatusByte
    <3>2. kept /\ executed # <<>> => child.at = "dead"
      BY <1>1, <2>1, <3>1 DEF StatementOnce, ParentCounts, ChildTyped, Children
    <3>3. kept /\ executed # <<>> => executed[1].way = "dies"
      BY <1>1, <2>1, <2>2, <3>2 DEF PipeTells
    <3>4. QED
      BY <2>1, <3>1, <3>3
  <2>3. CASE pipe # <<>>
    <3>1. Head(pipe) \in Bytes
      BY <1>1, <2>3 DEF ChildTyped
    <3>2. outcome' \in {"RETURNED", "THREW", "LIVED"} /\ role' = "wait"
      BY <1>3, <2>3, <3>1 DEF ReadAndInterpretStatusByte, Outcome, Bytes
    <3>3. QED
      BY <1>1, <2>1, <2>3, <3>2 DEF PipeTells
  <2>4. QED
    BY <2>2, <2>3
<1>4. CASE Wait
  <2>1. UNCHANGED <<executed, kept, writers, outcome, stderr>> /\ child'.at = "none"
        /\ role = "wait" /\ role' = "judge" /\ child.at = "dead" /\ status' = child.status
    BY <1>4 DEF Wait, NoChild, deathHistory
  <2>2. QED
    BY <1>1, <2>1 DEF StatementOnce
<1>5. CASE Main \/ ChildCreate \/ ChildReturns
  <2>1. UNCHANGED <<executed, kept, outcome, role>> /\ executed = <<>> /\ role # "judge"
    BY <1>1, <1>5 DEF Main, ChildCreate, ChildReturns, StatementOnce, ParentCounts, deathHistory, parent
  <2>2. writers' \subseteq writers
    BY <1>5 DEF Main, ChildCreate, ChildReturns, Dead
  <2>3. QED
    BY <1>1, <2>1, <2>2
<1>6. CASE Statement
  <2>1. UNCHANGED <<kept, outcome, role>> /\ writers' \subseteq writers /\ role # "judge"
    BY <1>1, <1>6 DEF Statement, Dead, ParentCounts, parent
  <2>2. role = "wait" => outcome = "DIED" /\ ~kept
    BY <1>1, <1>6 DEF Statement, StatementOnce
  <2>3. QED
    BY <1>1, <2>1, <2>2
<1>7. CASE CloseAll
  <2>1. UNCHANGED <<executed, outcome, role>> /\ role \notin {"wait", "judge"}
    BY <1>1, <1>7 DEF CloseAll, ParentCounts, StatementOnce, parent
  <2>2. QED
    BY <2>1
<1>8. CASE Abort
  <2>1. UNCHANGED <<executed, kept, outcome, role>> /\ writers' \subseteq writers /\ role # "judge"
    BY <1>1, <1>8 DEF Abort, Dead, ParentCounts, parent, deathHistory
  <2>2. role = "wait" => outcome = "DIED"
    BY <1>1, <1>8 DEF Abort
  <2>3. QED
    BY <1>1, <2>1, <2>2
<1>9. CASE Exit
  <2>1. UNCHANGED <<executed, kept, outcome, role>> /\ role # "judge"
    BY <1>1, <1>9 DEF Exit, ParentCounts, parent, deathHistory
  <2>2. child'.at = "dead" /\ writers' \subseteq writers
    BY <1>1, <1>9 DEF Exit, Dead, ChildTyped, Children
  <2>3. QED
    BY <1>1, <2>1, <2>2
<1>10. CASE Fork \/ HeirEnds \/ ParentStopped \/ UNCHANGED deathVars
  <2>1. UNCHANGED <<executed, kept, outcome, role, child, status, stderr>>
    BY <1>10 DEF Fork, HeirEnds, ParentStopped, deathVars, parent, deathHistory
  <2>2. writers' \subseteq writers \cup {"heir"}
    BY <1>10 DEF Fork, HeirEnds, ParentStopped, deathVars
  <2>3. QED
    BY <1>1, <2>1, <2>2
<1>11. QED
  BY <1>2, <1>3, <1>4, <1>5, <1>6, <1>7, <1>8, <1>9, <1>10 DEF DeathNext, Parent, Child

(***************************************************************************)
(* Which statement.                                                         *)
(***************************************************************************)
\* A re-executed program with the same body skips what was there before and stops
\* at the assertion of the flag.
LEMMA ChildOnTrackStep == DeathInv /\ [DeathNext]_deathVars => ChildOnTrack'
<1> SUFFICES ASSUME DeathInv, [DeathNext]_deathVars PROVE ChildOnTrack'
  OBVIOUS
<1>1. ChildTyped /\ ParentTyped /\ ParentCounts /\ StatementOnce /\ ChildOnTrack
  BY DEF DeathInv
<1>2. Len(body) \in Nat /\ next \in Nat /\ child.next \in Nat /\ child.count \in Nat /\ child.index \in Nat
  BY <1>1, BodyFacts DEF ParentTyped, ChildTyped, Children
<1>3. child.at # "none" => next \in 1 .. Len(body) /\ death_test_count = next /\ body # <<>>
  BY <1>1, <1>2 DEF ParentCounts, ParentTyped
<1> USE DEF ChildOnTrack
<1>4. CASE child'.at = "none" \/ child'.at \in {"abort", "_exit"}
  BY <1>4
<1>5. CASE child'.at = "dead" /\ executed' # <<>>
  BY <1>5
<1>6. CASE UNCHANGED <<child, executed, body, next>>
  BY <1>1, <1>6
<1>7. CASE Create \/ Judge \/ EndBody
  <2>1. child.at = "none" /\ child' = child
    BY <1>1, <1>7 DEF Create, Judge, EndBody, ParentCounts
  <2>2. QED
    BY <1>4, <2>1
<1>8. CASE AssumeRole
  <2>1. CASE child' = Spawned
    <3>1. body' = body /\ next' = next /\ next \in 1 .. Len(body) /\ body # <<>> /\ death_test_count = next
          /\ role = "spawn"
      BY <1>1, <1>2, <1>8 DEF AssumeRole, ParentCounts, ParentTyped
    <3>2. QED
      BY <1>1, <2>1, <3>1, SpawnedFacts
  <2>2. CASE child' = child
    BY <1>1, <1>4, <1>8, <2>2 DEF AssumeRole, ParentCounts
  <2>3. QED
    BY <1>8, <2>1, <2>2 DEF AssumeRole
<1>9. CASE Wait
  BY <1>4, <1>9 DEF Wait, NoChild
<1>10. CASE Main
  <2>1. UNCHANGED <<body, next, executed>> /\ child.at = "main"
    BY <1>10 DEF Main, parent, deathHistory
  <2>2. child.body = <<>> /\ child.count = 0 /\ child.index = next /\ child.line = body[next].line
    BY <1>1, <2>1
  <2>3. CASE \E matches \in BOOLEAN : Dead("signal", matches)
    <3>1. child'.at = "dead" /\ child'.body = <<>>
      BY <1>1, <2>2, <2>3 DEF Dead, ChildTyped, Children
    <3>2. QED
      BY <1>3, <2>1, <3>1
  <2>4. CASE \E b \in Bodies : child' = [child EXCEPT !.at = "create", !.body = b, !.next = 1]
    <3>1. /\ child'.at = "create" /\ child'.next = 1 /\ child'.count = 0
          /\ child'.index = next /\ child'.line = body[next].line
      BY <1>1, <2>2, <2>4 DEF ChildTyped, Children
    <3>2. QED
      BY <1>2, <1>3, <2>1, <3>1
  <2>5. QED
    BY <1>1, <1>10, <2>3, <2>4 DEF Main, ParentTyped
<1>11. CASE ChildCreate
  <2>1. UNCHANGED <<body, next, executed>> /\ child.at = "create"
    BY <1>11 DEF ChildCreate, parent, deathHistory
  <2>2. /\ child'.body = child.body /\ child'.index = child.index /\ child'.line = child.line
        /\ child'.count = child.count + 1
        /\ child'.at = IF ~(child.count + 1 > child.index) /\ ThisOne THEN "statement" ELSE "create"
        /\ ~(child.count + 1 > child.index) => child'.next = child.next + 1
    BY <1>1, <1>11 DEF ChildCreate, ChildTyped, Children
  <2>3. CASE child.body = body
    <3>1. /\ child.next = child.count + 1 /\ child.count < child.index /\ child.index = next
          /\ child.line = body[next].line
      BY <1>1, <2>1, <2>3
    <3>2. CASE child.count + 1 < child.index
      BY <1>2, <2>1, <2>2, <2>3, <3>1, <3>2 DEF ThisOne
    <3>3. CASE child.count + 1 = child.index
      <4>1. ThisOne /\ child'.at = "statement" /\ child'.next = next + 1
        BY <1>2, <2>2, <2>3, <3>1, <3>3 DEF ThisOne
      <4>2. QED
        BY <2>1, <4>1
    <3>4. QED
      BY <1>2, <3>1, <3>2, <3>3
  <2>4. CASE child.body # body
    BY <2>1, <2>2, <2>4
  <2>5. QED
    BY <2>3, <2>4
<1>12. CASE ChildReturns
  <2>1. UNCHANGED <<body, next, executed>> /\ child.at = "create" /\ child.next > Len(child.body)
    BY <1>12 DEF ChildReturns, parent, deathHistory
  <2>2. child.body # body
    BY <1>1, <1>2, <1>3, <2>1
  <2>3. child'.at = "dead" /\ child'.body = child.body
    BY <1>1, <1>12 DEF ChildReturns, Dead, ChildTyped, Children
  <2>4. QED
    BY <2>1, <2>2, <2>3
<1>13. CASE Statement
  <2>1. child'.at \in {"dead", "abort"}
    BY <1>1, <1>13 DEF Statement, Dead, ChildTyped, Children
  <2>2. executed' # <<>>
    BY <1>1, <1>13 DEF Statement, ChildTyped
  <2>3. QED
    BY <1>4, <1>5, <2>1, <2>2
<1>14. CASE Abort \/ Exit
  <2>1. child'.at \in {"dead", "_exit"}
    BY <1>1, <1>14 DEF Abort, Exit, Dead, ChildTyped, Children
  <2>2. executed' # <<>>
    BY <1>1, <1>14 DEF Abort, Exit, StatementOnce, deathHistory
  <2>3. QED
    BY <1>4, <1>5, <2>1, <2>2
<1>15. CASE CloseWriteEnd \/ ReadAndInterpretStatusByte \/ CloseAll \/ Fork \/ HeirEnds
            \/ ParentStopped \/ UNCHANGED deathVars
  BY <1>6, <1>15 DEF CloseWriteEnd, ReadAndInterpretStatusByte, CloseAll, Fork, HeirEnds,
     ParentStopped, deathVars, parent, deathHistory
<1>16. QED
  BY <1>7, <1>8, <1>9, <1>10, <1>11, <1>12, <1>13, <1>14, <1>15 DEF DeathNext, Parent, Child

(***************************************************************************)
(* The theorems.                                                            *)
(***************************************************************************)
\* The invariant holds throughout: of the parent's and its child's steps in any
\* order, with any holders of the pipe's write end (gtest-death-test.cc:451-560).
LEMMA DeathInvariant == DeathSpec => []DeathInv
<1>1. DeathInv /\ [DeathNext]_deathVars => DeathInv'
  BY ParentTypedStep, ChildTypedStep, StatementOnceStep, PipeTellsStep, OutcomeTellsStep,
     ChildOnTrackStep DEF DeathInv
<1>2. QED
  BY DeathInitInv, <1>1, PTL DEF DeathSpec

\* The members keep their types, and the parent never waits for a child that is
\* not there (gtest-death-test.cc:600-628).
THEOREM DeathTypeCorrect == DeathSpec => []DeathTypeOK
<1>1. DeathInv => DeathTypeOK
  BY DEF DeathInv, ParentTyped, ChildTyped, ParentCounts, Children, DeathTypeOK
<1>2. QED
  BY <1>1, DeathInvariant, PTL

\* DeathTestImpl::Passed is true exactly if the statement ended its process as was
\* asked for (gtest-death-test.cc:563-598).
THEOREM VerdictCorrect == DeathSpec => []VerdictIsTrue
<1>1. DeathInv => VerdictIsTrue
  <2>1. SUFFICES ASSUME DeathInv, role = "judge", kept, executed # <<>>
                 PROVE  DeathTestPassed = Good(executed[1])
    BY DEF VerdictIsTrue
  <2>2. CASE executed[1].way = "dies"
    <3>1. outcome = "DIED" /\ status = executed[1].status /\ stderr = executed[1].matches
      BY <2>1, <2>2 DEF DeathInv, OutcomeTells
    <3>2. QED
      BY <2>2, <3>1 DEF DeathTestPassed, Good
  <2>3. CASE executed[1].way # "dies"
    <3>1. outcome # "DIED"
      BY <2>1, <2>3 DEF DeathInv, OutcomeTells
    <3>2. QED
      BY <2>3, <3>1 DEF DeathTestPassed, Good
  <2>4. QED
    BY <2>2, <2>3
<1>2. QED
  BY <1>1, DeathInvariant, PTL

\* The child of a "threadsafe" death test executes the statement that its parent
\* oversees, however often the line was passed (gtest-death-test.cc:1390-1440).
THEOREM ChildCorrect == DeathSpec => []ChildRunsThisOne
<1>1. DeathInv => ChildRunsThisOne
  BY DEF DeathInv, StatementOnce, ChildOnTrack, ChildRunsThisOne
<1>2. QED
  BY <1>1, DeathInvariant, PTL

(***************************************************************************)
(* The theorem about the payloads of matchers, for any finite number of     *)
(* threads and matchers, however many payloads are made: nothing touches a  *)
(* payload that was deleted, and none is left that nobody holds.            *)
(***************************************************************************)
Kept == {Null, Inlined} \cup {Holding(p) : p \in Made}

MatTyped ==
  /\ \E n \in Nat : Made = 1 .. n
  /\ matcher \in [Objects -> {Absent} \cup Kept]
  /\ payload \in [Made -> [live : BOOLEAN, ref : Nat, value : Kept]]
  /\ DOMAIN todo = Holders
  /\ uses \in [Holders -> SUBSET Objects]

(***************************************************************************)
(* The inductive invariant.  MatchersAlive looks at the counts only when all *)
(* threads are at rest; what it needs is what they are in between.          *)
(***************************************************************************)
LastKinds == {"copy", "move", "gone"}
Letting == {"Unref", "delete"}
LastStep(kind, m, o) == IF kind = "gone" THEN <<kind, m>> ELSE <<kind, m, o>>

\* A thread is at rest; or has copied and still has to count the copy; or it is
\* about to give m its new value or none, and may have to let go of a payload first.
Resting(t) == todo[t] = <<>> /\ uses[t] = {}

Counting(t, p, m, o) ==
  /\ todo[t] = << <<"Ref", p>> >> /\ uses[t] = {m, o}
  /\ m # o /\ matcher[m] = Holding(p) /\ matcher[o] = Holding(p)

Replacing(t, kind, m, o) ==
  /\ uses[t] = {m, o} /\ (m = o <=> kind = "gone")
  /\ \/ todo[t] = << LastStep(kind, m, o) >>
     \/ \E p \in Made, what \in Letting :
          todo[t] = << <<what, p>>, LastStep(kind, m, o) >>


Shape(t) ==
  \/ Resting(t)
  \/ \E p \in Made, m, o \in Objects : Counting(t, p, m, o)
  \/ \E kind \in LastKinds, m, o \in Objects : Replacing(t, kind, m, o)

Shapes == \A t \in Holders : Shape(t)

Apart == \A t, u \in Holders : t # u => uses[t] \cap uses[u] = {}

\* The first step left, and the objects that do not count as holders of a payload:
\* both of a copy that is not counted yet, and one that is about to be replaced.
FirstIs(steps, what, p) == steps # <<>> /\ steps[1] = <<what, p>>
UncountedBy(steps, objects) ==
  IF steps = <<>> THEN {}
  ELSE IF steps[1][1] = "Ref" THEN objects ELSE {steps[Len(steps)][2]}

Facing(t, what, p) == FirstIs(todo[t], what, p)
Uncounted(t) == UncountedBy(todo[t], uses[t])

Settled(p) == {m \in HeldBy(p) : \A t \in Holders : m \notin Uncounted(t)}
Owing(p) == {t \in Holders : Facing(t, "Ref", p) \/ Facing(t, "Unref", p)}

\* The count is the number of the settled holders, of the payloads that hold it,
\* and of the threads that are about to count up or down.
Counts ==
  \A p \in Made :
    payload[p].ref = Cardinality(Settled(p)) + Cardinality(InsideOf(p)) + Cardinality(Owing(p))

\* What has no count is deleted, or one thread is about to delete it.
Lives ==
  /\ \A p \in Made : payload[p].live \/ payload[p].ref = 0
  /\ \A p \in Made : payload[p].live /\ payload[p].ref = 0 <=> \E t \in Holders : Facing(t, "delete", p)
  /\ \A t, u \in Holders, p \in Made : Facing(t, "delete", p) /\ Facing(u, "delete", p) => t = u

MatInv == MatTyped /\ Shapes /\ Apart /\ Counts /\ Lives

(***************************************************************************)
(* Sequences of one and two steps, and sets that gain and lose an element.  *)
(***************************************************************************)
\* The steps that are left of an operation are at most two.
LEMMA StepSequences ==
  \A a, b :
    /\ Head(<<a>>) = a /\ Tail(<<a>>) = <<>> /\ Len(<<a>>) = 1 /\ <<a>> # <<>>
    /\ Head(<<a, b>>) = a /\ Tail(<<a, b>>) = <<b>> /\ Len(<<a, b>>) = 2 /\ <<a, b>> # <<>>
    /\ <<>> \o <<b>> = <<b>> /\ <<a>> \o <<b>> = <<a, b>>
    /\ <<>> \o <<>> = <<>> /\ <<a>> \o <<>> = <<a>>
    /\ Append(<<>>, b) = <<b>> /\ Append(<<a>>, b) = <<a, b>>
<1> TAKE a, b
<1> DEFINE T == {a, b}
<1>1. <<a>> \in Seq(T) /\ <<b>> \in Seq(T) /\ <<a, b>> \in Seq(T) /\ <<>> \in Seq(T)
  OBVIOUS
<1>2. Head(<<a>>) = a /\ Tail(<<a>>) = <<>> /\ Len(<<a>>) = 1 /\ <<a>> # <<>>
  OBVIOUS
<1>3. Head(<<a, b>>) = a /\ Len(<<a, b>>) = 2 /\ <<a, b>> # <<>>
  OBVIOUS
<1>4. Tail(<<a, b>>) = <<b>>
  BY <1>1
<1>5. <<>> \o <<b>> = <<b>> /\ <<>> \o <<>> = <<>> /\ <<a>> \o <<>> = <<a>>
  BY <1>1
<1>6. ASSUME NEW c \in Seq(T), Len(c) = 2, c[1] = a, c[2] = b
      PROVE  c = <<a, b>>
  <2>1. Len(<<a, b>>) = 2 /\ \A i \in 1 .. 2 : c[i] = <<a, b>>[i]
    BY <1>6
  <2> HIDE DEF T
  <2>2. QED
    BY <1>1, <1>6, <2>1, SeqEqual, Zenon
<1>7. <<a>> \o <<b>> = <<a, b>> /\ Append(<<a>>, b) = <<a, b>>
  <2>1. <<a>> \o <<b>> \in Seq(T) /\ Len(<<a>> \o <<b>>) = 2
        /\ (<<a>> \o <<b>>)[1] = a /\ (<<a>> \o <<b>>)[2] = b
    BY <1>1
  <2>2. Append(<<a>>, b) \in Seq(T) /\ Len(Append(<<a>>, b)) = 2
        /\ Append(<<a>>, b)[1] = a /\ Append(<<a>>, b)[2] = b
    BY <1>1
  <2> HIDE DEF T
  <2>3. QED
    BY <1>6, <2>1, <2>2
<1>8. Append(<<>>, b) = <<b>>
  BY <1>1
<1>9. QED
  BY <1>2, <1>3, <1>4, <1>5, <1>7, <1>8

\* A count follows the set it counts.
LEMMA CountFacts ==
  ASSUME NEW S, IsFiniteSet(S)
  PROVE  /\ Cardinality(S) \in Nat
         /\ \A x : x \notin S => Cardinality(S \cup {x}) = Cardinality(S) + 1
         /\ \A x \in S : Cardinality(S \ {x}) = Cardinality(S) - 1 /\ Cardinality(S) > 0
         /\ \A x \in S : \A y : y \notin S => Cardinality((S \ {x}) \cup {y}) = Cardinality(S)
         /\ \A x, y : x # y /\ x \notin S /\ y \notin S => Cardinality(S \cup {x, y}) = Cardinality(S) + 2
<1>1. Cardinality(S) \in Nat
  BY FS_CardinalityType
<1>2. \A x : x \notin S => Cardinality(S \cup {x}) = Cardinality(S) + 1 /\ IsFiniteSet(S \cup {x})
  BY FS_AddElement
<1>3. \A x \in S : Cardinality(S \ {x}) = Cardinality(S) - 1 /\ IsFiniteSet(S \ {x})
  BY FS_RemoveElement
<1>4. \A x \in S : Cardinality(S) > 0
  BY <1>1, FS_EmptySet
<1>5. ASSUME NEW x \in S, NEW y, y \notin S
      PROVE  Cardinality((S \ {x}) \cup {y}) = Cardinality(S)
  <2>1. y \notin S \ {x} /\ IsFiniteSet(S \ {x}) /\ Cardinality(S \ {x}) = Cardinality(S) - 1
    BY <1>3, <1>5
  <2>2. Cardinality((S \ {x}) \cup {y}) = Cardinality(S \ {x}) + 1
    BY <2>1, FS_AddElement
  <2>3. QED
    BY <1>1, <2>1, <2>2
<1>6. ASSUME NEW x, NEW y, x # y, x \notin S, y \notin S
      PROVE  Cardinality(S \cup {x, y}) = Cardinality(S) + 2
  <2>1. IsFiniteSet(S \cup {x}) /\ Cardinality(S \cup {x}) = Cardinality(S) + 1 /\ y \notin S \cup {x}
    BY <1>2, <1>6
  <2>2. Cardinality((S \cup {x}) \cup {y}) = Cardinality(S \cup {x}) + 1
    BY <2>1, FS_AddElement
  <2>3. (S \cup {x}) \cup {y} = S \cup {x, y}
    OBVIOUS
  <2>4. QED
    BY <1>1, <2>1, <2>2, <2>3
<1>7. QED
  BY <1>1, <1>2, <1>3, <1>4, <1>5, <1>6

\* What is counted is finite.
LEMMA FiniteClaims ==
  ASSUME MatTyped, NEW p
  PROVE  IsFiniteSet(Settled(p)) /\ IsFiniteSet(InsideOf(p)) /\ IsFiniteSet(Owing(p))
<1>1. Settled(p) \subseteq Objects /\ Owing(p) \subseteq Holders /\ InsideOf(p) \subseteq Made
  BY DEF Settled, HeldBy, Owing, InsideOf
<1>2. IsFiniteSet(Made)
  BY FS_Interval DEF MatTyped
<1>3. QED
  BY <1>1, <1>2, FS_Subset, MatchersAssumption

(***************************************************************************)
(* Where a thread is.                                                       *)
(***************************************************************************)
\* What the steps that are left say of the objects that do not count: none are left, ...
LEMMA NoSteps ==
  ASSUME NEW objects
  PROVE  UncountedBy(<<>>, objects) = {} /\ \A what, q : ~FirstIs(<<>>, what, q)
BY DEF UncountedBy, FirstIs

\* ... a copy is to be counted, ...
LEMMA RefStep ==
  ASSUME NEW objects, NEW p
  PROVE  /\ UncountedBy(<< <<"Ref", p>> >>, objects) = objects
         /\ \A what, q : FirstIs(<< <<"Ref", p>> >>, what, q) <=> what = "Ref" /\ q = p
BY DEF UncountedBy, FirstIs

\* ... the new value is to be set ...
LEMMA SettingStep ==
  ASSUME NEW objects, NEW kind \in LastKinds, NEW m, NEW o
  PROVE  /\ UncountedBy(<< LastStep(kind, m, o) >>, objects) = {m}
         /\ \A what \in {"Ref", "Unref", "delete"} : \A q : ~FirstIs(<< LastStep(kind, m, o) >>, what, q)
<1> DEFINE last == LastStep(kind, m, o)
<1>1. last[1] = kind /\ last[2] = m /\ kind \notin {"Ref", "Unref", "delete"}
  BY DEF LastStep, LastKinds
<1> HIDE DEF last
<1>2. <<last>> # <<>> /\ <<last>>[1] = last /\ Len(<<last>>) = 1
  OBVIOUS
<1>3. \A what, q : last = <<what, q>> => last[1] = what
  OBVIOUS
<1>4. UncountedBy(<<last>>, objects) = {m}
      /\ \A what \in {"Ref", "Unref", "delete"} : \A q : ~FirstIs(<<last>>, what, q)
  BY <1>1, <1>2, <1>3 DEF UncountedBy, FirstIs
<1>5. QED
  BY <1>4 DEF last

\* ... or a payload is to be let go of before.
LEMMA LettingStep ==
  ASSUME NEW w \in Letting, NEW kind \in LastKinds, NEW p, NEW m, NEW o, NEW objects
  PROVE  /\ UncountedBy(<< <<w, p>>, LastStep(kind, m, o) >>, objects) = {m}
         /\ \A x, y : FirstIs(<< <<w, p>>, LastStep(kind, m, o) >>, x, y) <=> x = w /\ y = p
<1> DEFINE last == LastStep(kind, m, o)
<1>1. last[2] = m
  BY DEF LastStep, LastKinds
<1> HIDE DEF last
<1>2. << <<w, p>>, last >> # <<>> /\ << <<w, p>>, last >>[1] = <<w, p>>
      /\ Len(<< <<w, p>>, last >>) = 2 /\ << <<w, p>>, last >>[2] = last /\ <<w, p>>[1] = w
  OBVIOUS
<1>3. \A what, q : <<w, p>> = <<what, q>> <=> what = w /\ q = p
  OBVIOUS
<1>4. UncountedBy(<< <<w, p>>, last >>, objects) = {m}
      /\ \A what, q : FirstIs(<< <<w, p>>, last >>, what, q) <=> what = w /\ q = p
  BY <1>1, <1>2, <1>3 DEF UncountedBy, FirstIs, Letting
<1>5. QED
  BY <1>4 DEF last

\* What does not count is always one of the objects that are worked on.
LEMMA UncountedOwn ==
  ASSUME NEW steps, NEW objects,
         \/ steps = <<>>
         \/ \E p : steps = << <<"Ref", p>> >>
         \/ \E kind \in LastKinds, m \in objects : \E o :
              \/ steps = << LastStep(kind, m, o) >>
              \/ \E p : \E what \in Letting : steps = << <<what, p>>, LastStep(kind, m, o) >>
  PROVE  UncountedBy(steps, objects) \subseteq objects
<1>1. CASE steps = <<>>
  BY <1>1, NoSteps
<1>2. CASE \E p : steps = << <<"Ref", p>> >>
  BY <1>2, RefStep
<1>3. ASSUME NEW kind \in LastKinds, NEW m \in objects, NEW o, steps = << LastStep(kind, m, o) >>
      PROVE  UncountedBy(steps, objects) = {m}
  BY <1>3, SettingStep
<1>4. ASSUME NEW kind \in LastKinds, NEW m \in objects, NEW o, NEW p, NEW what \in Letting,
             steps = << <<what, p>>, LastStep(kind, m, o) >>
      PROVE  UncountedBy(steps, objects) = {m}
  <2>1. UncountedBy(<< <<what, p>>, LastStep(kind, m, o) >>, objects) = {m}
    BY LettingStep
  <2>2. QED
    BY <1>4, <2>1
<1>5. QED
  BY <1>1, <1>2, <1>3, <1>4

\* What a matcher may hold, and that what it holds says which payload.
LEMMA HoldingFacts ==
  /\ \A p, q : Holding(p) = Holding(q) <=> p = q
  /\ \A p : Holding(p) # Absent /\ Holding(p) # Null /\ Holding(p) # Inlined
  /\ \A p : IsShared(Holding(p)) /\ Holding(p).shared = p
  /\ ~IsShared(Absent) /\ ~IsShared(Null) /\ ~IsShared(Inlined)
  /\ Absent # Null /\ Absent # Inlined
<1>1. \A p : Holding(p).shared = p /\ Holding(p).vtable = "shared"
  BY DEF Holding
<1>2. Absent.vtable = "absent" /\ Null.vtable = "null" /\ Inlined.vtable = "inlined"
  BY DEF Absent, Null, Inlined
<1>3. QED
  BY <1>1, <1>2 DEF IsShared

\* A shared matcher holds a payload that was made.
LEMMA SharedFacts ==
  \A h \in {Absent} \cup Kept : IsShared(h) => h.shared \in Made /\ h = Holding(h.shared)
BY HoldingFacts DEF Kept

\* The steps of a thread say where it is.
LEMMA PendingFacts ==
  ASSUME NEW t \in Holders, Shape(t)
  PROVE  /\ todo[t] = <<>> => Resting(t)
         /\ Pending(t, "Ref") => \E p \in Made, m, o \in Objects : Counting(t, p, m, o)
         /\ \A what \in Letting : Pending(t, what) =>
              \E p \in Made, kind \in LastKinds, m, o \in Objects :
                 /\ Replacing(t, kind, m, o)
                 /\ todo[t] = << <<what, p>>, LastStep(kind, m, o) >>
         /\ \A kind \in LastKinds : Pending(t, kind) =>
              \E m, o \in Objects : Replacing(t, kind, m, o) /\ todo[t] = << LastStep(kind, m, o) >>
<1>1. CASE Resting(t)
  BY <1>1 DEF Resting, Pending
<1>2. ASSUME NEW p \in Made, NEW m \in Objects, NEW o \in Objects, Counting(t, p, m, o)
      PROVE  todo[t] # <<>> /\ Head(todo[t])[1] = "Ref"
  BY <1>2, StepSequences DEF Counting
<1>3. ASSUME NEW kind \in LastKinds, NEW m \in Objects, NEW o \in Objects, Replacing(t, kind, m, o),
             todo[t] = << LastStep(kind, m, o) >>
      PROVE  todo[t] # <<>> /\ Head(todo[t])[1] = kind
  <2>1. todo[t] # <<>> /\ Head(todo[t]) = LastStep(kind, m, o)
    BY <1>3, StepSequences
  <2>2. QED
    BY <2>1 DEF LastStep, LastKinds
<1>4. ASSUME NEW kind \in LastKinds, NEW m \in Objects, NEW o \in Objects, Replacing(t, kind, m, o),
             NEW p \in Made, NEW what, todo[t] = << <<what, p>>, LastStep(kind, m, o) >>
      PROVE  todo[t] # <<>> /\ Head(todo[t])[1] = what
  <2>1. todo[t] # <<>> /\ Head(todo[t]) = <<what, p>>
    BY <1>4, StepSequences
  <2>2. QED
    BY <2>1
<1>5. CASE \E p \in Made, m, o \in Objects : Counting(t, p, m, o)
  BY <1>2, <1>5 DEF Pending, LastKinds, Letting
<1>6. ASSUME NEW kind \in LastKinds, NEW m \in Objects, NEW o \in Objects, Replacing(t, kind, m, o)
      PROVE  \/ todo[t] = << LastStep(kind, m, o) >>
             \/ \E p \in Made, what \in Letting : todo[t] = << <<what, p>>, LastStep(kind, m, o) >>
  BY <1>6 DEF Replacing
<1>7. CASE \E kind \in LastKinds, m, o \in Objects : Replacing(t, kind, m, o)
  <2>1. PICK kind \in LastKinds, m \in Objects, o \in Objects : Replacing(t, kind, m, o)
    BY <1>7
  <2>2. CASE todo[t] = << LastStep(kind, m, o) >>
    <3>1. todo[t] # <<>> /\ Head(todo[t])[1] = kind
      BY <1>3, <2>1, <2>2
    <3>2. kind # "Ref" /\ kind \notin Letting
      BY DEF LastKinds, Letting
    <3>3. QED
      BY <2>1, <2>2, <3>1, <3>2 DEF Pending
  <2>3. CASE \E p \in Made, what \in Letting : todo[t] = << <<what, p>>, LastStep(kind, m, o) >>
    <3>1. PICK p \in Made, what \in Letting : todo[t] = << <<what, p>>, LastStep(kind, m, o) >>
      BY <2>3
    <3>2. todo[t] # <<>> /\ Head(todo[t])[1] = what
      BY <1>4, <2>1, <3>1
    <3>3. what # "Ref" /\ what \notin LastKinds
      BY DEF LastKinds, Letting
    <3>4. QED
      BY <2>1, <3>1, <3>2, <3>3 DEF Pending
  <2>4. QED
    BY <1>6, <2>1, <2>2, <2>3
<1>8. QED
  BY <1>1, <1>5, <1>7 DEF Shape

(***************************************************************************)
(* One thread moves, in its own objects.                                    *)
(***************************************************************************)
\* What an operation or a step leaves to do, and what it works on.
LEMMA OperateFacts ==
  ASSUME MatTyped, NEW t \in Holders, NEW objects \in SUBSET Objects, NEW steps, Operate(t, objects, steps)
  PROVE  /\ DOMAIN todo' = Holders /\ uses' \in [Holders -> SUBSET Objects]
         /\ todo'[t] = steps /\ uses'[t] = IF steps = <<>> THEN {} ELSE objects
         /\ \A u \in Holders \ {t} : todo'[u] = todo[u] /\ uses'[u] = uses[u]
BY DEF MatTyped, Operate

\* What the others are doing, and what they count for, stays what it was.
Moves(t, S) ==
  /\ uses[t] \subseteq S /\ uses'[t] \subseteq S
  /\ \A u \in Holders \ {t} : uses[u] \cap S = {} /\ todo'[u] = todo[u] /\ uses'[u] = uses[u]
  /\ \A x \in Objects \ S : matcher'[x] = matcher[x]
  /\ Made \subseteq Made'

LEMMA FrameFacts ==
  ASSUME Shapes, Apart, NEW t \in Holders, NEW S \in SUBSET Objects, Moves(t, S), Shape(t)'
  PROVE  /\ Shapes' /\ Apart'
         /\ \A p : \A x \in Objects \ S : x \in Settled(p)' <=> x \in Settled(p)
         /\ \A p : \A x \in S : x \in Settled(p) <=> matcher[x] = Holding(p) /\ x \notin Uncounted(t)
         /\ \A p : \A x \in S : x \in Settled(p)' <=> matcher'[x] = Holding(p) /\ x \notin Uncounted(t)'
         /\ \A u \in Holders \ {t} : \A what, p : Facing(u, what, p)' <=> Facing(u, what, p)
         /\ \A p : \A u \in Holders \ {t} : u \in Owing(p)' <=> u \in Owing(p)
<1>1. ASSUME NEW u \in Holders \ {t}
      PROVE  /\ Shape(u)' /\ Uncounted(u)' = Uncounted(u)
             /\ \A what, p : Facing(u, what, p)' <=> Facing(u, what, p)
  <2>1. todo'[u] = todo[u] /\ uses'[u] = uses[u] /\ uses[u] \cap S = {}
    BY DEF Moves
  <2>2. Uncounted(u)' = Uncounted(u) /\ \A what, p : Facing(u, what, p)' <=> Facing(u, what, p)
    BY <2>1 DEF Uncounted, Facing
  <2>3. CASE Resting(u)
    BY <2>1, <2>2, <2>3 DEF Resting, Shape
  <2>4. CASE \E p \in Made, m, o \in Objects : Counting(u, p, m, o)
    <3>1. PICK p \in Made, m \in Objects, o \in Objects : Counting(u, p, m, o)
      BY <2>4
    <3>2. matcher'[m] = matcher[m] /\ matcher'[o] = matcher[o] /\ p \in Made'
      BY <2>1, <3>1 DEF Moves, Counting
    <3>3. Counting(u, p, m, o)'
      BY <2>1, <3>1, <3>2 DEF Counting
    <3>4. QED
      BY <2>2, <3>2, <3>3 DEF Shape
  <2>5. CASE \E kind \in LastKinds, m, o \in Objects : Replacing(u, kind, m, o)
    <3>1. PICK kind \in LastKinds, m \in Objects, o \in Objects : Replacing(u, kind, m, o)
      BY <2>5
    <3>2. Replacing(u, kind, m, o)'
      BY <2>1, <3>1 DEF Moves, Replacing
    <3>3. QED
      BY <2>2, <3>2 DEF Shape
  <2>6. QED
    BY <2>3, <2>4, <2>5 DEF Shapes, Shape
<1>2. Shapes'
  BY <1>1 DEF Shapes
<1>3. Apart'
  BY DEF Apart, Moves
<1>4. \A u \in Holders : Uncounted(u) \subseteq uses[u]
  <2>1. SUFFICES ASSUME NEW u \in Holders PROVE Uncounted(u) \subseteq uses[u]
    OBVIOUS
  <2>2. Shape(u)
    BY DEF Shapes
  <2>3. QED
    <3>1. UncountedBy(todo[u], uses[u]) \subseteq uses[u]
      <4>1. \/ todo[u] = <<>>
            \/ \E p : todo[u] = << <<"Ref", p>> >>
            \/ \E kind \in LastKinds, m \in uses[u] : \E o :
                 \/ todo[u] = << LastStep(kind, m, o) >>
                 \/ \E p : \E what \in Letting : todo[u] = << <<what, p>>, LastStep(kind, m, o) >>
        BY <2>2 DEF Shape, Resting, Counting, Replacing
      <4>2. QED
        BY <4>1, UncountedOwn
    <3>2. QED
      BY <3>1 DEF Uncounted
<1>5. \A u \in Holders \ {t} : \A x \in S : x \notin Uncounted(u) /\ x \notin Uncounted(u)'
  BY <1>1, <1>4 DEF Moves
<1>6. Uncounted(t)' \subseteq S
  <2>1. uses'[t] \subseteq S
    BY DEF Moves
  <2>2. QED
    <3>1. UncountedBy(todo'[t], uses'[t]) \subseteq uses'[t]
      <4>1. \/ todo'[t] = <<>>
            \/ \E p : todo'[t] = << <<"Ref", p>> >>
            \/ \E kind \in LastKinds, m \in uses'[t] : \E o :
                 \/ todo'[t] = << LastStep(kind, m, o) >>
                 \/ \E p : \E what \in Letting : todo'[t] = << <<what, p>>, LastStep(kind, m, o) >>
        BY DEF Shape, Resting, Counting, Replacing
      <4>2. QED
        BY <4>1, UncountedOwn
    <3>2. QED
      BY <2>1, <3>1 DEF Uncounted
<1>7. QED
  BY <1>1, <1>2, <1>3, <1>4, <1>5, <1>6 DEF Moves, Settled, HeldBy, Owing

\* Steps that change no payload: a holder may become a thread that owes a count, or
\* another holder.
LEMMA Balance ==
  ASSUME MatInv, MatTyped', payload' = payload, NEW t,
         \A p \in Made :
           \/ Settled(p)' = Settled(p) /\ Owing(p)' = Owing(p)
           \/ \E x \in Settled(p) :
                t \notin Owing(p) /\ Settled(p)' = Settled(p) \ {x} /\ Owing(p)' = Owing(p) \cup {t}
           \/ \E x \in Settled(p) : \E y :
                y \notin Settled(p) /\ Settled(p)' = (Settled(p) \ {x}) \cup {y} /\ Owing(p)' = Owing(p)
  PROVE  Counts'
<1>1. Made' = Made /\ \A p : InsideOf(p)' = InsideOf(p)
  BY DEF InsideOf, Made
<1>2. SUFFICES ASSUME NEW p \in Made
      PROVE  Cardinality(Settled(p)') + Cardinality(Owing(p)') = Cardinality(Settled(p)) + Cardinality(Owing(p))
             /\ Cardinality(Settled(p)') \in Nat /\ Cardinality(Owing(p)') \in Nat
  <2>1. \A p \in Made : Cardinality(Settled(p)) \in Nat /\ Cardinality(InsideOf(p)) \in Nat
                        /\ Cardinality(Owing(p)) \in Nat
    BY FiniteClaims, CountFacts DEF MatInv
  <2>2. QED
    BY <1>1, <1>2, <2>1 DEF MatInv, Counts
<1>3. IsFiniteSet(Settled(p)) /\ IsFiniteSet(Owing(p))
  BY FiniteClaims DEF MatInv
<1>4. CASE Settled(p)' = Settled(p) /\ Owing(p)' = Owing(p)
  BY <1>3, <1>4, CountFacts
<1>5. ASSUME NEW x \in Settled(p), t \notin Owing(p), Settled(p)' = Settled(p) \ {x},
             Owing(p)' = Owing(p) \cup {t}
      PROVE  Cardinality(Settled(p)') + Cardinality(Owing(p)') = Cardinality(Settled(p)) + Cardinality(Owing(p))
             /\ Cardinality(Settled(p)') \in Nat /\ Cardinality(Owing(p)') \in Nat
  <2>1. /\ Cardinality(Settled(p)) \in Nat /\ Cardinality(Settled(p)) > 0 /\ Cardinality(Owing(p)) \in Nat
        /\ Cardinality(Settled(p) \ {x}) = Cardinality(Settled(p)) - 1
        /\ Cardinality(Owing(p) \cup {t}) = Cardinality(Owing(p)) + 1
    BY <1>3, <1>5, CountFacts
  <2>2. QED
    BY <1>5, <2>1
<1>6. ASSUME NEW x \in Settled(p), NEW y, y \notin Settled(p),
             Settled(p)' = (Settled(p) \ {x}) \cup {y}, Owing(p)' = Owing(p)
      PROVE  Cardinality(Settled(p)') + Cardinality(Owing(p)') = Cardinality(Settled(p)) + Cardinality(Owing(p))
             /\ Cardinality(Settled(p)') \in Nat /\ Cardinality(Owing(p)') \in Nat
  <2>1. /\ Cardinality(Settled(p)) \in Nat /\ Cardinality(Owing(p)) \in Nat
        /\ Cardinality((Settled(p) \ {x}) \cup {y}) = Cardinality(Settled(p))
    BY <1>3, <1>6, CountFacts
  <2>2. QED
    BY <1>6, <2>1
<1>7. QED
  BY <1>4, <1>5, <1>6

\* ... and no thread starts or ends a deletion.
LEMMA LivesKept ==
  ASSUME Lives, payload' = payload,
         \A u \in Holders : \A p : Facing(u, "delete", p)' <=> Facing(u, "delete", p)
  PROVE  Lives'
<1>1. Made' = Made
  BY DEF Made
<1>2. QED
  BY <1>1 DEF Lives

(***************************************************************************)
(* The operations.                                                          *)
(***************************************************************************)
\* A thread that is free to use these objects is at rest, and nobody uses them.
LEMMA FreeFacts ==
  ASSUME MatInv, NEW t \in Holders, NEW S, Free(t, S)
  PROVE  /\ Resting(t) /\ uses[t] = {} /\ todo[t] = <<>> /\ Uncounted(t) = {}
         /\ \A what, p : ~Facing(t, what, p)
         /\ \A u \in Holders \ {t} : uses[u] \cap S = {}
         /\ \A p : t \notin Owing(p)
<1>1. Resting(t)
  BY PendingFacts DEF Free, MatInv, Shapes
<1>2. QED
  BY <1>1, NoSteps DEF Resting, Free, Uncounted, Facing, Owing


\* An operation begins.
LEMMA Begun ==
  ASSUME MatInv, NEW t \in Holders, NEW S \in SUBSET Objects, Free(t, S), NEW steps, Operate(t, S, steps),
         Made \subseteq Made', \A x \in Objects \ S : matcher'[x] = matcher[x], Shape(t)'
  PROVE  /\ Shapes' /\ Apart'
         /\ \A p : \A x \in Objects \ S : x \in Settled(p)' <=> x \in Settled(p)
         /\ \A p : \A x \in S : x \in Settled(p) <=> matcher[x] = Holding(p)
         /\ \A p : \A x \in S : x \in Settled(p)' <=> matcher'[x] = Holding(p) /\ x \notin Uncounted(t)'
         /\ \A u \in Holders \ {t} : \A what, p : Facing(u, what, p)' <=> Facing(u, what, p)
         /\ \A p : \A u \in Holders \ {t} : u \in Owing(p)' <=> u \in Owing(p)
         /\ \A p : t \notin Owing(p) /\ ~Facing(t, "delete", p)
<1>1. Uncounted(t) = {} /\ \A p : t \notin Owing(p) /\ ~Facing(t, "delete", p)
  BY FreeFacts
<1>2. Moves(t, S)
  BY FreeFacts, OperateFacts DEF Moves, MatInv
<1>3. QED
  BY <1>1, <1>2, FrameFacts DEF MatInv

\* An operation goes on.
LEMMA GoesOn ==
  ASSUME MatInv, NEW t \in Holders, NEW steps, Operate(t, uses[t], steps), Made \subseteq Made',
         \A x \in Objects \ uses[t] : matcher'[x] = matcher[x], Shape(t)'
  PROVE  /\ Shapes' /\ Apart'
         /\ \A p : \A x \in Objects \ uses[t] : x \in Settled(p)' <=> x \in Settled(p)
         /\ \A p : \A x \in uses[t] : x \in Settled(p) <=> matcher[x] = Holding(p) /\ x \notin Uncounted(t)
         /\ \A p : \A x \in uses[t] : x \in Settled(p)' <=> matcher'[x] = Holding(p) /\ x \notin Uncounted(t)'
         /\ \A u \in Holders \ {t} : \A what, p : Facing(u, what, p)' <=> Facing(u, what, p)
         /\ \A p : \A u \in Holders \ {t} : u \in Owing(p)' <=> u \in Owing(p)
<1>1. uses[t] \in SUBSET Objects
  BY DEF MatInv, MatTyped
<1>2. Moves(t, uses[t])
  BY <1>1, OperateFacts DEF Moves, MatInv, Apart
<1>3. QED
  BY <1>1, <1>2, FrameFacts DEF MatInv

\* What a step that makes no payload keeps.
LEMMA SamePayloads ==
  ASSUME payload' = payload
  PROVE  Made' = Made /\ Kept' = Kept
BY DEF Made, Kept

\* The constructor of a matcher that holds no payload (gtest-matchers.h:438-451).
LEMMA ConstructStep ==
  ASSUME MatInv, NEW t \in Holders, NEW m \in Objects, Construct(t, m)
  PROVE  MatInv'
<1>1. Free(t, {m}) /\ matcher[m] = Absent /\ Operate(t, {m}, <<>>) /\ payload' = payload
  BY DEF Construct
<1>2. PICK new \in {Null, Inlined} : matcher' = [matcher EXCEPT ![m] = new]
  BY DEF Construct
<1>3. /\ DOMAIN todo' = Holders /\ uses' \in [Holders -> SUBSET Objects] /\ todo'[t] = <<>> /\ uses'[t] = {}
  BY <1>1, OperateFacts DEF MatInv
<1>4. Made' = Made /\ Kept' = Kept
  BY <1>1, SamePayloads
<1>5. matcher'[m] \in {Null, Inlined} /\ \A x \in Objects \ {m} : matcher'[x] = matcher[x]
  BY <1>2 DEF MatInv, MatTyped
<1>6. MatTyped'
  <2>1. new \in Kept
    BY DEF Kept
  <2>2. matcher' \in [Objects -> {Absent} \cup Kept]
    BY <1>2, <2>1 DEF MatInv, MatTyped
  <2>3. QED
    BY <1>1, <1>3, <1>4, <2>2 DEF MatInv, MatTyped
<1>7. Shape(t)' /\ Uncounted(t)' = {} /\ \A what, p : ~Facing(t, what, p)'
  BY <1>3, NoSteps DEF Shape, Resting, Uncounted, Facing
<1>8. /\ Shapes' /\ Apart'
      /\ \A p : \A x \in Objects \ {m} : x \in Settled(p)' <=> x \in Settled(p)
      /\ \A p : m \in Settled(p) <=> matcher[m] = Holding(p)
      /\ \A p : m \in Settled(p)' <=> matcher'[m] = Holding(p) /\ m \notin Uncounted(t)'
      /\ \A u \in Holders \ {t} : \A what, p : Facing(u, what, p)' <=> Facing(u, what, p)
      /\ \A p : \A u \in Holders \ {t} : u \in Owing(p)' <=> u \in Owing(p)
      /\ \A p : t \notin Owing(p) /\ ~Facing(t, "delete", p)
  BY <1>1, <1>4, <1>5, <1>7, Begun
<1>9. \A p : Settled(p)' = Settled(p) /\ Owing(p)' = Owing(p)
  BY <1>1, <1>5, <1>7, <1>8, HoldingFacts DEF Settled, HeldBy, Owing
<1>10. Counts'
  BY <1>1, <1>6, <1>9, Balance
<1>11. Lives'
  BY <1>1, <1>7, <1>8, LivesKept DEF MatInv
<1>12. QED
  BY <1>6, <1>8, <1>10, <1>11 DEF MatInv

\* The copy constructor: the vtable and the buffer first, then the count
\* (gtest-matchers.h:321-324).
LEMMA CopyStep ==
  ASSUME MatInv, NEW t \in Holders, NEW m \in Objects, NEW other \in Objects, Copy(t, m, other)
  PROVE  MatInv'
<1> DEFINE S == {m, other}
           steps == IF IsShared(matcher[other]) THEN << <<"Ref", matcher[other].shared>> >> ELSE <<>>
<1>1. /\ Free(t, S) /\ matcher[m] = Absent /\ matcher[other] # Absent /\ m # other
      /\ matcher' = [matcher EXCEPT ![m] = matcher[other]] /\ payload' = payload
      /\ Operate(t, S, steps)
  BY DEF Copy
<1>2. /\ DOMAIN todo' = Holders /\ uses' \in [Holders -> SUBSET Objects] /\ todo'[t] = steps
      /\ uses'[t] = IF steps = <<>> THEN {} ELSE S
  <2>1. S \in SUBSET Objects /\ MatTyped
    BY DEF MatInv
  <2> HIDE DEF S, steps
  <2>2. QED
    BY <1>1, <2>1, OperateFacts
<1>3. Made' = Made /\ Kept' = Kept
  BY <1>1, SamePayloads
<1>4. matcher'[m] = matcher[other] /\ \A x \in Objects \ {m} : matcher'[x] = matcher[x]
  BY <1>1 DEF MatInv, MatTyped
<1>5. MatTyped'
  <2>1. matcher' \in [Objects -> {Absent} \cup Kept]
    BY <1>1 DEF MatInv, MatTyped
  <2>2. QED
    BY <1>1, <1>2, <1>3, <2>1 DEF MatInv, MatTyped
<1>6. matcher[other] \in {Absent} \cup Kept
  BY DEF MatInv, MatTyped
<1>7. CASE IsShared(matcher[other])
  <2>1. PICK q \in Made : matcher[other] = Holding(q) /\ matcher[other].shared = q
    BY <1>6, <1>7, SharedFacts
  <2>2. steps = << <<"Ref", q>> >> /\ steps # <<>>
    BY <1>7, <2>1
  <2>3. Counting(t, q, m, other)'
    BY <1>1, <1>2, <1>4, <2>1, <2>2 DEF Counting
  <2>4. Shape(t)'
    BY <1>3, <2>3 DEF Shape
  <2>5. Uncounted(t)' = S /\ \A what, p : Facing(t, what, p)' <=> what = "Ref" /\ p = q
    BY <1>2, <2>2, RefStep DEF Uncounted, Facing
  <2>6. /\ Shapes' /\ Apart'
        /\ \A p : \A x \in Objects \ S : x \in Settled(p)' <=> x \in Settled(p)
        /\ \A p : \A x \in S : x \in Settled(p) <=> matcher[x] = Holding(p)
        /\ \A p : \A x \in S : x \in Settled(p)' <=> matcher'[x] = Holding(p) /\ x \notin Uncounted(t)'
        /\ \A u \in Holders \ {t} : \A what, p : Facing(u, what, p)' <=> Facing(u, what, p)
        /\ \A p : \A u \in Holders \ {t} : u \in Owing(p)' <=> u \in Owing(p)
        /\ \A p : t \notin Owing(p) /\ ~Facing(t, "delete", p)
    BY <1>1, <1>3, <1>4, <2>4, Begun
  <2>7. \A p : p # q => Settled(p)' = Settled(p) /\ Owing(p)' = Owing(p)
    BY <1>1, <1>4, <2>1, <2>5, <2>6, HoldingFacts DEF Settled, HeldBy, Owing
  <2>8. other \in Settled(q) /\ t \notin Owing(q) /\ Settled(q)' = Settled(q) \ {other}
        /\ Owing(q)' = Owing(q) \cup {t}
    BY <1>1, <1>4, <2>1, <2>5, <2>6, HoldingFacts DEF Settled, HeldBy, Owing
  <2>9. Counts'
    BY <1>1, <1>5, <2>7, <2>8, Balance
  <2>10. Lives'
    BY <1>1, <2>5, <2>6, LivesKept DEF MatInv
  <2>11. QED
    BY <1>5, <2>6, <2>9, <2>10 DEF MatInv
<1>8. CASE ~IsShared(matcher[other])
  <2>1. steps = <<>> /\ \A p : matcher[other] # Holding(p)
    BY <1>8, HoldingFacts
  <2>2. Shape(t)' /\ Uncounted(t)' = {} /\ \A what, p : ~Facing(t, what, p)'
    BY <1>2, <2>1, NoSteps DEF Shape, Resting, Uncounted, Facing
  <2>3. /\ Shapes' /\ Apart'
        /\ \A p : \A x \in Objects \ S : x \in Settled(p)' <=> x \in Settled(p)
        /\ \A p : \A x \in S : x \in Settled(p) <=> matcher[x] = Holding(p)
        /\ \A p : \A x \in S : x \in Settled(p)' <=> matcher'[x] = Holding(p) /\ x \notin Uncounted(t)'
        /\ \A u \in Holders \ {t} : \A what, p : Facing(u, what, p)' <=> Facing(u, what, p)
        /\ \A p : \A u \in Holders \ {t} : u \in Owing(p)' <=> u \in Owing(p)
        /\ \A p : t \notin Owing(p) /\ ~Facing(t, "delete", p)
    BY <1>1, <1>3, <1>4, <2>2, Begun
  <2>4. \A p : Settled(p)' = Settled(p) /\ Owing(p)' = Owing(p)
    BY <1>1, <1>4, <2>1, <2>2, <2>3, HoldingFacts DEF Settled, HeldBy, Owing
  <2>5. Counts'
    BY <1>1, <1>5, <2>4, Balance
  <2>6. Lives'
    BY <1>1, <2>2, <2>3, LivesKept DEF MatInv
  <2>7. QED
    BY <1>5, <2>3, <2>5, <2>6 DEF MatInv
<1>9. QED
  BY <1>7, <1>8

\* The move constructor: no count changes (gtest-matchers.h:335-338).
LEMMA MoveStep ==
  ASSUME MatInv, NEW t \in Holders, NEW m \in Objects, NEW other \in Objects, Move(t, m, other)
  PROVE  MatInv'
<1> DEFINE S == {m, other}
<1>1. /\ Free(t, S) /\ matcher[m] = Absent /\ matcher[other] # Absent /\ m # other
      /\ matcher' = [matcher EXCEPT ![m] = matcher[other], ![other] = Null] /\ payload' = payload
      /\ Operate(t, S, <<>>)
  BY DEF Move, MovedFrom
<1>2. /\ DOMAIN todo' = Holders /\ uses' \in [Holders -> SUBSET Objects] /\ todo'[t] = <<>>
      /\ uses'[t] = {}
  <2>1. S \in SUBSET Objects /\ MatTyped
    BY DEF MatInv
  <2> HIDE DEF S
  <2>2. QED
    BY <1>1, <2>1, OperateFacts
<1>3. Made' = Made /\ Kept' = Kept
  BY <1>1, SamePayloads
<1>4. /\ matcher'[m] = matcher[other] /\ matcher'[other] = Null
      /\ \A x \in Objects \ S : matcher'[x] = matcher[x]
  BY <1>1 DEF MatInv, MatTyped
<1>5. MatTyped'
  <2>1. Null \in Kept
    BY DEF Kept
  <2>2. matcher' \in [Objects -> {Absent} \cup Kept]
    BY <1>1, <2>1 DEF MatInv, MatTyped
  <2>3. QED
    BY <1>1, <1>2, <1>3, <2>2 DEF MatInv, MatTyped
<1>6. Shape(t)' /\ Uncounted(t)' = {} /\ \A what, p : ~Facing(t, what, p)'
  BY <1>2, NoSteps DEF Shape, Resting, Uncounted, Facing
<1>7. /\ Shapes' /\ Apart'
      /\ \A p : \A x \in Objects \ S : x \in Settled(p)' <=> x \in Settled(p)
      /\ \A p : \A x \in S : x \in Settled(p) <=> matcher[x] = Holding(p)
      /\ \A p : \A x \in S : x \in Settled(p)' <=> matcher'[x] = Holding(p) /\ x \notin Uncounted(t)'
      /\ \A u \in Holders \ {t} : \A what, p : Facing(u, what, p)' <=> Facing(u, what, p)
      /\ \A p : \A u \in Holders \ {t} : u \in Owing(p)' <=> u \in Owing(p)
      /\ \A p : t \notin Owing(p) /\ ~Facing(t, "delete", p)
  BY <1>1, <1>3, <1>4, <1>6, Begun
<1>8. \A p : /\ Settled(p) \subseteq Objects /\ Settled(p)' \subseteq Objects
             /\ Owing(p) \subseteq Holders /\ Owing(p)' \subseteq Holders
             /\ m \notin Settled(p) /\ other \notin Settled(p)' /\ t \notin Owing(p)'
             /\ other \in Settled(p) <=> matcher[other] = Holding(p)
             /\ m \in Settled(p)' <=> matcher[other] = Holding(p)
  <2>1. \A p : /\ Settled(p) \subseteq Objects /\ Settled(p)' \subseteq Objects
               /\ Owing(p) \subseteq Holders /\ Owing(p)' \subseteq Holders
    BY DEF Settled, HeldBy, Owing
  <2>2. \A p : t \notin Owing(p)'
    BY <1>6 DEF Owing
  <2>3. m \in S /\ other \in S
    OBVIOUS
  <2> HIDE DEF S
  <2>4. \A p : /\ m \in Settled(p) <=> matcher[m] = Holding(p)
               /\ other \in Settled(p) <=> matcher[other] = Holding(p)
    BY <1>7, <2>3
  <2>5. \A p : /\ m \in Settled(p)' <=> matcher'[m] = Holding(p)
               /\ other \in Settled(p)' <=> matcher'[other] = Holding(p)
    BY <1>6, <1>7, <2>3
  <2>6. \A p : matcher[m] # Holding(p) /\ matcher'[other] # Holding(p)
    BY <1>1, <1>4, HoldingFacts
  <2>7. QED
    BY <1>4, <2>1, <2>2, <2>4, <2>5, <2>6
<1>9. \A p : /\ Owing(p)' = Owing(p)
             /\ matcher[other] # Holding(p) => Settled(p)' = Settled(p)
             /\ matcher[other] = Holding(p) => Settled(p)' = (Settled(p) \ {other}) \cup {m}
  BY <1>7, <1>8
<1>10. Counts'
  BY <1>1, <1>5, <1>8, <1>9, Balance
<1>11. Lives'
  BY <1>1, <1>6, <1>7, LivesKept DEF MatInv
<1>12. QED
  BY <1>5, <1>7, <1>10, <1>11 DEF MatInv

\* An assignment or the destructor begins: what the object holds is to be let go of.
LEMMA ReplaceBegins ==
  ASSUME MatInv, NEW t \in Holders, NEW kind \in LastKinds, NEW m \in Objects, NEW o \in Objects,
         m = o <=> kind = "gone", Free(t, {m, o}), UNCHANGED <<matcher, payload>>,
         Operate(t, {m, o}, Append(Destroy(matcher[m]), LastStep(kind, m, o)))
  PROVE  MatInv'
<1> DEFINE S == {m, o}
           last == LastStep(kind, m, o)
           steps == Append(Destroy(matcher[m]), last)
<1>1. steps = IF IsShared(matcher[m]) THEN << <<"Unref", matcher[m].shared>>, last >> ELSE << last >>
  BY StepSequences DEF Destroy
<1> HIDE DEF last
<1>2. steps # <<>>
  BY <1>1, StepSequences
<1>3. /\ DOMAIN todo' = Holders /\ uses' \in [Holders -> SUBSET Objects] /\ todo'[t] = steps /\ uses'[t] = S
  BY <1>2, OperateFacts DEF MatInv, last
<1>4. Made' = Made /\ Kept' = Kept
  BY SamePayloads
<1>5. MatTyped'
  BY <1>3, <1>4 DEF MatInv, MatTyped
<1>6. matcher[m] \in {Absent} \cup Kept
  BY DEF MatInv, MatTyped
<1> HIDE DEF steps
<1>7. ASSUME Shape(t)'
      PROVE
      /\ Shapes' /\ Apart'
      /\ \A p : \A x \in Objects \ S : x \in Settled(p)' <=> x \in Settled(p)
      /\ \A p : \A x \in S : x \in Settled(p) <=> matcher[x] = Holding(p)
      /\ \A p : \A x \in S : x \in Settled(p)' <=> matcher'[x] = Holding(p) /\ x \notin Uncounted(t)'
      /\ \A u \in Holders \ {t} : \A what, p : Facing(u, what, p)' <=> Facing(u, what, p)
      /\ \A p : \A u \in Holders \ {t} : u \in Owing(p)' <=> u \in Owing(p)
      /\ \A p : t \notin Owing(p) /\ ~Facing(t, "delete", p)
  BY <1>4, <1>7, Begun DEF steps, last
<1>8. CASE IsShared(matcher[m])
  <2>1. PICK q \in Made : matcher[m] = Holding(q) /\ matcher[m].shared = q
    BY <1>6, <1>8, SharedFacts
  <2>2. steps = << <<"Unref", q>>, last >> /\ "Unref" \in Letting
    BY <1>1, <1>8, <2>1 DEF steps, Letting
  <2>3. Replacing(t, kind, m, o)'
    BY <1>3, <1>4, <2>2 DEF Replacing, last
  <2>4. Shape(t)'
    BY <2>3 DEF Shape
  <2>5. Uncounted(t)' = {m} /\ \A what, p : Facing(t, what, p)' <=> what = "Unref" /\ p = q
    BY <1>3, <2>2, LettingStep DEF Uncounted, Facing, last
  <2>6. \A p : p # q => Settled(p)' = Settled(p) /\ Owing(p)' = Owing(p)
    BY <1>7, <2>1, <2>4, <2>5, HoldingFacts DEF Settled, HeldBy, Owing
  <2>7. m \in Settled(q) /\ t \notin Owing(q) /\ Settled(q)' = Settled(q) \ {m}
        /\ Owing(q)' = Owing(q) \cup {t}
    BY <1>7, <2>1, <2>4, <2>5, HoldingFacts DEF Settled, HeldBy, Owing
  <2>8. Counts'
    BY <1>5, <2>6, <2>7, Balance
  <2>9. Lives'
    BY <1>7, <2>4, <2>5, LivesKept DEF MatInv
  <2>10. QED
    BY <1>5, <1>7, <2>4, <2>8, <2>9 DEF MatInv
<1>9. CASE ~IsShared(matcher[m])
  <2>1. steps = << last >> /\ \A p : matcher[m] # Holding(p)
    BY <1>1, <1>9, HoldingFacts DEF steps
  <2>2. Replacing(t, kind, m, o)'
    BY <1>3, <2>1 DEF Replacing, last
  <2>3. Shape(t)'
    BY <2>2 DEF Shape
  <2>4. Uncounted(t)' = {m} /\ \A what \in {"Ref", "Unref", "delete"} : \A p : ~Facing(t, what, p)'
    BY <1>3, <2>1, SettingStep DEF Uncounted, Facing, last
  <2>5. \A p : Settled(p)' = Settled(p) /\ Owing(p)' = Owing(p)
    BY <1>7, <2>1, <2>3, <2>4, HoldingFacts DEF Settled, HeldBy, Owing
  <2>6. Counts'
    BY <1>5, <2>5, Balance
  <2>7. Lives'
    BY <1>7, <2>3, <2>4, LivesKept DEF MatInv
  <2>8. QED
    BY <1>5, <1>7, <2>3, <2>6, <2>7 DEF MatInv
<1>10. QED
  BY <1>8, <1>9

\* operator=, of either kind (gtest-matchers.h:326-347).
LEMMA AssignStep ==
  ASSUME MatInv, NEW t \in Holders, NEW m \in Objects, NEW other \in Objects, NEW kind \in {"copy", "move"},
         Assign(t, m, other, kind)
  PROVE  MatInv'
<1>1. CASE m # other
  <2>1. LastStep(kind, m, other) = <<kind, m, other>> /\ kind \in LastKinds /\ kind # "gone"
    BY DEF LastStep, LastKinds
  <2>2. QED
    BY <1>1, <2>1, ReplaceBegins DEF Assign, IsOther
<1>2. CASE m = other
  <2>1. /\ Free(t, {m}) /\ Operate(t, {m}, <<>>) /\ UNCHANGED <<matcher, payload>>
    <3>1. {m, other} = {m}
      BY <1>2
    <3>2. QED
      BY <1>2, <3>1 DEF Assign, IsOther
  <2>2. /\ DOMAIN todo' = Holders /\ uses' \in [Holders -> SUBSET Objects] /\ todo'[t] = <<>> /\ uses'[t] = {}
    BY <2>1, OperateFacts DEF MatInv
  <2>3. Made' = Made /\ Kept' = Kept
    BY <2>1, SamePayloads
  <2>4. MatTyped'
    BY <2>1, <2>2, <2>3 DEF MatInv, MatTyped
  <2>5. Shape(t)' /\ Uncounted(t)' = {} /\ \A what, p : ~Facing(t, what, p)'
    BY <2>2, NoSteps DEF Shape, Resting, Uncounted, Facing
  <2>6. /\ Shapes' /\ Apart'
        /\ \A p : \A x \in Objects \ {m} : x \in Settled(p)' <=> x \in Settled(p)
        /\ \A p : \A x \in {m} : x \in Settled(p) <=> matcher[x] = Holding(p)
        /\ \A p : \A x \in {m} : x \in Settled(p)' <=> matcher'[x] = Holding(p) /\ x \notin Uncounted(t)'
        /\ \A u \in Holders \ {t} : \A what, p : Facing(u, what, p)' <=> Facing(u, what, p)
        /\ \A p : \A u \in Holders \ {t} : u \in Owing(p)' <=> u \in Owing(p)
        /\ \A p : t \notin Owing(p) /\ ~Facing(t, "delete", p)
    BY <2>1, <2>3, <2>5, Begun
  <2>7. \A p : Settled(p)' = Settled(p) /\ Owing(p)' = Owing(p)
    BY <2>1, <2>5, <2>6 DEF Settled, HeldBy, Owing
  <2>8. Counts'
    BY <2>1, <2>4, <2>7, Balance
  <2>9. Lives'
    BY <2>1, <2>5, <2>6, LivesKept DEF MatInv
  <2>10. QED
    BY <2>4, <2>6, <2>8, <2>9 DEF MatInv
<1>3. QED
  BY <1>1, <1>2

\* The destructor (gtest-matchers.h:349).
LEMMA DestructStep ==
  ASSUME MatInv, NEW t \in Holders, NEW m \in Objects, Destruct(t, m)
  PROVE  MatInv'
<1>1. LastStep("gone", m, m) = <<"gone", m>> /\ "gone" \in LastKinds /\ {m, m} = {m}
  BY DEF LastStep, LastKinds
<1>2. QED
  BY <1>1, ReplaceBegins DEF Destruct

(***************************************************************************)
(* The steps.                                                               *)
(***************************************************************************)
\* A thread whose last step is due.
LEMMA LastFacts ==
  ASSUME MatInv, NEW t \in Holders, NEW kind \in LastKinds, Pending(t, kind)
  PROVE  /\ \E m, o \in Objects :
              /\ uses[t] = {m, o} /\ (m = o <=> kind = "gone") /\ Head(todo[t])[2] = m
              /\ kind # "gone" => Head(todo[t])[3] = o
              /\ Uncounted(t) = {m}
         /\ Head(todo[t])[1] = kind /\ Tail(todo[t]) = <<>>
         /\ \A what \in {"Ref", "Unref", "delete"} : \A p : ~Facing(t, what, p)
         /\ \A p : t \notin Owing(p)
<1>1. PICK m \in Objects, o \in Objects : Replacing(t, kind, m, o) /\ todo[t] = << LastStep(kind, m, o) >>
  BY PendingFacts DEF MatInv, Shapes
<1>2. Head(todo[t]) = LastStep(kind, m, o) /\ Tail(todo[t]) = <<>>
  BY <1>1, StepSequences
<1>3. LastStep(kind, m, o)[1] = kind /\ LastStep(kind, m, o)[2] = m
      /\ (kind # "gone" => LastStep(kind, m, o)[3] = o)
  BY DEF LastStep, LastKinds
<1>4. Uncounted(t) = {m} /\ \A what \in {"Ref", "Unref", "delete"} : \A p : ~Facing(t, what, p)
  BY <1>1, SettingStep DEF Uncounted, Facing
<1>5. \A p : t \notin Owing(p)
  BY <1>4 DEF Owing
<1>6. uses[t] = {m, o} /\ (m = o <=> kind = "gone")
  BY <1>1 DEF Replacing
<1>7. QED
  BY <1>2, <1>3, <1>4, <1>5, <1>6

\* The object takes over what the other one holds: a copy is still to be counted,
\* a move changes no count.
LEMMA TakeStep ==
  ASSUME MatInv, NEW t \in Holders, Take(t)
  PROVE  MatInv'
<1>1. PICK kind \in {"copy", "move"} : Pending(t, kind)
  BY DEF Take
<1>2. kind \in LastKinds /\ kind # "gone"
  BY DEF LastKinds
<1>3. /\ Head(todo[t])[1] = kind /\ Tail(todo[t]) = <<>>
      /\ \A what \in {"Ref", "Unref", "delete"} : \A p : ~Facing(t, what, p)
      /\ \A p : t \notin Owing(p)
  BY <1>1, <1>2, LastFacts
<1>4. PICK m \in Objects, o \in Objects :
        /\ uses[t] = {m, o} /\ m # o /\ Head(todo[t])[2] = m /\ Head(todo[t])[3] = o
        /\ Uncounted(t) = {m}
  BY <1>1, <1>2, LastFacts
<1>5. payload' = payload /\ Made' = Made /\ Kept' = Kept
  BY SamePayloads DEF Take
<1>6. uses[t] \in SUBSET Objects /\ MatTyped
  BY DEF MatInv, MatTyped
<1>7. matcher[o] \in {Absent} \cup Kept /\ matcher \in [Objects -> {Absent} \cup Kept]
  BY DEF MatInv, MatTyped
<1>8. CASE kind = "copy" /\ IsShared(matcher[o])
  <2>1. PICK q \in Made : matcher[o] = Holding(q) /\ matcher[o].shared = q
    BY <1>7, <1>8, SharedFacts
  <2> DEFINE steps == << <<"Ref", q>> >>
  <2>2. matcher' = [matcher EXCEPT ![m] = matcher[o]] /\ Operate(t, uses[t], steps)
    BY <1>3, <1>4, <1>8, <2>1, StepSequences DEF Take, Continue
  <2>3. steps # <<>>
    OBVIOUS
  <2>4. /\ DOMAIN todo' = Holders /\ uses' \in [Holders -> SUBSET Objects] /\ todo'[t] = steps
        /\ uses'[t] = uses[t]
    <3> HIDE DEF steps
    <3>1. QED
      BY <1>6, <2>2, <2>3, OperateFacts
  <2>5. /\ matcher' \in [Objects -> {Absent} \cup Kept] /\ matcher'[m] = Holding(q) /\ matcher'[o] = Holding(q)
        /\ \A x \in Objects \ {m} : matcher'[x] = matcher[x]
    BY <1>4, <1>7, <2>1, <2>2
  <2>6. MatTyped'
    BY <1>5, <2>4, <2>5 DEF MatInv, MatTyped
  <2>7. Counting(t, q, m, o)'
    BY <1>4, <2>4, <2>5 DEF Counting
  <2>8. Shape(t)'
    BY <1>5, <2>7 DEF Shape
  <2>9. Uncounted(t)' = {m, o} /\ \A what, p : Facing(t, what, p)' <=> what = "Ref" /\ p = q
    BY <1>4, <2>4, RefStep DEF Uncounted, Facing
  <2>10. /\ Shapes' /\ Apart'
         /\ \A p : \A x \in Objects \ {m, o} : x \in Settled(p)' <=> x \in Settled(p)
         /\ \A p : \A x \in {m, o} : x \in Settled(p) <=> matcher[x] = Holding(p) /\ x \notin {m}
         /\ \A p : \A x \in {m, o} : x \in Settled(p)' <=> matcher'[x] = Holding(p) /\ x \notin {m, o}
         /\ \A u \in Holders \ {t} : \A what, p : Facing(u, what, p)' <=> Facing(u, what, p)
         /\ \A p : \A u \in Holders \ {t} : u \in Owing(p)' <=> u \in Owing(p)
    <3> HIDE DEF steps
    <3>1. Made \subseteq Made' /\ \A x \in Objects \ uses[t] : matcher'[x] = matcher[x]
      BY <1>4, <1>5, <2>5
    <3>2. QED
      BY <1>4, <2>2, <2>8, <2>9, <3>1, GoesOn
  <2>11. \A p : /\ Settled(p) \subseteq Objects /\ Settled(p)' \subseteq Objects
                /\ Owing(p) \subseteq Holders /\ Owing(p)' \subseteq Holders
                /\ (t \in Owing(p)' <=> p = q)
    BY <2>9 DEF Settled, HeldBy, Owing
  <2>12. \A p : /\ m \notin Settled(p) /\ m \notin Settled(p)' /\ o \notin Settled(p)'
                /\ (o \in Settled(p) <=> p = q)
    BY <1>4, <2>1, <2>10, HoldingFacts
  <2>13. \A p : p # q => Settled(p)' = Settled(p) /\ Owing(p)' = Owing(p)
    <3> TAKE p
    <3> HAVE p # q
    <3>1. \A x \in Objects : x \in Settled(p)' <=> x \in Settled(p)
      BY <2>10, <2>12
    <3>2. \A u \in Holders : u \in Owing(p)' <=> u \in Owing(p)
      BY <1>3, <2>10, <2>11
    <3>3. QED
      BY <2>11, <3>1, <3>2
  <2>14. o \in Settled(q) /\ t \notin Owing(q) /\ Settled(q)' = Settled(q) \ {o}
         /\ Owing(q)' = Owing(q) \cup {t}
    BY <1>3, <2>10, <2>11, <2>12
  <2>15. Counts'
    BY <1>5, <2>6, <2>13, <2>14, Balance
  <2>16. Lives'
    <3>1. \A u \in Holders : \A p : Facing(u, "delete", p)' <=> Facing(u, "delete", p)
      BY <1>3, <2>9, <2>10
    <3>2. QED
      BY <1>5, <3>1, LivesKept DEF MatInv
  <2>17. QED
    BY <2>6, <2>10, <2>15, <2>16 DEF MatInv
<1>9. CASE kind = "move" \/ ~IsShared(matcher[o])
  <2>1. /\ matcher' \in [Objects -> {Absent} \cup Kept] /\ matcher'[m] = matcher[o]
        /\ matcher'[o] = (IF kind = "move" THEN Null ELSE matcher[o])
        /\ \A x \in Objects \ {m, o} : matcher'[x] = matcher[x]
    <3>1. Null \in Kept
      BY DEF Kept
    <3>2. QED
      BY <1>3, <1>4, <1>7, <3>1 DEF Take, MovedFrom
  <2>2. Operate(t, uses[t], <<>>)
    BY <1>3, <1>4, <1>9, StepSequences DEF Take, Continue
  <2>3. /\ DOMAIN todo' = Holders /\ uses' \in [Holders -> SUBSET Objects] /\ todo'[t] = <<>>
        /\ uses'[t] = {}
    BY <1>6, <2>2, OperateFacts
  <2>4. MatTyped'
    BY <1>5, <2>1, <2>3 DEF MatInv, MatTyped
  <2>5. Shape(t)' /\ Uncounted(t)' = {} /\ \A what, p : ~Facing(t, what, p)'
    BY <2>3, NoSteps DEF Shape, Resting, Uncounted, Facing
  <2>6. /\ Shapes' /\ Apart'
        /\ \A p : \A x \in Objects \ {m, o} : x \in Settled(p)' <=> x \in Settled(p)
        /\ \A p : \A x \in {m, o} : x \in Settled(p) <=> matcher[x] = Holding(p) /\ x \notin {m}
        /\ \A p : \A x \in {m, o} : x \in Settled(p)' <=> matcher'[x] = Holding(p)
        /\ \A u \in Holders \ {t} : \A what, p : Facing(u, what, p)' <=> Facing(u, what, p)
        /\ \A p : \A u \in Holders \ {t} : u \in Owing(p)' <=> u \in Owing(p)
    <3>1. Made \subseteq Made' /\ \A x \in Objects \ uses[t] : matcher'[x] = matcher[x]
      BY <1>4, <1>5, <2>1
    <3>2. QED
      BY <1>4, <2>2, <2>5, <3>1, GoesOn
  <2>7. \A p : /\ Settled(p) \subseteq Objects /\ Settled(p)' \subseteq Objects
               /\ Owing(p) \subseteq Holders /\ Owing(p)' \subseteq Holders /\ t \notin Owing(p)'
    BY <2>5 DEF Settled, HeldBy, Owing
  <2>8. \A p : /\ m \notin Settled(p) /\ (m \in Settled(p)' <=> matcher[o] = Holding(p))
               /\ (o \in Settled(p) <=> matcher[o] = Holding(p))
    BY <1>4, <2>1, <2>6
  <2>9. \A p : Owing(p)' = Owing(p)
    <3> TAKE p
    <3>1. \A u \in Holders : u \in Owing(p)' <=> u \in Owing(p)
      BY <1>3, <2>6, <2>7
    <3>2. QED
      BY <2>7, <3>1
  <2>10. \A p : matcher[o] # Holding(p) => Settled(p)' = Settled(p)
    <3> TAKE p
    <3> HAVE matcher[o] # Holding(p)
    <3>1. matcher'[o] # Holding(p)
      BY <2>1, HoldingFacts
    <3>2. \A x \in Objects : x \in Settled(p)' <=> x \in Settled(p)
      BY <2>6, <2>8, <3>1
    <3>3. QED
      BY <2>7, <3>2
  <2>11. \A p : matcher[o] = Holding(p) => o \notin Settled(p)'
    BY <1>4, <1>9, <2>1, <2>6, HoldingFacts
  <2>12. \A p : matcher[o] = Holding(p) => Settled(p)' = (Settled(p) \ {o}) \cup {m}
    BY <2>6, <2>7, <2>8, <2>11
  <2>13. Counts'
    BY <1>5, <2>4, <2>8, <2>9, <2>10, <2>12, Balance
  <2>14. Lives'
    <3>1. \A u \in Holders : \A p : Facing(u, "delete", p)' <=> Facing(u, "delete", p)
      BY <1>3, <2>5, <2>6
    <3>2. QED
      BY <1>5, <3>1, LivesKept DEF MatInv
  <2>15. QED
    BY <2>4, <2>6, <2>13, <2>14 DEF MatInv
<1>10. QED
  BY <1>8, <1>9

\* The destructor ends: the object is gone, and it counted for nothing any more.
LEMMA GoneStep ==
  ASSUME MatInv, NEW t \in Holders, Gone(t)
  PROVE  MatInv'
<1>1. Pending(t, "gone") /\ "gone" \in LastKinds
  BY DEF Gone, LastKinds
<1>2. /\ Tail(todo[t]) = <<>>
      /\ \A what \in {"Ref", "Unref", "delete"} : \A p : ~Facing(t, what, p)
      /\ \A p : t \notin Owing(p)
  BY <1>1, LastFacts
<1>3. PICK m \in Objects : uses[t] = {m} /\ Head(todo[t])[2] = m /\ Uncounted(t) = {m}
  <2>1. PICK m \in Objects, o \in Objects : uses[t] = {m, o} /\ m = o /\ Head(todo[t])[2] = m /\ Uncounted(t) = {m}
    BY <1>1, LastFacts
  <2>2. QED
    BY <2>1
<1>4. payload' = payload /\ Made' = Made /\ Kept' = Kept
  BY SamePayloads DEF Gone
<1>5. uses[t] \in SUBSET Objects /\ MatTyped /\ matcher \in [Objects -> {Absent} \cup Kept]
  BY DEF MatInv, MatTyped
<1>6. /\ matcher' \in [Objects -> {Absent} \cup Kept] /\ matcher'[m] = Absent
      /\ \A x \in Objects \ {m} : matcher'[x] = matcher[x]
  BY <1>3, <1>5 DEF Gone
<1>7. Operate(t, uses[t], <<>>)
  BY <1>2, StepSequences DEF Gone, Continue
<1>8. /\ DOMAIN todo' = Holders /\ uses' \in [Holders -> SUBSET Objects] /\ todo'[t] = <<>> /\ uses'[t] = {}
  BY <1>5, <1>7, OperateFacts
<1>9. MatTyped'
  BY <1>4, <1>6, <1>8 DEF MatInv, MatTyped
<1>10. Shape(t)' /\ Uncounted(t)' = {} /\ \A what, p : ~Facing(t, what, p)'
  BY <1>8, NoSteps DEF Shape, Resting, Uncounted, Facing
<1>11. /\ Shapes' /\ Apart'
       /\ \A p : \A x \in Objects \ {m} : x \in Settled(p)' <=> x \in Settled(p)
       /\ \A p : m \notin Settled(p) /\ m \notin Settled(p)'
       /\ \A u \in Holders \ {t} : \A what, p : Facing(u, what, p)' <=> Facing(u, what, p)
       /\ \A p : \A u \in Holders \ {t} : u \in Owing(p)' <=> u \in Owing(p)
  <2>1. Made \subseteq Made' /\ \A x \in Objects \ uses[t] : matcher'[x] = matcher[x]
    BY <1>3, <1>4, <1>6
  <2>2. \A p : matcher'[m] # Holding(p)
    BY <1>6, HoldingFacts
  <2>3. /\ Shapes' /\ Apart'
        /\ \A p : \A x \in Objects \ uses[t] : x \in Settled(p)' <=> x \in Settled(p)
        /\ \A p : \A x \in uses[t] : x \in Settled(p) <=> matcher[x] = Holding(p) /\ x \notin Uncounted(t)
        /\ \A p : \A x \in uses[t] : x \in Settled(p)' <=> matcher'[x] = Holding(p) /\ x \notin Uncounted(t)'
        /\ \A u \in Holders \ {t} : \A what, p : Facing(u, what, p)' <=> Facing(u, what, p)
        /\ \A p : \A u \in Holders \ {t} : u \in Owing(p)' <=> u \in Owing(p)
    BY <1>7, <1>10, <2>1, GoesOn
  <2>4. m \in uses[t] /\ uses[t] = {m}
    BY <1>3
  <2>5. \A p : m \notin Settled(p) /\ m \notin Settled(p)'
    BY <1>3, <2>2, <2>3, <2>4
  <2>6. QED
    BY <2>3, <2>4, <2>5
<1>12. \A p : Settled(p) \subseteq Objects /\ Settled(p)' \subseteq Objects
              /\ Owing(p) \subseteq Holders /\ Owing(p)' \subseteq Holders /\ t \notin Owing(p)'
  BY <1>10 DEF Settled, HeldBy, Owing
<1>13. \A p : Settled(p)' = Settled(p) /\ Owing(p)' = Owing(p)
  <2> TAKE p
  <2>1. \A x \in Objects : x \in Settled(p)' <=> x \in Settled(p)
    BY <1>11
  <2>2. \A u \in Holders : u \in Owing(p)' <=> u \in Owing(p)
    BY <1>2, <1>11, <1>12
  <2>3. QED
    BY <1>12, <2>1, <2>2
<1>14. Counts'
  BY <1>4, <1>9, <1>13, Balance
<1>15. Lives'
  <2>1. \A u \in Holders : \A p : Facing(u, "delete", p)' <=> Facing(u, "delete", p)
    BY <1>2, <1>10, <1>11
  <2>2. QED
    BY <1>4, <2>1, LivesKept DEF MatInv
<1>16. QED
  BY <1>9, <1>11, <1>14, <1>15 DEF MatInv

\* What a payload needs to be counted right: three numbers.
LEMMA ThreeCounts ==
  ASSUME MatInv, NEW p \in Made
  PROVE  /\ IsFiniteSet(Settled(p)) /\ IsFiniteSet(InsideOf(p)) /\ IsFiniteSet(Owing(p))
         /\ Cardinality(Settled(p)) \in Nat /\ Cardinality(InsideOf(p)) \in Nat /\ Cardinality(Owing(p)) \in Nat
         /\ payload[p].ref = Cardinality(Settled(p)) + Cardinality(InsideOf(p)) + Cardinality(Owing(p))
         /\ Settled(p) # {} \/ InsideOf(p) # {} \/ Owing(p) # {} => payload[p].ref > 0 /\ payload[p].live
<1>1. IsFiniteSet(Settled(p)) /\ IsFiniteSet(InsideOf(p)) /\ IsFiniteSet(Owing(p))
  BY FiniteClaims DEF MatInv
<1>2. /\ Cardinality(Settled(p)) \in Nat /\ Cardinality(InsideOf(p)) \in Nat /\ Cardinality(Owing(p)) \in Nat
      /\ Settled(p) # {} => Cardinality(Settled(p)) > 0
      /\ InsideOf(p) # {} => Cardinality(InsideOf(p)) > 0
      /\ Owing(p) # {} => Cardinality(Owing(p)) > 0
  BY <1>1, CountFacts
<1>3. payload[p].ref = Cardinality(Settled(p)) + Cardinality(InsideOf(p)) + Cardinality(Owing(p))
  BY DEF MatInv, Counts
<1>4. payload[p].live \/ payload[p].ref = 0
  BY DEF MatInv, Lives
<1>5. QED
  BY <1>1, <1>2, <1>3, <1>4

\* A copy is counted: the two objects and the thread's debt change places
\* (SharedPayloadBase::Ref, gtest-matchers.h:244).
LEMMA RefActionStep ==
  ASSUME MatInv, NEW t \in Holders, Ref(t)
  PROVE  MatInv'
<1>1. PICK p \in Made, m \in Objects, o \in Objects : Counting(t, p, m, o)
  BY PendingFacts DEF Ref, MatInv, Shapes
<1>2. /\ todo[t] = << <<"Ref", p>> >> /\ uses[t] = {m, o} /\ m # o
      /\ matcher[m] = Holding(p) /\ matcher[o] = Holding(p)
  BY <1>1 DEF Counting
<1>3. Head(todo[t])[2] = p /\ Tail(todo[t]) = <<>>
  BY <1>2, StepSequences
<1>4. /\ payload' = [payload EXCEPT ![p] = [payload[p] EXCEPT !.ref = @ + 1]]
      /\ matcher' = matcher /\ Operate(t, uses[t], <<>>)
  BY <1>3, StepSequences DEF Ref, SetTouched, Touched, Continue
<1>5. /\ uses[t] \in SUBSET Objects /\ MatTyped /\ payload \in [Made -> [live : BOOLEAN, ref : Nat, value : Kept]]
  BY DEF MatInv, MatTyped
<1>6. /\ DOMAIN todo' = Holders /\ uses' \in [Holders -> SUBSET Objects] /\ todo'[t] = <<>> /\ uses'[t] = {}
  BY <1>4, <1>5, OperateFacts
<1>7. /\ Made' = Made /\ Kept' = Kept
      /\ \A q \in Made : /\ payload'[q].live = payload[q].live /\ payload'[q].value = payload[q].value
                         /\ payload'[q].ref = IF q = p THEN payload[q].ref + 1 ELSE payload[q].ref
      /\ payload' \in [Made -> [live : BOOLEAN, ref : Nat, value : Kept]]
  BY <1>4, <1>5 DEF Made, Kept
<1>8. MatTyped'
  BY <1>4, <1>6, <1>7 DEF MatInv, MatTyped
<1>9. /\ Uncounted(t) = {m, o} /\ \A what, q : Facing(t, what, q) <=> what = "Ref" /\ q = p
  BY <1>2, RefStep DEF Uncounted, Facing
<1>10. Shape(t)' /\ Uncounted(t)' = {} /\ \A what, q : ~Facing(t, what, q)'
  BY <1>6, NoSteps DEF Shape, Resting, Uncounted, Facing
<1>11. /\ Shapes' /\ Apart'
       /\ \A q : \A x \in Objects \ uses[t] : x \in Settled(q)' <=> x \in Settled(q)
       /\ \A q : \A x \in uses[t] : x \in Settled(q) <=> matcher[x] = Holding(q) /\ x \notin Uncounted(t)
       /\ \A q : \A x \in uses[t] : x \in Settled(q)' <=> matcher'[x] = Holding(q) /\ x \notin Uncounted(t)'
       /\ \A u \in Holders \ {t} : \A what, q : Facing(u, what, q)' <=> Facing(u, what, q)
       /\ \A q : \A u \in Holders \ {t} : u \in Owing(q)' <=> u \in Owing(q)
  BY <1>4, <1>7, <1>10, GoesOn
<1>12. \A q : /\ Settled(q) \subseteq Objects /\ Settled(q)' \subseteq Objects
              /\ Owing(q) \subseteq Holders /\ Owing(q)' \subseteq Holders
              /\ t \notin Owing(q)' /\ (t \in Owing(q) <=> q = p)
  BY <1>9, <1>10 DEF Settled, HeldBy, Owing
<1>13. \A q : /\ m \notin Settled(q) /\ o \notin Settled(q)
              /\ m \in Settled(q)' <=> q = p
              /\ o \in Settled(q)' <=> q = p
  <2>1. m \in uses[t] /\ o \in uses[t]
    BY <1>2
  <2>2. \A q : Holding(p) = Holding(q) <=> p = q
    BY HoldingFacts
  <2>3. QED
    BY <1>2, <1>4, <1>9, <1>10, <1>11, <2>1, <2>2
<1>14. \A q : InsideOf(q)' = InsideOf(q)
  BY <1>7 DEF InsideOf
<1>15. \A q : q # p => Settled(q)' = Settled(q) /\ Owing(q)' = Owing(q)
  <2> TAKE q
  <2> HAVE q # p
  <2>1. \A x \in Objects : x \in Settled(q)' <=> x \in Settled(q)
    BY <1>2, <1>11, <1>13
  <2>2. \A u \in Holders : u \in Owing(q)' <=> u \in Owing(q)
    BY <1>11, <1>12
  <2>3. QED
    BY <1>12, <2>1, <2>2
<1>16. Settled(p)' = Settled(p) \cup {m, o} /\ Owing(p)' = Owing(p) \ {t}
  <2>1. \A x \in Objects : x \in Settled(p)' <=> x \in Settled(p) \/ x \in {m, o}
    BY <1>2, <1>11, <1>13
  <2>2. \A u \in Holders : u \in Owing(p)' <=> u \in Owing(p) /\ u # t
    BY <1>11, <1>12
  <2>3. QED
    BY <1>12, <2>1, <2>2
<1>17. Counts'
  <2>1. ASSUME NEW q \in Made
        PROVE  payload'[q].ref = Cardinality(Settled(q)') + Cardinality(InsideOf(q)') + Cardinality(Owing(q)')
    <3>1. CASE q # p
      BY <1>7, <1>14, <1>15, <3>1 DEF MatInv, Counts
    <3>2. CASE q = p
      <4>1. /\ Cardinality(Settled(p) \cup {m, o}) = Cardinality(Settled(p)) + 2
            /\ Cardinality(Owing(p) \ {t}) = Cardinality(Owing(p)) - 1
        BY <1>2, <1>12, <1>13, ThreeCounts, CountFacts
      <4>2. QED
        <5>1. /\ Cardinality(Settled(p)) \in Nat /\ Cardinality(InsideOf(p)) \in Nat
              /\ Cardinality(Owing(p)) \in Nat
              /\ payload[p].ref = Cardinality(Settled(p)) + Cardinality(InsideOf(p)) + Cardinality(Owing(p))
          BY ThreeCounts
        <5>2. payload'[p].ref = payload[p].ref + 1
          BY <1>7
        <5>3. /\ Cardinality(Settled(p)') = Cardinality(Settled(p)) + 2
              /\ Cardinality(InsideOf(p)') = Cardinality(InsideOf(p))
              /\ Cardinality(Owing(p)') = Cardinality(Owing(p)) - 1
          BY <1>14, <1>16, <4>1
        <5>4. QED
          BY <3>2, <5>1, <5>2, <5>3
    <3>3. QED
      BY <3>1, <3>2
  <2>2. QED
    BY <1>7, <2>1 DEF Counts
<1>18. Lives'
  <2>1. payload[p].ref > 0 /\ payload[p].live /\ payload[p].ref \in Nat
    BY <1>5, <1>12, ThreeCounts
  <2>2. \A u \in Holders : \A q : Facing(u, "delete", q)' <=> Facing(u, "delete", q)
    BY <1>9, <1>10, <1>11
  <2>3. \A q \in Made : payload'[q].live = payload[q].live /\ (payload'[q].ref = 0 <=> payload[q].ref = 0)
    BY <1>7, <2>1
  <2>4. QED
    BY <1>7, <2>2, <2>3 DEF MatInv, Lives
<1>19. QED
  BY <1>8, <1>11, <1>17, <1>18 DEF MatInv

\* A thread that lets go of a payload.
LEMMA LettingFacts ==
  ASSUME MatInv, NEW t \in Holders, NEW what \in Letting, Pending(t, what)
  PROVE  \E p \in Made, kind \in LastKinds, m, o \in Objects :
           /\ uses[t] = {m, o} /\ (m = o <=> kind = "gone")
           /\ Head(todo[t])[2] = p /\ Tail(todo[t]) = << LastStep(kind, m, o) >>
           /\ Uncounted(t) = {m}
           /\ \A w, q : Facing(t, w, q) <=> w = what /\ q = p
<1>1. PICK p \in Made, kind \in LastKinds, m \in Objects, o \in Objects :
        Replacing(t, kind, m, o) /\ todo[t] = << <<what, p>>, LastStep(kind, m, o) >>
  BY PendingFacts DEF MatInv, Shapes
<1>2. Head(todo[t]) = <<what, p>> /\ Tail(todo[t]) = << LastStep(kind, m, o) >>
  BY <1>1, StepSequences
<1>3. Uncounted(t) = {m} /\ \A w, q : Facing(t, w, q) <=> w = what /\ q = p
  BY <1>1, LettingStep DEF Uncounted, Facing
<1>4. QED
  BY <1>1, <1>2, <1>3 DEF Replacing

\* ... and goes on with at most one more payload before its last step.
LEMMA LettingGoesOn ==
  ASSUME MatInv, NEW t \in Holders, NEW kind \in LastKinds, NEW m \in Objects, NEW o \in Objects,
         uses[t] = {m, o}, m = o <=> kind = "gone", Uncounted(t) = {m},
         matcher' = matcher, Made' = Made, NEW steps, Operate(t, uses[t], steps),
         \/ steps = << LastStep(kind, m, o) >>
         \/ \E p \in Made, what \in Letting : steps = << <<what, p>>, LastStep(kind, m, o) >>
  PROVE  /\ DOMAIN todo' = Holders /\ uses' \in [Holders -> SUBSET Objects]
         /\ todo'[t] = steps /\ Shapes' /\ Apart'
         /\ \A q : Settled(q)' = Settled(q)
         /\ \A u \in Holders \ {t} : \A what, q : Facing(u, what, q)' <=> Facing(u, what, q)
         /\ \A q : \A u \in Holders \ {t} : u \in Owing(q)' <=> u \in Owing(q)
<1>1. steps # <<>>
  BY StepSequences
<1>2. uses[t] \in SUBSET Objects /\ MatTyped
  BY DEF MatInv, MatTyped
<1>3. /\ DOMAIN todo' = Holders /\ uses' \in [Holders -> SUBSET Objects] /\ todo'[t] = steps /\ uses'[t] = uses[t]
  BY <1>1, <1>2, OperateFacts
<1>4. Replacing(t, kind, m, o)'
  BY <1>3 DEF Replacing
<1>5. Shape(t)'
  BY <1>4 DEF Shape
<1>6. Uncounted(t)' = {m}
  <2>1. CASE steps = << LastStep(kind, m, o) >>
    BY <1>3, <2>1, SettingStep DEF Uncounted
  <2>2. CASE \E p \in Made, what \in Letting : steps = << <<what, p>>, LastStep(kind, m, o) >>
    <3>1. PICK p \in Made, what \in Letting : steps = << <<what, p>>, LastStep(kind, m, o) >>
      BY <2>2
    <3>2. QED
      BY <1>3, <3>1, LettingStep DEF Uncounted
  <2>3. QED
    BY <2>1, <2>2
<1>7. /\ Shapes' /\ Apart'
      /\ \A q : \A x \in Objects \ uses[t] : x \in Settled(q)' <=> x \in Settled(q)
      /\ \A q : \A x \in uses[t] : x \in Settled(q) <=> matcher[x] = Holding(q) /\ x \notin Uncounted(t)
      /\ \A q : \A x \in uses[t] : x \in Settled(q)' <=> matcher'[x] = Holding(q) /\ x \notin Uncounted(t)'
      /\ \A u \in Holders \ {t} : \A what, q : Facing(u, what, q)' <=> Facing(u, what, q)
      /\ \A q : \A u \in Holders \ {t} : u \in Owing(q)' <=> u \in Owing(q)
  BY <1>5, GoesOn
<1>8. \A q : Settled(q)' = Settled(q)
  <2> TAKE q
  <2>1. Settled(q) \subseteq Objects /\ Settled(q)' \subseteq Objects
    BY DEF Settled, HeldBy
  <2>2. \A x \in Objects : x \in Settled(q)' <=> x \in Settled(q)
    BY <1>6, <1>7
  <2>3. QED
    BY <2>1, <2>2
<1>9. QED
  BY <1>3, <1>7, <1>8

\* One holder less: the last one is to delete the payload
\* (MatcherBase::Destroy, gtest-matchers.h:425-429).
LEMMA UnrefStep ==
  ASSUME MatInv, NEW t \in Holders, Unref(t)
  PROVE  MatInv'
<1>1. PICK p \in Made, kind \in LastKinds, m \in Objects, o \in Objects :
        /\ uses[t] = {m, o} /\ (m = o <=> kind = "gone")
        /\ Head(todo[t])[2] = p /\ Tail(todo[t]) = << LastStep(kind, m, o) >>
        /\ Uncounted(t) = {m}
        /\ \A w, q : Facing(t, w, q) <=> w = "Unref" /\ q = p
  <2>1. "Unref" \in Letting /\ Pending(t, "Unref")
    BY DEF Letting, Unref
  <2>2. QED
    BY <2>1, LettingFacts
<1> DEFINE last == LastStep(kind, m, o)
           steps == IF payload[p].ref = 1 THEN << <<"delete", p>>, last >> ELSE << last >>
<1>2. /\ payload' = [payload EXCEPT ![p] = [payload[p] EXCEPT !.ref = @ - 1]]
      /\ matcher' = matcher
      /\ Operate(t, uses[t], (IF payload[p].ref = 1 THEN << <<"delete", p>> >> ELSE <<>>) \o <<last>>)
  BY <1>1 DEF Unref, SetTouched, Touched, Continue, WasLast
<1>3. Operate(t, uses[t], steps)
  <2> HIDE DEF last
  <2>1. (IF payload[p].ref = 1 THEN << <<"delete", p>> >> ELSE <<>>) \o <<last>> = steps
    BY StepSequences
  <2>2. QED
    BY <1>2, <2>1
<1>4. payload \in [Made -> [live : BOOLEAN, ref : Nat, value : Kept]] /\ t \in Owing(p)
  BY <1>1 DEF MatInv, MatTyped, Owing
<1>5. payload[p].ref \in Nat /\ payload[p].ref > 0 /\ payload[p].live
  BY <1>4, ThreeCounts
<1>6. /\ Made' = Made /\ Kept' = Kept
      /\ \A q \in Made : /\ payload'[q].live = payload[q].live /\ payload'[q].value = payload[q].value
                         /\ payload'[q].ref = IF q = p THEN payload[q].ref - 1 ELSE payload[q].ref
      /\ payload' \in [Made -> [live : BOOLEAN, ref : Nat, value : Kept]]
  BY <1>2, <1>4, <1>5 DEF Made, Kept
<1>7. /\ DOMAIN todo' = Holders /\ uses' \in [Holders -> SUBSET Objects]
      /\ todo'[t] = steps /\ Shapes' /\ Apart'
      /\ \A q : Settled(q)' = Settled(q)
      /\ \A u \in Holders \ {t} : \A what, q : Facing(u, what, q)' <=> Facing(u, what, q)
      /\ \A q : \A u \in Holders \ {t} : u \in Owing(q)' <=> u \in Owing(q)
  <2>1. \/ steps = << LastStep(kind, m, o) >>
        \/ \E q \in Made, what \in Letting : steps = << <<what, q>>, LastStep(kind, m, o) >>
    <3>1. "delete" \in Letting
      BY DEF Letting
    <3> HIDE DEF last
    <3>2. steps = << last >> \/ \E q \in Made, what \in Letting : steps = << <<what, q>>, last >>
      BY <3>1
    <3>3. QED
      BY <3>2 DEF last
  <2> HIDE DEF steps
  <2>2. QED
    <3>1. uses[t] = {m, o} /\ (m = o <=> kind = "gone") /\ Uncounted(t) = {m}
      BY <1>1
    <3>2. matcher' = matcher /\ Made' = Made
      BY <1>2, <1>6
    <3>3. QED
      BY <1>3, <2>1, <3>1, <3>2, LettingGoesOn
<1>8. MatTyped'
  BY <1>2, <1>6, <1>7 DEF MatInv, MatTyped
<1>9. /\ payload[p].ref = 1 => \A w, q : Facing(t, w, q)' <=> w = "delete" /\ q = p
      /\ payload[p].ref # 1 => \A w \in {"Ref", "Unref", "delete"} : \A q : ~Facing(t, w, q)'
  <2>1. CASE payload[p].ref = 1
    <3>1. todo'[t] = << <<"delete", p>>, LastStep(kind, m, o) >> /\ "delete" \in Letting
      BY <1>7, <2>1 DEF Letting
    <3>2. QED
      BY <2>1, <3>1, LettingStep DEF Facing
  <2>2. CASE payload[p].ref # 1
    <3>1. todo'[t] = << LastStep(kind, m, o) >>
      BY <1>7, <2>2
    <3>2. QED
      BY <2>2, <3>1, SettingStep DEF Facing
  <2>3. QED
    BY <2>1, <2>2
<1>10. \A q : t \notin Owing(q)' /\ (t \in Owing(q) <=> q = p)
  BY <1>1, <1>9 DEF Owing
<1>11. \A q : Owing(q)' = IF q = p THEN Owing(q) \ {t} ELSE Owing(q)
  <2> TAKE q
  <2>1. Owing(q) \subseteq Holders /\ Owing(q)' \subseteq Holders
    BY DEF Owing
  <2>2. \A u \in Holders : u \in Owing(q)' <=> u \in Owing(q) /\ ~(q = p /\ u = t)
    BY <1>7, <1>10
  <2>3. QED
    BY <1>10, <2>1, <2>2
<1>12. \A q : InsideOf(q)' = InsideOf(q)
  BY <1>6 DEF InsideOf
<1>13. Counts'
  <2>1. ASSUME NEW q \in Made
        PROVE  payload'[q].ref = Cardinality(Settled(q)') + Cardinality(InsideOf(q)') + Cardinality(Owing(q)')
    <3>1. CASE q # p
      BY <1>6, <1>7, <1>11, <1>12, <3>1 DEF MatInv, Counts
    <3>2. CASE q = p
      <4>1. Cardinality(Owing(p) \ {t}) = Cardinality(Owing(p)) - 1
        BY <1>4, ThreeCounts, CountFacts
      <4>2. QED
        <5>1. /\ Cardinality(Settled(p)) \in Nat /\ Cardinality(InsideOf(p)) \in Nat
              /\ Cardinality(Owing(p)) \in Nat
              /\ payload[p].ref = Cardinality(Settled(p)) + Cardinality(InsideOf(p)) + Cardinality(Owing(p))
          BY ThreeCounts
        <5>2. payload'[p].ref = payload[p].ref - 1
          BY <1>6
        <5>3. /\ Cardinality(Settled(p)') = Cardinality(Settled(p))
              /\ Cardinality(InsideOf(p)') = Cardinality(InsideOf(p))
              /\ Cardinality(Owing(p)') = Cardinality(Owing(p)) - 1
          BY <1>7, <1>11, <1>12, <4>1
        <5>4. QED
          BY <3>2, <5>1, <5>2, <5>3
    <3>3. QED
      BY <3>1, <3>2
  <2>2. QED
    BY <1>6, <2>1 DEF Counts
<1>14. Lives'
  <2>1. \A u \in Holders : ~Facing(u, "delete", p)
    BY <1>5 DEF MatInv, Lives
  <2>2. \A u \in Holders : \A q : q # p => (Facing(u, "delete", q)' <=> Facing(u, "delete", q))
    BY <1>1, <1>7, <1>9
  <2>3. \A u \in Holders : Facing(u, "delete", p)' <=> u = t /\ payload[p].ref = 1
    BY <1>7, <1>9, <2>1
  <2>4. payload'[p].live /\ (payload'[p].ref = 0 <=> payload[p].ref = 1)
    BY <1>5, <1>6
  <2>5. \A q \in Made : q # p => payload'[q].live = payload[q].live /\ payload'[q].ref = payload[q].ref
    BY <1>6
  <2>6. ASSUME NEW q \in Made'
        PROVE  /\ payload'[q].live \/ payload'[q].ref = 0
               /\ payload'[q].live /\ payload'[q].ref = 0 <=> \E u \in Holders : Facing(u, "delete", q)'
               /\ \A u, v \in Holders : Facing(u, "delete", q)' /\ Facing(v, "delete", q)' => u = v
    <3>1. CASE q = p
      BY <2>3, <2>4, <3>1
    <3>2. CASE q # p
      BY <1>6, <2>2, <2>5, <3>2 DEF MatInv, Lives
    <3>3. QED
      BY <3>1, <3>2
  <2>7. QED
    BY <2>6 DEF Lives
<1>15. QED
  BY <1>7, <1>8, <1>13, <1>14 DEF MatInv

\* The payload is deleted; what its value holds is to be let go of next
\* (SharedPayload::Destroy, gtest-matchers.h:253-255).
LEMMA SharedDestroyStep ==
  ASSUME MatInv, NEW t \in Holders, SharedDestroy(t)
  PROVE  MatInv'
<1>1. PICK p \in Made, kind \in LastKinds, m \in Objects, o \in Objects :
        /\ uses[t] = {m, o} /\ (m = o <=> kind = "gone")
        /\ Head(todo[t])[2] = p /\ Tail(todo[t]) = << LastStep(kind, m, o) >>
        /\ Uncounted(t) = {m}
        /\ \A w, q : Facing(t, w, q) <=> w = "delete" /\ q = p
  <2>1. "delete" \in Letting /\ Pending(t, "delete")
    BY DEF Letting, SharedDestroy
  <2>2. QED
    BY <2>1, LettingFacts
<1> DEFINE last == LastStep(kind, m, o)
           value == payload[p].value
           steps == IF IsShared(value) THEN << <<"Unref", value.shared>>, last >> ELSE << last >>
<1>2. /\ payload' = [payload EXCEPT ![p] = [payload[p] EXCEPT !.live = FALSE, !.value = Null]]
      /\ matcher' = matcher /\ Operate(t, uses[t], Destroy(value) \o <<last>>)
  BY <1>1 DEF SharedDestroy, SetTouched, Touched, Continue
<1>3. Operate(t, uses[t], steps)
  <2> HIDE DEF last, value
  <2>1. Destroy(value) \o <<last>> = steps
    BY StepSequences DEF Destroy
  <2>2. QED
    BY <1>2, <2>1
<1>4. payload \in [Made -> [live : BOOLEAN, ref : Nat, value : Kept]] /\ value \in Kept
  BY DEF MatInv, MatTyped
<1>5. payload[p].live /\ payload[p].ref = 0 /\ \A u \in Holders \ {t} : ~Facing(u, "delete", p)
  <2>1. Facing(t, "delete", p)
    BY <1>1
  <2>2. QED
    BY <2>1 DEF MatInv, Lives
<1>6. Settled(p) = {} /\ InsideOf(p) = {} /\ Owing(p) = {}
  BY <1>5, ThreeCounts
<1>7. IsShared(value) => /\ value = Holding(value.shared) /\ value.shared \in Made
                         /\ p \in InsideOf(value.shared) /\ value.shared # p
  <2>1. IsShared(value) => value.shared \in Made /\ value = Holding(value.shared)
    BY <1>4, SharedFacts
  <2>2. IsShared(value) => p \in InsideOf(value.shared)
    BY <1>5, <2>1 DEF InsideOf
  <2>3. QED
    BY <1>6, <2>1, <2>2
<1>8. /\ Made' = Made /\ Kept' = Kept
      /\ payload' \in [Made -> [live : BOOLEAN, ref : Nat, value : Kept]]
      /\ ~payload'[p].live /\ payload'[p].ref = payload[p].ref
      /\ \A q \in Made \ {p} : payload'[q] = payload[q]
  <2>1. Null \in Kept
    BY DEF Kept
  <2>2. QED
    BY <1>2, <1>4, <2>1 DEF Made, Kept
<1> HIDE DEF value
<1>9. /\ DOMAIN todo' = Holders /\ uses' \in [Holders -> SUBSET Objects]
      /\ todo'[t] = steps /\ Shapes' /\ Apart'
      /\ \A q : Settled(q)' = Settled(q)
      /\ \A u \in Holders \ {t} : \A what, q : Facing(u, what, q)' <=> Facing(u, what, q)
      /\ \A q : \A u \in Holders \ {t} : u \in Owing(q)' <=> u \in Owing(q)
  <2>1. \/ steps = << LastStep(kind, m, o) >>
        \/ \E q \in Made, what \in Letting : steps = << <<what, q>>, LastStep(kind, m, o) >>
    <3>1. "Unref" \in Letting
      BY DEF Letting
    <3> HIDE DEF last
    <3>2. steps = << last >> \/ \E q \in Made, what \in Letting : steps = << <<what, q>>, last >>
      BY <1>7, <3>1
    <3>3. QED
      BY <3>2 DEF last
  <2> HIDE DEF steps
  <2>2. uses[t] = {m, o} /\ (m = o <=> kind = "gone") /\ Uncounted(t) = {m}
    BY <1>1
  <2>3. matcher' = matcher /\ Made' = Made
    BY <1>2, <1>8
  <2>4. QED
    BY <1>3, <2>1, <2>2, <2>3, LettingGoesOn
<1>10. MatTyped'
  BY <1>2, <1>8, <1>9 DEF MatInv, MatTyped
<1>11. /\ IsShared(value) => \A w, q : Facing(t, w, q)' <=> w = "Unref" /\ q = value.shared
       /\ ~IsShared(value) => \A w \in {"Ref", "Unref", "delete"} : \A q : ~Facing(t, w, q)'
  <2>1. CASE IsShared(value)
    <3>1. todo'[t] = << <<"Unref", value.shared>>, LastStep(kind, m, o) >> /\ "Unref" \in Letting
      BY <1>9, <2>1 DEF Letting
    <3>2. QED
      BY <2>1, <3>1, LettingStep DEF Facing
  <2>2. CASE ~IsShared(value)
    <3>1. todo'[t] = << LastStep(kind, m, o) >>
      BY <1>9, <2>2
    <3>2. QED
      <4>1. \A w \in {"Ref", "Unref", "delete"} : \A q : ~FirstIs(<< LastStep(kind, m, o) >>, w, q)
        BY SettingStep
      <4>2. QED
        BY <2>2, <3>1, <4>1 DEF Facing
  <2>3. QED
    BY <2>1, <2>2
<1>12. \A q : /\ t \notin Owing(q) /\ (t \in Owing(q)' <=> value = Holding(q))
  <2>1. \A q : t \notin Owing(q)
    BY <1>1 DEF Owing
  <2>2. \A q : IsShared(value) => (q = value.shared <=> value = Holding(q))
    BY <1>7, HoldingFacts
  <2>3. \A q : ~IsShared(value) => value # Holding(q)
    BY HoldingFacts
  <2>4. \A q : t \in Owing(q)' <=> Facing(t, "Ref", q)' \/ Facing(t, "Unref", q)'
    BY DEF Owing
  <2>5. QED
    BY <1>11, <2>1, <2>2, <2>3, <2>4
<1>13. \A q : Owing(q)' = IF value = Holding(q) THEN Owing(q) \cup {t} ELSE Owing(q)
  <2> TAKE q
  <2>1. Owing(q) \subseteq Holders /\ Owing(q)' \subseteq Holders
    BY DEF Owing
  <2>2. \A u \in Holders : u \in Owing(q)' <=> u \in Owing(q) \/ (value = Holding(q) /\ u = t)
    BY <1>9, <1>12
  <2>3. QED
    BY <1>12, <2>1, <2>2
<1>14. \A q : InsideOf(q)' = IF value = Holding(q) THEN InsideOf(q) \ {p} ELSE InsideOf(q)
  BY <1>5, <1>8 DEF InsideOf, value
<1>15. Counts'
  <2>1. ASSUME NEW q \in Made
        PROVE  payload'[q].ref = Cardinality(Settled(q)') + Cardinality(InsideOf(q)') + Cardinality(Owing(q)')
    <3>1. payload'[q].ref = payload[q].ref
      BY <1>8
    <3>2. CASE value # Holding(q)
      BY <1>9, <1>13, <1>14, <3>1, <3>2 DEF MatInv, Counts
    <3>3. CASE value = Holding(q)
      <4>1. p \in InsideOf(q)
        BY <1>5, <3>3 DEF InsideOf, value
      <4>2. /\ Cardinality(Settled(q)) \in Nat /\ Cardinality(InsideOf(q)) \in Nat
            /\ Cardinality(Owing(q)) \in Nat
            /\ payload[q].ref = Cardinality(Settled(q)) + Cardinality(InsideOf(q)) + Cardinality(Owing(q))
            /\ IsFiniteSet(InsideOf(q)) /\ IsFiniteSet(Owing(q))
        BY ThreeCounts
      <4>3. /\ Cardinality(InsideOf(q) \ {p}) = Cardinality(InsideOf(q)) - 1
            /\ Cardinality(Owing(q) \cup {t}) = Cardinality(Owing(q)) + 1
        BY <1>12, <4>1, <4>2, CountFacts
      <4>4. /\ Cardinality(Settled(q)') = Cardinality(Settled(q))
            /\ Cardinality(InsideOf(q)') = Cardinality(InsideOf(q)) - 1
            /\ Cardinality(Owing(q)') = Cardinality(Owing(q)) + 1
        BY <1>9, <1>13, <1>14, <3>3, <4>3
      <4>5. QED
        BY <3>1, <4>2, <4>4
    <3>4. QED
      BY <3>2, <3>3
  <2>2. QED
    BY <1>8, <2>1 DEF Counts
<1>16. Lives'
  <2>1. \A u \in Holders : ~Facing(u, "delete", p)'
    BY <1>5, <1>9, <1>11
  <2>2. \A u \in Holders : \A q : q # p => (Facing(u, "delete", q)' <=> Facing(u, "delete", q))
    BY <1>1, <1>9, <1>11
  <2>3. ASSUME NEW q \in Made'
        PROVE  /\ payload'[q].live \/ payload'[q].ref = 0
               /\ payload'[q].live /\ payload'[q].ref = 0 <=> \E u \in Holders : Facing(u, "delete", q)'
               /\ \A u, v \in Holders : Facing(u, "delete", q)' /\ Facing(v, "delete", q)' => u = v
    <3>1. CASE q = p
      BY <1>5, <1>8, <2>1, <3>1
    <3>2. CASE q # p
      BY <1>8, <2>2, <3>2 DEF MatInv, Lives
    <3>3. QED
      BY <3>1, <3>2
  <2>4. QED
    BY <2>3 DEF Lives
<1>17. QED
  BY <1>9, <1>10, <1>15, <1>16 DEF MatInv

\* A payload that is not made yet is none that anything holds or counts.
LEMMA NotMade ==
  ASSUME MatInv, NEW p, p \notin Made
  PROVE  /\ \A x \in Objects : matcher[x] # Holding(p)
         /\ \A q \in Made : payload[q].value # Holding(p)
         /\ \A u \in Holders : \A what \in {"Ref", "Unref", "delete"} : ~Facing(u, what, p)
         /\ Settled(p) = {} /\ InsideOf(p) = {} /\ Owing(p) = {}
<1>1. \A h \in {Absent} \cup Kept : h # Holding(p)
  BY HoldingFacts DEF Kept
<1>2. /\ \A x \in Objects : matcher[x] # Holding(p)
      /\ \A q \in Made : payload[q].value # Holding(p)
  BY <1>1 DEF MatInv, MatTyped
<1>3. ASSUME NEW u \in Holders, NEW what \in {"Ref", "Unref", "delete"}
      PROVE  ~Facing(u, what, p)
  <2>1. CASE Resting(u)
    BY <2>1, NoSteps DEF Resting, Facing
  <2>2. CASE \E q \in Made, m, o \in Objects : Counting(u, q, m, o)
    BY <2>2, RefStep DEF Counting, Facing
  <2>3. CASE \E kind \in LastKinds, m, o \in Objects : Replacing(u, kind, m, o)
    <3>1. PICK kind \in LastKinds, m \in Objects, o \in Objects : Replacing(u, kind, m, o)
      BY <2>3
    <3>2. CASE todo[u] = << LastStep(kind, m, o) >>
      <4>1. ~FirstIs(<< LastStep(kind, m, o) >>, what, p)
        BY SettingStep
      <4>2. QED
        BY <3>2, <4>1 DEF Facing
    <3>3. CASE \E q \in Made, w \in Letting : todo[u] = << <<w, q>>, LastStep(kind, m, o) >>
      <4>1. PICK q \in Made, w \in Letting : todo[u] = << <<w, q>>, LastStep(kind, m, o) >>
        BY <3>3
      <4>2. QED
        BY <4>1, LettingStep DEF Facing
    <3>4. QED
      BY <3>1, <3>2, <3>3 DEF Replacing
  <2>4. QED
    BY <2>1, <2>2, <2>3 DEF MatInv, Shapes, Shape
<1>4. QED
  BY <1>2, <1>3 DEF Settled, HeldBy, InsideOf, Owing

\* The constructor that makes a payload (gtest-matchers.h:453-486).
LEMMA InitSharedStep ==
  ASSUME MatInv, NEW t \in Holders, NEW m \in Objects, InitShared(t, m)
  PROVE  MatInv'
<1>0. PICK p : p = Cardinality(Made) + 1
  OBVIOUS
<1> DEFINE Fresh(inner) == [live |-> TRUE, ref |-> 1, value |-> inner]
\* Either way one other object at most, and what it held is now inside of the payload.
<1>1. PICK S \in SUBSET Objects, inner \in Kept :
        /\ m \in S /\ Free(t, S) /\ matcher[m] = Absent
        /\ payload' = [k \in Made \cup {p} |-> IF k = p THEN Fresh(inner) ELSE payload[k]]
        /\ \A x \in Objects \ S : matcher'[x] = matcher[x]
        /\ matcher' \in [Objects -> {Absent, Null, Holding(p)} \cup Kept] /\ matcher'[m] = Holding(p)
        /\ \/ S = {m} /\ inner = Null
           \/ \E other \in Objects \ {m} : S = {m, other} /\ inner = matcher[other] /\ matcher'[other] = Null
  <2>1. Null \in Kept
    BY DEF Kept
  <2>2. matcher \in [Objects -> {Absent} \cup Kept]
    BY DEF MatInv, MatTyped
  <2>3. CASE /\ payload' = [k \in Made \cup {p} |-> IF k = p THEN Fresh(Null) ELSE payload[k]]
             /\ matcher' = [matcher EXCEPT ![m] = Holding(p)]
    <3>1. m \in {m} /\ {m} \in SUBSET Objects /\ Free(t, {m}) /\ matcher[m] = Absent
      BY DEF InitShared
    <3>2. /\ \A x \in Objects \ {m} : matcher'[x] = matcher[x]
          /\ matcher' \in [Objects -> {Absent, Null, Holding(p)} \cup Kept] /\ matcher'[m] = Holding(p)
      BY <2>2, <2>3
    <3>3. QED
      BY <2>1, <2>3, <3>1, <3>2
  <2>4. ASSUME NEW other \in Objects \ {m}, matcher[other] # Absent, Free(t, {m, other}),
               payload' = [k \in Made \cup {p} |-> IF k = p THEN Fresh(matcher[other]) ELSE payload[k]],
               matcher' = [matcher EXCEPT ![m] = Holding(p), ![other] = Null]
        PROVE  \E S \in SUBSET Objects, inner \in Kept :
        /\ m \in S /\ Free(t, S) /\ matcher[m] = Absent
        /\ payload' = [k \in Made \cup {p} |-> IF k = p THEN Fresh(inner) ELSE payload[k]]
        /\ \A x \in Objects \ S : matcher'[x] = matcher[x]
        /\ matcher' \in [Objects -> {Absent, Null, Holding(p)} \cup Kept] /\ matcher'[m] = Holding(p)
        /\ \/ S = {m} /\ inner = Null
           \/ \E o \in Objects \ {m} : S = {m, o} /\ inner = matcher[o] /\ matcher'[o] = Null
    <3>1. m \in {m, other} /\ {m, other} \in SUBSET Objects /\ matcher[m] = Absent /\ matcher[other] \in Kept
      BY <2>2, <2>4 DEF InitShared
    <3>2. /\ \A x \in Objects \ {m, other} : matcher'[x] = matcher[x]
          /\ matcher' \in [Objects -> {Absent, Null, Holding(p)} \cup Kept] /\ matcher'[m] = Holding(p)
          /\ matcher'[other] = Null
      BY <2>2, <2>4
    <3>3. QED
      BY <2>4, <3>1, <3>2
  <2>5. QED
    BY <1>0, <2>3, <2>4 DEF InitShared, MovedFrom
<1>2. Operate(t, S, <<>>)
  BY DEF InitShared, Operate
<1>3. /\ DOMAIN todo' = Holders /\ uses' \in [Holders -> SUBSET Objects] /\ todo'[t] = <<>> /\ uses'[t] = {}
  BY <1>2, OperateFacts DEF MatInv
<1>4. /\ p \notin Made /\ Made' = Made \cup {p} /\ \E n \in Nat : Made' = 1 .. n
  <2>1. PICK n \in Nat : Made = 1 .. n
    BY DEF MatInv, MatTyped
  <2>2. Cardinality(Made) = n
    BY <2>1, FS_Interval
  <2>3. Made' = Made \cup {p}
    BY <1>1 DEF Made
  <2>4. Made' = 1 .. (n + 1) /\ n + 1 \in Nat /\ p \notin Made
    BY <1>0, <2>1, <2>2, <2>3
  <2>5. QED
    BY <2>3, <2>4
<1>5. Holding(p) \in Kept' /\ Null \in Kept' /\ Kept \subseteq Kept'
  BY <1>4 DEF Kept
<1>6. MatTyped'
  <2>1. payload \in [Made -> [live : BOOLEAN, ref : Nat, value : Kept]]
    BY DEF MatInv, MatTyped
  <2>2. Fresh(inner) \in [live : BOOLEAN, ref : Nat, value : Kept']
    BY <1>1, <1>5
  <2>3. payload' \in [Made' -> [live : BOOLEAN, ref : Nat, value : Kept']]
    <3>1. \A k \in Made : payload[k] \in [live : BOOLEAN, ref : Nat, value : Kept']
      BY <1>5, <2>1
    <3> HIDE DEF Fresh
    <3>2. QED
      BY <1>1, <1>4, <2>2, <3>1
  <2>4. matcher' \in [Objects -> {Absent} \cup Kept']
    BY <1>1, <1>5
  <2>5. QED
    BY <1>3, <1>4, <2>3, <2>4 DEF MatTyped
<1>7. Shape(t)' /\ Uncounted(t)' = {} /\ \A what, q : ~Facing(t, what, q)'
  BY <1>3, NoSteps DEF Shape, Resting, Uncounted, Facing
<1>8. /\ Shapes' /\ Apart'
      /\ \A q : \A x \in Objects \ S : x \in Settled(q)' <=> x \in Settled(q)
      /\ \A q : \A x \in S : x \in Settled(q) <=> matcher[x] = Holding(q)
      /\ \A q : \A x \in S : x \in Settled(q)' <=> matcher'[x] = Holding(q) /\ x \notin Uncounted(t)'
      /\ \A u \in Holders \ {t} : \A what, q : Facing(u, what, q)' <=> Facing(u, what, q)
      /\ \A q : \A u \in Holders \ {t} : u \in Owing(q)' <=> u \in Owing(q)
      /\ \A q : t \notin Owing(q) /\ ~Facing(t, "delete", q)
  <2>1. Free(t, S) /\ Made \subseteq Made' /\ \A x \in Objects \ S : matcher'[x] = matcher[x]
    BY <1>1, <1>4
  <2>2. QED
    BY <1>2, <1>7, <2>1, Begun
<1>9. \A q : Owing(q)' = Owing(q)
  <2> TAKE q
  <2>1. Owing(q) \subseteq Holders /\ Owing(q)' \subseteq Holders /\ t \notin Owing(q)'
    BY <1>7 DEF Owing
  <2>2. \A u \in Holders : u \in Owing(q)' <=> u \in Owing(q)
    BY <1>8, <2>1
  <2>3. QED
    BY <2>1, <2>2
<1>10. /\ payload'[p].live /\ payload'[p].ref = 1 /\ payload'[p].value = inner
       /\ \A q \in Made : payload'[q] = payload[q]
  BY <1>1, <1>4
<1>11. /\ \A q : InsideOf(q)' = IF inner = Holding(q) THEN InsideOf(q) \cup {p} ELSE InsideOf(q)
       /\ \A q : p \notin InsideOf(q)
  BY <1>4, <1>10 DEF InsideOf
<1>12. \A q : Settled(q) \subseteq Objects /\ Settled(q)' \subseteq Objects
  BY DEF Settled, HeldBy
\* Of the payloads that were there, one at most loses a holder and gets into another.
<1>13. ASSUME NEW q \in Made
       PROVE  \/ inner # Holding(q) /\ Settled(q)' = Settled(q)
              \/ inner = Holding(q) /\ \E x \in Settled(q) : Settled(q)' = Settled(q) \ {x}
  <2>1. q # p /\ Holding(p) # Holding(q) /\ Absent # Holding(q) /\ Null # Holding(q)
    BY <1>4, HoldingFacts
  <2>2. m \notin Settled(q) /\ m \notin Settled(q)'
    BY <1>1, <1>8, <2>1
  <2>3. CASE S = {m} /\ inner = Null
    <3>1. \A x \in Objects : x \in Settled(q)' <=> x \in Settled(q)
      BY <1>8, <2>2, <2>3
    <3>2. QED
      BY <1>12, <2>1, <2>3, <3>1
  <2>4. ASSUME NEW other \in Objects \ {m}, S = {m, other}, inner = matcher[other], matcher'[other] = Null
        PROVE  \/ inner # Holding(q) /\ Settled(q)' = Settled(q)
               \/ inner = Holding(q) /\ \E x \in Settled(q) : Settled(q)' = Settled(q) \ {x}
    <3>1. other \notin Settled(q)' /\ (other \in Settled(q) <=> inner = Holding(q))
      BY <1>8, <2>1, <2>4
    <3>2. \A x \in Objects \ {other} : x \in Settled(q)' <=> x \in Settled(q)
      BY <1>8, <2>2, <2>4
    <3>3. CASE inner # Holding(q)
      <4>1. Settled(q)' = Settled(q)
        BY <1>12, <3>1, <3>2, <3>3
      <4>2. QED
        BY <3>3, <4>1
    <3>4. CASE inner = Holding(q)
      <4>1. Settled(q)' = Settled(q) \ {other} /\ other \in Settled(q)
        BY <1>12, <3>1, <3>2, <3>4
      <4>2. QED
        BY <3>4, <4>1
    <3>5. QED
      BY <3>3, <3>4
  <2>5. QED
    BY <1>1, <2>3, <2>4
<1>14. Settled(p)' = {m} /\ InsideOf(p)' = {} /\ Owing(p)' = {}
  <2>1. /\ Settled(p) = {} /\ InsideOf(p) = {} /\ Owing(p) = {} /\ inner # Holding(p)
    BY <1>1, <1>4, NotMade, HoldingFacts DEF Kept
  <2>2. m \in Settled(p)'
    <3>1. m \in S /\ matcher'[m] = Holding(p) /\ m \notin Uncounted(t)'
      BY <1>1, <1>7
    <3>2. \A x \in S : x \in Settled(p)' <=> matcher'[x] = Holding(p) /\ x \notin Uncounted(t)'
      BY <1>8
    <3>3. QED
      BY <3>1, <3>2
  <2>3. \A x \in Objects \ {m} : x \notin Settled(p)'
    <3>1. \A x \in Objects \ S : x \notin Settled(p)'
      <4>1. \A x \in Objects \ S : x \in Settled(p)' <=> x \in Settled(p)
        BY <1>8
      <4>2. QED
        BY <2>1, <4>1
    <3>2. \A x \in S \ {m} : matcher'[x] = Null
      BY <1>1
    <3>3. \A x \in S \ {m} : x \notin Settled(p)'
      BY <1>8, <3>2, HoldingFacts
    <3>4. QED
      BY <3>1, <3>3
  <2>4. QED
    <3>1. Settled(p)' \subseteq Objects
      BY <1>12
    <3>2. Settled(p)' = {m}
      BY <2>2, <2>3, <3>1
    <3>3. InsideOf(p)' = {} /\ Owing(p)' = {}
      BY <1>9, <1>11, <2>1
    <3>4. QED
      BY <3>2, <3>3
<1>15. Counts'
  <2>1. ASSUME NEW q \in Made
        PROVE  payload'[q].ref = Cardinality(Settled(q)') + Cardinality(InsideOf(q)') + Cardinality(Owing(q)')
    <3>1. payload'[q].ref = payload[q].ref
      BY <1>10
    <3>2. CASE inner # Holding(q)
      BY <1>9, <1>11, <1>13, <3>1, <3>2 DEF MatInv, Counts
    <3>3. CASE inner = Holding(q)
      <4>1. /\ Cardinality(Settled(q)) \in Nat /\ Cardinality(InsideOf(q)) \in Nat
            /\ Cardinality(Owing(q)) \in Nat
            /\ payload[q].ref = Cardinality(Settled(q)) + Cardinality(InsideOf(q)) + Cardinality(Owing(q))
            /\ IsFiniteSet(InsideOf(q)) /\ IsFiniteSet(Settled(q))
        BY ThreeCounts
      <4>2. PICK x \in Settled(q) : Settled(q)' = Settled(q) \ {x}
        BY <1>13, <3>3
      <4>3. /\ Cardinality(InsideOf(q) \cup {p}) = Cardinality(InsideOf(q)) + 1
            /\ Cardinality(Settled(q) \ {x}) = Cardinality(Settled(q)) - 1
        BY <1>11, <4>1, <4>2, CountFacts
      <4>4. /\ Cardinality(Settled(q)') = Cardinality(Settled(q)) - 1
            /\ Cardinality(InsideOf(q)') = Cardinality(InsideOf(q)) + 1
            /\ Cardinality(Owing(q)') = Cardinality(Owing(q))
        BY <1>9, <1>11, <3>3, <4>2, <4>3
      <4>5. QED
        BY <3>1, <4>1, <4>4
    <3>4. QED
      BY <3>2, <3>3
  <2>2. payload'[p].ref = Cardinality(Settled(p)') + Cardinality(InsideOf(p)') + Cardinality(Owing(p)')
    <3>1. Cardinality({m}) = 1 /\ Cardinality({}) = 0
      BY FS_Singleton, FS_EmptySet
    <3>2. QED
      BY <1>10, <1>14, <3>1
  <2>3. QED
    <3>1. \A q \in Made \cup {p} :
            payload'[q].ref = Cardinality(Settled(q)') + Cardinality(InsideOf(q)') + Cardinality(Owing(q)')
      BY <2>1, <2>2
    <3>2. QED
      BY <1>4, <3>1 DEF Counts
<1>16. Lives'
  <2>1. \A u \in Holders : \A q : Facing(u, "delete", q)' <=> Facing(u, "delete", q)
    BY <1>7, <1>8
  <2>2. \A u \in Holders : ~Facing(u, "delete", p)
    BY <1>4, NotMade
  <2>3. ASSUME NEW q \in Made'
        PROVE  /\ payload'[q].live \/ payload'[q].ref = 0
               /\ payload'[q].live /\ payload'[q].ref = 0 <=> \E u \in Holders : Facing(u, "delete", q)'
               /\ \A u, v \in Holders : Facing(u, "delete", q)' /\ Facing(v, "delete", q)' => u = v
    <3>1. CASE q = p
      BY <1>10, <2>1, <2>2, <3>1
    <3>2. CASE q \in Made
      BY <1>10, <2>1, <3>2 DEF MatInv, Lives
    <3>3. QED
      BY <1>4, <3>1, <3>2
  <2>4. QED
    BY <2>3 DEF Lives
<1>17. QED
  BY <1>6, <1>8, <1>15, <1>16 DEF MatInv

(***************************************************************************)
(* The theorem.                                                             *)
(***************************************************************************)
LEMMA MatInitInv ==
  ASSUME MatInit
  PROVE  MatInv
<1>1. Made = {} /\ {} = 1 .. 0 /\ 0 \in Nat
  BY DEF MatInit, Made
<1>2. MatTyped
  BY <1>1 DEF MatInit, MatTyped
<1>3. Shapes /\ Apart
  BY DEF MatInit, Shapes, Shape, Resting, Apart
<1>4. Counts /\ Lives
  BY <1>1 DEF Counts, Lives
<1>5. QED
  BY <1>2, <1>3, <1>4 DEF MatInv

LEMMA MatStutter ==
  ASSUME MatInv, UNCHANGED matVars
  PROVE  MatInv'
<1>1. matcher' = matcher /\ payload' = payload /\ todo' = todo /\ uses' = uses
  BY DEF matVars
<1>2. Made' = Made /\ Kept' = Kept
  BY <1>1, SamePayloads
<1>3. MatTyped'
  BY <1>1, <1>2 DEF MatInv, MatTyped
<1>4. \A u \in Holders : /\ Shape(u)' <=> Shape(u)
                         /\ Uncounted(u)' = Uncounted(u)
                         /\ \A what, p : Facing(u, what, p)' <=> Facing(u, what, p)
  BY <1>1, <1>2 DEF Shape, Resting, Counting, Replacing, Uncounted, Facing
<1>5. Shapes' /\ Apart'
  BY <1>1, <1>4 DEF MatInv, Shapes, Apart
<1>6. \A p : Settled(p)' = Settled(p) /\ Owing(p)' = Owing(p) /\ InsideOf(p)' = InsideOf(p)
  BY <1>1, <1>2, <1>4 DEF Settled, HeldBy, Owing, InsideOf
<1>7. Counts'
  BY <1>1, <1>2, <1>6 DEF MatInv, Counts
<1>8. Lives'
  BY <1>1, <1>4, LivesKept DEF MatInv
<1>9. QED
  BY <1>3, <1>5, <1>7, <1>8 DEF MatInv

LEMMA MatNextInv ==
  ASSUME MatInv, [MatNext]_matVars
  PROVE  MatInv'
<1>1. ASSUME NEW t \in Holders, Ref(t) \/ Unref(t) \/ SharedDestroy(t) \/ Take(t) \/ Gone(t)
      PROVE  MatInv'
  BY <1>1, RefActionStep, UnrefStep, SharedDestroyStep, TakeStep, GoneStep
<1>2. ASSUME NEW t \in Holders, NEW m \in Objects, Construct(t, m) \/ InitShared(t, m) \/ Destruct(t, m)
      PROVE  MatInv'
  BY <1>2, ConstructStep, InitSharedStep, DestructStep
<1>3. ASSUME NEW t \in Holders, NEW m \in Objects, NEW other \in Objects,
             Copy(t, m, other) \/ Move(t, m, other) \/ \E kind \in {"copy", "move"} : Assign(t, m, other, kind)
      PROVE  MatInv'
  BY <1>3, CopyStep, MoveStep, AssignStep
<1>4. QED
  BY <1>1, <1>2, <1>3, MatStutter DEF MatNext

LEMMA MatInvariant == MatSpec => []MatInv
<1>1. MatInit => MatInv
  BY MatInitInv
<1>2. MatInv /\ [MatNext]_matVars => MatInv'
  BY MatNextInv
<1>3. QED
  BY <1>1, <1>2, PTL DEF MatSpec

\* Whatever the threads do with their matchers, none uses, counts or deletes a payload
\* that was deleted; a matcher at rest can be asked to match; and when all threads are
\* at rest a payload exists exactly as long as somebody holds it, and its count is the
\* number of those who do.
THEOREM MatchersSafe == MatSpec => []MatchersAlive
<1>1. ASSUME MatInv
      PROVE  MatchersAlive
  <2>1. ASSUME NEW t \in Holders, NEW k \in 1 .. 4, k \in DOMAIN todo[t],
               todo[t][k][1] \in {"Ref", "Unref", "delete"}
        PROVE  payload[todo[t][k][2]].live
    <3>1. CASE Resting(t)
      BY <2>1, <3>1 DEF Resting
    <3>2. CASE \E p \in Made, m, o \in Objects : Counting(t, p, m, o)
      <4>1. PICK p \in Made, m \in Objects, o \in Objects : Counting(t, p, m, o)
        BY <3>2
      <4>2. k = 1 /\ todo[t][k][2] = p
        BY <2>1, <4>1 DEF Counting
      <4>3. t \in Owing(p)
        BY <4>1, RefStep DEF Counting, Facing, Owing
      <4>4. QED
        BY <1>1, <4>2, <4>3, ThreeCounts
    <3>3. CASE \E kind \in LastKinds, m, o \in Objects : Replacing(t, kind, m, o)
      <4>1. PICK kind \in LastKinds, m \in Objects, o \in Objects : Replacing(t, kind, m, o)
        BY <3>3
      <4> DEFINE last == LastStep(kind, m, o)
      <4>2. last[1] \notin {"Ref", "Unref", "delete"}
        BY DEF LastStep, LastKinds
      <4>3. todo[t] # << last >>
        <5> HIDE DEF last
        <5>1. QED
          BY <2>1, <4>2
      <4>4. PICK p \in Made, what \in Letting : todo[t] = << <<what, p>>, last >>
        BY <4>1, <4>3 DEF Replacing
      <4>5. k = 1 /\ todo[t][k][2] = p
        <5> HIDE DEF last
        <5>1. QED
          BY <2>1, <4>2, <4>4
      <4>6. Facing(t, what, p)
        BY <4>4, LettingStep DEF Facing
      <4>7. payload[p].live
        <5>1. CASE what = "Unref"
          <6>1. t \in Owing(p)
            BY <4>6, <5>1 DEF Owing
          <6>2. QED
            BY <1>1, <6>1, ThreeCounts
        <5>2. CASE what = "delete"
          BY <1>1, <4>6, <5>2 DEF MatInv, Lives
        <5>3. QED
          BY <5>1, <5>2 DEF Letting
      <4>8. QED
        BY <4>5, <4>7
    <3>4. QED
      BY <1>1, <3>1, <3>2, <3>3 DEF MatInv, Shapes, Shape
  <2>2. \A u \in Holders : Uncounted(u) \subseteq uses[u]
    <3>1. ASSUME NEW u \in Holders PROVE UncountedBy(todo[u], uses[u]) \subseteq uses[u]
      <4>1. \/ todo[u] = <<>>
            \/ \E p : todo[u] = << <<"Ref", p>> >>
            \/ \E kind \in LastKinds, m \in uses[u] : \E o :
                 \/ todo[u] = << LastStep(kind, m, o) >>
                 \/ \E p : \E what \in Letting : todo[u] = << <<what, p>>, LastStep(kind, m, o) >>
        BY <1>1 DEF MatInv, Shapes, Shape, Resting, Counting, Replacing
      <4>2. QED
        BY <4>1, UncountedOwn
    <3>2. QED
      BY <3>1 DEF Uncounted
  <2>3. ASSUME NEW m \in Objects, IsShared(matcher[m]), ~InUse(m)
        PROVE  payload[matcher[m].shared].live
    <3>1. PICK p \in Made : matcher[m] = Holding(p) /\ matcher[m].shared = p
      BY <1>1, <2>3, SharedFacts DEF MatInv, MatTyped
    <3>2. m \in Settled(p)
      BY <2>2, <2>3, <3>1 DEF InUse, Settled, HeldBy
    <3>3. QED
      BY <1>1, <3>1, <3>2, ThreeCounts
  <2>4. ASSUME \A t \in Holders : todo[t] = <<>>, NEW p \in Made
        PROVE  /\ payload[p].ref = Cardinality(HeldBy(p)) + Cardinality(InsideOf(p))
               /\ payload[p].live = (payload[p].ref > 0)
    <3>1. \A t \in Holders : Uncounted(t) = {} /\ \A what, q : ~Facing(t, what, q)
      BY <2>4, NoSteps DEF Uncounted, Facing
    <3>2. Settled(p) = HeldBy(p) /\ Owing(p) = {}
      BY <3>1 DEF Settled, Owing
    <3>3. Cardinality(Owing(p)) = 0
      BY <3>2, FS_EmptySet
    <3>4. payload[p].ref = Cardinality(HeldBy(p)) + Cardinality(InsideOf(p))
      <4>1. /\ Cardinality(Settled(p)) \in Nat /\ Cardinality(InsideOf(p)) \in Nat
            /\ payload[p].ref = Cardinality(Settled(p)) + Cardinality(InsideOf(p)) + Cardinality(Owing(p))
        BY <1>1, ThreeCounts
      <4>2. QED
        BY <3>2, <3>3, <4>1
    <3>5. payload[p].ref \in Nat /\ payload[p].live \in BOOLEAN
      BY <1>1 DEF MatInv, MatTyped
    <3>6. payload[p].live <=> payload[p].ref # 0
      BY <1>1, <3>1 DEF MatInv, Lives
    <3>7. QED
      BY <3>4, <3>5, <3>6
  <2>5. QED
    BY <2>1, <2>3, <2>4 DEF MatchersAlive
<1>2. QED
  BY <1>1, MatInvariant, PTL
=============================================================================

------------------------------ MODULE Console ------------------------------
(***************************************************************************)
(* What the printers on the console and the streaming listener (gtest.cc,   *)
(* gtest-internal-inl.h) write of an iteration: the lines are tuples, made  *)
(* of the events that the listeners hear and, at the end, of the state of   *)
(* TestRun.  Times, colours, places and messages are left out.  The         *)
(* printers hear of an end after the listeners of the program: a result is  *)
(* printed with what these add to it.                                       *)
(***************************************************************************)
EXTENDS RunReport

VARIABLE events   \* what the listeners heard in this iteration

(***************************************************************************)
(* The events of a step.                                                    *)
(***************************************************************************)
TestVerdict(r) == IF Failed(r) THEN "FAILED" ELSE IF Skipped(r) THEN "SKIPPED" ELSE "OK"

Told(what, name, how) == [on |-> what, of |-> name, is |-> how]

\* TestInfo::Skip, for the tests of a suite from a position on.
SkipTests(s, from) ==
  LET rest == SelectSeq(SubSeq(order.tests[s], from, Len(order.tests[s])), LAMBDA t : t \in selected)
  IN  FlattenSeq([k \in DOMAIN rest |->
        <<Told("TestStart", rest[k], "none"), Told("TestEnd", rest[k], "SKIPPED")>>])

\* TestSuite::Skip, for the suites from a position on.
SkipSuites(from) ==
  LET rest == SelectSeq(SubSeq(order.suites, from, Len(order.suites)), LAMBDA s : Selected(s) # {})
  IN  FlattenSeq([k \in DOMAIN rest |->
        <<Told("SuiteStart", rest[k], "none")>> \o SkipTests(rest[k], 1)
          \o <<Told("SuiteEnd", rest[k], "passed")>>])

\* What a test that does not run is told of.
NotRun(t) == IF t \in Disabled /\ t \in flags.matching THEN <<Told("TestDisabled", t, "none")>> ELSE <<>>

Heard ==
  CASE at = "decide" /\ ~IsSkipped /\ HasFatalFailure -> SkipSuites(1)
    [] at = "suite" /\ Selected(Suite) # {} -> <<Told("SuiteStart", Suite, "none")>>
    [] at = "skip_all" /\ Failed(suite_result[Suite]) -> SkipTests(Suite, 1)
    [] at = "test" -> IF Test \in selected THEN <<Told("TestStart", Test, "none")>> ELSE NotRun(Test)
    [] at = "test_end" ->
         <<Told("TestEnd", Test, TestVerdict(result[Test]))>>
           \o (IF flags.fail_fast /\ Failed(result[Test]) THEN SkipTests(Suite, test + 1) ELSE <<>>)
    [] at = "suite_end" ->
         <<Told("SuiteEnd", Suite, IF SuiteFailed(Suite) THEN "failed" ELSE "passed")>>
           \o (IF SuiteStops THEN SkipSuites(suite + 1) ELSE <<>>)
    [] OTHER -> <<>>

ConsoleInit == Init /\ events = <<>>

\* The program ends here, or a listener has its say and the run stays.
NothingHeard == at' = "ended" \/ (at' = at /\ at \in ListenerPoints)

ConsoleNext ==
  /\ Next
  /\ events' = IF at' \in {"iterate", "ended"} THEN <<>>
               ELSE IF NothingHeard THEN events ELSE events \o Heard

(***************************************************************************)
(* PrettyUnitTestResultPrinter.                                             *)
(***************************************************************************)
test_suite_to_run_count == Cardinality({s \in ToSet(test_suites) : Selected(s) # {}})

\* Fault: whatever did not fail is a success.
NotFailed(s) == Cardinality({t \in Selected(s) : ~Failed(result[t])})
successful_test_count(s) == Cardinality({t \in Selected(s) : TestVerdict(result[t]) = "OK"})

Line(condition, line) == IF condition THEN <<line>> ELSE <<>>

OnTestIterationStart ==
  Line(flags.repeat # 1, <<"Repeating all tests", iteration + 1>>)
    \o Line(flags.matching # Tests, <<"Note: filter", flags.matching>>)
    \o Line(ShouldShard(flags) = "yes", <<"Note: shard", flags.index + 1, flags.total>>)
    \o Line(flags.shuffle, <<"Note: seed", seed>>)
    \o << <<"Running", SumOverTestSuiteList(test_to_run_count), test_suite_to_run_count>> >>

OnTestCaseStart(s) == <<"begin", test_to_run_count(s), s>>
OnTestStart(t) == <<"RUN", t>>
OnTestDisabled(t) == <<"DISABLED", t>>
OnTestEnd(t, verdict) == <<verdict, t>>
OnTestCaseEnd(s) == <<"end", test_to_run_count(s), s>>

Pretty(e) ==
  CASE e.on = "SuiteStart" -> OnTestCaseStart(e.of) [] e.on = "SuiteEnd" -> OnTestCaseEnd(e.of)
    [] e.on = "TestStart" -> OnTestStart(e.of) [] e.on = "TestEnd" -> OnTestEnd(e.of, e.is)
    [] e.on = "TestDisabled" -> OnTestDisabled(e.of)

\* All tests as the printers list them.
Ordered == FoldLeft(LAMBDA all, s : all \o order.tests[s], <<>>, SuiteList)

Listed(verdict) ==
  LET those == SelectSeq(Ordered, LAMBDA t : t \in selected /\ TestVerdict(result[t]) = verdict)
  IN  [k \in DOMAIN those |-> <<verdict, those[k]>>]

PrintFailedTests ==
  << <<"failed, listed below", SumOverTestSuiteList(failed_test_count)>> >> \o Listed("FAILED")

PrintFailedTestSuites ==
  LET those == SelectSeq(SuiteList, LAMBDA s : Selected(s) # {} /\ Failed(suite_result[s]))
  IN  [k \in DOMAIN those |-> <<"SetUpTestSuite or TearDownTestSuite", those[k]>>]

PrintSkippedTests == Listed("SKIPPED")

\* The lines that the brief printer ends with, too.
Totals ==
  << <<"ran", SumOverTestSuiteList(test_to_run_count), test_suite_to_run_count>>,
     <<"passed", SumOverTestSuiteList(successful_test_count)>> >>

DisabledNote ==
  LET disabled == SumOverTestSuiteList(reportable_disabled_test_count)
  IN  Line(disabled > 0 /\ ~flags.also_run_disabled, <<"YOU HAVE DISABLED TESTS", disabled>>)

OnTestIterationEnd ==
  LET skipped == SumOverTestSuiteList(skipped_test_count)
  IN  Totals
        \o Line(skipped > 0, <<"skipped, listed below", skipped>>) \o PrintSkippedTests
        \o (IF Passed THEN <<>> ELSE PrintFailedTests \o PrintFailedTestSuites)
        \o DisabledNote

(***************************************************************************)
(* BriefUnitTestResultPrinter: no test but one that failed has a line.      *)
(***************************************************************************)
BriefOnTestEnd(e) ==
  Line(e.on = "TestEnd" /\ e.is = "FAILED", <<e.is, e.of>>)

BriefOnTestIterationEnd ==
  LET skipped == SumOverTestSuiteList(skipped_test_count)
  IN  Totals \o Line(skipped > 0, <<"skipped", skipped>>) \o DisabledNote

(***************************************************************************)
(* StreamingListener: a line for each event but that of a disabled test.    *)
(***************************************************************************)
StreamOnTestIterationStart == <<"TestIterationStart", iteration>>
StreamOnTestIterationEnd == <<"TestIterationEnd", Passed>>

Streamed(e) ==
  CASE e.on = "SuiteStart" -> << <<"TestCaseStart", e.of>> >>
    [] e.on = "SuiteEnd" -> << <<"TestCaseEnd", e.is = "passed">> >>
    [] e.on = "TestStart" -> << <<"TestStart", e.of>> >>
    [] e.on = "TestEnd" -> << <<"TestEnd", e.is = "OK">> >>
    [] e.on = "TestDisabled" -> <<>>

(***************************************************************************)
(* Properties.                                                              *)
(***************************************************************************)
Those(lines, words) == SelectSeq(lines, LAMBDA line : line[1] \in words)
Verdicts == {"OK", "SKIPPED", "FAILED"}

\* Three readers of an iteration are told the same, and what the exit status
\* says of it.  On the console, each test that is announced has its verdict
\* behind it and lies between the lines of its suite, as many as its headline
\* promises; the summary lists the tests that were seen to fail or to be
\* skipped, those of a suite in the order in which they were seen, and its
\* numbers add up; there is a list of failures if the program is to fail.  The brief printer tells of
\* the same failures, and a client of the stream that looks at the suites sees
\* the iteration pass or fail but for failures outside of all suites.  When the
\* environments skip the program, its tests are counted as passed.
TranscriptTells ==
  at = "iteration_end" /\ "skip" \notin ad_hoc =>
    LET lines   == [k \in DOMAIN events |-> Pretty(events[k])]
        seen(v) == Those(lines, {v})
        stream  == FlattenSeq([k \in DOMAIN events |-> Streamed(events[k])])
        brief   == FlattenSeq([k \in DOMAIN events |-> BriefOnTestEnd(events[k])])
        said(w) == {line[2] : line \in {l \in ToSet(OnTestIterationEnd) : l[1] = w}}
        end(k)  == CHOOSE e \in DOMAIN lines : /\ e > k /\ lines[e][1] = "end"
                                              /\ \A j \in k .. e - 1 : lines[j][1] # "end"
    IN  /\ \A k \in DOMAIN lines : lines[k][1] = "begin" =>
             LET runs == Those(SubSeq(lines, k, end(k)), {"RUN"})
             IN  /\ Tail(lines[k]) = Tail(lines[end(k)]) /\ lines[k][2] = Len(runs)
                 /\ \A j \in DOMAIN runs : SuiteOf(runs[j][2]) = lines[k][3]
        /\ \A k \in DOMAIN lines : lines[k][1] = "RUN" =>
             lines[k + 1] \in Verdicts \X {lines[k][2]}
        /\ Len(seen("RUN")) = Last(OnTestIterationStart)[2]
        /\ said("ran") = {Len(seen("RUN"))} /\ said("passed") = {Len(seen("OK"))}
        /\ \A s \in ToSet(test_suites) :
             LET own(list) == SelectSeq(list, LAMBDA line : SuiteOf(line[2]) = s)
             IN  /\ own(seen("SKIPPED")) = own(PrintSkippedTests)
                 /\ own(seen("FAILED")) = own(Those(OnTestIterationEnd, {"FAILED"}))
        /\ brief = seen("FAILED")
        /\ said("skipped, listed below") \subseteq {Len(seen("SKIPPED"))}
        /\ Passed = (said("failed, listed below") = {})
        /\ said("failed, listed below") \subseteq {Len(seen("FAILED"))}
        /\ StreamOnTestIterationEnd[2] =
             (~Failed(ad_hoc) /\ \A k \in DOMAIN stream : stream[k] # <<"TestCaseEnd", FALSE>>)
        /\ Len(Those(stream, {"TestStart"})) = Len(Those(stream, {"TestEnd"}))
        /\ Len(SelectSeq(stream, LAMBDA l : l = <<"TestEnd", TRUE>>)) = Len(seen("OK"))

\* What is written of an iteration, in a report and as it goes.
WritesTell == ReportTells /\ TranscriptTells
=============================================================================

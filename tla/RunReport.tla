----------------------------- MODULE RunReport -----------------------------
(***************************************************************************)
(* What the XML and the JSON report of an iteration (gtest.cc) say of it,   *)
(* and what --gtest_list_tests lists: trees of records, made of the state   *)
(* of TestRun when the generator hears of the end of the iteration.  Times, *)
(* places and messages are left out, and the parts of a test are told apart *)
(* by their kinds.                                                          *)
(***************************************************************************)
EXTENDS TestRun

is_reportable(f, t) == t \in f.matching /\ (ShouldShard(f) = "yes" => ShouldRunTestOnShard(f, t))

(***************************************************************************)
(* The counts of a suite and their sums.                                    *)
(***************************************************************************)
TestsOf(s) == ToSet(test_info_list[s])
reportable_test_count(s) == Cardinality({t \in TestsOf(s) : is_reportable(flags, t)})
reportable_disabled_test_count(s) ==
  Cardinality({t \in TestsOf(s) \cap Disabled : is_reportable(flags, t)})
failed_test_count(s) == Cardinality({t \in Selected(s) : Failed(result[t])})
skipped_test_count(s) == Cardinality({t \in Selected(s) : Skipped(result[t])})
test_to_run_count(s) == Cardinality(Selected(s))

\* The const accessor looks the index of the i-th suite up and uses i: whoever
\* lists the suites does so in the order of registration, and the tests of each
\* one in the order of this iteration.
SuiteList == test_suites

SumOverTestSuiteList(count(_)) == FoldLeft(LAMBDA sum, s : sum + count(s), 0, test_suites)

\* The counts that both reports of the program begin with.
UnitTestCounts ==
  [tests |-> SumOverTestSuiteList(reportable_test_count),
   failures |-> SumOverTestSuiteList(failed_test_count),
   disabled |-> SumOverTestSuiteList(reportable_disabled_test_count)]

(***************************************************************************)
(* XML.                                                                     *)
(***************************************************************************)
\* A test that is disabled or filtered out did not run.
Status(t) == IF t \in selected THEN "run" ELSE "notrun"
ResultOf(t) ==
  IF t \notin selected THEN "suppressed" ELSE IF Skipped(result[t]) THEN "skipped" ELSE "completed"

OutputXmlTestResult(r) == [failures |-> r \cap Failure, skips |-> r \cap {"skip"}]

OutputXmlTestInfo(t) ==
  [name |-> t, status |-> Status(t), result |-> ResultOf(t), parts |-> OutputXmlTestResult(result[t])]

\* The tests of a suite in the order of this iteration.
Reported(s) == SelectSeq(order.tests[s], LAMBDA t : is_reportable(flags, t))

PrintXmlTestSuite(s) ==
  [name |-> s, tests |-> reportable_test_count(s), failures |-> failed_test_count(s),
   disabled |-> reportable_disabled_test_count(s), skipped |-> skipped_test_count(s),
   cases |-> [k \in DOMAIN Reported(s) |-> OutputXmlTestInfo(Reported(s)[k])]]

\* Failures outside of all suites are a suite of their own.
OutputXmlTestSuiteForTestResult(r) ==
  [name |-> "NonTestSuiteFailure", tests |-> 1, failures |-> 1, disabled |-> 0, skipped |-> 0,
   cases |-> << [name |-> "", status |-> "run", result |-> "completed",
                 parts |-> OutputXmlTestResult(r)] >>]

\* Fault: a suite without a test to run is left out.
WithTestsToRun(s) == test_to_run_count(s) > 0
IsPrinted(s) == reportable_test_count(s) > 0

Printed == SelectSeq(SuiteList, IsPrinted)

PrintXmlUnitTest ==
  [counts |-> UnitTestCounts,
   random_seed |-> IF flags.shuffle THEN seed ELSE 0,
   suites |-> [k \in DOMAIN Printed |-> PrintXmlTestSuite(Printed[k])]
                \o (IF Failed(ad_hoc) THEN <<OutputXmlTestSuiteForTestResult(ad_hoc)>> ELSE <<>>)]

(***************************************************************************)
(* JSON: a test has no skipped parts, and a suite does not count them.      *)
(***************************************************************************)
OutputJsonTestResult(r) == [failures |-> r \cap Failure]

OutputJsonTestInfo(t) ==
  [name |-> t, status |-> Status(t), result |-> ResultOf(t), parts |-> OutputJsonTestResult(result[t])]

PrintJsonTestSuite(s) ==
  [name |-> s, tests |-> reportable_test_count(s), failures |-> failed_test_count(s),
   disabled |-> reportable_disabled_test_count(s),
   cases |-> [k \in DOMAIN Reported(s) |-> OutputJsonTestInfo(Reported(s)[k])]]

OutputJsonTestSuiteForTestResult(r) ==
  [name |-> "NonTestSuiteFailure", tests |-> 1, failures |-> 1, disabled |-> 0, skipped |-> 0,
   cases |-> << [name |-> "", status |-> "run", result |-> "completed",
                 parts |-> OutputJsonTestResult(r)] >>]

PrintJsonUnitTest ==
  [counts |-> UnitTestCounts,
   random_seed |-> IF flags.shuffle THEN seed ELSE 0,
   suites |-> [k \in DOMAIN Printed |-> PrintJsonTestSuite(Printed[k])]
                \o (IF Failed(ad_hoc) THEN <<OutputJsonTestSuiteForTestResult(ad_hoc)>> ELSE <<>>)]

(***************************************************************************)
(* Lists of tests: the names on the standard output, and the file.          *)
(***************************************************************************)
ListTestsMatchingFilter(f) == {t \in Tests : t \in f.matching}

\* The file has every suite in it, but only the tests of this shard.  Its
\* headline counts the tests of the program.
ListOfSuites(f) ==
  [k \in DOMAIN test_suites |->
     [name |-> test_suites[k],
      cases |-> SelectSeq(test_info_list[test_suites[k]], LAMBDA t : is_reportable(f, t))]]

PrintXmlTestsList(f) == [tests |-> Cardinality(Tests), suites |-> ListOfSuites(f)]
PrintJsonTestList(f) == [tests |-> Cardinality(Tests), suites |-> ListOfSuites(f)]

(***************************************************************************)
(* Properties.                                                              *)
(***************************************************************************)
Cases(report) == FoldLeft(LAMBDA all, suite_ : all \o suite_.cases, <<>>, report.suites)
Count(seq, Of(_)) == Cardinality({k \in DOMAIN seq : Of(seq[k])})

\* The counts of a suite are those of its cases, whatever was disabled, ...
SuiteAddsUp(r) ==
  /\ r.tests = Len(r.cases)
  /\ r.failures = Count(r.cases, LAMBDA c : c.parts.failures # {})
  /\ r.skipped = Count(r.cases, LAMBDA c : c.result = "skipped")
  /\ r.skipped = Count(r.cases, LAMBDA c : c.parts.skips # {} /\ c.parts.failures = {})

\* ... and a reader of a report who adds up its tests, or counts the failures in
\* it, sees what the exit status says; both reports tell of the same tests, all
\* that ran, those of a suite in the order they ran; and the shards' reports
\* and lists divide the tests of the filter, the disabled ones among them.
\* What fails in the set-up or the tear-down of a suite is in no report.
ReportTells ==
  at = "iteration_end" =>
    LET xml   == PrintXmlUnitTest
        json  == PrintJsonUnitTest
        cases == Cases(xml)
        names == [k \in DOMAIN cases |-> cases[k].name]
        own   == IF Failed(ad_hoc) THEN 1 ELSE 0
    IN  /\ \A k \in DOMAIN xml.suites : SuiteAddsUp(xml.suites[k])
        /\ xml.counts.tests = Len(cases) - own
        /\ xml.counts.failures = Count(cases, LAMBDA c : c.parts.failures # {}) - own
        /\ Passed = /\ \A k \in DOMAIN cases : cases[k].parts.failures = {}
                    /\ \A s \in ToSet(test_suites) : Selected(s) # {} => ~Failed(suite_result[s])
        /\ \A s \in ToSet(test_suites) :
             SelectSeq(ran, LAMBDA t : SuiteOf(t) = s)
               = SelectSeq(names, LAMBDA t : t \in ToSet(ran) /\ SuiteOf(t) = s)
        /\ selected = {c.name : c \in {d \in ToSet(cases) : d.status = "run"}} \ {""}
        /\ [k \in DOMAIN cases |-> <<cases[k].name, cases[k].result, cases[k].parts.failures>>]
             = [k \in DOMAIN Cases(json) |->
                  <<Cases(json)[k].name, Cases(json)[k].result, Cases(json)[k].parts.failures>>]
        /\ ShouldShard(flags) = "yes" => \A t \in ListTestsMatchingFilter(flags) :
             Cardinality({i \in 0 .. flags.total - 1 :
               LET f == [flags EXCEPT !.index = i]
               IN  t \in ToSet(Cases(PrintXmlTestsList(f))) \cap ToSet(Cases(PrintJsonTestList(f)))}) = 1
=============================================================================

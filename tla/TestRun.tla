------------------------------ MODULE TestRun ------------------------------
(***************************************************************************)
(* One test program: UnitTest::Run and what it calls (gtest.cc), from the   *)
(* registered tests to the exit status.  A step is what happens between two *)
(* calls of user code.  User code is an environment: what one of its calls  *)
(* does to the framework is an Outcome.                                     *)
(***************************************************************************)
EXTENDS Integers, FiniteSets, SequencesExt

CONSTANTS
  Registered,   \* the TESTs in order of registration: <<suite, test, fixture>>
  DeathSuites,  \* suites whose name matches *DeathTest or *DeathTest/*
  Disabled,     \* tests whose name, or whose suite's, matches DISABLED_*
  Environments, \* number of global environments
  Flags,        \* command lines: what the flags and the environment may be
  kMaxRandomSeed,
  Draws,        \* what a reseeded generator may draw first, before only zeros
  Outcomes,     \* what a call of user code may do, other than nothing
  MaxTrouble    \* bound: calls of user code that do something

None == "none"

(***************************************************************************)
(* Registration.  AddTestInfo finds the suite of the test or creates it: a  *)
(* death test suite behind the last one, any other at the end.              *)
(***************************************************************************)
\* Fault: every suite is appended.
AppendSuite(s, suites) == Append(suites, s)

NewSuite(s, suites) ==
  IF s \in DeathSuites
  THEN InsertAt(suites, Cardinality(DeathSuites \cap ToSet(suites)) + 1, s)
  ELSE Append(suites, s)

GetTestSuite(suites, info) ==
  IF info[1] \in ToSet(suites) THEN suites ELSE NewSuite(info[1], suites)

test_suites == FoldLeft(GetTestSuite, <<>>, Registered)

\* last_death_test_suite_ + 1
DeathTestSuites == Cardinality(DeathSuites \cap ToSet(test_suites))

test_info_list ==
  [s \in ToSet(test_suites) |->
     FoldLeft(LAMBDA tests, info : IF info[1] = s THEN Append(tests, info[2]) ELSE tests,
              <<>>, Registered)]

Tests == {info[2] : info \in ToSet(Registered)}

\* A name stands for one test, and nullptr for none.
ASSUME RegisteredAssumption ==
  /\ Registered \in Seq(ToSet(Registered))
  /\ \A j, k \in DOMAIN Registered : Registered[j][2] = Registered[k][2] => j = k
  /\ {None, "null"} \cap (Tests \cup {info[1] : info \in ToSet(Registered)}) = {}

Info(t) == CHOOSE info \in ToSet(Registered) : info[2] = t
SuiteOf(t) == Info(t)[1]

\* The first test of a suite determines the fixture class of all.
HasSameFixtureClass(t) == Info(t)[3] = Info(test_info_list[SuiteOf(t)][1])[3]

(***************************************************************************)
(* Selection.                                                               *)
(***************************************************************************)
ASSUME FlagsAssumption ==
  /\ Flags \subseteq
       [help : BOOLEAN, list_tests : BOOLEAN, also_run_disabled : BOOLEAN,
        matching : SUBSET Tests, total : Int, index : Int, bad_status_file : BOOLEAN,
        shuffle : BOOLEAN, random_seed : Nat, repeat : Int, recreate : BOOLEAN,
        fail_fast : BOOLEAN, catch_exceptions : BOOLEAN, throw_on_failure : BOOLEAN,
        exit_file : BOOLEAN, death_child : BOOLEAN]
  /\ Environments \in Nat /\ kMaxRandomSeed \in Nat \ {0}
  /\ Draws # {} /\ Draws \subseteq Seq(Nat)

ShouldShard(f) ==
  IF f.death_child \/ (f.total = -1 /\ f.index = -1) THEN "no"
  ELSE IF f.total = -1 \/ f.index = -1 \/ f.index < 0 \/ f.index >= f.total THEN "exit"
  ELSE IF f.total > 1 THEN "yes" ELSE "no"

\* The tests in the order of FilterTests.
AllTests == FoldLeft(LAMBDA acc, s : acc \o test_info_list[s], <<>>, test_suites)

Runnable(f) == {t \in f.matching : f.also_run_disabled \/ t \notin Disabled}

\* Runnable tests before t: num_runnable_tests when t is looked at.
RunnableBefore(f, t) ==
  {AllTests[k] : k \in {j \in DOMAIN AllTests : j < CHOOSE m \in DOMAIN AllTests : AllTests[m] = t}}
    \cap Runnable(f)

\* Fault: the number is that of the tests selected so far, which stays at zero
\* on every shard but the first, and at one there.
OnShardBySelected(f, t) == RunnableBefore(f, t) = {} /\ f.index = 0

ShouldRunTestOnShard(f, t) == Cardinality(RunnableBefore(f, t)) % f.total = f.index

FilterTests(f) ==
  {t \in Runnable(f) : ShouldShard(f) = "yes" => ShouldRunTestOnShard(f, t)}

(***************************************************************************)
(* The state.                                                               *)
(***************************************************************************)
VARIABLES
  flags,      \* the flags and environment variables of this process
  rnd,        \* what its generator draws, by seed
  at,         \* the call of user code, or the loop head, that comes next
  iteration, env, suite, test,   \* the indices of the loops
  order,      \* test_suite_indices_ and the test_indices_ of each suite
  seed,       \* random_seed_
  current_test_suite, current_test_info,
  result,     \* of each test: the kinds of the parts in its TestResult
  suite_result, ad_hoc,          \* the ad hoc results of suites and program
  selected,   \* the tests that should_run_
  failed,     \* the local variable of RunAllTests
  object,     \* the Test object: None, the test it belongs to, or "null"
  exit,       \* None, or how the process ended
  file,       \* the premature-exit file exists
  trouble,    \* calls of user code so far that did something
  bad,        \* history: a failure was reported while Passed() could still see it
  ran,        \* history: the tests started in this iteration
  open        \* history: what was set up and not torn down

loop == <<iteration, env, suite, test>>
setting == <<flags, rnd, selected>>
results == <<result, suite_result, ad_hoc>>
current == <<current_test_suite, current_test_info>>
history == <<bad, ran, open>>
vars == <<setting, at, loop, order, seed, current, results,
          failed, object, exit, file, trouble, history>>

Registration == [suites |-> test_suites, tests |-> test_info_list]

(***************************************************************************)
(* Shuffling: Fisher-Yates from the end of the range (begin, end], with one *)
(* draw for each width.                                                     *)
(***************************************************************************)
Swap(v, i, j) == [v EXCEPT ![i] = v[j], ![j] = v[i]]

Draw(draws, k) == IF k \in DOMAIN draws THEN draws[k] ELSE 0

ShuffleRange(draws, begin, end, v) ==
  LET width(k) == end - begin + 1 - k
  IN  FoldLeft(LAMBDA w, k : Swap(w, begin + width(k), begin + 1 + (Draw(draws, k) % width(k))),
               v, [k \in 1 .. end - begin - 1 |-> k])

\* The draws that are left when a range of so many elements is shuffled.
Behind(draws, size) == IF size < 2 THEN draws ELSE SubSeq(draws, size, Len(draws))

ShuffleTests(o, draws) ==
  LET size   == Len(o.suites)
      others == Behind(draws, DeathTestSuites)
      each   == Behind(others, size - DeathTestSuites)
      \* the tests of the suites that are looked at before this one
      before(k) == FoldLeft(LAMBDA rest, j : Behind(rest, Len(o.tests[test_suites[j]])),
                            each, [j \in 1 .. k - 1 |-> j])
  IN  [suites |-> ShuffleRange(others, DeathTestSuites, size,
                               ShuffleRange(draws, 0, DeathTestSuites, o.suites)),
       tests  |-> [s \in DOMAIN o.tests |->
                     ShuffleRange(before(CHOOSE k \in 1 .. size : test_suites[k] = s),
                                  0, Len(o.tests[s]), o.tests[s])]]

has_tests_to_run == selected # {}

\* The suite and the test at the loops' positions.
Suite == order.suites[suite]
Test == order.tests[Suite][test]
Selected(s) == {t \in selected : SuiteOf(t) = s}

Severities == {"fatal", "nonfatal", "skip"}   \* what matters of a part
Failure == {"fatal", "nonfatal"}
Failed(r) == r \cap Failure # {}
Skipped(r) == ~Failed(r) /\ "skip" \in r

current_test_result ==
  IF current_test_info # None THEN result[current_test_info]
  ELSE IF current_test_suite # None THEN suite_result[current_test_suite]
  ELSE ad_hoc

HasFatalFailure == "fatal" \in current_test_result
IsSkipped == Skipped(current_test_result)

SuiteFailed(s) == Failed(suite_result[s]) \/ \E t \in Selected(s) : Failed(result[t])
Passed == ~Failed(ad_hoc) /\ \A s \in ToSet(test_suites) : Selected(s) = {} \/ ~SuiteFailed(s)

AddTestPartResults(parts) ==
  /\ result' = IF current_test_info # None
               THEN [result EXCEPT ![current_test_info] = @ \cup parts] ELSE result
  /\ suite_result' = IF current_test_info = None /\ current_test_suite # None
                     THEN [suite_result EXCEPT ![current_test_suite] = @ \cup parts]
                     ELSE suite_result
  /\ ad_hoc' = IF current_test_info = None /\ current_test_suite = None
               THEN ad_hoc \cup parts ELSE ad_hoc

(***************************************************************************)
(* User code.  A call reports parts and then returns, throws, or calls      *)
(* exit(0); "asserts" is the AssertionException that a listener may throw   *)
(* when it is told of a part.                                               *)
(***************************************************************************)
Fine == [parts |-> {}, ends |-> "returns"]
Ways == {"returns", "throws", "asserts", "exits"}

ASSUME OutcomesAssumption == Outcomes \subseteq [parts : SUBSET Severities, ends : Ways]

\* A handler turns a foreign exception into a fatal failure, ...
Recorded(o) ==
  o.parts \cup IF o.ends = "throws" /\ flags.catch_exceptions THEN {"fatal"} ELSE {}

\* ... keeps an AssertionException to itself and lets that of
\* throw_on_failure through.
Uncaught(o) ==
  \/ flags.throw_on_failure /\ Failed(Recorded(o))
  \/ o.ends \in {"throws", "asserts"} /\ ~flags.catch_exceptions

\* The user code that comes next does o.
UserCall(place, o) ==
  /\ at = place
  /\ o = Fine \/ (o \in Outcomes /\ trouble < MaxTrouble)
  /\ trouble' = IF o = Fine THEN trouble ELSE trouble + 1
  /\ AddTestPartResults(Recorded(o))
  /\ bad' = (bad \/ (Failed(Recorded(o)) /\ place # "program_end"))
  /\ UNCHANGED <<setting, iteration, suite, test, order, seed, failed, current, ran>>

End(how) == at' = "ended" /\ exit' = how

\* The process ends in user code, and the premature-exit file stays behind.
Dies(o) ==
  /\ Uncaught(o) \/ o.ends = "exits"
  /\ End(IF Uncaught(o) THEN "abort" ELSE "exit(0)")
  /\ UNCHANGED <<env, object, file, open>>

Returns(o) == ~Uncaught(o) /\ o.ends # "exits"

\* UnitTest::Run returns: to main and from main.
Return(status) == End(status) /\ file' = FALSE

\* No handler but that of UnitTest::Run is around the call.
Escapes(o) ==
  /\ Returns(o) /\ o.ends \in {"throws", "asserts"}
  /\ Return("1")
  /\ UNCHANGED <<env, object, open>>

\* HandleExceptionsInMethodIfSupported: the process survives and goes on.
Handled(o, next) ==
  /\ Returns(o)
  /\ at' = next
  /\ UNCHANGED <<env, exit, file>>

(***************************************************************************)
(* UnitTest::Run and RunAllTests up to the first iteration.                 *)
(***************************************************************************)
GetRandomSeedFromFlag(raw) ==   \* of a flag, or of the time of day
  IF raw = 0 THEN 1 .. kMaxRandomSeed ELSE {((raw - 1) % kMaxRandomSeed) + 1}

\* Fault: there is no end of seeds.
SeedAfter(s) == s + 1

GetNextRandomSeed(s) == IF s + 1 > kMaxRandomSeed THEN 1 ELSE s + 1

repeat == IF flags.death_child THEN 1 ELSE flags.repeat
recreate_environments == flags.recreate \/ repeat < 0

Begin ==
  /\ at = "main"
  /\ IF flags.help THEN Return("0") /\ UNCHANGED seed
     ELSE IF flags.bad_status_file \/ ShouldShard(flags) = "exit"
     THEN /\ End("exit(1)") /\ file' = (flags.exit_file /\ ~flags.death_child)
          /\ UNCHANGED seed
     ELSE IF flags.list_tests THEN Return("0") /\ UNCHANGED seed
     ELSE /\ at' = "iterate" /\ file' = (flags.exit_file /\ ~flags.death_child)
          /\ seed' \in GetRandomSeedFromFlag(flags.random_seed)
          /\ UNCHANGED exit
  /\ selected' = IF at' = "iterate" THEN FilterTests(flags) ELSE {}
  /\ UNCHANGED <<flags, rnd, loop, order, current, results, failed, object, trouble, history>>

\* Assertions of main before RUN_ALL_TESTS, outside of any handler.
MainAsserts ==
  /\ \E o \in Outcomes : o.ends = "returns" /\ Returns(o) /\ UserCall("main", o)
  /\ UNCHANGED <<at, env, object, exit, file, open>>

\* Listeners are told of the start or the end of something.
ListenerPoints == {"env_setup", "decide", "SetUpTestSuite", "constructor", "test_end",
                   "suite_end", "env_teardown", "iteration_end", "program_end"}

Listener ==
  \E place \in ListenerPoints, o \in Outcomes :
    /\ place = "env_setup" => env = 1
    /\ place = "env_teardown" => env = Environments
    /\ UserCall(place, o)
    /\ \/ o.ends = "returns" /\ Returns(o) /\ UNCHANGED <<at, env, object, exit, file, open>>
       \/ Dies(o)
       \/ Escapes(o)

(***************************************************************************)
(* An iteration up to its first suite.                                      *)
(***************************************************************************)
Unchanging == <<setting, trouble, exit, file, bad>>

StartIteration ==
  /\ at = "iterate" /\ iteration # repeat
  /\ result' = [t \in Tests |-> {}]
  /\ suite_result' = [s \in ToSet(test_suites) |-> {}]
  /\ order' = IF has_tests_to_run /\ flags.shuffle THEN ShuffleTests(order, rnd[seed]) ELSE order
  /\ at' = IF ~has_tests_to_run THEN "iteration_end"
           ELSE IF Environments > 0 /\ (iteration = 0 \/ recreate_environments)
           THEN "env_setup" ELSE "decide"
  /\ env' = 1 /\ ran' = <<>>
  /\ UNCHANGED <<Unchanging, iteration, suite, test, seed, current, ad_hoc, failed, object, open>>

SetUpEnvironment ==
  \E o \in {Fine} \cup Outcomes :
    /\ UserCall("env_setup", o)
    /\ \/ Dies(o)
       \/ Escapes(o)
       \/ /\ Returns(o) /\ o.ends = "returns"
          /\ env' = env + 1
          /\ at' = IF env = Environments THEN "decide" ELSE "env_setup"
          /\ open' = Append(open, <<"environment", env>>)
          /\ UNCHANGED <<object, exit, file>>

AfterSuites ==
  IF Environments > 0 /\ (iteration = repeat - 1 \/ recreate_environments)
  THEN at' = "env_teardown" /\ env' = Environments
  ELSE at' = "iteration_end" /\ UNCHANGED env

\* TestSuite::Skip and TestInfo::Skip.
Skip(tests) ==
  result' = [t \in Tests |-> IF t \in tests THEN result[t] \cup {"skip"} ELSE result[t]]

Decide ==
  /\ at = "decide"
  /\ IF IsSkipped THEN AfterSuites /\ UNCHANGED <<suite, result>>
     ELSE IF HasFatalFailure THEN Skip(selected) /\ AfterSuites /\ UNCHANGED suite
     ELSE at' = "suite" /\ suite' = 1 /\ UNCHANGED <<env, result>>
  /\ UNCHANGED <<Unchanging, iteration, test, order, seed, current, suite_result, ad_hoc,
                 failed, object, ran, open>>

(***************************************************************************)
(* TestSuite::Run.                                                          *)
(***************************************************************************)
NextSuite ==
  IF suite < Len(order.suites) THEN at' = "suite" /\ suite' = suite + 1 /\ UNCHANGED env
  ELSE AfterSuites /\ UNCHANGED suite

StartSuite ==
  /\ at = "suite"
  /\ IF Selected(Suite) = {}
     THEN NextSuite /\ UNCHANGED current_test_suite
     ELSE /\ at' = "SetUpTestSuite" /\ current_test_suite' = Suite
          /\ UNCHANGED <<suite, env>>
  /\ UNCHANGED <<Unchanging, iteration, test, order, seed, current_test_info, results,
                 failed, object, ran, open>>

SetUpTestSuite ==
  \E o \in {Fine} \cup Outcomes :
    /\ UserCall("SetUpTestSuite", o)
    /\ \/ Dies(o)
       \/ /\ Handled(o, "skip_all")
          /\ open' = Append(open, <<"suite", Suite>>)
          /\ UNCHANGED object

SkipAllOrNone ==
  /\ at = "skip_all"
  /\ IF Failed(suite_result[Suite])
     THEN Skip(Selected(Suite)) /\ at' = "TearDownTestSuite" /\ UNCHANGED test
     ELSE at' = "test" /\ test' = 1 /\ UNCHANGED result
  /\ UNCHANGED <<Unchanging, iteration, env, suite, order, seed, current, suite_result, ad_hoc,
                 failed, object, ran, open>>

\* The test of this position is done: on to the next one or out of the loop.
NextTest ==
  LET later == {order.tests[Suite][k] : k \in test + 1 .. Len(order.tests[Suite])}
      stop  == flags.fail_fast /\ Failed(result[Test])
  IN  /\ IF stop THEN Skip(later \cap selected) ELSE UNCHANGED result
      /\ IF stop \/ later = {} THEN at' = "TearDownTestSuite" /\ UNCHANGED test
         ELSE at' = "test" /\ test' = test + 1

TearDownTestSuite ==
  \E o \in {Fine} \cup Outcomes :
    /\ UserCall("TearDownTestSuite", o)
    /\ \/ Dies(o)
       \/ /\ Handled(o, "suite_end")
          /\ open' = Front(open)
          /\ UNCHANGED object

\* The tests of the suites behind this one, and, the fault, behind the next.
LaterTestsButOne ==
  {t \in selected : \E k \in suite + 2 .. Len(order.suites) : order.suites[k] = SuiteOf(t)}
LaterTests ==
  {t \in selected : \E k \in suite + 1 .. Len(order.suites) : order.suites[k] = SuiteOf(t)}

\* Fault: only the failures of its tests fail a suite.
StopsByTests == flags.fail_fast /\ \E t \in Selected(Suite) : Failed(result[t])
SuiteStops == flags.fail_fast /\ SuiteFailed(Suite)

EndSuite ==
  /\ at = "suite_end"
  /\ current_test_suite' = None
  /\ IF SuiteStops
     THEN /\ Skip(LaterTests)
          /\ AfterSuites /\ UNCHANGED suite
     ELSE NextSuite /\ UNCHANGED result
  /\ UNCHANGED <<Unchanging, iteration, test, order, seed, current_test_info, suite_result, ad_hoc,
                 failed, object, ran, open>>

(***************************************************************************)
(* TestInfo::Run and Test::Run.                                             *)
(***************************************************************************)
StartTest ==
  /\ at = "test"
  /\ IF Test \notin selected
     THEN NextTest /\ UNCHANGED <<current_test_info, ran>>
     ELSE /\ at' = "constructor" /\ current_test_info' = Test
          /\ ran' = Append(ran, Test)
          /\ UNCHANGED <<test, result>>
  /\ UNCHANGED <<Unchanging, iteration, env, suite, order, seed, current_test_suite,
                 suite_result, ad_hoc, failed, object, open>>

\* A constructor that does not return leaves a null pointer.
Constructor ==
  \E o \in {Fine} \cup Outcomes :
    /\ UserCall("constructor", o)
    /\ \/ Dies(o)
       \/ /\ Handled(o, "run")
          /\ object' = IF o.ends = "returns" THEN Test ELSE "null"
          /\ open' = IF o.ends = "returns" THEN Append(open, <<"object", Test>>) ELSE open

\* Behind the part of Test::Run that ran, if any did.
AfterRun == IF object = "null" THEN "test_end" ELSE "destructor"

\* HasSameFixtureClass fails the test; a call through the null pointer
\* crashes, which is what the processors that the build supports do of it.
RunTest ==
  /\ at = "run"
  /\ LET go == ~HasFatalFailure /\ ~IsSkipped
     IN  CASE ~go -> at' = AfterRun /\ UNCHANGED <<results, exit, bad>>
           [] go /\ ~HasSameFixtureClass(Test) ->
                /\ AddTestPartResults({"nonfatal"}) /\ bad' = TRUE
                /\ IF flags.throw_on_failure THEN End("abort")
                   ELSE at' = AfterRun /\ UNCHANGED exit
           [] go /\ HasSameFixtureClass(Test) /\ object = "null" ->
                End("crash") /\ UNCHANGED <<results, bad>>
           [] OTHER -> at' = "SetUp" /\ UNCHANGED <<results, exit, bad>>
  /\ UNCHANGED <<setting, trouble, file, loop, order, seed, current, failed, object, ran, open>>

\* Fault: there is nothing to tear down when SetUp failed.
NoTearDown == IF "fatal" \in result'[Test] \/ Skipped(result'[Test]) THEN "destructor" ELSE "TestBody"
AfterSetUp == IF "fatal" \in result'[Test] \/ Skipped(result'[Test]) THEN "TearDown" ELSE "TestBody"

SetUp ==
  \E o \in {Fine} \cup Outcomes :
    /\ UserCall("SetUp", o)
    /\ \/ Dies(o)
       \/ /\ Handled(o, AfterSetUp)
          /\ open' = Append(open, <<"SetUp", Test>>)
          /\ UNCHANGED object

TestBody ==
  \E o \in {Fine} \cup Outcomes :
    /\ UserCall("TestBody", o)
    /\ \/ Dies(o)
       \/ Handled(o, "TearDown") /\ UNCHANGED <<object, open>>

TearDown ==
  \E o \in {Fine} \cup Outcomes :
    /\ UserCall("TearDown", o)
    /\ \/ Dies(o)
       \/ Handled(o, "destructor") /\ open' = Front(open) /\ UNCHANGED object

\* No exception leaves a destructor.
Destructor ==
  \E o \in {Fine} \cup Outcomes :
    /\ IF o.ends \in {"throws", "asserts"}
       THEN /\ UserCall("destructor", [o EXCEPT !.ends = "asserts"])
            /\ End("abort") /\ UNCHANGED <<env, object, file, open>>
       ELSE /\ UserCall("destructor", o)
            /\ \/ Dies(o)
               \/ /\ Handled(o, "test_end")
                  /\ object' = None /\ open' = Front(open)

EndTest ==
  /\ at = "test_end"
  /\ current_test_info' = None
  /\ NextTest
  /\ object' = None
  /\ UNCHANGED <<Unchanging, iteration, env, suite, order, seed, current_test_suite,
                 suite_result, ad_hoc, failed, ran, open>>

(***************************************************************************)
(* The rest of the iteration and of the program.                            *)
(***************************************************************************)
TearDownEnvironment ==
  \E o \in {Fine} \cup Outcomes :
    /\ UserCall("env_teardown", o)
    /\ \/ Dies(o)
       \/ Escapes(o)
       \/ /\ Returns(o) /\ o.ends = "returns"
          /\ env' = env - 1
          /\ at' = IF env = 1 THEN "iteration_end" ELSE "env_teardown"
          /\ open' = Front(open)
          /\ UNCHANGED <<object, exit, file>>

\* Fault: each iteration overwrites the verdict of the one before.
VerdictOfLast == ~Passed
Verdict == failed \/ ~Passed

\* Fault: the order of the iteration is kept.
KeepOrder == order
UnshuffleTests == Registration

\* Fault: a failed iteration is not counted.
RetryFailed == IF Passed THEN iteration + 1 ELSE iteration
NextIteration ==   \* bound: of endless iterations, only the first is told apart
  IF repeat < 0 THEN 1 ELSE iteration + 1

EndIteration ==
  /\ at = "iteration_end" /\ at' = "iterate"
  /\ failed' = Verdict
  /\ order' = UnshuffleTests
  /\ seed' = IF flags.shuffle THEN GetNextRandomSeed(seed) ELSE seed
  /\ iteration' = NextIteration
  /\ UNCHANGED <<Unchanging, env, suite, test, current, results, object, ran, open>>

EndProgram ==
  /\ \/ at = "iterate" /\ iteration = repeat /\ at' = "program_end" /\ UNCHANGED <<exit, file>>
     \/ at = "program_end" /\ Return(IF failed THEN "1" ELSE "0")
  /\ UNCHANGED <<setting, loop, order, seed, current, results, failed, object, trouble, history>>

Stopped == at = "ended" /\ UNCHANGED vars

Init ==
  /\ flags \in Flags
  /\ rnd \in IF flags.shuffle THEN [1 .. kMaxRandomSeed -> Draws]
             ELSE {[s \in 1 .. kMaxRandomSeed |-> CHOOSE d \in Draws : TRUE]}
  /\ at = "main" /\ iteration = 0 /\ env = 1 /\ suite = 1 /\ test = 1
  /\ order = Registration /\ seed = 1
  /\ current_test_suite = None /\ current_test_info = None
  /\ result = [t \in Tests |-> {}]
  /\ suite_result = [s \in ToSet(test_suites) |-> {}]
  /\ ad_hoc = {} /\ selected = {} /\ failed = FALSE /\ object = None
  /\ exit = None /\ file = FALSE /\ trouble = 0
  /\ bad = FALSE /\ ran = <<>> /\ open = <<>>

Next ==
  \/ Begin \/ MainAsserts \/ Listener \/ StartIteration \/ SetUpEnvironment \/ Decide
  \/ StartSuite \/ SetUpTestSuite \/ SkipAllOrNone
  \/ StartTest \/ Constructor \/ RunTest \/ SetUp \/ TestBody \/ TearDown \/ Destructor \/ EndTest
  \/ TearDownTestSuite \/ EndSuite \/ TearDownEnvironment \/ EndIteration \/ EndProgram
  \/ Stopped

\* One thread runs the program, and user code returns.
Spec == Init /\ [][Next]_vars /\ WF_vars(Next)

(***************************************************************************)
(* Properties.                                                              *)
(***************************************************************************)
InIteration == at \notin {"main", "iterate", "program_end", "ended"}

\* Every variable keeps its type; a position is that of a suite and a test.
TypeOK ==
  /\ at \in ListenerPoints \cup {"main", "iterate", "suite", "skip_all", "test", "run", "SetUp",
                                 "TestBody", "TearDown", "destructor", "TearDownTestSuite", "ended"}
  /\ has_tests_to_run => suite \in DOMAIN order.suites
  /\ (at = "test" => test \in DOMAIN order.tests[Suite])
  /\ seed \in 1 .. kMaxRandomSeed
  /\ current_test_suite \in ToSet(test_suites) \cup {None}
  /\ current_test_info \in selected \cup {None}
  /\ selected \subseteq Tests
  /\ result \in [Tests -> SUBSET Severities]
  /\ object \in Tests \cup {None, "null"}
  /\ exit \in {None, "0", "1", "exit(0)", "exit(1)", "abort", "crash"}

\* A test runner that knows the premature-exit-file protocol is told of
\* success only when no failure was reported, wherever it was: in main, a
\* listener, an environment, a suite's set-up, a constructor, a test or what
\* tears them down, of any iteration.  OnTestProgramEnd comes too late.
GreenMeansPassed ==
  (exit = "0" \/ (exit = "exit(0)" /\ flags.exit_file /\ ~flags.death_child /\ ~file))
    => ~bad \/ flags.help \/ flags.list_tests \/ repeat = 0

\* In the order o, t comes before u: in an earlier suite or earlier in the same one.
RunsBefore(o, t, u) ==
  \E j, k \in DOMAIN o.suites :
    /\ o.suites[j] = SuiteOf(t) /\ o.suites[k] = SuiteOf(u)
    /\ \/ j < k
       \/ j = k /\ \E m, n \in DOMAIN o.tests[SuiteOf(t)] :
                      m < n /\ o.tests[SuiteOf(t)][m] = t /\ o.tests[SuiteOf(t)][n] = u

\* What runs, and when, depends on the seed of the iteration alone: a failure
\* of the N-th iteration is reproduced without the N - 1 before it.  In every
\* order, death tests run before all others.
OrderBySeed ==
  InIteration =>
    LET o == IF flags.shuffle THEN ShuffleTests(Registration, rnd[seed]) ELSE Registration
    IN  /\ ToSet(ran) \subseteq selected
        /\ \A j, k \in DOMAIN ran : j < k =>
             /\ RunsBefore(o, ran[j], ran[k])
             /\ SuiteOf(ran[k]) \in DeathSuites => SuiteOf(ran[j]) \in DeathSuites

\* No iteration forgets a test of its shard: each one was started or is
\* reported as skipped, unless the set-up skipped the whole program.
NothingForgotten ==
  at = "iteration_end" /\ "skip" \notin ad_hoc =>
    \A t \in selected : t \in ToSet(ran) \/ "skip" \in result[t]

\* Whatever fails, throws or skips, as long as the process lives: what was set
\* up is torn down once, in reverse, and no iteration leaves more behind than
\* the environments that the next one is to use.
Paired ==
  /\ at = "TearDown" => Last(open) = <<"SetUp", Test>>
  /\ at = "destructor" => Last(open) = <<"object", Test>>
  /\ at = "TearDownTestSuite" => Last(open) = <<"suite", Suite>>
  /\ at = "env_teardown" => Last(open) = <<"environment", env>>
  /\ at = "iteration_end" =>
       open = IF has_tests_to_run /\ ~recreate_environments /\ iteration < repeat - 1
              THEN [k \in 1 .. Environments |-> <<"environment", k>>] ELSE <<>>
  /\ at = "program_end" => open = <<>>

\* With fail_fast, no user code of a test runs in an iteration in which another
\* test or another suite has failed.
FailFastStops ==
  flags.fail_fast /\ at \in {"constructor", "run", "SetUp", "TestBody"} =>
    /\ \A t \in selected \ {Test} : ~Failed(result[t])
    /\ \A s \in ToSet(test_suites) \ {Suite} : ~Failed(suite_result[s])

\* The shards of one command line run each of its tests exactly once.
ShardsPartition ==
  ShouldShard(flags) = "yes" =>
    \A t \in Runnable(flags) :
      Cardinality({i \in 0 .. flags.total - 1 : t \in FilterTests([flags EXCEPT !.index = i])}) = 1

\* The process has ended, unless it is told to repeat forever.
RunEnded == repeat < 0 \/ at = "ended"
=============================================================================

--------------------------- MODULE MCGoogleTest ----------------------------
(***************************************************************************)
(* Instances of TestRun with what is written of it, DeathTest, Reporters,   *)
(* Listeners and Matchers, one of which is checked at a time while the      *)
(* others stay where they begin.                                            *)
(* A death test suite is registered last, one suite mixes two fixture       *)
(* classes, one has a disabled test.  The death assertions are a loop       *)
(* around one of them, and an ASSERT with another one behind it.            *)
(***************************************************************************)
EXTENDS Console, DeathTest, Reporters, Listeners, Matchers

VARIABLE system

Systems == {"program", "death test", "threads", "listeners", "matchers"}

MCRegistered == << <<"A", "a1", "fa">>, <<"B", "b1", "fb">>, <<"A", "a2", "fa">>,
                   <<"DDeathTest", "d1", "fd">>, <<"B", "b2", "other">> >>

Plain == [help |-> FALSE, list_tests |-> FALSE, also_run_disabled |-> FALSE,
          matching |-> Tests, total |-> -1, index |-> -1, bad_status_file |-> FALSE,
          shuffle |-> FALSE, random_seed |-> 1, repeat |-> 1, recreate |-> TRUE,
          fail_fast |-> FALSE, catch_exceptions |-> TRUE, throw_on_failure |-> FALSE,
          exit_file |-> TRUE, death_child |-> FALSE]

MCFlags ==
  { Plain,
    [Plain EXCEPT !.fail_fast = TRUE],
    [Plain EXCEPT !.repeat = 2, !.recreate = FALSE, !.matching = {"a1", "d1"}],
    [Plain EXCEPT !.repeat = 2, !.shuffle = TRUE, !.random_seed = 2, !.also_run_disabled = TRUE],
    [Plain EXCEPT !.repeat = -1, !.matching = {"a2", "b1"}, !.recreate = FALSE],
    [Plain EXCEPT !.catch_exceptions = FALSE, !.matching = {"a1"}],
    [Plain EXCEPT !.throw_on_failure = TRUE, !.matching = {"b2"}],
    [Plain EXCEPT !.total = 3, !.index = 1, !.also_run_disabled = TRUE],
    [Plain EXCEPT !.total = 2, !.index = 2], [Plain EXCEPT !.index = 0],
    [Plain EXCEPT !.help = TRUE], [Plain EXCEPT !.list_tests = TRUE],
    [Plain EXCEPT !.bad_status_file = TRUE], [Plain EXCEPT !.matching = {}],
    [Plain EXCEPT !.repeat = 0],
    [Plain EXCEPT !.death_child = TRUE, !.repeat = 2, !.matching = {"d1"}, !.random_seed = 0] }

MCDraws == {<<0, 0, 1>>, <<1, 1, 0>>}

MCOutcomes ==
  { [parts |-> {"fatal"}, ends |-> "returns"], [parts |-> {"nonfatal"}, ends |-> "returns"],
    [parts |-> {"skip"}, ends |-> "returns"], [parts |-> {}, ends |-> "throws"],
    [parts |-> {"nonfatal"}, ends |-> "asserts"], [parts |-> {}, ends |-> "exits"] }

Expect(line, predicate) == [line |-> line, predicate |-> predicate, fatal |-> FALSE]

MCBodies ==
  { << Expect(1, "death"), Expect(1, "death") >>,
    << [Expect(1, "exit 0") EXCEPT !.fatal = TRUE], Expect(2, "killed") >> }

MCDeeds ==
  [way : {"dies"}, status : Statuses, matches : BOOLEAN]
    \cup [way : {"returns", "throws", "completes"}, matches : BOOLEAN]

MCInit ==
  /\ system \in Systems
  /\ ConsoleInit /\ DeathInit /\ RepInit /\ LisInit /\ MatInit
  /\ system # "death test" => death_test_style = "unknown" /\ body = CHOOSE b \in Bodies : TRUE
  /\ system # "program" => flags = Plain
  /\ flags.shuffle => rnd[1] # rnd[2]

Program ==
  /\ system = "program" /\ ConsoleNext
  /\ UNCHANGED <<deathVars, repVars, lisVars, matVars, system>>
Deaths(action) ==
  /\ system = "death test" /\ action
  /\ UNCHANGED <<vars, events, repVars, lisVars, matVars, system>>
Reports(action) ==
  /\ system = "threads" /\ action
  /\ UNCHANGED <<vars, events, deathVars, lisVars, matVars, system>>
Events(action) ==
  /\ system = "listeners" /\ action
  /\ UNCHANGED <<vars, events, deathVars, repVars, matVars, system>>
Copies(action) ==
  /\ system = "matchers" /\ action
  /\ UNCHANGED <<vars, events, deathVars, repVars, lisVars, system>>

MCNext == Program \/ Deaths(DeathNext) \/ Reports(RepNext) \/ Events(LisNext) \/ Copies(MatNext)

MCVars == <<vars, events, deathVars, repVars, lisVars, matVars, system>>

\* What is scheduled of each: a fair step leaves the others alone, as all do.
MCSpec ==
  /\ MCInit /\ [][MCNext]_MCVars
  /\ WF_vars(system = "program" /\ Next)
  /\ WF_deathVars(system = "death test" /\ Parent)
  /\ WF_deathVars(system = "death test" /\ Child)
  /\ WF_deathVars(system = "death test" /\ HeirEnds)
  /\ \A t \in Threads : WF_repVars(system = "threads" /\ Thread(t))

\* What is being checked keeps its types.
TypesOK == TypeOK /\ DeathTypeOK

\* Each of three ends: the process of a test program, unless it is told to
\* repeat forever; the process that waits for the children of death tests; and
\* the thread that waits for the others.
AllEnd ==
  <>(/\ system = "program" => RunEnded
     /\ system = "death test" => TestEnded
     /\ system = "threads" => ThreadsEnded)
=============================================================================

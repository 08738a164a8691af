------------------------------- MODULE Params -------------------------------
(***************************************************************************)
(* Parameterized tests: the generators (gtest-param-util.h) and the tests   *)
(* that TEST_P, INSTANTIATE_TEST_SUITE_P and their counterparts for types   *)
(* register (gtest-param-util.h, gtest.cc, gtest-typed-test.cc).            *)
(***************************************************************************)
LOCAL INSTANCE Integers
LOCAL INSTANCE Sequences
LOCAL INSTANCE SequencesExt

(***************************************************************************)
(* Generators, as the sequences of what their iterators point to.           *)
(***************************************************************************)
RECURSIVE RangeFrom(_, _, _)
RangeFrom(i, end, step) == IF i < end THEN <<i>> \o RangeFrom(i + step, end, step) ELSE <<>>

\* The end iterator is the one with the index of the end, whatever its value.
RangeGenerator(begin, end, step) ==
  LET end_index == Len(RangeFrom(begin, end, step))
  IN  [k \in 1 .. end_index |-> begin + (k - 1) * step]

\* The iterator of Combine: a position in each component, of these sizes, where
\* the position behind the last one is the end.
AtEnd(current, sizes) == \E k \in DOMAIN sizes : current[k] = sizes[k] + 1

\* Fault: the component that overflows stays where it is.
NoReset(current, k) == [j \in DOMAIN current |-> IF j = k - 1 THEN current[j] + 1 ELSE current[j]]
Carry(current, k) ==
  [j \in DOMAIN current |->
     CASE j = k -> 1 [] j = k - 1 -> current[j] + 1 [] OTHER -> current[j]]

RECURSIVE AdvanceIfEnd(_, _, _)
AdvanceIfEnd(current, sizes, k) ==
  IF current[k] # sizes[k] + 1 \/ k = 1 THEN current
  ELSE AdvanceIfEnd(Carry(current, k), sizes, k - 1)

Advance(current, sizes) ==
  LET last == Len(sizes)
  IN  AdvanceIfEnd([j \in 1 .. last |-> IF j = last THEN current[j] + 1 ELSE current[j]], sizes, last)

RECURSIVE ProductFrom(_, _)
ProductFrom(current, sizes) ==
  IF AtEnd(current, sizes) THEN <<>> ELSE <<current>> \o ProductFrom(Advance(current, sizes), sizes)
CartesianProductGenerator(sizes) == ProductFrom([k \in DOMAIN sizes |-> 1], sizes)

(***************************************************************************)
(* Registration.  A program is the sequence of what its static initializers *)
(* do, as [kind, suite, id, name, params]:                                  *)
(*   TEST_P, with the identity of the fixture class and the test's name;    *)
(*   INSTANTIATE, with the prefix and the names of the parameters;          *)
(*   TYPED and INSTANTIATE_TYPED, of a suite;  ALLOW, of a suite.           *)
(***************************************************************************)
\* GetTestSuitePatternHolder finds a suite by name and ends the program when
\* another class has it.
Holder(r, e) ==
  LET k == SelectInSeq(r.suites, LAMBDA info : info.name = e.suite)
  IN  IF k # 0 THEN [r EXCEPT !.abort = @ \/ r.suites[k].id # e.id]
      ELSE [r EXCEPT !.suites = Append(@, [name |-> e.suite, id |-> e.id, tests |-> <<>>,
                                           instantiations |-> <<>>])]

\* AddTestPattern and AddTestSuiteInstantiation.
Add(r, e) ==
  [Holder(r, e) EXCEPT !.suites =
     [k \in DOMAIN @ |->
        IF @[k].name # e.suite THEN @[k]
        ELSE IF e.kind = "TEST_P" THEN [@[k] EXCEPT !.tests = Append(@, e.name)]
        ELSE [@[k] EXCEPT !.instantiations = Append(@, [prefix |-> e.name, params |-> e.params])]]]

\* Fault: only the suite that is registered first may be instantiated.
InstantiateFirst(r, suite) ==
  [r EXCEPT !.typed = [k \in DOMAIN @ |-> [@[k] EXCEPT !.instantiated = @ \/ k = 1]]]
RegisterInstantiation(r, suite) ==
  [r EXCEPT !.typed = [k \in DOMAIN @ |-> [@[k] EXCEPT !.instantiated = @ \/ r.typed[k].name = suite]]]

RegisterTestSuite(r, suite) ==
  IF \E k \in DOMAIN r.typed : r.typed[k].name = suite THEN r
  ELSE [r EXCEPT !.typed = Append(@, [name |-> suite, instantiated |-> FALSE])]

MarkAsIgnored(r, suite) == [r EXCEPT !.ignored = @ \cup {suite}]

Initialize(r, e) ==
  CASE r.abort -> r
    [] ~r.abort /\ e.kind \in {"TEST_P", "INSTANTIATE"} -> Add(r, e)
    [] ~r.abort /\ e.kind = "TYPED" -> RegisterTestSuite(r, e.suite)
    [] ~r.abort /\ e.kind = "INSTANTIATE_TYPED" -> RegisterInstantiation(r, e.suite)
    [] ~r.abort /\ e.kind = "ALLOW" -> MarkAsIgnored(r, e.suite)

\* A name is valid when it is neither empty nor has a wrong character in it.
IsValidParamName(name) == name \notin {"", "a b"}

\* The loop over the parameters of one test in one instantiation; GTEST_CHECK_
\* ends the program.
RegisterParams(r, suite, test, instantiation) ==
  LET Param(acc, name) ==
        IF acc.abort \/ ~IsValidParamName(name) \/ name \in acc.names THEN [acc EXCEPT !.abort = TRUE]
        ELSE [acc EXCEPT !.names = @ \cup {name},
                !.registered = Append(@, <<instantiation.prefix, suite, test, name>>)]
      all == FoldLeft(Param, [abort |-> r.abort, registered |-> r.registered, names |-> {}],
                      instantiation.params)
  IN  [r EXCEPT !.abort = all.abort, !.registered = all.registered]

\* A test that fails when it runs.
FailureTest(suite) == <<"", "GoogleTestVerification", "Uninstantiated", suite>>

Synthetic(r, suite) ==
  IF suite \in r.ignored THEN r ELSE [r EXCEPT !.registered = Append(@, FailureTest(suite))]

RegisterSuite(r, info) ==
  LET OfTest(acc, test) ==
        FoldLeft(LAMBDA a, i : RegisterParams(a, info.name, test, i), acc, info.instantiations)
      all == FoldLeft(OfTest, r, info.tests)
      generated == info.tests # <<>> /\ \E i \in ToSet(info.instantiations) : i.params # <<>>
  IN  IF generated \/ all.abort THEN all ELSE Synthetic(all, info.name)

\* RegisterTests and CheckForInstantiations.  std::map: suites_ is in the order
\* of the names, which the properties do not look at.
RegisterParameterizedTests(r) ==
  LET params == FoldLeft(RegisterSuite, r, r.suites)
      Check(acc, info) == IF info.instantiated THEN acc ELSE Synthetic(acc, info.name)
  IN  IF params.abort THEN params ELSE FoldLeft(Check, params, params.typed)

Registry == [abort |-> FALSE, suites |-> <<>>, typed |-> <<>>, ignored |-> {}, registered |-> <<>>]

Run(program) == RegisterParameterizedTests(FoldLeft(Initialize, Registry, program))

(***************************************************************************)
(* Type-parameterized tests.  The list of the names that the macro makes of *)
(* its arguments is a sequence of characters, and a name is one, too.       *)
(***************************************************************************)
IsSpace(c) == c = " "
NullPtr == <<"nullptr">>

SkipSpaces(str) ==
  LET k == SelectInSeq(str, LAMBDA c : ~IsSpace(c))
  IN  IF k = 0 THEN <<>> ELSE SubSeq(str, k, Len(str))

StripTrailingSpaces(str) == Reverse(SkipSpaces(Reverse(str)))

CommaIn(str) == SelectInSeq(str, LAMBDA c : c = ",")

\* NullPtr when there is no comma.
\* Fault: behind the comma, the spaces stay.
BehindComma(str) == IF CommaIn(str) = 0 THEN NullPtr ELSE SubSeq(str, CommaIn(str) + 1, Len(str))
SkipComma(str) ==
  IF CommaIn(str) = 0 THEN NullPtr ELSE SkipSpaces(SubSeq(str, CommaIn(str) + 1, Len(str)))

GetPrefixUntilComma(str) == IF CommaIn(str) = 0 THEN str ELSE SubSeq(str, 1, CommaIn(str) - 1)

FirstName(str) == StripTrailingSpaces(GetPrefixUntilComma(str))

RECURSIVE NamesFrom(_)
NamesFrom(src) == IF src = NullPtr THEN <<>> ELSE <<FirstName(src)>> \o NamesFrom(SkipComma(src))
SplitIntoTestNames(src) == NamesFrom(SkipSpaces(src))

\* A program with one such suite: the registry of all tests, and what its
\* TypedTestSuitePState holds.
Program == [registry |-> Registry, registered |-> FALSE, tests |-> {}]
Abort(p) == [p EXCEPT !.registry.abort = TRUE]

AddTestName(p, name) == IF p.registered THEN Abort(p) ELSE [p EXCEPT !.tests = @ \cup {name}]

VerifyRegisteredTestNames(p, suite, registered_tests) ==
  LET Name(acc, name) ==
        IF name \in acc.tests \/ name \notin p.tests THEN [acc EXCEPT !.errors = TRUE]
        ELSE [acc EXCEPT !.tests = @ \cup {name}]
      all  == FoldLeft(Name, [tests |-> {}, errors |-> FALSE], SplitIntoTestNames(registered_tests))
      done == [p EXCEPT !.registry = RegisterTestSuite(@, suite), !.registered = TRUE]
  IN  IF all.errors \/ all.tests # p.tests THEN Abort(done) ELSE done

\* DefaultNameGenerator: the name of a type is its place in the list.
GenerateNames(types) == [k \in DOMAIN types |-> k - 1]

\* One test template with each type.
TypeParameterizedTest(prefix, suite, template, test_names, types) ==
  [k \in DOMAIN types |->
     <<prefix, suite, FirstName(test_names), GenerateNames(types)[k], types[k], template>>]

\* INSTANTIATE_TYPED_TEST_SUITE_P: the templates and the list of their names.
RECURSIVE TypeParameterizedTestSuite(_, _, _, _, _, _)
TypeParameterizedTestSuite(p, prefix, suite, templates, test_names, types) ==
  LET marked == [p EXCEPT !.registry = RegisterInstantiation(@, suite)]
      tests  == TypeParameterizedTest(prefix, suite, Head(templates), test_names, types)
  IN  IF templates = <<>> THEN p
      ELSE IF FirstName(test_names) \notin p.tests THEN Abort(marked)
      ELSE TypeParameterizedTestSuite([marked EXCEPT !.registry.registered = @ \o tests],
             prefix, suite, Tail(templates), SkipComma(test_names), types)
=============================================================================

------------------------------- MODULE MCText -------------------------------
(***************************************************************************)
(* The algorithms of Google Test that are functions of their input, on all  *)
(* small inputs: a state is the kind of the input and the one or two        *)
(* sequences that it is made of, which grow up to the bounds of the kind.   *)
(***************************************************************************)
EXTENDS Integers, FiniteSets, Filter, SimpleRegex, EditDistance, FilePath, ReportText,
        FloatCompare, Flags, Params, Values

LOCAL INSTANCE Sequences
LOCAL INSTANCE SequencesExt
LOCAL INSTANCE TLC

VARIABLES kind, left, right

MCFlagFiles ==
  [path \in {"f1", "f2"} |->
     IF path = "f1" THEN << <<"--gtest_", "repeat", "1">>, <<"--gtest_", "shuffle", "0">> >>
     ELSE << <<"--gtest_", "flagfile", "f1">> >>]

Event(k, suite, id, name, params) ==
  [kind |-> k, suite |-> suite, id |-> id, name |-> name, params |-> params]

Events ==
  { Event("TEST_P", "S", 1, "t", <<>>), Event("TEST_P", "S", 1, "u", <<>>),
    Event("TEST_P", "T", 2, "t", <<>>), Event("TEST_P", "T", 1, "t", <<>>),
    Event("INSTANTIATE", "S", 1, "I", <<"0", "1">>), Event("INSTANTIATE", "S", 1, "J", <<>>),
    Event("INSTANTIATE", "T", 2, "K", <<"0", "0">>), Event("INSTANTIATE", "T", 2, "I", <<"a b">>),
    Event("TYPED", "U", 0, "", <<>>), Event("TYPED", "V", 0, "", <<>>),
    Event("INSTANTIATE_TYPED", "U", 0, "", <<>>), Event("INSTANTIATE_TYPED", "V", 0, "", <<>>),
    Event("ALLOW", "S", 0, "", <<>>) }

Arguments ==
  { <<"", "--help", Absent>>, <<"", "x", Absent>>, <<"--gtest_", "shuffle", Absent>>,
    <<"--gtest_", "shuffle", "f">>, <<"--gtest_", "repeat", "1">>, <<"--gtest_", "repeat", "x">>,
    <<"--gtest_", "repeat", Absent>>, <<"-gtest_", "filter", "a">>, <<"--gtest_", "filter", "a">>,
    <<"--gtest_", "internal_run_death_test", "b">>, <<"--gtest_", "internal_other", "b">>,
    <<"--gtest_", "flagfile", "f1">>, <<"--gtest_", "flagfile", "f2">> }

\* The environment, where the last value of a variable counts.
Variables ==
  ({"shuffle", "repeat"} \X {"0", "1", "f"}) \cup ({"filter", "output"} \X {"a"})

MCVariables ==
  {<<"GTEST_", v[1], v[2]>> : v \in Variables}
    \cup { <<"", "XML_OUTPUT_FILE", "b">>, <<"", "TESTBRIDGE_TEST_ONLY", "b">> }

\* Values of a type, by the name of the type.
MCStrings == {[kind |-> "string", of |-> s] : s \in {<<>>, <<"a">>, <<Quote>>, <<SOH, "1">>, <<"a", ",", " ", "a">>}}
Objects(traits, of, at) == [kind : {"object"}, traits : {traits}, of : of, at : at]
Letters == {<<"a">>, <<"b">>}
Vectors(elements) == Objects({"container", "complete"}, SeqOf(elements, 2), {"none"})
Composed(k, of) == [kind : {k}, of : of]
Addresses == {"0x1", "0x2"}
ValuesOf ==
  [string   |-> MCStrings,
   vector   |-> Vectors(MCStrings),
   vectors  |-> Vectors(Vectors(Objects({"streamable", "integer", "complete"}, Letters, {"none"}))),
   enum     |-> Objects({"integer", "complete"}, Letters, {"none"}),
   pointer  |-> Objects({"pointer", "streamable", "complete"}, {<<>>}, Addresses \cup {"NULL"}),
   function |-> Objects({"function pointer", "pointer", "complete"}, {<<>>}, Addresses \cup {"NULL"}),
   message  |-> Objects({"protobuf", "complete"}, Letters \cup {[k \in 1 .. 51 |-> "a"]}, {"none"}),
   view     |-> Objects({"string view", "complete"}, Letters, {"none"}),
   path     |-> Objects({"container", "recursive", "streamable", "complete"}, Letters, {"none"}),
   member   |-> Objects({"member pointer", "streamable", "complete"}, SeqOf({"00", "01"}, 3), {"none"}),
   array    |-> Composed("array", SeqOf(MCStrings, 2)),
   tuple    |-> Composed("tuple", [1 .. 2 -> MCStrings]),
   optional |-> Composed("optional", {<<>>} \cup {<<v>> : v \in Composed("optional", {<<>>} \cup {<<v>> : v \in MCStrings})}),
   variant  |-> [kind : {"variant"}, type : {"string"}, index : {"0", "1"}, of : {<<v>> : v \in MCStrings}],
   shared   |-> [kind : {"smart pointer"}, at : Addresses, of : {<<v>> : v \in MCStrings}]
                  \cup {[kind |-> "smart pointer", at |-> "NULL", of |-> <<>>]},
   void     |-> [kind : {"smart pointer"}, at : Addresses \cup {"NULL"}, of : {<<>>}],
   reference |-> [kind : {"reference"}, at : Addresses, of : {<<v>> : v \in MCStrings}],
   c_string |-> [kind : {"C string"}, at : Addresses, of : {<<>>, <<"a">>, <<Quote>>}]
                  \cup {[kind |-> "C string", at |-> "NULL", of |-> <<>>]}]

\* The elements of both sequences and their greatest lengths.
Inputs ==
  [ glob   |-> <<{"a", "b", "*", "?"}, 5, {"a", "b"}, 4>>,
    filter |-> <<{"a", "*", ":", "-"}, 5, {"a"}, 2>>,
    regex  |-> <<{"a", ".", "*", "+", "?", "$", "^", "\\"}, 5, {"a", "$"}, 2>>,
    lines  |-> <<{"a", "b"}, 7, {"a", "b"}, 6>>,
    path   |-> <<{"/", ".", "a"}, 6, {}, 0>>,
    chars  |-> <<{"f", "1", Quote, Escape, Newline, NUL, SOH, Lead, Trail}, 4, {}, 0>>,
    bytes  |-> <<{1, 65, 128, 143, 144, 159, 160, 191, 193, 194, 224, 237, 240, 244, 245}, 4, {}, 0>>,
    floats |-> <<Bits, 1, Bits, 1>>,
    args   |-> <<Arguments, 4, {}, 0>>,
    environ |-> <<Arguments, 1, MCVariables, 3>>,
    events |-> <<Events, 4, {}, 0>>,
    sizes  |-> <<0 .. 3, 3, {}, 0>>,
    names  |-> <<{<<"a">>, <<"b">>, <<"a", "b">>}, 3,
                 {<<",">>, <<",", " ">>, <<" ", ",">>, <<" ", ",", " ">>}, 2>>,
    values |-> <<DOMAIN ValuesOf, 1, {}, 0>>,
    counts |-> <<0 .. 140, 1, {}, 0>>,
    report |-> <<{"<", "&", "]", ">", "%", "/", Quote, Escape, Newline, SOH, Lead, Trail}, 4, {}, 0>>,
    cdata  |-> <<{"]", ">", "a"}, 7, {}, 0>>,
    properties |-> << {"name", "result", "skipped", "key"} \X {"1", "2"}, 3,
                      {[suite |-> c # "none", test |-> c = "test"] : c \in {"none", "suite", "test"}}, 3>> ]

Init == kind \in DOMAIN Inputs /\ left = <<>> /\ right = <<>>

GrowLeft ==
  /\ Len(left) < Inputs[kind][2]
  /\ \E x \in Inputs[kind][1] : left' = Append(left, x)
  /\ UNCHANGED <<kind, right>>
GrowRight ==
  /\ Len(right) < Inputs[kind][4]
  /\ \E x \in Inputs[kind][3] : right' = Append(right, x)
  /\ UNCHANGED <<kind, left>>

Spec == Init /\ [][GrowLeft \/ GrowRight]_<<kind, left, right>>

(***************************************************************************)
\* The loop over a pattern, which goes back to its last wildcard only, finds a
\* match whenever there is one, and a filter selects the names that some pattern
\* of its positive and none of its negative part matches.  The backtracking
\* matcher finds a match of a valid expression anywhere in the text, or of the
\* whole text, exactly when the expression has one.  Left out: an expression
\* that ends in an escaped dollar sign gets no anchor.
PatternsMatch ==
  /\ kind = "glob" => PatternMatchesString(right, left) = Matches(left, right)
  /\ kind \in {"glob", "filter"} => MatchesFilter(left, right) = Selects(left, right)
  /\ kind = "regex" /\ ValidateRegex(left) =>
       /\ PartialMatch(right, left) = MatchesPart(left, right)
       /\ ~EndsInEscapedDollar(left) => FullMatch(right, left) = MatchesAll(left, right)

\* The hunks of a diff, each read with its header alone, turn the left text into
\* the right one, however their contexts meet.
DiffApplies ==
  kind = "lines" => \A context \in 1 .. 2 :
    LET hunks == CreateUnifiedDiff(left, right, context)
    IN  /\ \A k \in DOMAIN hunks : HunkTells(hunks[k], left, right)
        /\ Patched(left, hunks) = right

\* The edits are optimal, as the header says: no shorter ones do the same.
EditsOptimal ==
  kind = "lines" =>
    Len(SelectSeq(CalculateOptimalEdits(left, right), LAMBDA e : e # "Match")) = Distance(left, right)

FileSystems ==
  { [dirs |-> {<<>>, << <<"w">> >>}, files |-> {}],
    [dirs |-> {<<>>, << <<"w">> >>, << <<"a">> >>}, files |-> { << <<"w">>, <<"a">> >> }],
    [dirs |-> {<<>>, << <<"w">> >>, << <<"w">>, <<"a">> >>},
     files |-> { << <<"w">>, <<"a">>, <<"e", ".", "x">> >>, << <<"w">>, <<"a", "a">> >>, << <<"a">> >> }] }

Above(name) == {SubSeq(name, 1, k) : k \in 0 .. Len(name)}

Names(p) == SplitString(p, "/")
DotDot(p) == \E name \in ToSet(Names(p)) : name = <<".", ".">>

\* A report goes where the flag says, in a new file when the flag names a
\* directory, and all directories above it, and nothing else, are made, unless
\* another file or a directory is in the way.  Left out: names of two dots.
ReportIsWritten ==
  kind = "path" /\ left # <<>> /\ ~DotDot(left) => \A fs \in FileSystems :
    LET made  == WriteReport(fs, left, <<"b", "/", "e">>, <<"x">>)
        asDir == Last(left) = "/"
        named == IF asDir THEN Append(Resolve(left), Last(made.name)) ELSE Resolve(left)
        above == IF Last(Names(left)) = <<".">> THEN Above(named) ELSE Above(Front(named))
    IN  /\ made.ok = (above \cap fs.files = {} /\ named \notin fs.dirs \cup above)
        /\ made.ok => made.name = named
        /\ made.fs.files = fs.files \cup (IF made.ok THEN {named} ELSE {})
        /\ IF made.ok THEN made.fs.dirs = fs.dirs \cup above
           ELSE made.fs.dirs \subseteq fs.dirs \cup above
        /\ asDir => named \notin fs.files

\* The lines of a text: what ends in a newline, if more comes behind it.
LinesOf(s) ==
  LET cuts == SelectSeq([k \in 1 .. Len(s) |-> k], LAMBDA k : s[k] = Newline /\ k < Len(s))
      from(k) == IF k = 1 THEN 1 ELSE cuts[k - 1] + 1
      to(k)   == IF k > Len(cuts) THEN Len(s) ELSE cuts[k] - 1
  IN  [k \in 1 .. Len(cuts) + 1 |-> SubSeq(s, from(k), to(k))]

Unquoted(text) == SubSeq(text, 2, Len(text) - 1)

\* A printed string, compiled, is the string again, unless a NUL in it comes
\* before a digit; a diff of printed strings has the lines of the strings.
LiteralReadsBack ==
  kind = "chars" =>
    /\ ~NulBeforeDigit(left) => Read(PrintCharsAsString(left), FALSE) = left
    /\ LET array == UniversalPrintCharArray(left)
       IN  ~NulBeforeDigit(left) =>
             Read(array.text, FALSE) \o (IF array.terminated THEN <<NUL>> ELSE <<>>) = left
    /\ left # <<>> =>
         SplitEscapedString(PrintCharsAsString(left))
           = [k \in DOMAIN LinesOf(left) |-> Unquoted(PrintCharsAsString(LinesOf(left)[k]))]

IsAscii(str) == {Lead, Trail} \cap ToSet(str) = {}

\* The two bytes come as one character.
IsUtf8(str) ==
  /\ \A k \in DOMAIN str : str[k] = Lead => k < Len(str) /\ str[k + 1] = Trail
  /\ \A k \in DOMAIN str : str[k] = Trail => k > 1 /\ str[k - 1] = Lead

\* A text in UTF-8 that a report shows is read back as it was, but for what XML
\* cannot show, by a reader that knows the rules of the format and nothing else;
\* and a property has the last value that was given to it in its element, once,
\* with a name that nothing else has there.  Left out: from JSON, only a text in
\* ASCII is read back, as EscapeJson (gtest.cc:4540) makes one character of each
\* byte of all others; and there, a test may have a property with the name of its
\* result.
ReportReadsBack ==
  /\ kind \in {"report", "cdata"} /\ IsUtf8(left) =>
       LET valid == RemoveInvalidXmlCharacters(left)
       IN  /\ ReadAttribute(EscapeXmlAttribute(left)) = valid
           /\ ReadContent[OutputXmlCDataSection(valid), FALSE] = valid
           /\ (ReadJson[EscapeJson(left)] = left) = IsAscii(left)
           /\ ReadUrl[UrlEncode(left)] = left
  /\ kind = "properties" /\ Len(left) = Len(right) =>
       LET none  == [properties |-> <<>>, failed |-> FALSE]
           r     == FoldLeft(LAMBDA acc, k : RecordWhere(acc, right[k], left[k]),
                             [e \in {"testsuites", "testsuite", "testcase"} |-> none],
                             [k \in DOMAIN left |-> k])
           those(e) == {k \in DOMAIN left : CurrentElement(right[k]) = e}
           wrong(e) == {k \in those(e) : left[k][1] \in GetReservedAttributes(e)}
           last(e)  == {left[k] : k \in {j \in those(e) \ wrong(e) :
                          \A i \in those(e) : i > j => left[i][1] # left[j][1]}}
       IN  \A e \in DOMAIN r :
             /\ ToSet(r[e].properties) = last(e)
             /\ r[e].failed = (wrong(e) # {})
             /\ \A seed \in {<<>>, <<"random_seed">>} :
                  LET xml  == XmlAttributes(e, seed, r[e].properties)
                      json == JsonKeys(e, seed, r[e].properties)
                  IN  /\ IsInjective(xml) /\ "abort" \notin ToSet(xml) \cup ToSet(json)
                      /\ IsInjective(OutputXmlTestProperties(r[e].properties))
                      /\ IsInjective(SelectSeq(json, LAMBDA name : e = "testcase" => name # "result"))

Counted(n) == [k \in 1 .. n |-> <<ToString(k)>>]
Numbers(n) == [k \in 1 .. n |-> ToString(k)]
\* The text shows the numbers up to n in turn, all of them, or only the first
\* and, when the end is shown, the last ones, with dots in between.
ShowsNumbers(text, n, end) ==
  LET some == SelectSeq(text, LAMBDA word : word \in ToSet(Numbers(n)) \cup ToSet(Dots))
      gap  == SelectInSeq(some, LAMBDA word : word = "...")
      last == Len(some) - gap
  IN  IF gap = 0 THEN some = Numbers(n)
      ELSE /\ Len(some) - 1 < n /\ (last > 0) = end
           /\ some = SubSeq(Numbers(n), 1, gap - 1) \o Dots \o SubSeq(Numbers(n), n - last + 1, n)

\* A reader who knows the type of a value tells it from every other one: the
\* texts of two strings, pointers, containers, optional values and so on differ,
\* as do those of two operands of a comparison that are not equal, and only
\* those.  Of a long value the beginning and the end are shown, bytes in pairs.
ValuesTellApart ==
  /\ kind = "values" /\ left # <<>> =>
       /\ \A v, w \in ValuesOf[left[1]] : UniversalPrint(v) = UniversalPrint(w) => v = w
       /\ left[1] \notin {"c_string", "reference"} =>
            \A v \in ValuesOf[left[1]] : PrintToString(v) = UniversalPrint(v)
       /\ left[1] = "c_string" =>
            /\ \A v, w \in ValuesOf.c_string :
                 (FormatForComparison(v, w) = FormatForComparison(w, v)) = (v.at = w.at)
            /\ \A v \in ValuesOf.c_string, s \in MCStrings : v.at # "NULL" =>
                 (FormatForComparison(v, s) = FormatForComparison(s, v)) = (v.of = s.of)
  /\ kind = "counts" /\ left # <<>> =>
       LET n == left[1]
           bytes == Tail(Tail(PrintBytesInObject(Numbers(n))))
       IN  /\ ShowsNumbers(ContainerPrinter(Counted(n)), n, FALSE)
           /\ ShowsNumbers(UniversalPrintArray(Counted(n)), n, TRUE)
           /\ ShowsNumbers(PrintTuple(Counted(n)), n, TRUE)
           /\ ShowsNumbers(bytes, n, TRUE)
           /\ \A k \in 1 .. n : \A j \in DOMAIN bytes :
                bytes[j] = ToString(k) => (bytes[j - 1] = "-") = (k % 2 = 0)

\* What is printed, in a message or in a report, can be read back.
TextReadsBack == LiteralReadsBack /\ ReportReadsBack /\ ValuesTellApart

\* Bytes are shown as text, too, if and only if they are well-formed UTF-8 that
\* is not all ASCII, without control characters that are not blank; and what
\* is converted from wide strings of either width is the same bytes again.
Utf8IsUnicode ==
  kind = "bytes" =>
    /\ IsValidUTF8(left) = WellFormed(left)
    /\ PrintStringTo(left, TRUE) =
         (WellFormed(left) /\ 1 \notin ToSet(left) /\ \E k \in DOMAIN left : left[k] > 127)
    /\ WellFormed(left) => /\ WideStringToUtf8(4, Values(left)) = left
                           /\ WideStringToUtf8(2, Utf16(Values(left))) = left

\* Two numbers are almost equal when at most kMaxUlps numbers lie on the way from
\* one to the other, whatever their signs and exponents; NaNs never are.
UlpsAreSteps ==
  kind = "floats" /\ Len(left) + Len(right) = 2 =>
    AlmostEquals(left[1], right[1]) =
      (~is_nan(left[1]) /\ ~is_nan(right[1]) /\ Ulps(left[1], right[1]) <= kMaxUlps)

\* When the program starts, the last setting of each flag counts, on the command
\* line or in a file; exactly the recognized arguments are gone from argv;
\* anything else that looks like a flag of Google Test asks for help; another
\* call changes nothing; and without a setting the environment counts, where a
\* value means what it means on the command line.  Left out: there, f is no.
FlagsAreTaken ==
  kind \in {"args", "environ"} =>
    LET default == Defaults(right)
        s    == [argv |-> << <<"", "program", Absent>> >> \o left, flags |-> default, i |-> 1,
                 help |-> FALSE, abort |-> FALSE, initialized |-> FALSE]
        done == InitGoogleTest(s)
        all  == Spread(left)
        rest == SelectSeq(left, LAMBDA arg : ~Parsed(arg) /\ ~IsFile(arg))
        same(flag) == <<"--gtest_", flag, GetEnv(right, "GTEST_", flag)>>
    IN  /\ done.argv = <<s.argv[1]>> \o rest
        /\ \A flag \in DOMAIN default : done.flags[flag] = LastSetting(all, flag, default[flag])
        /\ done.help = \E arg \in ToSet(all) :
             ~Parsed(arg) /\ (HasGoogleTestFlagPrefix(arg) \/ arg[2] = "--help")
        /\ \A flag \in DOMAIN default :
             same(flag)[3] # Absent /\ Parsed(same(flag)) /\ same(flag)[3] # "f" =>
               default[flag] = Setting(same(flag))[2]
        /\ InitGoogleTest(done) = done

EventsOf(k, suite) == SelectSeq(left, LAMBDA e : e.kind = k /\ e.suite = suite)
Wrong(e) == e.kind = "INSTANTIATE" /\ e.params \in {<<"0", "0">>, <<"a b">>}
            /\ EventsOf("TEST_P", e.suite) # <<>>
Clash == \E e, f \in ToSet(left) : e.suite = f.suite /\ {e.id, f.id} = {1, 2}
Has(k, suite) == \E e \in ToSet(left) : e.kind = k /\ e.suite = suite
Expanded(suite) ==
  Has("TEST_P", suite) /\ \E e \in ToSet(EventsOf("INSTANTIATE", suite)) : e.params # <<>>

\* No parameterized suite is dropped in silence: a program registers each test
\* with each parameter of each instantiation, once, and a failing test for each
\* suite that comes to nothing and is not allowed to; or it ends at once, because
\* of two classes for one suite or of names that cannot be told apart.
SuiteInstantiated ==
  kind = "events" =>
    LET r == Run(left)
        tests == SelectSeq(r.registered, LAMBDA t : t[2] # "GoogleTestVerification")
        none  == {t[4] : t \in ToSet(r.registered) \ ToSet(tests)}
    IN  /\ r.abort = (Clash \/ \E e \in ToSet(left) : Wrong(e))
        /\ ~r.abort =>
             /\ \A e, f \in ToSet(left) :
                  e.kind = "TEST_P" /\ f.kind = "INSTANTIATE" /\ e.suite = f.suite =>
                    \A p \in ToSet(f.params) :
                      Len(SelectSeq(tests, LAMBDA t : t = <<f.name, e.suite, e.name, p>>))
                        = Len(SelectSeq(left, LAMBDA x : x = e)) * Len(SelectSeq(left, LAMBDA x : x = f))
             /\ none = {s \in {e.suite : e \in ToSet(left)} :
                          /\ ~Has("ALLOW", s)
                          /\ \/ (Has("TEST_P", s) \/ Has("INSTANTIATE", s)) /\ ~Expanded(s)
                             \/ /\ Has("TYPED", s)
                                /\ \A k, j \in DOMAIN left :
                                     ~(/\ k < j /\ left[k].kind = "TYPED" /\ left[k].suite = s
                                       /\ left[j].kind = "INSTANTIATE_TYPED" /\ left[j].suite = s)}

\* Combine goes through the product of its components, the last one fastest, and
\* stops, even with an empty one among them; Range stops before its end.
GeneratorEnumerates ==
  /\ kind = "sizes" /\ left # <<>> =>
       LET all == CartesianProductGenerator(left)
           less(s, t) == \E k \in DOMAIN s : s[k] < t[k] /\ \A j \in 1 .. k - 1 : s[j] = t[j]
       IN  /\ ToSet(all) = {t \in [DOMAIN left -> 1 .. 3] : \A k \in DOMAIN left : t[k] <= left[k]}
           /\ \A k \in 1 .. Len(all) - 1 : less(all[k], all[k + 1])
  /\ kind = "sizes" /\ Len(left) = 3 /\ left[3] > 0 =>
       LET all == RangeGenerator(left[1], left[2], left[3])
       IN  /\ ToSet(all) = {v \in left[1] .. left[2] - 1 : (v - left[1]) % left[3] = 0}
           /\ Len(all) = Cardinality(ToSet(all))

MCTypes == <<"int", "char", "int">>

\* A typed suite is accepted when the names it lists, however they are spaced,
\* are a permutation of the tests it defines; then each of its tests, under its
\* own name, is registered once with each type, under names that are distinct;
\* and no test can be added any more.
TypedTestsRegistered ==
  kind = "names" /\ Len(left) = Len(right) + 1 =>
    \A defined \in SUBSET {<<"a">>, <<"b">>, <<"a", "b">>} :
      LET list == FlattenSeq([k \in DOMAIN left |-> left[k] \o (IF k \in DOMAIN right THEN right[k] ELSE <<>>)])
          p    == VerifyRegisteredTestNames(FoldLeft(AddTestName, Program, SetToSeq(defined)), "U", list)
          made == TypeParameterizedTestSuite(p, "My", "U", left, list, MCTypes).registry
          named(t) == SubSeq(t, 1, 4)
      IN  /\ p.registry.abort = ~(IsInjective(left) /\ ToSet(left) = defined)
          /\ ~p.registry.abort =>
               /\ ~made.abort /\ RegisterParameterizedTests(made) = made
               /\ ToSet(made.registered) =
                    {<<"My", "U", left[k], j - 1, MCTypes[j], left[k]>> : k \in DOMAIN left, j \in DOMAIN MCTypes}
               /\ IsInjective([k \in DOMAIN made.registered |-> named(made.registered[k])])
          /\ AddTestName(p, <<"c">>).registry.abort

\* Every value of every generator makes its test, of every suite and type.
AllInstantiated == SuiteInstantiated /\ GeneratorEnumerates /\ TypedTestsRegistered
=============================================================================

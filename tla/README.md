# A verification project for fabric-gh

TLA+ modules, TLC configurations and TLAPS proofs for this repository: the
simulator of the VPU (`src/src/processor.*`, `src/src/isa.proto`), the generated
programs that compute a multiplicative inverse (`src/src/mult_inverse.h`) and add
two points of an elliptic curve (`src/src/padd.h`), the disassembler
(`src/src/tools.cc`), and the copy of Google Test that is kept, and compiled, with
them (`src/gtest`). File names below are relative to the repository.

## Inventory

| component | state | operations | talks to |
| --- | --- | --- | --- |
| Instruction set (`src/isa.proto`) | none: messages | the fields of an instruction; an operand is a `oneof`, whose unset members read as 0 or "" | everything |
| Processor (`src/processor.{h,cc}`) | `sram_`, `regs_`, `p_`, `pc_`, `labels_`, and the static table of executors | `run_program`: label pass, then fetch and execute until `pc_` leaves the program; 18 executors | called by its owner, who also reads and writes `sram_` directly |
| Owner (`tests/*.cc`) | the object, the program | stores arguments in SRAM, calls `run_program`, reads results from SRAM | Processor, disassembler |
| Inverse kernel (`src/mult_inverse.h`) | registers R0, R8, R13, R20-R23; SRAM 0, 1, 10 | 18 instructions: x^(P-2) by squaring and multiplying | runs on Processor |
| Addition kernel (`src/padd.h`) | registers R0-R9, R10 link, R12-R18, R20-R23; SRAM 0-7, 10, 11 | 65 instructions: tests for zero, chord, tangent, intersection; the inverse as a subroutine with JAL and RET | runs on Processor |
| Disassembler (`src/tools.{h,cc}`) | none | text of a program, or an exception | called by tests |
| Run of a test program (`gtest.cc`, `gtest-internal-inl.h`) | registered suites and tests, index tables, seed, results, current suite and test | `UnitTest::Run`: filter, shard, iterations, environments, suites, phases of a test | user code, listeners, death tests |
| Death tests (`gtest-death-test.cc`) | role, outcome, status, pipe, count of assertions | create, fork or re-execute, run or wait, judge | operating system, flags, run |
| Reporters (`gtest.cc`, `gtest-spi.h`, `gtest-test-part.cc`) | the global reporter, one for each thread, traces, `mutex_` | assertions, scopes that put another reporter in place | results, listeners |
| Listeners (`gtest.cc`) | list, default printer, default report generator, forwarding | append, release, replace the defaults, tell of an event | user code, printers, reports |
| Console, streaming and reports (`gtest.cc`) | counters of the results | lines, messages, XML and JSON | state of the run |
| Flags (`gtest.cc`, `gtest-port.cc`) | the flags, argv | command line, flag files, environment | run |
| Algorithms on text (`gtest.cc`, `gtest-port.cc`, `gtest-printers.cc`, `gtest-filepath.cc`, `gtest-internal.h`) | none | filters, expressions, diffs, escaping, UTF-8, paths, comparison of floats, printed values | reports, messages |
| Parameterized tests (`gtest-param-util.h`, `gtest.cc`) | suites, their tests and instantiations | register, expand, complain | run |
| Matchers (`gtest-matchers.h`) | payload, its count, table of functions | copy, move, assign, destroy | assertions of any thread |
| Build scripts, the protobuf runtime | none of the program's | | not modelled |

In the simulator there is one thread. What is hard about it is not scheduling but
*state that outlives a call* (labels, registers and the prime stay in the object
between programs, and start indeterminate), *control flow that only the generators'
authors check* (labels by name, a link register, a subroutine without a calling
convention), *machine arithmetic under field arithmetic* (signs of remainders,
overflow, traps, the two early exits), and *conventions about zero*.

In Google Test the hard part is that user code is called at every turn and may do
anything: fail, skip, throw, exit, from any thread, in a child process; that state is
spread over an iteration (results, indices, seeds, ad hoc results) and must be reset,
undone or kept; that processes and threads meet at a pipe, a lock and a counter; and
that what is told of a run (verdict, console, reports) is computed in several places.
The list with lines is `hazards` in `PROJECT.json`.

What makes each component correct:

- Processor: members keep their types; a jump lands on the label it names in the
  program that runs; prime-field instructions reduce; integer instructions are two's
  complement arithmetic with a truncating division.
- Inverse kernel: each call ends, in a number of steps logarithmic in the prime,
  with an inverse of x modulo P, whatever the object was used for before.
- Addition kernel: each call ends with the sum of the two points, which is zero or
  on the curve; the subroutine returns to its caller and leaves its registers alone.
  Both kernels, in turn on one object, do not notice each other.
- Run: green means that nothing failed; every selected test runs once, with its
  set-up and tear-down; the order follows from the seed; shards partition the tests;
  the process ends.
- Death tests: an assertion passes exactly when its statement died as asked; the child
  runs the statement of the assertion that the parent oversees; the parent never waits
  for ever.
- Reporters: each part is delivered once, to the reporter of the innermost scope that
  wants it; no reporter is used when its scope is gone.
- Listeners: every listener in the list hears each event once, starts in the order of
  the list and ends in the opposite one.
- Reports and console: they tell what happened, with counts that add up, in a form that
  reads back.
- Algorithms on text: they compute what their comments promise.

## Modules

The simulator and its kernels:

| module | models | correspondence |
| --- | --- | --- |
| `Words` | `int64_t` and the C++ operators on it | `WordBits` is the width; `Wrap` is what an overflowing operation leaves; `Quot`/`Rem` truncate toward zero |
| `Isa` | `isa.proto` | records for operands and instructions; `AddrOf`, `RegOf`, ... read a member that may not be set; `Load`, `Op2`, `BranchEq`, ... are the calls a generator makes for one instruction |
| `Processor` | the class and its executors | one variable per member; one action per executor; `RunProgram` is the label pass and the reset of `pc_`, `Step` an iteration of the loop, `Finish` its exit, `Trap` the end of the process |
| `Host` | an owner that reuses one object | `WriteSram` and `Call` between calls, `RunStep` inside one |
| `ProcessorTests` | `tests/processor_test.cc` | the four programs and the four assertions |
| `ArithmeticTests` | nothing of the program | programs that use every arithmetic executor, which the repository's tests do not, and the laws of what they leave |
| `Curve` | nothing of the program | primes, points of a curve, slopes and sums by their equations, for the abstract specifications |
| `FieldInverse` | the promise of the inverse kernel | abstract specification, no machine |
| `InverseKernel`, `MultInverse` | `MultInverse::generate`, and its program on a Processor | `Setup`, `SquareAndMultiply`, `Finale` are the generator's instructions in order; refines `FieldInverse` |
| `PointAddition` | the promise of the addition kernel | abstract specification: the group law by the equations of chord and tangent |
| `AddKernel`, `PAdd` | `PAdd::generate`, and its program on a Processor | eight blocks of instructions in order; refines `PointAddition` |
| `Session` | both kernels in turn on one Processor | an owner that computes multiples of a point by additions and doublings, feeds results back and inverts numbers in between |
| `Disassembler` | `program_to_str` | a word is the prefix that tells an operand's kind and what follows it; `DisassemblyError`, or `std::out_of_range` for an opcode number without a name, leaves the function as a whole |

Google Test:

| module | models | correspondence |
| --- | --- | --- |
| `TestRun` | `UnitTest::Run`, `RunAllTests`, `TestSuite::Run`, `TestInfo::Run`, `Test::Run` and what they call | `at` is the call of user code, or the head of a loop, that comes next; a step is what happens between two of them; what user code does is an `Outcome` |
| `RunReport` | the trees of the XML and JSON reports, and of the list of tests | operators on the state of `TestRun` |
| `Console` | pretty and brief printer, streaming listener | `events` is what listeners hear of an iteration; the lines are tuples made of it |
| `DeathTest` | parent, child, pipe and any heir of its write end | `role` and `child.at` are where the two processes are; a re-executed program may diverge, fail to start or crash |
| `Reporters` | `AddTestPartResult`, the reporters, the scopes | `doing` is where each thread is; `mutex_` is held from the lock to the delivery |
| `Listeners` | `TestEventListeners`, `TestEventRepeater` | `Tell` is one turn of a loop over the list; a listener may join or leave in between |
| `Matchers` | `MatcherBase` | copies, moves and assignments by two threads, each split at the count |
| `Filter`, `SimpleRegex`, `EditDistance`, `Printing`, `FilePath`, `ReportText`, `FloatCompare`, `Flags`, `Params`, `Values` | the functions of the same names and their neighbours | one operator per function; loops with state are folds over a record of that state; next to them, or in `MCText`, stands a reference definition that is not taken from the code |

Instances: `MCHost`, `MCMultInverse`, `MCPAdd`, `MCSession`, `MCGoogleTest`, `MCText`.
Proofs: `ProcessorProofs` (with the lemmas about numbers and words), `HostFloatProofs`
for the owner and, with the same lemmas, the comparison of floats,
`MultInverseProofs`, `PAddProofs`, `SessionProofs`, `TestRunProofs` (with those about
its folds), `ReporterListenerProofs` for reporters and listeners, and
`DeathMatcherProofs` for death tests and matchers.

How they compose: `Processor` is extended by `Host`, `MultInverse`, `PAdd` and
`Session`, never simplified: a kernel's actions are the Processor's actions on the
kernel's program, so a fault of an executor is a fault of the kernel. `TestRun` is
extended by `RunReport`, and that by `Console`, so that what is written is checked
against the run it tells of. `MCGoogleTest` puts the state machines of Google Test side
by side; `system` says which of them a behaviour is about, and the others stay where
they begin: they share no state, only the runs' budget. `MCText` makes a state of each
input: `kind` says of which algorithm, and `left` and `right` grow letter by letter.

Operators whose comment begins with "Fault:" are plausible mistakes in the definition
that follows them. No specification uses them; they exist to show that a property
notices the mistake when the definition is exchanged for them.

Choices made in the translation of the simulator:

- **Indeterminate memory.** A new `Processor` is default-initialised, so `sram_`,
  `regs_` and `p_` hold anything. `Boot` is a set of initial contents; the theorems
  hold for every set, the runs take memory full of 0, of 1 and of -1.
- **Signed overflow** is formed at run time in a register and wraps: `Wrap`.
- **Division by zero and MIN / -1** are undefined. The build script compiles for the
  machine it runs on, Linux or macOS; x86-64 traps (`Trap`), AArch64 leaves 0 or
  MIN (`Quot`). Both outcomes are steps of the model.
- **Malformed instructions**: a missing operand fails the index check of `at()` and
  an opcode without executor dereferences a null pointer: `Trap`. Operands of the
  wrong kind read as defaults, as protobuf does. An address or register number
  beyond the arrays is not modelled (`Operand` excludes it).
- **`labels_`** is a function from the strings inserted so far; a lookup of an absent
  label inserts 0, in the action of the jump.
- `executed` and `stores` in the kernel modules are history variables: one counts
  instructions for `LoopInvariant`, the other bounds the owner of `PAdd`.

Choices made in the translation of Google Test:

- **User code** is an environment. At each call it may do one of `Outcomes`; a result is
  the set of the kinds of its parts, since nothing but reports looks at their number.
  An exception is caught, or ends the process, as `--gtest_catch_exceptions` says.
- **Undefined behaviour**: a fixture's constructor that leaves a null object without a
  fatal failure (an `AssertionException` of a listener) ends the process at `Run`.
- **Death tests**: the platform is Linux or macOS. The child is one process; a process
  that it leaves behind with the write end (an heir) ends some time. System calls do not
  fail, but for `exec`.
- **Reporters**: every load and store that is not under `mutex_` is a step of its own.
  The discipline of the tests (a scope's statement joins its threads; a scope for all
  threads is opened while no other thread runs) is in the guards: `gtest-spi.h` restores
  blindly, and without it scopes that overlap leave a dangling reporter.
- **Listeners**: none leaves the list while a start is told, and in an end each takes
  out only itself; the loops use an index, and anything else skips a neighbour.
- **Text** is a sequence of characters, over the few that the code tells apart. A `char`
  is signed, as on x86-64 and on Apple's targets; on AArch64 Linux it is unsigned, and
  there `EscapeJson` keeps the bytes from 0x80 on as they are.

## Runs

| run | question | bounds |
| --- | --- | --- |
| `Host` | do the repository's own test programs meet their assertions and come back in every order on one reused object; whose label does a jump find; do the executors compute? | 8-bit words, 24 words of SRAM and 11 registers, the largest the tests name; three initial memories; nine programs of at most four instructions with shared, doubled, missing labels and the malformed forms; operands at the edges |
| `HostSubtract` | is a prime-field result a residue, as `isa.proto` says? No: SUBP | as `Host` |
| `HostReturn` | does RET return to the pc in its register, as `isa.proto` says? No: to the next one | as `Host` |
| `MultInverse` | inverse kernel: loop invariant, work, refinement | 8-bit words; all x from -2 to P for P in 2, 3, 5, 7, 11 and seven moduli that are not primes; any number of calls on one object |
| `MultInverseLarge` | is the inverse right for large primes? No | P = 31 with 8-bit words, the same relation as a prime above 2^31.5 with 64 |
| `PAdd` | addition kernel: closure, subroutine, refinement | 8-bit words; all pairs of points of three curves (modulo 5, 7 and 11, one with a negative a), four forms of zero, moduli that are not primes; repeated calls on the inputs stored once (`MaxStores` = 1) |
| `PAddMarker` | is a point with one coordinate equal to EC-Zero zero? Only for the value of all ones | curve modulo 5, EC-Zero = 5 |
| `PAddTorsion` | does a point with y = 0 added to itself give zero? No | y^2 = x^3 + x modulo 5 |
| `Session` | does either kernel notice what the other, or an earlier call, left? | the tests' curve, y^2 = x^3 + x + 1 modulo 37; multiples up to 9 of a point of order 8, so that zero is reached and passed; inverses modulo 2, 13 and 37 |
| `GoogleTest` | the state machines of Google Test, one after the other | below |
| `Text` | the algorithms of Google Test against reference definitions | below |
| `EditsOptimal` | are the edits between two texts optimal, as the header says? No | as `Text` |

The simulator's bounds suffice for what the runs ask: every path of both kernels is
taken (both early exits, bits 0 and 1 of the exponent, both zero tests, chord, tangent,
vertical line), every residue of the small primes occurs, and 8-bit words put the
boundary of overflow just above (11 - 1)^2, so that products near it occur. The
64-bit machine differs from the 8-bit one only in where that boundary is.
Deadlock is not checked there: after a trap the process is gone.

`GoogleTest` (deadlock is checked; a process or thread that is done stutters by an
action of its own):

| system | properties | bounds |
| --- | --- | --- |
| run of a program | `TypesOK`, `GreenMeansPassed`, `OrderBySeed`, `NothingForgotten`, `Paired`, `FailFastStops`, `ShardsPartition`, `WritesTell`, `AllEnd` | five tests in three suites (a death test suite registered last, a suite that mixes fixtures, a disabled test), two environments, two calls of user code that do one of six things (`MaxTrouble`), 16 command lines, two iterations; endless repetition is folded into one extra iteration |
| death tests | `TypesOK`, `VerdictIsTrue`, `ChildRunsThisOne`, `AllEnd` | two assertions, in a loop on one line or an ASSERT before another; both styles and an unknown one; two turns of `--gtest_repeat` |
| threads | `ReportersAlive`, `DeliveredOnce`, `AllEnd` | two threads, three scopes, two of them nested, one assertion in a statement |
| listeners | `EventsReachAll` | two listeners of the program besides the default ones; three events, two open at once |
| matchers | `MatchersAlive` | three matchers, two payloads, two threads |

Two troubles are what it takes to relate two (a failure masked by a skip, a tear-down
that fails behind a body that threw); three scopes are one nested in another and one
beside it; two payloads and three objects let an assignment drop one payload while
another is shared.

`Text` (deadlock is not checked: an input of the greatest length grows no more):

| property | input | length |
| --- | --- | --- |
| `PatternsMatch` | patterns over a, b, `*`, `?` with names over a, b; filters with `:` and `-`; expressions over eight characters with texts over a and `$` | 5 and 4; 5 and 2; 5 and 2 |
| `DiffApplies` | texts of lines a and b, contexts 1 and 2 | 7 and 6, so that hunks join and split |
| `ReportIsWritten` | paths over `/`, `.`, a in three file systems | 6 |
| `TextReadsBack` | strings over quotes, escapes, digits, control characters, the two bytes of a character that is not ASCII, and the characters XML, JSON and URLs escape; properties in three contexts; all pairs of values of 18 types; values of 0 to 140 elements or bytes, on both sides of every threshold (18, 32, 132) | 4; `]]>` up to 7; 3; 2; 1 |
| `Utf8IsUnicode` | bytes at the edges of every range of UTF-8 | 4 |
| `UlpsAreSteps` | all pairs of numbers with 3 exponent and 2 fraction bits | 64 x 64 |
| `FlagsAreTaken` | 13 arguments, two flag files of which one names the other; variables of the environment | 4; 1 and 3 |
| `AllInstantiated` | 13 registrations of parameterized and typed suites; sizes of generators; lists of test names in every spacing the preprocessor leaves, with three types, two of them the same | 4; 3; 3 |

### Fairness

Simulator: weak fairness of `RunStep` alone: `run_program` is a loop on the caller's
thread and takes its next step. Nothing makes the owner store or call. The abstract
specifications' fairness follows from it and is checked through `ImplementsInverse` and
`ImplementsAddition`.

Google Test: weak fairness of the step of the program, which is one thread; of the
parent, of the child, and of the end of an heir of the pipe, each a process that the
system schedules (a child that loops for ever has no deed among `Deeds`: the parent
would wait for it, as the code does); and of each thread, whose wait for `mutex_` is a
step that is disabled while another holds it. Every thread gives the lock up again and
the scopes are bounded, so weak fairness is enough. `AllEnd` leaves out
`--gtest_repeat` with a negative number, which asks for no end. Nothing is assumed about
listeners and matchers.

## Findings

1. SUBP leaves negative values (`HostSubtract`); `isa.proto:34`.
2. RET goes behind the pc in its register, JAL stores its own pc (`HostReturn`);
   `isa.proto:29-30`.
3. MULP overflows for primes above 3.04e9 (`MultInverseLarge`); `README.md:11`.
4. EC-Zero is recognised by the OR of the coordinates (`PAddMarker`); `padd.h:17`.
5. Doubling a point with y = 0 does not give zero (`PAddTorsion`); `README.md:18-19`.
6. Edits are not always optimal: when adding and removing cost the same, the code
   replaces, even if replacing is dearer (`EditsOptimal`); `gtest-internal.h:168`.

`FieldInverse` and `PointAddition` promise nothing where the code documents nothing:
a modulus that is not a prime, x a multiple of P, points off the curve, primes below
five, a value of zero other than -1, and the doubling of a point with y = 0. The last
two are where the documents promise something and the code does something else; they
have runs of their own.

Smaller disagreements of Google Test's comments with its code, met while modelling and
left out of the properties where these say "left out":

- `GetTestSuite` and `GetMutableSuiteCase` have the same comment and return different
  suites under `--gtest_shuffle` (`gtest-internal-inl.h:586-603`).
- The environment takes any text but `0` for true (`gtest-port.cc:1324`), the command
  line also takes what begins with `f` or `F` for false; `GTEST_FLAGFILE` in the environment has no
  effect on parsing.
- `EXPECT_FATAL_FAILURE_ON_ALL_THREADS` does not see a failure of a thread that has a
  reporter of its own, although `gtest-spi.h:46` says that all are intercepted.
- The list of tests in XML counts all tests at its head and shows the selected ones;
  the list on the console ignores shards.
- The heads of both reports leave the failures of `NonTestSuiteFailure` out; JSON shows
  no skip of a suite; the failures of a suite's set-up are in neither report.
- The brief printer prints no line for a failure outside tests.
- `EscapeJson` returns "an JSON-escaped copy" of a text (`gtest.cc:4513`), but tests a
  `char` with `ch < ' '` (`gtest.cc:4540`): a `char` is signed on x86-64 and on Apple's
  targets, so each byte from 0x80 on becomes `\u00XX`, and a reader of the report gets two
  or more other characters for each one that is not ASCII. `TextReadsBack` says that
  exactly the texts in ASCII come back from JSON; XML and the stream keep all of UTF-8.
- `CodePointToUtf8` encodes the numbers from 0x110000 to 0x1FFFFF in four bytes, which
  its comment calls invalid (`gtest.cc:1968-1970`).
- In JSON a test may get a property named `result`, `timestamp` or `failures`, which it
  has already; the keys of properties are not escaped.
- A printed NUL before a digit is read back as another character (`\0` and the digit
  are one octal escape).
- A simple expression that ends in an escaped dollar sign gets no anchor (`RE::Init`).
- A skip in an environment's set-up: no test runs, the program is green, and its tests
  count as passed.

## Proofs

The theorems are about the specifications of the components, for every value of their
constants. Each rests on an inductive invariant that contains the property or implies
it. Nearly every property fails to be inductive alone; what is missing is below.

### The simulator: `Host`

For every word width, memory size, set of programs and initial memory.

- `ProcessorProofs`, words: every result of an executor is a word; truncation changes
  nothing that fits; the remainder law of C++ (`RemLaw`), for every width, from the laws
  of division that `DivMod` states. `TwosComplement` says that every set of bits is that
  of one word (`BitsDetermineWord`, `NumberWithBits`: by induction over the bits, of
  which the last one is the remainder modulo two); on it rest BitAnd and BitOr,
  `LastBit` and `OrOfAllOnes`.
- `ProcessorProofs`, steps: a lemma for each class of executors says that it keeps the
  members' types (`BinaryTyped`, `UnaryTyped`, `MemoryTyped`, `ControlTyped`), and
  `RunTyped` puts them together for `run_program`, for any addressable program.
  `LabelPassFindsLast` is about the loop that `run_program` begins with. `IsPass` says
  what it does to `labels_` at each instruction; there is one sequence of tables that
  obeys it, by induction over the program (`PassStep`), and it ends in what `LabelPass`
  says: for each label the last instruction that carries it, all other entries as they
  were. That there is a last one (`LastAtFacts`) is an instance of the well-foundedness
  of `<`; that it is the only one is `LastIsOne`.
  `ExecuteKeepsLabels` says that no executor changes an entry of `labels_`.
- `HostFloatProofs`: `TypeCorrect`, `LabelsAreCurrent`, `LabelsOriginate`,
  `JumpsAreCorrect`. The inductive invariant is `IInv`. `LabelsCurrent` alone is not
  inductive: it does not say that the labels of the running program are in
  `labels_`, and a jump to one that is not would insert 0 under it. `LabelsMapped`
  adds that. `FieldOpsAreReduced` proves `FieldOpsReduce` for every width, every
  value of `p_` and every program: a step on residues leaves the C++ remainder of
  the exact result (`FieldStepReduces`), and `RemLaw` says what that is.
- `TestsAlwaysPass` and `ArithmeticIsExact` prove `TestsPass` and `ArithmeticLaws` for
  every width, every set of programs and every earlier use of the object. Both
  properties speak of the end of a program alone; the invariant `TestsInv` says what
  each of the six programs has left at each place it can be at, and which place `BEQ`,
  `JAL` and `JR` lead to (`LabelsMapped` gives the places of the labels). TLC checked it
  on the instance of the run `Host` before. The laws of the executors are lemmas of
  `ProcessorProofs`: `WrapIsCongruent`, `DivisionTruncates`, and `BitwiseSums`, which
  rests on `SumOfBits`: two pairs of words with the same bits in union and in
  intersection have the same sum, by induction over the bits.

### The inverse kernel: `MultInverse`

For every word width, set of inputs and initial memory, and any number of calls.

- Numbers (`ProcessorProofs`). `Same` is congruence. `PowerMod` is the power that is
  reduced after each product, as the last element of the run of its partial products
  (`IsRun`): `RunExists` and `ProductFacts` replace the recursive function, which the
  provers cannot unfold. `EuclidsLemma` is proved by the least counterexample, `Fermat`
  by the argument that the multiples x, 2x, ..., (n-1)x are the residues in another
  order (`MultiplesArePermuted`), so that both products, which are no multiples of n,
  are congruent. `PowerOfSquare` is the identity that the loop rests on.
- `Invariance`. `LoopInvariant` is about one place, and says nothing of the registers
  that the loop only reads. `KernelInvariant` adds `Mapped` (each label of the kernel is
  where the label pass finds it, as long as the call runs), `Called` (the call is about
  an input), `Registers` (which register holds what for good, at each place; between
  `next` and the head of the loop the exponent is halved), `Work` (a bound on the
  instructions executed so far, by the bits of the exponent that are left), and `Value`:
  `LoopValue` says at each of the seven places of the loop that
  R8 * R20^R21 is x^(P-2), where a pending product or square is accounted for, and that
  the products fit. TLC checked `KernelInvariant` on the instance of the run before.
- `LoopIsInvariant` proves `LoopInvariant` as the run checks it, with its recursive
  power (`PowerIsPowerMod`) and its count of instructions. `InversesAreCorrect` is the
  promise of `mult_inverse.h:13-18`: at the return SRAM holds an inverse. It has
  the hypothesis `InputsFit`: for inputs that have an inverse, x^2 and (P-1)^2 are below
  2^63. The hypothesis cannot be dropped: `MultInverseLarge` violates the same property
  with a prime that is larger. The inputs of the run `MultInverse` satisfy it.
  `InverseIsImplemented`: under the same hypothesis the initial states and
  the steps are those of `FieldInverse`, or stutter.

### The addition kernel: `PAdd`

For every word width, set of inputs and initial memory, and any number of stores and
calls: `PAddProofs`, from `KernelInvariant`. The program has 65 instructions and four
ways through it; its parts are proved block by block as the generator emits them.

- Control. `Listing` says which instruction is at which place, and one lemma for each kind of
  instruction what it does there. `Mapped` and `Called` are as in `MultInverse`.
  `Registers` says which registers hold an argument (`Loaded`), what the branches that
  were taken tell of the points (`Path`: a chord has two values of x, a tangent one, a
  call of the subroutine has its way back in R10), and how large the others are
  (`Temporaries`).
- The value. `Near` says that a register is congruent to an expression modulo P and
  between -P and P, which is what SUBP leaves, `Residue` that it is a residue.
  `Fraction`, `Inverse` and `Line` say at each place of which expression: the
  numerator in R14 or R16 and the denominator in R20, the loop of the subroutine, and
  the terms of the third point. The subroutine is the inverse kernel's loop with other
  registers and places; `LoopValue` and the lemmas that keep it are in
  `ProcessorProofs` and serve both kernels.
- The answer. `Fermat` makes what the loop leaves an inverse; P is a prime above three
  and the denominator is no multiple of it (`Path`, and no doubling of y = 0), so
  the quotient is the one slope in 0..P-1 that solves the equation of `Curve`
  (`SlopeIsUnique`, by `EuclidsLemma`); `LineMeetsCurve` is the identity by which the
  third intersection is on the curve.
- `CallersAreKept`, `ResultsAreOnCurve` and `AdditionIsImplemented` have the hypothesis
  `InputsFit`: for well-posed inputs, (P-1)^2 < 2^63 and a + P <= 2^63, the second since
  the curve's parameter is added as the owner gave it (`padd.h:326-331`), before
  anything reduces it. As with the inverse kernel it cannot be dropped
  (`MultInverseLarge`): MULP multiplies before it reduces. The inputs of the run `PAdd`
  satisfy it. `TypeCorrect` and `Invariance` do without it.
- `AdditionIsImplemented` also says that no instruction traps but an ADDP, SUBP or MULP
  whose modulus is 0 or -1, which `PointAddition` allows an owner to bring about.

### Both kernels on one object: `Session`

For every word width, curve, point of it, set of numbers to invert and initial memory,
and any number of calls: `SessionProofs`, from `SessionInvariant`.

- The two kernels' proofs are taken over, not repeated: `InverseCall` and `SumCall` are
  instances of `MultInverseProofs` and `PAddProofs` on the variables of the session,
  whose inputs are the words that the owner may store. `SameMachine` and `SamePrograms`
  say that they speak of the same executors and instructions; `InverseMayBeCalled` and
  `SumMayBeCalled` that their assumptions hold here.
- `Inversion` and `Summation` say that while a program runs, the invariant of its kernel
  holds of the object. The call brings it about, whatever the other kernel left in
  registers, labels and prime (`CallKeeps`), and every step keeps it (`RunStepKeeps`),
  both by `InverseCallKept` and `SumCallKept`. At the return it gives what the kernel
  promises (`InverseAnswered`, `SumAnswered`).
- `MultiplesAreReached` needs `DoublingLaw`: the double of a multiple of the point is
  that many times two of it. That is the associativity of the group law, a fact of
  curves and not of the program; TLC evaluates it on the curve of the run. What is
  proved with it is about the program: that zero in each of its forms, the point itself
  and its opposite take the way through the code that the group law asks for, in
  either order, and that what comes back may be stored again (`Means`).
  `CurveAssumption` excludes a point with y = 0, whose double the kernel gets wrong
  (`PAddTorsion`). `SessionBounds` says that P^2 and P + a fit, as `InputsFit` does
  for `PAdd`.
- `InversesBetween` has the hypothesis `InversesFit`, the `InputsFit` of `MultInverse`.
  TLC evaluates it on the numbers of the run.

### The run of a program: `TestRun`

For every list of registered tests, number of environments, set of command lines, way of
user code to end and number of troubles, with any seed.

- The first part of `TestRunProofs` is about the data. Registration is a fold (`Registered`), and so is a
  shuffle (`ShuffleRange`). What a fold computes is proved by `Induction`, a principle
  over sets of numbers that follows from the well-foundedness of `<`: `FoldExists` and
  the lemma of its step are applied to the set of prefixes for which the fold is right.
  `RegistrationListsAll` says that registration lists each suite and each test once,
  the death test suites first; `ShuffleListsAll` that a shuffle permutes the tests
  within their suite and the suites within the two classes, whatever is drawn.
- The second part: `RunTypeCorrect`, `GreenIsTrue`, `SetUpIsPaired`, `FailFastHolds`,
  `NoTestForgotten`, `ShardsArePartition`. The inductive invariant `RunInv` has a part
  for each, and parts that these lean on:
  - `RunTyped` says that the order lists all (`ListsAll`), so that an index is one of a
    test; `Position` which suite and test are current at each place. Without it a part
    could go to another result than the one that is looked at.
  - `Repeats` counts iterations: whether environments are torn down depends on it.
  - `FailuresKept`: a failure is in the results of this iteration or already in `failed`.
    "Green means passed" says nothing of the iterations behind.
  - `Exits`: only the end of the program sets a status. It includes `GreenMeansPassed`.
  - `Stacked` says exactly what is open at each place; `Paired` follows.
  - `FailsFast`: whose results may hold a failure while a test's code runs.
  - `Progress`: what lies before the loops' indices has been run or skipped.

  All calls of user code are reduced to one form, `UserStep`: parts are added to the
  results of what is current (`Reports`), and the control ends, stays or goes on
  (`Ending`, `Staying`, `Going`); each part of the invariant is proved once for that
  (`UserKeeps`). The framework's own steps have a lemma each.
- `OrderIsOfSeed` needs a second invariant over the first, `InOrder`: the tests that
  have run lie before the place of the two loops in the order of this iteration, and
  that order is the one of its seed.

### Death tests: `DeathTest`

For every set of bodies, deeds and start-ups, and any number of turns: `DeathTypeCorrect`,
`VerdictCorrect`, `ChildCorrect`, from `DeathInv`. The verdict looks at an outcome and
a status that the parent has; that these are the child's is what the other parts say, in
the order in which the news travels: `StatementOnce` (what the child did, and which byte
it is about to write), `PipeTells` (which byte is in the pipe, and that it stays there
until it is read), `OutcomeTells` (what the parent made of a byte, or of the end of the
file, which it sees only when nobody holds the write end any more). `ParentCounts` and
`ChildOnTrack` say that both processes count the same assertions, so that the child
of the threadsafe style stops at the one that its parent waits for.

### Reporters and threads: `Reporters`

For any number of threads and scopes: `NoReporterOutlives` and `PartsDeliveredOnce`, from
`RepInv`. `Stacks` says that the reporter of a thread is that of its innermost scope and
that each scope saved the one that was in force around it, so that the end of the
innermost one restores a reporter that is alive; `GlobalInForce` the same for all
threads; `Apart` that the scopes of two threads are different. `OnTheWay` says how far
through the reporters a part has come, and that every watcher on its way has seen it;
`Numbered`, `Reporting`, `Arrived` and `Noticed` relate the parts that are due to those
that were kept.

### Listeners: `Listeners`

For any set of listeners and number of events: `ListenersHearAll`, from `LisInv`.
`EventsReachAll` speaks of what was heard when an event is over; `HeardAll` says in the
midst of one who has heard it (`HasPassed`: whoever lies behind the index), and
`InTurn` that those who were told lie there too, even if the list has grown or a listener
has taken itself out, which moves its neighbours under the index. `NoDoubles` is what makes
`Release` take out all there is of a listener, and `Beginning` what makes
`PostFlagParsingInit` safe: a default printer that it deletes is in the list only once.

### Matchers: `Matchers`

For any number of threads and matchers: `MatchersSafe`, from `MatInv`. The property
relates counts to holders when the threads are at rest; between the steps of a copy or
an assignment they differ. `Shapes` says which steps each thread has left, `Apart`
that two threads work on different objects, and `Counts` that a count is the number of
the objects that are settled holders, of the payloads that hold it inside, and of the
threads that owe it a step up or down; `Lives` that what counts zero is deleted, or
exactly one thread is about to delete it.

### Comparison of floats: `FloatCompare`

For any numbers of bits of exponent and fraction, and any bound: `UlpsAreStepsOfAnyFormat`
in `HostFloatProofs`, which is what `UlpsAreSteps` checks for one small format. `Position`
counts the numbers from zero, upwards and downwards; a biased number is its position plus
the sign bit (`PositionFacts`), so the distance of biased numbers is that of positions.
`SizeGrows` says that the next magnitude stands for more, within an exponent and at
its change (`NextFields`); by induction on the distance the values lie in the order of
the positions (`SizeAtIncreases`). Every position up to that of infinity is a number's
(`RepresentableAre`), and none beyond it, so that as many numbers lie on the way as there
are positions (`UlpsAreDistance`, by the bijection between them).

### Assumptions

`WordBitsAssumption`: a word has at least one bit. `PowersOfTwo` and, for `FloatCompare`, `FormatPowers` are arithmetic: the
provers do not reason about exponents. `PcAssumption`: a pc is narrower than a word.
`NoLabelAssumption`, `InverseLabels` and `AddLabels` say that the labels, which are literals, are strings.
`SessionLabels` says the same of both kernels' labels in `Session`.
`InputsAssumption` and `WordsAssumption`: the owner stores words; `CurveAssumption` and
`SessionBounds`: see `Session`; `KernelFits`: the registers and addresses
that the kernel names exist, and pc counts its instructions. `ProgramsAssumption` bounds a program's length by what `pc_` can count.
`TestsFit`: the registers, the address 23 and the place 101 that the four tests name exist.
`RegisteredAssumption`: what stands for a test in a registration stands for one
`TestInfo` object, and no test or suite is the null pointer.
`UsersAssumption`: a program does not append the listeners that the framework makes
itself. `DeedsAssumption`: the kinds of deeds are those that the macro tells apart.
`ReportersAssumption` and `MatchersAssumption`: there is a main thread; threads
and objects are finite in number. `BodiesAssumption`, `FlagsAssumption`,
`OutcomesAssumption`, `HostWritesAssumption`, `BootAssumption` and `SizeAssumption` are
the types of the parameters. TLC evaluates all of them on the instances.

### Only model-checked

- Liveness (`RunsEnd`, `CallsReturn`, `AllEnd`, the fairness of the abstract
  specifications): temporal properties under fairness are beyond the prover. Of
  `ImplementsInverse` and `ImplementsAddition` the safety part is proved.
- `DoublingLaw`, the hypothesis of one theorem of `Session`: the associativity of the
  group law for every curve is a polynomial identity out of the provers' reach.
- `ListingTells`, which is about the text of the two programs.
- `WritesTell`: the three places where a run is told of are folds over its history.
- `TypesOK` puts together the types of `TestRun` and `DeathTest`, each of which is a
  theorem about its own specification; nothing is proved about the composition.
- All properties of `Text`, except that the law of `UlpsAreSteps` is proved for every
  format, as a theorem about its operators. What the recursive functions of these modules compute for
  every input is induction over data, for which the library's theorems take an operator
  as a parameter; the set-form induction of `TestRunProofs` covers folds, and could
  serve for those of `Flags` and `Filter`. Some of these modules declare RECURSIVE
  operators and can hold no theorems.

## Not modelled

- Assertion macros and comparison helpers: dispatch by templates and overloads at
  compile time; there is no state. Of the value printers (`Values`), numbers and
  `std::any`; which overload of `PrintTo` a type has is given by the kind of a value.
- What the predefined matchers match and describe: each is one comparison.
- Code for Windows, Fuchsia, QNX, Zircon and other platforms than `build.sh` compiles
  for; failing system calls other than `exec`; sockets.
- `--gtest_break_on_failure`, colours, times, stack traces, and the layout of messages.
- A listener that makes an assertion in `OnTestPartResult` (it waits for `mutex_`, which
  its own thread holds), a matcher assigned from one inside its own payload, and
  overlapping scopes for all threads: excluded by the disciplines above.
- A missing directory for the premature-exit file (`fwrite` on a null `FILE*`), and the
  race of two programs for one name of a report.
- Build scripts and the protobuf runtime.

## Plan

1. The lines of the `Console` (`WritesTell`) by the induction of `TestRunProofs`.

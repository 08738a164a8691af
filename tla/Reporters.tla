----------------------------- MODULE Reporters -----------------------------
(***************************************************************************)
(* Who is told of a failure when several threads assert (gtest.cc,          *)
(* gtest-test-part.cc, gtest-spi.h): AddTestPartResult, the reporter of each *)
(* thread and the global one, and the scopes that put another reporter in   *)
(* place or a trace on the stack:                                           *)
(*   "current" and "all": EXPECT_(NON)FATAL_FAILURE(_ON_ALL_THREADS), which *)
(*     hold a ScopedFakeTestPartResultReporter and a SingleFailureChecker;  *)
(*   "no_fatal": ASSERT_ and EXPECT_NO_FATAL_FAILURE;                       *)
(*   "trace": SCOPED_TRACE.                                                 *)
(* Discipline of the tests: the statement in a scope joins the threads that *)
(* it starts, and a thread opens and closes a scope for all threads while   *)
(* no other one runs.                                                       *)
(***************************************************************************)
EXTENDS Integers, FiniteSets, SequencesExt

CONSTANTS
  Threads, MainThread,
  Kinds,       \* of the assertions: subset of {"success", "nonfatal", "fatal"}
  Types,       \* of the failures that scopes expect or report: subset of {"nonfatal", "fatal"}
  MaxDepth,    \* bound: scopes of a thread that are open at once
  MaxScopes,   \* bound: scopes that are opened
  MaxParts     \* bound: assertions of the statements in them

ASSUME ReportersAssumption == MainThread \in Threads /\ MaxScopes \in Nat

Nobody == "nobody"
DefaultThread == <<"DefaultPerThread", 0>>
DefaultGlobal == <<"DefaultGlobal", 0>>
Fake(id) == <<"ScopedFake", id>>
Helper(id) == <<"HasNewFatalFailure", id>>

VARIABLES
  doing,            \* where each thread is
  mutex_,        \* who holds UnitTest::mutex_
  global_test_part_result_reporter_,
  per_thread_test_part_result_reporter_,
  gtest_trace_stack_,
  scopes,        \* the open scopes of each thread
  opened,        \* how many were opened: the identity of the last one
  has_new_fatal_failure_,   \* the helpers that have seen one
  test_part_results,   \* of the test, at 0, and of each scope's array
  part, reporter,      \* of a thread in AddTestPartResult: what is reported, and to whom next
  depth,         \* of a thread that was started: how deep in its scopes MainThread was
  said,          \* assertions of the statements so far
  due            \* history: of all parts that were reported, who should get them

reporters == <<global_test_part_result_reporter_, per_thread_test_part_result_reporter_>>
reporting == <<mutex_, part, reporter>>
repVars == <<doing, reporters, reporting, gtest_trace_stack_, scopes, opened, has_new_fatal_failure_,
             test_part_results, depth, said, due>>

NoPart == [kind |-> "none", by |-> Nobody, number |-> 0]

OpenIn(open, t) == {open[t][k] : k \in DOMAIN open[t]}
OpenScopes == UNION {OpenIn(scopes, t) : t \in Threads}
Scope(id) == CHOOSE scope \in OpenScopes : scope.id = id

(***************************************************************************)
(* Who should get what a thread reports while these scopes are open: the    *)
(* innermost one for that thread alone, else the innermost one for all      *)
(* threads, else the test.  And which scopes watch it.                      *)
(***************************************************************************)
Ids(S, kind) == {scope.id : scope \in {s \in S : s.kind = kind}}
Greatest(S) == IF S = {} THEN 0 ELSE CHOOSE id \in S : \A other \in S : other <= id

Due(open, t, p) ==
  LET own == OpenIn(open, t)
      fake == Greatest(Ids(own, "current"))
  IN  [part |-> p,
       place |-> IF fake # 0 THEN fake ELSE Greatest(UNION {Ids(OpenIn(open, u), "all") : u \in Threads}),
       traces |-> Ids(own, "trace"),
       watching |-> {id \in Ids(own, "no_fatal") : id > fake}]

RepInit ==
  /\ doing = [t \in Threads |-> IF t = MainThread THEN "runs" ELSE "not started"]
  /\ mutex_ = Nobody
  /\ global_test_part_result_reporter_ = DefaultGlobal
  /\ per_thread_test_part_result_reporter_ = [t \in Threads |-> DefaultThread]
  /\ gtest_trace_stack_ = [t \in Threads |-> <<>>]
  /\ scopes = [t \in Threads |-> <<>>] /\ opened = 0
  /\ has_new_fatal_failure_ = {} /\ test_part_results = [id \in 0 .. MaxScopes |-> <<>>]
  /\ part = [t \in Threads |-> NoPart] /\ reporter = [t \in Threads |-> DefaultThread]
  /\ depth = [t \in Threads |-> 0] /\ said = 0 /\ due = {}

(***************************************************************************)
(* AddTestPartResult.  All of it runs with mutex_ held.                     *)
(***************************************************************************)
\* The thread comes to an assertion of this kind, with these scopes around it.
Report(t, kind, open) ==
  LET p == [kind |-> kind, by |-> t, number |-> Cardinality(due) + 1]
  IN  /\ doing' = [doing EXCEPT ![t] = "reports"]
      /\ part' = [part EXCEPT ![t] = p]
      /\ due' = due \cup {Due(open, t, p)}

AddTestPartResult(t) ==
  /\ doing[t] = "runs" /\ said < MaxParts
  /\ \E kind \in Kinds : Report(t, kind, scopes)
  /\ said' = said + 1
  /\ UNCHANGED <<reporters, mutex_, reporter, gtest_trace_stack_, scopes, opened,
                 has_new_fatal_failure_, test_part_results, depth>>

Lock(t) ==
  /\ doing[t] = "reports" /\ mutex_ = Nobody
  /\ mutex_' = t /\ doing' = [doing EXCEPT ![t] = "in reporter"]
  /\ reporter' = [reporter EXCEPT ![t] = per_thread_test_part_result_reporter_[t]]
  /\ UNCHANGED <<reporters, part, gtest_trace_stack_, scopes, opened, has_new_fatal_failure_,
                 test_part_results, depth, said, due>>

\* Fault: any failure is taken for a fatal one.
AnyFailure(p) == p.kind # "success"
FatallyFailed(p) == p.kind = "fatal"

\* HasNewFatalFailureHelper passes the part on.
HelperReports(t) ==
  /\ doing[t] = "in reporter" /\ reporter[t][1] = "HasNewFatalFailure"
  /\ has_new_fatal_failure_' =
       has_new_fatal_failure_ \cup (IF FatallyFailed(part[t]) THEN {reporter[t][2]} ELSE {})
  /\ reporter' = [reporter EXCEPT ![t] = Scope(reporter[t][2]).original]
  /\ UNCHANGED <<doing, reporters, mutex_, part, gtest_trace_stack_, scopes, opened,
                 test_part_results, depth, said, due>>

ThreadReports(t) ==
  /\ doing[t] = "in reporter" /\ reporter[t] = DefaultThread
  /\ reporter' = [reporter EXCEPT ![t] = global_test_part_result_reporter_]
  /\ UNCHANGED <<doing, reporters, mutex_, part, gtest_trace_stack_, scopes, opened,
                 has_new_fatal_failure_, test_part_results, depth, said, due>>

\* Fault: the lock is kept where the part is intercepted.
KeepWhenFake(t) == mutex_' = IF reporter[t][1] = "ScopedFake" THEN mutex_ ELSE Nobody
Unlock(t) == mutex_' = Nobody

\* A fake or the global one keeps the part, with the traces of the thread in its
\* message; AddTestPartResult returns.
KeeperReports(t) ==
  /\ doing[t] = "in reporter" /\ reporter[t][1] \in {"ScopedFake", "DefaultGlobal"}
  /\ test_part_results' = [test_part_results EXCEPT ![reporter[t][2]] =
       Append(@, [part |-> part[t], traces |-> gtest_trace_stack_[t]])]
  /\ Unlock(t)
  /\ doing' = [doing EXCEPT ![t] = "runs"]
  /\ part' = [part EXCEPT ![t] = NoPart]
  /\ UNCHANGED <<reporters, reporter, gtest_trace_stack_, scopes, opened, has_new_fatal_failure_,
                 depth, said, due>>

(***************************************************************************)
(* Scopes.                                                                  *)
(***************************************************************************)
Alone(t) == \A other \in Threads \ {t} : doing[other] \in {"not started", "done"}

Enter(t, kind, type, original) ==
  scopes' = [scopes EXCEPT ![t] =
    Append(@, [id |-> opened + 1, kind |-> kind, type |-> type, original |-> original])]

SetThread(t, r) ==
  /\ per_thread_test_part_result_reporter_' = [per_thread_test_part_result_reporter_ EXCEPT ![t] = r]
  /\ UNCHANGED global_test_part_result_reporter_
SetGlobal(r) ==
  /\ global_test_part_result_reporter_' = r
  /\ UNCHANGED per_thread_test_part_result_reporter_

\* PushGTestTrace holds mutex_ from its first step to its last.
OpenTrace(t) ==
  /\ mutex_ = Nobody
  /\ Enter(t, "trace", "none", DefaultThread)
  /\ gtest_trace_stack_' = [gtest_trace_stack_ EXCEPT ![t] = Append(@, opened + 1)]
  /\ UNCHANGED reporters

OpenForThread(t) ==
  /\ \E type \in Types :
       \/ /\ Enter(t, "current", type, per_thread_test_part_result_reporter_[t])
          /\ SetThread(t, Fake(opened + 1))
       \/ /\ Enter(t, "no_fatal", type, per_thread_test_part_result_reporter_[t])
          /\ SetThread(t, Helper(opened + 1))
  /\ UNCHANGED gtest_trace_stack_

OpenForAll(t) ==
  /\ Alone(t)
  /\ \E type \in Types : Enter(t, "all", type, global_test_part_result_reporter_)
  /\ SetGlobal(Fake(opened + 1))
  /\ UNCHANGED gtest_trace_stack_

OpenScope(t) ==
  /\ doing[t] = "runs" /\ Len(scopes[t]) < MaxDepth /\ opened < MaxScopes
  /\ OpenTrace(t) \/ OpenForThread(t) \/ OpenForAll(t)
  /\ opened' = opened + 1
  /\ UNCHANGED <<doing, reporting, has_new_fatal_failure_, test_part_results, depth, said, due>>

\* Fault: what the thread began with is put back.
RestoreDefault(t, scope) == SetThread(t, DefaultThread)
RestoreThread(t, scope) == SetThread(t, scope.original)

\* Fault: a scope for all threads puts the thread's reporter back.
RestoreWrong(t, scope) == SetThread(t, DefaultThread)
RestoreGlobal(t, scope) == SetGlobal(scope.original)

HasOneFailure(results, type) == Len(results) = 1 /\ results[1].part.kind = type

\* What comes behind the scope: the SingleFailureChecker's assertion that there
\* was one failure, which says nothing when it holds, or the ASSERT_ or EXPECT_
\* of NO_FATAL_FAILURE.  That comes outside of the scope.
Complaint(scope) ==
  CASE scope.kind \in {"current", "all"} /\ ~HasOneFailure(test_part_results[scope.id], scope.type)
         -> {"nonfatal"}
    [] scope.kind = "no_fatal" /\ scope.id \in has_new_fatal_failure_ -> {scope.type}
    [] OTHER -> {}

\* The threads that were started in the innermost scope of MainThread.
StartedHere(t) == {u \in Threads \ {MainThread} : t = MainThread /\ depth[u] = Len(scopes[MainThread])}

CloseScope(t) ==
  /\ doing[t] = "runs" /\ scopes[t] # <<>>
  /\ \A u \in StartedHere(t) : doing[u] \in {"not started", "done"}
  /\ LET scope == Last(scopes[t])
     IN  /\ scopes' = [scopes EXCEPT ![t] = Front(@)]
         /\ CASE scope.kind \in {"current", "no_fatal"} -> RestoreThread(t, scope)
              [] scope.kind = "all" -> Alone(t) /\ RestoreGlobal(t, scope)
              [] scope.kind = "trace" -> mutex_ = Nobody /\ UNCHANGED reporters
         /\ gtest_trace_stack_' =
              IF scope.kind = "trace" THEN [gtest_trace_stack_ EXCEPT ![t] = Front(@)]
              ELSE gtest_trace_stack_
         /\ IF Complaint(scope) = {} THEN UNCHANGED <<doing, part, due>>
            ELSE \E kind \in Complaint(scope) : Report(t, kind, scopes')
  /\ UNCHANGED <<mutex_, reporter, opened, has_new_fatal_failure_, test_part_results, depth, said>>

(***************************************************************************)
(* Threads.  A new thread finds the default reporter and no traces: Thread- *)
(* Local makes a value when a thread first asks for it.                     *)
(***************************************************************************)
Start ==
  /\ doing[MainThread] = "runs"
  /\ \E t \in Threads \ {MainThread} :
       /\ doing[t] = "not started"
       /\ doing' = [doing EXCEPT ![t] = "runs"]
       /\ depth' = [depth EXCEPT ![t] = Len(scopes[MainThread])]
  /\ UNCHANGED <<reporters, reporting, gtest_trace_stack_, scopes, opened, has_new_fatal_failure_,
                 test_part_results, said, due>>

Finish(t) ==
  /\ doing[t] = "runs" /\ scopes[t] = <<>>
  /\ t = MainThread => Alone(MainThread)
  /\ doing' = [doing EXCEPT ![t] = "done"]
  /\ UNCHANGED <<reporters, reporting, gtest_trace_stack_, scopes, opened, has_new_fatal_failure_,
                 test_part_results, depth, said, due>>

Thread(t) ==
  \/ AddTestPartResult(t) \/ Lock(t) \/ HelperReports(t) \/ ThreadReports(t) \/ KeeperReports(t)
  \/ OpenScope(t) \/ CloseScope(t) \/ Finish(t)

AllDone == doing[MainThread] = "done" /\ UNCHANGED repVars

RepNext == Start \/ AllDone \/ \E t \in Threads : Thread(t)

\* Each thread is scheduled as long as it can go on, and its test is finite.
RepSpec == RepInit /\ [][RepNext]_repVars /\ \A t \in Threads : WF_repVars(Thread(t))

(***************************************************************************)
(* Properties.                                                              *)
(***************************************************************************)
\* No reporter outlives its scope: neither as the global reporter, nor as that
\* of a thread, nor as the one that another scope will put back, nor in the
\* hands of a thread that is about to call it.
ReportersAlive ==
  LET ofThread == {per_thread_test_part_result_reporter_[t] : t \in Threads}
      saved    == {scope.original : scope \in OpenScopes}
      called   == {reporter[t] : t \in {u \in Threads : doing[u] = "in reporter"}}
      alive    == {DefaultThread, DefaultGlobal} \cup {Fake(scope.id) : scope \in OpenScopes}
                    \cup {Helper(scope.id) : scope \in OpenScopes}
  IN  {global_test_part_result_reporter_} \cup ofThread \cup saved \cup called \subseteq alive

Delivered(d) == \A t \in Threads : part[t] # d.part
Places(d) ==
  LET found(id) == {k \in DOMAIN test_part_results[id] : test_part_results[id][k].part = d.part}
  IN  UNION {{id} \X found(id) : id \in 0 .. MaxScopes}

\* A part goes to exactly one place, the one that is due to it when it is
\* reported, once, with the traces of its own thread, whatever the others do;
\* and NO_FATAL_FAILURE sees the fatal failures of its own thread that no scope
\* inside of it is there to catch, and nothing else.
DeliveredOnce ==
  /\ \A d \in due :
       IF Delivered(d)
       THEN \E k \in DOMAIN test_part_results[d.place] :
              /\ Places(d) = {<<d.place, k>>}
              /\ {test_part_results[d.place][k].traces[j] :
                    j \in DOMAIN test_part_results[d.place][k].traces} = d.traces
       ELSE Places(d) = {}
  /\ \A id \in 1 .. opened :
       LET fatal == {d \in due : d.part.kind = "fatal" /\ id \in d.watching}
       IN  /\ id \in has_new_fatal_failure_ => fatal # {}
           /\ (\E d \in fatal : Delivered(d)) => id \in has_new_fatal_failure_

\* Every thread got the lock when it needed it, and the test is over.
ThreadsEnded == doing[MainThread] = "done"
=============================================================================

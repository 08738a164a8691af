----------------------- MODULE ReporterListenerProofs -----------------------
(***************************************************************************)
(* The theorems about who is told of a failure.  Of the reporters, for any  *)
(* set of threads and any number of scopes: no reporter outlives its scope, *)
(* and each part is told to the one place that is due to it, once.  Of the  *)
(* list of listeners, however many the program has and however many events  *)
(* there are: each one hears every event from its first one on, once and in *)
(* its turn, and none that was deleted is told.                             *)
(***************************************************************************)
EXTENDS Reporters, Listeners, FiniteSetTheorems, SequenceTheorems, WellFoundedInduction, TLAPS

Active == {"runs", "reports", "in reporter"}
Busy == {"reports", "in reporter"}
ThreadKinds == {"current", "no_fatal"}
AllKinds == {"all"}

AnyReporter ==
  {DefaultThread, DefaultGlobal} \cup {Fake(id) : id \in Nat} \cup {Helper(id) : id \in Nat}
AnyScope ==
  [id : Nat, kind : {"current", "no_fatal", "all", "trace"}, type : Types \cup {"none"},
   original : AnyReporter]

(***************************************************************************)
(* The stack of scopes of one thread.  Each scope that puts a reporter in   *)
(* place saves the one that was in force: that of the scope of its kind     *)
(* next below, or else the default.                                         *)
(***************************************************************************)
ReporterOf(scope) == IF scope.kind = "no_fatal" THEN Helper(scope.id) ELSE Fake(scope.id)

\* Of the scopes of these kinds among the n outermost, r is the reporter of the innermost.
InForce(s, n, kinds, default, r) ==
  \/ r = default /\ \A k \in 1 .. n : s[k].kind \notin kinds
  \/ \E j \in 1 .. n :
       /\ s[j].kind \in kinds /\ r = ReporterOf(s[j])
       /\ \A k \in j + 1 .. n : s[k].kind \notin kinds

Increasing(numbers) == \A j, k \in 1 .. Len(numbers) : j < k => numbers[j] < numbers[k]

Saved(s, k) ==
  /\ s[k].kind \in ThreadKinds => InForce(s, k - 1, ThreadKinds, DefaultThread, s[k].original)
  /\ s[k].kind = "all" => InForce(s, k - 1, AllKinds, DefaultGlobal, s[k].original)
  /\ s[k].kind = "trace" => s[k].original = DefaultThread

\* The scopes, the reporter and the traces of a thread, when n scopes were opened in all.
Stack(s, r, traces, n) ==
  /\ s \in Seq(AnyScope) /\ traces \in Seq(Nat)
  /\ \A k \in 1 .. Len(s) : s[k].id \in 1 .. n
  /\ \A j, k \in 1 .. Len(s) : j < k => s[j].id < s[k].id
  /\ InForce(s, Len(s), ThreadKinds, DefaultThread, r)
  /\ \A k \in 1 .. Len(s) : Saved(s, k)
  /\ Increasing(traces)
  /\ \A x : (\E j \in 1 .. Len(traces) : traces[j] = x) <=>
              \E k \in 1 .. Len(s) : s[k].kind = "trace" /\ s[k].id = x

LEMMA PushFacts ==
  ASSUME NEW R, NEW s \in Seq(R), NEW e \in R
  PROVE  /\ Append(s, e) \in Seq(R) /\ Len(Append(s, e)) = Len(s) + 1 /\ Len(s) \in Nat
         /\ Append(s, e)[Len(s) + 1] = e /\ Append(s, e) # <<>>
         /\ \A k \in 1 .. Len(s) : Append(s, e)[k] = s[k]
OBVIOUS

LEMMA PopFacts ==
  ASSUME NEW R, NEW s \in Seq(R), s # <<>>
  PROVE  /\ Front(s) \in Seq(R) /\ Len(Front(s)) = Len(s) - 1 /\ Len(s) \in Nat /\ Len(s) >= 1
         /\ \A k \in 1 .. Len(s) - 1 : Front(s)[k] = s[k]
         /\ Last(s) = s[Len(s)] /\ s[Len(s)] \in R
<1>1. /\ Len(s) \in Nat /\ Len(s) >= 1 /\ 1 \in Int /\ Len(s) - 1 \in Int
      /\ \A k \in 1 .. Len(s) - 1 : s[k] \in R
  OBVIOUS
<1>2. /\ SubSeq(s, 1, Len(s) - 1) \in Seq(R) /\ Len(SubSeq(s, 1, Len(s) - 1)) = Len(s) - 1
      /\ \A k \in 1 .. Len(s) - 1 : SubSeq(s, 1, Len(s) - 1)[k] = s[k]
  <2> DEFINE l == Len(s) - 1
             u == SubSeq(s, 1, l)
  <2>1. /\ u \in Seq(R) /\ Len(u) = (IF 1 <= l THEN l - 1 + 1 ELSE 0)
        /\ \A k \in 1 .. l - 1 + 1 : u[k] = s[1 + k - 1]
    <3>1. l \in Int /\ \A k \in 1 .. l : s[k] \in R
      BY <1>1
    <3> HIDE DEF l
    <3>2. QED
      BY <3>1, SubSeqProperties
  <2>2. l \in Nat
    BY <1>1
  <2> HIDE DEF l, u
  <2>3. u \in Seq(R) /\ Len(u) = l /\ \A k \in 1 .. l : u[k] = s[k]
    BY <2>1, <2>2
  <2>4. QED
    BY <2>3 DEF l, u
<1>3. QED
  BY <1>1, <1>2 DEF Front, Last

\* Which reporter is in force depends on the scopes below alone.
LEMMA InForceSame ==
  ASSUME NEW s, NEW u, NEW n \in Nat, \A k \in 1 .. n : s[k] = u[k],
         NEW kinds, NEW default, NEW r
  PROVE  InForce(s, n, kinds, default, r) <=> InForce(u, n, kinds, default, r)
<1>1. (\A k \in 1 .. n : s[k].kind \notin kinds) <=> (\A k \in 1 .. n : u[k].kind \notin kinds)
  OBVIOUS
<1>2. ASSUME NEW j \in 1 .. n
      PROVE  /\ s[j] = u[j]
             /\ (\A k \in j + 1 .. n : s[k].kind \notin kinds) <=> (\A k \in j + 1 .. n : u[k].kind \notin kinds)
  OBVIOUS
<1>3. QED
  BY <1>1, <1>2 DEF InForce

\* A scope on top is in force, or changes nothing.
LEMMA InForceNext ==
  ASSUME NEW s, NEW n \in Nat, NEW kinds, NEW default
  PROVE  /\ s[n + 1].kind \in kinds => InForce(s, n + 1, kinds, default, ReporterOf(s[n + 1]))
         /\ s[n + 1].kind \notin kinds =>
              \A r : InForce(s, n + 1, kinds, default, r) <=> InForce(s, n, kinds, default, r)
<1>1. \A k : k \in 1 .. n + 1 <=> k \in 1 .. n \/ k = n + 1
  OBVIOUS
<1>2. \A j \in 1 .. n : \A k : k \in j + 1 .. n + 1 <=> k \in j + 1 .. n \/ k = n + 1
  OBVIOUS
<1>3. (n + 1) + 1 .. n + 1 = {} /\ n + 1 \in 1 .. n + 1
  OBVIOUS
<1>4. ASSUME s[n + 1].kind \in kinds
      PROVE  InForce(s, n + 1, kinds, default, ReporterOf(s[n + 1]))
  BY <1>3, <1>4 DEF InForce
<1>5. ASSUME s[n + 1].kind \notin kinds, NEW r
      PROVE  InForce(s, n + 1, kinds, default, r) <=> InForce(s, n, kinds, default, r)
  <2>1. (\A k \in 1 .. n + 1 : s[k].kind \notin kinds) <=> (\A k \in 1 .. n : s[k].kind \notin kinds)
    BY <1>1, <1>5
  <2>2. \A j \in 1 .. n : (\A k \in j + 1 .. n + 1 : s[k].kind \notin kinds)
                            <=> (\A k \in j + 1 .. n : s[k].kind \notin kinds)
    BY <1>2, <1>5
  <2>3. QED
    BY <1>1, <1>5, <2>1, <2>2 DEF InForce
<1>6. QED
  BY <1>4, <1>5

LEMMA SavedSame ==
  ASSUME NEW s, NEW u, NEW n \in Nat, \A k \in 1 .. n : s[k] = u[k], NEW k \in 1 .. n
  PROVE  Saved(s, k) <=> Saved(u, k)
<1>1. k - 1 \in Nat /\ (\A i \in 1 .. k - 1 : s[i] = u[i]) /\ s[k] = u[k]
  OBVIOUS
<1>2. \A kinds, default, r : InForce(s, k - 1, kinds, default, r) <=> InForce(u, k - 1, kinds, default, r)
  BY <1>1, InForceSame
<1>3. QED
  BY <1>1, <1>2 DEF Saved

\* A scope is opened: what it saves is in force below it.
LEMMA Pushed ==
  ASSUME NEW s, NEW r, NEW traces, NEW n \in Nat, Stack(s, r, traces, n),
         NEW e \in AnyScope, e.id = n + 1, NEW r2, NEW traces2,
         \/ e.kind \in ThreadKinds /\ e.original = r /\ r2 = ReporterOf(e) /\ traces2 = traces
         \/ /\ e.kind = "all" /\ InForce(s, Len(s), AllKinds, DefaultGlobal, e.original)
            /\ r2 = r /\ traces2 = traces
         \/ /\ e.kind = "trace" /\ e.original = DefaultThread
            /\ r2 = r /\ traces2 = Append(traces, n + 1)
  PROVE  Stack(Append(s, e), r2, traces2, n + 1)
<1> DEFINE u == Append(s, e)
           m == Len(s)
<1>1. /\ s \in Seq(AnyScope) /\ u \in Seq(AnyScope) /\ Len(u) = m + 1 /\ m \in Nat /\ u[m + 1] = e
      /\ \A k \in 1 .. m : u[k] = s[k]
  BY PushFacts DEF Stack
<1> HIDE DEF u, m
<1>2. /\ traces \in Seq(Nat) /\ n + 1 \in Nat
      /\ \A k \in 1 .. m : s[k].id \in 1 .. n
      /\ \A j, k \in 1 .. m : j < k => s[j].id < s[k].id
      /\ InForce(s, m, ThreadKinds, DefaultThread, r)
      /\ \A k \in 1 .. m : Saved(s, k)
      /\ Increasing(traces)
      /\ \A x : (\E j \in 1 .. Len(traces) : traces[j] = x) <=>
                  \E k \in 1 .. m : s[k].kind = "trace" /\ s[k].id = x
  BY DEF Stack, m
<1>a. /\ \A k \in 1 .. m + 1 : k \in 1 .. m \/ k = m + 1
      /\ \A k \in 1 .. m : u[k].id \in 1 .. n
      /\ \A j, k \in 1 .. m : j < k => u[j].id < u[k].id
      /\ u[m + 1].id = n + 1
  <2>1. \A k \in 1 .. m + 1 : k \in 1 .. m \/ k = m + 1
    BY <1>1
  <2>2. \A k \in 1 .. m : u[k].id \in 1 .. n
    BY <1>1, <1>2
  <2>3. \A j, k \in 1 .. m : j < k => u[j].id < u[k].id
    BY <1>1, <1>2
  <2>4. QED
    BY <1>1, <2>1, <2>2, <2>3
<1>3. \A k \in 1 .. m + 1 : u[k].id \in 1 .. n + 1
  <2> TAKE k \in 1 .. m + 1
  <2> QED
    BY <1>a
<1>4. \A j, k \in 1 .. m + 1 : j < k => u[j].id < u[k].id
  <2> TAKE j, k \in 1 .. m + 1
  <2> HAVE j < k
  <2>1. j \in 1 .. m
    BY <1>1
  <2>2. CASE k \in 1 .. m
    BY <1>a, <2>1, <2>2
  <2>3. CASE k = m + 1
    BY <1>a, <2>1, <2>3
  <2>4. QED
    BY <1>a, <2>2, <2>3
<1>5. \A kinds, default, q : InForce(u, m, kinds, default, q) <=> InForce(s, m, kinds, default, q)
  BY <1>1, InForceSame
<1>6. InForce(u, m + 1, ThreadKinds, DefaultThread, r2)
  <2>1. CASE e.kind \in ThreadKinds
    <3>1. r2 = ReporterOf(u[m + 1])
      BY <1>1, <2>1 DEF ThreadKinds
    <3>2. QED
      BY <1>1, <2>1, <3>1, InForceNext
  <2>2. CASE e.kind \notin ThreadKinds
    <3>1. r2 = r
      BY <2>2
    <3>2. QED
      BY <1>1, <1>2, <1>5, <2>2, <3>1, InForceNext
  <2>3. QED
    BY <2>1, <2>2
<1>7. \A k \in 1 .. m + 1 : Saved(u, k)
  <2>1. \A k \in 1 .. m : Saved(u, k)
    BY <1>1, <1>2, SavedSame
  <2>2. Saved(u, m + 1)
    <3>1. (m + 1) - 1 = m
      BY <1>1
    <3>2. CASE e.kind \in ThreadKinds
      BY <1>1, <1>2, <1>5, <3>1, <3>2 DEF Saved, ThreadKinds
    <3>3. CASE e.kind \notin ThreadKinds
      BY <1>1, <1>2, <1>5, <3>1, <3>3 DEF Saved, m
    <3>4. QED
      BY <3>2, <3>3
  <2>3. QED
    BY <1>1, <2>1, <2>2
<1>8. \A x : (\E k \in 1 .. m + 1 : u[k].kind = "trace" /\ u[k].id = x) <=>
               (\E k \in 1 .. m : s[k].kind = "trace" /\ s[k].id = x) \/ (e.kind = "trace" /\ x = n + 1)
  BY <1>1
<1>9. /\ traces2 \in Seq(Nat) /\ Increasing(traces2)
      /\ \A x : (\E j \in 1 .. Len(traces2) : traces2[j] = x) <=>
                  \E k \in 1 .. m + 1 : u[k].kind = "trace" /\ u[k].id = x
  <2>1. CASE e.kind # "trace"
    BY <1>2, <1>8, <2>1
  <2>2. CASE e.kind = "trace"
    <3>1. traces2 = Append(traces, n + 1)
      BY <2>2 DEF ThreadKinds
    <3>2. /\ traces2 \in Seq(Nat) /\ Len(traces2) = Len(traces) + 1 /\ Len(traces) \in Nat
          /\ traces2[Len(traces) + 1] = n + 1
          /\ \A k \in 1 .. Len(traces) : traces2[k] = traces[k]
      BY <1>2, <3>1, PushFacts
    <3>3. \A j \in 1 .. Len(traces) : traces[j] \in 1 .. n
      BY <1>2
    <3>4. Increasing(traces2)
      <4>1. SUFFICES ASSUME NEW j \in 1 .. Len(traces) + 1, NEW k \in 1 .. Len(traces) + 1, j < k
                     PROVE  traces2[j] < traces2[k]
        BY <3>2 DEF Increasing
      <4>0. Len(traces) \in Nat
        BY <3>2
      <4>2. j \in 1 .. Len(traces) /\ (k \in 1 .. Len(traces) \/ k = Len(traces) + 1)
        BY <4>0, <4>1
      <4>3. CASE k \in 1 .. Len(traces)
        BY <1>2, <3>2, <4>1, <4>2, <4>3 DEF Increasing
      <4>4. CASE k = Len(traces) + 1
        BY <3>2, <3>3, <4>2, <4>4
      <4>5. QED
        BY <4>2, <4>3, <4>4
    <3>5. \A x : (\E j \in 1 .. Len(traces2) : traces2[j] = x) <=>
                   (\E j \in 1 .. Len(traces) : traces[j] = x) \/ x = n + 1
      BY <3>2
    <3>6. QED
      BY <1>2, <1>8, <2>2, <3>2, <3>4, <3>5
  <2>3. QED
    BY <2>1, <2>2
<1>10. QED
  BY <1>1, <1>3, <1>4, <1>6, <1>7, <1>9 DEF Stack, u, m

\* The innermost scope is closed: what it saved was in force below it.
LEMMA Popped ==
  ASSUME NEW s, NEW r, NEW traces, NEW n \in Nat, Stack(s, r, traces, n), s # <<>>,
         NEW e, e = Last(s), NEW r2, NEW traces2,
         \/ e.kind \in ThreadKinds /\ r2 = e.original /\ traces2 = traces
         \/ e.kind = "all" /\ r2 = r /\ traces2 = traces
         \/ e.kind = "trace" /\ r2 = r /\ traces2 = Front(traces)
  PROVE  Stack(Front(s), r2, traces2, n)
<1> DEFINE u == Front(s)
           m == Len(s) - 1
<1>1. /\ s \in Seq(AnyScope) /\ u \in Seq(AnyScope) /\ Len(u) = m /\ m \in Nat /\ s[m + 1] = e
      /\ Len(s) = m + 1 /\ \A k \in 1 .. m : u[k] = s[k]
  <2>1. s \in Seq(AnyScope)
    BY DEF Stack
  <2>2. /\ u \in Seq(AnyScope) /\ Len(u) = Len(s) - 1 /\ Len(s) \in Nat /\ Len(s) >= 1
        /\ \A k \in 1 .. Len(s) - 1 : u[k] = s[k]
        /\ Last(s) = s[Len(s)]
    BY <2>1, PopFacts
  <2> HIDE DEF u
  <2>3. m \in Nat /\ Len(s) = m + 1
    BY <2>2
  <2>4. QED
    BY <2>1, <2>2, <2>3
<1> HIDE DEF u, m
<1>2. /\ traces \in Seq(Nat) /\ \A k \in 1 .. m + 1 : k \in 1 .. m \/ k = m + 1
      /\ \A k \in 1 .. m + 1 : s[k].id \in 1 .. n
      /\ \A j, k \in 1 .. m + 1 : j < k => s[j].id < s[k].id
      /\ InForce(s, m + 1, ThreadKinds, DefaultThread, r)
      /\ \A k \in 1 .. m + 1 : Saved(s, k)
      /\ Increasing(traces)
      /\ \A x : (\E j \in 1 .. Len(traces) : traces[j] = x) <=>
                  \E k \in 1 .. m + 1 : s[k].kind = "trace" /\ s[k].id = x
  BY <1>1 DEF Stack
<1>3. m + 1 \in 1 .. m + 1 /\ (m + 1) - 1 = m /\ \A k \in 1 .. m : k \in 1 .. m + 1 /\ k < m + 1
  BY <1>1
<1>4. /\ \A k \in 1 .. m : u[k].id \in 1 .. n
      /\ \A j, k \in 1 .. m : j < k => u[j].id < u[k].id
  BY <1>1, <1>2, <1>3
<1>5. \A kinds, default, q : InForce(u, m, kinds, default, q) <=> InForce(s, m, kinds, default, q)
  BY <1>1, InForceSame
<1>6. InForce(u, m, ThreadKinds, DefaultThread, r2)
  <2>1. CASE e.kind \in ThreadKinds
    <3>1. r2 = e.original
      BY <2>1 DEF ThreadKinds
    <3>2. InForce(s, m, ThreadKinds, DefaultThread, e.original)
      BY <1>1, <1>2, <1>3, <2>1 DEF Saved
    <3>3. QED
      BY <1>5, <3>1, <3>2
  <2>2. CASE e.kind \notin ThreadKinds
    <3>1. r2 = r
      BY <2>2
    <3>2. InForce(s, m, ThreadKinds, DefaultThread, r)
      BY <1>1, <1>2, <2>2, InForceNext
    <3>3. QED
      BY <1>5, <3>1, <3>2
  <2>3. QED
    BY <2>1, <2>2
<1>7. \A k \in 1 .. m : Saved(u, k)
  <2>1. \A k \in 1 .. m : Saved(s, k)
    BY <1>2, <1>3
  <2>2. QED
    BY <1>1, <2>1, SavedSame
<1>8. \A x : (\E k \in 1 .. m + 1 : s[k].kind = "trace" /\ s[k].id = x) <=>
               (\E k \in 1 .. m : u[k].kind = "trace" /\ u[k].id = x) \/ (e.kind = "trace" /\ x = e.id)
  BY <1>1, <1>2, <1>3
<1>9. /\ traces2 \in Seq(Nat) /\ Increasing(traces2)
      /\ \A x : (\E j \in 1 .. Len(traces2) : traces2[j] = x) <=>
                  \E k \in 1 .. m : u[k].kind = "trace" /\ u[k].id = x
  <2>1. CASE e.kind # "trace"
    <3>1. traces2 = traces
      BY <2>1
    <3>2. \A x : (\E k \in 1 .. m + 1 : s[k].kind = "trace" /\ s[k].id = x) <=>
                   (\E k \in 1 .. m : u[k].kind = "trace" /\ u[k].id = x)
      BY <1>8, <2>1
    <3>3. \A x : (\E j \in 1 .. Len(traces) : traces[j] = x) <=>
                   \E k \in 1 .. m + 1 : s[k].kind = "trace" /\ s[k].id = x
      BY <1>2
    <3>4. \A x : (\E j \in 1 .. Len(traces) : traces[j] = x) <=>
                   \E k \in 1 .. m : u[k].kind = "trace" /\ u[k].id = x
      BY <3>2, <3>3
    <3>5. QED
      BY <1>2, <3>1, <3>4
  <2>2. CASE e.kind = "trace"
    <3>1. traces2 = Front(traces)
      BY <2>2 DEF ThreadKinds
    \* The trace of the innermost scope is the last one.
    <3>2. PICK i \in 1 .. Len(traces) : traces[i] = e.id
      BY <1>2, <1>8, <2>2
    <3>3. \A j \in 1 .. Len(traces) : traces[j] <= e.id
      <4>1. \A k \in 1 .. m + 1 : s[k].id <= e.id
        BY <1>1, <1>2, <1>3
      <4>2. QED
        BY <1>2, <4>1
    <3>4. /\ traces2 \in Seq(Nat) /\ Len(traces2) = Len(traces) - 1 /\ Len(traces) \in Nat /\ Len(traces) >= 1
          /\ \A k \in 1 .. Len(traces) - 1 : traces2[k] = traces[k]
      <4>1. traces # <<>>
        BY <3>2
      <4>2. QED
        BY <1>2, <3>1, <4>1, PopFacts
    <3>5. \A j \in 1 .. Len(traces) : traces[j] \in Nat
      BY <1>2
    <3>6. i = Len(traces)
      <4>1. SUFFICES ASSUME i < Len(traces) PROVE FALSE
        BY <3>4
      <4>2. Len(traces) \in 1 .. Len(traces)
        BY <3>4
      <4>3. traces[i] < traces[Len(traces)] /\ traces[Len(traces)] <= e.id
        BY <1>2, <3>3, <4>1, <4>2 DEF Increasing
      <4>4. QED
        BY <3>2, <3>5, <4>2, <4>3
    <3>7. \A j \in 1 .. Len(traces) - 1 : j \in 1 .. Len(traces) /\ traces2[j] # e.id /\ traces2[j] = traces[j]
      <4> TAKE j \in 1 .. Len(traces) - 1
      <4>1. j \in 1 .. Len(traces) /\ i \in 1 .. Len(traces) /\ j < i /\ traces2[j] = traces[j]
        BY <3>2, <3>4, <3>6
      <4>2. traces[j] < e.id
        BY <1>2, <3>2, <4>1 DEF Increasing
      <4>3. QED
        BY <3>2, <3>5, <4>1, <4>2
    <3>8. \A j \in 1 .. Len(traces) : j \in 1 .. Len(traces) - 1 \/ j = Len(traces)
      BY <3>4
    <3>9. Increasing(traces2)
      BY <1>2, <3>4, <3>7 DEF Increasing
    <3>10. \A x : (\E j \in 1 .. Len(traces2) : traces2[j] = x) <=>
                    (\E j \in 1 .. Len(traces) : traces[j] = x) /\ x # e.id
      BY <3>2, <3>4, <3>6, <3>7, <3>8
    <3>11. \A k \in 1 .. m : u[k].id # e.id
      BY <1>1, <1>2, <1>3
    <3>12. QED
      BY <1>2, <1>8, <2>2, <3>4, <3>9, <3>10, <3>11
  <2>3. QED
    BY <2>1, <2>2
<1>10. QED
  BY <1>1, <1>4, <1>6, <1>7, <1>9 DEF Stack, u

\* The global reporter changes with the scopes for all threads alone.
LEMMA AllPushed ==
  ASSUME NEW s \in Seq(AnyScope), NEW e \in AnyScope
  PROVE  LET u == Append(s, e)
         IN  /\ e.kind # "all" => \A g : InForce(u, Len(u), AllKinds, DefaultGlobal, g)
                                          <=> InForce(s, Len(s), AllKinds, DefaultGlobal, g)
             /\ e.kind = "all" => InForce(u, Len(u), AllKinds, DefaultGlobal, Fake(e.id))
<1> DEFINE u == Append(s, e)
           m == Len(s)
<1>1. Len(u) = m + 1 /\ m \in Nat /\ u[m + 1] = e /\ \A k \in 1 .. m : u[k] = s[k]
  BY PushFacts
<1> HIDE DEF u, m
<1>2. \A g : InForce(u, m, AllKinds, DefaultGlobal, g) <=> InForce(s, m, AllKinds, DefaultGlobal, g)
  BY <1>1, InForceSame
<1>3. e.kind # "all" => \A g : InForce(u, m + 1, AllKinds, DefaultGlobal, g)
                                <=> InForce(s, m, AllKinds, DefaultGlobal, g)
  <2>1. e.kind # "all" => u[m + 1].kind \notin AllKinds
    BY <1>1 DEF AllKinds
  <2>2. QED
    BY <1>1, <1>2, <2>1, InForceNext
<1>4. e.kind = "all" => InForce(u, m + 1, AllKinds, DefaultGlobal, Fake(e.id))
  <2>1. e.kind = "all" => u[m + 1].kind \in AllKinds /\ ReporterOf(u[m + 1]) = Fake(e.id)
    BY <1>1 DEF AllKinds, ReporterOf
  <2>2. QED
    BY <1>1, <2>1, InForceNext
<1>5. QED
  BY <1>1, <1>3, <1>4 DEF u, m

LEMMA AllPopped ==
  ASSUME NEW s \in Seq(AnyScope), s # <<>>, NEW e, e = Last(s), Saved(s, Len(s))
  PROVE  LET u == Front(s)
         IN  /\ e.kind # "all" => \A g : InForce(u, Len(u), AllKinds, DefaultGlobal, g)
                                          <=> InForce(s, Len(s), AllKinds, DefaultGlobal, g)
             /\ e.kind = "all" => InForce(u, Len(u), AllKinds, DefaultGlobal, e.original)
<1> DEFINE u == Front(s)
           m == Len(s) - 1
<1>1. Len(u) = m /\ m \in Nat /\ s[m + 1] = e /\ Len(s) = m + 1 /\ \A k \in 1 .. m : u[k] = s[k]
  <2>1. /\ Len(u) = Len(s) - 1 /\ Len(s) \in Nat /\ Len(s) >= 1
        /\ \A k \in 1 .. Len(s) - 1 : u[k] = s[k]
        /\ Last(s) = s[Len(s)]
    BY PopFacts
  <2> HIDE DEF u
  <2>2. m \in Nat /\ Len(s) = m + 1
    BY <2>1
  <2>3. QED
    BY <2>1, <2>2
<1> HIDE DEF u, m
<1>2. \A g : InForce(u, m, AllKinds, DefaultGlobal, g) <=> InForce(s, m, AllKinds, DefaultGlobal, g)
  BY <1>1, InForceSame
<1>3. e.kind # "all" => \A g : InForce(u, m, AllKinds, DefaultGlobal, g)
                                <=> InForce(s, m + 1, AllKinds, DefaultGlobal, g)
  <2>1. e.kind # "all" => s[m + 1].kind \notin AllKinds
    BY <1>1 DEF AllKinds
  <2>2. QED
    BY <1>1, <1>2, <2>1, InForceNext
<1>4. e.kind = "all" => InForce(u, m, AllKinds, DefaultGlobal, e.original)
  <2>1. (m + 1) - 1 = m /\ Saved(s, m + 1)
    BY <1>1
  <2>2. QED
    BY <1>1, <1>2, <2>1 DEF Saved
<1>5. QED
  BY <1>1, <1>3, <1>4 DEF u, m

(***************************************************************************)
(* Who should get a part, said by positions on the stack.                   *)
(***************************************************************************)
LEMMA IdsFacts ==
  ASSUME NEW open, NEW t, open[t] \in Seq(AnyScope), NEW kind
  PROVE  \A x : x \in Ids(OpenIn(open, t), kind) <=>
                  \E k \in 1 .. Len(open[t]) : open[t][k].kind = kind /\ open[t][k].id = x
<1>1. DOMAIN open[t] = 1 .. Len(open[t])
  OBVIOUS
<1>2. QED
  BY <1>1 DEF Ids, OpenIn

LEMMA GreatestFacts ==
  /\ Greatest({}) = 0
  /\ \A S \in SUBSET Nat : \A m \in S : (\A x \in S : x <= m) => Greatest(S) = m
<1>1. ASSUME NEW S \in SUBSET Nat, NEW m \in S, \A x \in S : x <= m
      PROVE  Greatest(S) = m
  <2>1. \A i \in S : (\A x \in S : x <= i) => i = m
    BY <1>1
  <2>2. QED
    BY <1>1, <2>1 DEF Greatest
<1>2. QED
  BY <1>1 DEF Greatest

\* Scopes of another kind come and go.
LEMMA IdsKept ==
  ASSUME NEW open, NEW open2, NEW t, open[t] \in Seq(AnyScope), NEW kind,
         \/ \E e \in AnyScope : e.kind # kind /\ open2[t] = Append(open[t], e)
         \/ open[t] # <<>> /\ Last(open[t]).kind # kind /\ open2[t] = Front(open[t])
  PROVE  Ids(OpenIn(open2, t), kind) = Ids(OpenIn(open, t), kind)
<1> DEFINE s == open[t]
           u == open2[t]
<1>1. ASSUME NEW e \in AnyScope, e.kind # kind, open2[t] = Append(open[t], e)
      PROVE  Ids(OpenIn(open2, t), kind) = Ids(OpenIn(open, t), kind)
  <2>1. /\ u \in Seq(AnyScope) /\ Len(u) = Len(s) + 1 /\ Len(s) \in Nat /\ u[Len(s) + 1] = e
        /\ \A k \in 1 .. Len(s) : u[k] = s[k]
    BY <1>1, PushFacts
  <2> HIDE DEF s, u
  <2>2. \A x : (\E k \in 1 .. Len(u) : u[k].kind = kind /\ u[k].id = x) <=>
                 \E k \in 1 .. Len(s) : s[k].kind = kind /\ s[k].id = x
    <3>1. \A k \in 1 .. Len(u) : k \in 1 .. Len(s) \/ k = Len(s) + 1
      BY <2>1
    <3>2. \A k \in 1 .. Len(s) : k \in 1 .. Len(u)
      BY <2>1
    <3>3. QED
      BY <1>1, <2>1, <3>1, <3>2
  <2>3. \A x : x \in Ids(OpenIn(open2, t), kind) <=> \E k \in 1 .. Len(u) : u[k].kind = kind /\ u[k].id = x
    BY <2>1, IdsFacts DEF u
  <2>4. \A x : x \in Ids(OpenIn(open, t), kind) <=> \E k \in 1 .. Len(s) : s[k].kind = kind /\ s[k].id = x
    BY IdsFacts DEF s
  <2>5. QED
    BY <2>2, <2>3, <2>4
<1>2. ASSUME open[t] # <<>>, Last(open[t]).kind # kind, open2[t] = Front(open[t])
      PROVE  Ids(OpenIn(open2, t), kind) = Ids(OpenIn(open, t), kind)
  <2>1. /\ u \in Seq(AnyScope) /\ Len(u) = Len(s) - 1 /\ Len(s) \in Nat /\ Len(s) >= 1
        /\ \A k \in 1 .. Len(s) - 1 : u[k] = s[k]
        /\ s[Len(s)].kind # kind
    BY <1>2, PopFacts
  <2> HIDE DEF s, u
  <2>2. \A x : (\E k \in 1 .. Len(u) : u[k].kind = kind /\ u[k].id = x) <=>
                 \E k \in 1 .. Len(s) : s[k].kind = kind /\ s[k].id = x
    <3>1. \A k \in 1 .. Len(s) : k \in 1 .. Len(s) - 1 \/ k = Len(s)
      BY <2>1
    <3>2. \A k \in 1 .. Len(s) - 1 : k \in 1 .. Len(s)
      BY <2>1
    <3>3. QED
      BY <2>1, <3>1, <3>2
  <2>3. \A x : x \in Ids(OpenIn(open2, t), kind) <=> \E k \in 1 .. Len(u) : u[k].kind = kind /\ u[k].id = x
    BY <2>1, IdsFacts DEF u
  <2>4. \A x : x \in Ids(OpenIn(open, t), kind) <=> \E k \in 1 .. Len(s) : s[k].kind = kind /\ s[k].id = x
    BY IdsFacts DEF s
  <2>5. QED
    BY <2>2, <2>3, <2>4
<1>3. QED
  BY <1>1, <1>2

\* Of the scopes of a kind, one is the innermost.
InnermostOf(s, n, kind) ==
  \/ \A k \in 1 .. n : s[k].kind # kind
  \/ \E j \in 1 .. n : s[j].kind = kind /\ \A k \in j + 1 .. n : s[k].kind # kind

LEMMA Innermost ==
  ASSUME NEW s, NEW n \in Nat, NEW kind
  PROVE  InnermostOf(s, n, kind)
<1> DEFINE S == {k \in 1 .. n : s[k].kind = kind}
           T == {n - k : k \in S}
<1>1. SUFFICES ASSUME S # {} PROVE \E j \in S : \A k \in j + 1 .. n : k \notin S
  <2>1. \A j \in 1 .. n : \A k \in j + 1 .. n : k \in 1 .. n
    OBVIOUS
  <2>2. QED
    BY <2>1 DEF InnermostOf
<1>2. T \subseteq Nat /\ T # {}
  BY <1>1
<1>3. IsWellFoundedOn(OpToRel(<, Nat), Nat)
  BY NatLessThanWellFounded
<1>4. PICK x \in T : \A y \in T : ~(<<y, x>> \in OpToRel(<, Nat))
  BY <1>2, <1>3, WFMin
<1>5. \A y \in T : ~(y < x)
  BY <1>2, <1>4 DEF OpToRel
<1>6. PICK j \in S : x = n - j
  OBVIOUS
<1>7. ASSUME NEW k \in j + 1 .. n, k \in S PROVE FALSE
  <2>1. ~(n - k < n - j)
    BY <1>5, <1>6, <1>7
  <2>2. j \in 1 .. n
    OBVIOUS
  <2>3. QED
    BY <1>7, <2>1, <2>2
<1>8. QED
  BY <1>7

LEMMA DueKept ==
  ASSUME NEW open, NEW open2, NEW t, open2[t] = open[t],
         \A u \in Threads : Ids(OpenIn(open2, u), "all") = Ids(OpenIn(open, u), "all")
  PROVE  \A p : Due(open2, t, p) = Due(open, t, p)
<1>1. OpenIn(open2, t) = OpenIn(open, t)
  BY DEF OpenIn
<1>2. UNION {Ids(OpenIn(open2, u), "all") : u \in Threads} = UNION {Ids(OpenIn(open, u), "all") : u \in Threads}
  OBVIOUS
<1>3. QED
  BY <1>1, <1>2 DEF Due

ForFake(d, s, j) ==
  /\ d.place = s[j].id
  /\ \A x \in d.watching : \E k \in j + 1 .. Len(s) : s[k].kind = "no_fatal" /\ s[k].id = x
  /\ \A k \in j + 1 .. Len(s) : s[k].kind = "no_fatal" => s[k].id \in d.watching

\* A scope for this thread is open: the part is for the innermost, and the
\* scopes inside of it watch.
LEMMA DueFake ==
  ASSUME NEW open, NEW t, NEW p, NEW r, NEW traces, NEW n \in Nat, Stack(open[t], r, traces, n),
         NEW j \in 1 .. Len(open[t]), open[t][j].kind = "current",
         \A k \in j + 1 .. Len(open[t]) : open[t][k].kind # "current"
  PROVE  ForFake(Due(open, t, p), open[t], j)
<1> DEFINE s == open[t]
           own == OpenIn(open, t)
<1>1. /\ s \in Seq(AnyScope) /\ Len(s) \in Nat
      /\ \A k \in 1 .. Len(s) : s[k].id \in 1 .. n
      /\ \A i, k \in 1 .. Len(s) : i < k => s[i].id < s[k].id
  BY DEF Stack
<1>2. \A x : x \in Ids(own, "current") <=> \E k \in 1 .. Len(s) : s[k].kind = "current" /\ s[k].id = x
  BY <1>1, IdsFacts
<1>3. \A x : x \in Ids(own, "no_fatal") <=> \E k \in 1 .. Len(s) : s[k].kind = "no_fatal" /\ s[k].id = x
  BY <1>1, IdsFacts
<1> HIDE DEF own
<1>4. \A k \in 1 .. Len(s) : s[k].kind = "current" => k <= j
  BY <1>1
<1>5. Ids(own, "current") \in SUBSET Nat /\ s[j].id \in Ids(own, "current")
      /\ \A x \in Ids(own, "current") : x <= s[j].id
  <2>1. \A k \in 1 .. Len(s) : k <= j => s[k].id <= s[j].id
    BY <1>1
  <2>2. \A k \in 1 .. Len(s) : s[k].id \in Nat
    BY <1>1
  <2> HIDE DEF s
  <2>3. s[j].kind = "current" /\ j \in 1 .. Len(s)
    BY DEF s
  <2>4. QED
    BY <1>2, <1>4, <2>1, <2>2, <2>3
<1>6. Greatest(Ids(own, "current")) = s[j].id
  BY <1>5, GreatestFacts
<1>7. s[j].id # 0 /\ s[j].id \in Nat
  BY <1>1
<1>8. /\ Due(open, t, p).place = s[j].id
      /\ Due(open, t, p).watching = {x \in Ids(own, "no_fatal") : x > s[j].id}
  BY <1>6, <1>7 DEF Due, own
<1>j. j \in 1 .. Len(s)
  OBVIOUS
<1> HIDE DEF s
<1>9. \A k \in 1 .. Len(s) : s[k].id > s[j].id <=> k \in j + 1 .. Len(s)
  <2> SUFFICES ASSUME NEW k \in 1 .. Len(s)
               PROVE  s[k].id > s[j].id <=> k \in j + 1 .. Len(s)
    OBVIOUS
  <2>1. s[k].id \in Nat /\ s[j].id \in Nat
    BY <1>1, <1>j
  <2>2. (k < j => s[k].id < s[j].id) /\ (j < k => s[j].id < s[k].id)
    BY <1>1, <1>j
  <2>3. QED
    BY <1>1, <1>j, <2>1, <2>2
<1>10. \A k \in j + 1 .. Len(s) : k \in 1 .. Len(s)
  BY <1>1, <1>j
<1>11. \A x \in Due(open, t, p).watching :
         \E k \in j + 1 .. Len(s) : s[k].kind = "no_fatal" /\ s[k].id = x
  BY <1>3, <1>8, <1>9
<1>12. \A k \in j + 1 .. Len(s) : s[k].kind = "no_fatal" => s[k].id \in Due(open, t, p).watching
  BY <1>3, <1>8, <1>9, <1>10
<1>13. QED
  BY <1>8, <1>11, <1>12 DEF s, ForFake

ForAll(d, open, s) ==
  /\ d.place = Greatest(UNION {Ids(OpenIn(open, u), "all") : u \in Threads})
  /\ \A x \in d.watching : \E k \in 1 .. Len(s) : s[k].kind = "no_fatal" /\ s[k].id = x
  /\ \A k \in 1 .. Len(s) : s[k].kind = "no_fatal" => s[k].id \in d.watching

\* None is: the part is for the innermost scope for all threads, if any.
LEMMA DueGlobal ==
  ASSUME NEW open, NEW t, NEW p, NEW r, NEW traces, NEW n \in Nat, Stack(open[t], r, traces, n),
         \A k \in 1 .. Len(open[t]) : open[t][k].kind # "current"
  PROVE  ForAll(Due(open, t, p), open, open[t])
<1> DEFINE s == open[t]
           own == OpenIn(open, t)
<1>1. s \in Seq(AnyScope) /\ \A k \in 1 .. Len(s) : s[k].id \in 1 .. n
  BY DEF Stack
<1>2. \A x : x \in Ids(own, "current") <=> \E k \in 1 .. Len(s) : s[k].kind = "current" /\ s[k].id = x
  BY <1>1, IdsFacts
<1>3. \A x : x \in Ids(own, "no_fatal") <=> \E k \in 1 .. Len(s) : s[k].kind = "no_fatal" /\ s[k].id = x
  BY <1>1, IdsFacts
<1> HIDE DEF own
<1>4. Ids(own, "current") = {}
  BY <1>2
<1>5. Greatest(Ids(own, "current")) = 0
  BY <1>4, GreatestFacts
<1>6. /\ Due(open, t, p).place = Greatest(UNION {Ids(OpenIn(open, u), "all") : u \in Threads})
      /\ Due(open, t, p).watching = {x \in Ids(own, "no_fatal") : x > 0}
  BY <1>5 DEF Due, own
<1>7. \A k \in 1 .. Len(s) : s[k].id > 0
  BY <1>1
<1>8. QED
  BY <1>3, <1>6, <1>7 DEF ForAll

\* A scope watches what no scope inside of it is there to catch.
LEMMA DueWatched ==
  ASSUME NEW open, NEW t, NEW p, NEW r, NEW traces, NEW n \in Nat, Stack(open[t], r, traces, n),
         NEW i \in 1 .. Len(open[t]), open[t][i].kind = "no_fatal",
         \A k \in i + 1 .. Len(open[t]) : open[t][k].kind # "current"
  PROVE  open[t][i].id \in Due(open, t, p).watching
<1>1. Len(open[t]) \in Nat
  BY DEF Stack
<1>2. CASE \A k \in 1 .. Len(open[t]) : open[t][k].kind # "current"
  BY <1>2, DueGlobal DEF ForAll
<1>3. CASE \E j \in 1 .. Len(open[t]) : /\ open[t][j].kind = "current"
                                        /\ \A k \in j + 1 .. Len(open[t]) : open[t][k].kind # "current"
  <2>1. PICK j \in 1 .. Len(open[t]) : /\ open[t][j].kind = "current"
                                       /\ \A k \in j + 1 .. Len(open[t]) : open[t][k].kind # "current"
    BY <1>3
  <2>2. i \in j + 1 .. Len(open[t])
    BY <1>1, <2>1
  <2>3. ForFake(Due(open, t, p), open[t], j)
    BY <2>1, DueFake
  <2>4. QED
    BY <2>2, <2>3 DEF ForFake
<1>4. PICK m : m = Len(open[t])
  OBVIOUS
<1>5. \/ \A k \in 1 .. m : open[t][k].kind # "current"
      \/ \E j \in 1 .. m : /\ open[t][j].kind = "current"
                           /\ \A k \in j + 1 .. m : open[t][k].kind # "current"
  <2>1. m \in Nat
    BY <1>1, <1>4
  <2>2. QED
    <3>1. InnermostOf(open[t], m, "current")
      BY <2>1, Innermost
    <3>2. QED
      BY <3>1 DEF InnermostOf
<1>6. QED
  BY <1>2, <1>3, <1>4, <1>5

Listed(f) == {f[j] : j \in DOMAIN f}

\* The traces of the part are those on the stack of the thread.
LEMMA DueTraces ==
  ASSUME NEW open, NEW t, NEW p, NEW r, NEW traces, NEW n \in Nat, Stack(open[t], r, traces, n)
  PROVE  Due(open, t, p).traces = Listed(traces)
<1>1. open[t] \in Seq(AnyScope) /\ traces \in Seq(Nat)
  BY DEF Stack
<1>2. \A x : x \in Ids(OpenIn(open, t), "trace") <=> \E j \in 1 .. Len(traces) : traces[j] = x
  <2>1. \A x : x \in Ids(OpenIn(open, t), "trace") <=>
                 \E k \in 1 .. Len(open[t]) : open[t][k].kind = "trace" /\ open[t][k].id = x
    BY <1>1, IdsFacts
  <2>2. \A x : (\E j \in 1 .. Len(traces) : traces[j] = x) <=>
                 \E k \in 1 .. Len(open[t]) : open[t][k].kind = "trace" /\ open[t][k].id = x
    BY DEF Stack
  <2>3. QED
    BY <2>1, <2>2
<1>3. DOMAIN traces = 1 .. Len(traces)
  BY <1>1
<1>4. QED
  BY <1>2, <1>3 DEF Due, Listed

\* The global reporter keeps parts where they are due when no scope is open for the thread.
LEMMA DueAll ==
  ASSUME NEW open, NEW g, NEW r, NEW traces, NEW n \in Nat, Stack(open[MainThread], r, traces, n),
         \A u \in Threads \ {MainThread} :
           open[u] \in Seq(AnyScope) /\ \A k \in 1 .. Len(open[u]) : open[u][k].kind # "all",
         InForce(open[MainThread], Len(open[MainThread]), AllKinds, DefaultGlobal, g)
  PROVE  /\ Greatest(UNION {Ids(OpenIn(open, u), "all") : u \in Threads}) = g[2]
         /\ g[2] \in 0 .. n /\ g[1] \in {"ScopedFake", "DefaultGlobal"}
<1> DEFINE s == open[MainThread]
           all == UNION {Ids(OpenIn(open, u), "all") : u \in Threads}
<1>1. /\ s \in Seq(AnyScope) /\ Len(s) \in Nat
      /\ \A k \in 1 .. Len(s) : s[k].id \in 1 .. n
      /\ \A i, k \in 1 .. Len(s) : i < k => s[i].id < s[k].id
  BY DEF Stack
<1>2. \A x : x \in all <=> \E k \in 1 .. Len(s) : s[k].kind = "all" /\ s[k].id = x
  <2>1. \A x : x \in Ids(OpenIn(open, MainThread), "all") <=>
                 \E k \in 1 .. Len(s) : s[k].kind = "all" /\ s[k].id = x
    BY <1>1, IdsFacts
  <2>2. \A u \in Threads \ {MainThread} : \A x : x \notin Ids(OpenIn(open, u), "all")
    BY IdsFacts
  <2>3. \A x : x \in all <=> \E u \in Threads : x \in Ids(OpenIn(open, u), "all")
    OBVIOUS
  <2> HIDE DEF all, s
  <2>4. QED
    BY <2>1, <2>2, <2>3, ReportersAssumption
<1> HIDE DEF all, s
<1>3. CASE g = DefaultGlobal /\ \A k \in 1 .. Len(s) : s[k].kind \notin AllKinds
  <2>1. all = {}
    BY <1>2, <1>3 DEF AllKinds
  <2>2. Greatest(all) = 0
    BY <2>1, GreatestFacts
  <2>3. QED
    BY <1>3, <2>2 DEF DefaultGlobal, all
<1>4. CASE \E j \in 1 .. Len(s) : /\ s[j].kind \in AllKinds /\ g = ReporterOf(s[j])
                                  /\ \A k \in j + 1 .. Len(s) : s[k].kind \notin AllKinds
  <2>1. PICK j \in 1 .. Len(s) : /\ s[j].kind = "all" /\ g = Fake(s[j].id)
                                 /\ \A k \in j + 1 .. Len(s) : s[k].kind # "all"
    BY <1>4 DEF AllKinds, ReporterOf
  <2>2. \A k \in 1 .. Len(s) : s[k].kind = "all" => k <= j
    BY <1>1, <2>1
  <2>3. \A k \in 1 .. Len(s) : k <= j => s[k].id <= s[j].id
    BY <1>1
  <2>4. \A k \in 1 .. Len(s) : s[k].id \in Nat
    BY <1>1
  <2>5. all \in SUBSET Nat /\ s[j].id \in all /\ \A x \in all : x <= s[j].id
    BY <1>2, <2>1, <2>2, <2>3, <2>4
  <2>6. Greatest(all) = s[j].id
    BY <2>5, GreatestFacts
  <2>7. g[2] = s[j].id /\ g[1] = "ScopedFake" /\ s[j].id \in 0 .. n
    BY <1>1, <2>1 DEF Fake
  <2>8. QED
    BY <2>6, <2>7 DEF all
<1>5. QED
  BY <1>3, <1>4 DEF InForce, s

(***************************************************************************)
(* The inductive invariant.                                                 *)
(***************************************************************************)
PartKinds == Kinds \cup Types \cup {"none", "nonfatal"}
AnyPart == [kind : PartKinds, by : Threads \cup {Nobody}, number : Nat]
Entry == [part : AnyPart, traces : Seq(Nat)]

RepTyped ==
  /\ doing \in [Threads -> Active \cup {"not started", "done"}]
  /\ opened \in 0 .. MaxScopes
  /\ DOMAIN scopes = Threads /\ DOMAIN gtest_trace_stack_ = Threads
  /\ DOMAIN per_thread_test_part_result_reporter_ = Threads /\ DOMAIN reporter = Threads
  /\ part \in [Threads -> AnyPart]
  /\ test_part_results \in [0 .. MaxScopes -> Seq(Entry)]

\* Only MainThread is ever alone and running: it starts the other threads and outlasts them.
MainLeads ==
  /\ \A t \in Threads : doing[t] \notin Active => scopes[t] = <<>>
  /\ \A t \in Threads : doing[t] \in Active => doing[MainThread] \in Active

Stacks ==
  \A t \in Threads : Stack(scopes[t], per_thread_test_part_result_reporter_[t], gtest_trace_stack_[t], opened)

\* No two scopes have the same identity, and those for all threads are MainThread's.
Apart ==
  /\ \A t, u \in Threads : \A j \in 1 .. Len(scopes[t]), k \in 1 .. Len(scopes[u]) :
       t # u => scopes[t][j].id # scopes[u][k].id
  /\ \A t \in Threads : \A k \in 1 .. Len(scopes[t]) : scopes[t][k].kind = "all" => t = MainThread

GlobalInForce ==
  InForce(scopes[MainThread], Len(scopes[MainThread]), AllKinds, DefaultGlobal,
          global_test_part_result_reporter_)

\* A part on its way through the reporters of its thread has passed every helper that
\* is further in, and no fake; it is at a reporter of the thread or at the global one.
WentPast(t, n) ==
  \A k \in n + 1 .. Len(scopes[t]) :
    /\ scopes[t][k].kind # "current"
    /\ scopes[t][k].kind = "no_fatal" /\ FatallyFailed(part[t]) => scopes[t][k].id \in has_new_fatal_failure_

AtOwn(t, n) ==
  InForce(scopes[t], n, ThreadKinds, DefaultThread, reporter[t]) /\ WentPast(t, n)

Way(t) ==
  \/ \E n \in 0 .. Len(scopes[t]) : AtOwn(t, n)
  \/ reporter[t] = global_test_part_result_reporter_ /\ WentPast(t, 0)

OnTheWay == \A t \in Threads : doing[t] = "in reporter" => Way(t)

\* Who reports, and what: the parts are numbered, and a part that is on its way is due
\* where the scopes that are open now say.
Numbered ==
  /\ IsFiniteSet(due)
  /\ \A d \in due : d.part.number \in 1 .. Cardinality(due)
  /\ \A d, e \in due : d.part.number = e.part.number => d = e
  /\ \A id \in 0 .. MaxScopes : \A k \in DOMAIN test_part_results[id] :
       test_part_results[id][k].part.number <= Cardinality(due)

Reporting ==
  \A t \in Threads :
    IF doing[t] \in Busy THEN Due(scopes, t, part[t]) \in due /\ part[t].by = t
    ELSE part[t] = NoPart

Arrived ==
  \A d \in due :
    IF Delivered(d)
    THEN \E k \in DOMAIN test_part_results[d.place] :
           /\ Places(d) = {<<d.place, k>>}
           /\ {test_part_results[d.place][k].traces[j] :
                 j \in DOMAIN test_part_results[d.place][k].traces} = d.traces
    ELSE Places(d) = {}

Noticed ==
  /\ \A id \in has_new_fatal_failure_ : \E d \in due : d.part.kind = "fatal" /\ id \in d.watching
  /\ \A d \in due : Delivered(d) /\ d.part.kind = "fatal" => d.watching \subseteq has_new_fatal_failure_

RepInv ==
  /\ RepTyped /\ MainLeads /\ Stacks /\ Apart /\ GlobalInForce
  /\ OnTheWay /\ Numbered /\ Reporting /\ Arrived /\ Noticed

LEMMA ReporterFacts ==
  /\ DefaultThread[1] = "DefaultPerThread" /\ DefaultGlobal[1] = "DefaultGlobal" /\ DefaultGlobal[2] = 0
  /\ \A id : Fake(id)[1] = "ScopedFake" /\ Fake(id)[2] = id
  /\ \A id : Helper(id)[1] = "HasNewFatalFailure" /\ Helper(id)[2] = id
BY DEF DefaultThread, DefaultGlobal, Fake, Helper

LEMMA OpenedFacts ==
  ASSUME RepInv
  PROVE  opened \in Nat /\ opened <= MaxScopes /\ MaxScopes \in Nat
<1>1. opened \in 0 .. MaxScopes
  BY DEF RepInv, RepTyped
<1>2. MaxScopes \in Nat
  BY ReportersAssumption
<1>3. QED
  BY <1>1, <1>2

(***************************************************************************)
(* What a step keeps.                                                       *)
(***************************************************************************)
\* A running thread that is alone is MainThread.
LEMMA AloneIsMain ==
  ASSUME MainLeads, NEW t \in Threads, doing[t] \in Active, Alone(t)
  PROVE  t = MainThread /\ \A u \in Threads \ {t} : doing[u] \notin Active
BY ReportersAssumption DEF MainLeads, Alone, Active

\* No scope is opened or closed.
LEMMA ScopesKept ==
  ASSUME Stacks, Apart, GlobalInForce, UNCHANGED <<reporters, scopes, gtest_trace_stack_, opened>>
  PROVE  Stacks' /\ Apart' /\ GlobalInForce'
BY DEF Stacks, Apart, GlobalInForce, reporters

LEMMA MainLeadsKept ==
  ASSUME RepTyped, MainLeads, NEW t \in Threads, scopes' = scopes, NEW now \in Active, doing[t] \in Active,
         doing' = [doing EXCEPT ![t] = now]
  PROVE  MainLeads'
BY ReportersAssumption DEF RepTyped, MainLeads

\* A part that another thread has on its way is where it was.
LEMMA WayKept ==
  ASSUME RepInv, NEW u \in Threads, doing[u] = "in reporter",
         scopes'[u] = scopes[u], reporter'[u] = reporter[u], part'[u] = part[u],
         global_test_part_result_reporter_' = global_test_part_result_reporter_,
         has_new_fatal_failure_ \subseteq has_new_fatal_failure_'
  PROVE  Way(u)'
<1>1. \A n : WentPast(u, n) => WentPast(u, n)'
  BY DEF WentPast
<1>2. \A n : InForce(scopes[u], n, ThreadKinds, DefaultThread, reporter[u])
               => InForce(scopes'[u], n, ThreadKinds, DefaultThread, reporter'[u])
  OBVIOUS
<1>3. \A n : AtOwn(u, n) => AtOwn(u, n)'
  BY <1>1, <1>2 DEF AtOwn
<1>4. Way(u)
  BY DEF RepInv, OnTheWay
<1>5. CASE \E n \in 0 .. Len(scopes[u]) : AtOwn(u, n)
  BY <1>3, <1>5 DEF Way
<1>6. CASE reporter[u] = global_test_part_result_reporter_ /\ WentPast(u, 0)
  BY <1>1, <1>6 DEF Way
<1>7. QED
  BY <1>4, <1>5, <1>6 DEF Way

\* No part is reported or kept.
LEMMA PartsKept ==
  ASSUME Numbered, Arrived, Noticed, UNCHANGED <<part, test_part_results, has_new_fatal_failure_, due>>
  PROVE  Numbered' /\ Arrived' /\ Noticed'
<1>1. \A d : (Delivered(d)' <=> Delivered(d)) /\ Places(d)' = Places(d)
  BY DEF Delivered, Places
<1>2. Numbered' /\ Noticed'
  BY <1>1 DEF Numbered, Noticed
<1>3. Arrived'
  BY <1>1 DEF Arrived
<1>4. QED
  BY <1>2, <1>3

\* A part is reported: it gets a number of its own, and it has not arrived.
LEMMA ReportFacts ==
  ASSUME RepInv, NEW t \in Threads, doing[t] = "runs", NEW kind \in PartKinds,
         Report(t, kind, scopes'), UNCHANGED <<test_part_results, has_new_fatal_failure_>>,
         \A u \in Threads \ {t} : doing[u] \in Busy => \A p : Due(scopes', u, p) = Due(scopes, u, p)
  PROVE  /\ Numbered' /\ Reporting' /\ Arrived' /\ Noticed'
         /\ part' \in [Threads -> AnyPart] /\ doing' = [doing EXCEPT ![t] = "reports"]
         /\ \A u \in Threads \ {t} : part'[u] = part[u] /\ doing'[u] = doing[u]
<1>a. PICK n : n = Cardinality(due)
  OBVIOUS
<1>b. PICK p : p = [kind |-> kind, by |-> t, number |-> n + 1]
  OBVIOUS
<1>c. PICK d0 : d0 = Due(scopes', t, p)
  OBVIOUS
<1>1. /\ IsFiniteSet(due) /\ \A d \in due : d.part.number \in 1 .. n
      /\ \A d, e \in due : d.part.number = e.part.number => d = e
      /\ \A id \in 0 .. MaxScopes : \A k \in DOMAIN test_part_results[id] :
           test_part_results[id][k].part.number <= n /\ test_part_results[id][k].part.number \in Nat
      /\ part \in [Threads -> AnyPart] /\ DOMAIN doing = Threads
      /\ \A id \in 0 .. MaxScopes : test_part_results[id] \in Seq(Entry)
  <2>1. \A id \in 0 .. MaxScopes : test_part_results[id] \in Seq(Entry)
    BY DEF RepInv, RepTyped
  <2>2. \A id \in 0 .. MaxScopes : \A k \in DOMAIN test_part_results[id] :
          test_part_results[id][k].part.number \in Nat
    <3>1. \A id \in 0 .. MaxScopes : \A k \in DOMAIN test_part_results[id] : test_part_results[id][k] \in Entry
      BY <2>1
    <3>2. \A x \in Entry : x.part.number \in Nat
      BY DEF Entry, AnyPart
    <3>3. QED
      BY <3>1, <3>2
  <2>3. QED
    BY <1>a, <2>1, <2>2 DEF RepInv, RepTyped, Numbered
<1>2. n \in Nat
  BY <1>a, <1>1, FS_CardinalityType
<1>3. /\ doing' = [doing EXCEPT ![t] = "reports"] /\ part' = [part EXCEPT ![t] = p]
      /\ due' = due \cup {d0} /\ d0.part = p
  BY <1>a, <1>b, <1>c DEF Report, Due
<1>4. p.number = n + 1 /\ p.by = t /\ p.kind = kind /\ p \in AnyPart
  BY <1>b, <1>2 DEF AnyPart
<1>5. d0 \notin due /\ \A d \in due : d.part # p
  BY <1>1, <1>2, <1>3, <1>4
<1>6. Cardinality(due') = n + 1 /\ IsFiniteSet(due')
  BY <1>a, <1>1, <1>3, <1>5, FS_AddElement
<1>7. Numbered'
  <2>1. \A d \in due' : d.part.number \in 1 .. n + 1
    BY <1>1, <1>2, <1>3, <1>4
  <2>2. \A d, e \in due' : d.part.number = e.part.number => d = e
    BY <1>1, <1>2, <1>3, <1>4
  <2>3. \A id \in 0 .. MaxScopes : \A k \in DOMAIN test_part_results'[id] :
          test_part_results'[id][k].part.number <= n + 1
    BY <1>1, <1>2
  <2>4. QED
    BY <1>6, <2>1, <2>2, <2>3 DEF Numbered
<1>8. part[t] = NoPart
  BY DEF RepInv, Reporting, Busy
<1>9. NoPart.number = 0
  BY DEF NoPart
<1>10. part'[t] = p /\ \A u \in Threads \ {t} : part'[u] = part[u]
  BY <1>1, <1>3
<1>11. \A d \in due : Delivered(d)' <=> Delivered(d)
  <2> TAKE d \in due
  <2>1. p # d.part /\ NoPart # d.part
    BY <1>1, <1>5, <1>9
  <2>2. QED
    BY <1>8, <1>10, <2>1 DEF Delivered
<1>12. ~Delivered(d0)'
  BY <1>3, <1>10 DEF Delivered
<1>13. \A d : Places(d)' = Places(d)
  BY DEF Places
<1>14. Places(d0) = {}
  <2>1. \A id \in 0 .. MaxScopes : \A k \in DOMAIN test_part_results[id] :
          test_part_results[id][k].part # d0.part
    BY <1>1, <1>2, <1>3, <1>4
  <2>2. \A id \in 0 .. MaxScopes :
          {id} \X {k \in DOMAIN test_part_results[id] : test_part_results[id][k].part = d0.part} = {}
    BY <2>1
  <2>3. QED
    BY <2>2 DEF Places
<1>15. Arrived'
  <2>1. SUFFICES ASSUME NEW d \in due'
        PROVE  IF Delivered(d)'
               THEN \E k \in DOMAIN test_part_results'[d.place] :
                      /\ Places(d)' = {<<d.place, k>>}
                      /\ {test_part_results'[d.place][k].traces[j] :
                            j \in DOMAIN test_part_results'[d.place][k].traces} = d.traces
               ELSE Places(d)' = {}
    BY Zenon DEF Arrived
  <2>2. CASE d \in due
    BY <1>11, <1>13, <2>2 DEF RepInv, Arrived
  <2>3. CASE d = d0
    BY <1>12, <1>13, <1>14, <2>3
  <2>4. QED
    BY <1>3, <2>1, <2>2, <2>3
<1>16. Noticed'
  <2>1. \A id \in has_new_fatal_failure_ : \E d \in due' : d.part.kind = "fatal" /\ id \in d.watching
    BY <1>3 DEF RepInv, Noticed
  <2>2. \A d \in due' : Delivered(d)' /\ d.part.kind = "fatal" => d.watching \subseteq has_new_fatal_failure_
    BY <1>3, <1>11, <1>12 DEF RepInv, Noticed
  <2>3. QED
    BY <2>1, <2>2 DEF Noticed
<1>17. Reporting'
  <2>1. SUFFICES ASSUME NEW u \in Threads
        PROVE  IF doing'[u] \in Busy THEN Due(scopes', u, part'[u]) \in due' /\ part'[u].by = u
               ELSE part'[u] = NoPart
    BY DEF Reporting
  <2>2. CASE u = t
    <3>1. doing'[t] \in Busy
      BY <1>1, <1>3 DEF Busy
    <3>2. QED
      BY <1>c, <1>3, <1>4, <1>10, <2>2, <3>1
  <2>3. CASE u # t
    <3>1. doing'[u] = doing[u] /\ part'[u] = part[u]
      BY <1>1, <1>3, <1>10, <2>3
    <3>2. IF doing[u] \in Busy THEN Due(scopes, u, part[u]) \in due /\ part[u].by = u ELSE part[u] = NoPart
      BY DEF RepInv, Reporting
    <3>3. QED
      BY <1>3, <2>3, <3>1, <3>2
  <2>4. QED
    BY <2>2, <2>3
<1>18. part' \in [Threads -> AnyPart]
  BY <1>1, <1>3, <1>4
<1>19. QED
  BY <1>1, <1>3, <1>7, <1>10, <1>15, <1>16, <1>17, <1>18

(***************************************************************************)
(* The steps of AddTestPartResult.                                          *)
(***************************************************************************)
\* UnitTest::AddTestPartResult, before it has the lock.
LEMMA AddStep ==
  ASSUME RepInv, NEW t \in Threads, AddTestPartResult(t)
  PROVE  RepInv'
<1>1. PICK kind \in Kinds : Report(t, kind, scopes)
  BY DEF AddTestPartResult
<1>2. /\ doing[t] = "runs" /\ kind \in PartKinds /\ scopes' = scopes /\ reporter' = reporter
      /\ UNCHANGED <<reporters, gtest_trace_stack_, opened, has_new_fatal_failure_, test_part_results>>
  BY DEF AddTestPartResult, PartKinds
<1>3. Report(t, kind, scopes')
  BY <1>1, <1>2
<1>4. /\ Numbered' /\ Reporting' /\ Arrived' /\ Noticed'
      /\ part' \in [Threads -> AnyPart] /\ doing' = [doing EXCEPT ![t] = "reports"]
      /\ \A u \in Threads \ {t} : part'[u] = part[u] /\ doing'[u] = doing[u]
  BY <1>2, <1>3, ReportFacts
<1>5. RepTyped'
  BY <1>2, <1>4 DEF RepInv, RepTyped, Active, reporters
<1>6. MainLeads'
  BY <1>2, <1>4, MainLeadsKept DEF RepInv, Active
<1>7. Stacks' /\ Apart' /\ GlobalInForce'
  BY <1>2, ScopesKept DEF RepInv
<1>8. OnTheWay'
  <2>1. SUFFICES ASSUME NEW u \in Threads, doing'[u] = "in reporter" PROVE Way(u)'
    BY DEF OnTheWay
  <2>2. u # t /\ doing[u] = "in reporter" /\ part'[u] = part[u]
    BY <1>4, <2>1 DEF RepInv, RepTyped
  <2>3. QED
    BY <1>2, <2>2, WayKept DEF reporters
<1>9. QED
  BY <1>4, <1>5, <1>6, <1>7, <1>8 DEF RepInv

\* Steps that only move a part, or the lock: what is due stays due.
LEMMA ReportingKept ==
  ASSUME RepTyped, Reporting, UNCHANGED <<scopes, part, due>>, NEW t \in Threads, NEW now,
         doing[t] \in Busy <=> now \in Busy, doing' = [doing EXCEPT ![t] = now]
  PROVE  Reporting'
<1>1. \A u \in Threads : doing'[u] \in Busy <=> doing[u] \in Busy
  BY DEF RepTyped
<1>2. QED
  BY <1>1 DEF Reporting

\* The lock is taken; the reporter of the thread is called first.
LEMMA LockStep ==
  ASSUME RepInv, NEW t \in Threads, Lock(t)
  PROVE  RepInv'
<1>1. /\ doing[t] = "reports" /\ doing' = [doing EXCEPT ![t] = "in reporter"]
      /\ reporter' = [reporter EXCEPT ![t] = per_thread_test_part_result_reporter_[t]]
      /\ UNCHANGED <<reporters, part, gtest_trace_stack_, scopes, opened, has_new_fatal_failure_,
                     test_part_results, due>>
  BY DEF Lock
<1>2. RepTyped'
  BY <1>1 DEF RepInv, RepTyped, Active, reporters
<1>3. MainLeads'
  BY <1>1, MainLeadsKept DEF RepInv, Active
<1>4. Stacks' /\ Apart' /\ GlobalInForce'
  BY <1>1, ScopesKept DEF RepInv
<1>5. Numbered' /\ Arrived' /\ Noticed'
  BY <1>1, PartsKept DEF RepInv
<1>6. Reporting'
  BY <1>1, ReportingKept DEF RepInv, Busy
<1>7. OnTheWay'
  <2>1. SUFFICES ASSUME NEW u \in Threads, doing'[u] = "in reporter" PROVE Way(u)'
    BY DEF OnTheWay
  <2>2. CASE u = t
    <3>1. /\ reporter'[t] = per_thread_test_part_result_reporter_[t]
          /\ InForce(scopes[t], Len(scopes[t]), ThreadKinds, DefaultThread, per_thread_test_part_result_reporter_[t])
          /\ scopes[t] \in Seq(AnyScope)
      BY <1>1 DEF RepInv, RepTyped, Stacks, Stack
    <3>2. PICK n : n = Len(scopes[t])
      OBVIOUS
    <3>3. n \in 0 .. Len(scopes'[t]) /\ n + 1 .. Len(scopes'[t]) = {}
      <4>1. scopes' = scopes
        BY <1>1
      <4>2. n \in Nat /\ Len(scopes[t]) = n
        BY <3>1, <3>2
      <4>3. QED
        BY <4>1, <4>2
    <3>4. reporter'[t] = per_thread_test_part_result_reporter_[t]
      BY <3>1
    <3>5. AtOwn(t, n)'
      BY <1>1, <3>1, <3>2, <3>3, <3>4 DEF AtOwn, WentPast
    <3>6. QED
      BY <2>2, <3>3, <3>5 DEF Way
  <2>3. CASE u # t
    <3>1. doing[u] = "in reporter" /\ reporter'[u] = reporter[u]
      BY <1>1, <2>1, <2>3 DEF RepInv, RepTyped
    <3>2. QED
      BY <1>1, <3>1, WayKept DEF reporters
  <2>4. QED
    BY <2>2, <2>3
<1>8. QED
  BY <1>2, <1>3, <1>4, <1>5, <1>6, <1>7 DEF RepInv

\* DefaultPerThreadTestPartResultReporter passes the part to the global reporter; no scope
\* of the thread's own was in its way.
LEMMA ThreadStep ==
  ASSUME RepInv, NEW t \in Threads, ThreadReports(t)
  PROVE  RepInv'
<1>1. /\ doing[t] = "in reporter" /\ reporter[t] = DefaultThread
      /\ reporter' = [reporter EXCEPT ![t] = global_test_part_result_reporter_]
      /\ UNCHANGED <<doing, reporters, part, gtest_trace_stack_, scopes, opened, has_new_fatal_failure_,
                     test_part_results, due>>
  BY DEF ThreadReports
<1>2. RepTyped' /\ MainLeads' /\ Reporting'
  BY <1>1 DEF RepInv, RepTyped, MainLeads, Reporting, reporters
<1>3. Stacks' /\ Apart' /\ GlobalInForce'
  BY <1>1, ScopesKept DEF RepInv
<1>4. Numbered' /\ Arrived' /\ Noticed'
  BY <1>1, PartsKept DEF RepInv
<1>5. WentPast(t, 0)
  <2>1. SUFFICES ASSUME NEW n \in 0 .. Len(scopes[t]), AtOwn(t, n) PROVE WentPast(t, 0)
    BY <1>1 DEF RepInv, OnTheWay, Way
  <2>2. \A k \in 1 .. n : scopes[t][k].kind \notin ThreadKinds
    <3>1. \A scope : ReporterOf(scope) # DefaultThread
      BY DEF ReporterOf, Helper, Fake, DefaultThread
    <3>2. QED
      BY <1>1, <2>1, <3>1 DEF AtOwn, InForce
  <2>3. \A k \in 0 + 1 .. Len(scopes[t]) : k \in 1 .. n \/ k \in n + 1 .. Len(scopes[t])
    OBVIOUS
  <2>4. QED
    BY <2>1, <2>2, <2>3 DEF AtOwn, WentPast, ThreadKinds
<1>6. OnTheWay'
  <2>1. SUFFICES ASSUME NEW u \in Threads, doing'[u] = "in reporter" PROVE Way(u)'
    BY DEF OnTheWay
  <2>2. CASE u = t
    <3>1. WentPast(t, 0)'
      BY <1>1, <1>5 DEF WentPast
    <3>2. reporter'[t] = global_test_part_result_reporter_'
      BY <1>1 DEF RepInv, RepTyped, reporters
    <3>3. QED
      BY <2>2, <3>1, <3>2 DEF Way
  <2>3. CASE u # t
    <3>1. doing[u] = "in reporter" /\ reporter'[u] = reporter[u]
      BY <1>1, <2>1, <2>3 DEF RepInv, RepTyped
    <3>2. QED
      BY <1>1, <3>1, WayKept DEF reporters
  <2>4. QED
    BY <2>2, <2>3
<1>7. QED
  BY <1>2, <1>3, <1>4, <1>6 DEF RepInv

\* The reporters that keep what they get, and those that are in force for all threads.
LEMMA GlobalFacts ==
  ASSUME RepInv
  PROVE  /\ Greatest(UNION {Ids(OpenIn(scopes, u), "all") : u \in Threads})
              = global_test_part_result_reporter_[2]
         /\ global_test_part_result_reporter_[2] \in 0 .. opened
         /\ global_test_part_result_reporter_[1] \in {"ScopedFake", "DefaultGlobal"}
<1>1. opened \in Nat
  BY OpenedFacts
<1>2. Stack(scopes[MainThread], per_thread_test_part_result_reporter_[MainThread],
            gtest_trace_stack_[MainThread], opened)
  BY ReportersAssumption DEF RepInv, Stacks
<1>3. \A u \in Threads \ {MainThread} :
        scopes[u] \in Seq(AnyScope) /\ \A k \in 1 .. Len(scopes[u]) : scopes[u][k].kind # "all"
  <2> TAKE u \in Threads \ {MainThread}
  <2>1. scopes[u] \in Seq(AnyScope)
    BY DEF RepInv, Stacks, Stack
  <2>2. \A k \in 1 .. Len(scopes[u]) : scopes[u][k].kind # "all"
    BY DEF RepInv, Apart
  <2>3. QED
    BY <2>1, <2>2
<1>4. InForce(scopes[MainThread], Len(scopes[MainThread]), AllKinds, DefaultGlobal,
              global_test_part_result_reporter_)
  BY DEF RepInv, GlobalInForce
<1>5. QED
  BY <1>1, <1>2, <1>3, <1>4, DueAll

\* A scope is known by its identity.
LEMMA ScopeFacts ==
  ASSUME Stacks, Apart, NEW t \in Threads, NEW j \in 1 .. Len(scopes[t]), opened \in Nat
  PROVE  Scope(scopes[t][j].id) = scopes[t][j]
<1>1. \A u \in Threads : /\ scopes[u] \in Seq(AnyScope) /\ DOMAIN scopes[u] = 1 .. Len(scopes[u])
                         /\ \A i, k \in 1 .. Len(scopes[u]) : i < k => scopes[u][i].id < scopes[u][k].id
                         /\ \A k \in 1 .. Len(scopes[u]) : scopes[u][k].id \in Nat
  BY DEF Stacks, Stack
<1>2. scopes[t][j] \in OpenScopes
  BY <1>1 DEF OpenScopes, OpenIn
<1>3. ASSUME NEW scope \in OpenScopes, scope.id = scopes[t][j].id PROVE scope = scopes[t][j]
  <2>1. PICK u \in Threads : \E k \in 1 .. Len(scopes[u]) : scope = scopes[u][k]
    BY <1>1 DEF OpenScopes, OpenIn
  <2>2. PICK k \in 1 .. Len(scopes[u]) : scope = scopes[u][k]
    BY <2>1
  <2>3. u = t
    BY <1>3, <2>2 DEF Apart
  <2>4. k = j
    <3>1. ~(k < j) /\ ~(j < k)
      BY <1>1, <1>3, <2>2, <2>3
    <3>2. QED
      BY <2>3, <3>1
  <2>5. QED
    BY <2>2, <2>3, <2>4
<1>4. QED
  BY <1>2, <1>3 DEF Scope

\* HasNewFatalFailureHelper::ReportTestPartResult notes a fatal failure of its thread,
\* which it is there to watch, and passes the part on to the next reporter further out.
LEMMA HelperStep ==
  ASSUME RepInv, NEW t \in Threads, HelperReports(t)
  PROVE  RepInv'
<1> DEFINE s == scopes[t]
           noted == IF FatallyFailed(part[t]) THEN {reporter[t][2]} ELSE {}
<1>1. /\ doing[t] = "in reporter" /\ reporter[t][1] = "HasNewFatalFailure"
      /\ has_new_fatal_failure_' = has_new_fatal_failure_ \cup noted
      /\ reporter' = [reporter EXCEPT ![t] = Scope(reporter[t][2]).original]
      /\ UNCHANGED <<doing, reporters, part, gtest_trace_stack_, scopes, opened,
                     test_part_results, due>>
  BY DEF HelperReports
<1>2. /\ opened \in Nat /\ Stack(s, per_thread_test_part_result_reporter_[t], gtest_trace_stack_[t], opened)
      /\ s \in Seq(AnyScope) /\ Len(s) \in Nat
  <2>1. opened \in Nat
    BY OpenedFacts
  <2>2. Stack(s, per_thread_test_part_result_reporter_[t], gtest_trace_stack_[t], opened)
    BY DEF RepInv, Stacks
  <2>3. s \in Seq(AnyScope)
    BY <2>2 DEF Stack
  <2>4. QED
    BY <2>1, <2>2, <2>3
<1>3. PICK n \in 0 .. Len(s) : AtOwn(t, n)
  <2>1. reporter[t] # global_test_part_result_reporter_
    BY <1>1, GlobalFacts
  <2>2. QED
    BY <1>1, <2>1 DEF RepInv, OnTheWay, Way
<1>4. PICK j \in 1 .. n : /\ s[j].kind = "no_fatal" /\ reporter[t] = Helper(s[j].id)
                          /\ \A k \in j + 1 .. n : s[k].kind \notin ThreadKinds
  <2>1. reporter[t][1] = "HasNewFatalFailure" /\ reporter[t] # DefaultThread
    <3>1. reporter[t][1] = "HasNewFatalFailure"
      BY <1>1
    <3>2. QED
      BY <3>1, ReporterFacts
  <2>2. PICK j \in 1 .. n : /\ reporter[t] = ReporterOf(s[j])
                            /\ \A k \in j + 1 .. n : s[k].kind \notin ThreadKinds
    BY <1>3, <2>1 DEF AtOwn, InForce
  <2>3. s[j].kind = "no_fatal"
    BY <2>1, <2>2, ReporterFacts DEF ReporterOf
  <2>4. QED
    BY <2>2, <2>3 DEF ReporterOf
<1>5. reporter[t][2] = s[j].id
  BY <1>4 DEF Helper
<1>6. j \in 1 .. Len(s) /\ j - 1 \in 0 .. Len(s)
  BY <1>2
<1>7. reporter'[t] = s[j].original
  BY <1>1, <1>2, <1>5, <1>6, ScopeFacts DEF RepInv, RepTyped
<1>8. InForce(s, j - 1, ThreadKinds, DefaultThread, s[j].original)
  BY <1>2, <1>4, <1>6 DEF Stack, Saved, ThreadKinds
<1>9. \A k \in j + 1 .. Len(s) : s[k].kind # "current"
  <2>1. \A k \in j + 1 .. Len(s) : k \in j + 1 .. n \/ k \in n + 1 .. Len(s)
    BY <1>2
  <2>2. QED
    BY <1>3, <1>4, <2>1 DEF AtOwn, WentPast, ThreadKinds
<1>10. RepTyped' /\ MainLeads' /\ Reporting' /\ Numbered'
  BY <1>1 DEF RepInv, RepTyped, MainLeads, Reporting, Numbered, reporters
<1>11. Stacks' /\ Apart' /\ GlobalInForce'
  BY <1>1, ScopesKept DEF RepInv
<1>a. UNCHANGED <<part, test_part_results, due>>
  BY <1>1
<1>12. \A d : (Delivered(d)' <=> Delivered(d)) /\ Places(d)' = Places(d)
  BY <1>a DEF Delivered, Places
<1>13. Arrived'
  BY <1>a, <1>12 DEF RepInv, Arrived
<1>14. Noticed'
  <2>1. \A id \in noted : \E d \in due : d.part.kind = "fatal" /\ id \in d.watching
    <3>1. SUFFICES ASSUME FatallyFailed(part[t])
                   PROVE  \E d \in due : d.part.kind = "fatal" /\ s[j].id \in d.watching
      BY <1>5
    <3>2. Due(scopes, t, part[t]) \in due
      BY <1>1 DEF RepInv, Reporting, Busy
    <3>3. s[j].id \in Due(scopes, t, part[t]).watching
      BY <1>2, <1>4, <1>6, <1>9, DueWatched
    <3>4. Due(scopes, t, part[t]).part = part[t]
      BY DEF Due
    <3>5. QED
      BY <3>1, <3>2, <3>3, <3>4 DEF FatallyFailed
  <2>2. \A id \in has_new_fatal_failure_' : \E d \in due' : d.part.kind = "fatal" /\ id \in d.watching
    BY <1>1, <2>1 DEF RepInv, Noticed
  <2>3. \A d \in due' : Delivered(d)' /\ d.part.kind = "fatal" => d.watching \subseteq has_new_fatal_failure_'
    BY <1>1, <1>12 DEF RepInv, Noticed
  <2>4. QED
    BY <2>2, <2>3 DEF Noticed
<1>15. OnTheWay'
  <2>1. SUFFICES ASSUME NEW u \in Threads, doing'[u] = "in reporter" PROVE Way(u)'
    BY DEF OnTheWay
  <2>2. CASE u = t
    <3>1. PICK i : i = j - 1
      OBVIOUS
    <3>2. ASSUME NEW k \in i + 1 .. Len(s)
          PROVE  /\ s[k].kind # "current"
                 /\ s[k].kind = "no_fatal" /\ FatallyFailed(part[t]) => s[k].id \in has_new_fatal_failure_'
      <4>1. k = j \/ k \in j + 1 .. n \/ k \in n + 1 .. Len(s)
        BY <1>2, <3>1
      <4>2. CASE k = j
        BY <1>1, <1>4, <1>5, <4>2
      <4>3. CASE k \in j + 1 .. n
        BY <1>4, <4>3 DEF ThreadKinds
      <4>4. CASE k \in n + 1 .. Len(s)
        BY <1>1, <1>3, <4>4 DEF AtOwn, WentPast
      <4>5. QED
        BY <4>1, <4>2, <4>3, <4>4
    <3>3. WentPast(t, i)'
      BY <1>1, <3>2 DEF WentPast
    <3>4. InForce(scopes'[t], i, ThreadKinds, DefaultThread, reporter'[t])
      BY <1>1, <1>7, <1>8, <3>1
    <3>5. AtOwn(t, i)'
      BY <3>3, <3>4 DEF AtOwn
    <3>6. i \in 0 .. Len(scopes'[t])
      BY <1>1, <1>6, <3>1
    <3>7. QED
      BY <2>2, <3>5, <3>6 DEF Way
  <2>3. CASE u # t
    <3>1. doing[u] = "in reporter" /\ reporter'[u] = reporter[u]
      BY <1>1, <2>1, <2>3 DEF RepInv, RepTyped
    <3>2. QED
      BY <1>1, <3>1, WayKept DEF reporters
  <2>4. QED
    BY <2>2, <2>3
<1>16. QED
  BY <1>10, <1>11, <1>13, <1>14, <1>15 DEF RepInv

InReporter(t) == doing[t] = "in reporter"
Keeper(r) == r[1] \in {"ScopedFake", "DefaultGlobal"}

\* A part that comes to a reporter that keeps it has come to where it is due, and every
\* helper that is there to watch it has seen it.
LEMMA ArrivesWhereDue ==
  ASSUME RepInv, NEW t \in Threads, InReporter(t), Keeper(reporter[t]), NEW p
  PROVE  /\ Due(scopes, t, p).place = reporter[t][2] /\ reporter[t][2] \in 0 .. MaxScopes
         /\ FatallyFailed(part[t]) => Due(scopes, t, p).watching \subseteq has_new_fatal_failure_
<1> DEFINE s == scopes[t]
           r == per_thread_test_part_result_reporter_[t]
           stacked == gtest_trace_stack_[t]
<1>1. opened \in Nat /\ opened <= MaxScopes /\ MaxScopes \in Nat
  BY OpenedFacts
<1>2. Stack(s, r, stacked, opened)
  BY DEF RepInv, Stacks
<1>3. Len(s) \in Nat /\ \A k \in 1 .. Len(s) : s[k].id \in 1 .. opened
  <2>1. s \in Seq(AnyScope) /\ \A k \in 1 .. Len(s) : s[k].id \in 1 .. opened
    BY <1>2 DEF Stack
  <2>2. QED
    BY <2>1
<1>4. CASE \E n \in 0 .. Len(s) : AtOwn(t, n)
  <2>1. PICK n \in 0 .. Len(s) : AtOwn(t, n)
    BY <1>4
  <2>2. reporter[t] # DefaultThread
    BY ReporterFacts DEF Keeper
  <2>3. PICK j \in 1 .. n : /\ s[j].kind \in ThreadKinds /\ reporter[t] = ReporterOf(s[j])
                            /\ \A k \in j + 1 .. n : s[k].kind \notin ThreadKinds
    BY <2>1, <2>2 DEF AtOwn, InForce
  <2>4. s[j].kind = "current" /\ reporter[t][2] = s[j].id
    BY <2>3, ReporterFacts DEF ReporterOf, ThreadKinds, Keeper
  <2>5. j \in 1 .. Len(s) /\ \A k \in j + 1 .. Len(s) : k \in j + 1 .. n \/ k \in n + 1 .. Len(s)
    BY <1>3
  <2>6. \A k \in j + 1 .. Len(s) : s[k].kind # "current"
    BY <2>1, <2>3, <2>5 DEF AtOwn, WentPast, ThreadKinds
  <2>7. /\ Due(scopes, t, p).place = s[j].id
        /\ \A x \in Due(scopes, t, p).watching :
             \E k \in j + 1 .. Len(s) : s[k].kind = "no_fatal" /\ s[k].id = x
    <3>1. opened \in Nat /\ j \in 1 .. Len(s) /\ s[j].kind = "current"
      BY <1>1, <2>4, <2>5
    <3>2. ForFake(Due(scopes, t, p), s, j)
      BY <1>2, <2>6, <3>1, DueFake
    <3>3. QED
      BY <3>2 DEF ForFake
  <2>8. FatallyFailed(part[t]) =>
          \A k \in j + 1 .. Len(s) : s[k].kind = "no_fatal" => s[k].id \in has_new_fatal_failure_
    BY <2>1, <2>3, <2>5 DEF AtOwn, WentPast, ThreadKinds
  <2>9. s[j].id \in 0 .. MaxScopes
    BY <1>1, <1>3, <2>5
  <2>10. QED
    BY <2>4, <2>7, <2>8, <2>9
<1>5. CASE reporter[t] = global_test_part_result_reporter_ /\ WentPast(t, 0)
  <2>1. \A k \in 1 .. Len(s) : k \in 0 + 1 .. Len(s)
    OBVIOUS
  <2>2. \A k \in 1 .. Len(s) : s[k].kind # "current"
    BY <1>5, <2>1 DEF WentPast
  <2>3. /\ Due(scopes, t, p).place = Greatest(UNION {Ids(OpenIn(scopes, u), "all") : u \in Threads})
        /\ \A x \in Due(scopes, t, p).watching :
             \E k \in 1 .. Len(s) : s[k].kind = "no_fatal" /\ s[k].id = x
    <3>1. opened \in Nat
      BY <1>1
    <3>2. ForAll(Due(scopes, t, p), scopes, s)
      BY <1>2, <2>2, <3>1, DueGlobal
    <3>3. QED
      BY <3>2 DEF ForAll
  <2>4. /\ Greatest(UNION {Ids(OpenIn(scopes, u), "all") : u \in Threads})
             = global_test_part_result_reporter_[2]
        /\ global_test_part_result_reporter_[2] \in 0 .. opened
    BY GlobalFacts
  <2>5. FatallyFailed(part[t]) =>
          \A k \in 1 .. Len(s) : s[k].kind = "no_fatal" => s[k].id \in has_new_fatal_failure_
    BY <1>5, <2>1 DEF WentPast
  <2>6. reporter[t][2] \in 0 .. MaxScopes
    BY <1>1, <1>5, <2>4
  <2>7. QED
    BY <1>5, <2>3, <2>4, <2>5, <2>6
<1>6. QED
  BY <1>4, <1>5 DEF RepInv, OnTheWay, Way, InReporter

\* One more entry at one place.
LEMMA KeepFacts ==
  ASSUME NEW f, NEW R, f \in [0 .. MaxScopes -> Seq(R)], NEW q \in 0 .. MaxScopes, NEW e \in R,
         NEW g, g = [f EXCEPT ![q] = Append(@, e)]
  PROVE  /\ g \in [0 .. MaxScopes -> Seq(R)]
         /\ Len(f[q]) + 1 \in DOMAIN g[q] /\ g[q][Len(f[q]) + 1] = e
         /\ \A id \in 0 .. MaxScopes : \A k \in DOMAIN f[id] : k \in DOMAIN g[id] /\ g[id][k] = f[id][k]
         /\ \A id \in 0 .. MaxScopes : \A k \in DOMAIN g[id] :
              k \in DOMAIN f[id] \/ (id = q /\ k = Len(f[q]) + 1 /\ g[id][k] = e)
<1>1. f[q] \in Seq(R) /\ g[q] = Append(f[q], e) /\ \A id \in 0 .. MaxScopes : id # q => g[id] = f[id]
  OBVIOUS
<1>2. /\ g[q] \in Seq(R) /\ Len(g[q]) = Len(f[q]) + 1 /\ Len(f[q]) \in Nat
      /\ g[q][Len(f[q]) + 1] = e /\ \A k \in 1 .. Len(f[q]) : g[q][k] = f[q][k]
  BY <1>1, PushFacts
<1>3. DOMAIN f[q] = 1 .. Len(f[q]) /\ DOMAIN g[q] = 1 .. Len(f[q]) + 1
  BY <1>1, <1>2
<1>4. g \in [0 .. MaxScopes -> Seq(R)]
  BY <1>1
<1>5. \A k \in 1 .. Len(f[q]) + 1 : k \in 1 .. Len(f[q]) \/ k = Len(f[q]) + 1
  BY <1>2
<1>6. Len(f[q]) + 1 \in 1 .. Len(f[q]) + 1 /\ \A k \in 1 .. Len(f[q]) : k \in 1 .. Len(f[q]) + 1
  BY <1>2
<1>7. QED
  BY <1>1, <1>2, <1>3, <1>4, <1>5, <1>6

LEMMA PlacesFacts ==
  ASSUME NEW d
  PROVE  /\ \A id, k : <<id, k>> \in Places(d) <=>
              id \in 0 .. MaxScopes /\ k \in DOMAIN test_part_results[id]
                /\ test_part_results[id][k].part = d.part
         /\ \A x \in Places(d) : \E id, k : x = <<id, k>>
BY DEF Places

\* A fake or the global reporter keeps the part; AddTestPartResult returns.
LEMMA KeeperStep ==
  ASSUME RepInv, NEW t \in Threads, KeeperReports(t)
  PROVE  RepInv'
<1>1. /\ doing[t] = "in reporter" /\ reporter[t][1] \in {"ScopedFake", "DefaultGlobal"}
      /\ test_part_results' = [test_part_results EXCEPT ![reporter[t][2]] =
           Append(@, [part |-> part[t], traces |-> gtest_trace_stack_[t]])]
      /\ doing' = [doing EXCEPT ![t] = "runs"] /\ part' = [part EXCEPT ![t] = NoPart]
      /\ UNCHANGED <<reporters, reporter, gtest_trace_stack_, scopes, opened, has_new_fatal_failure_, due>>
  BY DEF KeeperReports
<1>2. PICK p : p = part[t]
  OBVIOUS
<1>3. PICK q : q = reporter[t][2]
  OBVIOUS
<1>4. PICK d0 : d0 = Due(scopes, t, p)
  OBVIOUS
<1>5. PICK e : e = [part |-> p, traces |-> gtest_trace_stack_[t]]
  OBVIOUS
<1>6. d0 \in due /\ p.by = t /\ d0.part = p
  <2>1. doing[t] \in Busy
    BY <1>1 DEF Busy
  <2>2. QED
    BY <1>2, <1>4, <2>1 DEF RepInv, Reporting, Due
<1>7. d0.place = q /\ q \in 0 .. MaxScopes /\ (p.kind = "fatal" => d0.watching \subseteq has_new_fatal_failure_)
  BY <1>1, <1>2, <1>3, <1>4, ArrivesWhereDue DEF FatallyFailed, Keeper, InReporter
<1>8. Stack(scopes[t], per_thread_test_part_result_reporter_[t], gtest_trace_stack_[t], opened)
  BY DEF RepInv, Stacks
<1>9. e \in Entry /\ e.part = p
  <2>1. p \in AnyPart
    BY <1>2 DEF RepInv, RepTyped
  <2>2. gtest_trace_stack_[t] \in Seq(Nat)
    BY <1>8 DEF Stack
  <2>3. QED
    BY <1>5, <2>1, <2>2 DEF Entry
<1>10. {e.traces[j] : j \in DOMAIN e.traces} = d0.traces
  <2>1. d0.traces = Listed(gtest_trace_stack_[t])
    <3>1. opened \in Nat
      BY OpenedFacts
    <3>2. QED
      BY <1>4, <1>8, <3>1, DueTraces
  <2>2. e.traces = gtest_trace_stack_[t]
    BY <1>5
  <2>3. QED
    BY <2>1, <2>2 DEF Listed
<1>11. PICK k0 : k0 = Len(test_part_results[q]) + 1
  OBVIOUS
<1>12. /\ test_part_results \in [0 .. MaxScopes -> Seq(Entry)]
       /\ test_part_results' = [test_part_results EXCEPT ![q] = Append(@, e)]
  BY <1>1, <1>2, <1>3, <1>5 DEF RepInv, RepTyped
<1>13. /\ test_part_results' \in [0 .. MaxScopes -> Seq(Entry)]
       /\ k0 \in DOMAIN test_part_results'[q] /\ test_part_results'[q][k0] = e
       /\ \A id \in 0 .. MaxScopes : \A k \in DOMAIN test_part_results[id] :
            k \in DOMAIN test_part_results'[id] /\ test_part_results'[id][k] = test_part_results[id][k]
       /\ \A id \in 0 .. MaxScopes : \A k \in DOMAIN test_part_results'[id] :
            k \in DOMAIN test_part_results[id] \/ (id = q /\ k = k0 /\ test_part_results'[id][k] = e)
  BY <1>7, <1>9, <1>11, <1>12, KeepFacts
<1>14. /\ DOMAIN doing = Threads /\ DOMAIN part = Threads /\ part \in [Threads -> AnyPart]
  BY DEF RepInv, RepTyped
<1>15. part'[t] = NoPart /\ \A u \in Threads \ {t} : part'[u] = part[u]
  BY <1>1, <1>14
<1>16. /\ \A d \in due : d.part.number \in 1 .. Cardinality(due)
       /\ \A d, f \in due : d.part.number = f.part.number => d = f
  BY DEF RepInv, Numbered
<1>17. NoPart.number = 0 /\ NoPart.by = Nobody
  BY DEF NoPart
<1>18. \A d \in due : d.part # NoPart /\ (d # d0 => d.part # p)
  BY <1>6, <1>16, <1>17
<1>19. \A d \in due \ {d0} : Delivered(d)' <=> Delivered(d)
  BY <1>2, <1>15, <1>18 DEF Delivered
<1>20. ~Delivered(d0) /\ Delivered(d0)'
  <2>1. \A u \in Threads \ {t} : part[u] # p
    <3>1. \A u \in Threads : part[u] = NoPart \/ part[u].by = u
      BY DEF RepInv, Reporting
    <3>2. QED
      BY <1>6, <1>18, <3>1
  <2>2. QED
    BY <1>2, <1>6, <1>15, <1>18, <2>1 DEF Delivered
<1>21. \A d \in due \ {d0} : Places(d)' = Places(d)
  <2> TAKE d \in due \ {d0}
  <2>1. e.part # d.part
    BY <1>9, <1>18
  <2>2. \A id \in 0 .. MaxScopes : \A k :
          (k \in DOMAIN test_part_results'[id] /\ test_part_results'[id][k].part = d.part) <=>
          (k \in DOMAIN test_part_results[id] /\ test_part_results[id][k].part = d.part)
    BY <1>13, <2>1
  <2>3. \A id \in 0 .. MaxScopes :
          {k \in DOMAIN test_part_results'[id] : test_part_results'[id][k].part = d.part}
            = {k \in DOMAIN test_part_results[id] : test_part_results[id][k].part = d.part}
    BY <2>2
  <2>4. QED
    BY <2>3 DEF Places
<1>22. Places(d0)' = {<<q, k0>>}
  <2>1. Places(d0) = {}
    BY <1>6, <1>20 DEF RepInv, Arrived
  <2>2. \A id \in 0 .. MaxScopes : \A k \in DOMAIN test_part_results[id] : test_part_results[id][k].part # p
    BY <1>6, <2>1, PlacesFacts
  <2>3. \A id \in 0 .. MaxScopes : \A k :
          (k \in DOMAIN test_part_results'[id] /\ test_part_results'[id][k].part = p) <=> (id = q /\ k = k0)
    BY <1>9, <1>13, <2>2
  <2>4. \A id \in 0 .. MaxScopes :
          {k \in DOMAIN test_part_results'[id] : test_part_results'[id][k].part = p}
            = IF id = q THEN {k0} ELSE {}
    BY <2>3
  <2>5. QED
    BY <1>6, <1>7, <2>4 DEF Places
<1>23. Arrived'
  <2>1. SUFFICES ASSUME NEW d \in due
        PROVE  IF Delivered(d)'
               THEN \E k \in DOMAIN test_part_results'[d.place] :
                      /\ Places(d)' = {<<d.place, k>>}
                      /\ {test_part_results'[d.place][k].traces[j] :
                            j \in DOMAIN test_part_results'[d.place][k].traces} = d.traces
               ELSE Places(d)' = {}
    <3>1. due' = due
      BY <1>1
    <3>2. QED
      BY <3>1, Zenon DEF Arrived
  <2>2. CASE d = d0
    BY <1>7, <1>10, <1>13, <1>20, <1>22, <2>2
  <2>3. CASE d # d0 /\ ~Delivered(d)
    BY <1>19, <1>21, <2>3 DEF RepInv, Arrived
  <2>4. CASE d # d0 /\ Delivered(d)
    <3>1. PICK k \in DOMAIN test_part_results[d.place] :
            /\ Places(d) = {<<d.place, k>>}
            /\ {test_part_results[d.place][k].traces[j] :
                  j \in DOMAIN test_part_results[d.place][k].traces} = d.traces
      BY <2>4 DEF RepInv, Arrived
    <3>2. <<d.place, k>> \in Places(d)
      BY <3>1
    <3>3. d.place \in 0 .. MaxScopes
      BY <3>2, PlacesFacts
    <3>4. k \in DOMAIN test_part_results'[d.place] /\ test_part_results'[d.place][k] = test_part_results[d.place][k]
      BY <1>13, <3>1, <3>3
    <3>5. Places(d)' = {<<d.place, k>>} /\ Delivered(d)'
      BY <1>19, <1>21, <2>4, <3>1
    <3>6. QED
      BY <3>1, <3>4, <3>5
  <2>5. QED
    BY <2>2, <2>3, <2>4
<1>24. Noticed'
  <2>1. \A id \in has_new_fatal_failure_' : \E d \in due' : d.part.kind = "fatal" /\ id \in d.watching
    BY <1>1 DEF RepInv, Noticed
  <2>2. \A d \in due' : Delivered(d)' /\ d.part.kind = "fatal" => d.watching \subseteq has_new_fatal_failure_'
    <3>1. due' = due /\ has_new_fatal_failure_' = has_new_fatal_failure_
      BY <1>1
    <3>2. \A d \in due \ {d0} : Delivered(d)' /\ d.part.kind = "fatal" => d.watching \subseteq has_new_fatal_failure_
      BY <1>19 DEF RepInv, Noticed
    <3>3. QED
      BY <1>6, <1>7, <3>1, <3>2
  <2>3. QED
    BY <2>1, <2>2 DEF Noticed
<1>25. Numbered'
  <2>1. due' = due
    BY <1>1
  <2>2. \A id \in 0 .. MaxScopes : \A k \in DOMAIN test_part_results'[id] :
          test_part_results'[id][k].part.number <= Cardinality(due)
    <3>1. p.number <= Cardinality(due)
      <4>1. IsFiniteSet(due) /\ p.number \in 1 .. Cardinality(due)
        BY <1>6, <1>16 DEF RepInv, Numbered
      <4>2. Cardinality(due) \in Nat
        BY <4>1, FS_CardinalityType
      <4>3. QED
        BY <4>1, <4>2
    <3>2. \A id \in 0 .. MaxScopes : \A k \in DOMAIN test_part_results[id] :
            test_part_results[id][k].part.number <= Cardinality(due)
      BY DEF RepInv, Numbered
    <3>3. QED
      BY <1>9, <1>13, <3>1, <3>2
  <2>3. QED
    BY <2>1, <2>2 DEF RepInv, Numbered
<1>26. Reporting'
  <2>1. SUFFICES ASSUME NEW u \in Threads
        PROVE  IF doing'[u] \in Busy THEN Due(scopes', u, part'[u]) \in due' /\ part'[u].by = u
               ELSE part'[u] = NoPart
    BY DEF Reporting
  <2>2. CASE u = t
    BY <1>1, <1>14, <1>15, <2>2 DEF Busy
  <2>3. CASE u # t
    <3>1. doing'[u] = doing[u] /\ part'[u] = part[u] /\ scopes' = scopes /\ due' = due
      BY <1>1, <1>14, <1>15, <2>3
    <3>2. QED
      BY <3>1 DEF RepInv, Reporting
  <2>4. QED
    BY <2>2, <2>3
<1>27. RepTyped'
  <2>1. NoPart \in AnyPart
    BY DEF NoPart, AnyPart, PartKinds
  <2>2. part' \in [Threads -> AnyPart]
    BY <1>1, <1>14, <2>1
  <2>3. QED
    BY <1>1, <1>13, <2>2 DEF RepInv, RepTyped, Active, reporters
<1>28. MainLeads'
  BY <1>1, MainLeadsKept DEF RepInv, Active
<1>29. Stacks' /\ Apart' /\ GlobalInForce'
  BY <1>1, ScopesKept DEF RepInv
<1>30. OnTheWay'
  <2>1. SUFFICES ASSUME NEW u \in Threads, doing'[u] = "in reporter" PROVE Way(u)'
    BY DEF OnTheWay
  <2>2. u # t /\ doing[u] = "in reporter"
    BY <1>1, <1>14, <2>1
  <2>3. QED
    BY <1>1, <1>15, <2>2, WayKept DEF reporters
<1>31. QED
  BY <1>23, <1>24, <1>25, <1>26, <1>27, <1>28, <1>29, <1>30 DEF RepInv

(***************************************************************************)
(* The steps that open and close a scope.                                   *)
(***************************************************************************)
Running(t) == doing[t] = "runs"
ChangesTop(s, u, kind) ==
  \/ \E e \in AnyScope : e.kind = kind /\ u = Append(s, e)
  \/ s # <<>> /\ Last(s).kind = kind /\ u = Front(s)

LEMMA StackMore ==
  ASSUME NEW s, NEW r, NEW traces, NEW n \in Nat, Stack(s, r, traces, n)
  PROVE  Stack(s, r, traces, n + 1)
<1>1. \A k : k \in 1 .. n => k \in 1 .. n + 1
  OBVIOUS
<1>2. QED
  BY <1>1 DEF Stack

LEMMA ForceTyped ==
  ASSUME NEW s \in Seq(AnyScope), NEW kinds, NEW default \in AnyReporter, NEW r,
         InForce(s, Len(s), kinds, default, r)
  PROVE  r \in AnyReporter
<1>1. \A j \in 1 .. Len(s) : ReporterOf(s[j]) \in AnyReporter
  <2> TAKE j \in 1 .. Len(s)
  <2>1. s[j] \in AnyScope
    OBVIOUS
  <2>2. s[j].id \in Nat
    BY <2>1 DEF AnyScope
  <2>3. QED
    BY <2>2 DEF AnyReporter, ReporterOf
<1>2. QED
  BY <1>1 DEF InForce

\* What the other threads are reporting stays due where it is.
LEMMA OthersDue ==
  ASSUME RepInv, NEW t \in Threads, Running(t), NEW kind,
         ChangesTop(scopes[t], scopes'[t], kind), \A u \in Threads \ {t} : scopes'[u] = scopes[u],
         kind = "all" => Alone(t)
  PROVE  \A u \in Threads \ {t} : doing[u] \in Busy => \A p : Due(scopes', u, p) = Due(scopes, u, p)
<1>1. SUFFICES ASSUME NEW u \in Threads \ {t}, doing[u] \in Busy
               PROVE  \A p : Due(scopes', u, p) = Due(scopes, u, p)
  OBVIOUS
<1>2. kind # "all"
  BY <1>1 DEF Alone, Busy
<1>3. scopes[t] \in Seq(AnyScope)
  BY DEF RepInv, Stacks, Stack
<1>4. Ids(OpenIn(scopes', t), "all") = Ids(OpenIn(scopes, t), "all")
  <2>1. \/ \E e \in AnyScope : e.kind # "all" /\ scopes'[t] = Append(scopes[t], e)
        \/ scopes[t] # <<>> /\ Last(scopes[t]).kind # "all" /\ scopes'[t] = Front(scopes[t])
    BY <1>2 DEF ChangesTop
  <2>2. QED
    BY <1>3, <2>1, IdsKept
<1>5. \A v \in Threads : Ids(OpenIn(scopes', v), "all") = Ids(OpenIn(scopes, v), "all")
  <2>1. \A v \in Threads \ {t} : OpenIn(scopes', v) = OpenIn(scopes, v)
    BY DEF OpenIn
  <2>2. QED
    BY <1>4, <2>1
<1>6. scopes'[u] = scopes[u]
  OBVIOUS
<1>7. QED
  BY <1>5, <1>6, DueKept

\* What the other threads are reporting goes on as it went.
LEMMA OthersWay ==
  ASSUME RepInv, NEW t \in Threads, doing'[t] # "in reporter",
         \A u \in Threads \ {t} : scopes'[u] = scopes[u] /\ part'[u] = part[u] /\ doing'[u] = doing[u],
         UNCHANGED <<reporter, has_new_fatal_failure_>>,
         Alone(t) \/ UNCHANGED global_test_part_result_reporter_
  PROVE  OnTheWay'
<1>1. SUFFICES ASSUME NEW u \in Threads, doing'[u] = "in reporter" PROVE Way(u)'
  BY DEF OnTheWay
<1>2. u # t /\ doing[u] = "in reporter" /\ scopes'[u] = scopes[u] /\ part'[u] = part[u]
  BY <1>1
<1>3. UNCHANGED global_test_part_result_reporter_
  BY <1>2 DEF Alone
<1>4. QED
  BY <1>2, <1>3, WayKept

\* The constructor of a scope; the scope is on top of the thread's stack.
Opens(t, e) ==
  LET r == per_thread_test_part_result_reporter_
  IN  \/ /\ e.kind \in ThreadKinds /\ e.original = r[t]
         /\ per_thread_test_part_result_reporter_' = [r EXCEPT ![t] = ReporterOf(e)]
         /\ UNCHANGED <<global_test_part_result_reporter_, gtest_trace_stack_>>
      \/ /\ e.kind = "all" /\ Alone(t) /\ e.original = global_test_part_result_reporter_
         /\ global_test_part_result_reporter_' = Fake(e.id)
         /\ UNCHANGED <<per_thread_test_part_result_reporter_, gtest_trace_stack_>>
      \/ /\ e.kind = "trace" /\ e.original = DefaultThread
         /\ gtest_trace_stack_' = [gtest_trace_stack_ EXCEPT ![t] = Append(@, opened + 1)]
         /\ UNCHANGED <<per_thread_test_part_result_reporter_, global_test_part_result_reporter_>>

LEMMA OpenFacts ==
  ASSUME RepInv, NEW t \in Threads, OpenScope(t)
  PROVE  \E e \in AnyScope : /\ e.id = opened + 1 /\ Opens(t, e)
                             /\ scopes' = [scopes EXCEPT ![t] = Append(@, e)]
<1>1. opened \in Nat /\ opened + 1 \in Nat
  BY OpenedFacts
<1>2. per_thread_test_part_result_reporter_[t] \in AnyReporter
  <2>1. /\ scopes[t] \in Seq(AnyScope)
        /\ InForce(scopes[t], Len(scopes[t]), ThreadKinds, DefaultThread, per_thread_test_part_result_reporter_[t])
    BY DEF RepInv, Stacks, Stack
  <2>2. QED
    BY <2>1, ForceTyped DEF AnyReporter
<1>3. global_test_part_result_reporter_ \in AnyReporter
  <2>1. scopes[MainThread] \in Seq(AnyScope)
    BY ReportersAssumption DEF RepInv, Stacks, Stack
  <2>2. QED
    BY <2>1, ForceTyped DEF RepInv, GlobalInForce, AnyReporter
<1>4. DefaultThread \in AnyReporter
  BY DEF AnyReporter
<1>5. CASE OpenTrace(t)
  <2>1. PICK e : e = [id |-> opened + 1, kind |-> "trace", type |-> "none", original |-> DefaultThread]
    OBVIOUS
  <2>2. e \in AnyScope /\ e.id = opened + 1 /\ e.kind = "trace" /\ e.original = DefaultThread
    BY <1>1, <1>4, <2>1 DEF AnyScope
  <2>3. scopes' = [scopes EXCEPT ![t] = Append(@, e)]
    BY <1>5, <2>1 DEF OpenTrace, Enter
  <2>4. Opens(t, e)
    BY <1>5, <2>2 DEF OpenTrace, Opens, reporters
  <2>5. QED
    BY <2>2, <2>3, <2>4
<1>6. CASE OpenForThread(t)
  <2>1. ASSUME NEW type \in Types, NEW kind \in ThreadKinds,
               Enter(t, kind, type, per_thread_test_part_result_reporter_[t]),
               SetThread(t, IF kind = "current" THEN Fake(opened + 1) ELSE Helper(opened + 1))
        PROVE  \E e \in AnyScope : /\ e.id = opened + 1 /\ Opens(t, e)
                                   /\ scopes' = [scopes EXCEPT ![t] = Append(@, e)]
    <3>1. PICK e : e = [id |-> opened + 1, kind |-> kind, type |-> type,
                        original |-> per_thread_test_part_result_reporter_[t]]
      OBVIOUS
    <3>2. e \in AnyScope /\ e.id = opened + 1 /\ e.kind = kind /\ e.original = per_thread_test_part_result_reporter_[t]
      BY <1>1, <1>2, <3>1 DEF AnyScope, ThreadKinds
    <3>3. scopes' = [scopes EXCEPT ![t] = Append(@, e)]
      BY <2>1, <3>1 DEF Enter
    <3>4. ReporterOf(e) = IF kind = "current" THEN Fake(opened + 1) ELSE Helper(opened + 1)
      BY <3>2 DEF ReporterOf, ThreadKinds
    <3>5. Opens(t, e)
      BY <1>6, <2>1, <3>2, <3>4 DEF OpenForThread, SetThread, Opens
    <3>6. QED
      BY <3>2, <3>3, <3>5
  <2>2. \E type \in Types : \E kind \in ThreadKinds :
          /\ Enter(t, kind, type, per_thread_test_part_result_reporter_[t])
          /\ SetThread(t, IF kind = "current" THEN Fake(opened + 1) ELSE Helper(opened + 1))
    BY <1>6 DEF OpenForThread, ThreadKinds
  <2>3. QED
    BY <2>1, <2>2
<1>7. CASE OpenForAll(t)
  <2>1. PICK type \in Types : Enter(t, "all", type, global_test_part_result_reporter_)
    BY <1>7 DEF OpenForAll
  <2>2. PICK e : e = [id |-> opened + 1, kind |-> "all", type |-> type,
                      original |-> global_test_part_result_reporter_]
    OBVIOUS
  <2>3. e \in AnyScope /\ e.id = opened + 1 /\ e.kind = "all" /\ e.original = global_test_part_result_reporter_
    BY <1>1, <1>3, <2>2 DEF AnyScope
  <2>4. scopes' = [scopes EXCEPT ![t] = Append(@, e)]
    BY <2>1, <2>2 DEF Enter
  <2>5. Opens(t, e)
    BY <1>7, <2>3 DEF OpenForAll, SetGlobal, Opens
  <2>6. QED
    BY <2>3, <2>4, <2>5
<1>8. QED
  BY <1>5, <1>6, <1>7 DEF OpenScope

\* A scope with a new identity comes on top of the stack of one thread.
LEMMA OpenStacks ==
  ASSUME RepInv, NEW t \in Threads, doing[t] \in Active, NEW e \in AnyScope, e.id = opened + 1,
         Opens(t, e), scopes' = [scopes EXCEPT ![t] = Append(@, e)], opened' = opened + 1
  PROVE  Stacks' /\ Apart' /\ GlobalInForce'
<1>1. opened \in Nat
  BY OpenedFacts
<1>2. /\ scopes'[t] = Append(scopes[t], e) /\ \A u \in Threads \ {t} : scopes'[u] = scopes[u]
      /\ DOMAIN gtest_trace_stack_ = Threads /\ DOMAIN per_thread_test_part_result_reporter_ = Threads
  BY DEF RepInv, RepTyped
<1>3. \A u \in Threads :
        Stack(scopes[u], per_thread_test_part_result_reporter_[u], gtest_trace_stack_[u], opened)
  BY DEF RepInv, Stacks
<1>4. \A u \in Threads : /\ scopes[u] \in Seq(AnyScope)
                         /\ \A k \in 1 .. Len(scopes[u]) : scopes[u][k].id \in 1 .. opened
  BY <1>3 DEF Stack
<1>5. e.kind = "all" => t = MainThread /\ Alone(t)
  BY AloneIsMain DEF RepInv, Opens, ThreadKinds
<1>6. Stacks'
  <2>1. SUFFICES ASSUME NEW u \in Threads
                 PROVE  Stack(scopes'[u], per_thread_test_part_result_reporter_'[u], gtest_trace_stack_'[u], opened')
    BY DEF Stacks
  <2>2. CASE u = t
    <3>1. PICK s : s = scopes[t]
      OBVIOUS
    <3>2. PICK r : r = per_thread_test_part_result_reporter_[t]
      OBVIOUS
    <3>3. PICK r2 : r2 = per_thread_test_part_result_reporter_'[t]
      OBVIOUS
    <3>4. PICK traces : traces = gtest_trace_stack_[t]
      OBVIOUS
    <3>5. PICK traces2 : traces2 = gtest_trace_stack_'[t]
      OBVIOUS
    <3>6. PICK n : n = opened
      OBVIOUS
    <3>7. Stack(s, r, traces, n) /\ n \in Nat /\ e.id = n + 1
      BY <1>1, <1>3, <3>1, <3>2, <3>4, <3>6
    <3>8. CASE e.kind \in ThreadKinds
      <4>1. e.original = r /\ r2 = ReporterOf(e) /\ traces2 = traces
        BY <1>2, <3>2, <3>3, <3>4, <3>5, <3>8 DEF Opens, ThreadKinds
      <4>2. Stack(Append(s, e), r2, traces2, n + 1)
        BY <3>7, <3>8, <4>1, Pushed
      <4>3. QED
        BY <1>2, <2>2, <3>1, <3>3, <3>5, <3>6, <4>2
    <3>9. CASE e.kind = "all"
      <4>1. /\ InForce(s, Len(s), AllKinds, DefaultGlobal, e.original) /\ r2 = r /\ traces2 = traces
        BY <1>2, <1>5, <3>1, <3>2, <3>3, <3>4, <3>5, <3>9 DEF Opens, ThreadKinds, RepInv, GlobalInForce
      <4>2. Stack(Append(s, e), r2, traces2, n + 1)
        BY <3>7, <3>9, <4>1, Pushed
      <4>3. QED
        BY <1>2, <2>2, <3>1, <3>3, <3>5, <3>6, <4>2
    <3>10. CASE e.kind = "trace"
      <4>1. e.original = DefaultThread /\ r2 = r /\ traces2 = Append(traces, n + 1)
        BY <1>2, <3>2, <3>3, <3>4, <3>5, <3>6, <3>10 DEF Opens, ThreadKinds
      <4>2. Stack(Append(s, e), r2, traces2, n + 1)
        BY <3>7, <3>10, <4>1, Pushed
      <4>3. QED
        BY <1>2, <2>2, <3>1, <3>3, <3>5, <3>6, <4>2
    <3>11. QED
      BY <3>8, <3>9, <3>10 DEF AnyScope, ThreadKinds
  <2>3. CASE u # t
    <3>1. /\ scopes'[u] = scopes[u] /\ gtest_trace_stack_'[u] = gtest_trace_stack_[u]
          /\ per_thread_test_part_result_reporter_'[u] = per_thread_test_part_result_reporter_[u]
      BY <1>2, <2>3 DEF Opens
    <3>2. Stack(scopes[u], per_thread_test_part_result_reporter_[u], gtest_trace_stack_[u], opened + 1)
      BY <1>1, <1>3, StackMore
    <3>3. QED
      BY <3>1, <3>2
  <2>4. QED
    BY <2>2, <2>3
<1>7. /\ Len(scopes'[t]) = Len(scopes[t]) + 1 /\ Len(scopes[t]) \in Nat
      /\ scopes'[t][Len(scopes[t]) + 1] = e
      /\ \A k \in 1 .. Len(scopes[t]) : scopes'[t][k] = scopes[t][k]
  BY <1>2, <1>4, PushFacts
<1>8. \A k \in 1 .. Len(scopes'[t]) : k \in 1 .. Len(scopes[t]) \/ scopes'[t][k] = e
  <2>1. \A k \in 1 .. Len(scopes[t]) + 1 : k \in 1 .. Len(scopes[t]) \/ k = Len(scopes[t]) + 1
    BY <1>7
  <2>2. QED
    BY <1>7, <2>1
<1>9. Apart'
  <2>1. SUFFICES ASSUME NEW u \in Threads, NEW v \in Threads, u # v,
                        NEW j \in 1 .. Len(scopes'[u]), NEW k \in 1 .. Len(scopes'[v])
                 PROVE  scopes'[u][j].id # scopes'[v][k].id
    <3>1. \A u \in Threads : \A k \in 1 .. Len(scopes'[u]) : scopes'[u][k].kind = "all" => u = MainThread
      BY <1>2, <1>5, <1>7, <1>8 DEF RepInv, Apart
    <3>2. QED
      BY <3>1 DEF Apart
  <2>2. \A w \in Threads : \A i \in 1 .. Len(scopes[w]) : scopes[w][i].id # opened + 1
    BY <1>1, <1>4
  <2>3. CASE u = t
    <3>1. scopes'[v] = scopes[v]
      BY <1>2, <2>1, <2>3
    <3>2. CASE j \in 1 .. Len(scopes[t])
      BY <1>7, <2>1, <2>3, <3>1, <3>2 DEF RepInv, Apart
    <3>3. CASE scopes'[t][j] = e
      BY <2>2, <2>3, <3>1, <3>3
    <3>4. QED
      BY <1>8, <2>3, <3>2, <3>3
  <2>4. CASE v = t
    <3>1. scopes'[u] = scopes[u]
      BY <1>2, <2>1, <2>4
    <3>2. CASE k \in 1 .. Len(scopes[t])
      BY <1>7, <2>1, <2>4, <3>1, <3>2 DEF RepInv, Apart
    <3>3. CASE scopes'[t][k] = e
      BY <2>2, <2>4, <3>1, <3>3
    <3>4. QED
      BY <1>8, <2>4, <3>2, <3>3
  <2>5. CASE u # t /\ v # t
    BY <1>2, <2>1, <2>5 DEF RepInv, Apart
  <2>6. QED
    BY <2>3, <2>4, <2>5
<1>10. GlobalInForce'
  <2>1. InForce(scopes[MainThread], Len(scopes[MainThread]), AllKinds, DefaultGlobal,
                global_test_part_result_reporter_)
    BY DEF RepInv, GlobalInForce
  <2>2. CASE t # MainThread
    <3>1. scopes'[MainThread] = scopes[MainThread]
      BY <1>2, <2>2, ReportersAssumption
    <3>2. global_test_part_result_reporter_' = global_test_part_result_reporter_
      BY <1>5, <2>2 DEF Opens
    <3>3. QED
      BY <2>1, <3>1, <3>2 DEF GlobalInForce
  <2>3. CASE t = MainThread /\ e.kind = "all"
    <3>1. global_test_part_result_reporter_' = Fake(e.id)
      BY <2>3 DEF Opens, ThreadKinds
    <3>2. InForce(Append(scopes[t], e), Len(Append(scopes[t], e)), AllKinds, DefaultGlobal, Fake(e.id))
      BY <1>4, <2>3, AllPushed
    <3>3. QED
      BY <1>2, <2>3, <3>1, <3>2 DEF GlobalInForce
  <2>4. CASE t = MainThread /\ e.kind # "all"
    <3>1. global_test_part_result_reporter_' = global_test_part_result_reporter_
      BY <2>4 DEF Opens
    <3>2. InForce(Append(scopes[t], e), Len(Append(scopes[t], e)), AllKinds, DefaultGlobal,
                  global_test_part_result_reporter_)
      BY <1>4, <2>1, <2>4, AllPushed
    <3>3. QED
      BY <1>2, <2>4, <3>1, <3>2 DEF GlobalInForce
  <2>5. QED
    BY <2>2, <2>3, <2>4
<1>11. QED
  BY <1>6, <1>9, <1>10

\* The constructors of ScopedFakeTestPartResultReporter, HasNewFatalFailureHelper and
\* ScopedTrace.
LEMMA OpenStep ==
  ASSUME RepInv, NEW t \in Threads, OpenScope(t)
  PROVE  RepInv'
<1>1. PICK e \in AnyScope : /\ e.id = opened + 1 /\ Opens(t, e)
                            /\ scopes' = [scopes EXCEPT ![t] = Append(@, e)]
  BY OpenFacts
<1>2. /\ doing[t] = "runs" /\ opened < MaxScopes /\ opened' = opened + 1
      /\ UNCHANGED <<doing, reporting, has_new_fatal_failure_, test_part_results, due>>
  BY DEF OpenScope
<1>3. Stacks' /\ Apart' /\ GlobalInForce'
  BY <1>1, <1>2, OpenStacks DEF Active
<1>4. /\ scopes'[t] = Append(scopes[t], e) /\ \A u \in Threads \ {t} : scopes'[u] = scopes[u]
      /\ DOMAIN scopes' = Threads /\ UNCHANGED <<part, reporter>>
  BY <1>1, <1>2 DEF RepInv, RepTyped, reporting
<1>5. RepTyped'
  <2>1. opened' \in 0 .. MaxScopes
    BY <1>2, OpenedFacts
  <2>2. DOMAIN gtest_trace_stack_' = Threads /\ DOMAIN per_thread_test_part_result_reporter_' = Threads
    BY <1>1 DEF RepInv, RepTyped, Opens
  <2>3. QED
    BY <1>2, <1>4, <2>1, <2>2 DEF RepInv, RepTyped
<1>6. MainLeads'
  BY <1>2, <1>4 DEF RepInv, MainLeads, Active
<1>7. e.kind = "all" => Alone(t)
  BY <1>1 DEF Opens, ThreadKinds
<1>8. Alone(t) \/ UNCHANGED global_test_part_result_reporter_
  BY <1>1 DEF Opens
<1>9. OnTheWay'
  <2>1. doing'[t] # "in reporter"
    BY <1>2
  <2>2. UNCHANGED <<reporter, has_new_fatal_failure_>>
    BY <1>2, <1>4
  <2>3. \A u \in Threads \ {t} : scopes'[u] = scopes[u] /\ part'[u] = part[u] /\ doing'[u] = doing[u]
    BY <1>2, <1>4
  <2>4. QED
    BY <1>8, <2>1, <2>2, <2>3, OthersWay
<1>10. Numbered' /\ Arrived' /\ Noticed'
  BY <1>2, <1>4, PartsKept DEF RepInv
<1>11. Reporting'
  <2>1. \A u \in Threads \ {t} : doing[u] \in Busy => \A p : Due(scopes', u, p) = Due(scopes, u, p)
    <3>1. PICK kind : kind = e.kind
      OBVIOUS
    <3>2. ChangesTop(scopes[t], scopes'[t], kind)
      BY <1>4, <3>1 DEF ChangesTop
    <3>3. Running(t) /\ (kind = "all" => Alone(t))
      BY <1>2, <1>7, <3>1 DEF Running
    <3>4. QED
      BY <1>4, <3>2, <3>3, OthersDue
  <2>2. doing[t] \notin Busy
    BY <1>2 DEF Busy
  <2>3. QED
    BY <1>2, <1>4, <2>1, <2>2 DEF RepInv, Reporting
<1>12. QED
  BY <1>3, <1>5, <1>6, <1>9, <1>10, <1>11 DEF RepInv

\* The destructor of a scope; the scope was the innermost of its thread.
Closes(t, e) ==
  LET r == per_thread_test_part_result_reporter_
  IN  \/ /\ e.kind \in ThreadKinds
         /\ per_thread_test_part_result_reporter_' = [r EXCEPT ![t] = e.original]
         /\ UNCHANGED <<global_test_part_result_reporter_, gtest_trace_stack_>>
      \/ /\ e.kind = "all" /\ Alone(t) /\ global_test_part_result_reporter_' = e.original
         /\ UNCHANGED <<per_thread_test_part_result_reporter_, gtest_trace_stack_>>
      \/ /\ e.kind = "trace"
         /\ gtest_trace_stack_' = [gtest_trace_stack_ EXCEPT ![t] = Front(@)]
         /\ UNCHANGED <<per_thread_test_part_result_reporter_, global_test_part_result_reporter_>>

LEMMA CloseFacts ==
  ASSUME RepInv, NEW t \in Threads, CloseScope(t)
  PROVE  /\ Closes(t, Last(scopes[t])) /\ Last(scopes[t]) \in AnyScope
         /\ scopes' = [scopes EXCEPT ![t] = Front(@)]
<1>1. PICK e : e = Last(scopes[t])
  OBVIOUS
<1>2. scopes[t] # <<>> /\ scopes[t] \in Seq(AnyScope)
  BY DEF CloseScope, RepInv, Stacks, Stack
<1>3. e \in AnyScope
  BY <1>1, <1>2, PopFacts
<1>4. e.kind \in {"current", "no_fatal", "all", "trace"}
  BY <1>3 DEF AnyScope
<1>5. /\ CASE e.kind \in {"current", "no_fatal"} -> RestoreThread(t, e)
           [] e.kind = "all" -> Alone(t) /\ RestoreGlobal(t, e)
           [] e.kind = "trace" -> mutex_ = Nobody /\ UNCHANGED reporters
      /\ gtest_trace_stack_' = IF e.kind = "trace" THEN [gtest_trace_stack_ EXCEPT ![t] = Front(@)]
                               ELSE gtest_trace_stack_
  BY <1>1 DEF CloseScope
<1>6. CASE e.kind \in {"current", "no_fatal"}
  <2>1. RestoreThread(t, e) /\ UNCHANGED gtest_trace_stack_
    BY <1>5, <1>6
  <2>2. Closes(t, e)
    BY <1>6, <2>1 DEF RestoreThread, SetThread, Closes, ThreadKinds
  <2>3. QED
    BY <1>1, <1>3, <2>2 DEF CloseScope
<1>7. CASE e.kind = "all"
  <2>1. Alone(t) /\ RestoreGlobal(t, e) /\ UNCHANGED gtest_trace_stack_
    BY <1>5, <1>7
  <2>2. Closes(t, e)
    BY <1>7, <2>1 DEF RestoreGlobal, SetGlobal, Closes
  <2>3. QED
    BY <1>1, <1>3, <2>2 DEF CloseScope
<1>8. CASE e.kind = "trace"
  <2>1. UNCHANGED reporters /\ gtest_trace_stack_' = [gtest_trace_stack_ EXCEPT ![t] = Front(@)]
    BY <1>5, <1>8
  <2>2. Closes(t, e)
    BY <1>8, <2>1 DEF reporters, Closes
  <2>3. QED
    BY <1>1, <1>3, <2>2 DEF CloseScope
<1>9. QED
  BY <1>4, <1>6, <1>7, <1>8

\* The innermost scope of one thread goes.
LEMMA CloseStacks ==
  ASSUME RepInv, NEW t \in Threads, doing[t] \in Active, scopes[t] # <<>>,
         NEW e \in AnyScope, e = Last(scopes[t]), Closes(t, e), scopes' = [scopes EXCEPT ![t] = Front(@)],
         UNCHANGED opened
  PROVE  Stacks' /\ Apart' /\ GlobalInForce'
<1>1. opened \in Nat
  BY OpenedFacts
<1>2. /\ scopes'[t] = Front(scopes[t]) /\ \A u \in Threads \ {t} : scopes'[u] = scopes[u]
      /\ DOMAIN gtest_trace_stack_ = Threads /\ DOMAIN per_thread_test_part_result_reporter_ = Threads
  BY DEF RepInv, RepTyped
<1>3. \A u \in Threads :
        Stack(scopes[u], per_thread_test_part_result_reporter_[u], gtest_trace_stack_[u], opened)
  BY DEF RepInv, Stacks
<1>4. scopes[t] \in Seq(AnyScope) /\ \A k \in 1 .. Len(scopes[t]) : Saved(scopes[t], k)
  BY <1>3 DEF Stack
<1>5. e.kind = "all" => t = MainThread
  BY AloneIsMain DEF RepInv, Closes, ThreadKinds
<1>6. Stacks'
  <2>1. SUFFICES ASSUME NEW u \in Threads
                 PROVE  Stack(scopes'[u], per_thread_test_part_result_reporter_'[u], gtest_trace_stack_'[u], opened')
    BY DEF Stacks
  <2>2. CASE u = t
    <3>1. PICK s : s = scopes[t]
      OBVIOUS
    <3>2. PICK r : r = per_thread_test_part_result_reporter_[t]
      OBVIOUS
    <3>3. PICK r2 : r2 = per_thread_test_part_result_reporter_'[t]
      OBVIOUS
    <3>4. PICK traces : traces = gtest_trace_stack_[t]
      OBVIOUS
    <3>5. PICK traces2 : traces2 = gtest_trace_stack_'[t]
      OBVIOUS
    <3>6. PICK n : n = opened
      OBVIOUS
    <3>7. Stack(s, r, traces, n) /\ n \in Nat /\ s # <<>> /\ e = Last(s)
      BY <1>1, <1>3, <3>1, <3>2, <3>4, <3>6
    <3>8. CASE e.kind \in ThreadKinds
      <4>1. r2 = e.original /\ traces2 = traces
        BY <1>2, <3>2, <3>3, <3>4, <3>5, <3>8 DEF Closes, ThreadKinds
      <4>2. Stack(Front(s), r2, traces2, n)
        BY <3>7, <3>8, <4>1, Popped
      <4>3. QED
        BY <1>2, <2>2, <3>1, <3>3, <3>5, <3>6, <4>2
    <3>9. CASE e.kind = "all"
      <4>1. r2 = r /\ traces2 = traces
        BY <1>2, <3>2, <3>3, <3>4, <3>5, <3>9 DEF Closes, ThreadKinds
      <4>2. Stack(Front(s), r2, traces2, n)
        BY <3>7, <3>9, <4>1, Popped
      <4>3. QED
        BY <1>2, <2>2, <3>1, <3>3, <3>5, <3>6, <4>2
    <3>10. CASE e.kind = "trace"
      <4>1. r2 = r /\ traces2 = Front(traces)
        BY <1>2, <3>2, <3>3, <3>4, <3>5, <3>10 DEF Closes, ThreadKinds
      <4>2. Stack(Front(s), r2, traces2, n)
        BY <3>7, <3>10, <4>1, Popped
      <4>3. QED
        BY <1>2, <2>2, <3>1, <3>3, <3>5, <3>6, <4>2
    <3>11. QED
      BY <3>8, <3>9, <3>10 DEF AnyScope, ThreadKinds
  <2>3. CASE u # t
    <3>1. /\ scopes'[u] = scopes[u] /\ gtest_trace_stack_'[u] = gtest_trace_stack_[u]
          /\ per_thread_test_part_result_reporter_'[u] = per_thread_test_part_result_reporter_[u]
      BY <1>2, <2>3 DEF Closes
    <3>2. QED
      BY <1>3, <3>1
  <2>4. QED
    BY <2>2, <2>3
<1>7. /\ Len(scopes'[t]) = Len(scopes[t]) - 1 /\ Len(scopes[t]) \in Nat /\ Len(scopes[t]) >= 1
      /\ \A k \in 1 .. Len(scopes[t]) - 1 : scopes'[t][k] = scopes[t][k]
  <2>1. PICK s : s = scopes[t]
    OBVIOUS
  <2>2. /\ Len(Front(s)) = Len(s) - 1 /\ Len(s) \in Nat /\ Len(s) >= 1
        /\ \A k \in 1 .. Len(s) - 1 : Front(s)[k] = s[k]
    BY <1>4, <2>1, PopFacts
  <2>3. scopes'[t] = Front(s)
    BY <1>2, <2>1
  <2>4. QED
    BY <2>1, <2>2, <2>3
<1>8. \A u \in Threads : \A k \in 1 .. Len(scopes'[u]) :
        k \in 1 .. Len(scopes[u]) /\ scopes'[u][k] = scopes[u][k]
  <2>1. \A k \in 1 .. Len(scopes[t]) - 1 : k \in 1 .. Len(scopes[t])
    BY <1>7
  <2>2. QED
    BY <1>2, <1>7, <2>1
<1>9. Apart'
  BY <1>8 DEF RepInv, Apart
<1>10. GlobalInForce'
  <2>1. InForce(scopes[MainThread], Len(scopes[MainThread]), AllKinds, DefaultGlobal,
                global_test_part_result_reporter_)
    BY DEF RepInv, GlobalInForce
  <2>2. Saved(scopes[t], Len(scopes[t]))
    <3>1. Len(scopes[t]) \in 1 .. Len(scopes[t])
      BY <1>7
    <3>2. QED
      BY <1>4, <3>1
  <2>3. CASE t # MainThread
    <3>1. scopes'[MainThread] = scopes[MainThread]
      BY <1>2, <2>3, ReportersAssumption
    <3>2. global_test_part_result_reporter_' = global_test_part_result_reporter_
      BY <1>5, <2>3 DEF Closes
    <3>3. QED
      BY <2>1, <3>1, <3>2 DEF GlobalInForce
  <2>4. CASE t = MainThread /\ e.kind = "all"
    <3>1. global_test_part_result_reporter_' = e.original
      BY <2>4 DEF Closes, ThreadKinds
    <3>2. InForce(Front(scopes[t]), Len(Front(scopes[t])), AllKinds, DefaultGlobal, e.original)
      BY <1>4, <2>2, <2>4, AllPopped
    <3>3. QED
      BY <1>2, <2>4, <3>1, <3>2 DEF GlobalInForce
  <2>5. CASE t = MainThread /\ e.kind # "all"
    <3>1. global_test_part_result_reporter_' = global_test_part_result_reporter_
      BY <2>5 DEF Closes
    <3>2. InForce(Front(scopes[t]), Len(Front(scopes[t])), AllKinds, DefaultGlobal,
                  global_test_part_result_reporter_)
      BY <1>4, <2>1, <2>2, <2>5, AllPopped
    <3>3. QED
      BY <1>2, <2>5, <3>1, <3>2 DEF GlobalInForce
  <2>6. QED
    BY <2>3, <2>4, <2>5
<1>11. QED
  BY <1>6, <1>9, <1>10

\* The destructor, and the assertion behind the scope, which is reported with the scopes
\* that are still open.
LEMMA CloseStep ==
  ASSUME RepInv, NEW t \in Threads, CloseScope(t)
  PROVE  RepInv'
<1>1. PICK e : e = Last(scopes[t])
  OBVIOUS
<1>2. e \in AnyScope /\ Closes(t, e) /\ scopes' = [scopes EXCEPT ![t] = Front(@)]
  BY <1>1, CloseFacts
<1>3. /\ doing[t] = "runs" /\ scopes[t] # <<>>
      /\ UNCHANGED <<reporter, opened, has_new_fatal_failure_, test_part_results>>
      /\ IF Complaint(e) = {} THEN UNCHANGED <<doing, part, due>>
         ELSE \E kind \in Complaint(e) : Report(t, kind, scopes')
  BY <1>1 DEF CloseScope
<1>4. Stacks' /\ Apart' /\ GlobalInForce'
  BY <1>1, <1>2, <1>3, CloseStacks DEF Active
<1>5. /\ scopes'[t] = Front(scopes[t]) /\ \A u \in Threads \ {t} : scopes'[u] = scopes[u]
      /\ DOMAIN scopes' = Threads
  BY <1>2 DEF RepInv, RepTyped
<1>6. (e.kind = "all" => Alone(t)) /\ (Alone(t) \/ UNCHANGED global_test_part_result_reporter_)
  BY <1>2 DEF Closes, ThreadKinds
<1>7. \A u \in Threads \ {t} : doing[u] \in Busy => \A p : Due(scopes', u, p) = Due(scopes, u, p)
  <2>1. PICK kind : kind = e.kind
    OBVIOUS
  <2>2. ChangesTop(scopes[t], scopes'[t], kind)
    BY <1>1, <1>3, <1>5, <2>1 DEF ChangesTop
  <2>3. Running(t) /\ (kind = "all" => Alone(t))
    BY <1>3, <1>6, <2>1 DEF Running
  <2>4. QED
    BY <1>5, <2>2, <2>3, OthersDue
<1>8. /\ Numbered' /\ Reporting' /\ Arrived' /\ Noticed'
      /\ part' \in [Threads -> AnyPart]
      /\ \A u \in Threads \ {t} : part'[u] = part[u] /\ doing'[u] = doing[u]
      /\ \E now \in {"runs", "reports"} : doing' = [doing EXCEPT ![t] = now]
  <2>1. CASE Complaint(e) = {}
    <3>1. UNCHANGED <<doing, part, due>>
      BY <1>3, <2>1
    <3>2. Numbered' /\ Arrived' /\ Noticed'
      BY <1>3, <3>1, PartsKept DEF RepInv
    <3>3. doing[t] \notin Busy
      BY <1>3 DEF Busy
    <3>4. Reporting'
      BY <1>7, <3>1, <3>3 DEF RepInv, Reporting
    <3>5. part' \in [Threads -> AnyPart] /\ doing' = [doing EXCEPT ![t] = "runs"]
      BY <1>3, <3>1 DEF RepInv, RepTyped
    <3>6. QED
      BY <3>1, <3>2, <3>4, <3>5
  <2>2. CASE Complaint(e) # {}
    <3>1. PICK kind \in Complaint(e) : Report(t, kind, scopes')
      BY <1>3, <2>2
    <3>2. kind \in PartKinds
      <4>1. e.type \in Types \cup {"none"}
        BY <1>2 DEF AnyScope
      <4>2. QED
        BY <3>1, <4>1 DEF Complaint, PartKinds
    <3>3. /\ Numbered' /\ Reporting' /\ Arrived' /\ Noticed'
          /\ part' \in [Threads -> AnyPart] /\ doing' = [doing EXCEPT ![t] = "reports"]
          /\ \A u \in Threads \ {t} : part'[u] = part[u] /\ doing'[u] = doing[u]
      BY <1>3, <1>7, <3>1, <3>2, ReportFacts
    <3>4. QED
      BY <3>3
  <2>3. QED
    BY <2>1, <2>2
<1>9. PICK now \in {"runs", "reports"} : doing' = [doing EXCEPT ![t] = now]
  BY <1>8
<1>10. doing'[t] = now /\ DOMAIN doing = Threads
  BY <1>9 DEF RepInv, RepTyped
<1>11. RepTyped'
  <2>1. DOMAIN gtest_trace_stack_' = Threads /\ DOMAIN per_thread_test_part_result_reporter_' = Threads
    BY <1>2 DEF RepInv, RepTyped, Closes
  <2>2. doing' \in [Threads -> Active \cup {"not started", "done"}]
    BY <1>9 DEF RepInv, RepTyped, Active
  <2>3. QED
    BY <1>3, <1>5, <1>8, <2>1, <2>2 DEF RepInv, RepTyped
<1>12. MainLeads'
  <2>1. doing[t] \in Active /\ doing'[t] \in Active
    BY <1>3, <1>10 DEF Active
  <2>2. \A u \in Threads : doing'[u] \in Active <=> doing[u] \in Active
    BY <1>8, <2>1
  <2>3. QED
    BY <1>5, <2>1, <2>2, ReportersAssumption DEF RepInv, MainLeads
<1>13. OnTheWay'
  <2>1. doing'[t] # "in reporter"
    BY <1>10
  <2>2. UNCHANGED <<reporter, has_new_fatal_failure_>>
    BY <1>3
  <2>3. \A u \in Threads \ {t} : scopes'[u] = scopes[u] /\ part'[u] = part[u] /\ doing'[u] = doing[u]
    BY <1>5, <1>8
  <2>4. QED
    BY <1>6, <2>1, <2>2, <2>3, OthersWay
<1>14. QED
  BY <1>4, <1>8, <1>11, <1>12, <1>13 DEF RepInv

(***************************************************************************)
(* Threads, and the theorems.                                               *)
(***************************************************************************)
\* No thread that is reporting moves, and no part.
LEMMA ThreadsMove ==
  ASSUME RepInv, NEW t \in Threads, doing[t] \notin Busy, NEW now \in {"runs", "done"},
         doing' = [doing EXCEPT ![t] = now],
         UNCHANGED <<reporters, reporting, gtest_trace_stack_, scopes, opened, has_new_fatal_failure_,
                     test_part_results, due>>
  PROVE  /\ RepTyped' /\ Stacks' /\ Apart' /\ GlobalInForce'
         /\ OnTheWay' /\ Numbered' /\ Reporting' /\ Arrived' /\ Noticed'
<1>1. DOMAIN doing = Threads /\ now \notin Busy
  BY DEF RepInv, RepTyped, Busy
<1>2. \A u \in Threads : doing'[u] \in Busy => u # t /\ doing'[u] = doing[u]
  BY <1>1
<1>3. UNCHANGED <<part, reporter>>
  BY DEF reporting
<1>4. Stacks' /\ Apart' /\ GlobalInForce'
  BY ScopesKept DEF RepInv
<1>5. Numbered' /\ Arrived' /\ Noticed'
  BY <1>3, PartsKept DEF RepInv
<1>6. RepTyped'
  BY <1>3 DEF RepInv, RepTyped, Active, reporters
<1>7. Reporting'
  <2>1. \A u \in Threads : doing'[u] \in Busy <=> doing[u] \in Busy
    BY <1>1
  <2>2. QED
    BY <1>3, <2>1 DEF RepInv, Reporting
<1>8. OnTheWay'
  <2>1. SUFFICES ASSUME NEW u \in Threads, doing'[u] = "in reporter" PROVE Way(u)'
    BY DEF OnTheWay
  <2>2. doing[u] = "in reporter"
    BY <1>2, <2>1 DEF Busy
  <2>3. QED
    BY <1>3, <2>2, WayKept DEF reporters
<1>9. QED
  BY <1>4, <1>5, <1>6, <1>7, <1>8

\* ThreadWithParam: MainThread starts a thread, which has no scopes.
LEMMA StartStep ==
  ASSUME RepInv, Start
  PROVE  RepInv'
<1>1. PICK t \in Threads \ {MainThread} : doing[t] = "not started" /\ doing' = [doing EXCEPT ![t] = "runs"]
  BY DEF Start
<1>2. /\ doing[MainThread] = "runs"
      /\ UNCHANGED <<reporters, reporting, gtest_trace_stack_, scopes, opened, has_new_fatal_failure_,
                     test_part_results, due>>
  BY DEF Start
<1>3. /\ RepTyped' /\ Stacks' /\ Apart' /\ GlobalInForce'
      /\ OnTheWay' /\ Numbered' /\ Reporting' /\ Arrived' /\ Noticed'
  BY <1>1, <1>2, ThreadsMove DEF Busy
<1>4. MainLeads'
  <2>1. doing'[MainThread] = "runs" /\ \A u \in Threads \ {t} : doing'[u] = doing[u]
    BY <1>1, <1>2, ReportersAssumption DEF RepInv, RepTyped
  <2>2. doing'[t] = "runs"
    BY <1>1 DEF RepInv, RepTyped
  <2>3. QED
    BY <1>2, <2>1, <2>2 DEF RepInv, MainLeads, Active
<1>5. QED
  BY <1>3, <1>4 DEF RepInv

\* A thread ends with all of its scopes closed; MainThread has joined the others by then.
LEMMA FinishStep ==
  ASSUME RepInv, NEW t \in Threads, Finish(t)
  PROVE  RepInv'
<1>1. /\ doing[t] = "runs" /\ scopes[t] = <<>> /\ doing' = [doing EXCEPT ![t] = "done"]
      /\ t = MainThread => Alone(MainThread)
      /\ UNCHANGED <<reporters, reporting, gtest_trace_stack_, scopes, opened, has_new_fatal_failure_,
                     test_part_results, due>>
  BY DEF Finish
<1>2. /\ RepTyped' /\ Stacks' /\ Apart' /\ GlobalInForce'
      /\ OnTheWay' /\ Numbered' /\ Reporting' /\ Arrived' /\ Noticed'
  BY <1>1, ThreadsMove DEF Busy
<1>3. MainLeads'
  <2>1. doing'[t] = "done" /\ \A u \in Threads \ {t} : doing'[u] = doing[u]
    BY <1>1 DEF RepInv, RepTyped
  <2>2. \A u \in Threads : doing'[u] \notin Active => scopes'[u] = <<>>
    BY <1>1, <2>1 DEF RepInv, MainLeads
  <2>3. \A u \in Threads : doing'[u] \in Active => doing'[MainThread] \in Active
    <3>1. CASE t = MainThread
      BY <1>1, <2>1, <3>1 DEF Alone, Active
    <3>2. CASE t # MainThread
      BY <2>1, <3>2, ReportersAssumption DEF RepInv, MainLeads, Active
    <3>3. QED
      BY <3>1, <3>2
  <2>4. QED
    BY <2>2, <2>3 DEF MainLeads
<1>4. QED
  BY <1>2, <1>3 DEF RepInv

LEMMA InitInv ==
  ASSUME RepInit
  PROVE  RepInv
<1>1. /\ doing = [t \in Threads |-> IF t = MainThread THEN "runs" ELSE "not started"]
      /\ global_test_part_result_reporter_ = DefaultGlobal
      /\ per_thread_test_part_result_reporter_ = [t \in Threads |-> DefaultThread]
      /\ gtest_trace_stack_ = [t \in Threads |-> <<>>]
      /\ scopes = [t \in Threads |-> <<>>] /\ opened = 0
      /\ has_new_fatal_failure_ = {} /\ test_part_results = [id \in 0 .. MaxScopes |-> <<>>]
      /\ part = [t \in Threads |-> NoPart] /\ reporter = [t \in Threads |-> DefaultThread]
      /\ due = {}
  BY DEF RepInit
<1>2. RepTyped
  <2>1. NoPart \in AnyPart
    BY DEF NoPart, AnyPart, PartKinds
  <2>2. opened \in 0 .. MaxScopes
    <3>1. opened = 0
      BY <1>1
    <3>2. QED
      BY <3>1, ReportersAssumption
  <2>3. test_part_results \in [0 .. MaxScopes -> Seq(Entry)]
    <3>1. <<>> \in Seq(Entry)
      OBVIOUS
    <3>2. test_part_results = [id \in 0 .. MaxScopes |-> <<>>]
      BY <1>1
    <3>3. QED
      BY <3>1, <3>2
  <2>4. QED
    BY <1>1, <2>1, <2>2, <2>3 DEF RepTyped, Active
<1>3. MainLeads
  BY <1>1, ReportersAssumption DEF MainLeads, Active
<1>4. Stacks
  <2>1. \A k : k \notin 1 .. Len(<<>>)
    OBVIOUS
  <2>2. Stack(<<>>, DefaultThread, <<>>, 0)
    BY <2>1 DEF Stack, InForce, Increasing
  <2>3. QED
    BY <1>1, <2>2 DEF Stacks
<1>5. Apart /\ GlobalInForce
  <2>1. \A k : k \notin 1 .. Len(<<>>)
    OBVIOUS
  <2>2. \A t \in Threads : scopes[t] = <<>>
    BY <1>1
  <2>3. Apart
    BY <2>1, <2>2 DEF Apart
  <2>4. scopes[MainThread] = <<>> /\ global_test_part_result_reporter_ = DefaultGlobal
    BY <1>1, <2>2, ReportersAssumption
  <2>5. GlobalInForce
    BY <2>1, <2>4 DEF GlobalInForce, InForce
  <2>6. QED
    BY <2>3, <2>5
<1>6. OnTheWay /\ Reporting
  BY <1>1 DEF OnTheWay, Reporting, Busy
<1>7. Numbered
  <2>1. \A id \in 0 .. MaxScopes : \A k : k \notin DOMAIN test_part_results[id]
    <3>1. test_part_results = [id \in 0 .. MaxScopes |-> <<>>]
      BY <1>1
    <3>2. \A k : k \notin DOMAIN <<>>
      OBVIOUS
    <3>3. QED
      BY <3>1, <3>2
  <2>2. QED
    BY <1>1, <2>1, FS_EmptySet DEF Numbered
<1>8. Arrived /\ Noticed
  BY <1>1 DEF Arrived, Noticed
<1>9. QED
  BY <1>2, <1>3, <1>4, <1>5, <1>6, <1>7, <1>8 DEF RepInv

LEMMA StutterStep ==
  ASSUME RepInv, UNCHANGED repVars
  PROVE  RepInv'
<1>1. UNCHANGED <<doing, reporters, part, reporter, gtest_trace_stack_, scopes, opened,
                  has_new_fatal_failure_, test_part_results, due>>
  BY DEF repVars, reporting
<1>2. Stacks' /\ Apart' /\ GlobalInForce'
  BY <1>1, ScopesKept DEF RepInv
<1>3. Numbered' /\ Arrived' /\ Noticed'
  BY <1>1, PartsKept DEF RepInv
<1>4. RepTyped' /\ MainLeads' /\ Reporting'
  BY <1>1 DEF RepInv, RepTyped, MainLeads, Reporting, reporters
<1>5. OnTheWay'
  <2>1. SUFFICES ASSUME NEW u \in Threads, doing'[u] = "in reporter" PROVE Way(u)'
    BY DEF OnTheWay
  <2>2. QED
    BY <1>1, <2>1, WayKept DEF reporters
<1>6. QED
  BY <1>2, <1>3, <1>4, <1>5 DEF RepInv

LEMMA ReportersInvariant == RepSpec => []RepInv
<1>1. RepInit => RepInv
  BY InitInv
<1>2. RepInv /\ [RepNext]_repVars => RepInv'
  <2>1. SUFFICES ASSUME RepInv, [RepNext]_repVars PROVE RepInv'
    OBVIOUS
  <2>2. CASE Start
    BY <2>1, <2>2, StartStep
  <2>3. CASE UNCHANGED repVars
    BY <2>1, <2>3, StutterStep
  <2>4. ASSUME NEW t \in Threads, Thread(t) PROVE RepInv'
    <3>1. CASE AddTestPartResult(t)
      BY <2>1, <3>1, AddStep
    <3>2. CASE Lock(t)
      BY <2>1, <3>2, LockStep
    <3>3. CASE HelperReports(t)
      BY <2>1, <3>3, HelperStep
    <3>4. CASE ThreadReports(t)
      BY <2>1, <3>4, ThreadStep
    <3>5. CASE KeeperReports(t)
      BY <2>1, <3>5, KeeperStep
    <3>6. CASE OpenScope(t)
      BY <2>1, <3>6, OpenStep
    <3>7. CASE CloseScope(t)
      BY <2>1, <3>7, CloseStep
    <3>8. CASE Finish(t)
      BY <2>1, <3>8, FinishStep
    <3>9. QED
      BY <2>4, <3>1, <3>2, <3>3, <3>4, <3>5, <3>6, <3>7, <3>8 DEF Thread
  <2>5. QED
    BY <2>1, <2>2, <2>3, <2>4 DEF RepNext, AllDone
<1>3. QED
  BY <1>1, <1>2, PTL DEF RepSpec

\* The reporter in force is that of an open scope, or the default one.
LEMMA ForceAlive ==
  ASSUME NEW s \in Seq(AnyScope), NEW n \in 0 .. Len(s), NEW kinds, NEW default, NEW r,
         InForce(s, n, kinds, default, r)
  PROVE  r = default \/ \E k \in DOMAIN s : r = Fake(s[k].id) \/ r = Helper(s[k].id)
<1>1. \A k \in 1 .. n : k \in DOMAIN s
  OBVIOUS
<1>2. QED
  BY <1>1 DEF InForce, ReporterOf

\* No reporter outlives its scope (gtest.cc:915-924, gtest-test-part.cc:93-113), for any
\* number of threads: not the global one, nor that of a thread, nor one that another scope
\* will put back, nor one that a thread is about to call.
THEOREM NoReporterOutlives == RepSpec => []ReportersAlive
<1>1. RepInv => ReportersAlive
  <2>1. SUFFICES ASSUME RepInv PROVE ReportersAlive
    OBVIOUS
  <2> DEFINE Lives(r) == \/ r \in {DefaultThread, DefaultGlobal}
                         \/ \E scope \in OpenScopes : r = Fake(scope.id) \/ r = Helper(scope.id)
  <2>2. \A t \in Threads : /\ scopes[t] \in Seq(AnyScope)
                           /\ \A k \in 1 .. Len(scopes[t]) : Saved(scopes[t], k) /\ scopes[t][k] \in AnyScope
                           /\ InForce(scopes[t], Len(scopes[t]), ThreadKinds, DefaultThread,
                                      per_thread_test_part_result_reporter_[t])
    BY <2>1 DEF RepInv, Stacks, Stack
  <2>3. ASSUME NEW t \in Threads, NEW n \in 0 .. Len(scopes[t]), NEW kinds,
               NEW default \in {DefaultThread, DefaultGlobal}, NEW r,
               InForce(scopes[t], n, kinds, default, r)
        PROVE  Lives(r)
    <3>1. \A k \in DOMAIN scopes[t] : scopes[t][k] \in OpenScopes
      BY DEF OpenScopes, OpenIn
    <3>2. r = default \/ \E k \in DOMAIN scopes[t] : r = Fake(scopes[t][k].id) \/ r = Helper(scopes[t][k].id)
      BY <2>2, <2>3, ForceAlive
    <3>3. QED
      BY <3>1, <3>2
  <2>4. \A t \in Threads : Len(scopes[t]) \in 0 .. Len(scopes[t])
    BY <2>2
  <2> HIDE DEF Lives
  <2>5. \A t \in Threads : Lives(per_thread_test_part_result_reporter_[t])
    BY <2>2, <2>3, <2>4
  <2>6. Lives(global_test_part_result_reporter_)
    BY <2>1, <2>3, <2>4, ReportersAssumption DEF RepInv, GlobalInForce
  <2>7. \A scope \in OpenScopes : Lives(scope.original)
    <3>1. SUFFICES ASSUME NEW t \in Threads, NEW k \in 1 .. Len(scopes[t])
                   PROVE  Lives(scopes[t][k].original)
      BY <2>2 DEF OpenScopes, OpenIn
    <3>2. k - 1 \in 0 .. Len(scopes[t])
      BY <2>2
    <3>3. scopes[t][k].kind \in {"current", "no_fatal", "all", "trace"} /\ Saved(scopes[t], k)
      BY <2>2 DEF AnyScope
    <3>4. CASE scopes[t][k].kind \in ThreadKinds
      BY <2>3, <3>2, <3>3, <3>4 DEF Saved
    <3>5. CASE scopes[t][k].kind = "all"
      BY <2>3, <3>2, <3>3, <3>5 DEF Saved
    <3>6. CASE scopes[t][k].kind = "trace"
      BY <3>3, <3>6 DEF Saved, Lives
    <3>7. QED
      BY <3>3, <3>4, <3>5, <3>6 DEF ThreadKinds
  <2>8. \A t \in Threads : doing[t] = "in reporter" => Lives(reporter[t])
    <3>1. SUFFICES ASSUME NEW t \in Threads, doing[t] = "in reporter" PROVE Lives(reporter[t])
      OBVIOUS
    <3>2. CASE \E n \in 0 .. Len(scopes[t]) : AtOwn(t, n)
      BY <2>3, <3>2 DEF AtOwn
    <3>3. CASE reporter[t] = global_test_part_result_reporter_
      BY <2>6, <3>3
    <3>4. QED
      BY <2>1, <3>1, <3>2, <3>3 DEF RepInv, OnTheWay, Way
  <2>9. QED
    <3> DEFINE alive == {DefaultThread, DefaultGlobal} \cup {Fake(scope.id) : scope \in OpenScopes}
                          \cup {Helper(scope.id) : scope \in OpenScopes}
    <3>1. \A r : Lives(r) => r \in alive
      BY DEF Lives
    <3> HIDE DEF alive
    <3>2. /\ global_test_part_result_reporter_ \in alive
          /\ {per_thread_test_part_result_reporter_[t] : t \in Threads} \subseteq alive
          /\ {scope.original : scope \in OpenScopes} \subseteq alive
          /\ {reporter[t] : t \in {u \in Threads : doing[u] = "in reporter"}} \subseteq alive
      BY <2>5, <2>6, <2>7, <2>8, <3>1
    <3>3. QED
      BY <3>2 DEF ReportersAlive, alive
<1>2. QED
  BY <1>1, ReportersInvariant, PTL

\* A part goes to exactly one place, the one that is due to it, once, with the traces of its
\* own thread (gtest.cc:5287-5318, 926-931), and NO_FATAL_FAILURE sees the fatal failures
\* of its own thread and nothing else (gtest-test-part.cc:107-113), however the threads
\* interleave and however many they are.
THEOREM PartsDeliveredOnce == RepSpec => []DeliveredOnce
<1>1. RepInv => DeliveredOnce
  <2>1. SUFFICES ASSUME RepInv PROVE DeliveredOnce
    OBVIOUS
  <2>2. Arrived
    BY <2>1 DEF RepInv
  <2>3. \A id \in 1 .. opened :
          LET fatal == {d \in due : d.part.kind = "fatal" /\ id \in d.watching}
          IN  /\ id \in has_new_fatal_failure_ => fatal # {}
              /\ (\E d \in fatal : Delivered(d)) => id \in has_new_fatal_failure_
    BY <2>1 DEF RepInv, Noticed
  <2>4. QED
    BY <2>2, <2>3 DEF DeliveredOnce, Arrived
<1>2. QED
  BY <1>1, ReportersInvariant, PTL

(***************************************************************************)
(* The list of listeners.                                                   *)
(***************************************************************************)
EventKinds == {"start", "end"}

(***************************************************************************)
(* Lists without doubles.                                                   *)
(***************************************************************************)
Single(v) == \A j, k \in DOMAIN v : v[j] = v[k] => j = k

LEMMA ListElements ==
  ASSUME NEW S, NEW v \in Seq(S)
  PROVE  /\ Len(v) \in Nat /\ DOMAIN v = 1 .. Len(v) /\ ToSet(v) \subseteq S
         /\ \A k \in DOMAIN v : v[k] \in S /\ v[k] \in ToSet(v)
         /\ \A e \in ToSet(v) : \E k \in DOMAIN v : v[k] = e
<1>1. Len(v) \in Nat /\ DOMAIN v = 1 .. Len(v) /\ \A k \in 1 .. Len(v) : v[k] \in S
  BY LenProperties, ElementOfSeq
<1>2. QED
  BY <1>1 DEF ToSet

LEMMA AppendFacts ==
  ASSUME NEW S, NEW v \in Seq(S), NEW e \in S
  PROVE  /\ Append(v, e) \in Seq(S) /\ Len(Append(v, e)) = Len(v) + 1
         /\ DOMAIN Append(v, e) = 1 .. Len(v) + 1 /\ ToSet(Append(v, e)) = ToSet(v) \cup {e}
         /\ Append(v, e)[Len(v) + 1] = e /\ \A k \in 1 .. Len(v) : Append(v, e)[k] = v[k]
         /\ Single(v) /\ e \notin ToSet(v) => Single(Append(v, e))
<1> DEFINE w == Append(v, e)
<1>1. /\ w \in Seq(S) /\ Len(w) = Len(v) + 1 /\ w[Len(v) + 1] = e
      /\ \A k \in 1 .. Len(v) : w[k] = v[k]
  BY AppendProperties
<1>2. Len(v) \in Nat /\ DOMAIN v = 1 .. Len(v) /\ DOMAIN w = 1 .. Len(v) + 1
  BY <1>1, LenProperties
<1> HIDE DEF w
<1>3. ToSet(w) = ToSet(v) \cup {e}
  <2>1. ASSUME NEW x \in ToSet(w) PROVE x \in ToSet(v) \cup {e}
    <3>1. PICK k \in 1 .. Len(v) + 1 : w[k] = x
      BY <1>2, <2>1 DEF ToSet
    <3>2. CASE k = Len(v) + 1
      BY <1>1, <3>1, <3>2
    <3>3. CASE k # Len(v) + 1
      <4>1. k \in 1 .. Len(v)
        BY <1>2, <3>3
      <4>2. QED
        BY <1>1, <1>2, <3>1, <4>1 DEF ToSet
    <3>4. QED
      BY <3>2, <3>3
  <2>2. ASSUME NEW x \in ToSet(v) PROVE x \in ToSet(w)
    <3>1. PICK k \in 1 .. Len(v) : v[k] = x
      BY <1>2, <2>2 DEF ToSet
    <3>2. w[k] = x /\ k \in DOMAIN w
      BY <1>1, <1>2, <3>1
    <3>3. QED
      BY <3>2 DEF ToSet
  <2>3. e \in ToSet(w)
    <3>1. Len(v) + 1 \in DOMAIN w
      BY <1>2
    <3>2. QED
      BY <1>1, <3>1 DEF ToSet
  <2>4. QED
    BY <2>1, <2>2, <2>3
<1>4. ASSUME Single(v), e \notin ToSet(v) PROVE Single(w)
  <2>1. \A k \in 1 .. Len(v) : v[k] # e
    BY <1>2, <1>4 DEF ToSet
  <2>2. SUFFICES ASSUME NEW j \in 1 .. Len(v) + 1, NEW k \in 1 .. Len(v) + 1, w[j] = w[k]
                 PROVE  j = k
    BY <1>2 DEF Single
  <2>3. CASE j = Len(v) + 1 \/ k = Len(v) + 1
    BY <1>1, <1>2, <2>1, <2>2, <2>3
  <2>4. CASE j \in 1 .. Len(v) /\ k \in 1 .. Len(v)
    BY <1>1, <1>2, <1>4, <2>2, <2>4 DEF Single
  <2>5. QED
    BY <1>2, <2>3, <2>4
<1>5. QED
  BY <1>1, <1>2, <1>3, <1>4 DEF w

\* Release takes the listener out and leaves the others in their order.
LEMMA ReleasedFacts ==
  ASSUME NEW S, NEW v \in Seq(S), Single(v), NEW i \in 1 .. Len(v)
  PROVE  /\ Released(v, v[i]) \in Seq(S) /\ Len(Released(v, v[i])) = Len(v) - 1
         /\ DOMAIN Released(v, v[i]) = 1 .. Len(v) - 1
         /\ \A k \in 1 .. i - 1 : Released(v, v[i])[k] = v[k]
         /\ \A k \in i .. Len(v) - 1 : Released(v, v[i])[k] = v[k + 1]
<1> DEFINE l == v[i]
           First(n) == v[n] = l /\ \A j \in 1 .. n - 1 : v[j] # l
           a == SubSeq(v, 1, i - 1)
           b == SubSeq(v, i + 1, Len(v))
           w == a \o b
<1>1. Len(v) \in Nat /\ DOMAIN v = 1 .. Len(v) /\ (\A k \in 1 .. Len(v) : v[k] \in S) /\ l \in ToSet(v)
  BY ListElements
<1>2. (CHOOSE n \in DOMAIN v : First(n)) = i
  <2>1. \A n \in DOMAIN v : v[n] = l => n = i
    BY <1>1 DEF Single
  <2>2. First(i) /\ i \in DOMAIN v
    BY <1>1, <2>1
  <2>3. \A n \in DOMAIN v : First(n) => n = i
    BY <2>1
  <2> HIDE DEF First
  <2>4. QED
    BY <2>2, <2>3
<1>3. Released(v, l) = w
  BY <1>1, <1>2 DEF Released, RemoveAt
<1>4. a \in Seq(S) /\ Len(a) = i - 1 /\ \A k \in 1 .. i - 1 : a[k] = v[k]
  <2>1. \A k \in 1 .. i - 1 : v[k] \in S
    BY <1>1
  <2>2. a \in Seq(S) /\ Len(a) = (IF 1 <= i - 1 THEN i - 1 - 1 + 1 ELSE 0)
        /\ \A k \in 1 .. i - 1 - 1 + 1 : a[k] = v[1 + k - 1]
    BY <2>1, SubSeqProperties, 1 \in Int, i - 1 \in Int
  <2>3. QED
    BY <1>1, <2>2
<1>5. b \in Seq(S) /\ Len(b) = Len(v) - i /\ \A k \in 1 .. Len(v) - i : b[k] = v[i + k]
  <2>1. \A k \in i + 1 .. Len(v) : v[k] \in S
    BY <1>1
  <2>2. b \in Seq(S) /\ Len(b) = (IF i + 1 <= Len(v) THEN Len(v) - (i + 1) + 1 ELSE 0)
        /\ \A k \in 1 .. Len(v) - (i + 1) + 1 : b[k] = v[i + 1 + k - 1]
    BY <1>1, <2>1, SubSeqProperties, i + 1 \in Int
  <2>3. i \in Int /\ 1 <= i /\ i <= Len(v)
    BY <1>1
  <2> HIDE DEF a, b, w, l
  <2>4. Len(b) = Len(v) - i
    <3>1. Len(v) \in Nat /\ Len(b) = IF i + 1 <= Len(v) THEN Len(v) - (i + 1) + 1 ELSE 0
      BY <1>1, <2>2
    <3>2. CASE i + 1 <= Len(v)
      BY <2>3, <3>1, <3>2
    <3>3. CASE i = Len(v)
      BY <2>3, <3>1, <3>3
    <3>4. QED
      BY <2>3, <3>1, <3>2, <3>3
  <2>5. ASSUME NEW k \in 1 .. Len(v) - i PROVE b[k] = v[i + k]
    <3>1. k \in 1 .. Len(v) - (i + 1) + 1 /\ i + 1 + k - 1 = i + k
      BY <1>1, <2>3
    <3>2. QED
      BY <2>2, <3>1
  <2>6. QED
    BY <2>2, <2>4, <2>5
<1> HIDE DEF a, b, l
<1>6. w \in Seq(S) /\ Len(w) = i - 1 + (Len(v) - i)
      /\ \A k \in 1 .. i - 1 + (Len(v) - i) : w[k] = IF k <= i - 1 THEN a[k] ELSE b[k - (i - 1)]
  <2>1. a \in Seq(S) /\ b \in Seq(S)
    BY <1>4, <1>5
  <2>2. w \in Seq(S) /\ Len(w) = Len(a) + Len(b)
        /\ \A k \in 1 .. Len(a) + Len(b) : w[k] = IF k <= Len(a) THEN a[k] ELSE b[k - Len(a)]
    BY <2>1, ConcatProperties
  <2>3. Len(a) = i - 1 /\ Len(b) = Len(v) - i
    BY <1>4, <1>5
  <2> HIDE DEF w
  <2>4. QED
    BY <2>2, <2>3
<1> HIDE DEF w
<1>7. Len(w) = Len(v) - 1 /\ DOMAIN w = 1 .. Len(v) - 1
  BY <1>1, <1>6, LenProperties
<1>8. \A k \in 1 .. i - 1 : w[k] = v[k]
  BY <1>1, <1>4, <1>6
<1>9. ASSUME NEW k \in i .. Len(v) - 1 PROVE w[k] = v[k + 1]
  <2>1. w[k] = b[k - (i - 1)]
    BY <1>1, <1>6
  <2>2. PICK n \in 1 .. Len(v) - i : n = k - (i - 1)
    BY <1>1
  <2>3. b[n] = v[i + n] /\ i + n = k + 1
    BY <1>1, <1>5, <2>2
  <2>4. QED
    BY <2>1, <2>2, <2>3
<1>10. QED
  BY <1>3, <1>6, <1>7, <1>8, <1>9 DEF l

LEMMA ReleasedElements ==
  ASSUME NEW S, NEW v \in Seq(S), Single(v), NEW l
  PROVE  Released(v, l) \in Seq(S) /\ Single(Released(v, l)) /\ ToSet(Released(v, l)) = ToSet(v) \ {l}
<1> DEFINE w == Released(v, l)
<1>1. Len(v) \in Nat /\ DOMAIN v = 1 .. Len(v)
  BY ListElements
<1>2. CASE l \notin ToSet(v)
  BY <1>2 DEF Released
<1>3. CASE l \in ToSet(v)
  <2>1. PICK i \in 1 .. Len(v) : v[i] = l
    BY <1>1, <1>3 DEF ToSet
  <2>2. /\ w \in Seq(S) /\ DOMAIN w = 1 .. Len(v) - 1
        /\ \A k \in 1 .. i - 1 : w[k] = v[k]
        /\ \A k \in i .. Len(v) - 1 : w[k] = v[k + 1]
    BY <2>1, ReleasedFacts
  <2> HIDE DEF w
  <2>3. \A k \in DOMAIN w : w[k] = v[IF k < i THEN k ELSE k + 1]
    BY <1>1, <2>2
  <2>4. \A k \in DOMAIN w : (IF k < i THEN k ELSE k + 1) \in DOMAIN v \ {i}
    BY <1>1, <2>2
  <2>5. Single(w)
    <3>1. SUFFICES ASSUME NEW j \in DOMAIN w, NEW k \in DOMAIN w, w[j] = w[k] PROVE j = k
      BY DEF Single
    <3>2. (IF j < i THEN j ELSE j + 1) = (IF k < i THEN k ELSE k + 1)
      BY <2>3, <2>4, <3>1 DEF Single
    <3>3. QED
      BY <2>2, <3>2
  <2>6. ASSUME NEW x \in ToSet(w) PROVE x \in ToSet(v) \ {l}
    <3>1. PICK k \in DOMAIN w : w[k] = x
      BY <2>6 DEF ToSet
    <3>2. PICK n \in DOMAIN v \ {i} : v[n] = x
      BY <2>3, <2>4, <3>1
    <3>3. v[n] # v[i] /\ v[n] \in ToSet(v)
      BY <1>1, <2>1, <3>2 DEF Single, ToSet
    <3>4. QED
      BY <2>1, <3>2, <3>3
  <2>7. ASSUME NEW x \in ToSet(v) \ {l} PROVE x \in ToSet(w)
    <3>1. PICK n \in DOMAIN v : v[n] = x /\ n # i
      BY <2>1, <2>7, ListElements
    <3>2. CASE n < i
      <4>1. n \in DOMAIN w /\ w[n] = x
        BY <1>1, <2>2, <3>1, <3>2
      <4>2. QED
        BY <4>1 DEF ToSet
    <3>3. CASE n > i
      <4>1. PICK k \in i .. Len(v) - 1 : n = k + 1
        <5>1. n - 1 \in i .. Len(v) - 1 /\ n = n - 1 + 1
          BY <1>1, <3>1, <3>3
        <5>2. QED
          BY <5>1
      <4>2. k \in DOMAIN w /\ w[k] = x
        BY <1>1, <2>2, <3>1, <4>1
      <4>3. QED
        BY <4>2 DEF ToSet
    <3>4. QED
      BY <1>1, <3>1, <3>2, <3>3
  <2>8. QED
    BY <2>2, <2>5, <2>6, <2>7 DEF w
<1>4. QED
  BY <1>2, <1>3

LEMMA UsersFacts == /\ NoListener \notin Everyone /\ Users \subseteq Everyone
                    /\ \A u \in Users : u \notin {NoListener, Printer, Brief, Xml, Streaming}
  BY UsersAssumption DEF Everyone, NoListener, Printer, Brief, Xml, Streaming

LEMMA AppendedFacts ==
  ASSUME NEW v \in Seq(Everyone), Single(v), NEW l \in (Everyone \cup {NoListener}) \ ToSet(v)
  PROVE  /\ Appended(v, l) \in Seq(Everyone) /\ Single(Appended(v, l))
         /\ ToSet(Appended(v, l)) = (ToSet(v) \cup {l}) \ {NoListener}
<1>1. NoListener \notin ToSet(v) /\ ToSet(v) \subseteq Everyone
  BY UsersFacts, ListElements
<1>2. QED
  BY <1>1, AppendFacts, UsersFacts DEF Appended

LEMMA ReplacedFacts ==
  ASSUME NEW v \in Seq(Everyone), Single(v), NEW old, NEW new \in Everyone \cup {NoListener},
         new \notin ToSet(v) \/ new = old
  PROVE  /\ Replaced(v, old, new) \in Seq(Everyone) /\ Single(Replaced(v, old, new))
         /\ ToSet(Replaced(v, old, new)) \subseteq ToSet(v) \cup {new}
         /\ new # old => old \notin ToSet(Replaced(v, old, new))
<1>1. CASE new = old
  BY <1>1 DEF Replaced
<1>2. CASE new # old
  <2>1. PICK w : w = Released(v, old)
    OBVIOUS
  <2>2. w \in Seq(Everyone) /\ Single(w) /\ ToSet(w) = ToSet(v) \ {old}
    BY <2>1, ReleasedElements
  <2>3. /\ Appended(w, new) \in Seq(Everyone) /\ Single(Appended(w, new))
        /\ ToSet(Appended(w, new)) = (ToSet(w) \cup {new}) \ {NoListener}
    BY <1>2, <2>2, AppendedFacts
  <2>4. QED
    BY <1>2, <2>1, <2>2, <2>3 DEF Replaced
<1>3. QED
  BY <1>1, <1>2

(***************************************************************************)
(* The inductive invariant.                                                 *)
(***************************************************************************)
LisTyped ==
  /\ listeners_ \in Seq(Everyone) /\ told \in Seq(Everyone) /\ log \in Seq(EventKinds)
  /\ event \in {"none"} \cup EventKinds /\ index \in Nat
  /\ default_result_printer_ \in Everyone \cup {NoListener}
  /\ deleted \subseteq {Printer}
  /\ forwarding_enabled_ \in BOOLEAN /\ post_flag_parse_init_performed_ \in BOOLEAN
  /\ heard \in [Everyone -> Seq(EventKinds)] /\ joined \in [Everyone -> Nat]

\* Before the flags are parsed nothing has happened, and only the program and
\* the constructor have put listeners into the list.
Beginning ==
  ~post_flag_parse_init_performed_ =>
    /\ event = "none" /\ log = <<>> /\ deleted = {} /\ default_xml_generator_ = NoListener
    /\ default_result_printer_ \in {Printer, NoListener}
    /\ ToSet(listeners_) \subseteq Users \cup {Printer}
    /\ \A l \in Everyone : heard[l] = <<>> /\ joined[l] = 1

NoDoubles == Single(listeners_)
NoDeleted == \A k \in DOMAIN listeners_ : listeners_[k] \notin deleted

\* The loop over the list has passed this place.
HasPassed(k) == IF event = "start" THEN k < index ELSE index < k
Since(l, n) == SubSeq(log, joined[l], n)

HeardAll ==
  /\ \A k \in DOMAIN listeners_ : joined[listeners_[k]] \in 1 .. Len(log) + 1
  /\ event = "none" /\ forwarding_enabled_ =>
       \A k \in DOMAIN listeners_ : heard[listeners_[k]] = Since(listeners_[k], Len(log))
  /\ event # "none" =>
       /\ Len(log) > 0 /\ log[Len(log)] = event
       /\ event = "start" => index > 0
       /\ event = "end" => index <= Len(listeners_)
       /\ \A k \in DOMAIN listeners_ : HasPassed(k) \/ joined[listeners_[k]] <= Len(log)
       /\ forwarding_enabled_ =>
            \A k \in DOMAIN listeners_ :
              heard[listeners_[k]] =
                Since(listeners_[k], IF HasPassed(k) THEN Len(log) ELSE Len(log) - 1)

InTurn ==
  event # "none" =>
    /\ \A i \in DOMAIN told, a \in DOMAIN listeners_ : listeners_[a] = told[i] => HasPassed(a)
    /\ event = "start" => ToSet(told) \subseteq ToSet(listeners_)
    /\ \A i, j \in DOMAIN told, a, b \in DOMAIN listeners_ :
         /\ i < j /\ listeners_[a] = told[i] /\ listeners_[b] = told[j]
         /\ joined[told[i]] <= Len(log) /\ joined[told[j]] <= Len(log)
         => IF event = "start" THEN a < b ELSE b < a

LisInv == LisTyped /\ Beginning /\ NoDoubles /\ NoDeleted /\ HeardAll /\ InTurn

(***************************************************************************)
(* What a listener has heard, as the log grows.                             *)
(***************************************************************************)
LEMMA LogGrows ==
  ASSUME NEW S, NEW s \in Seq(S), NEW e \in S, NEW j \in 1 .. Len(s) + 1
  PROVE  SubSeq(Append(s, e), j, Len(s)) = SubSeq(s, j, Len(s))
<1>1. Append(s, e) = s \o <<e>> /\ <<e>> \in Seq(S) /\ Len(s) \in Nat
  BY AppendIsConcat, LenProperties
<1>2. CASE j \in 1 .. Len(s)
  <2>1. Len(s) \in 1 .. Len(s)
    BY <1>1, <1>2
  <2>2. QED
    BY <1>1, <1>2, <2>1, SubSeqOfConcat1
<1>3. CASE j = Len(s) + 1
  BY <1>1, <1>3, SubSeqEmpty
<1>4. QED
  BY <1>1, <1>2, <1>3

LEMMA LastHeard ==
  ASSUME NEW S, NEW s \in Seq(S), NEW j \in 1 .. Len(s)
  PROVE  SubSeq(s, j, Len(s)) = Append(SubSeq(s, j, Len(s) - 1), s[Len(s)])
<1>1. Len(s) \in Nat /\ Len(s) \in j .. Len(s) /\ \A i \in 1 .. Len(s) : s[i] \in S
  BY LenProperties, ElementOfSeq
<1>2. SubSeq(s, j, Len(s)) = SubSeq(s, j, Len(s) - 1) \o <<s[Len(s)]>>
  BY <1>1, SubSeqRecursiveSecond
<1>3. SubSeq(s, j, Len(s) - 1) \in Seq(S) /\ s[Len(s)] \in S
  BY <1>1, SubSeqProperties
<1>4. QED
  BY <1>2, <1>3, AppendIsConcat

(***************************************************************************)
(* The steps.                                                               *)
(***************************************************************************)
LEMMA ListenersBegin ==
  ASSUME LisInit
  PROVE  LisInv
<1>1. listeners_ \in Seq(Everyone) /\ Len(listeners_) = 1 /\ listeners_[1] = Printer
      /\ DOMAIN listeners_ = 1 .. 1 /\ ToSet(listeners_) = {Printer}
  BY DEF LisInit, Everyone, ToSet
<1>2. /\ told = <<>> /\ log = <<>> /\ log \in Seq(EventKinds) /\ told \in Seq(Everyone)
      /\ event = "none" /\ Len(log) = 0
  BY DEF LisInit
<1>3. LisTyped
  BY <1>1, <1>2 DEF LisInit, LisTyped, Everyone
<1>4. Beginning
  BY <1>1, <1>2 DEF LisInit, Beginning
<1>5. NoDoubles /\ NoDeleted
  BY <1>1 DEF LisInit, NoDoubles, Single, NoDeleted
<1>6. HeardAll
  <2>1. SubSeq(log, 1, 0) = <<>>
    BY SubSeqEmpty
  <2>2. Printer \in Everyone
    BY DEF Everyone
  <2>3. heard[Printer] = <<>> /\ joined[Printer] = 1
    BY <2>2 DEF LisInit
  <2>4. \A k \in DOMAIN listeners_ : listeners_[k] = Printer
    BY <1>1
  <2>5. Since(Printer, Len(log)) = <<>>
    BY <1>2, <2>1, <2>3 DEF Since
  <2>6. QED
    BY <1>2, <2>3, <2>4, <2>5 DEF HeardAll
<1>7. QED
  BY <1>2, <1>3, <1>4, <1>5, <1>6 DEF LisInv, InTurn

\* The list between two events, when everyone in it has heard all that is new to him.
LEMMA QuietListKeeps ==
  ASSUME LisTyped', event' = "none", NoDoubles', NoDeleted', Beginning',
         \A k \in DOMAIN listeners_' : joined[listeners_[k]]' \in 1 .. Len(log') + 1,
         forwarding_enabled_' =>
           \A k \in DOMAIN listeners_' : heard[listeners_[k]]' = Since(listeners_[k], Len(log))'
  PROVE  LisInv'
  BY DEF LisInv, HeardAll, InTurn

LEMMA PostFlagParsingInitKeeps ==
  ASSUME LisInv, PostFlagParsingInit
  PROVE  LisInv'
<1>1. PICK xml \in {NoListener, Xml}, brief \in BOOLEAN, streaming \in {NoListener, Streaming} :
        LET printer == IF brief THEN Brief ELSE default_result_printer_
        IN  /\ listeners_' = ConfigureStreamingOutput(
                                 Replaced(Replaced(listeners_, default_xml_generator_, xml),
                                          default_result_printer_, printer), streaming)
            /\ default_xml_generator_' = xml /\ default_result_printer_' = printer
            /\ deleted' = deleted \cup ({default_result_printer_} \ {printer, NoListener})
            /\ joined' = [l \in Everyone |-> IF l \in {xml, Brief, streaming} THEN Len(log) + 1 ELSE joined[l]]
  BY DEF PostFlagParsingInit
<1> DEFINE printer == IF brief THEN Brief ELSE default_result_printer_
           first == Replaced(listeners_, default_xml_generator_, xml)
           second == Replaced(first, default_result_printer_, printer)
<1>2. /\ event = "none" /\ log = <<>> /\ deleted = {} /\ default_xml_generator_ = NoListener
      /\ default_result_printer_ \in {Printer, NoListener}
      /\ ToSet(listeners_) \subseteq Users \cup {Printer} /\ listeners_ \in Seq(Everyone)
      /\ Single(listeners_) /\ (\A l \in Everyone : heard[l] = <<>> /\ joined[l] = 1)
      /\ LisTyped /\ Len(log) = 0
  BY DEF PostFlagParsingInit, LisInv, LisTyped, Beginning, NoDoubles
<1>3. /\ event' = event /\ index' = index /\ told' = told /\ log' = log /\ heard' = heard
      /\ post_flag_parse_init_performed_' = TRUE /\ forwarding_enabled_' \in BOOLEAN
  BY DEF PostFlagParsingInit, dispatch
<1>4. /\ xml \notin ToSet(listeners_) /\ xml \in Everyone \cup {NoListener}
      /\ printer \in Everyone \cup {NoListener} /\ streaming \in Everyone \cup {NoListener}
      /\ xml # Brief /\ xml # Printer /\ streaming \notin Users /\ xml \notin Users /\ Brief \notin Users
      /\ streaming \notin {Printer, Brief, Xml} /\ Brief # Printer
  BY <1>2, UsersFacts DEF Everyone, NoListener, Printer, Brief, Xml, Streaming
<1> HIDE DEF printer, first, second
<1>5. first \in Seq(Everyone) /\ Single(first) /\ ToSet(first) \subseteq ToSet(listeners_) \cup {xml}
  BY <1>2, <1>4, ReplacedFacts DEF first
<1>6. NoListener \notin ToSet(first)
  BY <1>5, UsersFacts, ListElements
<1>7. printer \notin ToSet(first) \/ printer = default_result_printer_
  <2>1. CASE brief
    BY <1>2, <1>4, <1>5, <2>1, UsersFacts DEF printer, Brief, Printer
  <2>2. CASE ~brief
    BY <2>2 DEF printer
  <2>3. QED
    BY <2>1, <2>2
<1>8. /\ second \in Seq(Everyone) /\ Single(second) /\ ToSet(second) \subseteq ToSet(first) \cup {printer}
      /\ printer # default_result_printer_ => default_result_printer_ \notin ToSet(second)
  BY <1>4, <1>5, <1>7, ReplacedFacts DEF second
<1>9. streaming \notin ToSet(second)
  <2>1. NoListener \notin ToSet(second)
    BY <1>8, UsersFacts, ListElements
  <2>2. printer # Streaming /\ xml # Streaming /\ Streaming \notin Users /\ Streaming # Printer
    BY <1>2, UsersFacts DEF printer, Streaming, Brief, Printer, Xml, NoListener
  <2>3. Streaming \notin ToSet(second)
    BY <1>2, <1>5, <1>8, <2>2
  <2>4. QED
    BY <2>1, <2>3
<1>10. /\ listeners_' \in Seq(Everyone) /\ Single(listeners_')
       /\ ToSet(listeners_') = (ToSet(second) \cup {streaming}) \ {NoListener}
  <2>1. listeners_' = Appended(second, streaming)
    BY <1>1 DEF ConfigureStreamingOutput, second, first, printer
  <2>2. QED
    BY <1>4, <1>8, <1>9, <2>1, AppendedFacts
<1>11. deleted' = {default_result_printer_} \ {printer, NoListener} /\ default_xml_generator_' = xml
       /\ default_result_printer_' = printer
       /\ joined' = [l \in Everyone |-> IF l \in {xml, Brief, streaming} THEN Len(log) + 1 ELSE joined[l]]
  BY <1>1, <1>2 DEF printer
<1>12. \A l \in Everyone : joined'[l] = 1 /\ heard'[l] = <<>>
  BY <1>2, <1>3, <1>11
<1>13. LisTyped'
  <2>1. joined' \in [Everyone -> Nat]
    <3>1. joined' = [l \in Everyone |-> joined'[l]]
      BY <1>11
    <3>2. \A l \in Everyone : joined'[l] \in Nat
      BY <1>12
    <3>3. QED
      BY <3>1, <3>2
  <2>2. deleted' \subseteq {Printer}
    BY <1>2, <1>11
  <2>3. QED
    BY <1>2, <1>3, <1>4, <1>10, <1>11, <2>1, <2>2 DEF LisTyped
<1>14. NoDeleted'
  <2>1. \A l \in deleted' : l \notin ToSet(listeners_')
    <3>1. SUFFICES ASSUME NEW l \in deleted' PROVE l \notin ToSet(listeners_')
      OBVIOUS
    <3>2. l = default_result_printer_ /\ printer # default_result_printer_ /\ l = Printer
      BY <1>2, <1>11, <3>1
    <3>3. l # streaming
      BY <1>4, <3>2
    <3>4. QED
      BY <1>8, <1>10, <3>2, <3>3
  <2>2. \A k \in DOMAIN listeners_' : listeners_'[k] \in ToSet(listeners_')
    BY <1>10, ListElements
  <2>3. QED
    BY <2>1, <2>2 DEF NoDeleted
<1>15. NoDoubles' /\ Beginning'
  BY <1>3, <1>10 DEF NoDoubles, Single, Beginning
<1>16. \A k \in DOMAIN listeners_' : listeners_'[k] \in Everyone
  BY <1>10, ListElements
<1>17. \A k \in DOMAIN listeners_' : joined[listeners_[k]]' \in 1 .. Len(log') + 1
  BY <1>2, <1>3, <1>12, <1>16
<1>18. \A k \in DOMAIN listeners_' : heard[listeners_[k]]' = Since(listeners_[k], Len(log))'
  <2>1. SubSeq(log', 1, Len(log')) = <<>>
    BY <1>2, <1>3, SubSeqEmpty
  <2>2. QED
    BY <1>12, <1>16, <2>1 DEF Since
<1>19. QED
  BY <1>2, <1>3, <1>13, <1>14, <1>15, <1>17, <1>18, QuietListKeeps

LEMMA JoinKeeps ==
  ASSUME LisInv, NEW l \in Users \ ToSet(listeners_), event = "none", Join(l),
         UNCHANGED defaults, UNCHANGED modes, UNCHANGED dispatch
  PROVE  LisInv'
<1>1. /\ LisTyped /\ Beginning /\ Single(listeners_) /\ NoDeleted /\ HeardAll /\ l \in Everyone
      /\ l \notin deleted
  BY UsersFacts DEF LisInv, NoDoubles, LisTyped
<1>2. /\ event' = event /\ index' = index /\ told' = told /\ log' = log
      /\ post_flag_parse_init_performed_' = post_flag_parse_init_performed_
      /\ forwarding_enabled_' = forwarding_enabled_ /\ deleted' = deleted
      /\ default_result_printer_' = default_result_printer_
      /\ default_xml_generator_' = default_xml_generator_
  BY DEF defaults, modes, dispatch
<1>3. /\ listeners_ \in Seq(Everyone) /\ Len(listeners_) \in Nat /\ DOMAIN listeners_ = 1 .. Len(listeners_)
      /\ \A k \in DOMAIN listeners_ : listeners_[k] \in Everyone /\ listeners_[k] # l
      /\ log \in Seq(EventKinds) /\ Len(log) \in Nat
  BY <1>1, ListElements DEF LisTyped
<1>4. /\ listeners_' \in Seq(Everyone) /\ DOMAIN listeners_' = 1 .. Len(listeners_) + 1
      /\ ToSet(listeners_') = ToSet(listeners_) \cup {l} /\ listeners_'[Len(listeners_) + 1] = l
      /\ Single(listeners_') /\ \A k \in 1 .. Len(listeners_) : listeners_'[k] = listeners_[k]
  BY <1>1, <1>3, AppendFacts DEF Join
<1>5. /\ joined' = [joined EXCEPT ![l] = Len(log) + 1] /\ heard' = [heard EXCEPT ![l] = <<>>]
      /\ joined \in [Everyone -> Nat] /\ heard \in [Everyone -> Seq(EventKinds)]
  BY <1>1 DEF Join, FirstFromNow, LisTyped
<1>6. LisTyped'
  <2>1. joined' \in [Everyone -> Nat] /\ heard' \in [Everyone -> Seq(EventKinds)]
    <3>1. Len(log) + 1 \in Nat /\ <<>> \in Seq(EventKinds)
      BY <1>3, EmptySeq
    <3>2. QED
      BY <1>5, <3>1
  <2>2. QED
    BY <1>1, <1>2, <1>4, <2>1 DEF LisTyped
<1>7. Beginning'
  BY <1>1, <1>2, <1>4, <1>5 DEF Beginning
<1>8. \A k \in DOMAIN listeners_' : \/ k \in DOMAIN listeners_ /\ listeners_'[k] = listeners_[k]
                                    \/ listeners_'[k] = l
  BY <1>3, <1>4
<1>9. NoDoubles' /\ NoDeleted'
  BY <1>1, <1>2, <1>4, <1>8 DEF NoDoubles, NoDeleted
<1>10. ASSUME NEW k \in DOMAIN listeners_'
       PROVE  /\ joined'[listeners_'[k]] \in 1 .. Len(log) + 1
              /\ forwarding_enabled_ => heard'[listeners_'[k]] = SubSeq(log, joined'[listeners_'[k]], Len(log))
  <2>1. CASE k \in DOMAIN listeners_ /\ listeners_'[k] = listeners_[k]
    <3>1. joined'[listeners_[k]] = joined[listeners_[k]] /\ heard'[listeners_[k]] = heard[listeners_[k]]
      BY <1>3, <1>5, <2>1
    <3>2. QED
      BY <1>1, <2>1, <3>1 DEF HeardAll, Since
  <2>2. CASE listeners_'[k] = l
    <3>1. joined'[l] = Len(log) + 1 /\ heard'[l] = <<>>
      BY <1>1, <1>5
    <3>2. SubSeq(log, Len(log) + 1, Len(log)) = <<>>
      BY <1>3, SubSeqEmpty
    <3>3. QED
      BY <1>3, <2>2, <3>1, <3>2
  <2>3. QED
    BY <1>8, <2>1, <2>2
<1>11. QED
  BY <1>2, <1>6, <1>7, <1>9, <1>10, QuietListKeeps DEF Since

LEMMA ReleaseKeeps ==
  ASSUME LisInv, NEW l, event = "none", Release(l), UNCHANGED <<deleted, joined, heard>>,
         UNCHANGED modes, UNCHANGED dispatch
  PROVE  LisInv'
<1>1. LisTyped /\ Beginning /\ Single(listeners_) /\ NoDeleted /\ HeardAll
  BY DEF LisInv, NoDoubles
<1>2. /\ event' = event /\ index' = index /\ told' = told /\ log' = log
      /\ post_flag_parse_init_performed_' = post_flag_parse_init_performed_
      /\ forwarding_enabled_' = forwarding_enabled_ /\ deleted' = deleted
      /\ default_result_printer_' \in {default_result_printer_, NoListener}
      /\ default_xml_generator_' \in {default_xml_generator_, NoListener}
      /\ joined' = joined /\ heard' = heard
  BY DEF modes, dispatch, Release
<1>3. listeners_' \in Seq(Everyone) /\ Single(listeners_') /\ ToSet(listeners_') = ToSet(listeners_) \ {l}
  BY <1>1, ReleasedElements DEF LisTyped, Release
<1>4. \A k \in DOMAIN listeners_' : \E n \in DOMAIN listeners_ : listeners_'[k] = listeners_[n]
  <2>1. \A k \in DOMAIN listeners_' : listeners_'[k] \in ToSet(listeners_)
    BY <1>3, ListElements
  <2>2. QED
    BY <1>1, <2>1, ListElements DEF LisTyped
<1>5. LisTyped'
  BY <1>1, <1>2, <1>3 DEF LisTyped
<1>6. Beginning' /\ NoDoubles' /\ NoDeleted'
  BY <1>1, <1>2, <1>3, <1>4 DEF Beginning, NoDoubles, NoDeleted
<1>7. \A k \in DOMAIN listeners_' :
        /\ joined'[listeners_'[k]] \in 1 .. Len(log) + 1
        /\ forwarding_enabled_ => heard'[listeners_'[k]] = SubSeq(log, joined'[listeners_'[k]], Len(log))
  BY <1>1, <1>2, <1>4 DEF HeardAll, Since
<1>8. QED
  BY <1>2, <1>5, <1>6, <1>7, QuietListKeeps DEF Since

LEMMA OccurKeeps ==
  ASSUME LisInv, NEW kind \in EventKinds, Occur(kind)
  PROVE  LisInv'
<1>1. LisTyped /\ Beginning /\ NoDoubles /\ NoDeleted /\ HeardAll /\ event = "none" /\ post_flag_parse_init_performed_
  BY DEF LisInv, Occur
<1>2. /\ event' = kind /\ told' = <<>> /\ log' = Append(log, kind) /\ listeners_' = listeners_
      /\ index' = (IF kind = "start" THEN 1 ELSE Len(listeners_)) /\ heard' = heard /\ joined' = joined
      /\ post_flag_parse_init_performed_' = post_flag_parse_init_performed_
      /\ forwarding_enabled_' = forwarding_enabled_ /\ deleted' = deleted
      /\ default_result_printer_' = default_result_printer_
      /\ default_xml_generator_' = default_xml_generator_
  BY DEF Occur, IsForward, defaults, modes
<1>3. /\ log \in Seq(EventKinds) /\ Len(log) \in Nat /\ Len(listeners_) \in Nat
      /\ DOMAIN listeners_ = 1 .. Len(listeners_)
  BY <1>1, ListElements DEF LisTyped
<1>4. log' \in Seq(EventKinds) /\ Len(log') = Len(log) + 1 /\ log'[Len(log')] = kind
  BY <1>2, <1>3, AppendProperties
<1>5. told' \in Seq(Everyone) /\ DOMAIN told' = {} /\ ToSet(told') = {}
  BY <1>2, EmptySeq DEF ToSet
<1>6. LisTyped'
  BY <1>1, <1>2, <1>3, <1>4, <1>5 DEF LisTyped, EventKinds
<1>7. Beginning' /\ NoDoubles' /\ NoDeleted'
  BY <1>1, <1>2 DEF Beginning, NoDoubles, NoDeleted
<1>8. \A k \in DOMAIN listeners_ : ~HasPassed(k)'
  BY <1>2, <1>3 DEF HasPassed, EventKinds
<1>9. ASSUME NEW k \in DOMAIN listeners_
      PROVE  /\ joined[listeners_[k]] \in 1 .. Len(log)' /\ joined[listeners_[k]] \in 1 .. Len(log)' + 1
             /\ forwarding_enabled_ =>
                  heard[listeners_[k]] = SubSeq(log', joined[listeners_[k]], Len(log)' - 1)
  <2>1. joined[listeners_[k]] \in 1 .. Len(log) + 1
    BY <1>1 DEF HeardAll
  <2>2. SubSeq(log', joined[listeners_[k]], Len(log)) = SubSeq(log, joined[listeners_[k]], Len(log))
    BY <1>2, <1>3, <2>1, LogGrows
  <2>3. Len(log)' - 1 = Len(log)
    BY <1>3, <1>4
  <2>4. forwarding_enabled_ => heard[listeners_[k]] = SubSeq(log, joined[listeners_[k]], Len(log))
    BY <1>1 DEF HeardAll, Since
  <2>5. joined[listeners_[k]] \in 1 .. Len(log)' /\ joined[listeners_[k]] \in 1 .. Len(log)' + 1
    BY <1>3, <1>4, <2>1
  <2>6. forwarding_enabled_ => heard[listeners_[k]] = SubSeq(log', joined[listeners_[k]], Len(log)' - 1)
    BY <2>2, <2>3, <2>4, Zenon
  <2>7. QED
    BY <2>5, <2>6
<1>10. HeardAll'
  <2>1. /\ Len(log') > 0 /\ log'[Len(log')] = event' /\ event' # "none"
        /\ event' = "start" => index' > 0
        /\ event' = "end" => index' <= Len(listeners_')
    BY <1>2, <1>3, <1>4 DEF EventKinds
  <2>2. \A k \in DOMAIN listeners_' : joined'[listeners_'[k]] <= Len(log')
    BY <1>2, <1>3, <1>4, <1>9
  <2>3. forwarding_enabled_' =>
          \A k \in DOMAIN listeners_' : heard'[listeners_'[k]] = Since(listeners_[k], Len(log) - 1)'
    BY <1>2, <1>9 DEF Since
  <2>4. QED
    BY <1>2, <1>8, <1>9, <2>1, <2>2, <2>3 DEF HeardAll
<1>11. InTurn'
  BY <1>5 DEF InTurn
<1>12. QED
  BY <1>6, <1>7, <1>10, <1>11 DEF LisInv

LEMMA AllToldKeeps ==
  ASSUME LisInv, AllTold
  PROVE  LisInv'
<1>1. LisTyped /\ Beginning /\ NoDoubles /\ NoDeleted /\ HeardAll /\ event \in EventKinds /\ event # "none"
  BY DEF LisInv, AllTold, LisTyped
<1>2. /\ event' = "none" /\ told' = told /\ log' = log /\ listeners_' = listeners_
      /\ index' = index /\ heard' = heard /\ joined' = joined
      /\ post_flag_parse_init_performed_' = post_flag_parse_init_performed_
      /\ forwarding_enabled_' = forwarding_enabled_ /\ deleted' = deleted
      /\ default_result_printer_' = default_result_printer_
      /\ default_xml_generator_' = default_xml_generator_
  BY DEF AllTold, defaults, modes
<1>3. LisTyped' /\ NoDoubles' /\ NoDeleted' /\ Beginning'
  BY <1>1, <1>2 DEF LisTyped, NoDoubles, NoDeleted, Beginning
<1>4. ASSUME forwarding_enabled_, NEW k \in DOMAIN listeners_ PROVE HasPassed(k)
  <2>1. index \notin DOMAIN listeners_ /\ index \in Nat
    BY <1>1, <1>4 DEF AllTold, More, LisTyped
  <2>2. DOMAIN listeners_ = 1 .. Len(listeners_) /\ Len(listeners_) \in Nat
    BY <1>1, ListElements DEF LisTyped
  <2>3. CASE event = "start"
    BY <1>1, <2>1, <2>2, <2>3 DEF HasPassed, HeardAll
  <2>4. CASE event = "end"
    BY <1>1, <2>1, <2>2, <2>4 DEF HasPassed, HeardAll
  <2>5. QED
    BY <1>1, <2>3, <2>4 DEF EventKinds
<1>5. \A k \in DOMAIN listeners_ :
        /\ joined[listeners_[k]] \in 1 .. Len(log) + 1
        /\ forwarding_enabled_ => heard[listeners_[k]] = SubSeq(log, joined[listeners_[k]], Len(log))
  BY <1>1, <1>4 DEF HeardAll, Since
<1>6. QED
  BY <1>2, <1>3, <1>5, QuietListKeeps DEF Since

(***************************************************************************)
(* A turn of the loop: what holds before the listener does anything.        *)
(***************************************************************************)
Hearing == [heard EXCEPT ![listeners_[index]] = Append(@, event)]
Telling == Append(told, listeners_[index])
NowPassed(k) == HasPassed(k) \/ k = index

LEMMA TellFacts ==
  ASSUME LisInv, event # "none", More
  PROVE  /\ event \in EventKinds /\ forwarding_enabled_ /\ index \in DOMAIN listeners_
         /\ listeners_ \in Seq(Everyone) /\ Len(listeners_) \in Nat
         /\ DOMAIN listeners_ = 1 .. Len(listeners_) /\ Single(listeners_)
         /\ log \in Seq(EventKinds) /\ Len(log) \in Nat \ {0}
         /\ heard \in [Everyone -> Seq(EventKinds)] /\ joined \in [Everyone -> Nat]
         /\ Hearing \in [Everyone -> Seq(EventKinds)] /\ Telling \in Seq(Everyone)
         /\ \A k \in DOMAIN listeners_ :
              /\ listeners_[k] \in Everyone /\ listeners_[k] \notin deleted
              /\ joined[listeners_[k]] \in 1 .. Len(log) + 1
              /\ NowPassed(k) \/ joined[listeners_[k]] <= Len(log)
              /\ Hearing[listeners_[k]] =
                   SubSeq(log, joined[listeners_[k]], IF NowPassed(k) THEN Len(log) ELSE Len(log) - 1)
<1>1. LisTyped /\ HeardAll /\ Single(listeners_) /\ NoDeleted
  BY DEF LisInv, NoDoubles
<1>2. /\ event \in EventKinds /\ forwarding_enabled_ /\ index \in DOMAIN listeners_
      /\ listeners_ \in Seq(Everyone) /\ log \in Seq(EventKinds)
      /\ heard \in [Everyone -> Seq(EventKinds)] /\ joined \in [Everyone -> Nat]
  BY <1>1 DEF LisTyped, More
<1>3. /\ Len(listeners_) \in Nat /\ DOMAIN listeners_ = 1 .. Len(listeners_) /\ Len(log) \in Nat \ {0}
      /\ \A k \in DOMAIN listeners_ : listeners_[k] \in Everyone
  BY <1>1, <1>2, ListElements DEF HeardAll
<1>4. Telling \in Seq(Everyone)
  BY <1>1, <1>2, <1>3, AppendProperties DEF LisTyped, Telling
<1>5. heard[listeners_[index]] \in Seq(EventKinds) /\ Append(heard[listeners_[index]], event) \in Seq(EventKinds)
  BY <1>2, <1>3, AppendProperties
<1>6. Hearing \in [Everyone -> Seq(EventKinds)]
  BY <1>2, <1>5 DEF Hearing
<1>7. ASSUME NEW k \in DOMAIN listeners_
      PROVE  /\ joined[listeners_[k]] \in 1 .. Len(log) + 1
             /\ NowPassed(k) \/ joined[listeners_[k]] <= Len(log)
             /\ Hearing[listeners_[k]] =
                  SubSeq(log, joined[listeners_[k]], IF NowPassed(k) THEN Len(log) ELSE Len(log) - 1)
  <2>1. /\ joined[listeners_[k]] \in 1 .. Len(log) + 1
        /\ HasPassed(k) \/ joined[listeners_[k]] <= Len(log)
        /\ heard[listeners_[k]] =
             SubSeq(log, joined[listeners_[k]], IF HasPassed(k) THEN Len(log) ELSE Len(log) - 1)
    BY <1>1, <1>2 DEF HeardAll, Since
  <2>2. CASE k = index
    <3>1. ~HasPassed(k)
      BY <1>2, <1>3, <2>2 DEF HasPassed
    <3>2. joined[listeners_[k]] \in 1 .. Len(log)
      BY <1>3, <2>1, <3>1
    <3>3. SubSeq(log, joined[listeners_[k]], Len(log)) = Append(heard[listeners_[k]], log[Len(log)])
      BY <1>2, <2>1, <3>1, <3>2, LastHeard
    <3>4. log[Len(log)] = event
      BY <1>1 DEF HeardAll
    <3>5. Hearing[listeners_[k]] = Append(heard[listeners_[k]], event)
      BY <1>2, <1>3, <2>2 DEF Hearing
    <3>6. QED
      BY <2>1, <2>2, <3>3, <3>4, <3>5 DEF NowPassed
  <2>3. CASE k # index
    <3>1. listeners_[k] # listeners_[index]
      BY <1>1, <1>2, <2>3 DEF Single
    <3>2. Hearing[listeners_[k]] = heard[listeners_[k]]
      BY <1>2, <1>3, <3>1 DEF Hearing
    <3>3. NowPassed(k) <=> HasPassed(k)
      BY <2>3 DEF NowPassed
    <3>4. QED
      BY <2>1, <3>2, <3>3
  <2>4. QED
    BY <2>2, <2>3
<1>8. QED
  BY <1>1, <1>2, <1>3, <1>4, <1>6, <1>7 DEF NoDeleted

\* The listener that is told comes behind all that were, in this event's direction.
LEMMA TellTurn ==
  ASSUME LisInv, event # "none", More
  PROVE  /\ \A i \in DOMAIN Telling, a \in DOMAIN listeners_ :
              listeners_[a] = Telling[i] => NowPassed(a)
         /\ event = "start" => ToSet(Telling) \subseteq ToSet(listeners_)
         /\ \A i, j \in DOMAIN Telling, a, b \in DOMAIN listeners_ :
              /\ i < j /\ listeners_[a] = Telling[i] /\ listeners_[b] = Telling[j]
              /\ joined[Telling[i]] <= Len(log) /\ joined[Telling[j]] <= Len(log)
              => IF event = "start" THEN a < b ELSE b < a
<1> DEFINE l == listeners_[index]
<1>1. /\ InTurn /\ told \in Seq(Everyone) /\ index \in DOMAIN listeners_ /\ l \in Everyone
      /\ Single(listeners_) /\ listeners_ \in Seq(Everyone)
      /\ DOMAIN listeners_ = 1 .. Len(listeners_) /\ Len(listeners_) \in Nat
  BY TellFacts DEF LisInv, LisTyped
<1>2. /\ DOMAIN Telling = 1 .. Len(told) + 1 /\ ToSet(Telling) = ToSet(told) \cup {l}
      /\ Telling[Len(told) + 1] = l /\ \A i \in 1 .. Len(told) : Telling[i] = told[i]
      /\ Len(told) \in Nat /\ DOMAIN told = 1 .. Len(told)
  BY <1>1, AppendFacts, ListElements DEF Telling
<1>3. \A a \in DOMAIN listeners_ : listeners_[a] = l => a = index
  BY <1>1 DEF Single
<1> HIDE DEF l
<1>4. ASSUME NEW i \in DOMAIN Telling, NEW a \in DOMAIN listeners_, listeners_[a] = Telling[i]
      PROVE  NowPassed(a)
  <2>1. CASE i = Len(told) + 1
    BY <1>2, <1>3, <1>4, <2>1 DEF NowPassed
  <2>2. CASE i # Len(told) + 1
    <3>1. i \in DOMAIN told
      BY <1>2, <2>2
    <3>2. HasPassed(a)
      BY <1>1, <1>2, <1>4, <3>1 DEF InTurn
    <3>3. QED
      BY <3>2 DEF NowPassed
  <2>3. QED
    BY <2>1, <2>2
<1>5. event = "start" => ToSet(Telling) \subseteq ToSet(listeners_)
  <2>1. l \in ToSet(listeners_)
    BY <1>1 DEF l, ToSet
  <2>2. QED
    BY <1>1, <1>2, <2>1 DEF InTurn
<1>6. ASSUME NEW i \in DOMAIN Telling, NEW j \in DOMAIN Telling,
             NEW a \in DOMAIN listeners_, NEW b \in DOMAIN listeners_,
             i < j, listeners_[a] = Telling[i], listeners_[b] = Telling[j],
             joined[Telling[i]] <= Len(log), joined[Telling[j]] <= Len(log)
      PROVE  IF event = "start" THEN a < b ELSE b < a
  <2>1. i \in DOMAIN told /\ Telling[i] = told[i]
    BY <1>2, <1>6
  <2>2. CASE j = Len(told) + 1
    <3>1. b = index
      BY <1>2, <1>3, <1>6, <2>2
    <3>2. HasPassed(a)
      BY <1>1, <1>6, <2>1 DEF InTurn
    <3>3. QED
      BY <3>1, <3>2 DEF HasPassed
  <2>3. CASE j # Len(told) + 1
    <3>1. j \in DOMAIN told /\ Telling[j] = told[j]
      BY <1>2, <1>6, <2>3
    <3>2. QED
      BY <1>1, <1>6, <2>1, <3>1 DEF InTurn
  <2>4. QED
    BY <2>2, <2>3
<1>7. QED
  BY <1>4, <1>5, <1>6

\* What a turn leaves alone.
Turn ==
  /\ told' = Telling /\ event' = event /\ nesting' = nesting /\ log' = log /\ deleted' = deleted
  /\ forwarding_enabled_' = forwarding_enabled_
  /\ post_flag_parse_init_performed_' = post_flag_parse_init_performed_
  /\ index' = IF event = "start" THEN index + 1 ELSE index - 1
  /\ default_result_printer_' \in {default_result_printer_, NoListener}
  /\ default_xml_generator_' \in {default_xml_generator_, NoListener}

LEMMA TurnKeeps ==
  ASSUME LisInv, event # "none", More, Turn, listeners_' \in Seq(Everyone), NoDoubles',
         heard' \in [Everyone -> Seq(EventKinds)], joined' \in [Everyone -> Nat],
         NoDeleted', event = "end" => index - 1 <= Len(listeners_'),
         \A k \in DOMAIN listeners_' :
           /\ joined'[listeners_'[k]] \in 1 .. Len(log) + 1
           /\ HasPassed(k)' \/ joined'[listeners_'[k]] <= Len(log)
           /\ heard'[listeners_'[k]] =
                SubSeq(log, joined'[listeners_'[k]], IF HasPassed(k)' THEN Len(log) ELSE Len(log) - 1),
         InTurn'
  PROVE  LisInv'
<1>1. LisTyped /\ Beginning /\ HeardAll /\ event \in EventKinds /\ index \in 1 .. Len(listeners_)
      /\ Telling \in Seq(Everyone) /\ Len(listeners_) \in Nat
  BY TellFacts DEF LisInv
<1>2. index' \in Nat
  BY <1>1 DEF Turn
<1>3. LisTyped'
  BY <1>1, <1>2 DEF LisTyped, Turn
<1>4. Beginning'
  BY <1>1 DEF Beginning, Turn
<1>5. HeardAll'
  <2>1. /\ Len(log') > 0 /\ log'[Len(log')] = event' /\ event' # "none" /\ log' = log
        /\ event' = "start" => index' > 0
        /\ event' = "end" => index' <= Len(listeners_')
    BY <1>1 DEF HeardAll, Turn
  <2>2. QED
    BY <2>1 DEF HeardAll, Since
<1>6. QED
  BY <1>3, <1>4, <1>5 DEF LisInv

\* The listener leaves the list as it is.
LEMMA TellKeeps ==
  ASSUME LisInv, event # "none", More, Turn, listeners_' = listeners_, joined' = joined,
         heard' = Hearing
  PROVE  LisInv'
<1>1. /\ event \in EventKinds /\ index \in 1 .. Len(listeners_) /\ listeners_ \in Seq(Everyone)
      /\ Len(listeners_) \in Nat /\ DOMAIN listeners_ = 1 .. Len(listeners_) /\ Single(listeners_)
      /\ heard' \in [Everyone -> Seq(EventKinds)] /\ joined' \in [Everyone -> Nat]
  BY TellFacts
<1>2. \A k \in DOMAIN listeners_ : HasPassed(k)' <=> NowPassed(k)
  BY <1>1 DEF HasPassed, NowPassed, Turn, EventKinds
<1>3. NoDoubles' /\ NoDeleted'
  BY <1>1, TellFacts DEF NoDoubles, NoDeleted, Turn
<1>4. InTurn'
  BY <1>2, TellTurn DEF InTurn, Turn
<1>5. \A k \in DOMAIN listeners_' :
        /\ joined'[listeners_'[k]] \in 1 .. Len(log) + 1
        /\ HasPassed(k)' \/ joined'[listeners_'[k]] <= Len(log)
        /\ heard'[listeners_'[k]] =
             SubSeq(log, joined'[listeners_'[k]], IF HasPassed(k)' THEN Len(log) ELSE Len(log) - 1)
  BY <1>2, TellFacts
<1>6. event = "end" => index - 1 <= Len(listeners_')
  BY <1>1
<1>7. QED
  BY <1>1, <1>3, <1>4, <1>5, <1>6, TurnKeeps

\* The listener appends another one.
LEMMA TellAppendKeeps ==
  ASSUME LisInv, event # "none", More, Turn, NEW u \in Users \ ToSet(listeners_),
         listeners_' = Append(listeners_, u), joined' = [joined EXCEPT ![u] = FirstFromNow],
         heard' = [Hearing EXCEPT ![u] = <<>>]
  PROVE  LisInv'
<1> PICK n : n = Len(listeners_)
  OBVIOUS
<1>1. /\ event \in EventKinds /\ index \in 1 .. n /\ listeners_ \in Seq(Everyone)
      /\ n \in Nat /\ DOMAIN listeners_ = 1 .. n /\ Single(listeners_) /\ Len(log) \in Nat \ {0}
      /\ Hearing \in [Everyone -> Seq(EventKinds)] /\ joined \in [Everyone -> Nat]
  BY TellFacts
<1>2. u \in Everyone /\ u \notin deleted
  BY UsersFacts DEF LisInv, LisTyped
<1>3. /\ listeners_' \in Seq(Everyone) /\ DOMAIN listeners_' = 1 .. n + 1 /\ Len(listeners_') = n + 1
      /\ ToSet(listeners_') = ToSet(listeners_) \cup {u} /\ listeners_'[n + 1] = u
      /\ Single(listeners_') /\ \A k \in 1 .. n : listeners_'[k] = listeners_[k]
  BY <1>1, <1>2, AppendFacts
<1>4. \A k \in 1 .. n : listeners_[k] \in Everyone /\ listeners_[k] # u
  BY <1>1, ListElements
<1>5. /\ joined' \in [Everyone -> Nat] /\ heard' \in [Everyone -> Seq(EventKinds)]
      /\ joined'[u] = FirstFromNow /\ heard'[u] = <<>>
      /\ \A l \in Everyone : l # u => joined'[l] = joined[l] /\ heard'[l] = Hearing[l]
  <2>1. FirstFromNow \in Nat /\ <<>> \in Seq(EventKinds)
    BY <1>1, EmptySeq DEF FirstFromNow
  <2>2. QED
    BY <1>1, <1>2, <2>1
<1>6. n \in Nat /\ \A k \in 1 .. n + 1 : k # n + 1 => k \in 1 .. n
  <2>1. n \in Nat
    BY <1>1
  <2>2. QED
    BY <2>1
<1>7. /\ \A k \in 1 .. n : HasPassed(k)' <=> NowPassed(k)
      /\ HasPassed(n + 1)' <=> event = "end"
  BY <1>1 DEF HasPassed, NowPassed, Turn, EventKinds
<1>8. NoDoubles' /\ NoDeleted'
  <2>1. \A k \in 1 .. n + 1 : listeners_'[k] \notin deleted
    <3>1. SUFFICES ASSUME NEW k \in 1 .. n + 1 PROVE listeners_'[k] \notin deleted
      OBVIOUS
    <3>2. CASE k = n + 1
      BY <1>2, <1>3, <3>2
    <3>3. CASE k # n + 1
      <4>1. k \in 1 .. n
        BY <1>6, <3>3
      <4>2. QED
        BY <1>1, <1>3, <4>1, TellFacts
    <3>4. QED
      BY <3>2, <3>3
  <2>2. QED
    BY <1>3, <2>1 DEF NoDoubles, NoDeleted, Turn
<1>9. ASSUME NEW k \in DOMAIN listeners_'
      PROVE  /\ joined'[listeners_'[k]] \in 1 .. Len(log) + 1
             /\ HasPassed(k)' \/ joined'[listeners_'[k]] <= Len(log)
             /\ heard'[listeners_'[k]] =
                  SubSeq(log, joined'[listeners_'[k]], IF HasPassed(k)' THEN Len(log) ELSE Len(log) - 1)
  <2>1. CASE k = n + 1
    <3>1. joined'[u] = (IF event = "start" THEN Len(log) ELSE Len(log) + 1) /\ heard'[u] = <<>>
      BY <1>5 DEF FirstFromNow
    <3>2. SubSeq(log, Len(log), Len(log) - 1) = <<>> /\ SubSeq(log, Len(log) + 1, Len(log)) = <<>>
      BY <1>1, SubSeqEmpty
    <3>3. joined'[u] \in 1 .. Len(log) + 1 /\ (HasPassed(n + 1)' \/ joined'[u] <= Len(log))
      BY <1>1, <1>7, <3>1 DEF EventKinds
    <3>4. heard'[u] = SubSeq(log, joined'[u], IF HasPassed(n + 1)' THEN Len(log) ELSE Len(log) - 1)
      <4>1. CASE event = "start"
        BY <1>7, <3>1, <3>2, <4>1
      <4>2. CASE event = "end"
        BY <1>7, <3>1, <3>2, <4>2
      <4>3. QED
        BY <1>1, <4>1, <4>2 DEF EventKinds
    <3>5. QED
      BY <1>3, <2>1, <3>3, <3>4
  <2>2. CASE k # n + 1
    <3>1. k \in 1 .. n /\ k \in DOMAIN listeners_
      BY <1>1, <1>3, <1>6, <2>2
    <3>2. listeners_'[k] = listeners_[k] /\ joined'[listeners_[k]] = joined[listeners_[k]]
          /\ heard'[listeners_[k]] = Hearing[listeners_[k]]
      BY <1>3, <1>4, <1>5, <3>1
    <3>3. HasPassed(k)' <=> NowPassed(k)
      BY <1>7, <3>1
    <3>4. QED
      BY <3>1, <3>2, <3>3, TellFacts
  <2>3. QED
    BY <2>1, <2>2
<1>10. InTurn'
  <2>1. \A i \in DOMAIN Telling, a \in DOMAIN listeners_' : listeners_'[a] = Telling[i] => HasPassed(a)'
    <3>1. SUFFICES ASSUME NEW i \in DOMAIN Telling, NEW a \in DOMAIN listeners_',
                          listeners_'[a] = Telling[i]
                   PROVE  HasPassed(a)'
      OBVIOUS
    <3>2. CASE a = n + 1
      <4>1. Telling[i] = u /\ Telling[i] \in ToSet(Telling)
        BY <1>3, <3>1, <3>2 DEF ToSet
      <4>2. event # "start"
        BY <4>1, TellTurn
      <4>3. QED
        BY <1>1, <1>7, <3>2, <4>2 DEF EventKinds
    <3>3. CASE a # n + 1
      <4>1. a \in 1 .. n /\ a \in DOMAIN listeners_
        BY <1>1, <1>3, <1>6, <3>3
      <4>2. listeners_[a] = Telling[i]
        BY <1>3, <3>1, <4>1
      <4>3. QED
        BY <1>7, <4>1, <4>2, TellTurn
    <3>4. QED
      BY <3>2, <3>3
  <2>2. event = "start" => ToSet(Telling) \subseteq ToSet(listeners_')
    BY <1>3, TellTurn
  <2>3. ASSUME NEW i \in DOMAIN Telling, NEW j \in DOMAIN Telling,
               NEW a \in DOMAIN listeners_', NEW b \in DOMAIN listeners_',
               i < j, listeners_'[a] = Telling[i], listeners_'[b] = Telling[j],
               joined'[Telling[i]] <= Len(log), joined'[Telling[j]] <= Len(log)
        PROVE  IF event = "start" THEN a < b ELSE b < a
    <3>1. Telling[i] # u /\ Telling[j] # u
      <4>1. CASE event = "start"
        BY <4>1, TellTurn DEF ToSet
      <4>2. CASE event # "start"
        BY <1>1, <1>5, <2>3, <4>2 DEF FirstFromNow
      <4>3. QED
        BY <4>1, <4>2
    <3>2. a \in 1 .. n /\ b \in 1 .. n /\ a \in DOMAIN listeners_ /\ b \in DOMAIN listeners_
      <4>1. a # n + 1 /\ b # n + 1
        BY <1>3, <2>3, <3>1
      <4>2. QED
        BY <1>1, <1>3, <1>6, <4>1
    <3>3. listeners_[a] = Telling[i] /\ listeners_[b] = Telling[j]
      BY <1>3, <2>3, <3>2
    <3>4. joined[Telling[i]] <= Len(log) /\ joined[Telling[j]] <= Len(log)
      BY <1>4, <1>5, <2>3, <3>2, <3>3
    <3>5. QED
      BY <2>3, <3>2, <3>3, <3>4, TellTurn
  <2>4. QED
    BY <2>1, <2>2, <2>3 DEF InTurn, Turn
<1>11. event = "end" => index - 1 <= Len(listeners_')
  BY <1>1, <1>3
<1>12. QED
  BY <1>3, <1>5, <1>8, <1>9, <1>10, <1>11, TurnKeeps

\* The listener takes itself out, which it does in the course of an end only:
\* those that come next lie before it in the list.
LEMMA TellReleaseKeeps ==
  ASSUME LisInv, event = "end", More, Turn, listeners_' = Released(listeners_, listeners_[index]),
         joined' = joined, heard' = Hearing
  PROVE  LisInv'
<1> PICK n : n = Len(listeners_)
  OBVIOUS
<1>1. /\ event # "none" /\ index \in 1 .. n /\ listeners_ \in Seq(Everyone)
      /\ n \in Nat /\ DOMAIN listeners_ = 1 .. n /\ Single(listeners_)
      /\ heard' \in [Everyone -> Seq(EventKinds)] /\ joined' \in [Everyone -> Nat]
  BY TellFacts
<1>2. /\ listeners_' \in Seq(Everyone) /\ Len(listeners_') = n - 1 /\ DOMAIN listeners_' = 1 .. n - 1
      /\ \A k \in 1 .. index - 1 : listeners_'[k] = listeners_[k]
      /\ \A k \in index .. n - 1 : listeners_'[k] = listeners_[k + 1]
  BY <1>1, ReleasedFacts
<1>3. Single(listeners_')
  BY <1>1, ReleasedElements
<1> DEFINE Was(k) == IF k < index THEN k ELSE k + 1
<1>4. \A k \in DOMAIN listeners_' :
        /\ Was(k) \in DOMAIN listeners_ /\ listeners_'[k] = listeners_[Was(k)]
        /\ (HasPassed(k)' <=> NowPassed(Was(k)))
  <2>1. SUFFICES ASSUME NEW k \in 1 .. n - 1
                 PROVE  /\ Was(k) \in DOMAIN listeners_ /\ listeners_'[k] = listeners_[Was(k)]
                        /\ (HasPassed(k)' <=> NowPassed(Was(k)))
    BY <1>2
  <2>2. Was(k) \in DOMAIN listeners_ /\ listeners_'[k] = listeners_[Was(k)]
    <3>1. n \in Nat /\ index \in 1 .. n /\ DOMAIN listeners_ = 1 .. n
      BY <1>1
    <3>2. CASE k < index
      <4>1. k \in 1 .. index - 1 /\ k \in 1 .. n /\ Was(k) = k
        BY <2>1, <3>1, <3>2
      <4>2. listeners_'[k] = listeners_[k]
        BY <1>2, <4>1
      <4>3. QED
        BY <3>1, <4>1, <4>2
    <3>3. CASE ~(k < index)
      <4>1. k \in index .. n - 1 /\ k + 1 \in 1 .. n /\ Was(k) = k + 1
        BY <2>1, <3>1, <3>3
      <4>2. listeners_'[k] = listeners_[k + 1]
        BY <1>2, <4>1
      <4>3. QED
        BY <3>1, <4>1, <4>2
    <3>4. QED
      BY <3>2, <3>3
  <2>3. index' = index - 1 /\ event' = "end"
    BY DEF Turn
  <2>4. HasPassed(k)' <=> index - 1 < k
    BY <2>3 DEF HasPassed
  <2>5. NowPassed(Was(k)) <=> index <= k
    BY <1>1 DEF NowPassed, HasPassed
  <2>6. QED
    BY <1>1, <2>2, <2>4, <2>5
<1>5. \A a, b \in DOMAIN listeners_' : Was(b) < Was(a) => b < a
  <2>1. n \in Nat /\ index \in 1 .. n
    BY <1>1
  <2>2. \A a, b \in 1 .. n - 1 : Was(b) < Was(a) => b < a
    BY <2>1
  <2>3. QED
    BY <1>2, <2>2
<1> HIDE DEF Was
<1>6. NoDoubles' /\ NoDeleted'
  BY <1>1, <1>3, <1>4, TellFacts DEF NoDoubles, NoDeleted, Turn
<1>7. ASSUME NEW k \in DOMAIN listeners_'
      PROVE  /\ joined'[listeners_'[k]] \in 1 .. Len(log) + 1
             /\ HasPassed(k)' \/ joined'[listeners_'[k]] <= Len(log)
             /\ heard'[listeners_'[k]] =
                  SubSeq(log, joined'[listeners_'[k]], IF HasPassed(k)' THEN Len(log) ELSE Len(log) - 1)
  <2>1. PICK m \in DOMAIN listeners_ : listeners_'[k] = listeners_[m] /\ (HasPassed(k)' <=> NowPassed(m))
    BY <1>4
  <2>2. QED
    BY <1>1, <2>1, TellFacts
<1>8. InTurn'
  <2>1. \A i \in DOMAIN Telling, a \in DOMAIN listeners_' : listeners_'[a] = Telling[i] => HasPassed(a)'
    BY <1>1, <1>4, TellTurn
  <2>2. ASSUME NEW i \in DOMAIN Telling, NEW j \in DOMAIN Telling,
               NEW a \in DOMAIN listeners_', NEW b \in DOMAIN listeners_',
               i < j, listeners_'[a] = Telling[i], listeners_'[b] = Telling[j],
               joined[Telling[i]] <= Len(log), joined[Telling[j]] <= Len(log)
        PROVE  b < a
    <3>1. /\ Was(a) \in DOMAIN listeners_ /\ listeners_[Was(a)] = Telling[i]
          /\ Was(b) \in DOMAIN listeners_ /\ listeners_[Was(b)] = Telling[j]
      BY <1>4, <2>2
    <3>2. Was(b) < Was(a)
      BY <1>1, <2>2, <3>1, TellTurn
    <3>3. QED
      BY <1>5, <3>2
  <2>3. QED
    BY <2>1, <2>2 DEF InTurn, Turn
<1>9. event = "end" => index - 1 <= Len(listeners_')
  BY <1>1, <1>2
<1>10. QED
  BY <1>1, <1>2, <1>6, <1>7, <1>8, <1>9, TurnKeeps

LEMMA TellStep ==
  ASSUME LisInv, Tell
  PROVE  LisInv'
<1>1. event # "none" /\ More
  BY DEF Tell
<1>2. Turn
  BY DEF Tell, Turn, Telling, IsForward, modes, defaults, Release
<1>3. \/ heard' = Hearing /\ UNCHANGED <<listeners_, defaults, joined>>
      \/ \E u \in Users \ ToSet(listeners_) :
           /\ listeners_' = Append(listeners_, u)
           /\ joined' = [joined EXCEPT ![u] = FirstFromNow]
           /\ heard' = [Hearing EXCEPT ![u] = <<>>]
      \/ event = "end" /\ Release(listeners_[index]) /\ heard' = Hearing /\ UNCHANGED <<deleted, joined>>
  BY DEF Tell, Hearing
<1>4. CASE heard' = Hearing /\ UNCHANGED <<listeners_, defaults, joined>>
  BY <1>1, <1>2, <1>4, TellKeeps
<1>5. CASE \E u \in Users \ ToSet(listeners_) :
             /\ listeners_' = Append(listeners_, u)
             /\ joined' = [joined EXCEPT ![u] = FirstFromNow]
             /\ heard' = [Hearing EXCEPT ![u] = <<>>]
  BY <1>1, <1>2, <1>5, TellAppendKeeps
<1>6. CASE event = "end" /\ Release(listeners_[index]) /\ heard' = Hearing /\ UNCHANGED <<deleted, joined>>
  BY <1>1, <1>2, <1>6, TellReleaseKeeps DEF Release
<1>7. QED
  BY <1>3, <1>4, <1>5, <1>6

LEMMA ListenersInvariant == LisSpec => []LisInv
<1>1. LisInit => LisInv
  BY ListenersBegin
<1>2. LisInv /\ [LisNext]_lisVars => LisInv'
  <2>1. SUFFICES ASSUME LisInv, [LisNext]_lisVars PROVE LisInv'
    OBVIOUS
  <2>2. CASE PostFlagParsingInit
    BY <2>1, <2>2, PostFlagParsingInitKeeps
  <2>3. CASE Change
    <3>1. CASE \E l \in Users \ ToSet(listeners_) : Join(l) /\ UNCHANGED defaults
      BY <2>1, <2>3, <3>1, JoinKeeps DEF Change
    <3>2. CASE \E l \in ToSet(listeners_) : Release(l) /\ UNCHANGED <<deleted, joined, heard>>
      BY <2>1, <2>3, <3>2, ReleaseKeeps DEF Change
    <3>3. QED
      BY <2>3, <3>1, <3>2 DEF Change
  <2>4. CASE Occur("start") \/ Occur("end")
    BY <2>1, <2>4, OccurKeeps DEF EventKinds
  <2>5. CASE Tell
    BY <2>1, <2>5, TellStep
  <2>6. CASE AllTold
    BY <2>1, <2>6, AllToldKeeps
  <2>7. CASE LisStopped \/ UNCHANGED lisVars
    <3>1. /\ listeners_' = listeners_ /\ told' = told /\ log' = log /\ event' = event /\ index' = index
          /\ heard' = heard /\ joined' = joined /\ deleted' = deleted
          /\ default_result_printer_' = default_result_printer_
          /\ default_xml_generator_' = default_xml_generator_
          /\ forwarding_enabled_' = forwarding_enabled_
          /\ post_flag_parse_init_performed_' = post_flag_parse_init_performed_
      BY <2>7 DEF LisStopped, lisVars, defaults, modes, dispatch
    <3>2. LisTyped'
      BY <2>1, <3>1 DEF LisInv, LisTyped
    <3>3. Beginning' /\ NoDoubles' /\ NoDeleted'
      BY <2>1, <3>1 DEF LisInv, Beginning, NoDoubles, NoDeleted
    <3>4. HeardAll'
      BY <2>1, <3>1 DEF LisInv, HeardAll, HasPassed, Since
    <3>5. InTurn'
      BY <2>1, <3>1 DEF LisInv, InTurn, HasPassed
    <3>6. QED
      BY <3>2, <3>3, <3>4, <3>5 DEF LisInv
  <2>8. QED
    BY <2>1, <2>2, <2>3, <2>4, <2>5, <2>6, <2>7 DEF LisNext
<1>3. QED
  BY <1>1, <1>2, PTL DEF LisSpec

(***************************************************************************)
(* The theorem.                                                             *)
(***************************************************************************)
\* TestEventRepeater's loops by index and PostFlagParsingInit: however many
\* listeners join and leave, and when, each one in the list hears every event
\* from its first one on once, starts in the order of the list and ends in
\* reverse, and no deleted printer is called.
THEOREM ListenersHearAll == LisSpec => []EventsReachAll
<1>1. LisInv => EventsReachAll
  <2>1. SUFFICES ASSUME LisInv PROVE EventsReachAll
    OBVIOUS
  <2>2. LisTyped /\ NoDeleted /\ HeardAll /\ InTurn
    BY <2>1 DEF LisInv
  <2>3. \A l \in ToSet(listeners_) : \E k \in DOMAIN listeners_ : listeners_[k] = l
    BY <2>2, ListElements DEF LisTyped
  <2>4. ToSet(listeners_) \cap deleted = {}
    BY <2>2, <2>3 DEF NoDeleted
  <2>5. event = "none" /\ forwarding_enabled_ =>
          \A l \in ToSet(listeners_) : heard[l] = SubSeq(log, joined[l], Len(log))
    BY <2>2, <2>3 DEF HeardAll, Since
  <2>6. QED
    BY <2>2, <2>4, <2>5 DEF EventsReachAll, InTurn
<1>2. QED
  BY <1>1, ListenersInvariant, PTL
=============================================================================

----------------------------- MODULE Matchers ------------------------------
(***************************************************************************)
(* The lifetime of what a Matcher holds (MatcherBase, gtest-matchers.h): a  *)
(* small implementation lies in the buffer of the matcher, any other is a   *)
(* payload on the heap that all copies share and count.  The value of a     *)
(* payload may be a matcher itself.  An operation of a matcher is a         *)
(* sequence of steps: each access to a count, each delete, each assignment. *)
(* Discipline of the tests: while one thread constructs, assigns or         *)
(* destructs a matcher, no other thread uses it or what it is made of; and  *)
(* a matcher is not assigned from one that lives inside of its own payload. *)
(***************************************************************************)
EXTENDS Integers, FiniteSets, Sequences

CONSTANTS
  Holders,     \* threads
  Objects,     \* Matcher variables
  MaxPayloads  \* bound: payloads that are made

ASSUME MatchersAssumption == IsFiniteSet(Holders) /\ IsFiniteSet(Objects)

NoBuffer == 0

VARIABLES
  matcher,   \* of each object: what vtable_ stands for, and buffer_.shared
  payload,   \* of each SharedPayload: whether it exists, ref, and the matcher in its value
  todo,      \* what is left of each thread's operation
  uses       \* the objects that it works on

matVars == <<matcher, payload, todo, uses>>

Made == DOMAIN payload
Absent == [vtable |-> "absent", shared |-> NoBuffer]
Null == [vtable |-> "null", shared |-> NoBuffer]
Inlined == [vtable |-> "inlined", shared |-> NoBuffer]
Holding(p) == [vtable |-> "shared", shared |-> p]

IsShared(m) == m.vtable = "shared"

(***************************************************************************)
(* Operations.                                                              *)
(***************************************************************************)
\* vtable_ is set to null; nothing reads buffer_ then.  Fault: it is kept.
KeepVTable(m) == m
MovedFrom(m) == Null

Destroy(m) == IF IsShared(m) THEN << <<"Unref", m.shared>> >> ELSE <<>>

Free(t, objects) ==
  todo[t] = <<>> /\ \A other \in Holders \ {t} : uses[other] \cap objects = {}

Operate(t, objects, steps) ==
  /\ todo' = [todo EXCEPT ![t] = steps]
  /\ uses' = [uses EXCEPT ![t] = IF steps = <<>> THEN {} ELSE objects]

\* A matcher of an implementation that fits into the buffer, or of nothing.
Construct(t, m) ==
  /\ Free(t, {m}) /\ matcher[m] = Absent
  /\ \E new \in {Null, Inlined} : matcher' = [matcher EXCEPT ![m] = new]
  /\ Operate(t, {m}, <<>>)
  /\ UNCHANGED payload

\* A matcher of any other one, whose value may have a matcher moved into it.
InitShared(t, m) ==
  /\ Free(t, {m}) /\ matcher[m] = Absent
  /\ Cardinality(Made) < MaxPayloads
  /\ LET p == Cardinality(Made) + 1
         made(inner) == [k \in Made \cup {p} |-> IF k = p THEN [live |-> TRUE, ref |-> 1, value |-> inner]
                                                 ELSE payload[k]]
     IN  \/ /\ payload' = made(Null)
            /\ matcher' = [matcher EXCEPT ![m] = Holding(p)]
         \/ \E other \in Objects \ {m} :
              /\ matcher[other] # Absent /\ Free(t, {m, other})
              /\ payload' = made(matcher[other])
              /\ matcher' = [matcher EXCEPT ![m] = Holding(p), ![other] = MovedFrom(@)]
  /\ Operate(t, {m}, <<>>)

Copy(t, m, other) ==
  /\ Free(t, {m, other}) /\ matcher[m] = Absent /\ matcher[other] # Absent
  /\ matcher' = [matcher EXCEPT ![m] = matcher[other]]
  /\ Operate(t, {m, other}, IF IsShared(matcher[other]) THEN << <<"Ref", matcher[other].shared>> >>
                            ELSE <<>>)
  /\ UNCHANGED payload

Move(t, m, other) ==
  /\ Free(t, {m, other}) /\ matcher[m] = Absent /\ matcher[other] # Absent
  /\ matcher' = [matcher EXCEPT ![m] = matcher[other], ![other] = MovedFrom(@)]
  /\ Operate(t, {m, other}, <<>>)
  /\ UNCHANGED payload

\* Fault: there is no test for self-assignment.
AnyOther(m, other) == TRUE
IsOther(m, other) == m # other

\* operator= of either kind.
Assign(t, m, other, kind) ==
  /\ Free(t, {m, other}) /\ matcher[m] # Absent /\ matcher[other] # Absent
  /\ Operate(t, {m, other}, IF IsOther(m, other)
                            THEN Append(Destroy(matcher[m]), <<kind, m, other>>) ELSE <<>>)
  /\ UNCHANGED <<matcher, payload>>

Destruct(t, m) ==
  /\ Free(t, {m}) /\ matcher[m] # Absent
  /\ Operate(t, {m}, Append(Destroy(matcher[m]), <<"gone", m>>))
  /\ UNCHANGED <<matcher, payload>>

(***************************************************************************)
(* The steps.                                                               *)
(***************************************************************************)
Continue(t, steps) == Operate(t, uses[t], steps \o Tail(todo[t]))
Pending(t, what) == todo[t] # <<>> /\ Head(todo[t])[1] = what
Touched(t) == payload[Head(todo[t])[2]]
SetTouched(t, new) == payload' = [payload EXCEPT ![Head(todo[t])[2]] = new]

Ref(t) ==
  /\ Pending(t, "Ref")
  /\ SetTouched(t, [Touched(t) EXCEPT !.ref = @ + 1])
  /\ Continue(t, <<>>) /\ UNCHANGED matcher

\* Fault: the last but one to leave deletes the payload.
AtZero(before) == before <= 2
WasLast(before) == before = 1

Unref(t) ==
  /\ Pending(t, "Unref")
  /\ SetTouched(t, [Touched(t) EXCEPT !.ref = @ - 1])
  /\ Continue(t, IF WasLast(Touched(t).ref) THEN << <<"delete", Head(todo[t])[2]>> >> ELSE <<>>)
  /\ UNCHANGED matcher

\* The destructor of the value, a matcher, is next.
SharedDestroy(t) ==
  /\ Pending(t, "delete")
  /\ SetTouched(t, [Touched(t) EXCEPT !.live = FALSE, !.value = Null])
  /\ Continue(t, Destroy(Touched(t).value)) /\ UNCHANGED matcher

\* The object takes over what the other one holds.
Take(t) ==
  /\ Pending(t, "copy") \/ Pending(t, "move")
  /\ LET m == Head(todo[t])[2]
         other == Head(todo[t])[3]
     IN  IF Head(todo[t])[1] = "copy"
         THEN /\ matcher' = [matcher EXCEPT ![m] = matcher[other]]
              /\ Continue(t, IF IsShared(matcher[other])
                             THEN << <<"Ref", matcher[other].shared>> >> ELSE <<>>)
         ELSE /\ matcher' = [matcher EXCEPT ![m] = matcher[other], ![other] = MovedFrom(matcher[other])]
              /\ Continue(t, <<>>)
  /\ UNCHANGED payload

Gone(t) ==
  /\ Pending(t, "gone")
  /\ matcher' = [matcher EXCEPT ![Head(todo[t])[2]] = Absent]
  /\ Continue(t, <<>>) /\ UNCHANGED payload

MatInit ==
  /\ matcher = [m \in Objects |-> Absent] /\ payload = <<>>
  /\ todo = [t \in Holders |-> <<>>] /\ uses = [t \in Holders |-> {}]

MatNext ==
  \E t \in Holders :
    \/ Ref(t) \/ Unref(t) \/ SharedDestroy(t) \/ Take(t) \/ Gone(t)
    \/ \E m \in Objects :
         \/ Construct(t, m) \/ InitShared(t, m) \/ Destruct(t, m)
         \/ \E other \in Objects :
              \/ Copy(t, m, other) \/ Move(t, m, other)
              \/ \E kind \in {"copy", "move"} : Assign(t, m, other, kind)

MatSpec == MatInit /\ [][MatNext]_matVars

(***************************************************************************)
(* Properties.                                                              *)
(***************************************************************************)
InUse(m) == \E t \in Holders : m \in uses[t]
HeldBy(p) == {m \in Objects : matcher[m] = Holding(p)}
InsideOf(p) == {q \in Made : payload[q].live /\ payload[q].value = Holding(p)}

\* Whatever the threads do with their copies, none uses, counts or deletes a
\* payload that was deleted; a matcher that is at rest can be asked to match;
\* and when all are at rest a payload exists as long as somebody holds it and no
\* longer: the count is the number of those who do.
MatchersAlive ==
  /\ \A t \in Holders, k \in 1 .. 4 :
       k \in DOMAIN todo[t] /\ todo[t][k][1] \in {"Ref", "Unref", "delete"} =>
         payload[todo[t][k][2]].live
  /\ \A m \in Objects : IsShared(matcher[m]) /\ ~InUse(m) => payload[matcher[m].shared].live
  /\ (\A t \in Holders : todo[t] = <<>>) =>
       \A p \in Made :
         /\ payload[p].ref = Cardinality(HeldBy(p)) + Cardinality(InsideOf(p))
         /\ payload[p].live = (payload[p].ref > 0)
=============================================================================

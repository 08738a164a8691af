------------------------------- MODULE Filter -------------------------------
(***************************************************************************)
(* --gtest_filter (gtest.cc): which names a filter selects.  Names and      *)
(* filters are sequences of characters.                                     *)
(***************************************************************************)
LOCAL INSTANCE Naturals
LOCAL INSTANCE Sequences
LOCAL INSTANCE SequencesExt

\* The pieces between the separators: never none.
SplitString(str, delimiter) ==
  FoldLeft(LAMBDA pieces, c :
             IF c = delimiter THEN Append(pieces, <<>>)
             ELSE [pieces EXCEPT ![Len(pieces)] = Append(@, c)],
           << <<>> >>, str)

(***************************************************************************)
(* PatternMatchesString: one loop over both, with one place to go back to.  *)
(* A state of the loop holds pattern, name, pattern_next and name_next.     *)
(***************************************************************************)
\* Fault: a wildcard takes at least one character.
StarTakesOne(s) == [p |-> s.p + 1, n |-> s.n + 1, pattern_next |-> s.p, name_next |-> s.n + 1]
Star(s) == [p |-> s.p + 1, n |-> s.n, pattern_next |-> s.p, name_next |-> s.n + 1]

RECURSIVE Scan(_, _, _)
Scan(name, pattern, s) ==
  LET left    == s.p <= Len(pattern)
      any     == left /\ pattern[s.p] = "*"
      one     == left /\ s.n <= Len(name) /\ pattern[s.p] \in {"?", name[s.n]}
      restart == 1 < s.name_next /\ s.name_next <= Len(name) + 1
  IN  \/ ~left /\ s.n > Len(name)
      \/ any /\ Scan(name, pattern, Star(s))
      \/ ~any /\ one /\ Scan(name, pattern, [s EXCEPT !.p = @ + 1, !.n = @ + 1])
      \/ /\ (left \/ s.n <= Len(name)) /\ ~any /\ ~one /\ restart
         /\ Scan(name, pattern, [s EXCEPT !.p = s.pattern_next, !.n = s.name_next])

PatternMatchesString(name, pattern) ==
  Scan(name, pattern, [p |-> 1, n |-> 1, pattern_next |-> 1, name_next |-> 1])

IsGlobPattern(pattern) == \E k \in DOMAIN pattern : pattern[k] \in {"?", "*"}

UnitTestFilterMatches(filter, name) ==
  \E pattern \in ToSet(SplitString(filter, ":")) :
    IF IsGlobPattern(pattern) THEN PatternMatchesString(name, pattern) ELSE name = pattern

\* A negative part without a positive one is taken out of all the tests.
MatchesFilter(filter, name) ==
  LET parts    == SplitString(filter, "-")
      positive == IF Len(parts) > 1 /\ parts[1] = <<>> THEN <<"*">> ELSE parts[1]
      negative == FoldLeft(LAMBDA acc, part : acc \o <<"-">> \o part, parts[2], SubSeq(parts, 3, Len(parts)))
  IN  /\ UnitTestFilterMatches(positive, name)
      /\ Len(parts) > 1 => ~UnitTestFilterMatches(negative, name)

(***************************************************************************)
(* What a filter means.                                                     *)
(***************************************************************************)
RECURSIVE Matches(_, _)
Matches(pattern, name) ==
  IF pattern = <<>> THEN name = <<>>
  ELSE IF Head(pattern) = "*"
  THEN \E k \in 1 .. Len(name) + 1 : Matches(Tail(pattern), SubSeq(name, k, Len(name)))
  ELSE name # <<>> /\ Head(pattern) \in {"?", Head(name)} /\ Matches(Tail(pattern), Tail(name))

\* Some pattern in filter[from .. to] matches: one that begins there or behind a
\* colon and that goes on to the next colon or to the end.
SomePattern(filter, from, to, name) ==
  \E i \in from .. to + 1, j \in from - 1 .. to :
    /\ i = from \/ filter[i - 1] = ":"
    /\ j = to \/ filter[j + 1] = ":"
    /\ i <= j + 1 /\ \A k \in i .. j : filter[k] # ":"
    /\ Matches(SubSeq(filter, i, j), name)

Dashes(filter) == {k \in DOMAIN filter : filter[k] = "-"}
FirstDash(filter) == CHOOSE k \in Dashes(filter) : \A j \in Dashes(filter) : k <= j

Selects(filter, name) ==
  IF Dashes(filter) = {} THEN SomePattern(filter, 1, Len(filter), name)
  ELSE /\ FirstDash(filter) = 1 \/ SomePattern(filter, 1, FirstDash(filter) - 1, name)
       /\ ~SomePattern(filter, FirstDash(filter) + 1, Len(filter), name)
=============================================================================

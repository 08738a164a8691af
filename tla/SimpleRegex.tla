----------------------------- MODULE SimpleRegex -----------------------------
(***************************************************************************)
(* The regular expressions of a platform without regex.h (gtest-port.cc):   *)
(* RE and what it is made of.  Of the escapes, \d stands for those that     *)
(* name a class, and of the punctuation "$", "." and "*" are looked at.     *)
(***************************************************************************)
LOCAL INSTANCE Naturals
LOCAL INSTANCE Sequences
LOCAL INSTANCE SequencesExt

Backslash == "\\"
Digits == {"0"}
IsAsciiPunct(c) == c \in {"^", "$", ".", "*", "+", "?", "(", Backslash}
IsRepeat(c) == c \in {"?", "*", "+"}
IsValidEscape(c) == IsAsciiPunct(c) \/ c = "d"

AtomMatchesChar(escaped, p, c) ==
  IF escaped THEN IF p = "d" THEN c \in Digits ELSE IsAsciiPunct(p) /\ p = c
  ELSE p = "." \/ p = c

(***************************************************************************)
(* ValidateRegex.  The loop reads a character or an escape; what it carries *)
(* on is the position, whether the atom before may be repeated, and the     *)
(* verdict so far.                                                          *)
(***************************************************************************)
At(s, i) == IF i \in DOMAIN s THEN s[i] ELSE "end"

RECURSIVE ValidFrom(_, _, _)
ValidFrom(regex, i, prev_repeatable) ==
  LET c == At(regex, i)
  IN  CASE c = "end" -> TRUE
        [] c = Backslash -> IsValidEscape(At(regex, i + 1)) /\ ValidFrom(regex, i + 2, TRUE)
        [] OTHER ->
             /\ c = "^" => i = 1
             /\ c = "$" => At(regex, i + 1) = "end"
             /\ c # "("      \* and the other brackets and the bar
             /\ IsRepeat(c) => prev_repeatable
             /\ ValidFrom(regex, i + 1, c \notin {"^", "$", "?", "*", "+"})

ValidateRegex(regex) == ValidFrom(regex, 1, FALSE)

\* Fault: a repetition takes all that it can and gives nothing back.
Greedy(counts) == {k \in counts : \A j \in counts : j <= k}
Tries(counts) == counts

\* The counts of characters at the head of str that c repeated may take.
Repetitions(escaped, c, repeat, str) ==
  {k \in 0 .. Len(str) :
     /\ repeat = "+" => k >= 1
     /\ repeat = "?" => k <= 1
     /\ \A j \in 1 .. k : AtomMatchesChar(escaped, c, str[j])}

\* MatchRegexAtHead with MatchRepetitionAndRegexAtHead.
RECURSIVE MatchRegexAtHead(_, _)
MatchRegexAtHead(regex, str) ==
  LET escaped == Head(regex) = Backslash
      atom    == IF escaped THEN Tail(regex) ELSE regex
  IN  CASE regex = <<>> -> TRUE
        [] regex # <<>> /\ Head(regex) = "$" -> str = <<>>
        [] OTHER ->
             IF IsRepeat(At(atom, 2))
             THEN \E k \in Tries(Repetitions(escaped, atom[1], atom[2], str)) :
                    MatchRegexAtHead(SubSeq(atom, 3, Len(atom)), SubSeq(str, k + 1, Len(str)))
             ELSE /\ str # <<>> /\ AtomMatchesChar(escaped, atom[1], str[1])
                  /\ MatchRegexAtHead(Tail(atom), Tail(str))

MatchRegexAnywhere(regex, str) ==
  IF regex # <<>> /\ Head(regex) = "^" THEN MatchRegexAtHead(Tail(regex), str)
  ELSE \E k \in 1 .. Len(str) + 1 : MatchRegexAtHead(regex, SubSeq(str, k, Len(str)))

full_pattern(regex) ==
  (IF At(regex, 1) = "^" THEN <<>> ELSE <<"^">>) \o regex
    \o (IF At(regex, Len(regex)) = "$" THEN <<>> ELSE <<"$">>)

FullMatch(str, regex) == ValidateRegex(regex) /\ MatchRegexAnywhere(full_pattern(regex), str)
PartialMatch(str, regex) == ValidateRegex(regex) /\ MatchRegexAnywhere(regex, str)

(***************************************************************************)
(* What an expression means: the atoms, and the strings that they match     *)
(* from one position to another.                                            *)
(***************************************************************************)
\* The tokens: <<escaped, character>>.
RECURSIVE Tokens(_)
Tokens(regex) ==
  CASE regex = <<>> -> <<>>
    [] Len(regex) > 1 /\ Head(regex) = Backslash ->
         << <<TRUE, regex[2]>> >> \o Tokens(SubSeq(regex, 3, Len(regex)))
    [] OTHER -> << <<FALSE, Head(regex)>> >> \o Tokens(Tail(regex))

\* The positions that the tokens from i on may lead to from the position p.
RECURSIVE Ends(_, _, _, _)
Ends(t, i, str, p) ==
  LET takes(q)  == q <= Len(str) /\ AtomMatchesChar(t[i][1], t[i][2], str[q])
      repeat    == IF i < Len(t) /\ ~t[i + 1][1] THEN t[i + 1][2] ELSE "end"
      upto      == {q \in p .. Len(str) + 1 : \A j \in p .. q - 1 : takes(j)}
      over(q, k) == Ends(t, k, str, q)
  IN  CASE i > Len(t) -> {p}
        [] i <= Len(t) /\ t[i] = <<FALSE, "^">> -> IF p = 1 THEN over(p, i + 1) ELSE {}
        [] i <= Len(t) /\ t[i] = <<FALSE, "$">> -> IF p = Len(str) + 1 THEN over(p, i + 1) ELSE {}
        [] OTHER ->
             CASE repeat = "*" -> UNION {over(q, i + 2) : q \in upto}
               [] repeat = "+" -> UNION {over(q, i + 2) : q \in upto \ {p}}
               [] repeat = "?" -> UNION {over(q, i + 2) : q \in upto \cap {p, p + 1}}
               [] OTHER        -> UNION {over(q, i + 1) : q \in upto \cap {p + 1}}

MatchesPart(regex, str) == \E p \in 1 .. Len(str) + 1 : Ends(Tokens(regex), 1, str, p) # {}
MatchesAll(regex, str) == Len(str) + 1 \in Ends(Tokens(regex), 1, str, 1)

\* The last character is a dollar sign that is no end of the string.
EndsInEscapedDollar(regex) ==
  regex # <<>> /\ Last(Tokens(regex)) = <<TRUE, "$">>
=============================================================================

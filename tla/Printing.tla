------------------------------ MODULE Printing ------------------------------
(***************************************************************************)
(* How values are shown (gtest-printers.cc, gtest.cc): strings as literals, *)
(* literals as the lines of a diff, code points as UTF-8.  Characters are   *)
(* one-character strings, of which NUL and SOH stand for unprintable ones   *)
(* and Lead and Trail for the bytes C3 and A9, which together are the UTF-8 *)
(* of a character that is not ASCII.                                        *)
(***************************************************************************)
LOCAL INSTANCE Integers
LOCAL INSTANCE Sequences
LOCAL INSTANCE SequencesExt

NUL == "U+0000"
SOH == "U+0001"
Lead == "0xC3"
Trail == "0xA9"
Quote == "\""
Escape == "\\"
Newline == "\n"

(***************************************************************************)
(* Literals.                                                                *)
(***************************************************************************)
IsXDigit(c) == c \in {"0", "1", "f"}
HexEscaped(c) == c \in {SOH, Lead, Trail}

\* PrintAsStringLiteralTo and, for what is no quote, PrintAsCharLiteralTo.
PrintAsStringLiteral(c) ==
  CASE c = Quote   -> <<Escape, Quote>>
    [] c = NUL     -> <<Escape, "0">>
    [] c = Escape  -> <<Escape, Escape>>
    [] c = Newline -> <<Escape, "n">>
    [] c = SOH     -> <<Escape, "x", "1">>
    [] c = Lead    -> <<Escape, "x", "C", "3">>
    [] c = Trail   -> <<Escape, "x", "A", "9">>
    [] OTHER       -> <<c>>

\* Fault: a digit behind an escape is printed like any other character.
NeverBroken(previous, c) == FALSE
Broken(previous, c) == HexEscaped(previous) /\ IsXDigit(c)

PrintCharsAsString(s) ==
  LET Step(acc, c) ==
        [out |-> acc.out \o (IF Broken(acc.previous, c) THEN <<Quote, " ", Quote>> ELSE <<>>)
                   \o PrintAsStringLiteral(c),
         previous |-> c]
  IN  <<Quote>> \o FoldLeft(Step, [out |-> <<>>, previous |-> "none"], s).out \o <<Quote>>

\* A char array is a literal without its terminating NUL, or says it has none.
UniversalPrintCharArray(s) ==
  IF s # <<>> /\ Last(s) = NUL THEN [text |-> PrintCharsAsString(Front(s)), terminated |-> TRUE]
  ELSE [text |-> PrintCharsAsString(s), terminated |-> FALSE]

\* The lines of a printed value, as EqFailure compares them.
SplitEscapedString(str) ==
  LET quoted == Len(str) > 2 /\ Head(str) = Quote /\ Last(str) = Quote
      start  == IF quoted THEN 2 ELSE 1
      end    == IF quoted THEN Len(str) ELSE Len(str) + 1
      Step(acc, i) ==
        IF ~acc.escaped THEN [acc EXCEPT !.escaped = str[i] = Escape]
        ELSE IF str[i] = "n"
        THEN [escaped |-> FALSE, start |-> i + 1,
              lines |-> Append(acc.lines, SubSeq(str, acc.start, i - 2))]
        ELSE [acc EXCEPT !.escaped = FALSE]
      last == FoldLeft(Step, [escaped |-> FALSE, start |-> start, lines |-> <<>>],
                       [k \in 1 .. end - start - 1 |-> start + k - 1])
  IN  Append(last.lines, SubSeq(str, last.start, end - 1))

(***************************************************************************)
(* What a C++ compiler reads: literals side by side are one.                *)
(***************************************************************************)
DigitsOf(text, base) ==   \* how many of the first characters are digits
  LET n == {k \in 0 .. Len(text) : \A j \in 1 .. k : text[j] \in base}
  IN  CHOOSE k \in n : \A j \in n : j <= k

HexValue(digits) ==
  CASE digits = <<"1">> -> SOH [] digits = <<"C", "3">> -> Lead [] digits = <<"A", "9">> -> Trail
    [] OTHER -> "?"

RECURSIVE Read(_, _)
Read(text, inside) ==
  LET rest == Tail(text)
      hex  == DigitsOf(Tail(rest), {"0", "1", "3", "9", "A", "C", "f"})
      oct  == DigitsOf(rest, {"0", "1"})
  IN  CASE text = <<>> -> <<>>
        [] text # <<>> /\ Head(text) = Quote -> Read(rest, ~inside)
        [] text # <<>> /\ Head(text) # Quote /\ ~inside -> Read(rest, inside)
        [] text # <<>> /\ inside /\ Head(text) = Escape ->
             CASE rest[1] = "x" -> <<HexValue(SubSeq(rest, 2, hex + 1))>>
                                     \o Read(SubSeq(rest, hex + 2, Len(rest)), inside)
               [] rest[1] \in {"0", "1"} -> <<IF SubSeq(rest, 1, oct) = <<"0">> THEN NUL ELSE "?">>
                                     \o Read(SubSeq(rest, oct + 1, Len(rest)), inside)
               [] OTHER -> <<IF rest[1] = "n" THEN Newline ELSE rest[1]>> \o Read(Tail(rest), inside)
        [] OTHER -> <<Head(text)>> \o Read(rest, inside)

\* A NUL is printed as \0, whatever comes next.
NulBeforeDigit(s) == \E k \in 1 .. Len(s) - 1 : s[k] = NUL /\ s[k + 1] \in {"0", "1"}

(***************************************************************************)
(* UTF-8.  Bytes and code points are numbers.                               *)
(***************************************************************************)
kMaxCodePoint1 == 127
kMaxCodePoint2 == 2047
kMaxCodePoint3 == 65535
kMaxCodePoint4 == 2097151

\* A C string, which for 0 is empty.  The comment on the code calls what is above
\* U+10FFFF invalid; only what needs more than four bytes is.
CodePointToUtf8(code_point) ==
  LET trail(shift) == 128 + ((code_point \div shift) % 64)
  IN  CASE code_point > kMaxCodePoint4 -> <<"(Invalid Unicode)">>
        [] code_point = 0 -> <<>>
        [] code_point \in 1 .. kMaxCodePoint1 -> <<code_point>>
        [] code_point \in kMaxCodePoint1 + 1 .. kMaxCodePoint2 ->
             <<192 + (code_point \div 64), trail(1)>>
        [] code_point \in kMaxCodePoint2 + 1 .. kMaxCodePoint3 ->
             <<224 + (code_point \div 4096), trail(64), trail(1)>>
        [] OTHER -> <<240 + (code_point \div 262144), trail(4096), trail(64), trail(1)>>

IsUtf16SurrogatePair(width, first, second) ==
  width = 2 /\ first \div 1024 = 54 /\ second \div 1024 = 55
CreateCodePointFromUtf16SurrogatePair(first, second) ==
  (first % 1024) * 1024 + (second % 1024) + 65536

\* width is sizeof(wchar_t); the string ends at its NUL.
RECURSIVE WideStringToUtf8(_, _)
WideStringToUtf8(width, str) ==
  IF str = <<>> \/ Head(str) = 0 THEN <<>>
  ELSE IF Len(str) > 1 /\ IsUtf16SurrogatePair(width, str[1], str[2])
  THEN CodePointToUtf8(CreateCodePointFromUtf16SurrogatePair(str[1], str[2]))
         \o WideStringToUtf8(width, SubSeq(str, 3, Len(str)))
  ELSE CodePointToUtf8(Head(str)) \o WideStringToUtf8(width, Tail(str))

IsUTF8TrailByte(t) == 128 <= t /\ t <= 191

\* Fault: a code point of three bytes may be in the range of the surrogates.
ThreeWithSurrogates(lead, s) == lead = 224 => s >= 160
Three(lead, s) == (lead = 224 => s >= 160) /\ (lead = 237 => s < 160)
Four(lead, s) == (lead = 240 => s >= 144) /\ (lead = 244 => s < 144)

RECURSIVE IsValidUTF8(_)
IsValidUTF8(s) ==
  LET trail(n) == Len(s) > n /\ \A k \in 2 .. n + 1 : IsUTF8TrailByte(s[k])
      after(n) == IsValidUTF8(SubSeq(s, n + 2, Len(s)))
  IN  CASE s = <<>> -> TRUE
        [] s # <<>> /\ s[1] <= 127 -> after(0)
        [] s # <<>> /\ s[1] \in 128 .. 193 -> FALSE
        [] s # <<>> /\ s[1] \in 194 .. 223 -> trail(1) /\ after(1)
        [] s # <<>> /\ s[1] \in 224 .. 239 -> trail(2) /\ Three(s[1], s[2]) /\ after(2)
        [] s # <<>> /\ s[1] \in 240 .. 244 -> trail(3) /\ Four(s[1], s[2]) /\ after(3)
        [] OTHER -> FALSE

(***************************************************************************)
(* UTF-8 by the definition of Unicode: scalar values, shortest form.        *)
(***************************************************************************)
\* The value that the bytes of one character carry, or -1.
Carried(s) ==
  LET low(k) == s[k] - 128
  IN  CASE \E k \in 2 .. Len(s) : ~IsUTF8TrailByte(s[k]) -> -1
        [] Len(s) = 1 /\ s[1] < 128 -> s[1]
        [] Len(s) = 2 /\ s[1] \in 192 .. 223 -> (s[1] - 192) * 64 + low(2)
        [] Len(s) = 3 /\ s[1] \in 224 .. 239 -> (s[1] - 224) * 4096 + low(2) * 64 + low(3)
        [] Len(s) = 4 /\ s[1] \in 240 .. 247 ->
             (s[1] - 240) * 262144 + low(2) * 4096 + low(3) * 64 + low(4)
        [] OTHER -> -1

Surrogates == 55296 .. 57343
IsCharacter(s) ==
  LET v == Carried(s)
  IN  /\ v \in 0 .. 1114111 /\ v \notin Surrogates
      /\ Len(s) = IF v < 128 THEN 1 ELSE IF v < 2048 THEN 2 ELSE IF v < 65536 THEN 3 ELSE 4

\* The values of the characters, when the bytes are characters, or <<-1>>.
RECURSIVE Values(_)
Values(s) ==
  IF s = <<>> THEN <<>>
  ELSE LET sizes == {n \in 1 .. Len(s) : IsCharacter(SubSeq(s, 1, n))}
           n     == CHOOSE k \in sizes : TRUE
       IN  IF sizes = {} THEN <<-1>>
           ELSE <<Carried(SubSeq(s, 1, n))>> \o Values(SubSeq(s, n + 1, Len(s)))
WellFormed(s) == -1 \notin ToSet(Values(s))

Utf16(values) ==
  FoldLeft(LAMBDA acc, v :
             acc \o (IF v < 65536 THEN <<v>>
                     ELSE <<55296 + ((v - 65536) \div 1024), 56320 + (v % 1024)>>), <<>>, values)
=============================================================================

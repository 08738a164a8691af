---------------------------- MODULE EditDistance ----------------------------
(***************************************************************************)
(* The diff of a failed EXPECT_EQ on texts of several lines (gtest.cc):     *)
(* CalculateOptimalEdits and CreateUnifiedDiff.  A line is any value.       *)
(***************************************************************************)
LOCAL INSTANCE Integers
LOCAL INSTANCE Sequences
LOCAL INSTANCE FiniteSets
LOCAL INSTANCE SequencesExt

Edits == {"Match", "Add", "Remove", "Replace"}

\* Costs are counted in units of 0.00001: 1 and 1.00001.
One == 100000
ReplaceCost == One + 1

\* costs and best_move for the prefixes of these lengths.
Cells(left, right) ==
  LET cell[l \in 0 .. Len(left), r \in 0 .. Len(right)] ==
        IF r = 0 THEN [cost |-> l * One, move |-> "Remove"]
        ELSE IF l = 0 THEN [cost |-> r * One, move |-> "Add"]
        ELSE IF left[l] = right[r] THEN [cost |-> cell[l - 1, r - 1].cost, move |-> "Match"]
        ELSE LET add     == cell[l, r - 1].cost
                 remove  == cell[l - 1, r].cost
                 replace == cell[l - 1, r - 1].cost
             IN  IF add < remove /\ add < replace THEN [cost |-> add + One, move |-> "Add"]
                 ELSE IF remove < add /\ remove < replace
                 THEN [cost |-> remove + One, move |-> "Remove"]
                 ELSE [cost |-> replace + ReplaceCost, move |-> "Replace"]
  IN  cell

CalculateOptimalEdits(left, right) ==
  LET cell == Cells(left, right)
      path[l \in 0 .. Len(left), r \in 0 .. Len(right)] ==
        IF l = 0 /\ r = 0 THEN <<>>
        ELSE LET move == cell[l, r].move
             IN  Append(path[IF move = "Add" THEN l ELSE l - 1,
                             IF move = "Remove" THEN r ELSE r - 1], move)
  IN  path[Len(left), Len(right)]

(***************************************************************************)
(* Hunks.  The removes and the adds between two common lines are grouped.   *)
(***************************************************************************)
\* Fault: the lines that wait are put behind the common one.
FlushLate(h, line) ==
  [h EXCEPT !.lines = Append(@, <<" ", line>>) \o h.hunk_removes \o h.hunk_adds]
FlushEdits(h, line) ==
  [h EXCEPT !.lines = Append(@ \o h.hunk_removes \o h.hunk_adds, <<" ", line>>)]

PushLine(h, edit, line) ==
  CASE edit = " " -> [FlushEdits(h, line) EXCEPT !.common = @ + 1,
                        !.hunk_removes = <<>>, !.hunk_adds = <<>>]
    [] edit = "-" -> [h EXCEPT !.removes = @ + 1, !.hunk_removes = Append(@, <<"-", line>>)]
    [] edit = "+" -> [h EXCEPT !.adds = @ + 1, !.hunk_adds = Append(@, <<"+", line>>)]

\* The hunk with the edits from .. to; l and r lines are behind it.
MakeHunk(left, right, edits, from, to, l, r, context) ==
  LET prefix == IF l < context THEN l ELSE context
      empty  == [left_start |-> l - prefix + 1, right_start |-> r - prefix + 1,
                 adds |-> 0, removes |-> 0, common |-> 0,
                 lines |-> <<>>, hunk_removes |-> <<>>, hunk_adds |-> <<>>]
      before == FoldLeft(LAMBDA h, line : PushLine(h, " ", line), empty, SubSeq(left, l - prefix + 1, l))
      Step(acc, edit) ==
        LET old == IF edit = "Match" THEN PushLine(acc.hunk, " ", left[acc.l + 1])
                   ELSE IF edit = "Add" THEN acc.hunk ELSE PushLine(acc.hunk, "-", left[acc.l + 1])
        IN  [hunk |-> IF edit \in {"Add", "Replace"} THEN PushLine(old, "+", right[acc.r + 1]) ELSE old,
             l |-> IF edit = "Add" THEN acc.l ELSE acc.l + 1,
             r |-> IF edit = "Remove" THEN acc.r ELSE acc.r + 1]
      last   == FoldLeft(Step, [hunk |-> before, l |-> l, r |-> r], SubSeq(edits, from, to))
  IN  [last EXCEPT !.hunk = [@ EXCEPT !.lines = @ \o last.hunk.hunk_removes \o last.hunk.hunk_adds]]

\* Edits at or behind i that are no matches.
Changes(edits, i) == {k \in i .. Len(edits) : edits[k] # "Match"}
Least(S) == CHOOSE k \in S : \A j \in S : k <= j

\* The hunk that begins with the change at i goes up to here: there are enough
\* common lines, and the next change is too far away.
HunkEnd(edits, i, context) ==
  LET suffix(k) == {j \in i .. k - 1 : \A m \in j .. k - 1 : edits[m] = "Match"}
      far(k)    == Changes(edits, k) = {} \/ Least(Changes(edits, k)) - k >= context
      stops     == {k \in i .. Len(edits) : Cardinality(suffix(k)) >= context /\ far(k)}
  IN  IF stops = {} THEN Len(edits) ELSE Least(stops) - 1

RECURSIVE HunksFrom(_, _, _, _, _, _, _)
HunksFrom(left, right, edits, i, l, r, context) ==
  IF Changes(edits, i) = {} THEN <<>>
  ELSE LET from == Least(Changes(edits, i))
           to   == HunkEnd(edits, from, context)
           made == MakeHunk(left, right, edits, from, to, l + from - i, r + from - i, context)
       IN  IF made.hunk.adds + made.hunk.removes = 0 THEN <<>>
           ELSE <<made.hunk>> \o HunksFrom(left, right, edits, to + 1, made.l, made.r, context)

CreateUnifiedDiff(left, right, context) ==
  HunksFrom(left, right, CalculateOptimalEdits(left, right), 1, 0, 0, context)

(***************************************************************************)
(* What a reader makes of a diff.                                           *)
(***************************************************************************)
\* The text on one side of a hunk, and the range that PrintHeader prints.
Side(h, sign) ==
  LET own == SelectSeq(h.lines, LAMBDA x : x[1] \in {" ", sign}) IN [k \in DOMAIN own |-> own[k][2]]
Lines(text, start, length) == SubSeq(text, start, start + length - 1)

\* Each header and the lines under it agree with both texts.
HunkTells(h, left, right) ==
  /\ h.removes > 0 => Side(h, "-") = Lines(left, h.left_start, h.removes + h.common)
  /\ h.adds > 0 => Side(h, "+") = Lines(right, h.right_start, h.adds + h.common)

\* What is in no hunk is common to both: with the hunks, left becomes right.
Patched(left, hunks) ==
  LET Step(acc, h) ==
        [at |-> h.left_start + Len(Side(h, "-")),
         text |-> acc.text \o SubSeq(left, acc.at, h.left_start - 1) \o Side(h, "+")]
      end == FoldLeft(Step, [at |-> 1, text |-> <<>>], hunks)
  IN  end.text \o SubSeq(left, end.at, Len(left))

\* The least number of lines to add, remove or replace.
Distance(left, right) ==
  LET d[l \in 0 .. Len(left), r \in 0 .. Len(right)] ==
        IF l = 0 \/ r = 0 THEN l + r
        ELSE Least({d[l - 1, r] + 1, d[l, r - 1] + 1,
                    d[l - 1, r - 1] + (IF left[l] = right[r] THEN 0 ELSE 1)})
  IN  d[Len(left), Len(right)]
=============================================================================

------------------------------- MODULE LineDiff -------------------------------
(***************************************************************************)
(* The unified diff of tools/admin-ui: lcsDiff's edit script and the hunks *)
(* unifiedDiff cuts out of it.  A line is a value; the text between @@ and *)
(* the end of a hunk is its sequence of operations.                        *)
(***************************************************************************)
EXTENDS Naturals, Sequences, SequencesExt, FiniteSetsExt

CONSTANT Ctx     \* lines of context around a change (3 in the code)

Keep(l)   == [op |-> "=", line |-> l]
Delete(l) == [op |-> "-", line |-> l]
Insert(l) == [op |-> "+", line |-> l]

\* dp: the table of LCS lengths of the suffixes a[i..] and b[j..].
LcsTable(a, b) ==
  LET dp[i \in 1..Len(a)+1, j \in 1..Len(b)+1] ==
        CASE i > Len(a) \/ j > Len(b) -> 0
          [] i <= Len(a) /\ j <= Len(b) /\ a[i] = b[j] -> dp[i+1, j+1] + 1
          [] OTHER -> Max({dp[i+1, j], dp[i, j+1]})
  IN dp

\* The walk through the table: equal lines are kept, a tie deletes first.
LcsDiff(a, b) ==
  LET dp == LcsTable(a, b)
      ops[i \in 1..Len(a)+1, j \in 1..Len(b)+1] ==
        CASE i > Len(a) /\ j > Len(b) -> <<>>
          [] i <= Len(a) /\ j > Len(b) -> <<Delete(a[i])>> \o ops[i+1, j]
          [] i > Len(a) /\ j <= Len(b) -> <<Insert(b[j])>> \o ops[i, j+1]
          [] OTHER ->
               IF a[i] = b[j] THEN <<Keep(a[i])>> \o ops[i+1, j+1]
               ELSE IF dp[i+1, j] >= dp[i, j+1] THEN <<Delete(a[i])>> \o ops[i+1, j]
               ELSE <<Insert(b[j])>> \o ops[i, j+1]
  IN ops[1, 1]

CountOps(ops, kinds) == Len(SelectSeq(ops, LAMBDA o : o.op \in kinds))

\* Mutant: the window after a change is one line short.
KeptShort(ops) ==
  {k \in DOMAIN ops : \E i \in DOMAIN ops : ops[i].op # "=" /\ k >= i - Ctx /\ k < i + Ctx}

\* The operations within Ctx of a change.
Kept(ops) ==
  {k \in DOMAIN ops : \E i \in DOMAIN ops : ops[i].op # "=" /\ k + Ctx >= i /\ k <= i + Ctx}

\* Mutant: the second file's start does not count the lines before the hunk
\* that were inserted.
HunkUnshifted(ops, lo, hi) ==
  LET before == SubSeq(ops, 1, lo - 1)
      body == SubSeq(ops, lo, hi)
  IN [aStart |-> 1 + CountOps(before, {"=", "-"}), aLen |-> CountOps(body, {"=", "-"}),
      bStart |-> 1 + CountOps(before, {"=", "-"}), bLen |-> CountOps(body, {"=", "+"}),
      body |-> body]

\* writeHunk: start lines and lengths on both sides, and the operations lo..hi.
Hunk(ops, lo, hi) ==
  LET before == SubSeq(ops, 1, lo - 1)
      body == SubSeq(ops, lo, hi)
  IN [aStart |-> 1 + CountOps(before, {"=", "-"}), aLen |-> CountOps(body, {"=", "-"}),
      bStart |-> 1 + CountOps(before, {"=", "+"}), bLen |-> CountOps(body, {"=", "+"}),
      body |-> body]

\* unifiedDiff: one hunk for every maximal run of kept operations, in order.
UnifiedDiff(a, b) ==
  LET ops == LcsDiff(a, b)
      kept == Kept(ops)
      runs == {r \in kept \X kept : /\ r[1] <= r[2] /\ r[1]..r[2] \subseteq kept
                                    /\ r[1] - 1 \notin kept /\ r[2] + 1 \notin kept}
      ordered == SetToSortSeq(runs, LAMBDA r, s : r[1] < s[1])
  IN [n \in DOMAIN ordered |-> Hunk(ops, ordered[n][1], ordered[n][2])]

-----------------------------------------------------------------------------
(* Reference: what a reader of a unified diff does with it. *)

Lines(ops, kinds) == [k \in 1..CountOps(ops, kinds) |->
                        SelectSeq(ops, LAMBDA o : o.op \in kinds)[k].line]
OldSide(h) == Lines(h.body, {"=", "-"})
NewSide(h) == Lines(h.body, {"=", "+"})

\* The first line a range covers: an empty range of a unified diff names the line
\* before it, 0 at the top of the file.
FirstOf(start, len) == IF len = 0 THEN start + 1 ELSE start

\* Replace, from the last hunk to the first, the lines of its old range.
Patch(a, hunks) ==
  FoldRight(LAMBDA h, s : LET first == FirstOf(h.aStart, h.aLen)
                          IN SubSeq(s, 1, first - 1) \o NewSide(h)
                               \o SubSeq(s, first + h.aLen, Len(s)),
            hunks, a)

\* The header that names an empty range of this hunk in GNU's way.
AsGnu(h) == [h EXCEPT !.aStart = IF h.aLen = 0 THEN @ - 1 ELSE @,
                      !.bStart = IF h.bLen = 0 THEN @ - 1 ELSE @]

\* The length of a longest common subsequence, by definition.
CommonLengths(a, b) ==
  LET Picks(s) == {[k \in 1..Cardinality(d) |-> s[SetToSortSeq(d, <)[k]]] :
                     d \in SUBSET DOMAIN s}
  IN {Len(c) : c \in Picks(a) \cap Picks(b)}

\* The diff an operator reviews before publishing is true: its hunks describe
\* the lines they claim to, and applied to the last published bundle they give
\* the current one.  writeHunk's headers are GNU's except where a whole file is
\* empty: it writes -1,0 (or +1,0) there, and GNU's header is -0,0.
Patches(a, b) ==
  LET hunks == UnifiedDiff(a, b)
      gnu == [n \in DOMAIN hunks |-> AsGnu(hunks[n])]
  IN /\ Patch(a, gnu) = b
     /\ gnu # hunks <=> (a = <<>>) # (b = <<>>)
     /\ \A n \in DOMAIN gnu :
          LET h == gnu[n]
              old == FirstOf(h.aStart, h.aLen)
              new == FirstOf(h.bStart, h.bLen)
          IN /\ old + h.aLen <= Len(a) + 1 /\ new + h.bLen <= Len(b) + 1
             /\ OldSide(h) = SubSeq(a, old, old + h.aLen - 1)
             /\ NewSide(h) = SubSeq(b, new, new + h.bLen - 1)

Changes(body) == {k \in DOMAIN body : body[k].op # "="}

\* It is also as small as it can be and still readable: the kept lines are a
\* longest common subsequence, and every hunk shows Ctx lines before its first
\* and after its last change, fewer only where the file ends.
Minimal(a, b) ==
  LET hunks == UnifiedDiff(a, b)
  IN /\ CountOps(LcsDiff(a, b), {"="}) = Max(CommonLengths(a, b))
     /\ \A n \in DOMAIN hunks :
          LET h == hunks[n]
              lead == Min(Changes(h.body)) - 1
              trail == Len(h.body) - Max(Changes(h.body))
          IN /\ lead = Ctx \/ (lead < Ctx /\ h.aStart = 1 /\ h.bStart = 1)
             /\ trail = Ctx \/ (trail < Ctx /\ h.aStart + h.aLen = Len(a) + 1)
=============================================================================

------------------------------ MODULE AuditQuery ------------------------------
(***************************************************************************)
(* GET /admin/audit/range: auditRange opens the file at Writer.Path and    *)
(* scans it line by line, without Writer.mu, while Log appends to it and   *)
(* rotations move it away.                                                 *)
(*                                                                         *)
(* A record ends its line; a fragment of a failed write does not, so the   *)
(* record a reopened writer appends next shares the fragment's line, which *)
(* no longer parses.  A line is the sequence of what it holds.  A request  *)
(* leaves nothing behind, so one, at any moment, stands for all.           *)
(***************************************************************************)
EXTENDS AuditFile, FiniteSetsExt

CONSTANTS
  MaxAuditRangeLines,   \* maxAuditRangeLines
  LineCounts,           \* values of ?lines
  Windows               \* <<since, until>>, 0 for an absent parameter

ASSUME QueryAssumption ==
  /\ MaxAuditRangeLines \in Nat \ {0} /\ LineCounts \subseteq Nat \ {0}
  /\ Windows \subseteq Nat \X Nat

VARIABLE scan   \* the one request, and its answer
queryVars == <<vars, scan>>

\* Where bufio.Scanner's next line may end: after the next whole record.
Complete(s, pos) == {i \in pos + 1 .. Len(s) : s[i] # Torn}
Intact(line) == Len(line) = 1 /\ line[1] # Torn

NoScan == [st |-> "none", since |-> 0, until |-> 0, ino |-> 0, pos |-> 0, had |-> 0,
           linesN |-> 0, ring |-> <<>>, head |-> 0, count |-> 0, out |-> <<>>]

\* os.Open; a missing file is an empty answer.
OpenLog(q) ==
  scan' = IF path = 0 THEN [q EXCEPT !.st = "done"]
          ELSE [q EXCEPT !.ino = path, !.had = Len(data[path])]

AuditRangeLines(n) ==
  /\ scan.st = "none"
  /\ LET linesN == Min({n, MaxAuditRangeLines}) IN
       OpenLog([NoScan EXCEPT !.st = "lines", !.linesN = linesN,
                              !.ring = [i \in 0 .. linesN - 1 |-> <<>>]])
  /\ UNCHANGED vars

AuditRangeTime(w) ==
  /\ scan.st = "none"
  /\ OpenLog([NoScan EXCEPT !.st = "time", !.since = w[1], !.until = w[2]])
  /\ UNCHANGED vars

-----------------------------------------------------------------------------
\* One line into the ring.
Keep(q, line) ==
  [q EXCEPT !.ring[q.head] = line, !.head = (q.head + 1) % q.linesN,
            !.count = Min({q.count + 1, q.linesN})]

\* Mutant: the scan of the ring starts where the next line would go.
EmitFromHead(q) == [i \in 1 .. q.count |-> q.ring[(q.head + i - 1) % q.linesN]]

\* The ring, oldest line first.
Emit(q) ==
  LET start == (q.head - q.count + q.linesN) % q.linesN
  IN  [i \in 1 .. q.count |-> q.ring[(start + i - 1) % q.linesN]]

\* Record r was stamped at r; the window is open on the left.
InWindow(q, r) == (q.since # 0 => r > q.since) /\ (q.until # 0 => r <= q.until)

\* Mutant: a line that does not parse ends the scan.
FilterStops(q, line) ==
  IF ~ Intact(line) THEN [q EXCEPT !.st = "done"]
  ELSE IF InWindow(q, line[1]) THEN [q EXCEPT !.out = Append(q.out, line)] ELSE q

\* A line that does not parse is skipped, and so is one outside the window.
Filter(q, line) ==
  IF Intact(line) /\ InWindow(q, line[1]) THEN [q EXCEPT !.out = Append(q.out, line)] ELSE q

\* The cap is looked at after a line has been read.
Take(q, line) ==
  IF q.st = "lines" THEN Keep(q, line)
  ELSE IF Len(q.out) >= MaxAuditRangeLines THEN [q EXCEPT !.st = "done"]
  ELSE Filter(q, line)

\* sc.Scan returns a whole line.
ScanLine ==
  /\ scan.st \in {"lines", "time"}
  /\ LET s == data[scan.ino]  ends == Complete(s, scan.pos)
     IN  /\ ends # {}
         /\ scan' = Take([scan EXCEPT !.pos = Min(ends)], SubSeq(s, scan.pos + 1, Min(ends)))
  /\ UNCHANGED vars

\* The answer of a scan that has reached the end.
Answer(q) == [q EXCEPT !.st = "done", !.out = IF q.st = "lines" THEN Emit(q) ELSE q.out,
                       !.ring = <<>>, !.head = 0, !.count = 0]

\* sc.Scan meets the end of the file: a fragment left there is its last line.
\* What is appended later is not read.
ScanEnd ==
  /\ scan.st \in {"lines", "time"}
  /\ LET s == data[scan.ino]  rest == SubSeq(s, scan.pos + 1, Len(s))
     IN  /\ Complete(s, scan.pos) = {}
         /\ scan' = Answer(IF rest = <<>> THEN scan ELSE Take([scan EXCEPT !.pos = Len(s)], rest))
  /\ UNCHANGED vars

-----------------------------------------------------------------------------
QueryInit == Init /\ scan = NoScan

QueryNext ==
  \/ Next /\ UNCHANGED scan
  \/ \E n \in LineCounts : AuditRangeLines(n)
  \/ \E w \in Windows : AuditRangeTime(w)
  \/ ScanLine \/ ScanEnd

QuerySpec == QueryInit /\ [][QueryNext]_queryVars /\ WF_vars(Reopen /\ UNCHANGED scan)

-----------------------------------------------------------------------------
(* Properties *)

\* A line ends at a record; what has been read of a file, its first n entries,
\* ends a line too.
Ends(s, n) == {i \in 1 .. n : s[i] # Torn \/ i = n}

\* cut splits the last entries of these n into m whole lines.
LastLines(s, n, cut, m) ==
  /\ cut[0] \in Ends(s, n) \cup {0} /\ cut[m] = n
  /\ \A i \in 1 .. m : cut[i - 1] < cut[i] /\ cut[i] \in Ends(s, n)
  /\ \A e \in Ends(s, n) : e > cut[0] => \E i \in 1 .. m : cut[i] = e

\* ?lines=N answers with the newest lines of the file: the last N (or the cap)
\* of the lines it holds at some moment after the request opened it, in their
\* order, whatever was appended or rotated away during the scan.
TailIsNewest ==
  (scan.st = "done" /\ scan.linesN # 0 /\ scan.ino # 0) =>
    LET s == data[scan.ino]  m == Len(scan.out)
    IN  /\ scan.pos >= scan.had /\ m <= scan.linesN
        /\ \E cut \in [0 .. m -> 0 .. scan.pos] :
             /\ LastLines(s, scan.pos, cut, m) /\ (m < scan.linesN => cut[0] = 0)
             /\ scan.out = [i \in 1 .. m |-> SubSeq(s, cut[i - 1] + 1, cut[i])]

\* The records of the window that are alone on their lines.
Found(q, s) ==
  {i \in 1 .. q.pos : s[i] # Torn /\ (i = 1 \/ s[i - 1] # Torn) /\ InWindow(q, s[i])}

\* ?since&until answers with every record of the window the file holds, in
\* order and once, up to the cap: a fragment hides the one record that shares
\* its line and stops nothing behind it.
RangeIsComplete ==
  (scan.st = "done" /\ scan.linesN = 0 /\ scan.ino # 0) =>
    LET s == data[scan.ino]  m == Len(scan.out)  full == m = MaxAuditRangeLines
    IN  /\ m <= MaxAuditRangeLines /\ (scan.pos >= scan.had \/ full)
        /\ \E at \in [1 .. m -> 1 .. scan.pos] :
             /\ \A i \in 1 .. m : at[i] \in Found(scan, s) /\ scan.out[i] = <<s[at[i]]>>
             /\ \A i, j \in 1 .. m : i < j => at[i] < at[j]
             /\ \A e \in Found(scan, s) :
                  (\E i \in 1 .. m : at[i] = e) \/ (full /\ \A i \in 1 .. m : at[i] < e)

\* auditRange answers truly in both of its modes, with no lock on the file.
RangeAnswers == TailIsNewest /\ RangeIsComplete
=============================================================================

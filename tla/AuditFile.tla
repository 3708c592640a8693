------------------------------ MODULE AuditFile ------------------------------
(***************************************************************************)
(* The file side of audit.Writer: the open handle and its json.Encoder,    *)
(* Log's write, Rotate (POST /admin/log/rotate), Reopen (SIGHUP) and Close,*)
(* with an external logrotate in `create` mode.  Every operation holds     *)
(* Writer.mu, so each is one action.                                       *)
(*                                                                         *)
(* A file is an inode number into data; a record is its number in the      *)
(* order of successful Log calls, Torn the fragment of a failed write.     *)
(***************************************************************************)
EXTENDS Integers, Sequences

CONSTANTS
  MaxLogs, MaxFiles, MaxSeconds, MaxFaults   \* bounds

ASSUME FileAssumption == {MaxLogs, MaxFiles, MaxSeconds, MaxFaults} \subseteq Nat

VARIABLES
  data,     \* data[n]: what inode n holds
  path,     \* the inode at Writer.path, 0 if there is no file
  arch,     \* rotated files, oldest first: name and inode, 0 once replaced
  fd,       \* Writer.f and Writer.enc
  acked,    \* how many calls to Log have returned nil
  sec,      \* the clock in seconds, the resolution of an archive's name
  reused,   \* history: two rotations fell into the same second
  faults

vars == <<data, path, arch, fd, acked, sec, reused, faults>>

Torn == 0

\* A handle on inode n.  ok turns FALSE when a write fails: json.Encoder keeps
\* the error and returns it ever after.  open is FALSE for a closed os.File.
Handle(n) == [ino |-> n, open |-> TRUE, ok |-> TRUE]
NilHandle == [ino |-> 0, open |-> FALSE, ok |-> FALSE]

Usable == fd.open /\ fd.ok

\* The type invariant.
TypeOK ==
  /\ data \in Seq(Seq(0..MaxLogs)) /\ path \in 0..Len(data)
  /\ arch \in Seq([name : 0..MaxSeconds, ino : 0..Len(data)])
  /\ fd \in [ino : 0..Len(data), open : BOOLEAN, ok : BOOLEAN]
  /\ acked \in 0..MaxLogs /\ sec \in 1..MaxSeconds /\ reused \in BOOLEAN /\ faults \in 0..MaxFaults

Spend(n) == faults + n <= MaxFaults /\ faults' = faults + n

-----------------------------------------------------------------------------
(* openFile: O_APPEND|O_CREATE on the file at inode p, 0 if there is none *)

OpenOK(p) ==
  \/ p # 0 /\ path' = p /\ fd' = Handle(p) /\ UNCHANGED data
  \/ /\ p = 0
     /\ data' = Append(data, <<>>) /\ path' = Len(data) + 1 /\ fd' = Handle(Len(data) + 1)

\* It fails: the file system is unchanged and the handle is h.
OpenErr(p, h) == path' = p /\ fd' = h /\ UNCHANGED data

-----------------------------------------------------------------------------
(* Log.  On a nil, closed or failed handle it returns an error at once. *)

LogOK ==
  /\ Usable /\ acked < MaxLogs
  /\ data' = [data EXCEPT ![fd.ino] = Append(data[fd.ino], acked + 1)]
  /\ acked' = acked + 1
  /\ UNCHANGED <<path, arch, fd, sec, faults, reused>>

\* The write fails, possibly after part of the line.
LogErr ==
  /\ Usable /\ Spend(1) /\ fd' = [fd EXCEPT !.ok = FALSE]
  /\ \/ data' = [data EXCEPT ![fd.ino] = Append(data[fd.ino], Torn)]
     \/ UNCHANGED data
  /\ UNCHANGED <<path, arch, acked, sec, reused>>

-----------------------------------------------------------------------------
(* Rotate *)

\* Mutant: the rename is left out, the fresh file truncates the old one.
ArchivedNone(a, name, n) == a

\* os.Rename(path, path.<second>) replaces an archive of the same name.
Archived(a, name, n) ==
  Append([i \in 1..Len(a) |-> [a[i] EXCEPT !.ino = IF name # 0 /\ a[i].name = name THEN 0 ELSE @]],
         [name |-> name, ino |-> n])

\* Close fails (always, on a handle already closed): best-effort reopen; if
\* that fails too the closed handle stays in place.
RotateCloseErr ==
  /\ fd.ino # 0
  /\ LET own == IF fd.open THEN 1 ELSE 0 IN
       \/ OpenOK(path) /\ Spend(own)
       \/ OpenErr(path, [fd EXCEPT !.open = FALSE]) /\ Spend(own + 1)
  /\ UNCHANGED <<arch, acked, sec, reused>>

\* The rename fails, always when there is no file: the original is reopened.
RotateRenameErr ==
  /\ fd.ino # 0 /\ fd.open
  /\ LET own == IF path = 0 THEN 0 ELSE 1 IN
       \/ OpenOK(path) /\ Spend(own)
       \/ OpenErr(path, NilHandle) /\ Spend(own + 1)
  /\ UNCHANGED <<arch, acked, sec, reused>>

\* The usual case; only the reopen may fail.
RotateOK ==
  /\ fd.ino # 0 /\ fd.open /\ path # 0 /\ Len(data) < MaxFiles
  /\ reused' = (reused \/ \E i \in 1..Len(arch) : arch[i].name = sec)
  /\ arch' = Archived(arch, sec, path)
  /\ \/ OpenOK(0) /\ Spend(0)
     \/ OpenErr(0, NilHandle) /\ Spend(1)
  /\ UNCHANGED <<acked, sec>>

-----------------------------------------------------------------------------
(* Reopen, Close, and the world outside *)

\* Mutant: Reopen keeps the encoder, and with it the error.
ReopenKeepsEncoder ==
  /\ \/ /\ path # 0 /\ fd' = [ino |-> path, open |-> TRUE, ok |-> fd.ok]
        /\ UNCHANGED <<data, path>>
     \/ path = 0 /\ OpenOK(0)
  /\ UNCHANGED <<arch, acked, sec, faults, reused>>

Reopen ==
  /\ \/ OpenOK(path) /\ Spend(0)
     \/ OpenErr(path, NilHandle) /\ Spend(1)
  /\ UNCHANGED <<arch, acked, sec, reused>>

\* serve returns and its deferred Close runs; the next start is Open.
Close ==
  /\ fd.ino # 0 /\ fd' = NilHandle
  /\ UNCHANGED <<data, path, arch, acked, sec, faults, reused>>

\* logrotate, create mode: archive under a name of its own, then an empty file.
\* The writer's handle still points at the archived inode until SIGHUP.
Logrotate ==
  /\ path # 0 /\ Len(data) < MaxFiles
  /\ arch' = Archived(arch, 0, path)
  /\ data' = Append(data, <<>>) /\ path' = Len(data) + 1
  /\ UNCHANGED <<fd, acked, sec, faults, reused>>

Second ==
  /\ sec < MaxSeconds /\ sec' = sec + 1
  /\ UNCHANGED <<data, path, arch, fd, acked, faults, reused>>

-----------------------------------------------------------------------------
Init ==
  /\ data = << <<>> >> /\ path = 1 /\ arch = <<>> /\ fd = Handle(1)
  /\ acked = 0 /\ sec = 1 /\ reused = FALSE /\ faults = 0

Next ==
  \/ LogOK \/ LogErr
  \/ RotateCloseErr \/ RotateRenameErr \/ RotateOK
  \/ Reopen \/ Close \/ Logrotate \/ Second

Spec == Init /\ [][Next]_vars

\* logrotate's postrotate reloads the service every period, and systemd starts
\* it again: SIGHUP or Open keeps coming.
FairSpec == Spec /\ WF_vars(Reopen)

-----------------------------------------------------------------------------
(* Properties *)

\* The files an operator can read, oldest first (0 where there is none), and
\* the places of their records in reading order.
Linked == Append([i \in 1..Len(arch) |-> arch[i].ino], path)
Content(i) == IF Linked[i] = 0 THEN <<>> ELSE data[Linked[i]]
Places == UNION {{i} \X (1..Len(Content(i))) : i \in 1..Len(Linked)}
Read(p) == Content(p[1])[p[2]]
Before(p, q) == p[1] < q[1] \/ (p[1] = q[1] /\ p[2] < q[2])

\* "One record per call to Log": read in the order of rotation, the files hold
\* every acknowledged record exactly once and in order, through logrotate,
\* admin rotations, failed closes, renames, opens and writes, as long as no two
\* admin rotations share a second (the second would replace the first's archive).
DiskIsTheLog ==
  ~ reused =>
    /\ 1..acked \subseteq {Read(p) : p \in Places}
    /\ \A p \in Places : Read(p) \in 1..acked \cup {Torn}
    /\ \A p, q \in Places : (Before(p, q) /\ Torn \notin {Read(p), Read(q)}) => Read(p) < Read(q)

\* A writer killed by a failed write or open works again after a later SIGHUP.
WriterHeals == []<>Usable
=============================================================================

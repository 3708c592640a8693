--------------------------- MODULE AuditFileProofs ---------------------------
(***************************************************************************)
(* Every acknowledged audit record is on disk once and in order, and       *)
(* auditRange answers with what the file holds, for every number of        *)
(* records, files, rotations, failures and every cap on the answer.        *)
(***************************************************************************)
EXTENDS AuditQuery, WellFoundedInduction, TLAPS

Entry == [name : Nat, ino : Nat]

FileType ==
  /\ data \in Seq(Seq(Nat)) /\ Len(data) \in Nat /\ acked \in Nat /\ sec \in Nat \ {0}
  /\ arch \in Seq(Entry)
  /\ fd \in [ino : Nat, open : BOOLEAN, ok : BOOLEAN] /\ fd.ino <= Len(data)
  /\ fd.open => fd.ino # 0
  /\ reused \in BOOLEAN

\* The file at the path is always the newest.
PathIsNewest == path \in {0, Len(data)}

\* While no archive has been replaced, reading the files in the order of their
\* rotation is reading them in the order of their creation.
ArchivesInOrder ==
  ~ reused => /\ Len(arch) = IF path = 0 THEN Len(data) ELSE Len(data) - 1
              /\ \A i \in 1..Len(arch) : arch[i].ino = i

\* A handle left behind by logrotate is still the last to have been written.
HandleIsLast ==
  fd.ino # 0 => \A n \in 1..Len(data) : n > fd.ino => Len(data[n]) = 0

\* The records of all files ever created, in the order of creation.
Earlier(m, i, n, j) == m < n \/ (m = n /\ i < j)
Holds(d, n, j) == n \in 1..Len(d) /\ j \in 1..Len(d[n])
NoStranger == \A n, j \in Nat : Holds(data, n, j) => data[n][j] \in 0..acked
NoLoss == \A r \in 1..acked : \E n, j \in Nat : Holds(data, n, j) /\ data[n][j] = r
InSequence ==
  \A m, i, n, j \in Nat :
    (/\ Holds(data, m, i) /\ Holds(data, n, j) /\ Earlier(m, i, n, j)
     /\ data[m][i] # Torn /\ data[n][j] # Torn) => data[m][i] < data[n][j]

FileInv ==
  /\ FileType /\ PathIsNewest /\ ArchivesInOrder /\ HandleIsLast
  /\ NoStranger /\ NoLoss /\ InSequence

-----------------------------------------------------------------------------
(* How the steps change the files *)

\* A line, or a fragment of one, is appended to file f.
LEMMA LineAppended ==
  ASSUME data \in Seq(Seq(Nat)), NEW f \in 1..Len(data), NEW x \in Nat,
         data' = [data EXCEPT ![f] = Append(data[f], x)]
  PROVE  /\ data' \in Seq(Seq(Nat)) /\ Len(data') = Len(data)
         /\ \A n \in 1..Len(data) \ {f} : data'[n] = data[n]
         /\ Len(data[f]) \in Nat /\ Len(data'[f]) = Len(data[f]) + 1
         /\ \A j \in 1..Len(data[f]) : data'[f][j] = data[f][j]
         /\ data'[f][Len(data[f]) + 1] = x
<1>1. data[f] \in Seq(Nat) /\ Len(data) \in Nat
  OBVIOUS
<1>2. /\ Append(data[f], x) \in Seq(Nat) /\ Len(data[f]) \in Nat
      /\ Len(Append(data[f], x)) = Len(data[f]) + 1
      /\ \A j \in 1..Len(data[f]) : Append(data[f], x)[j] = data[f][j]
      /\ Append(data[f], x)[Len(data[f]) + 1] = x
  BY <1>1
<1>3. data' \in Seq(Seq(Nat)) /\ Len(data') = Len(data)
  BY <1>1, <1>2
<1>4. data'[f] = Append(data[f], x) /\ \A n \in 1..Len(data) \ {f} : data'[n] = data[n]
  BY <1>1
<1> QED
  BY <1>2, <1>3, <1>4

\* An empty file is created.
LEMMA FileCreated ==
  ASSUME data \in Seq(Seq(Nat)), data' = Append(data, <<>>)
  PROVE  /\ data' \in Seq(Seq(Nat)) /\ Len(data) \in Nat /\ Len(data') = Len(data) + 1
         /\ \A n \in 1..Len(data) : data'[n] = data[n]
         /\ Len(data'[Len(data) + 1]) = 0
<1>1. <<>> \in Seq(Nat) /\ Len(<<>>) = 0
  OBVIOUS
<1>2. data'[Len(data) + 1] = <<>>
  OBVIOUS
<1> QED
  BY <1>1, <1>2

\* Under a name of its own an archive replaces none.
LEMMA ArchiveAdded ==
  ASSUME arch \in Seq(Entry), NEW s \in Nat, NEW n \in Nat,
         arch' = Archived(arch, s, n)
  PROVE  /\ arch' \in Seq(Entry) /\ Len(arch) \in Nat
         /\ Len(arch') = Len(arch) + 1 /\ arch'[Len(arch) + 1].ino = n
         /\ (s = 0 \/ \A i \in 1..Len(arch) : arch[i].name # s) =>
              \A i \in 1..Len(arch) : arch'[i].ino = arch[i].ino
<1> DEFINE old == [i \in 1..Len(arch) |->
                     [arch[i] EXCEPT !.ino = IF s # 0 /\ arch[i].name = s THEN 0 ELSE @]]
<1>1. \A i \in 1..Len(arch) : arch[i] \in Entry
  OBVIOUS
<1>2. \A i \in 1..Len(arch) : old[i] \in Entry
  BY <1>1 DEF Entry
<1>3. old \in Seq(Entry) /\ Len(old) = Len(arch) /\ Len(arch) \in Nat
  <2>1. old = [i \in 1..Len(arch) |-> old[i]] /\ Len(arch) \in Nat
    OBVIOUS
  <2> HIDE DEF old
  <2> QED
    BY <1>2, <2>1
<1>4. (s = 0 \/ \A i \in 1..Len(arch) : arch[i].name # s) =>
        \A i \in 1..Len(arch) : old[i].ino = arch[i].ino
  BY <1>1 DEF Entry
<1>5. arch' = Append(old, [name |-> s, ino |-> n])
  BY DEF Archived
<1> HIDE DEF old
<1>6. [name |-> s, ino |-> n] \in Entry /\ [name |-> s, ino |-> n].ino = n
  BY DEF Entry
<1>7. /\ arch' \in Seq(Entry) /\ Len(arch') = Len(arch) + 1
      /\ arch'[Len(arch) + 1] = [name |-> s, ino |-> n]
      /\ \A i \in 1..Len(arch) : arch'[i] = old[i]
  BY <1>3, <1>5, <1>6
<1> QED
  BY <1>3, <1>4, <1>6, <1>7

-----------------------------------------------------------------------------
(* The records through each kind of step *)

Records == NoStranger /\ NoLoss /\ InSequence

LEMMA RecordsKept ==
  ASSUME FileInv, UNCHANGED acked, UNCHANGED data \/ data' = Append(data, <<>>)
  PROVE  Records'
<1>1. FileType /\ Records
  BY DEF FileInv, Records
<1>2. CASE UNCHANGED data
  BY <1>1, <1>2 DEF Records, NoStranger, NoLoss, InSequence, Holds
<1>3. CASE data' = Append(data, <<>>)
  <2>1. /\ Len(data) \in Nat /\ Len(data') = Len(data) + 1
        /\ \A n \in 1..Len(data) : data'[n] = data[n]
        /\ Len(data'[Len(data) + 1]) = 0
    BY <1>1, <1>3, FileCreated DEF FileType
  <2>2. \A n, j \in Nat : Holds(data', n, j) <=> Holds(data, n, j)
    BY <2>1 DEF Holds
  <2>3. \A n, j \in Nat : Holds(data, n, j) => data'[n][j] = data[n][j]
    BY <2>1 DEF Holds
  <2>4. NoStranger'
    BY <1>1, <2>2, <2>3 DEF Records, NoStranger
  <2>5. NoLoss'
    BY <1>1, <2>2, <2>3 DEF Records, NoLoss
  <2>6. InSequence'
    BY <1>1, <2>2, <2>3 DEF Records, InSequence
  <2> QED
    BY <2>4, <2>5, <2>6 DEF Records
<1> QED
  BY <1>2, <1>3

Writes(x) == data' = [data EXCEPT ![fd.ino] = Append(data[fd.ino], x)]

\* What is written through the handle comes behind everything on disk.
LEMMA WriteIsLast ==
  ASSUME FileInv, fd.open, NEW x \in Nat,
         Writes(x)
  PROVE  /\ data' \in Seq(Seq(Nat)) /\ Len(data') = Len(data)
         /\ \A n \in 1..Len(data) : n > fd.ino => Len(data'[n]) = 0
         /\ \E f, end \in Nat :
              /\ \A n, j \in Nat : Holds(data, n, j) =>
                   Holds(data', n, j) /\ data'[n][j] = data[n][j] /\ Earlier(n, j, f, end)
              /\ \A n, j \in Nat : Holds(data', n, j) => Holds(data, n, j) \/ (n = f /\ j = end)
              /\ Holds(data', f, end) /\ data'[f][end] = x
<1>1. FileType /\ HandleIsLast
  BY DEF FileInv
<1>2. fd.ino \in 1..Len(data) /\ Len(data) \in Nat
  BY <1>1 DEF FileType
<1>3. PICK f \in Nat : f = fd.ino
  BY <1>2
<1>4. /\ data' \in Seq(Seq(Nat)) /\ Len(data') = Len(data)
      /\ \A n \in 1..Len(data) \ {f} : data'[n] = data[n]
      /\ Len(data[f]) \in Nat /\ Len(data'[f]) = Len(data[f]) + 1
      /\ \A j \in 1..Len(data[f]) : data'[f][j] = data[f][j]
      /\ data'[f][Len(data[f]) + 1] = x
  BY <1>1, <1>2, <1>3, LineAppended DEF FileType, Writes
<1>b. /\ Len(data') = Len(data) /\ Len(data[f]) \in Nat /\ Len(data'[f]) = Len(data[f]) + 1
      /\ \A n \in 1..Len(data) : n # f => data'[n] = data[n]
      /\ \A j \in 1..Len(data[f]) : data'[f][j] = data[f][j]
      /\ data'[f][Len(data[f]) + 1] = x
  BY <1>4
<1>5. PICK end \in Nat : end = Len(data[f]) + 1
  BY <1>b
<1>6. \A n \in 1..Len(data) : n > f => Len(data[n]) = 0
  BY <1>1, <1>2, <1>3 DEF HandleIsLast
<1>7. \A n \in 1..Len(data) : n > f => Len(data'[n]) = 0
  BY <1>2, <1>3, <1>b, <1>6
<1>8. \A n, j \in Nat : Holds(data, n, j) => Holds(data', n, j) /\ data'[n][j] = data[n][j]
  BY <1>2, <1>3, <1>b DEF Holds
<1>9. \A n, j \in Nat : Holds(data', n, j) => Holds(data, n, j) \/ (n = f /\ j = end)
  BY <1>2, <1>3, <1>b, <1>5 DEF Holds
<1>10. Holds(data', f, end) /\ data'[f][end] = x
  BY <1>2, <1>3, <1>b, <1>5 DEF Holds
<1>11. \A n, j \in Nat : Holds(data, n, j) => Earlier(n, j, f, end)
  BY <1>2, <1>3, <1>b, <1>5, <1>6 DEF Holds, Earlier
<1>12. \A n \in 1..Len(data) : n > fd.ino => Len(data'[n]) = 0
  BY <1>3, <1>7
<1>13. \A n, j \in Nat : Holds(data, n, j) => /\ Holds(data', n, j) /\ data'[n][j] = data[n][j]
                                             /\ Earlier(n, j, f, end)
  BY <1>8, <1>11
<1> QED
  BY <1>4, <1>9, <1>10, <1>12, <1>13

LEMMA TornAdded ==
  ASSUME FileInv, fd.open, UNCHANGED acked,
         Writes(Torn)
  PROVE  Records'
<1>0. Torn \in Nat
  BY DEF Torn
<1>1. PICK f \in Nat, end \in Nat :
        /\ \A n, j \in Nat : Holds(data, n, j) => Holds(data', n, j) /\ data'[n][j] = data[n][j]
        /\ \A n, j \in Nat : Holds(data', n, j) => Holds(data, n, j) \/ (n = f /\ j = end)
        /\ data'[f][end] = Torn
  BY <1>0, WriteIsLast
<1>2. Records /\ acked \in Nat
  BY DEF FileInv, Records, FileType
<1>3. NoStranger'
  BY <1>1, <1>2 DEF Records, NoStranger, Torn
<1>4. NoLoss'
  BY <1>1, <1>2 DEF Records, NoLoss
<1>5. InSequence'
  BY <1>1, <1>2 DEF Records, InSequence
<1> QED
  BY <1>3, <1>4, <1>5 DEF Records

LEMMA RecordAdded ==
  ASSUME FileInv, fd.open, acked' = acked + 1,
         Writes(acked + 1)
  PROVE  Records'
<1>0. acked \in Nat /\ acked + 1 \in Nat /\ Records
  BY DEF FileInv, FileType, Records
<1>a. PICK x \in Nat : x = acked + 1
  BY <1>0
<1>1. PICK f \in Nat, end \in Nat :
        /\ \A n, j \in Nat : Holds(data, n, j) => /\ Holds(data', n, j) /\ data'[n][j] = data[n][j]
                                           /\ Earlier(n, j, f, end)
        /\ \A n, j \in Nat : Holds(data', n, j) => Holds(data, n, j) \/ (n = f /\ j = end)
        /\ Holds(data', f, end) /\ data'[f][end] = x
  BY <1>a, WriteIsLast
<1>2. \A n, j \in Nat : Holds(data, n, j) => data[n][j] \in 0..acked
  BY <1>0 DEF Records, NoStranger
<1>3. NoStranger'
  BY <1>0, <1>a, <1>1, <1>2 DEF NoStranger
<1>4. NoLoss'
  <2> SUFFICES ASSUME NEW r \in 1..acked'
               PROVE  (\E n, j \in Nat : Holds(data, n, j) /\ data[n][j] = r)'
    BY DEF NoLoss
  <2>1. CASE r = acked + 1
    BY <1>a, <1>1, <2>1
  <2>2. CASE r # acked + 1
    <3>1. r \in 1..acked
      BY <1>0, <2>2
    <3>2. PICK n \in Nat, j \in Nat : Holds(data, n, j) /\ data[n][j] = r
      BY <1>0, <3>1 DEF Records, NoLoss
    <3> QED
      BY <1>1, <3>2
  <2> QED
    BY <2>1, <2>2
<1>5. InSequence'
  <2> SUFFICES ASSUME NEW m \in Nat, NEW i \in Nat, NEW n \in Nat, NEW j \in Nat,
                      Holds(data', m, i), Holds(data', n, j), Earlier(m, i, n, j),
                      data'[m][i] # Torn, data'[n][j] # Torn
               PROVE  data'[m][i] < data'[n][j]
    BY DEF InSequence, Earlier
  <2>1. CASE Holds(data, m, i) /\ Holds(data, n, j)
    BY <1>0, <1>a, <1>1, <2>1 DEF Records, InSequence
  <2>2. CASE Holds(data, m, i) /\ n = f /\ j = end
    BY <1>0, <1>a, <1>1, <1>2, <2>2
  <2>3. CASE m = f /\ i = end
    <3>1. ~ Earlier(f, end, n, j)
      BY <1>1, <2>3 DEF Earlier
    <3> QED
      BY <2>3, <3>1
  <2> QED
    BY <1>1, <2>1, <2>2, <2>3
<1> QED
  BY <1>3, <1>4, <1>5 DEF Records

-----------------------------------------------------------------------------
(* The whole invariant through each kind of step *)

LEMMA InitFile == Init => FileInv
<1> SUFFICES ASSUME Init PROVE FileInv
  OBVIOUS
<1>1. data = << <<>> >> /\ Len(data) = 1 /\ data[1] = <<>> /\ Len(data[1]) = 0
      /\ data \in Seq(Seq(Nat))
  <2>1. <<>> \in Seq(Nat) /\ Len(<<>>) = 0
    OBVIOUS
  <2> QED
    BY <2>1 DEF Init
<1>2. Len(arch) = 0 /\ arch \in Seq(Entry) /\ fd = [ino |-> 1, open |-> TRUE, ok |-> TRUE]
  BY DEF Init, Handle
<1>3. path = 1 /\ acked = 0 /\ sec = 1 /\ reused = FALSE
  BY DEF Init
<1>4. FileType
  <2>1. fd \in [ino : Nat, open : BOOLEAN, ok : BOOLEAN] /\ fd.ino = 1
    BY <1>2
  <2>2. acked \in Nat /\ sec \in Nat \ {0}
    BY <1>3
  <2>3. fd.ino <= Len(data) /\ (fd.open => fd.ino # 0) /\ Len(data) \in Nat
    BY <1>1, <2>1
  <2>4. reused \in BOOLEAN
    BY <1>3
  <2> QED
    BY <1>1, <1>2, <2>1, <2>2, <2>3, <2>4 DEF FileType
<1>5. PathIsNewest /\ ArchivesInOrder
  BY <1>1, <1>2, <1>3 DEF PathIsNewest, ArchivesInOrder
<1>6. HandleIsLast
  BY <1>1, <1>2 DEF HandleIsLast
<1>7. \A n, j \in Nat : ~ Holds(data, n, j)
  BY <1>1 DEF Holds
<1>8. NoStranger /\ NoLoss /\ InSequence
  BY <1>3, <1>7 DEF NoStranger, NoLoss, InSequence
<1> QED
  BY <1>4, <1>5, <1>6, <1>8 DEF FileInv

\* A handle is opened on the file at the path, or on a new one.
LEMMA Opened ==
  ASSUME FileInv, UNCHANGED <<arch, acked, sec, reused>>, OpenOK(path) PROVE FileInv'
<1>0. FileType /\ PathIsNewest /\ ArchivesInOrder
  BY DEF FileInv
<1>1. CASE path # 0
  <2>1. path = Len(data) /\ path' = path /\ fd' = Handle(path) /\ UNCHANGED data
    BY <1>0, <1>1 DEF OpenOK, PathIsNewest
  <2>2. fd' = [ino |-> Len(data), open |-> TRUE, ok |-> TRUE]
    BY <2>1 DEF Handle
  <2>3. FileType'
    BY <1>0, <1>1, <2>1, <2>2 DEF FileType
  <2>4. PathIsNewest' /\ ArchivesInOrder'
    BY <1>0, <2>1 DEF PathIsNewest, ArchivesInOrder
  <2>5. HandleIsLast'
    BY <1>0, <2>1, <2>2 DEF HandleIsLast, FileType
  <2> QED
    BY <2>1, <2>3, <2>4, <2>5, RecordsKept DEF FileInv, Records
<1>2. CASE path = 0
  <2>1. /\ data' = Append(data, <<>>) /\ path' = Len(data) + 1
        /\ fd' = [ino |-> Len(data) + 1, open |-> TRUE, ok |-> TRUE]
    BY <1>2 DEF OpenOK, Handle
  <2>2. /\ data' \in Seq(Seq(Nat)) /\ Len(data) \in Nat /\ Len(data') = Len(data) + 1
    BY <1>0, <2>1, FileCreated DEF FileType
  <2>3. FileType'
    BY <1>0, <2>1, <2>2 DEF FileType
  <2>4. PathIsNewest' /\ ArchivesInOrder'
    BY <1>0, <1>2, <2>1, <2>2 DEF PathIsNewest, ArchivesInOrder
  <2>5. HandleIsLast'
    BY <2>1, <2>2 DEF HandleIsLast
  <2> QED
    BY <2>1, <2>3, <2>4, <2>5, RecordsKept DEF FileInv, Records
<1> QED
  BY <1>1, <1>2

\* The handle is lost, closed or spoilt; the files stay.
LEMMA HandleLost ==
  ASSUME FileInv, UNCHANGED <<data, path, arch, acked, sec, reused>>,
         fd' \in {NilHandle, [fd EXCEPT !.open = FALSE], [fd EXCEPT !.ok = FALSE], fd}
  PROVE  FileInv'
<1>0. FileType /\ PathIsNewest /\ ArchivesInOrder /\ HandleIsLast
  BY DEF FileInv
<1>1. FileType'
  <2> DEFINE T == [ino : Nat, open : BOOLEAN, ok : BOOLEAN]
  <2>0. fd \in T /\ NilHandle \in T
    BY <1>0 DEF FileType, NilHandle
  <2>a. [fd EXCEPT !.open = FALSE] \in T /\ [fd EXCEPT !.ok = FALSE] \in T
    BY <2>0
  <2>1. fd' \in T
    BY <2>0, <2>a
  <2>2. CASE fd' = NilHandle
    <3>1. fd'.ino = 0 /\ fd'.open = FALSE
      BY <2>2 DEF NilHandle
    <3> QED
      BY <1>0, <2>1, <3>1 DEF FileType
  <2>3. CASE fd' = [fd EXCEPT !.open = FALSE]
    <3>1. fd'.ino = fd.ino /\ fd'.open = FALSE
      BY <1>0, <2>3 DEF FileType
    <3> QED
      BY <1>0, <2>1, <3>1 DEF FileType
  <2>4. CASE fd' \in {[fd EXCEPT !.ok = FALSE], fd}
    <3>1. fd'.ino = fd.ino /\ fd'.open = fd.open
      BY <1>0, <2>4 DEF FileType
    <3> QED
      BY <1>0, <2>1, <3>1 DEF FileType
  <2> QED
    BY <2>2, <2>3, <2>4
<1>2. PathIsNewest' /\ ArchivesInOrder'
  BY <1>0 DEF PathIsNewest, ArchivesInOrder
<1>3. fd'.ino \in {0, fd.ino}
  BY <1>0 DEF FileType, NilHandle
<1>4. HandleIsLast'
  BY <1>0, <1>3 DEF HandleIsLast
<1> QED
  BY <1>1, <1>2, <1>4, RecordsKept DEF FileInv, Records

\* A line is written through the handle.
LEMMA LineWritten ==
  ASSUME FileInv, fd.open, Records', UNCHANGED <<path, arch, sec, reused>>, acked' \in Nat,
         NEW x \in Nat, Writes(x), fd' \in {fd, [fd EXCEPT !.ok = FALSE]}
  PROVE  FileInv'
<1>0. FileType /\ PathIsNewest /\ ArchivesInOrder
  BY DEF FileInv
<1>1. /\ data' \in Seq(Seq(Nat)) /\ Len(data') = Len(data)
      /\ \A n \in 1..Len(data) : n > fd.ino => Len(data'[n]) = 0
  BY WriteIsLast
<1>2. /\ fd' \in [ino : Nat, open : BOOLEAN, ok : BOOLEAN] /\ fd'.ino = fd.ino
      /\ fd'.open = fd.open
  BY <1>0 DEF FileType
<1>3. FileType'
  BY <1>0, <1>1, <1>2 DEF FileType
<1>4. PathIsNewest' /\ ArchivesInOrder'
  BY <1>0, <1>1 DEF PathIsNewest, ArchivesInOrder
<1>5. HandleIsLast'
  BY <1>1, <1>2 DEF HandleIsLast
<1> QED
  BY <1>3, <1>4, <1>5 DEF FileInv, Records

\* The file at the path is archived and, unless the open fails, a new one made.
LEMMA Rotated ==
  ASSUME FileInv, path # 0, UNCHANGED <<acked, sec>>, NEW s \in Nat,
         arch' = Archived(arch, s, path),
         reused' \in BOOLEAN,
         ~ reused' => ~ reused /\ (s = 0 \/ \A i \in 1..Len(arch) : arch[i].name # s),
         \/ /\ data' = Append(data, <<>>) /\ path' = Len(data) + 1
            /\ fd' \in {fd, Handle(Len(data) + 1)}
         \/ UNCHANGED data /\ path' = 0 /\ fd' = NilHandle
  PROVE  FileInv'
<1>0. FileType /\ PathIsNewest /\ ArchivesInOrder /\ HandleIsLast
  BY DEF FileInv
<1>1. path = Len(data) /\ Len(data) \in Nat
  BY <1>0 DEF PathIsNewest, FileType
<1>2. /\ arch' \in Seq(Entry) /\ Len(arch) \in Nat
      /\ Len(arch') = Len(arch) + 1 /\ arch'[Len(arch) + 1].ino = Len(data)
      /\ (s = 0 \/ \A i \in 1..Len(arch) : arch[i].name # s) =>
           \A i \in 1..Len(arch) : arch'[i].ino = arch[i].ino
  BY <1>0, <1>1, ArchiveAdded DEF FileType
<1>3. ~ reused' => Len(arch') = Len(data) /\ \A i \in 1..Len(arch') : arch'[i].ino = i
  <2> SUFFICES ASSUME ~ reused'
               PROVE  Len(arch') = Len(data) /\ \A i \in 1..Len(arch') : arch'[i].ino = i
    OBVIOUS
  <2>1. Len(arch) = Len(data) - 1 /\ \A i \in 1..Len(arch) : arch'[i].ino = i
    BY <1>0, <1>2 DEF ArchivesInOrder
  <2> QED
    BY <1>1, <1>2, <2>1
<1>4. CASE data' = Append(data, <<>>) /\ path' = Len(data) + 1
           /\ fd' \in {fd, Handle(Len(data) + 1)}
  <2>1. /\ data' \in Seq(Seq(Nat)) /\ Len(data') = Len(data) + 1
        /\ \A n \in 1..Len(data) : data'[n] = data[n]
        /\ Len(data'[Len(data) + 1]) = 0
    BY <1>0, <1>4, FileCreated DEF FileType
  <2>2. /\ fd' \in [ino : Nat, open : BOOLEAN, ok : BOOLEAN]
        /\ fd'.ino <= Len(data) + 1 /\ (fd'.open => fd'.ino # 0)
    <3>1. CASE fd' = fd
      BY <1>0, <3>1 DEF FileType
    <3>2. CASE fd' = Handle(Len(data) + 1)
      BY <1>1, <3>2 DEF Handle
    <3> QED
      BY <1>4, <3>1, <3>2
  <2>3. FileType'
    BY <1>0, <1>1, <1>2, <2>1, <2>2 DEF FileType
  <2>4. PathIsNewest' /\ ArchivesInOrder'
    BY <1>1, <1>3, <1>4, <2>1 DEF PathIsNewest, ArchivesInOrder
  <2>5. HandleIsLast'
    <3>1. fd'.ino \in {fd.ino, Len(data) + 1} /\ fd.ino \in Nat
      BY <1>0, <1>4 DEF Handle, FileType
    <3>2. fd.ino # 0 => \A n \in 1..Len(data) : n > fd.ino => Len(data'[n]) = 0
      BY <1>0, <2>1 DEF HandleIsLast
    <3>3. \A n \in 1..Len(data') : n \in 1..Len(data) \/ n = Len(data) + 1
      BY <1>1, <2>1
    <3>4. CASE fd'.ino = fd.ino
      BY <2>1, <3>2, <3>3, <3>4 DEF HandleIsLast
    <3>5. CASE fd'.ino = Len(data) + 1
      BY <1>1, <2>1, <3>5 DEF HandleIsLast
    <3> QED
      BY <3>1, <3>4, <3>5
  <2> QED
    BY <1>4, <2>3, <2>4, <2>5, RecordsKept DEF FileInv, Records
<1>5. CASE UNCHANGED data /\ path' = 0 /\ fd' = NilHandle
  <2>1. fd' = [ino |-> 0, open |-> FALSE, ok |-> FALSE]
    BY <1>5 DEF NilHandle
  <2>2. fd' \in [ino : Nat, open : BOOLEAN, ok : BOOLEAN] /\ fd'.ino = 0 /\ ~ fd'.open
    BY <2>1
  <2>3. FileType'
    BY <1>0, <1>1, <1>2, <1>5, <2>2 DEF FileType
  <2>4. PathIsNewest' /\ ArchivesInOrder'
    BY <1>1, <1>3, <1>5 DEF PathIsNewest, ArchivesInOrder
  <2>5. HandleIsLast'
    BY <2>2 DEF HandleIsLast
  <2> QED
    BY <1>5, <2>3, <2>4, <2>5, RecordsKept DEF FileInv, Records
<1> QED
  BY <1>4, <1>5

LEMMA NextFile == FileInv /\ [Next]_vars => FileInv'
<1> SUFFICES ASSUME FileInv, [Next]_vars PROVE FileInv'
  OBVIOUS
<1>0. FileType
  BY DEF FileInv
<1>1. CASE LogOK
  <2>1. fd.open /\ acked' = acked + 1 /\ Writes(acked + 1)
        /\ UNCHANGED <<path, arch, fd, sec, reused>>
    BY <1>1 DEF LogOK, Usable, Writes
  <2>2. acked + 1 \in Nat
    BY <1>0 DEF FileType
  <2>3. Records'
    BY <2>1, RecordAdded
  <2> QED
    BY <2>1, <2>2, <2>3, LineWritten
<1>2. CASE LogErr
  <2>1. /\ fd.open /\ UNCHANGED <<path, arch, acked, sec, reused>> /\ fd' = [fd EXCEPT !.ok = FALSE]
        /\ Writes(Torn) \/ UNCHANGED data
    BY <1>2 DEF LogErr, Usable, Writes
  <2>2. CASE UNCHANGED data
    BY <2>1, <2>2, HandleLost
  <2>3. CASE Writes(Torn)
    <3>1. Records'
      BY <2>1, <2>3, TornAdded
    <3>2. Torn \in Nat /\ acked' \in Nat
      BY <1>0, <2>1 DEF Torn, FileType
    <3> QED
      BY <2>1, <2>3, <3>1, <3>2, LineWritten
  <2> QED
    BY <2>1, <2>2, <2>3
<1>3. CASE RotateCloseErr \/ RotateRenameErr \/ Reopen
  <2>1. UNCHANGED <<arch, acked, sec, reused>>
    BY <1>3 DEF RotateCloseErr, RotateRenameErr, Reopen
  <2>2. \/ OpenOK(path)
        \/ /\ UNCHANGED <<data, path>>
           /\ fd' \in {NilHandle, [fd EXCEPT !.open = FALSE], [fd EXCEPT !.ok = FALSE], fd}
    BY <1>3 DEF RotateCloseErr, RotateRenameErr, Reopen, OpenErr
  <2> QED
    BY <2>1, <2>2, Opened, HandleLost
<1>4. CASE RotateOK
  <2>1. /\ path # 0 /\ UNCHANGED <<acked, sec>> /\ arch' = Archived(arch, sec, path)
        /\ reused' = (reused \/ \E i \in 1..Len(arch) : arch[i].name = sec)
    BY <1>4 DEF RotateOK
  <2>2. \/ /\ data' = Append(data, <<>>) /\ path' = Len(data) + 1
           /\ fd' \in {fd, Handle(Len(data) + 1)}
        \/ UNCHANGED data /\ path' = 0 /\ fd' = NilHandle
    BY <1>4 DEF RotateOK, OpenOK, OpenErr
  <2>3. PICK s \in Nat : s = sec
    BY <1>0 DEF FileType
  <2>4. /\ reused' \in BOOLEAN
        /\ ~ reused' => ~ reused /\ (s = 0 \/ \A i \in 1..Len(arch) : arch[i].name # s)
    BY <2>1, <2>3
  <2> QED
    BY <2>1, <2>2, <2>3, <2>4, Rotated
<1>5. CASE Close
  BY <1>5, HandleLost DEF Close
<1>6. CASE Logrotate
  <2>1. /\ path # 0 /\ UNCHANGED <<acked, sec>> /\ arch' = Archived(arch, 0, path)
        /\ data' = Append(data, <<>>) /\ path' = Len(data) + 1 /\ fd' = fd /\ reused' = reused
    BY <1>6 DEF Logrotate
  <2>2. reused' \in BOOLEAN
    BY <1>0, <2>1 DEF FileType
  <2> QED
    BY <2>1, <2>2, Rotated
<1>7. CASE Second
  <2>1. UNCHANGED <<data, path, arch, fd, acked, reused>> /\ sec' = sec + 1
    BY <1>7 DEF Second
  <2>2. FileType'
    BY <1>0, <2>1 DEF FileType
  <2>3. PathIsNewest' /\ ArchivesInOrder' /\ HandleIsLast'
    BY <2>1 DEF FileInv, PathIsNewest, ArchivesInOrder, HandleIsLast
  <2> QED
    BY <2>1, <2>2, <2>3, RecordsKept DEF FileInv, Records
<1>8. CASE UNCHANGED vars
  BY <1>8, HandleLost DEF vars
<1> QED
  BY <1>1, <1>2, <1>3, <1>4, <1>5, <1>6, <1>7, <1>8 DEF Next

\* While nothing was replaced, the linked files are all files, in order.
LEMMA FilesReadInOrder ==
  ASSUME FileInv, ~ reused
  PROVE  /\ \A i \in 1..Len(Linked) : Linked[i] # 0 => Linked[i] = i /\ i \in 1..Len(data)
         /\ \A n \in 1..Len(data) : n \in 1..Len(Linked) /\ Linked[n] = n
<1> DEFINE inos == [i \in 1..Len(arch) |-> arch[i].ino]
<1>1. /\ Len(arch) = IF path = 0 THEN Len(data) ELSE Len(data) - 1
      /\ \A i \in 1..Len(arch) : arch[i].ino = i
      /\ Len(data) \in Nat /\ Len(arch) \in Nat /\ path \in {0, Len(data)}
  BY DEF FileInv, FileType, PathIsNewest, ArchivesInOrder
<1>2. inos \in Seq(Nat) /\ Len(inos) = Len(arch) /\ \A i \in 1..Len(arch) : inos[i] = i
  BY <1>1
<1>3. Linked = Append(inos, path)
  BY DEF Linked
<1> HIDE DEF inos
<1>4. /\ Len(Linked) = Len(arch) + 1 /\ Linked[Len(arch) + 1] = path
      /\ \A i \in 1..Len(arch) : Linked[i] = i
  BY <1>1, <1>2, <1>3
<1> QED
  BY <1>1, <1>4

\* Read in the order of rotation, the files hold every acknowledged record once
\* and in order, for any number of records, rotations and failures.
THEOREM DiskAlwaysTheLog == Spec => []DiskIsTheLog
<1>1. ASSUME FileInv PROVE DiskIsTheLog
  <2> SUFFICES ASSUME ~ reused
               PROVE  /\ 1..acked \subseteq {Read(p) : p \in Places}
                      /\ \A p \in Places : Read(p) \in 1..acked \cup {Torn}
                      /\ \A p, q \in Places :
                           (Before(p, q) /\ Torn \notin {Read(p), Read(q)}) => Read(p) < Read(q)
    BY DEF DiskIsTheLog
  <2>1. /\ \A i \in 1..Len(Linked) : Linked[i] # 0 => Linked[i] = i /\ i \in 1..Len(data)
        /\ \A n \in 1..Len(data) : n \in 1..Len(Linked) /\ Linked[n] = n
    BY <1>1, FilesReadInOrder
  <2>2. ASSUME NEW p \in Places
        PROVE  /\ p[1] \in Nat /\ p[2] \in Nat /\ Holds(data, p[1], p[2])
               /\ Read(p) = data[p[1]][p[2]]
    <3>1. PICK i \in 1..Len(Linked) : p \in {i} \X (1..Len(Content(i)))
      BY DEF Places
    <3>2. p[1] = i /\ p[2] \in 1..Len(Content(i))
      BY <3>1
    <3>3. Linked[i] # 0
      BY <3>2 DEF Content
    <3>4. Content(i) = data[i] /\ i \in 1..Len(data)
      BY <2>1, <3>3 DEF Content
    <3> QED
      BY <3>2, <3>4 DEF Holds, Read
  <2>3. ASSUME NEW n \in Nat, NEW j \in Nat, Holds(data, n, j)
        PROVE  <<n, j>> \in Places /\ Read(<<n, j>>) = data[n][j]
    <3>1. n \in 1..Len(data) /\ j \in 1..Len(data[n])
      BY <2>3 DEF Holds
    <3>2. n \in 1..Len(Linked) /\ Content(n) = data[n]
      BY <2>1, <3>1 DEF Content
    <3> QED
      BY <3>1, <3>2 DEF Places, Read
  <2>4. NoStranger /\ NoLoss /\ InSequence /\ acked \in Nat
    BY <1>1 DEF FileInv, FileType
  <2>5. ASSUME NEW r \in 1..acked PROVE r \in {Read(p) : p \in Places}
    <3>1. PICK n \in Nat, j \in Nat : Holds(data, n, j) /\ data[n][j] = r
      BY <2>4 DEF NoLoss
    <3>2. <<n, j>> \in Places /\ Read(<<n, j>>) = r
      BY <2>3, <3>1
    <3> QED
      BY <3>2
  <2>6. \A p \in Places : Read(p) \in 1..acked \cup {Torn}
    BY <2>2, <2>4 DEF NoStranger, Torn
  <2>7. ASSUME NEW p \in Places, NEW q \in Places, Before(p, q), Torn \notin {Read(p), Read(q)}
        PROVE  Read(p) < Read(q)
    <3>1. /\ p[1] \in Nat /\ p[2] \in Nat /\ Holds(data, p[1], p[2])
          /\ Read(p) = data[p[1]][p[2]]
      BY <2>2
    <3>2. /\ q[1] \in Nat /\ q[2] \in Nat /\ Holds(data, q[1], q[2])
          /\ Read(q) = data[q[1]][q[2]]
      BY <2>2
    <3>3. Earlier(p[1], p[2], q[1], q[2])
      BY <2>7 DEF Before, Earlier
    <3>4. data[p[1]][p[2]] # Torn /\ data[q[1]][q[2]] # Torn
      BY <2>7, <3>1, <3>2
    <3> QED
      BY <2>4, <3>1, <3>2, <3>3, <3>4 DEF InSequence
  <2> QED
    BY <2>5, <2>6, <2>7
<1> QED
  BY InitFile, NextFile, <1>1, PTL DEF Spec

-----------------------------------------------------------------------------
(* The range scan: minima, and a file that grows behind its reader *)

LEMMA MinIs ==
  ASSUME NEW S, NEW x \in S, \A y \in S : x <= y, S \subseteq Int
  PROVE  Min(S) = x
<1>1. Min(S) \in S /\ \A y \in S : Min(S) <= y
  BY Zenon DEF Min
<1>2. Min(S) <= x /\ x <= Min(S) /\ x \in Int /\ Min(S) \in Int
  BY <1>1
<1> QED
  BY <1>2

LEMMA MinOfTwo ==
  ASSUME NEW a \in Int, NEW b \in Int
  PROVE  Min({a, b}) = IF a <= b THEN a ELSE b
<1>1. CASE a <= b
  BY <1>1, MinIs
<1>2. CASE ~ (a <= b)
  BY <1>2, MinIs
<1> QED
  BY <1>1, <1>2

LEMMA LeastElement ==
  ASSUME NEW S, S \subseteq Nat, S # {} PROVE Min(S) \in S /\ \A n \in S : Min(S) <= n
<1>1. \E R : IsWellFoundedOn(R, Nat) /\ \A x, y \in Nat : <<y, x>> \in R <=> y < x
  <2>1. IsWellFoundedOn(OpToRel(<, Nat), Nat)
    BY NatLessThanWellFounded
  <2>2. \A x, y \in Nat : <<y, x>> \in OpToRel(<, Nat) <=> y < x
    BY DEF OpToRel
  <2> QED
    BY <2>1, <2>2, Zenon
<1>2. PICK R : IsWellFoundedOn(R, Nat) /\ \A x, y \in Nat : <<y, x>> \in R <=> y < x
  BY <1>1
<1>3. PICK x \in S : \A y \in S : ~ (<<y, x>> \in R)
  BY <1>2, WFMin
<1>4. \A y \in S : ~ (y < x)
  BY <1>2, <1>3
<1>5. \A y \in S : x <= y
  BY <1>4
<1>6. Min(S) = x
  <2>1. S \subseteq Int
    OBVIOUS
  <2> QED
    BY <1>5, <2>1, MinIs
<1> QED
  BY <1>5, <1>6

\* t is s with lines appended.
Grown(s, t) ==
  /\ s \in Seq(Nat) /\ t \in Seq(Nat) /\ Len(s) \in Nat /\ Len(t) \in Nat
  /\ Len(s) <= Len(t) /\ \A i \in 1..Len(s) : t[i] = s[i]

\* No step of the writer, of logrotate or of a failure changes what is written.
LEMMA FilesGrow ==
  ASSUME FileInv, [Next]_vars
  PROVE  Len(data) <= Len(data') /\ \A n \in 1..Len(data) : Grown(data[n], data'[n])
<1>0. /\ data \in Seq(Seq(Nat)) /\ Len(data) \in Nat /\ acked \in Nat
      /\ fd.open => fd.ino \in 1..Len(data)
  BY DEF FileInv, FileType
<1>1. \A n \in 1..Len(data) : data[n] \in Seq(Nat) /\ Len(data[n]) \in Nat
  BY <1>0
<1>2. CASE UNCHANGED data
  BY <1>0, <1>1, <1>2 DEF Grown
<1>3. CASE data' = Append(data, <<>>)
  <2>1. Len(data') = Len(data) + 1 /\ \A n \in 1..Len(data) : data'[n] = data[n]
    BY <1>0, <1>3, FileCreated
  <2> QED
    BY <1>0, <1>1, <2>1 DEF Grown
<1>4. ASSUME NEW x \in Nat, fd.open, Writes(x)
      PROVE  Len(data) <= Len(data') /\ \A n \in 1..Len(data) : Grown(data[n], data'[n])
  <2>1. PICK f \in 1..Len(data) : f = fd.ino
    BY <1>0, <1>4
  <2>2. data' = [data EXCEPT ![f] = Append(data[f], x)]
    BY <1>4, <2>1 DEF Writes
  <2>3. /\ data' \in Seq(Seq(Nat)) /\ Len(data') = Len(data)
        /\ \A n \in 1..Len(data) \ {f} : data'[n] = data[n]
        /\ Len(data[f]) \in Nat /\ Len(data'[f]) = Len(data[f]) + 1
        /\ \A j \in 1..Len(data[f]) : data'[f][j] = data[f][j]
    BY <1>0, <2>2, LineAppended
  <2>4. data'[f] \in Seq(Nat)
    BY <1>0, <2>3
  <2>5. Grown(data[f], data'[f])
    BY <1>1, <2>3, <2>4 DEF Grown
  <2>6. \A n \in 1..Len(data) : n # f => Grown(data[n], data'[n])
    <3>1. \A n \in 1..Len(data) : n # f => data'[n] = data[n]
      BY <2>3
    <3> QED
      BY <1>1, <3>1 DEF Grown
  <2> QED
    BY <1>0, <2>3, <2>5, <2>6
<1>5. \/ UNCHANGED data \/ data' = Append(data, <<>>)
      \/ fd.open /\ \E x \in Nat : Writes(x)
  <2>1. CASE LogOK
    <3>1. acked + 1 \in Nat /\ fd.open /\ Writes(acked + 1)
      BY <1>0, <2>1 DEF LogOK, Usable, Writes
    <3> QED
      BY <3>1
  <2>2. CASE LogErr
    BY <2>2 DEF LogErr, Usable, Writes, Torn
  <2>3. CASE RotateCloseErr \/ RotateRenameErr \/ RotateOK \/ Reopen
    BY <2>3 DEF RotateCloseErr, RotateRenameErr, RotateOK, Reopen, OpenOK, OpenErr
  <2>4. CASE Close \/ Logrotate \/ Second \/ UNCHANGED vars
    BY <2>4 DEF Close, Logrotate, Second, vars
  <2> QED
    BY <2>1, <2>2, <2>3, <2>4 DEF Next
<1> QED
  BY <1>2, <1>3, <1>4, <1>5

\* What has been read is not changed by what is appended.
LEMMA PartKept ==
  ASSUME NEW s, NEW t, Grown(s, t), NEW a \in Nat \ {0}, NEW b \in 0..Len(s)
  PROVE  SubSeq(t, a, b) = SubSeq(s, a, b)
<1>1. s \in Seq(Nat) /\ t \in Seq(Nat) /\ Len(s) \in Nat /\ Len(t) \in Nat /\ Len(s) <= Len(t)
  BY DEF Grown
<1>2. \A i \in 1..Len(s) : t[i] = s[i]
  BY DEF Grown
<1>3. SubSeq(s, a, b) = [i \in 1..b - a + 1 |-> s[a + i - 1]]
  BY <1>1
<1>4. SubSeq(t, a, b) = [i \in 1..b - a + 1 |-> t[a + i - 1]]
  BY <1>1
<1>5. \A i \in 1..b - a + 1 : a + i - 1 \in 1..Len(s)
  BY <1>1
<1> QED
  BY <1>2, <1>3, <1>4, <1>5

LEMMA EndsKept ==
  ASSUME NEW s, NEW t, Grown(s, t), NEW n \in 0..Len(s)
  PROVE  Ends(t, n) = Ends(s, n)
<1>1. Len(s) \in Nat /\ \A i \in 1..Len(s) : t[i] = s[i]
  BY DEF Grown
<1>2. \A i \in 1..n : t[i] = s[i]
  BY <1>1
<1> QED
  BY <1>2 DEF Ends

-----------------------------------------------------------------------------
(* ?lines=N: the ring of lines *)

\* The slot of the i-th of c lines, the next one going to slot h of n.
LineSlot(h, c, n, i) == IF c < n THEN i - 1 ELSE IF h + i - 1 < n THEN h + i - 1 ELSE h + i - 1 - n

\* The ring holds the last c lines of the first p entries of s: n of them, or
\* all there are.
RingHolds(s, p, n, ring, h, c) ==
  /\ n \in Nat \ {0} /\ c \in 0..n /\ h \in 0..n - 1 /\ (c < n => h = c)
  /\ ring = [j \in 0..n - 1 |-> ring[j]]
  /\ \E cut \in [0..c -> 0..p] :
       /\ LastLines(s, p, cut, c) /\ (c < n => cut[0] = 0)
       /\ \A i \in 1..c : ring[LineSlot(h, c, n, i)] = SubSeq(s, cut[i - 1] + 1, cut[i])

LEMMA RingKept ==
  ASSUME NEW s, NEW t, Grown(s, t), NEW p \in 0..Len(s), NEW n, NEW ring, NEW h, NEW c,
         RingHolds(s, p, n, ring, h, c)
  PROVE  RingHolds(t, p, n, ring, h, c)
<1>1. PICK cut \in [0..c -> 0..p] :
        /\ LastLines(s, p, cut, c) /\ (c < n => cut[0] = 0)
        /\ \A i \in 1..c : ring[LineSlot(h, c, n, i)] = SubSeq(s, cut[i - 1] + 1, cut[i])
  BY DEF RingHolds
<1>2. c \in Nat /\ Len(s) \in Nat
  BY DEF RingHolds, Grown
<1>3. LastLines(t, p, cut, c)
  BY <1>1, EndsKept DEF LastLines
<1>4. ASSUME NEW i \in 1..c
      PROVE  ring[LineSlot(h, c, n, i)] = SubSeq(t, cut[i - 1] + 1, cut[i])
  <2>0. cut[i - 1] \in 0..p /\ cut[i] \in 0..p
    BY <1>2
  <2>1. cut[i - 1] + 1 \in Nat \ {0} /\ cut[i] \in 0..Len(s)
    BY <1>2, <2>0
  <2> QED
    BY <1>1, <2>1, PartKept
<1> QED
  BY <1>1, <1>3, <1>4 DEF RingHolds

\* The next line ends at e: it is the first end behind p, where the last one was.
LEMMA NextEnd ==
  ASSUME NEW s, NEW p \in Nat, NEW e \in Nat, p < e, p = 0 \/ s[p] # Torn,
         \A i \in p + 1..e - 1 : s[i] = Torn
  PROVE  Ends(s, e) = Ends(s, p) \cup {e}
<1>1. ASSUME NEW i \in Ends(s, e) PROVE i \in Ends(s, p) \cup {e}
  <2>1. i \in 1..e /\ (s[i] # Torn \/ i = e)
    BY <1>1 DEF Ends
  <2>2. CASE i # e
    <3>1. s[i] # Torn /\ ~ (i \in p + 1..e - 1)
      BY <2>1, <2>2
    <3>2. i \in 1..p
      BY <2>1, <2>2, <3>1
    <3> QED
      BY <3>1, <3>2 DEF Ends
  <2> QED
    BY <2>2
<1>2. ASSUME NEW i \in Ends(s, p) PROVE i \in Ends(s, e)
  <2>1. i \in 1..p /\ (s[i] # Torn \/ i = p)
    BY <1>2 DEF Ends
  <2>2. i \in 1..e /\ s[i] # Torn
    BY <2>1
  <2> QED
    BY <2>2 DEF Ends
<1>3. e \in Ends(s, e)
  BY DEF Ends
<1> QED
  BY <1>1, <1>2, <1>3

\* The line behind the last one is added, and the oldest leaves a full set.
Moved(cut, c, d, e, new, m) ==
  /\ c \in Nat /\ d \in {0, 1} /\ d <= c /\ m = c + 1 - d
  /\ new = [i \in 0..m |-> IF i = m THEN e ELSE cut[i + d]]

LEMMA LinesMove ==
  ASSUME NEW s, NEW p \in Nat, NEW e \in Nat, p < e, Ends(s, e) = Ends(s, p) \cup {e},
         NEW c, NEW cut \in [0..c -> 0..p], LastLines(s, p, cut, c),
         NEW d, NEW m, NEW new, Moved(cut, c, d, e, new, m)
  PROVE  new \in [0..m -> 0..e] /\ LastLines(s, e, new, m)
<1>0. /\ c \in Nat /\ d \in {0, 1} /\ d <= c /\ m = c + 1 - d
      /\ new = [i \in 0..m |-> IF i = m THEN e ELSE cut[i + d]]
  BY DEF Moved
<1>1. m \in Nat /\ m >= 1 /\ new[m] = e /\ \A i \in 0..m - 1 : new[i] = cut[i + d] /\ i + d \in 0..c
  BY <1>0
<1>2. /\ cut[0] \in Ends(s, p) \cup {0} /\ cut[c] = p
      /\ \A i \in 1..c : cut[i - 1] < cut[i] /\ cut[i] \in Ends(s, p)
      /\ \A x \in Ends(s, p) : x > cut[0] => \E i \in 1..c : cut[i] = x
  BY DEF LastLines
<1>3. \A i \in 0..c : cut[i] \in 0..p
  OBVIOUS
<1>4. new \in [0..m -> 0..e]
  BY <1>0, <1>1, <1>3
<1>5. new[0] \in Ends(s, e) \cup {0}
  BY <1>0, <1>1, <1>2
<1>6. ASSUME NEW i \in 1..m PROVE new[i - 1] < new[i] /\ new[i] \in Ends(s, e)
  <2>1. CASE i = m
    <3>1. new[i - 1] = cut[c]
      BY <1>0, <1>1, <2>1
    <3> QED
      BY <1>0, <1>1, <1>2, <2>1, <3>1
  <2>2. CASE i # m
    <3>1. /\ i \in 0..m - 1 /\ i - 1 \in 0..m - 1 /\ i + d \in 1..c
          /\ new[i] = cut[i + d] /\ new[i - 1] = cut[i + d - 1]
      BY <1>0, <1>1, <2>2
    <3> QED
      BY <1>0, <1>2, <3>1
  <2> QED
    BY <2>1, <2>2
<1>7. ASSUME NEW x \in Ends(s, e), x > new[0] PROVE \E i \in 1..m : new[i] = x
  <2>1. CASE x = e
    BY <1>0, <1>1, <2>1
  <2>2. CASE x # e
    <3>1. x \in Ends(s, p) /\ new[0] = cut[d]
      BY <1>0, <1>1, <2>2
    <3>2. x > cut[0]
      <4>1. d = 0 \/ (d = 1 /\ cut[0] < cut[1])
        BY <1>0, <1>2
      <4>2. cut[0] <= cut[d] /\ cut[0] \in Nat /\ cut[d] \in Nat /\ x \in Nat
        BY <1>0, <1>3, <3>1, <4>1 DEF Ends
      <4> QED
        BY <1>0, <1>7, <3>1, <4>2
    <3>3. PICK i \in 1..c : cut[i] = x
      BY <1>2, <3>1, <3>2
    <3>4. i # d
      BY <1>0, <1>7, <3>1, <3>3
    <3>5. i - d \in 1..m - 1 /\ i - d \in 1..m /\ (i - d) + d = i
      BY <1>0, <1>1, <3>4
    <3>6. new[i - d] = cut[i]
      BY <1>0, <1>1, <3>5
    <3> QED
      BY <3>3, <3>5, <3>6
  <2> QED
    BY <2>1, <2>2
<1>8. LastLines(s, e, new, m)
  BY <1>0, <1>1, <1>5, <1>6, <1>7 DEF LastLines
<1> QED
  BY <1>4, <1>8

\* Index arithmetic of the ring of lines.
SlotsMoved(n, h, c, d, m, g) ==
  /\ g = IF h + 1 < n THEN h + 1 ELSE 0
  /\ LineSlot(g, m, n, m) = h
  /\ \A i \in 1..m - 1 : /\ LineSlot(g, m, n, i) = LineSlot(h, c, n, i + d)
                         /\ LineSlot(h, c, n, i + d) \in 0..n - 1
                         /\ LineSlot(h, c, n, i + d) # h

LEMMA SlotMoves ==
  ASSUME NEW n \in Nat \ {0}, NEW h \in 0..n - 1, NEW c \in 0..n, c < n => h = c,
         NEW d, d = IF c < n THEN 0 ELSE 1, NEW m, m = c + 1 - d, NEW g, g = (h + 1) % n
  PROVE  SlotsMoved(n, h, c, d, m, g)
<1>1. (h + 1) % n = IF h + 1 < n THEN h + 1 ELSE 0
  OBVIOUS
<1>2. g = IF h + 1 < n THEN h + 1 ELSE 0
  BY <1>1
<1>3. g \in Nat /\ m \in Nat
  BY <1>2
<1>4. LineSlot(g, m, n, m) = h
  BY <1>2 DEF LineSlot
<1>5. \A i \in 1..m - 1 : /\ LineSlot(g, m, n, i) = LineSlot(h, c, n, i + d)
                         /\ LineSlot(h, c, n, i + d) \in 0..n - 1
                         /\ LineSlot(h, c, n, i + d) # h
  BY <1>2 DEF LineSlot
<1> QED
  BY <1>2, <1>4, <1>5 DEF SlotsMoved

LEMMA SlotEmitted ==
  ASSUME NEW n \in Nat \ {0}, NEW h \in 0..n - 1, NEW c \in 0..n, c < n => h = c,
         NEW i \in 1..c
  PROVE  (((h - c + n) % n) + i - 1) % n = LineSlot(h, c, n, i)
<1> DEFINE start == (h - c + n) % n
<1>1. start = IF c < n THEN 0 ELSE h
  <2>1. h - c + n = IF c < n THEN n ELSE h
    OBVIOUS
  <2> QED
    BY <2>1
<1> HIDE DEF start
<1>2. start + i - 1 \in 0..n + n - 1
  BY <1>1
<1>3. \A x \in 0..n + n - 1 : x % n = IF x < n THEN x ELSE x - n
  OBVIOUS
<1>4. (start + i - 1) % n = LineSlot(h, c, n, i)
  BY <1>1, <1>2, <1>3 DEF LineSlot
<1> QED
  BY <1>4 DEF start

\* Keep: one more line in the ring.
LEMMA RingKeeps ==
  ASSUME NEW s, NEW p \in Nat, NEW n, NEW ring, NEW h, NEW c, RingHolds(s, p, n, ring, h, c),
         NEW e \in Nat, p < e, p = 0 \/ s[p] # Torn, \A i \in p + 1..e - 1 : s[i] = Torn
  PROVE  RingHolds(s, e, n, [ring EXCEPT ![h] = SubSeq(s, p + 1, e)], (h + 1) % n,
                   Min({c + 1, n}))
<1>1. /\ n \in Nat \ {0} /\ c \in 0..n /\ h \in 0..n - 1 /\ (c < n => h = c)
      /\ ring = [j \in 0..n - 1 |-> ring[j]]
  BY DEF RingHolds
<1>2. PICK cut \in [0..c -> 0..p] :
        /\ LastLines(s, p, cut, c) /\ (c < n => cut[0] = 0)
        /\ \A i \in 1..c : ring[LineSlot(h, c, n, i)] = SubSeq(s, cut[i - 1] + 1, cut[i])
  BY DEF RingHolds
<1>d. PICK d : d = IF c < n THEN 0 ELSE 1
  OBVIOUS
<1>e. PICK m : m = c + 1 - d
  OBVIOUS
<1>f. PICK g : g = (h + 1) % n
  OBVIOUS
<1>h. PICK new : new = [i \in 0..m |-> IF i = m THEN e ELSE cut[i + d]]
  OBVIOUS
<1>r. PICK ring2 : ring2 = [ring EXCEPT ![h] = SubSeq(s, p + 1, e)]
  OBVIOUS
<1>3. Min({c + 1, n}) = m
  <2>1. c + 1 \in Int /\ n \in Int
    BY <1>1
  <2>2. Min({c + 1, n}) = IF c + 1 <= n THEN c + 1 ELSE n
    BY <2>1, MinOfTwo
  <2> QED
    BY <1>1, <1>d, <1>e, <2>2
<1>m. /\ d \in {0, 1} /\ d <= c /\ m \in 1..n /\ c \in Nat /\ (m < n => d = 0 /\ c < n)
      /\ m - 1 = c - d
  BY <1>1, <1>d, <1>e
<1>s. /\ g = IF h + 1 < n THEN h + 1 ELSE 0
      /\ LineSlot(g, m, n, m) = h
      /\ \A i \in 1..m - 1 : /\ LineSlot(g, m, n, i) = LineSlot(h, c, n, i + d)
                             /\ LineSlot(h, c, n, i + d) \in 0..n - 1
                             /\ LineSlot(h, c, n, i + d) # h
  <2>1. n \in Nat \ {0} /\ h \in 0..n - 1 /\ c \in 0..n /\ (c < n => h = c)
    BY <1>1
  <2>2. SlotsMoved(n, h, c, d, m, g)
    BY <2>1, <1>d, <1>e, <1>f, SlotMoves
  <2> QED
    BY <2>2 DEF SlotsMoved
<1>4. g \in 0..n - 1 /\ (m < n => g = m)
  BY <1>1, <1>e, <1>m, <1>s
<1>6. ring2 = [j \in 0..n - 1 |-> ring2[j]] /\ ring2[h] = SubSeq(s, p + 1, e)
      /\ \A j \in 0..n - 1 : j # h => ring2[j] = ring[j]
  BY <1>1, <1>r
<1>7. new \in [0..m -> 0..e] /\ LastLines(s, e, new, m)
  <2>1. Ends(s, e) = Ends(s, p) \cup {e}
    BY NextEnd
  <2>2. Moved(cut, c, d, e, new, m)
    BY <1>e, <1>h, <1>m DEF Moved
  <2> QED
    BY <1>2, <2>1, <2>2, LinesMove
<1>i. new[m] = e /\ \A i \in 0..m - 1 : new[i] = cut[i + d] /\ i + d \in 0..c
  BY <1>e, <1>h, <1>m
<1>8. m < n => new[0] = 0
  BY <1>2, <1>m, <1>i
<1>9. cut[c] = p
  BY <1>2 DEF LastLines
<1>10. ASSUME NEW i \in 1..m
       PROVE  ring2[LineSlot(g, m, n, i)] = SubSeq(s, new[i - 1] + 1, new[i])
  <2>1. CASE i = m
    <3>1. i - 1 \in 0..m - 1 /\ (i - 1) + d = c
      BY <1>m, <2>1
    <3>2. new[i] = e /\ new[i - 1] = p
      BY <1>i, <1>9, <2>1, <3>1
    <3> QED
      BY <1>s, <1>6, <2>1, <3>2
  <2>2. CASE i # m
    <3>1. PICK k \in 1..c : k = i + d
      BY <1>m, <2>2
    <3>2. i \in 1..m - 1 /\ i \in 0..m - 1 /\ i - 1 \in 0..m - 1 /\ (i - 1) + d = k - 1
      BY <1>m, <2>2, <3>1
    <3>3. new[i] = cut[k] /\ new[i - 1] = cut[k - 1]
      BY <1>i, <3>1, <3>2
    <3>4. ring2[LineSlot(g, m, n, i)] = ring[LineSlot(h, c, n, k)]
      BY <1>s, <1>6, <3>1, <3>2
    <3>5. ring[LineSlot(h, c, n, k)] = SubSeq(s, cut[k - 1] + 1, cut[k])
      BY <1>2
    <3> QED
      BY <3>3, <3>4, <3>5
  <2> QED
    BY <2>1, <2>2
<1>11. RingHolds(s, e, n, ring2, g, m)
  <2>1. n \in Nat \ {0} /\ m \in 0..n /\ g \in 0..n - 1 /\ (m < n => g = m)
    BY <1>1, <1>4, <1>m
  <2> QED
    BY <1>6, <1>7, <1>8, <1>10, <2>1 DEF RingHolds
<1> QED
  BY <1>3, <1>11, <1>f, <1>r

-----------------------------------------------------------------------------
(* ?lines=N: what is answered *)

\* TailIsNewest of an answer to a scan that has read p entries of s.
TailAnswer(s, p, n, out) ==
  /\ Len(out) \in Nat /\ Len(out) <= n
  /\ \E cut \in [0..Len(out) -> 0..p] :
       /\ LastLines(s, p, cut, Len(out)) /\ (Len(out) < n => cut[0] = 0)
       /\ out = [i \in 1..Len(out) |-> SubSeq(s, cut[i - 1] + 1, cut[i])]

\* Emit reads the ring oldest line first.
LEMMA RingEmitted ==
  ASSUME NEW s, NEW p \in Nat, NEW n, NEW ring, NEW h, NEW c, RingHolds(s, p, n, ring, h, c),
         NEW out, out = [i \in 1..c |-> ring[(((h - c + n) % n) + i - 1) % n]]
  PROVE  TailAnswer(s, p, n, out)
<1>1. n \in Nat \ {0} /\ c \in 0..n /\ h \in 0..n - 1 /\ (c < n => h = c)
  BY DEF RingHolds
<1>2. PICK cut \in [0..c -> 0..p] :
        /\ LastLines(s, p, cut, c) /\ (c < n => cut[0] = 0)
        /\ \A i \in 1..c : ring[LineSlot(h, c, n, i)] = SubSeq(s, cut[i - 1] + 1, cut[i])
  BY DEF RingHolds
<1>3. \A i \in 1..c : (((h - c + n) % n) + i - 1) % n = LineSlot(h, c, n, i)
  BY <1>1, SlotEmitted
<1>4. out = [i \in 1..c |-> SubSeq(s, cut[i - 1] + 1, cut[i])]
  BY <1>2, <1>3
<1>5. Len(out) = c
  <2>1. c \in Nat
    BY <1>1
  <2> QED
    BY <1>4, <2>1
<1>6. c \in Nat /\ c <= n
  BY <1>1
<1> QED
  BY <1>2, <1>4, <1>5, <1>6 DEF TailAnswer

LEMMA TailKept ==
  ASSUME NEW s, NEW t, Grown(s, t), NEW p \in 0..Len(s), NEW n, NEW out, TailAnswer(s, p, n, out)
  PROVE  TailAnswer(t, p, n, out)
<1>1. PICK m \in Nat : m = Len(out)
  BY DEF TailAnswer
<1>2. PICK cut \in [0..m -> 0..p] :
        /\ LastLines(s, p, cut, m) /\ (m < n => cut[0] = 0)
        /\ out = [i \in 1..m |-> SubSeq(s, cut[i - 1] + 1, cut[i])]
  BY <1>1 DEF TailAnswer
<1>3. LastLines(t, p, cut, m)
  BY <1>2, EndsKept DEF LastLines
<1>4. \A i \in 1..m : SubSeq(t, cut[i - 1] + 1, cut[i]) = SubSeq(s, cut[i - 1] + 1, cut[i])
  <2> SUFFICES ASSUME NEW i \in 1..m
               PROVE  SubSeq(t, cut[i - 1] + 1, cut[i]) = SubSeq(s, cut[i - 1] + 1, cut[i])
    OBVIOUS
  <2>1. cut[i - 1] \in 0..p /\ cut[i] \in 0..p /\ Len(s) \in Nat
    BY DEF Grown
  <2>2. cut[i - 1] + 1 \in Nat \ {0} /\ cut[i] \in 0..Len(s)
    BY <2>1
  <2> QED
    BY <2>2, PartKept
<1>5. out = [i \in 1..m |-> SubSeq(t, cut[i - 1] + 1, cut[i])]
  BY <1>2, <1>4
<1>6. m <= n
  BY <1>1 DEF TailAnswer
<1> QED
  BY <1>1, <1>2, <1>3, <1>5, <1>6 DEF TailAnswer

-----------------------------------------------------------------------------
(* ?since&until: what is gathered *)

\* The hits of the window (a, b] among the first p entries of s.
Within(a, b, r) == (a # 0 => r > a) /\ (b # 0 => r <= b)
Hits(a, b, s, p) ==
  {i \in 1..p : s[i] # Torn /\ (i = 1 \/ s[i - 1] # Torn) /\ Within(a, b, s[i])}

\* out is what stands at the places at, in order.
Picked(s, p, H, out, at) ==
  /\ at \in [1..Len(out) -> 1..p]
  /\ \A i \in 1..Len(out) : at[i] \in H /\ out[i] = <<s[at[i]]>>
  /\ \A i, j \in 1..Len(out) : i < j => at[i] < at[j]

\* Every hit so far has been taken.
OutType(out) == out \in Seq(Seq(Nat)) /\ Len(out) \in 0..MaxAuditRangeLines
Gathered(a, b, s, p, out) ==
  /\ OutType(out)
  /\ \E at : /\ Picked(s, p, Hits(a, b, s, p), out, at)
             /\ \A e \in Hits(a, b, s, p) : \E i \in 1..Len(out) : at[i] = e

\* RangeIsComplete of an answer.
RangeAnswer(a, b, s, p, had, out) ==
  LET full == Len(out) = MaxAuditRangeLines IN
  /\ OutType(out) /\ (p >= had \/ full)
  /\ \E at : /\ Picked(s, p, Hits(a, b, s, p), out, at)
             /\ \A e \in Hits(a, b, s, p) :
                  (\E i \in 1..Len(out) : at[i] = e) \/ (full /\ \A i \in 1..Len(out) : at[i] < e)

LEMMA HitsKept ==
  ASSUME NEW s, NEW t, Grown(s, t), NEW p \in 0..Len(s), NEW a, NEW b
  PROVE  Hits(a, b, t, p) = Hits(a, b, s, p)
<1>1. Len(s) \in Nat /\ \A i \in 1..Len(s) : t[i] = s[i]
  BY DEF Grown
<1>2. \A i \in 1..p : t[i] = s[i] /\ (i # 1 => t[i - 1] = s[i - 1])
  BY <1>1
<1> QED
  BY <1>2 DEF Hits

LEMMA PickedKept ==
  ASSUME NEW s, NEW t, Grown(s, t), NEW p \in 0..Len(s), NEW H, NEW out, NEW at,
         Picked(s, p, H, out, at)
  PROVE  Picked(t, p, H, out, at)
<1>1. Len(s) \in Nat /\ \A i \in 1..Len(s) : t[i] = s[i]
  BY DEF Grown
<1>2. \A i \in 1..p : t[i] = s[i]
  BY <1>1
<1>3. \A i \in 1..Len(out) : at[i] \in 1..p
  BY DEF Picked
<1> QED
  BY <1>2, <1>3 DEF Picked

LEMMA GatheredKept ==
  ASSUME NEW s, NEW t, Grown(s, t), NEW p \in 0..Len(s), NEW a, NEW b, NEW out
  PROVE  /\ Gathered(a, b, s, p, out) => Gathered(a, b, t, p, out)
         /\ \A had : RangeAnswer(a, b, s, p, had, out) => RangeAnswer(a, b, t, p, had, out)
<1>1. Hits(a, b, t, p) = Hits(a, b, s, p)
  BY HitsKept
<1>2. \A H, at : Picked(s, p, H, out, at) => Picked(t, p, H, out, at)
  BY PickedKept
<1> QED
  BY <1>1, <1>2 DEF Gathered, RangeAnswer

\* A line behind p is a hit if it is one record of the window.
HitsMoved(a, b, s, p, e) ==
  Hits(a, b, s, e) = Hits(a, b, s, p) \cup
    (IF e = p + 1 /\ s[e] # Torn /\ Within(a, b, s[e]) THEN {e} ELSE {})

LEMMA HitsMove ==
  ASSUME NEW s, NEW a, NEW b, NEW p \in Nat, NEW e \in Nat, p < e, p = 0 \/ s[p] # Torn,
         \A i \in p + 1..e - 1 : s[i] = Torn
  PROVE  HitsMoved(a, b, s, p, e)
<1>1. ASSUME NEW i \in Hits(a, b, s, e), i # e PROVE i \in Hits(a, b, s, p)
  <2>1. i \in 1..e /\ s[i] # Torn
    BY DEF Hits
  <2>2. i \in 1..p
    <3>1. ~ (i \in p + 1..e - 1)
      BY <2>1
    <3> QED
      BY <1>1, <2>1, <3>1
  <2> QED
    BY <2>2 DEF Hits
<1>2. ASSUME NEW i \in Hits(a, b, s, p) PROVE i \in Hits(a, b, s, e)
  <2>1. i \in 1..p
    BY DEF Hits
  <2>2. i \in 1..e
    BY <2>1
  <2> QED
    BY <2>2 DEF Hits
<1>3. ASSUME e \in Hits(a, b, s, e) PROVE e = p + 1 /\ s[e] # Torn /\ Within(a, b, s[e])
  <2>1. s[e] # Torn /\ (e = 1 \/ s[e - 1] # Torn) /\ Within(a, b, s[e])
    BY <1>3 DEF Hits
  <2>2. CASE e # p + 1
    <3>1. e - 1 \in p + 1..e - 1 /\ e # 1
      BY <2>2
    <3> QED
      BY <2>1, <3>1
  <2> QED
    BY <2>1, <2>2
<1>4. ASSUME e = p + 1, s[e] # Torn, Within(a, b, s[e]) PROVE e \in Hits(a, b, s, e)
  <2>1. e \in 1..e /\ (e = 1 \/ s[e - 1] # Torn)
    BY <1>4
  <2> QED
    BY <1>4, <2>1 DEF Hits
<1> QED
  BY <1>1, <1>2, <1>3, <1>4 DEF HitsMoved

\* The same places serve a longer part of the file.
LEMMA PickedOn ==
  ASSUME NEW s, NEW p \in Nat, NEW e \in Nat, p <= e, NEW H, NEW G, H \subseteq G, NEW out,
         NEW at, Picked(s, p, H, out, at)
  PROVE  Picked(s, e, G, out, at)
<1>1. \A x \in 1..p : x \in 1..e
  OBVIOUS
<1>2. at \in [1..Len(out) -> 1..e]
  BY <1>1 DEF Picked
<1> QED
  BY <1>2 DEF Picked

\* Filter passes over a line that is no hit.
LEMMA GatheredSkips ==
  ASSUME NEW s, NEW a, NEW b, NEW p \in Nat, NEW e \in Nat, p <= e, NEW out,
         Gathered(a, b, s, p, out), Hits(a, b, s, e) = Hits(a, b, s, p)
  PROVE  Gathered(a, b, s, e, out)
<1>1. PICK at : /\ Picked(s, p, Hits(a, b, s, p), out, at)
                /\ \A x \in Hits(a, b, s, p) : \E i \in 1..Len(out) : at[i] = x
  BY DEF Gathered
<1>2. Picked(s, e, Hits(a, b, s, e), out, at)
  BY <1>1, PickedOn
<1> QED
  BY <1>1, <1>2 DEF Gathered

\* Filter takes a hit.
LEMMA GatheredTakes ==
  ASSUME NEW s \in Seq(Nat), NEW a, NEW b, NEW p \in Nat, NEW e \in 1..Len(s), p < e, NEW out,
         Gathered(a, b, s, p, out), Len(out) < MaxAuditRangeLines,
         Hits(a, b, s, e) = Hits(a, b, s, p) \cup {e}
  PROVE  Gathered(a, b, s, e, Append(out, <<s[e]>>))
<1> DEFINE G == Hits(a, b, s, e)
<1>1. PICK at : /\ Picked(s, p, Hits(a, b, s, p), out, at)
                /\ \A x \in Hits(a, b, s, p) : \E i \in 1..Len(out) : at[i] = x
  BY DEF Gathered
<1>2. PICK m \in Nat : m = Len(out)
  BY DEF Gathered, OutType
<1>3. s[e] \in Nat /\ <<s[e]>> \in Seq(Nat)
  OBVIOUS
<1>4. PICK new : new = Append(out, <<s[e]>>)
  OBVIOUS
<1>5. /\ new \in Seq(Seq(Nat)) /\ Len(new) = m + 1
      /\ \A i \in 1..m : new[i] = out[i]
      /\ new[m + 1] = <<s[e]>>
  BY <1>2, <1>3, <1>4 DEF Gathered, OutType
<1>6. OutType(new)
  BY <1>2, <1>5, QueryAssumption DEF OutType
<1>7. PICK at2 : at2 = [i \in 1..m + 1 |-> IF i = m + 1 THEN e ELSE at[i]]
  OBVIOUS
<1>8. /\ \A i \in 1..m : at[i] \in 1..p /\ at[i] \in Hits(a, b, s, p) /\ out[i] = <<s[at[i]]>>
      /\ \A i, j \in 1..m : i < j => at[i] < at[j]
  BY <1>1, <1>2 DEF Picked
<1>9. at2[m + 1] = e /\ \A i \in 1..m : at2[i] = at[i]
  BY <1>7
<1>p. PICK last : last = Len(s)
  OBVIOUS
<1>e. e \in Nat /\ e >= 1
  BY <1>p
<1>10. at2 \in [1..m + 1 -> 1..e]
  <2>1. \A i \in 1..m : at[i] \in 1..e
    BY <1>8, <1>e
  <2> QED
    BY <1>e, <1>7, <2>1
<1>11. Picked(s, e, G, new, at2)
  <2>1. \A i \in 1..m + 1 : at2[i] \in G /\ new[i] = <<s[at2[i]]>>
    <3>1. e \in G /\ new[m + 1] = <<s[e]>>
      BY <1>5
    <3>2. \A i \in 1..m : at2[i] \in G /\ new[i] = <<s[at2[i]]>>
      BY <1>5, <1>8, <1>9
    <3> HIDE DEF G
    <3>3. \A i \in 1..m + 1 : i = m + 1 \/ i \in 1..m
      OBVIOUS
    <3> QED
      BY <1>9, <3>1, <3>2, <3>3
  <2>2. \A i, j \in 1..m + 1 : i < j => at2[i] < at2[j]
    <3> SUFFICES ASSUME NEW i \in 1..m + 1, NEW j \in 1..m + 1, i < j PROVE at2[i] < at2[j]
      OBVIOUS
    <3>1. i \in 1..m
      OBVIOUS
    <3>2. CASE j = m + 1
      <4>1. at[i] \in 1..p
        BY <1>8, <3>1
      <4> QED
        BY <1>e, <1>9, <3>1, <3>2, <4>1
    <3>3. CASE j \in 1..m
      BY <1>8, <1>9, <3>1, <3>3
    <3> QED
      BY <3>2, <3>3
  <2> QED
    BY <1>5, <1>10, <2>1, <2>2 DEF Picked
<1>12. \A x \in G : \E i \in 1..m + 1 : at2[i] = x
  <2>1. \A x \in Hits(a, b, s, p) : \E i \in 1..m : at[i] = x
    BY <1>1, <1>2
  <2>2. m + 1 \in 1..m + 1 /\ \A i \in 1..m : i \in 1..m + 1
    OBVIOUS
  <2> QED
    BY <1>9, <2>1, <2>2
<1> HIDE DEF G
<1>13. Gathered(a, b, s, e, new)
  <2>1. Len(new) = m + 1
    BY <1>5
  <2>2. \A x \in Hits(a, b, s, e) : \E i \in 1..Len(new) : at2[i] = x
    BY <1>12, <2>1 DEF G
  <2>3. Picked(s, e, Hits(a, b, s, e), new, at2)
    BY <1>11 DEF G
  <2> QED
    BY <1>6, <2>2, <2>3 DEF Gathered
<1> QED
  BY <1>4, <1>13

\* The cap is met when another line has been read: that line is behind the
\* answer, hit or not.
LEMMA GatheredStops ==
  ASSUME NEW s, NEW a, NEW b, NEW p \in Nat, NEW e \in Nat, p < e, NEW out, NEW had,
         Gathered(a, b, s, p, out), Len(out) >= MaxAuditRangeLines,
         Hits(a, b, s, p) \subseteq Hits(a, b, s, e),
         Hits(a, b, s, e) \subseteq Hits(a, b, s, p) \cup {e}
  PROVE  RangeAnswer(a, b, s, e, had, out)
<1>1. PICK at : /\ Picked(s, p, Hits(a, b, s, p), out, at)
                /\ \A x \in Hits(a, b, s, p) : \E i \in 1..Len(out) : at[i] = x
  BY DEF Gathered
<1>2. Picked(s, e, Hits(a, b, s, e), out, at)
  BY <1>1, PickedOn
<1>3. Len(out) = MaxAuditRangeLines /\ OutType(out)
  BY QueryAssumption DEF Gathered, OutType
<1>4. \A i \in 1..Len(out) : at[i] < e
  <2>1. \A i \in 1..Len(out) : at[i] \in 1..p
    BY <1>1 DEF Picked
  <2> QED
    BY <2>1
<1> QED
  BY <1>1, <1>2, <1>3, <1>4 DEF RangeAnswer

\* The end of the file.
LEMMA GatheredEnds ==
  ASSUME NEW s, NEW a, NEW b, NEW p, NEW out, NEW had, Gathered(a, b, s, p, out), p >= had
  PROVE  RangeAnswer(a, b, s, p, had, out)
BY DEF Gathered, RangeAnswer

-----------------------------------------------------------------------------
(* The request *)

\* The request, with anything in the fields that hold lines.
Scan(B) ==
  [st : {"none", "lines", "time", "done"}, since : Nat, until : Nat, ino : Nat, pos : Nat,
   had : Nat, linesN : Nat, ring : B, head : B, count : B, out : B]
ScanFields(q) == \E B : q \in Scan(B)

\* The fields a scan changes, set to these values.
Put(q, st, pos, ring, head, count, out) ==
  [st |-> st, since |-> q.since, until |-> q.until, ino |-> q.ino, pos |-> pos, had |-> q.had,
   linesN |-> q.linesN, ring |-> ring, head |-> head, count |-> count, out |-> out]

LEMMA PutFields ==
  ASSUME NEW q, ScanFields(q), NEW st \in {"none", "lines", "time", "done"}, NEW pos \in Nat,
         NEW ring, NEW head, NEW count, NEW out
  PROVE  ScanFields(Put(q, st, pos, ring, head, count, out))
<1>1. PICK B : q \in Scan(B)
  BY DEF ScanFields
<1>2. q.since \in Nat /\ q.until \in Nat /\ q.ino \in Nat /\ q.had \in Nat /\ q.linesN \in Nat
  BY <1>1 DEF Scan
<1>3. Put(q, st, pos, ring, head, count, out) \in Scan({ring, head, count, out})
  BY <1>2 DEF Put, Scan
<1> QED
  BY <1>3 DEF ScanFields

\* What the steps of a scan make of a request.
Updated(q, e, line) ==
  /\ [q EXCEPT !.pos = e] = Put(q, q.st, e, q.ring, q.head, q.count, q.out)
  /\ [[q EXCEPT !.pos = e] EXCEPT !.st = "done"]
       = Put(q, "done", e, q.ring, q.head, q.count, q.out)
  /\ [[q EXCEPT !.pos = e] EXCEPT !.out = Append([q EXCEPT !.pos = e].out, line)]
       = Put(q, q.st, e, q.ring, q.head, q.count, Append(q.out, line))
  /\ Keep([q EXCEPT !.pos = e], line)
       = Put(q, q.st, e, [q.ring EXCEPT ![q.head] = line], (q.head + 1) % q.linesN,
             Min({q.count + 1, q.linesN}), q.out)
  /\ Answer(q) = Put(q, "done", q.pos, <<>>, 0, 0,
                     IF q.st = "lines" THEN Emit(q) ELSE q.out)

LEMMA Updates == ASSUME NEW q, ScanFields(q), NEW e, NEW line PROVE Updated(q, e, line)
<1>1. PICK B : q \in Scan(B)
  BY DEF ScanFields
<1>2. [q EXCEPT !.pos = e] = Put(q, q.st, e, q.ring, q.head, q.count, q.out)
  BY <1>1 DEF Scan, Put
<1>3. [[q EXCEPT !.pos = e] EXCEPT !.st = "done"]
        = Put(q, "done", e, q.ring, q.head, q.count, q.out)
  <2>1. [Put(q, q.st, e, q.ring, q.head, q.count, q.out) EXCEPT !.st = "done"]
          = Put(q, "done", e, q.ring, q.head, q.count, q.out)
    BY DEF Put
  <2> QED
    BY <1>2, <2>1
<1>4. ASSUME NEW o
      PROVE  [[q EXCEPT !.pos = e] EXCEPT !.out = o]
               = Put(q, q.st, e, q.ring, q.head, q.count, o)
  <2>1. [Put(q, q.st, e, q.ring, q.head, q.count, q.out) EXCEPT !.out = o]
          = Put(q, q.st, e, q.ring, q.head, q.count, o)
    BY DEF Put
  <2> QED
    BY <1>2, <2>1
<1>5. [q EXCEPT !.pos = e].out = q.out
  BY <1>1 DEF Scan
<1>6. /\ [q EXCEPT !.pos = e].ring = q.ring /\ [q EXCEPT !.pos = e].head = q.head
      /\ [q EXCEPT !.pos = e].linesN = q.linesN /\ [q EXCEPT !.pos = e].count = q.count
  BY <1>1 DEF Scan
<1>7. ASSUME NEW r, NEW h, NEW c
      PROVE  [[q EXCEPT !.pos = e] EXCEPT !.ring = r, !.head = h, !.count = c]
               = Put(q, q.st, e, r, h, c, q.out)
  <2>1. ASSUME NEW x
        PROVE  [x EXCEPT !.ring = r, !.head = h, !.count = c]
                 = [[[x EXCEPT !.ring = r] EXCEPT !.head = h] EXCEPT !.count = c]
    OBVIOUS
  <2>2. [Put(q, q.st, e, q.ring, q.head, q.count, q.out) EXCEPT !.ring = r]
          = Put(q, q.st, e, r, q.head, q.count, q.out)
    BY DEF Put
  <2>3. [Put(q, q.st, e, r, q.head, q.count, q.out) EXCEPT !.head = h]
          = Put(q, q.st, e, r, h, q.count, q.out)
    BY DEF Put
  <2>4. [Put(q, q.st, e, r, h, q.count, q.out) EXCEPT !.count = c]
          = Put(q, q.st, e, r, h, c, q.out)
    BY DEF Put
  <2> QED
    BY <1>2, <2>1, <2>2, <2>3, <2>4
<1>8. Keep([q EXCEPT !.pos = e], line)
        = [[q EXCEPT !.pos = e] EXCEPT !.ring = [q.ring EXCEPT ![q.head] = line],
             !.head = (q.head + 1) % q.linesN, !.count = Min({q.count + 1, q.linesN})]
  <2> DEFINE r == [q EXCEPT !.pos = e]
  <2>1. Keep(r, line)
          = [r EXCEPT !.ring[r.head] = line, !.head = (r.head + 1) % r.linesN,
                      !.count = Min({r.count + 1, r.linesN})]
    BY DEF Keep
  <2> HIDE DEF r
  <2>2. Keep(r, line)
          = [r EXCEPT !.ring = [r.ring EXCEPT ![r.head] = line], !.head = (r.head + 1) % r.linesN,
                      !.count = Min({r.count + 1, r.linesN})]
    BY <2>1
  <2>3. r.ring = q.ring /\ r.head = q.head /\ r.linesN = q.linesN /\ r.count = q.count
    BY <1>6 DEF r
  <2>4. Keep(r, line)
          = [r EXCEPT !.ring = [q.ring EXCEPT ![q.head] = line], !.head = (q.head + 1) % q.linesN,
                      !.count = Min({q.count + 1, q.linesN})]
    BY <2>2, <2>3
  <2> QED
    BY <2>4 DEF r
<1>9. Keep([q EXCEPT !.pos = e], line)
        = Put(q, q.st, e, [q.ring EXCEPT ![q.head] = line], (q.head + 1) % q.linesN,
              Min({q.count + 1, q.linesN}), q.out)
  BY <1>7, <1>8
<1>10. ASSUME NEW o
       PROVE  [q EXCEPT !.st = "done", !.out = o, !.ring = <<>>, !.head = 0, !.count = 0]
                = Put(q, "done", q.pos, <<>>, 0, 0, o)
  <2>1. ASSUME NEW x
        PROVE  [x EXCEPT !.st = "done", !.out = o, !.ring = <<>>, !.head = 0, !.count = 0]
                 = [[[x EXCEPT !.st = "done"] EXCEPT !.out = o]
                      EXCEPT !.ring = <<>>, !.head = 0, !.count = 0]
    OBVIOUS
  <2>2. [q EXCEPT !.st = "done"] = Put(q, "done", q.pos, q.ring, q.head, q.count, q.out)
    BY <1>1 DEF Scan, Put
  <2>3. [Put(q, "done", q.pos, q.ring, q.head, q.count, q.out) EXCEPT !.out = o]
          = Put(q, "done", q.pos, q.ring, q.head, q.count, o)
    BY DEF Put
  <2>4. [Put(q, "done", q.pos, q.ring, q.head, q.count, o)
           EXCEPT !.ring = <<>>, !.head = 0, !.count = 0]
          = Put(q, "done", q.pos, <<>>, 0, 0, o)
    <3>1. ASSUME NEW x
          PROVE  [x EXCEPT !.ring = <<>>, !.head = 0, !.count = 0]
                   = [[[x EXCEPT !.ring = <<>>] EXCEPT !.head = 0] EXCEPT !.count = 0]
      OBVIOUS
    <3>2. [Put(q, "done", q.pos, q.ring, q.head, q.count, o) EXCEPT !.ring = <<>>]
            = Put(q, "done", q.pos, <<>>, q.head, q.count, o)
      BY DEF Put
    <3>3. [Put(q, "done", q.pos, <<>>, q.head, q.count, o) EXCEPT !.head = 0]
            = Put(q, "done", q.pos, <<>>, 0, q.count, o)
      BY DEF Put
    <3>4. [Put(q, "done", q.pos, <<>>, 0, q.count, o) EXCEPT !.count = 0]
            = Put(q, "done", q.pos, <<>>, 0, 0, o)
      BY DEF Put
    <3> QED
      BY <3>1, <3>2, <3>3, <3>4
  <2> QED
    BY <2>1, <2>2, <2>3, <2>4
<1>11. Answer(q) = Put(q, "done", q.pos, <<>>, 0, 0, IF q.st = "lines" THEN Emit(q) ELSE q.out)
  BY <1>10 DEF Answer
<1> QED
  BY <1>2, <1>3, <1>4, <1>5, <1>9, <1>11 DEF Updated

\* What a request holds, or answers, has its place in the file s it reads.
Held(q, s) ==
  /\ q.pos \in 0..Len(s) /\ q.had \in 0..Len(s)
  /\ q.st = "lines" => RingHolds(s, q.pos, q.linesN, q.ring, q.head, q.count)
  /\ q.st = "time" => q.linesN = 0 /\ Gathered(q.since, q.until, s, q.pos, q.out)
  /\ (q.st = "done" /\ q.linesN # 0) => q.pos >= q.had /\ TailAnswer(s, q.pos, q.linesN, q.out)
  /\ (q.st = "done" /\ q.linesN = 0) => RangeAnswer(q.since, q.until, s, q.pos, q.had, q.out)

LEMMA HeldKept ==
  ASSUME NEW s, NEW t, Grown(s, t), NEW q, Held(q, s) PROVE Held(q, t)
<1>1. Len(s) \in Nat /\ Len(t) \in Nat /\ Len(s) <= Len(t)
  BY DEF Grown
<1>2. q.pos \in 0..Len(s) /\ q.had \in 0..Len(s)
  BY DEF Held
<1>3. q.pos \in 0..Len(t) /\ q.had \in 0..Len(t)
  BY <1>1, <1>2
<1>4. RingHolds(s, q.pos, q.linesN, q.ring, q.head, q.count) =>
        RingHolds(t, q.pos, q.linesN, q.ring, q.head, q.count)
  BY <1>2, RingKept
<1>5. TailAnswer(s, q.pos, q.linesN, q.out) => TailAnswer(t, q.pos, q.linesN, q.out)
  BY <1>2, TailKept
<1>6. /\ Gathered(q.since, q.until, s, q.pos, q.out) =>
           Gathered(q.since, q.until, t, q.pos, q.out)
      /\ RangeAnswer(q.since, q.until, s, q.pos, q.had, q.out) =>
           RangeAnswer(q.since, q.until, t, q.pos, q.had, q.out)
  BY <1>2, GatheredKept
<1> QED
  BY <1>3, <1>4, <1>5, <1>6 DEF Held

\* The line from p + 1 to e.
LineIs(s, p, e, line) ==
  /\ Intact(line) <=> e = p + 1 /\ s[e] # Torn
  /\ e = p + 1 => line = <<s[e]>> /\ line[1] = s[e]

LEMMA LineRead ==
  ASSUME NEW s \in Seq(Nat), NEW p \in Nat, NEW e \in 1..Len(s), p < e,
         \A i \in p + 1..e - 1 : s[i] = Torn, NEW line, line = SubSeq(s, p + 1, e)
  PROVE  LineIs(s, p, e, line)
<1>0. PICK last \in Nat : last = Len(s)
  OBVIOUS
<1>1. line = [i \in 1..e - p |-> s[p + i]] /\ Len(line) = e - p
  <2>1. line = [i \in 1..e - (p + 1) + 1 |-> s[(p + 1) + i - 1]]
    OBVIOUS
  <2>2. e - (p + 1) + 1 = e - p /\ e - p \in Nat /\ \A i \in 1..e - p : (p + 1) + i - 1 = p + i
    BY <1>0
  <2>3. line = [i \in 1..e - p |-> s[p + i]]
    BY <2>1, <2>2
  <2> QED
    BY <2>2, <2>3
<1>2. e - p \in Nat /\ (e - p = 1 <=> e = p + 1) /\ 1 \in 1..e - p
  BY <1>0
<1>3. line[1] = s[p + 1]
  BY <1>1, <1>2
<1>4. Intact(line) <=> e = p + 1 /\ s[e] # Torn
  BY <1>1, <1>2, <1>3 DEF Intact
<1>5. ASSUME e = p + 1 PROVE line = <<s[e]>>
  <2>1. line = [i \in 1..1 |-> s[p + i]]
    BY <1>1, <1>2, <1>5
  <2>2. \A i \in 1..1 : i = 1
    OBVIOUS
  <2>3. line = [i \in 1..1 |-> s[e]]
    BY <1>5, <2>1, <2>2
  <2>4. ASSUME NEW x PROVE <<x>> = [i \in 1..1 |-> x]
    OBVIOUS
  <2> QED
    BY <2>3, <2>4
<1> QED
  BY <1>3, <1>4, <1>5 DEF LineIs

\* InWindow looks at the bounds of the request.
LEMMA WindowIs == \A q, r : InWindow(q, r) <=> Within(q.since, q.until, r)
BY DEF InWindow, Within

\* Between two lines a scan stands behind a whole record, so that what is
\* appended next begins a line for it too.
AtLineStart(q, s) == q.pos = 0 \/ s[q.pos] # Torn

\* Take, in both modes: r is q with the line up to e taken.
Took(q, s, e, r) ==
  /\ ScanFields(r) /\ Held(r, s) /\ r.pos = e /\ r.had = q.had /\ r.ino = q.ino
  /\ r.st \in {q.st, "done"}

LEMMA LineTaken ==
  ASSUME NEW q, ScanFields(q), q.st \in {"lines", "time"}, NEW s \in Seq(Nat), Held(q, s),
         AtLineStart(q, s), NEW e \in 1..Len(s), q.pos < e,
         \A i \in q.pos + 1..e - 1 : s[i] = Torn,
         NEW r, r = Take([q EXCEPT !.pos = e], SubSeq(s, q.pos + 1, e))
  PROVE  Took(q, s, e, r)
<1>0. PICK last \in Nat : last = Len(s)
  OBVIOUS
<1>1. q.pos \in 0..Len(s) /\ q.had \in 0..Len(s)
  BY DEF Held
<1>2. /\ q.pos \in Nat /\ e \in Nat /\ e \in 0..Len(s)
      /\ q.st \in {"none", "lines", "time", "done"}
  BY <1>0, <1>1
<1>f. \A st \in {"none", "lines", "time", "done"} : \A ring, head, count, out :
        ScanFields(Put(q, st, e, ring, head, count, out))
  BY <1>2, PutFields
<1>p. PICK p \in Nat : p = q.pos
  BY <1>2
<1>g. /\ p < e /\ (p = 0 \/ s[p] # Torn) /\ \A i \in p + 1..e - 1 : s[i] = Torn
  BY <1>p DEF AtLineStart
<1> DEFINE q2 == [q EXCEPT !.pos = e]
           line == SubSeq(s, q.pos + 1, e)
<1>u. \A x : Updated(q, e, x)
  BY Updates
<1>3. q2 = Put(q, q.st, e, q.ring, q.head, q.count, q.out)
  BY <1>u DEF Updated
<1>4. /\ q2.st = q.st /\ q2.out = q.out /\ q2.since = q.since /\ q2.until = q.until
  BY <1>3 DEF Put
<1>5. CASE q.st = "lines"
  <2>1. r = Keep(q2, line)
    BY <1>4, <1>5 DEF Take
  <2>a. PICK ring, head, count : /\ ring = [q.ring EXCEPT ![q.head] = SubSeq(s, p + 1, e)]
                                 /\ head = (q.head + 1) % q.linesN
                                 /\ count = Min({q.count + 1, q.linesN})
    OBVIOUS
  <2>2. r = Put(q, q.st, e, ring, head, count, q.out)
    <3>1. Keep(q2, line) = Put(q, q.st, e, [q.ring EXCEPT ![q.head] = line],
                               (q.head + 1) % q.linesN, Min({q.count + 1, q.linesN}), q.out)
      BY <1>u DEF Updated
    <3> QED
      BY <1>p, <2>1, <2>a, <3>1
  <2>3. RingHolds(s, p, q.linesN, q.ring, q.head, q.count)
    BY <1>5, <1>p DEF Held
  <2>4. RingHolds(s, e, q.linesN, ring, head, count)
    BY <1>2, <1>g, <2>a, <2>3, RingKeeps
  <2>5. /\ r.st = "lines" /\ r.pos = e /\ r.had = q.had /\ r.ino = q.ino /\ r.linesN = q.linesN
        /\ r.ring = ring /\ r.head = head /\ r.count = count
    BY <1>5, <2>2 DEF Put
  <2>6. Held(r, s)
    BY <1>1, <1>2, <2>4, <2>5 DEF Held
  <2>7. ScanFields(r)
    BY <1>2, <1>f, <2>2
  <2> QED
    BY <1>5, <2>5, <2>6, <2>7 DEF Took
<1>6. CASE q.st = "time"
  <2>1. q.linesN = 0 /\ Gathered(q.since, q.until, s, p, q.out)
    BY <1>6, <1>p DEF Held
  <2>2. Hits(q.since, q.until, s, e) = Hits(q.since, q.until, s, p) \cup
          (IF e = p + 1 /\ s[e] # Torn /\ Within(q.since, q.until, s[e]) THEN {e} ELSE {})
    <3>1. HitsMoved(q.since, q.until, s, p, e)
      BY <1>2, <1>g, HitsMove
    <3> QED
      BY <3>1 DEF HitsMoved
  <2>3. PICK l : l = SubSeq(s, p + 1, e)
    OBVIOUS
  <2>4. /\ Intact(l) <=> e = p + 1 /\ s[e] # Torn
        /\ e = p + 1 => l = <<s[e]>> /\ l[1] = s[e]
    <3>1. LineIs(s, p, e, l)
      BY <1>g, <2>3, LineRead
    <3> QED
      BY <3>1 DEF LineIs
  <2>5. r = IF Len(q.out) >= MaxAuditRangeLines THEN [q2 EXCEPT !.st = "done"] ELSE Filter(q2, l)
    BY <1>4, <1>6, <1>p, <2>3 DEF Take
  <2>6. CASE Len(q.out) >= MaxAuditRangeLines
    <3>1. r = Put(q, "done", e, q.ring, q.head, q.count, q.out)
      BY <1>u, <2>5, <2>6 DEF Updated
    <3>2. RangeAnswer(q.since, q.until, s, e, q.had, q.out)
      <4>1. /\ Hits(q.since, q.until, s, p) \subseteq Hits(q.since, q.until, s, e)
            /\ Hits(q.since, q.until, s, e) \subseteq Hits(q.since, q.until, s, p) \cup {e}
        BY <2>2
      <4> QED
        BY <1>2, <1>g, <2>1, <2>6, <4>1, GatheredStops
    <3>3. /\ r.st = "done" /\ r.pos = e /\ r.had = q.had /\ r.ino = q.ino /\ r.linesN = q.linesN
          /\ r.since = q.since /\ r.until = q.until /\ r.out = q.out
      BY <3>1 DEF Put
    <3>4. Held(r, s)
      BY <1>1, <1>2, <2>1, <3>2, <3>3 DEF Held
    <3>5. ScanFields(r)
      BY <1>f, <3>1
    <3> QED
      BY <3>3, <3>4, <3>5 DEF Took
  <2>7. CASE Len(q.out) < MaxAuditRangeLines
    <3>1. Len(q.out) \in Nat /\ MaxAuditRangeLines \in Nat
      BY <2>1, QueryAssumption DEF Gathered, OutType
    <3>2. r = Filter(q2, l)
      BY <2>5, <2>7, <3>1
    <3>3. CASE e = p + 1 /\ s[e] # Torn /\ Within(q.since, q.until, s[e])
      <4>1. Intact(l) /\ InWindow(q2, l[1]) /\ l = <<s[e]>>
        BY <1>4, <2>4, <3>3, WindowIs
      <4>2. r = [q2 EXCEPT !.out = Append(q2.out, l)]
        BY <3>2, <4>1 DEF Filter
      <4>a. PICK out : out = Append(q.out, <<s[e]>>)
        OBVIOUS
      <4>b. [[q EXCEPT !.pos = e] EXCEPT !.out = Append([q EXCEPT !.pos = e].out, l)]
              = Put(q, q.st, e, q.ring, q.head, q.count, Append(q.out, l))
        BY <1>u DEF Updated
      <4>3. r = Put(q, q.st, e, q.ring, q.head, q.count, out)
        BY <4>1, <4>2, <4>a, <4>b
      <4>4. Gathered(q.since, q.until, s, e, out)
        BY <1>g, <2>1, <2>2, <2>7, <3>3, <4>a, GatheredTakes
      <4>5. /\ r.st = "time" /\ r.pos = e /\ r.had = q.had /\ r.ino = q.ino
            /\ r.linesN = q.linesN /\ r.since = q.since /\ r.until = q.until
            /\ r.out = out
        BY <1>6, <4>3 DEF Put
      <4>6. Held(r, s)
        BY <1>1, <1>2, <2>1, <4>4, <4>5 DEF Held
      <4>7. ScanFields(r)
        BY <1>2, <1>f, <4>3
      <4> QED
        BY <1>6, <4>5, <4>6, <4>7 DEF Took
    <3>4. CASE ~ (e = p + 1 /\ s[e] # Torn /\ Within(q.since, q.until, s[e]))
      <4>1. ~ (Intact(l) /\ InWindow(q2, l[1]))
        BY <1>4, <2>4, <3>4, WindowIs
      <4>2. r = q2
        BY <3>2, <4>1 DEF Filter
      <4>3. r = Put(q, q.st, e, q.ring, q.head, q.count, q.out)
        BY <1>3, <4>2
      <4>4. Gathered(q.since, q.until, s, e, q.out)
        <5>1. p <= e /\ Hits(q.since, q.until, s, e) = Hits(q.since, q.until, s, p)
          BY <1>2, <1>g, <2>2, <3>4
        <5> QED
          BY <1>2, <2>1, <5>1, GatheredSkips
      <4>5. /\ r.st = "time" /\ r.pos = e /\ r.had = q.had /\ r.ino = q.ino
            /\ r.linesN = q.linesN /\ r.since = q.since /\ r.until = q.until /\ r.out = q.out
        BY <1>6, <4>3 DEF Put
      <4>6. Held(r, s)
        BY <1>1, <1>2, <2>1, <4>4, <4>5 DEF Held
      <4>7. ScanFields(r)
        BY <1>2, <1>f, <4>3
      <4> QED
        BY <1>6, <4>5, <4>6, <4>7 DEF Took
    <3> QED
      BY <3>3, <3>4
  <2> QED
    <3>1. Len(q.out) \in Nat /\ MaxAuditRangeLines \in Nat
      BY <2>1, QueryAssumption DEF Gathered, OutType
    <3> QED
      BY <2>6, <2>7, <3>1
<1> QED
  BY <1>5, <1>6

\* Answer, of a scan that has read the whole file or has met the cap.
LEMMA AnswerGiven ==
  ASSUME NEW q, ScanFields(q), q.st \in {"lines", "time", "done"}, NEW s \in Seq(Nat), Held(q, s),
         q.pos = Len(s), NEW r, r = Answer(q)
  PROVE  ScanFields(r) /\ Held(r, s) /\ r.ino = q.ino /\ r.st = "done"
<1>0. PICK last \in Nat : last = Len(s)
  OBVIOUS
<1>1. q.pos \in Nat /\ q.pos \in 0..Len(s) /\ q.had \in 0..Len(s) /\ q.pos >= q.had
  BY <1>0 DEF Held
<1> DEFINE out == IF q.st = "lines" THEN Emit(q) ELSE q.out
<1>2. r = Put(q, "done", q.pos, <<>>, 0, 0, out)
  BY Updates DEF Updated
<1>3. /\ r.st = "done" /\ r.pos = q.pos /\ r.had = q.had /\ r.ino = q.ino /\ r.linesN = q.linesN
      /\ r.since = q.since /\ r.until = q.until /\ r.out = out
  BY <1>2 DEF Put
<1>4. ScanFields(r)
  BY <1>1, <1>2, PutFields
<1>5. CASE q.st = "lines"
  <2>1. RingHolds(s, q.pos, q.linesN, q.ring, q.head, q.count)
    BY <1>5 DEF Held
  <2>2. out = [i \in 1..q.count |->
                 q.ring[(((q.head - q.count + q.linesN) % q.linesN) + i - 1) % q.linesN]]
    BY <1>5 DEF Emit
  <2> HIDE DEF out
  <2>3. TailAnswer(s, q.pos, q.linesN, out)
    BY <1>1, <2>1, <2>2, RingEmitted
  <2>4. q.linesN # 0
    BY <2>1 DEF RingHolds
  <2> QED
    BY <1>1, <1>3, <1>4, <2>3, <2>4 DEF Held
<1>6. CASE q.st = "time"
  <2>1. q.linesN = 0 /\ Gathered(q.since, q.until, s, q.pos, q.out)
    BY <1>6 DEF Held
  <2>2. RangeAnswer(q.since, q.until, s, q.pos, q.had, q.out)
    BY <1>1, <2>1, GatheredEnds
  <2>3. out = q.out
    BY <1>6
  <2> HIDE DEF out
  <2> QED
    BY <1>1, <1>3, <1>4, <2>1, <2>2, <2>3 DEF Held
<1>7. CASE q.st = "done"
  <2>1. out = q.out
    BY <1>7
  <2> HIDE DEF out
  <2> QED
    BY <1>1, <1>3, <1>4, <1>7, <2>1 DEF Held
<1> QED
  BY <1>5, <1>6, <1>7

-----------------------------------------------------------------------------
(* The request opened *)

Request(st, a, b, ino, had, n, ring) ==
  [st |-> st, since |-> a, until |-> b, ino |-> ino, pos |-> 0, had |-> had, linesN |-> n,
   ring |-> ring, head |-> 0, count |-> 0, out |-> <<>>]

LEMMA RequestMade ==
  ASSUME NEW st PROVE [NoScan EXCEPT !.st = st] = Request(st, 0, 0, 0, 0, 0, <<>>)
BY DEF NoScan, Request

LEMMA RequestForLines ==
  ASSUME NEW st, NEW n, NEW ring
  PROVE  [NoScan EXCEPT !.st = st, !.linesN = n, !.ring = ring] = Request(st, 0, 0, 0, 0, n, ring)
<1>1. ASSUME NEW x
      PROVE  [x EXCEPT !.st = st, !.linesN = n, !.ring = ring]
               = [[[x EXCEPT !.st = st] EXCEPT !.linesN = n] EXCEPT !.ring = ring]
  OBVIOUS
<1>2. [Request(st, 0, 0, 0, 0, 0, <<>>) EXCEPT !.linesN = n] = Request(st, 0, 0, 0, 0, n, <<>>)
  BY DEF Request
<1>3. [Request(st, 0, 0, 0, 0, n, <<>>) EXCEPT !.ring = ring] = Request(st, 0, 0, 0, 0, n, ring)
  BY DEF Request
<1> QED
  BY <1>1, <1>2, <1>3, RequestMade

LEMMA RequestForTime ==
  ASSUME NEW st, NEW a, NEW b
  PROVE  [NoScan EXCEPT !.st = st, !.since = a, !.until = b] = Request(st, a, b, 0, 0, 0, <<>>)
<1>1. ASSUME NEW x
      PROVE  [x EXCEPT !.st = st, !.since = a, !.until = b]
               = [[[x EXCEPT !.st = st] EXCEPT !.since = a] EXCEPT !.until = b]
  OBVIOUS
<1>2. [Request(st, 0, 0, 0, 0, 0, <<>>) EXCEPT !.since = a] = Request(st, a, 0, 0, 0, 0, <<>>)
  BY DEF Request
<1>3. [Request(st, a, 0, 0, 0, 0, <<>>) EXCEPT !.until = b] = Request(st, a, b, 0, 0, 0, <<>>)
  BY DEF Request
<1> QED
  BY <1>1, <1>2, <1>3, RequestMade

LEMMA RequestOpened ==
  ASSUME NEW st, NEW a, NEW b, NEW n, NEW ring, OpenLog(Request(st, a, b, 0, 0, n, ring))
  PROVE  scan' = IF path = 0 THEN Request("done", a, b, 0, 0, n, ring)
                 ELSE Request(st, a, b, path, Len(data[path]), n, ring)
<1>1. [Request(st, a, b, 0, 0, n, ring) EXCEPT !.st = "done"] = Request("done", a, b, 0, 0, n, ring)
  BY DEF Request
<1>2. ASSUME NEW ino, NEW had
      PROVE  [Request(st, a, b, 0, 0, n, ring) EXCEPT !.ino = ino, !.had = had]
               = Request(st, a, b, ino, had, n, ring)
  <2>1. ASSUME NEW x
        PROVE  [x EXCEPT !.ino = ino, !.had = had] = [[x EXCEPT !.ino = ino] EXCEPT !.had = had]
    OBVIOUS
  <2>2. [Request(st, a, b, 0, 0, n, ring) EXCEPT !.ino = ino] = Request(st, a, b, ino, 0, n, ring)
    BY DEF Request
  <2>3. [Request(st, a, b, ino, 0, n, ring) EXCEPT !.had = had]
          = Request(st, a, b, ino, had, n, ring)
    BY DEF Request
  <2> QED
    BY <2>1, <2>2, <2>3
<1>3. CASE path = 0
  BY <1>1, <1>3 DEF OpenLog
<1>4. CASE path # 0
  BY <1>2, <1>4 DEF OpenLog
<1> QED
  BY <1>3, <1>4

LEMMA RequestFields ==
  ASSUME NEW st \in {"none", "lines", "time", "done"}, NEW a \in Nat, NEW b \in Nat,
         NEW ino \in Nat, NEW had \in Nat, NEW n \in Nat, NEW ring
  PROVE  ScanFields(Request(st, a, b, ino, had, n, ring))
<1>1. Request(st, a, b, ino, had, n, ring) \in Scan({ring, 0, <<>>})
  BY DEF Request, Scan
<1> QED
  BY <1>1 DEF ScanFields

\* A scan begins with nothing read.
LEMMA RingEmpty ==
  ASSUME NEW s, NEW n \in Nat \ {0}, NEW ring, ring = [i \in 0..n - 1 |-> <<>>]
  PROVE  RingHolds(s, 0, n, ring, 0, 0)
<1>1. PICK cut : cut = [i \in 0..0 |-> 0]
  OBVIOUS
<1>2. cut \in [0..0 -> 0..0] /\ cut[0] = 0
  BY <1>1
<1>3. Ends(s, 0) = {}
  BY DEF Ends
<1>4. LastLines(s, 0, cut, 0)
  BY <1>2, <1>3 DEF LastLines
<1>5. ring = [j \in 0..n - 1 |-> ring[j]] /\ 0 \in 0..n /\ 0 \in 0..n - 1
  OBVIOUS
<1> QED
  BY <1>2, <1>4, <1>5 DEF RingHolds

LEMMA NothingGathered == ASSUME NEW s, NEW a, NEW b PROVE Gathered(a, b, s, 0, <<>>)
<1>1. OutType(<<>>) /\ Len(<<>>) = 0
  BY QueryAssumption DEF OutType
<1>2. Hits(a, b, s, 0) = {}
  BY DEF Hits
<1>3. PICK at : at = [i \in 1..0 |-> 1]
  OBVIOUS
<1>4. at \in [1..0 -> 1..0]
  BY <1>3
<1>5. Picked(s, 0, Hits(a, b, s, 0), <<>>, at)
  BY <1>1, <1>4 DEF Picked
<1> QED
  BY <1>1, <1>2, <1>5 DEF Gathered

-----------------------------------------------------------------------------
(* The request through every step *)

Reading == scan.st \in {"lines", "time"}

QueryInv ==
  /\ FileInv /\ ScanFields(scan)
  /\ Reading => scan.ino # 0
  /\ scan.ino # 0 => /\ scan.ino \in 1..Len(data) /\ Held(scan, data[scan.ino])
                     /\ Reading => AtLineStart(scan, data[scan.ino])

LEMMA InitQuery == QueryInit => QueryInv
<1> SUFFICES ASSUME QueryInit PROVE QueryInv
  OBVIOUS
<1>1. FileInv
  BY InitFile DEF QueryInit
<1>2. scan = Request("none", 0, 0, 0, 0, 0, <<>>)
  BY DEF QueryInit, NoScan, Request
<1>3. ScanFields(scan)
  BY <1>2, RequestFields
<1>4. scan.ino = 0 /\ scan.st = "none"
  BY <1>2 DEF Request
<1> QED
  BY <1>1, <1>3, <1>4 DEF QueryInv, Reading

\* The file under the request is written to, rotated away or replaced.
LEMMA FileMoves == ASSUME QueryInv, [Next]_vars, UNCHANGED scan PROVE QueryInv'
<1>1. FileInv'
  BY NextFile DEF QueryInv
<1>2. Len(data) <= Len(data') /\ \A n \in 1..Len(data) : Grown(data[n], data'[n])
  BY FilesGrow DEF QueryInv
<1>3. ASSUME scan.ino # 0
      PROVE  /\ scan.ino \in 1..Len(data') /\ Held(scan, data'[scan.ino])
             /\ Reading => AtLineStart(scan, data'[scan.ino])
  <2>1. PICK n \in 1..Len(data) : n = scan.ino
    BY <1>3 DEF QueryInv
  <2>2. Held(scan, data[n]) /\ (Reading => AtLineStart(scan, data[n]))
    BY <1>3, <2>1 DEF QueryInv
  <2>3. PICK s, t : s = data[n] /\ t = data'[n]
    OBVIOUS
  <2>4. Grown(s, t) /\ Held(scan, s)
    BY <1>2, <2>2, <2>3
  <2>5. Held(scan, t)
    BY <2>4, HeldKept
  <2>6. scan.pos \in 0..Len(s) /\ Len(s) \in Nat /\ \A i \in 1..Len(s) : t[i] = s[i]
    BY <2>4 DEF Held, Grown
  <2>7. scan.pos = 0 \/ t[scan.pos] = s[scan.pos]
    BY <2>6
  <2>8. Reading => AtLineStart(scan, t)
    BY <2>2, <2>3, <2>7 DEF AtLineStart
  <2>9. n \in 1..Len(data')
    <3>1. Len(data) \in Nat /\ Len(data') \in Nat
      BY <1>1 DEF QueryInv, FileInv, FileType
    <3> QED
      BY <1>2, <3>1
  <2> QED
    BY <2>1, <2>3, <2>5, <2>8, <2>9
<1> QED
  BY <1>1, <1>3 DEF QueryInv, Reading

\* A step of the request leaves the file alone.
LEMMA ScanMoves ==
  ASSUME QueryInv, UNCHANGED vars, ScanFields(scan'), scan'.ino \in 0..Len(data),
         scan'.st \in {"lines", "time"} => scan'.ino # 0,
         scan'.ino # 0 => /\ Held(scan', data[scan'.ino])
                          /\ scan'.st \in {"lines", "time"} => AtLineStart(scan', data[scan'.ino])
  PROVE  QueryInv'
<1>1. FileInv' /\ data' = data /\ Len(data) \in Nat
  BY NextFile DEF QueryInv, vars, FileInv, FileType
<1>2. scan'.ino # 0 => scan'.ino \in 1..Len(data)
  BY <1>1
<1> QED
  BY <1>1, <1>2 DEF QueryInv, Reading

LEMMA RequestOpens ==
  ASSUME QueryInv, UNCHANGED vars, NEW st \in {"lines", "time"}, NEW a \in Nat, NEW b \in Nat,
         NEW n \in Nat, NEW ring, OpenLog(Request(st, a, b, 0, 0, n, ring)),
         st = "lines" => \A s : RingHolds(s, 0, n, ring, 0, 0),
         st = "time" => n = 0
  PROVE  QueryInv'
<1>0. path \in {0, Len(data)} /\ Len(data) \in Nat /\ data \in Seq(Seq(Nat))
  BY DEF QueryInv, FileInv, FileType, PathIsNewest
<1>1. CASE path = 0
  <2>1. scan' = Request("done", a, b, 0, 0, n, ring)
    BY <1>1, RequestOpened
  <2>2. scan'.ino = 0 /\ scan'.st = "done"
    BY <2>1 DEF Request
  <2>3. ScanFields(scan')
    BY <2>1, RequestFields
  <2>4. 0 \in 0..Len(data)
    BY <1>0
  <2> QED
    BY <2>2, <2>3, <2>4, ScanMoves
<1>2. CASE path # 0
  <2>1. PICK s \in Seq(Nat) : s = data[path]
    BY <1>0, <1>2
  <2>2. PICK had \in Nat : had = Len(s)
    BY <2>1
  <2>3. scan' = Request(st, a, b, path, had, n, ring)
    BY <1>2, <2>1, <2>2, RequestOpened
  <2>4. /\ scan'.st = st /\ scan'.ino = path /\ scan'.pos = 0 /\ scan'.had = had
        /\ scan'.linesN = n /\ scan'.ring = ring /\ scan'.head = 0 /\ scan'.count = 0
        /\ scan'.out = <<>> /\ scan'.since = a /\ scan'.until = b
    BY <2>3 DEF Request
  <2>5. path \in Nat /\ path \in 0..Len(data)
    BY <1>0
  <2>6. ScanFields(scan')
    BY <2>3, <2>5, RequestFields
  <2>7. 0 \in 0..Len(s) /\ had \in 0..Len(s)
    BY <2>2
  <2>8. Gathered(a, b, s, 0, <<>>)
    BY NothingGathered
  <2>9. Held(scan', s) /\ AtLineStart(scan', s)
    BY <2>4, <2>7, <2>8 DEF Held, AtLineStart
  <2> QED
    BY <1>2, <2>1, <2>4, <2>5, <2>6, <2>9, ScanMoves
<1> QED
  BY <1>1, <1>2

\* sc.Scan: the file the request reads, and where it stands in it.
LEMMA ScanReads ==
  ASSUME QueryInv, Reading
  PROVE  \E s \in Seq(Nat) :
           /\ s = data[scan.ino] /\ scan.ino \in 1..Len(data) /\ scan.ino \in 0..Len(data)
           /\ ScanFields(scan) /\ Held(scan, s) /\ AtLineStart(scan, s)
           /\ scan.pos \in 0..Len(s) /\ scan.pos \in Nat /\ Len(s) \in Nat
<1>1. scan.ino \in 1..Len(data) /\ data \in Seq(Seq(Nat)) /\ Len(data) \in Nat
  BY DEF QueryInv, FileInv, FileType
<1>2. PICK s \in Seq(Nat) : s = data[scan.ino]
  BY <1>1
<1>3. ScanFields(scan) /\ Held(scan, s) /\ AtLineStart(scan, s)
  BY <1>1, <1>2 DEF QueryInv
<1>4. Len(s) \in Nat /\ scan.pos \in 0..Len(s)
  BY <1>3 DEF Held
<1>5. scan.pos \in Nat /\ scan.ino \in 0..Len(data)
  BY <1>1, <1>4
<1> QED
  BY <1>1, <1>2, <1>3, <1>4, <1>5

LEMMA LineScanned == ASSUME QueryInv, ScanLine PROVE QueryInv'
<1>0. Reading /\ UNCHANGED vars
  BY DEF ScanLine, Reading
<1>1. PICK s \in Seq(Nat) :
        /\ s = data[scan.ino] /\ scan.ino \in 1..Len(data) /\ scan.ino \in 0..Len(data)
        /\ ScanFields(scan) /\ Held(scan, s) /\ AtLineStart(scan, s)
        /\ scan.pos \in 0..Len(s) /\ scan.pos \in Nat /\ Len(s) \in Nat
  BY <1>0, ScanReads
<1>2. PICK e : e = Min(Complete(s, scan.pos))
  OBVIOUS
<1>3. /\ Complete(s, scan.pos) # {}
      /\ scan' = Take([scan EXCEPT !.pos = e], SubSeq(s, scan.pos + 1, e))
  BY <1>1, <1>2 DEF ScanLine
<1>4. e \in Complete(s, scan.pos) /\ \A i \in Complete(s, scan.pos) : e <= i
  <2>1. Complete(s, scan.pos) \subseteq Nat
    BY <1>1 DEF Complete
  <2> QED
    BY <1>2, <1>3, <2>1, LeastElement
<1>5. e \in 1..Len(s) /\ scan.pos < e /\ s[e] # Torn
  BY <1>1, <1>4 DEF Complete
<1>6. \A i \in scan.pos + 1..e - 1 : s[i] = Torn
  <2> SUFFICES ASSUME NEW i \in scan.pos + 1..e - 1, s[i] # Torn PROVE FALSE
    OBVIOUS
  <2>1. i \in scan.pos + 1..Len(s) /\ ~ (e <= i)
    BY <1>1, <1>5
  <2> QED
    BY <1>4, <2>1 DEF Complete
<1>7. /\ ScanFields(scan') /\ Held(scan', s) /\ scan'.pos = e /\ scan'.ino = scan.ino
  <2>1. scan.st \in {"lines", "time"}
    BY <1>0 DEF Reading
  <2>2. Took(scan, s, e, scan')
    BY <1>1, <1>3, <1>5, <1>6, <2>1, LineTaken
  <2> QED
    BY <2>2 DEF Took
<1>8. AtLineStart(scan', s)
  BY <1>5, <1>7 DEF AtLineStart
<1>9. scan.ino # 0
  BY <1>0 DEF QueryInv
<1> QED
  BY <1>0, <1>1, <1>7, <1>8, <1>9, ScanMoves

LEMMA EndScanned == ASSUME QueryInv, ScanEnd PROVE QueryInv'
<1>0. Reading /\ UNCHANGED vars
  BY DEF ScanEnd, Reading
<1>1. PICK s \in Seq(Nat) :
        /\ s = data[scan.ino] /\ scan.ino \in 1..Len(data) /\ scan.ino \in 0..Len(data)
        /\ ScanFields(scan) /\ Held(scan, s) /\ AtLineStart(scan, s)
        /\ scan.pos \in 0..Len(s) /\ scan.pos \in Nat /\ Len(s) \in Nat
  BY <1>0, ScanReads
<1>2. PICK rest : rest = SubSeq(s, scan.pos + 1, Len(s))
  OBVIOUS
<1>3. /\ Complete(s, scan.pos) = {}
      /\ scan' = Answer(IF rest = <<>> THEN scan ELSE Take([scan EXCEPT !.pos = Len(s)], rest))
  BY <1>1, <1>2 DEF ScanEnd
<1>4. rest = <<>> <=> scan.pos = Len(s)
  <2>1. Len(rest) = IF scan.pos + 1 <= Len(s) THEN Len(s) - scan.pos ELSE 0
    BY <1>1, <1>2
  <2>2. rest \in Seq(Nat)
    BY <1>1, <1>2
  <2>3. rest = <<>> <=> Len(rest) = 0
    BY <2>2
  <2> QED
    BY <1>1, <2>1, <2>3
<1>5. PICK q : q = IF rest = <<>> THEN scan ELSE Take([scan EXCEPT !.pos = Len(s)], rest)
  OBVIOUS
<1>6. /\ ScanFields(q) /\ Held(q, s) /\ q.pos = Len(s) /\ q.ino = scan.ino
      /\ q.st \in {"lines", "time", "done"}
  <2>1. CASE rest = <<>>
    BY <1>0, <1>1, <1>4, <1>5, <2>1 DEF Reading
  <2>2. CASE rest # <<>>
    <3>1. PICK e : e = Len(s)
      OBVIOUS
    <3>2. e \in 1..Len(s) /\ scan.pos < e
      BY <1>1, <1>4, <2>2, <3>1
    <3>3. \A i \in scan.pos + 1..e - 1 : s[i] = Torn
      <4>1. \A i \in scan.pos + 1..Len(s) : s[i] = Torn
        BY <1>3 DEF Complete
      <4> QED
        BY <1>1, <3>1, <4>1
    <3>4. q = Take([scan EXCEPT !.pos = e], SubSeq(s, scan.pos + 1, e))
      BY <1>2, <1>5, <2>2, <3>1
    <3>5. /\ ScanFields(q) /\ Held(q, s) /\ q.pos = e /\ q.ino = scan.ino
          /\ q.st \in {scan.st, "done"}
      <4>1. scan.st \in {"lines", "time"}
        BY <1>0 DEF Reading
      <4>2. Took(scan, s, e, q)
        BY <1>1, <3>2, <3>3, <3>4, <4>1, LineTaken
      <4> QED
        BY <4>2 DEF Took
    <3> QED
      BY <1>0, <3>1, <3>5 DEF Reading
  <2> QED
    BY <2>1, <2>2
<1>7. ScanFields(scan') /\ Held(scan', s) /\ scan'.ino = scan.ino /\ scan'.st = "done"
  BY <1>3, <1>5, <1>6, AnswerGiven
<1> QED
  BY <1>0, <1>1, <1>7, ScanMoves

LEMMA NextQuery == QueryInv /\ [QueryNext]_queryVars => QueryInv'
<1> SUFFICES ASSUME QueryInv, [QueryNext]_queryVars PROVE QueryInv'
  OBVIOUS
<1>1. CASE Next /\ UNCHANGED scan
  BY <1>1, FileMoves
<1>2. ASSUME NEW n \in LineCounts, AuditRangeLines(n) PROVE QueryInv'
  <2>1. n \in Nat \ {0} /\ MaxAuditRangeLines \in Nat \ {0}
    BY QueryAssumption
  <2>2. PICK m : m = Min({n, MaxAuditRangeLines})
    OBVIOUS
  <2>3. m \in Nat \ {0}
    <3>1. n \in Int /\ MaxAuditRangeLines \in Int
      BY <2>1
    <3>2. m = IF n <= MaxAuditRangeLines THEN n ELSE MaxAuditRangeLines
      BY <2>2, <3>1, MinOfTwo
    <3> QED
      BY <2>1, <3>2
  <2>4. PICK ring : ring = [i \in 0..m - 1 |-> <<>>]
    OBVIOUS
  <2>5. UNCHANGED vars /\ OpenLog([NoScan EXCEPT !.st = "lines", !.linesN = m, !.ring = ring])
    BY <1>2, <2>2, <2>4 DEF AuditRangeLines
  <2>6. OpenLog(Request("lines", 0, 0, 0, 0, m, ring))
    <3>1. [NoScan EXCEPT !.st = "lines", !.linesN = m, !.ring = ring]
            = Request("lines", 0, 0, 0, 0, m, ring)
      BY RequestForLines
    <3> QED
      BY <2>5, <3>1
  <2>7. \A s : RingHolds(s, 0, m, ring, 0, 0)
    BY <2>3, <2>4, RingEmpty
  <2> QED
    BY <2>3, <2>5, <2>6, <2>7, RequestOpens
<1>3. ASSUME NEW w \in Windows, AuditRangeTime(w) PROVE QueryInv'
  <2>1. w[1] \in Nat /\ w[2] \in Nat
    BY QueryAssumption
  <2>2. UNCHANGED vars /\ OpenLog([NoScan EXCEPT !.st = "time", !.since = w[1], !.until = w[2]])
    BY <1>3 DEF AuditRangeTime
  <2>3. OpenLog(Request("time", w[1], w[2], 0, 0, 0, <<>>))
    BY <2>2, RequestForTime
  <2> QED
    BY <2>1, <2>2, <2>3, RequestOpens
<1>4. CASE UNCHANGED queryVars
  BY <1>4, FileMoves DEF queryVars
<1> QED
  BY <1>1, <1>2, <1>3, <1>4, LineScanned, EndScanned DEF QueryNext

LEMMA AnswersHold == QueryInv => RangeAnswers
<1> SUFFICES ASSUME QueryInv PROVE RangeAnswers
  OBVIOUS
<1>1. ASSUME scan.st = "done", scan.linesN # 0, scan.ino # 0 PROVE TailIsNewest
  <2>1. scan.pos >= scan.had /\ TailAnswer(data[scan.ino], scan.pos, scan.linesN, scan.out)
    BY <1>1 DEF QueryInv, Held
  <2> QED
    BY <2>1 DEF TailAnswer, TailIsNewest
<1>2. ASSUME scan.st = "done", scan.linesN = 0, scan.ino # 0 PROVE RangeIsComplete
  <2>1. PICK s : s = data[scan.ino]
    OBVIOUS
  <2>2. RangeAnswer(scan.since, scan.until, s, scan.pos, scan.had, scan.out)
    BY <1>2, <2>1 DEF QueryInv, Held
  <2>3. Found(scan, s) = Hits(scan.since, scan.until, s, scan.pos)
    BY DEF Found, Hits, InWindow, Within
  <2>4. Len(scan.out) <= MaxAuditRangeLines
    BY <2>2, QueryAssumption DEF RangeAnswer, OutType
  <2>5. PICK at : /\ Picked(s, scan.pos, Found(scan, s), scan.out, at)
                  /\ \A e \in Found(scan, s) :
                       \/ \E i \in 1..Len(scan.out) : at[i] = e
                       \/ /\ Len(scan.out) = MaxAuditRangeLines
                          /\ \A i \in 1..Len(scan.out) : at[i] < e
    BY <2>2, <2>3 DEF RangeAnswer
  <2>6. scan.pos >= scan.had \/ Len(scan.out) = MaxAuditRangeLines
    BY <2>2 DEF RangeAnswer
  <2> QED
    BY <2>1, <2>4, <2>5, <2>6 DEF RangeIsComplete, Picked
<1> QED
  BY <1>1, <1>2 DEF RangeAnswers, TailIsNewest, RangeIsComplete

\* GET /admin/audit/range answers truly whatever is appended, torn or rotated
\* away while auditRange scans without Writer.mu: ?lines=N with the newest
\* lines of the file, ?since&until with every record of the window up to the cap.
THEOREM RangeAlwaysAnswers == QuerySpec => []RangeAnswers
<1>1. QuerySpec => QueryInit /\ [][QueryNext]_queryVars
  BY PTL DEF QuerySpec
<1>2. QueryInit /\ [][QueryNext]_queryVars => []QueryInv
  BY InitQuery, NextQuery, PTL
<1> QED
  BY <1>1, <1>2, AnswersHold, PTL

\* A request reads the file and nothing else, so what is proved of Spec holds
\* with requests too.
LEMMA QueryOnlyReads == QuerySpec => Spec
<1>1. QueryInit => Init
  BY DEF QueryInit
<1>2. [QueryNext]_queryVars => [Next]_vars
  BY DEF QueryNext, queryVars, AuditRangeLines, AuditRangeTime, ScanLine, ScanEnd
<1> QED
  BY <1>1, <1>2, PTL DEF QuerySpec, Spec
=============================================================================

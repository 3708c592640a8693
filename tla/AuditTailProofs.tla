--------------------------- MODULE AuditTailProofs ---------------------------
(***************************************************************************)
(* Proofs about module AuditTail: the ring of recent records answers with  *)
(* the end of the log, a live tail accounts for and announces what its     *)
(* full channel dropped, and a reconnect resumes where the client stopped. *)
(***************************************************************************)
EXTENDS AuditTail, WellFoundedInduction, TLAPS

\* The lock protects the positions: what every step of the writer keeps typed.
WriterType ==
  /\ clock \in 0..MaxLogs /\ pend \in [Callers -> 0..MaxLogs] /\ log \in Seq(Nat)
  /\ ring \in [0..RingSize-1 -> Nat] /\ head \in 0..RingSize-1 /\ full \in BOOLEAN

-----------------------------------------------------------------------------
(* The ring *)

\* The slot of the j-th most recent record.
Slot(j) == IF j <= head THEN head - j ELSE head - j + RingSize

\* full latches when the log is as long as the ring, and then each slot holds
\* the record that its distance from head says.
RingInv ==
  /\ ~ full => Len(log) = head
  /\ full => Len(log) >= RingSize
  /\ \A j \in 1..Have : ring[Slot(j)] = Len(log) - j + 1

\* Index arithmetic modulo the ring's size, over the two laps it can reach.
LEMMA Advance ==
  \A h \in 0..RingSize-1 :
    (h + 1) % RingSize = IF h + 1 < RingSize THEN h + 1 ELSE 0
BY RingAssumption

LEMMA Back ==
  \A h \in 0..RingSize-1, m \in 0..RingSize :
    (h - m + RingSize) % RingSize = IF m <= h THEN h - m ELSE h - m + RingSize
BY RingAssumption

LEMMA Onward ==
  \A h \in 0..RingSize-1, i \in 1..RingSize :
    (h + i - 1) % RingSize = IF h + i - 1 < RingSize THEN h + i - 1 ELSE h + i - 1 - RingSize
BY RingAssumption

\* One more record: head moves on, and every older one is a slot further away.
LEMMA RingGrows ==
  ASSUME WriterType, RingInv, log' \in Seq(Nat), Len(log') = Len(log) + 1,
         RingWrite(Len(log) + 1)
  PROVE  /\ ring' \in [0..RingSize-1 -> Nat] /\ head' \in 0..RingSize-1 /\ full' \in BOOLEAN
         /\ RingInv'
<1> USE RingAssumption
<1>1. head' = IF head + 1 < RingSize THEN head + 1 ELSE 0
  BY Advance DEF RingWrite, WriterType
<1>2. /\ ring' = [ring EXCEPT ![head] = Len(log) + 1]
      /\ full' = (full \/ head' = 0)
      /\ Len(log) \in Nat /\ Len(log') = Len(log) + 1
  BY DEF RingWrite, WriterType
<1>3. ring' \in [0..RingSize-1 -> Nat] /\ head' \in 0..RingSize-1
  BY <1>1, <1>2 DEF WriterType
<1>4. full' \in BOOLEAN
  BY <1>2, Zenon
<1>5. /\ ~ full' => Len(log') = head'
      /\ full' => Len(log') >= RingSize
  <2>1. CASE full
    <3>1. full' /\ Len(log) >= RingSize
      BY <1>2, <2>1, Zenon DEF RingInv
    <3> QED
      BY <1>2, <3>1
  <2>2. CASE ~ full
    <3>1. Len(log) = head /\ (full' <=> head' = 0)
      BY <1>2, <2>2 DEF RingInv
    <3> QED
      BY <1>1, <1>2, <3>1 DEF WriterType
  <2> QED
    BY <2>1, <2>2
<1>6. ASSUME NEW j \in 1..Have' PROVE ring'[Slot(j)'] = Len(log') - j + 1
  <2>1. Have' \in 0..RingSize /\ j \in 1..RingSize
    BY <1>3, <1>4 DEF Have
  <2>2. CASE j = 1
    <3>1. Slot(j)' = head
      BY <1>1, <2>2 DEF Slot, WriterType
    <3> QED
      BY <2>2, <3>1, <1>2 DEF WriterType
  <2>3. CASE j # 1
    <3>1. j - 1 \in 1..RingSize-1 /\ j - 1 \in 1..Have
      BY <1>1, <1>2, <1>6, <2>1, <2>3 DEF Have, WriterType
    <3>2. Slot(j)' = Slot(j - 1)
      BY <1>1, <2>1, <3>1 DEF Slot, WriterType
    <3>3. Slot(j - 1) \in 0..RingSize-1 /\ Slot(j - 1) # head
      BY <3>1 DEF Slot, WriterType
    <3>4. ring[Slot(j - 1)] = Len(log) - (j - 1) + 1
      BY <3>1 DEF RingInv
    <3>5. ring'[Slot(j - 1)] = ring[Slot(j - 1)]
      BY <1>2, <3>3 DEF WriterType
    <3> QED
      BY <3>2, <3>4, <3>5, <1>2, <2>1
  <2> QED
    BY <2>2, <2>3
<1> QED
  BY <1>3, <1>4, <1>5, <1>6 DEF RingInv

LEMMA RingAnswers ==
  ASSUME WriterType, RingInv PROVE RecentIsTail
<1> USE RingAssumption
<1> SUFFICES ASSUME NEW n \in 0..RingSize + 1
             PROVE  LET m == Len(Recent(n))
                    IN  /\ m = IF n < Len(log) /\ n < RingSize THEN n
                               ELSE IF Len(log) < RingSize THEN Len(log) ELSE RingSize
                        /\ \A i \in 1..m : Recent(n)[i] = Len(log) - m + i
  BY DEF RecentIsTail
<1> DEFINE m == IF n > Have THEN Have ELSE n
           start == (head - m + RingSize) % RingSize
<1>1. /\ head \in 0..RingSize-1 /\ full \in BOOLEAN /\ Len(log) \in Nat
      /\ ring \in [0..RingSize-1 -> Nat] /\ Have \in 0..RingSize /\ m \in 0..RingSize
      /\ m <= Have
  BY DEF WriterType, Have
<1>2. m = IF n < Len(log) /\ n < RingSize THEN n
          ELSE IF Len(log) < RingSize THEN Len(log) ELSE RingSize
  BY <1>1 DEF RingInv, Have
<1> HIDE DEF m
<1>3. start = IF m <= head THEN head - m ELSE head - m + RingSize
  BY <1>1, Back
<1> HIDE DEF start
<1>4. ASSUME NEW i \in 1..m
      PROVE  /\ ring[(start + i - 1) % RingSize] = Len(log) - m + i
             /\ ring[(start + i - 1) % RingSize] \in Nat
  <2>1. start \in 0..RingSize-1 /\ i \in 1..RingSize
    BY <1>1, <1>3
  <2>2. (start + i - 1) % RingSize
          = IF start + i - 1 < RingSize THEN start + i - 1 ELSE start + i - 1 - RingSize
    BY <2>1, Onward
  <2>3. (start + i - 1) % RingSize = Slot(m - i + 1)
    BY <1>1, <1>3, <2>2 DEF Slot
  <2>4. m - i + 1 \in 1..Have
    BY <1>1
  <2>5. ring[Slot(m - i + 1)] = Len(log) - (m - i + 1) + 1
    BY <2>4 DEF RingInv
  <2>6. Slot(m - i + 1) \in 0..RingSize-1
    BY <1>1, <2>4 DEF Slot
  <2> QED
    BY <1>1, <2>3, <2>5, <2>6
<1>5. Recent(n) = [i \in 1..m |-> ring[(start + i - 1) % RingSize]]
  BY DEF Recent, Newest, m, start
<1>6. Len(Recent(n)) = m
  BY <1>1, <1>4, <1>5
<1> QED
  BY <1>2, <1>4, <1>5, <1>6

-----------------------------------------------------------------------------
(* A subscription *)

\* The fields the handler and Log count with; what Subscribe filtered, and the
\* position in it, are any values until the last section speaks of them.
SubRecord(B) ==
  [st : {"off", "backlog", "check", "recv"}, ch : Seq(Nat), dropped : Nat, backlog : B,
   last : B, base : Nat, from : B, recv : Nat, announced : Nat]

SubFields(s) == \E B : s \in SubRecord(B)

\* The length of the channel.
Queued(s) == Len(s.ch)

\* The records missing before the j-th one in the channel.
GapBefore(s, j) == s.ch[j] - s.base - s.recv - j

Accounted(s, n) == n = s.base + s.recv + Queued(s) + s.dropped + s.announced

\* Before the handler looks at the counter, a gap ahead of a queued record may
\* still be in it; while the handler waits in select it cannot, for a drop at
\* that point means that the channel is full and no record follows the gap.
GapsCounted(s) == \A j \in 1..Queued(s) : GapBefore(s, j) <= s.announced + s.dropped
GapsAnnounced(s) ==
  s.st = "recv" => /\ \A j \in 1..Queued(s) : GapBefore(s, j) <= s.announced
                   /\ s.dropped > 0 => Queued(s) = RingSize

LastAnnounced(s) ==
  /\ s.st = "backlog" => s.recv = 0
  /\ s.recv > 0 => s.last \in Nat /\ s.last - s.base - s.recv <= s.announced

\* What holds of a subscription when n records are written.
SubInv(s, n) ==
  /\ SubFields(s)
  /\ s.st # "off" => /\ Accounted(s, n) /\ Queued(s) <= RingSize
                     /\ GapsCounted(s) /\ GapsAnnounced(s) /\ LastAnnounced(s)

TailInv == WriterType /\ RingInv /\ sub = [k \in Clients |-> sub[k]]
           /\ \A k \in Clients : SubInv(sub[k], Len(log))

\* The types of the fields, one fact each.
LEMMA Fields ==
  ASSUME NEW s, SubFields(s)
  PROVE  /\ s.ch \in Seq(Nat) /\ Queued(s) \in Nat
         /\ \A j \in 1..Queued(s) : s.ch[j] \in Nat
         /\ s.dropped \in Nat /\ s.base \in Nat /\ s.recv \in Nat /\ s.announced \in Nat
         /\ s.st \in {"off", "backlog", "check", "recv"}
         /\ \A j \in 1..Queued(s) : GapBefore(s, j) \in Int
<1>1. PICK B : s \in SubRecord(B)
  BY DEF SubFields
<1>2. s.ch \in Seq(Nat)
  BY <1>1 DEF SubRecord
<1>3. /\ s.dropped \in Nat /\ s.base \in Nat /\ s.recv \in Nat /\ s.announced \in Nat
      /\ s.st \in {"off", "backlog", "check", "recv"}
  BY <1>1 DEF SubRecord
<1>4. Queued(s) \in Nat /\ \A j \in 1..Queued(s) : s.ch[j] \in Nat
  BY <1>2 DEF Queued
<1> QED
  BY <1>2, <1>3, <1>4 DEF GapBefore

\* The fan-out of record n + 1.
LEMMA OfferKeeps ==
  ASSUME NEW s, NEW n \in Nat, SubInv(s, n)
  PROVE  SubInv(Offer(s, n + 1), n + 1)
<1> USE RingAssumption
<1>0. SubFields(s)
  BY DEF SubInv
<1>f. PICK B : s \in SubRecord(B)
  BY <1>0 DEF SubFields
<1>n. /\ s.dropped \in Nat /\ s.base \in Nat /\ s.recv \in Nat /\ s.announced \in Nat
      /\ Queued(s) \in Nat
  BY <1>0, Fields
<1>1. CASE s.st = "off"
  BY <1>0, <1>1 DEF SubInv, Offer
<1>2. CASE s.st # "off" /\ Queued(s) < RingSize
  <2> DEFINE t == [s EXCEPT !.ch = Append(s.ch, n + 1)]
  <2>1. Offer(s, n + 1) = t
    BY <1>2 DEF Offer, Queued
  <2>2. Accounted(s, n) /\ GapsCounted(s) /\ GapsAnnounced(s) /\ LastAnnounced(s)
    BY <1>2 DEF SubInv
  <2>a. Append(s.ch, n + 1) \in Seq(Nat)
    BY <1>0, Fields
  <2>3. /\ t.ch = Append(s.ch, n + 1) /\ t.st = s.st /\ t.base = s.base
        /\ t.recv = s.recv /\ t.dropped = s.dropped /\ t.announced = s.announced
        /\ t.last = s.last
    BY <1>f DEF SubRecord
  <2>t. t \in SubRecord(B)
    BY <1>f, <2>a DEF SubRecord
  <2> HIDE DEF t
  <2>4. /\ Queued(t) = Queued(s) + 1 /\ Queued(s) \in Nat
        /\ \A j \in 1..Queued(s) : t.ch[j] = s.ch[j]
        /\ t.ch[Queued(s) + 1] = n + 1
    BY <1>0, Fields, <2>3 DEF Queued
  <2>5. \A j \in 1..Queued(s) : GapBefore(t, j) = GapBefore(s, j)
    BY <2>3, <2>4 DEF GapBefore
  <2>6. GapBefore(t, Queued(s) + 1) = s.announced + s.dropped
    <3>1. n = s.base + s.recv + Queued(s) + s.dropped + s.announced
      BY <2>2 DEF Accounted
    <3>2. n + 1 - s.base - s.recv - (Queued(s) + 1) = s.announced + s.dropped
      BY <1>n, <3>1
    <3>3. GapBefore(t, Queued(s) + 1) = n + 1 - s.base - s.recv - (Queued(s) + 1)
      <4>1. t.ch[Queued(s) + 1] = n + 1 /\ t.base = s.base /\ t.recv = s.recv
        BY <2>3, <2>4
      <4> QED
        BY <1>n, <4>1 DEF GapBefore
    <3> QED
      BY <3>2, <3>3
  <2>7. Accounted(t, n + 1)
    <3>1. n = s.base + s.recv + Queued(s) + s.dropped + s.announced
      BY <2>2 DEF Accounted
    <3>2. n + 1 = s.base + s.recv + (Queued(s) + 1) + s.dropped + s.announced
      BY <1>n, <3>1
    <3> QED
      BY <2>3, <2>4, <3>2 DEF Accounted
  <2>8. \A j \in 1..Queued(t) : j \in 1..Queued(s) \/ j = Queued(s) + 1
    BY <2>4
  <2>9. GapsCounted(t)
    <3>1. s.announced + s.dropped <= s.announced + s.dropped
      BY <1>0, Fields
    <3> QED
      BY <2>2, <2>3, <2>5, <2>6, <2>8, <3>1 DEF GapsCounted
  <2>10. GapsAnnounced(t)
    <3> SUFFICES ASSUME s.st = "recv"
                 PROVE  /\ \A j \in 1..Queued(t) : GapBefore(t, j) <= s.announced
                        /\ s.dropped = 0
      BY <2>3 DEF GapsAnnounced
    <3>1. s.dropped = 0
      BY <1>0, <1>2, <2>2, Fields DEF GapsAnnounced
    <3>2. GapBefore(t, Queued(s) + 1) <= s.announced
      BY <1>0, Fields, <2>6, <3>1
    <3> QED
      BY <2>2, <2>5, <2>8, <3>1, <3>2 DEF GapsAnnounced
  <2>11. Queued(t) <= RingSize
    BY <1>2, <2>4
  <2>12. LastAnnounced(t)
    BY <2>2, <2>3 DEF LastAnnounced
  <2> QED
    BY <2>1, <2>t, <2>7, <2>9, <2>10, <2>11, <2>12 DEF SubInv, SubFields
<1>3. CASE s.st # "off" /\ ~ (Queued(s) < RingSize)
  <2> DEFINE t == [s EXCEPT !.dropped = s.dropped + 1]
  <2>1. Offer(s, n + 1) = t
    BY <1>3 DEF Offer, Queued
  <2>2. Accounted(s, n) /\ GapsCounted(s) /\ GapsAnnounced(s) /\ LastAnnounced(s)
        /\ Queued(s) <= RingSize
    BY <1>3 DEF SubInv
  <2>3. /\ t.ch = s.ch /\ t.st = s.st /\ t.base = s.base
        /\ t.recv = s.recv /\ t.dropped = s.dropped + 1 /\ t.announced = s.announced
        /\ t.last = s.last /\ Queued(t) = Queued(s)
    BY <1>f DEF SubRecord, Queued
  <2>t. t \in SubRecord(B)
    BY <1>f DEF SubRecord
  <2> HIDE DEF t
  <2>4. Queued(s) = RingSize
    BY <1>0, <1>3, <2>2, Fields
  <2>5. \A j : GapBefore(t, j) = GapBefore(s, j)
    BY <2>3 DEF GapBefore
  <2>6. Accounted(t, n + 1)
    <3>1. n = s.base + s.recv + Queued(s) + s.dropped + s.announced
      BY <2>2 DEF Accounted
    <3>2. n + 1 = s.base + s.recv + Queued(s) + (s.dropped + 1) + s.announced
      BY <1>n, <3>1
    <3> QED
      BY <2>3, <3>2 DEF Accounted
  <2>7. GapsCounted(t)
    <3> SUFFICES ASSUME NEW j \in 1..Queued(s)
                 PROVE  GapBefore(s, j) <= s.announced + (s.dropped + 1)
      BY <2>3, <2>5 DEF GapsCounted
    <3>1. GapBefore(s, j) <= s.announced + s.dropped /\ GapBefore(s, j) \in Int
      BY <1>0, <2>2, Fields DEF GapsCounted
    <3> QED
      BY <1>0, Fields, <3>1
  <2>8. GapsAnnounced(t)
    BY <2>2, <2>3, <2>4, <2>5 DEF GapsAnnounced
  <2>9. LastAnnounced(t) /\ Queued(t) <= RingSize
    BY <2>2, <2>3 DEF LastAnnounced
  <2> QED
    BY <2>1, <2>t, <2>6, <2>7, <2>8, <2>9 DEF SubInv, SubFields
<1> QED
  BY <1>1, <1>2, <1>3

\* DroppedAndReset moves the counter into what the client has been told.
LEMMA CheckKeeps ==
  ASSUME NEW s, NEW n \in Nat, SubInv(s, n), s.st = "check"
  PROVE  SubInv([s EXCEPT !.st = "recv", !.dropped = 0,
                          !.announced = s.announced + s.dropped], n)
<1> DEFINE t == [s EXCEPT !.st = "recv", !.dropped = 0, !.announced = s.announced + s.dropped]
<1>1. /\ SubFields(s) /\ Accounted(s, n) /\ GapsCounted(s) /\ LastAnnounced(s)
      /\ Queued(s) <= RingSize
  BY DEF SubInv
<1>2. PICK B : s \in SubRecord(B)
  BY <1>1 DEF SubFields
<1>3. /\ s.dropped \in Nat /\ s.base \in Nat /\ s.recv \in Nat /\ s.announced \in Nat
      /\ Queued(s) \in Nat
  BY <1>1, Fields
<1>4. /\ t.ch = s.ch /\ t.st = "recv" /\ t.base = s.base /\ t.recv = s.recv /\ t.dropped = 0
      /\ t.announced = s.announced + s.dropped /\ t.last = s.last /\ Queued(t) = Queued(s)
  BY <1>2 DEF SubRecord, Queued
<1>5. t \in SubRecord(B)
  <2>1. s.announced + s.dropped \in Nat
    BY <1>3
  <2> QED
    BY <1>2, <2>1 DEF SubRecord
<1> HIDE DEF t
<1>6. Accounted(t, n)
  BY <1>1, <1>3, <1>4 DEF Accounted
<1>7. \A j : GapBefore(t, j) = GapBefore(s, j)
  BY <1>4 DEF GapBefore
<1>8. GapsCounted(t) /\ GapsAnnounced(t)
  <2>1. \A j \in 1..Queued(t) : GapBefore(t, j) <= t.announced
    BY <1>1, <1>4, <1>7 DEF GapsCounted
  <2>2. t.announced + t.dropped = t.announced
    BY <1>3, <1>4
  <2> QED
    BY <1>4, <2>1, <2>2 DEF GapsCounted, GapsAnnounced
<1>9. LastAnnounced(t)
  <2>1. t.recv > 0 => /\ s.last \in Nat /\ s.last - s.base - s.recv <= s.announced
    BY <1>1, <1>4 DEF LastAnnounced
  <2>2. t.recv > 0 => s.last - s.base - s.recv <= s.announced + s.dropped
    BY <1>3, <2>1
  <2> QED
    BY <1>4, <2>1, <2>2 DEF LastAnnounced
<1> QED
  BY <1>1, <1>4, <1>5, <1>6, <1>8, <1>9 DEF SubInv, SubFields, t

\* A record is taken from the channel and emitted: its gap has been announced.
LEMMA ReceiveKeeps ==
  ASSUME NEW s, NEW n \in Nat, SubInv(s, n), s.st = "recv", Queued(s) # 0
  PROVE  SubInv([s EXCEPT !.st = "check", !.ch = Tail(s.ch), !.last = Head(s.ch),
                          !.recv = s.recv + 1], n)
<1> DEFINE t == [s EXCEPT !.st = "check", !.ch = Tail(s.ch), !.last = Head(s.ch),
                          !.recv = s.recv + 1]
<1>1. /\ SubFields(s) /\ Accounted(s, n) /\ GapsCounted(s) /\ GapsAnnounced(s)
      /\ Queued(s) <= RingSize
  BY DEF SubInv
<1>2. PICK B : s \in SubRecord(B)
  BY <1>1 DEF SubFields
<1>3. /\ s.dropped \in Nat /\ s.base \in Nat /\ s.recv \in Nat /\ s.announced \in Nat
      /\ Queued(s) \in Nat /\ s.recv + 1 \in Nat
  BY <1>1, Fields
<1>4. /\ Queued(s) > 0 /\ Tail(s.ch) \in Seq(Nat) /\ Head(s.ch) \in Nat /\ Head(s.ch) = s.ch[1]
      /\ Len(Tail(s.ch)) = Queued(s) - 1
      /\ \A j \in 1..Queued(s) - 1 : Tail(s.ch)[j] = s.ch[j + 1]
  BY <1>1, Fields DEF Queued
<1>5. /\ t.ch = Tail(s.ch) /\ t.st = "check" /\ t.base = s.base /\ t.recv = s.recv + 1
      /\ t.dropped = s.dropped /\ t.announced = s.announced /\ t.last = Head(s.ch)
      /\ Queued(t) = Queued(s) - 1
  BY <1>2, <1>4 DEF SubRecord, Queued
<1>6. t \in SubRecord(B \cup Nat)
  <2>1. Tail(s.ch) \in Seq(Nat) /\ Head(s.ch) \in B \cup Nat
    BY <1>4
  <2> QED
    BY <1>2, <1>3, <2>1 DEF SubRecord
<1> HIDE DEF t
<1>7. Accounted(t, n)
  <2>1. n = s.base + s.recv + Queued(s) + s.dropped + s.announced
    BY <1>1 DEF Accounted
  <2>2. n = s.base + (s.recv + 1) + (Queued(s) - 1) + s.dropped + s.announced
    BY <1>3, <2>1
  <2> QED
    BY <1>5, <2>2 DEF Accounted
<1>8. GapsCounted(t)
  <2> SUFFICES ASSUME NEW j \in 1..Queued(s) - 1
               PROVE  GapBefore(t, j) <= s.announced + s.dropped
    BY <1>5 DEF GapsCounted
  <2>1. j + 1 \in 1..Queued(s) /\ s.ch[j + 1] \in Nat
    BY <1>1, <1>3, Fields
  <2>2. GapBefore(s, j + 1) <= s.announced + s.dropped
    BY <1>1, <2>1 DEF GapsCounted
  <2>3. t.ch[j] = s.ch[j + 1]
    BY <1>4, <1>5
  <2>4. s.ch[j + 1] - s.base - (s.recv + 1) - j = s.ch[j + 1] - s.base - s.recv - (j + 1)
    BY <1>3, <2>1
  <2>5. GapBefore(t, j) = GapBefore(s, j + 1)
    BY <1>5, <2>3, <2>4 DEF GapBefore
  <2> QED
    BY <2>2, <2>5
<1>9. GapsAnnounced(t)
  BY <1>5 DEF GapsAnnounced
<1>10. LastAnnounced(t)
  <2>1. 1 \in 1..Queued(s)
    BY <1>3, <1>4
  <2>2. s.ch[1] - s.base - s.recv - 1 <= s.announced
    BY <1>1, <2>1 DEF GapsAnnounced, GapBefore
  <2>3. s.ch[1] - s.base - (s.recv + 1) <= s.announced
    <3>1. s.ch[1] \in Nat
      BY <1>4
    <3> QED
      BY <1>3, <2>2, <3>1
  <2> QED
    BY <1>4, <1>5, <2>3 DEF LastAnnounced
<1>11. Queued(t) <= RingSize
  BY <1>1, <1>3, <1>5, RingAssumption
<1> QED
  BY <1>6, <1>7, <1>8, <1>9, <1>10, <1>11 DEF SubInv, SubFields, t

\* The live loop is entered, or woken by the ticker: only the position moves.
LEMMA TurnKeeps ==
  ASSUME NEW s, NEW n \in Nat, SubInv(s, n), s.st # "off"
  PROVE  SubInv([s EXCEPT !.st = "check"], n)
<1> DEFINE t == [s EXCEPT !.st = "check"]
<1>1. PICK B : s \in SubRecord(B)
  BY DEF SubInv, SubFields
<1>2. /\ t.ch = s.ch /\ t.st = "check" /\ t.base = s.base /\ t.recv = s.recv
      /\ t.dropped = s.dropped /\ t.announced = s.announced /\ t.last = s.last
      /\ Queued(t) = Queued(s)
  BY <1>1 DEF SubRecord, Queued
<1>3. t \in SubRecord(B)
  BY <1>1 DEF SubRecord
<1> HIDE DEF t
<1>4. \A j : GapBefore(t, j) = GapBefore(s, j)
  BY <1>2 DEF GapBefore
<1>5. Accounted(t, n) /\ GapsCounted(t) /\ GapsAnnounced(t) /\ LastAnnounced(t)
  BY <1>2, <1>4 DEF SubInv, Accounted, GapsCounted, GapsAnnounced, LastAnnounced
<1> QED
  BY <1>2, <1>3, <1>5 DEF SubInv, SubFields, t

\* A backlog record is emitted: no live record has been, so nothing is claimed
\* of the position.
LEMMA BacklogKeeps ==
  ASSUME NEW s, NEW n \in Nat, SubInv(s, n), s.st = "backlog", NEW x, NEW y
  PROVE  SubInv([s EXCEPT !.last = x, !.backlog = y], n)
<1> DEFINE t == [s EXCEPT !.last = x, !.backlog = y]
<1>1. PICK B : s \in SubRecord(B)
  BY DEF SubInv, SubFields
<1>2. /\ t.ch = s.ch /\ t.st = s.st /\ t.base = s.base /\ t.recv = s.recv
      /\ t.dropped = s.dropped /\ t.announced = s.announced /\ Queued(t) = Queued(s)
  BY <1>1 DEF SubRecord, Queued
<1>3. t \in SubRecord(B \cup {x, y})
  BY <1>1 DEF SubRecord
<1> HIDE DEF t
<1>4. \A j : GapBefore(t, j) = GapBefore(s, j)
  BY <1>2 DEF GapBefore
<1>5. Accounted(t, n) /\ GapsCounted(t) /\ GapsAnnounced(t)
  BY <1>2, <1>4 DEF SubInv, Accounted, GapsCounted, GapsAnnounced
<1>6. LastAnnounced(t)
  <2>1. t.recv = 0
    BY <1>2 DEF SubInv, LastAnnounced
  <2> QED
    BY <2>1 DEF LastAnnounced
<1> QED
  BY <1>2, <1>3, <1>5, <1>6 DEF SubInv, SubFields, t

\* A connection that is closed, and one that is opened.
LEMMA OffKeeps == ASSUME NEW x, NEW n PROVE SubInv(Off(x), n)
<1>1. Off(x) \in SubRecord({x, 0, <<>>}) /\ Off(x).st = "off"
  BY DEF Off, SubRecord
<1> QED
  BY <1>1 DEF SubInv, SubFields

LEMMA SubscribeKeeps ==
  ASSUME NEW x, NEW y, NEW n \in Nat
  PROVE  SubInv([Off(x) EXCEPT !.st = "backlog", !.base = n, !.from = x, !.backlog = y], n)
<1> DEFINE t == [Off(x) EXCEPT !.st = "backlog", !.base = n, !.from = x, !.backlog = y]
<1>1. Off(x) \in SubRecord({x, y, 0, <<>>}) /\ Off(x).ch = <<>> /\ Off(x).dropped = 0
      /\ Off(x).recv = 0 /\ Off(x).announced = 0
  BY DEF Off, SubRecord
<1>2. t \in SubRecord({x, y, 0, <<>>})
  BY <1>1 DEF SubRecord
<1>3. /\ t.st = "backlog" /\ t.ch = <<>> /\ t.dropped = 0 /\ t.base = n /\ t.recv = 0
      /\ t.announced = 0
  BY <1>1 DEF SubRecord
<1> HIDE DEF t
<1>4. Queued(t) = 0 /\ Accounted(t, n)
  BY <1>3 DEF Queued, Accounted
<1>5. GapsCounted(t) /\ GapsAnnounced(t) /\ LastAnnounced(t)
  BY <1>3, <1>4 DEF GapsCounted, GapsAnnounced, LastAnnounced
<1> QED
  BY <1>2, <1>4, <1>5, RingAssumption DEF SubInv, SubFields, t

-----------------------------------------------------------------------------
(* The steps *)

LEMMA TailInit == FollowInit => TailInv
<1> SUFFICES ASSUME FollowInit PROVE TailInv
  OBVIOUS
<1> USE RingAssumption, LogsAssumption
<1>1. WriterType
  BY DEF FollowInit, WriterType
<1>2. RingInv
  BY DEF FollowInit, RingInv, Have
<1>3. \A k \in Clients : sub[k] = Off(0)
  BY DEF FollowInit
<1>4. sub = [k \in Clients |-> sub[k]]
  BY DEF FollowInit
<1> QED
  BY <1>1, <1>2, <1>3, <1>4, OffKeeps DEF TailInv

\* A step of one connection, the writer apart.
LEMMA OneConnection ==
  ASSUME TailInv, NEW k \in Clients, NEW t, sub' = [sub EXCEPT ![k] = t],
         SubInv(t, Len(log)), UNCHANGED <<clock, pend, log, ring, head, full>>
  PROVE  TailInv'
<1>1. WriterType' /\ RingInv'
  BY DEF TailInv, WriterType, RingInv, Have, Slot
<1>2. \A i \in Clients : sub'[i] = IF i = k THEN t ELSE sub[i]
  BY DEF TailInv
<1>3. sub' = [i \in Clients |-> sub'[i]]
  BY DEF TailInv
<1>4. \A i \in Clients : SubInv(sub'[i], Len(log'))
  BY <1>2 DEF TailInv
<1> QED
  BY <1>1, <1>3, <1>4 DEF TailInv

LEMMA TailStep == TailInv /\ [FollowNext]_followVars => TailInv'
<1> SUFFICES ASSUME TailInv, [FollowNext]_followVars PROVE TailInv'
  OBVIOUS
<1> USE RingAssumption, LogsAssumption
<1>0. /\ WriterType /\ RingInv /\ sub = [k \in Clients |-> sub[k]] /\ Len(log) \in Nat
      /\ \A k \in Clients : SubInv(sub[k], Len(log))
  BY DEF TailInv, WriterType
<1>1. ASSUME NEW c \in Callers, Stamp(c) PROVE TailInv'
  <2>1. WriterType'
    BY <1>0, <1>1 DEF Stamp, WriterType
  <2>2. RingInv'
    BY <1>0, <1>1 DEF Stamp, RingInv, Have, Slot
  <2> QED
    BY <1>0, <1>1, <2>1, <2>2 DEF TailInv, Stamp
<1>2. ASSUME NEW c \in Callers, LogWrite(c) PROVE TailInv'
  <2>1. log' \in Seq(Nat) /\ Len(log') = Len(log) + 1
    BY <1>0, <1>2 DEF LogWrite, WriterType
  <2>2. clock' \in 0..MaxLogs /\ pend' \in [Callers -> 0..MaxLogs]
    BY <1>0, <1>2 DEF LogWrite, WriterType
  <2>3. /\ ring' \in [0..RingSize-1 -> Nat] /\ head' \in 0..RingSize-1 /\ full' \in BOOLEAN
        /\ RingInv'
    BY <1>0, <1>2, <2>1, RingGrows DEF LogWrite
  <2>4. \A k \in Clients : sub'[k] = Offer(sub[k], Len(log) + 1)
    BY <1>2 DEF LogWrite
  <2>5. \A k \in Clients : SubInv(sub'[k], Len(log'))
    BY <1>0, <2>1, <2>4, OfferKeeps
  <2>6. sub' = [k \in Clients |-> sub'[k]]
    BY <1>2 DEF LogWrite
  <2> QED
    BY <2>1, <2>2, <2>3, <2>5, <2>6 DEF TailInv, WriterType
<1>3. ASSUME NEW c \in Callers, LogFails(c) PROVE TailInv'
  <2>1. WriterType'
    BY <1>0, <1>3 DEF LogFails, WriterType
  <2>2. RingInv'
    BY <1>0, <1>3 DEF LogFails, RingInv, Have, Slot
  <2> QED
    BY <1>0, <1>3, <2>1, <2>2 DEF TailInv, LogFails
<1>4. ASSUME NEW k \in Clients, Subscribe(k) PROVE TailInv'
  <2>1. PICK y : sub' = [sub EXCEPT ![k] = [Off(sub[k].last) EXCEPT !.st = "backlog",
                           !.base = Len(log), !.from = sub[k].last, !.backlog = y]]
    BY <1>4, Zenon DEF Subscribe
  <2>2. SubInv([Off(sub[k].last) EXCEPT !.st = "backlog", !.base = Len(log),
                           !.from = sub[k].last, !.backlog = y], Len(log))
    BY <1>0, SubscribeKeeps
  <2> QED
    BY <1>4, <2>1, <2>2, OneConnection DEF Subscribe
<1>5. ASSUME NEW k \in Clients, EmitBacklog(k) PROVE TailInv'
  <2>1. CASE sub[k].backlog # <<>>
    <3>1. sub' = [sub EXCEPT ![k] = [sub[k] EXCEPT !.last = Head(sub[k].backlog),
                                                   !.backlog = Tail(sub[k].backlog)]]
      BY <1>0, <1>5, <2>1 DEF EmitBacklog
    <3>2. SubInv([sub[k] EXCEPT !.last = Head(sub[k].backlog),
                                !.backlog = Tail(sub[k].backlog)], Len(log))
      BY <1>0, <1>5, BacklogKeeps DEF EmitBacklog
    <3> QED
      BY <1>5, <3>1, <3>2, OneConnection DEF EmitBacklog
  <2>2. CASE sub[k].backlog = <<>>
    <3>1. sub' = [sub EXCEPT ![k] = [sub[k] EXCEPT !.st = "check"]]
      BY <1>0, <1>5, <2>2 DEF EmitBacklog
    <3>2. SubInv([sub[k] EXCEPT !.st = "check"], Len(log))
      BY <1>0, <1>5, TurnKeeps DEF EmitBacklog
    <3> QED
      BY <1>5, <3>1, <3>2, OneConnection DEF EmitBacklog
  <2> QED
    BY <2>1, <2>2
<1>6. ASSUME NEW k \in Clients, CheckDropped(k) PROVE TailInv'
  <2>1. sub' = [sub EXCEPT ![k] = [sub[k] EXCEPT !.st = "recv", !.dropped = 0,
                                     !.announced = sub[k].announced + sub[k].dropped]]
    BY <1>0, <1>6 DEF CheckDropped
  <2>2. SubInv([sub[k] EXCEPT !.st = "recv", !.dropped = 0,
                              !.announced = sub[k].announced + sub[k].dropped], Len(log))
    BY <1>0, <1>6, CheckKeeps DEF CheckDropped
  <2> QED
    BY <1>6, <2>1, <2>2, OneConnection DEF CheckDropped
<1>7. ASSUME NEW k \in Clients, Receive(k) PROVE TailInv'
  <2>1. sub' = [sub EXCEPT ![k] = [sub[k] EXCEPT !.st = "check", !.ch = Tail(sub[k].ch),
                                     !.last = Head(sub[k].ch), !.recv = sub[k].recv + 1]]
    BY <1>0, <1>7 DEF Receive
  <2>2. SubFields(sub[k])
    BY <1>0 DEF SubInv
  <2>3. sub[k].ch \in Seq(Nat) /\ sub[k].ch # <<>>
    BY <1>7, <2>2, Fields DEF Receive
  <2>4. Queued(sub[k]) # 0
    BY <2>3 DEF Queued
  <2>5. SubInv([sub[k] EXCEPT !.st = "check", !.ch = Tail(sub[k].ch),
                              !.last = Head(sub[k].ch), !.recv = sub[k].recv + 1], Len(log))
    BY <1>0, <1>7, <2>4, ReceiveKeeps DEF Receive
  <2> QED
    BY <1>7, <2>1, <2>5, OneConnection DEF Receive
<1>8. ASSUME NEW k \in Clients, Heartbeat(k) PROVE TailInv'
  <2>1. sub' = [sub EXCEPT ![k] = [sub[k] EXCEPT !.st = "check"]]
    BY <1>0, <1>8 DEF Heartbeat
  <2>2. SubInv([sub[k] EXCEPT !.st = "check"], Len(log))
    BY <1>0, <1>8, TurnKeeps DEF Heartbeat
  <2> QED
    BY <1>8, <2>1, <2>2, OneConnection DEF Heartbeat
<1>9. ASSUME NEW k \in Clients, Disconnect(k) PROVE TailInv'
  <2>1. SubInv(Off(sub[k].last), Len(log))
    BY OffKeeps
  <2> QED
    BY <1>9, <2>1, OneConnection DEF Disconnect
<1>10. CASE UNCHANGED followVars
  <2>1. WriterType' /\ RingInv'
    BY <1>0, <1>10 DEF followVars, WriterType, RingInv, Have, Slot
  <2> QED
    BY <1>0, <1>10, <2>1 DEF TailInv, followVars
<1> QED
  BY <1>1, <1>2, <1>3, <1>4, <1>5, <1>6, <1>7, <1>8, <1>9, <1>10 DEF FollowNext, Tailing

LEMMA TailAlways == FollowSpec => []TailInv
BY TailInit, TailStep, PTL DEF FollowSpec

-----------------------------------------------------------------------------
(* The theorems *)

\* Writer.Recent answers with the end of the log for every ring size, however
\* often the ring has wrapped.
THEOREM RecentAlwaysTail == FollowSpec => []RecentIsTail
<1>1. TailInv => RecentIsTail
  BY RingAnswers DEF TailInv
<1> QED
  BY <1>1, TailAlways, PTL

\* Log's non-blocking fan-out loses no record that it does not count, for any
\* number of loggers and clients.
THEOREM DropsAlwaysAccounted == FollowSpec => []DropsAccounted
<1>1. TailInv => DropsAccounted
  BY DEF TailInv, SubInv, Accounted, Queued, DropsAccounted, Live
<1> QED
  BY <1>1, TailAlways, PTL

\* auditTail's order, DroppedAndReset before each receive, suffices: a client
\* that holds a live record has been told of every record missing before it.
THEOREM GapsNeverSilent == FollowSpec => []NoSilentGap
<1>1. TailInv => NoSilentGap
  BY DEF TailInv, SubInv, LastAnnounced, NoSilentGap, Live
<1> QED
  BY <1>1, TailAlways, PTL

-----------------------------------------------------------------------------
(* The backlog of a reconnect *)

\* Induction over the naturals, for a set: the least element of its complement
\* would have a predecessor in it.
LEMMA LeastElement ==
  ASSUME NEW S, S \subseteq Nat, S # {} PROVE \E m \in S : \A n \in S : m <= n
<1>1. \E R : IsWellFoundedOn(R, Nat) /\ \A x, y \in Nat : <<y, x>> \in R <=> y < x
  <2>1. IsWellFoundedOn(OpToRel(<, Nat), Nat)
    BY NatLessThanWellFounded
  <2>2. \A x, y \in Nat : <<y, x>> \in OpToRel(<, Nat) <=> y < x
    BY DEF OpToRel
  <2> QED
    BY <2>1, <2>2, Zenon
<1>2. PICK R : IsWellFoundedOn(R, Nat) /\ \A x, y \in Nat : <<y, x>> \in R <=> y < x
  BY <1>1
<1>3. PICK x \in S : \A y \in S : ~ (<<y, x>> \in R)
  BY <1>2, WFMin
<1>4. \A y \in S : ~ (y < x)
  BY <1>2, <1>3
<1>5. \A y \in S : x <= y
  BY <1>4
<1> QED
  BY <1>5

LEMMA SetInduction ==
  ASSUME NEW S, 0 \in S, \A n \in Nat : n \in S => n + 1 \in S PROVE Nat \subseteq S
<1> DEFINE T == {n \in Nat : n \notin S}
<1>1. SUFFICES ASSUME T # {} PROVE FALSE
  OBVIOUS
<1>2. T \subseteq Nat
  OBVIOUS
<1> HIDE DEF T
<1>3. PICK m \in T : \A n \in T : m <= n
  BY <1>1, <1>2, LeastElement
<1>4. m \in Nat /\ m # 0 /\ m - 1 \in Nat /\ m = (m - 1) + 1
  BY <1>3 DEF T
<1>5. m - 1 \notin T
  BY <1>2, <1>3, <1>4
<1> QED
  BY <1>3, <1>4, <1>5 DEF T

\* The records behind a up to b, in order.
Run(a, b) == [i \in 1..b - a |-> a + i]

LEMMA SameRecords ==
  ASSUME NEW s \in Seq(Nat), NEW t \in Seq(Nat), NEW n, Len(s) = n, Len(t) = n,
         \A i \in 1..n : s[i] = t[i]
  PROVE  s = t
OBVIOUS

LEMMA RunFacts ==
  ASSUME NEW a \in Nat, NEW b \in Nat, a <= b
  PROVE  /\ Run(a, b) \in Seq(Nat) /\ Len(Run(a, b)) = b - a
         /\ Append(Run(a, b), b + 1) = Run(a, b + 1)
         /\ Run(a, a) = <<>>
         /\ a < b => /\ Run(a, b) # <<>> /\ Head(Run(a, b)) = a + 1
                     /\ Tail(Run(a, b)) = Run(a + 1, b)
<1>1. Run(a, b) \in Seq(Nat) /\ Len(Run(a, b)) = b - a
  BY DEF Run
<1>2. Append(Run(a, b), b + 1) = Run(a, b + 1)
  <2>1. Append(Run(a, b), b + 1) \in Seq(Nat) /\ Run(a, b + 1) \in Seq(Nat)
    BY <1>1 DEF Run
  <2>2. Len(Append(Run(a, b), b + 1)) = b + 1 - a /\ Len(Run(a, b + 1)) = b + 1 - a
    BY <1>1 DEF Run
  <2>3. \A i \in 1..b + 1 - a : Append(Run(a, b), b + 1)[i] = Run(a, b + 1)[i]
    BY <1>1 DEF Run
  <2> QED
    BY <2>1, <2>2, <2>3
<1>3. Run(a, a) = <<>>
  BY DEF Run
<1>4. ASSUME a < b PROVE /\ Run(a, b) # <<>> /\ Head(Run(a, b)) = a + 1
                         /\ Tail(Run(a, b)) = Run(a + 1, b)
  <2>1. Run(a, b) # <<>> /\ Head(Run(a, b)) = a + 1
    BY <1>1, <1>4 DEF Run
  <2>2. Tail(Run(a, b)) \in Seq(Nat) /\ Run(a + 1, b) \in Seq(Nat)
    BY <1>1, <2>1 DEF Run
  <2>3. Len(Tail(Run(a, b))) = b - a - 1 /\ Len(Run(a + 1, b)) = b - a - 1
    BY <1>1, <1>4, <2>1 DEF Run
  <2>4. \A i \in 1..b - a - 1 : Tail(Run(a, b))[i] = Run(a + 1, b)[i]
    BY <1>1, <1>4, <2>1 DEF Run
  <2>5. Tail(Run(a, b)) = Run(a + 1, b)
    BY <2>2, <2>3, <2>4, SameRecords
  <2> QED
    BY <2>1, <2>5
<1> QED
  BY <1>1, <1>2, <1>3, <1>4

LEMMA RunEmpty ==
  ASSUME NEW a \in Int, NEW b \in Int, b <= a PROVE Run(a, b) = <<>>
BY DEF Run

\* One turn of Subscribe's loop, from the backlogs f of the turns before it.
Turn(f, after, i) ==
  IF i = 0 THEN <<>>
  ELSE IF After(Newest(Have)[i], after) THEN Append(f[i - 1], Newest(Have)[i])
  ELSE f[i - 1]

Turns(f, after) == [i \in 0..Have |-> Turn(f, after, i)]

LEMMA KeptChosen == \A after : Kept(after) = CHOOSE f : f = Turns(f, after)
BY DEF Kept, Turns, Turn

\* Any function that satisfies the loop's equation is the loop's result.
LEMMA KeptUnique ==
  ASSUME NEW after, NEW g, g = Turns(g, after), Have \in Nat
  PROVE  Kept(after)[Have] = g[Have]
<1> DEFINE f == Kept(after)
<1>1. f = Turns(f, after)
  BY KeptChosen, Zenon
<1> HIDE DEF f
<1> DEFINE S == {n \in Nat : n \in 0..Have => f[n] = g[n]}
<1>2. \A i \in 0..Have : f[i] = Turn(f, after, i) /\ g[i] = Turn(g, after, i)
  BY <1>1 DEF Turns
<1>3. 0 \in S
  BY <1>2 DEF Turn
<1>4. ASSUME NEW n \in Nat, n \in S PROVE n + 1 \in S
  <2>1. SUFFICES ASSUME n + 1 \in 0..Have PROVE f[n + 1] = g[n + 1]
    OBVIOUS
  <2>2. n \in 0..Have /\ n + 1 # 0 /\ (n + 1) - 1 = n
    BY <2>1
  <2>3. f[n] = g[n]
    BY <1>4, <2>2
  <2> QED
    BY <1>2, <2>1, <2>2, <2>3 DEF Turn
<1> HIDE DEF S
<1>5. Nat \subseteq S
  BY <1>3, <1>4, SetInduction
<1>6. f[Have] = g[Have]
  BY <1>5 DEF S
<1> QED
  BY <1>6 DEF f

\* What Subscribe retains of the log: the oldest record in the ring, and the
\* position from which a client that saw record from is served.
Oldest(b) == IF b > RingSize THEN b - RingSize ELSE 0
Resume(from, b) == IF from > Oldest(b) THEN from ELSE Oldest(b)

LEMMA ResumeFacts ==
  ASSUME NEW b \in Nat, NEW from \in 0..b, NEW h, h = IF b < RingSize THEN b ELSE RingSize
  PROVE  /\ Resume(from, b) \in 0..b /\ Resume(from, b) >= b - h /\ Resume(from, b) >= from
         /\ Resume(from, b) = from \/ Resume(from, b) = b - h
BY RingAssumption DEF Resume, Oldest

\* The filter by time selects by position while the stamps are in order.
LEMMA KeptIsRun ==
  ASSUME WriterType, RingInv, StampOrdered, \A i \in 1..Len(log) : log[i] > 0,
         NEW from \in 0..Len(log)
  PROVE  Kept(IF from = 0 THEN 0 ELSE log[from])[Have] = Run(Resume(from, Len(log)), Len(log))
<1> USE RingAssumption
<1> DEFINE L == Len(log)
           after == IF from = 0 THEN 0 ELSE log[from]
           lo == Resume(from, L)
           g == [i \in 0..Have |-> Run(lo, L - Have + i)]
<1>1. L \in Nat /\ Have \in 0..RingSize /\ Have = (IF L < RingSize THEN L ELSE RingSize)
  <2>1. /\ L \in Nat /\ head \in 0..RingSize-1
        /\ ~ full => L = head
        /\ full => L >= RingSize
    BY DEF WriterType, RingInv
  <2> HIDE DEF L
  <2> QED
    BY <2>1 DEF Have
<1>2. lo \in 0..L /\ lo >= L - Have /\ lo >= from /\ (lo = from \/ lo = L - Have)
  BY <1>1, ResumeFacts
<1>3. \A i \in 1..Have : Newest(Have)[i] = L - Have + i
  <2>1. /\ Recent(Have) = Newest(Have) /\ Len(Newest(Have)) = Have
    BY <1>1 DEF Recent, Newest
  <2>2. RecentIsTail
    BY RingAnswers
  <2>3. Have \in 0..RingSize + 1
    BY <1>1
  <2>4. \A i \in 1..Len(Recent(Have)) : Recent(Have)[i] = L - Len(Recent(Have)) + i
    BY <2>2, <2>3 DEF RecentIsTail
  <2> HIDE DEF L
  <2> QED
    BY <2>1, <2>4
<1>4. \A p \in 1..L : After(p, after) <=> p > from
  BY <1>1 DEF After, StampOrdered, WriterType
<1> HIDE DEF L, after, lo
<1>5. ASSUME NEW i \in 0..Have PROVE g[i] = Turn(g, after, i)
  <2>1. CASE i = 0
    BY <1>1, <1>2, <2>1, RunEmpty DEF Turn
  <2>2. CASE i # 0
    <3>1. /\ i - 1 \in 0..Have /\ i \in 1..Have /\ L - Have + i \in 1..L
          /\ L - Have + (i - 1) = L - Have + i - 1
      BY <1>1, <2>2
    <3>2. g[i - 1] = Run(lo, L - Have + i - 1)
      BY <3>1
    <3>3. Newest(Have)[i] = L - Have + i
      BY <1>3, <3>1
    <3>4. CASE L - Have + i > from
      <4>1. L - Have + i > lo
        BY <1>1, <1>2, <3>1, <3>4
      <4>2. Append(Run(lo, L - Have + i - 1), L - Have + i) = Run(lo, L - Have + i)
        <5> DEFINE b == L - Have + i - 1
        <5>1. b \in Nat /\ lo \in Nat /\ lo <= b /\ b + 1 = L - Have + i
          BY <1>1, <1>2, <3>1, <4>1
        <5> HIDE DEF b
        <5>2. Append(Run(lo, b), b + 1) = Run(lo, b + 1)
          BY <5>1, RunFacts
        <5> QED
          BY <5>1, <5>2 DEF b
      <4>3. Turn(g, after, i) = Append(g[i - 1], L - Have + i)
        BY <1>4, <2>2, <3>1, <3>3, <3>4 DEF Turn
      <4> QED
        BY <3>1, <3>2, <4>2, <4>3
    <3>5. CASE ~ (L - Have + i > from)
      <4>1. Turn(g, after, i) = g[i - 1]
        BY <1>4, <2>2, <3>1, <3>3, <3>5 DEF Turn
      <4>2. L - Have + i <= lo /\ L - Have + i - 1 <= lo /\ lo \in Int
        BY <1>1, <1>2, <3>1, <3>5
      <4>3. Run(lo, L - Have + i) = <<>> /\ Run(lo, L - Have + i - 1) = <<>>
        BY <1>1, <3>1, <4>2, RunEmpty
      <4> QED
        BY <3>1, <3>2, <4>1, <4>3
    <3> QED
      BY <3>4, <3>5
  <2> QED
    BY <2>1, <2>2
<1>6. g = Turns(g, after)
  BY <1>5 DEF Turns
<1>7. g[Have] = Run(lo, L)
  <2>1. Have \in 0..Have /\ L - Have + Have = L
    BY <1>1
  <2> QED
    BY <2>1
<1> HIDE DEF g
<1>8. Kept(after)[Have] = Run(lo, L)
  BY <1>1, <1>6, <1>7, KeptUnique
<1> QED
  BY <1>8 DEF L, after, lo

\* What holds of a subscription when n records are written in the order of
\* their stamps: the rest of the backlog starts behind the last record emitted.
Rest(s) ==
  Run(IF s.last > Resume(s.from, s.base) THEN s.last ELSE Resume(s.from, s.base), s.base)

Contiguous(s, n) ==
  /\ s.last \in 0..n /\ \A j \in 1..Queued(s) : s.ch[j] \in 0..n
  /\ s.st = "backlog" => /\ s.base \in 0..n /\ s.last \in 0..s.base /\ s.from \in 0..s.last
                         /\ s.backlog = Rest(s)

LEMMA ContiguousOff ==
  ASSUME NEW n \in Nat, NEW x \in 0..n PROVE Contiguous(Off(x), n)
<1>1. Off(x).st = "off" /\ Off(x).ch = <<>> /\ Off(x).last = x
  BY DEF Off
<1>2. Queued(Off(x)) = 0
  BY <1>1 DEF Queued
<1> QED
  BY <1>1, <1>2 DEF Contiguous

LEMMA ContiguousTurn ==
  ASSUME NEW s, NEW t, NEW n, Contiguous(s, n), t.last = s.last, t.ch = s.ch,
         t.st # "backlog"
  PROVE  Contiguous(t, n)
BY DEF Contiguous, Queued

LEMMA ContiguousOffer ==
  ASSUME NEW s, NEW n \in Nat, SubFields(s), Contiguous(s, n)
  PROVE  Contiguous(Offer(s, n + 1), n + 1)
<1> DEFINE t == Offer(s, n + 1)
<1>1. PICK B : s \in SubRecord(B)
  BY DEF SubFields
<1>2. /\ t.st = s.st /\ t.last = s.last /\ t.base = s.base /\ t.from = s.from
      /\ t.backlog = s.backlog
      /\ t.ch = s.ch \/ t.ch = Append(s.ch, n + 1)
  BY <1>1 DEF SubRecord, Offer
<1> HIDE DEF t
<1>3. \A j \in 1..Queued(t) : t.ch[j] \in 0..n + 1
  <2>1. CASE t.ch = s.ch
    BY <2>1 DEF Contiguous, Queued
  <2>2. CASE t.ch = Append(s.ch, n + 1)
    <3>1. s.ch \in Seq(Nat)
      BY Fields
    <3>2. \A j \in 1..Len(s.ch) : s.ch[j] \in 0..n
      BY DEF Contiguous, Queued
    <3>3. /\ Len(t.ch) = Len(s.ch) + 1
          /\ \A j \in 1..Len(t.ch) : t.ch[j] = IF j <= Len(s.ch) THEN s.ch[j] ELSE n + 1
      BY <2>2, <3>1
    <3>4. ASSUME NEW j \in 1..Len(t.ch) PROVE t.ch[j] \in 0..n + 1
      <4>1. t.ch[j] = n + 1 \/ t.ch[j] \in 0..n
        <5>1. CASE j <= Len(s.ch)
          <6>1. j \in 1..Len(s.ch)
            BY <3>1, <5>1
          <6>2. t.ch[j] = s.ch[j]
            BY <3>3, <5>1
          <6> QED
            BY <3>2, <6>1, <6>2
        <5>2. CASE ~ (j <= Len(s.ch))
          BY <3>3, <5>2
        <5> QED
          BY <5>1, <5>2
      <4> QED
        BY <4>1
    <3> QED
      BY <3>4 DEF Queued
  <2> QED
    BY <1>2, <2>1, <2>2
<1>4. t.last \in 0..n + 1
  BY <1>2 DEF Contiguous
<1>5. Rest(t) = Rest(s)
  BY <1>2 DEF Rest
<1>6. s.st = "backlog" => s.base \in 0..n + 1
  BY DEF Contiguous
<1> QED
  BY <1>2, <1>3, <1>4, <1>5, <1>6 DEF Contiguous, t

LEMMA ContiguousReceive ==
  ASSUME NEW s, NEW n \in Nat, SubFields(s), Contiguous(s, n), s.ch # <<>>, NEW t,
         t.st # "backlog", t.ch = Tail(s.ch), t.last = Head(s.ch)
  PROVE  Contiguous(t, n)
<1>1. s.ch \in Seq(Nat)
  BY Fields
<1>2. /\ Len(s.ch) > 0 /\ Head(s.ch) = s.ch[1] /\ Len(Tail(s.ch)) = Len(s.ch) - 1
      /\ \A j \in 1..Len(s.ch) - 1 : Tail(s.ch)[j] = s.ch[j + 1]
  BY <1>1
<1>3. \A j \in 1..Len(s.ch) : s.ch[j] \in 0..n
  BY DEF Contiguous, Queued
<1>4. s.ch[1] \in 0..n /\ \A j \in 1..Len(s.ch) - 1 : s.ch[j + 1] \in 0..n
  BY <1>1, <1>2, <1>3
<1> QED
  BY <1>2, <1>4 DEF Contiguous, Queued

LEMMA ContiguousEmit ==
  ASSUME NEW s, NEW n \in Nat, SubFields(s), Contiguous(s, n), s.st = "backlog",
         s.backlog # <<>>, NEW t, t.st = s.st, t.ch = s.ch, t.base = s.base,
         t.from = s.from, t.last = Head(s.backlog), t.backlog = Tail(s.backlog)
  PROVE  Contiguous(t, n)
<1> USE RingAssumption
<1> DEFINE lo == Resume(s.from, s.base)
           pos == IF s.last > lo THEN s.last ELSE lo
<1>1. /\ s.base \in 0..n /\ s.last \in 0..s.base /\ s.from \in 0..s.last
      /\ s.backlog = Run(pos, s.base)
  BY DEF Contiguous, Rest
<1>2. lo \in 0..s.base
  BY <1>1 DEF Resume, Oldest
<1> HIDE DEF lo
<1>3. pos \in 0..s.base /\ pos >= lo /\ pos >= s.last
  BY <1>1, <1>2
<1> HIDE DEF pos
<1>4. pos < s.base
  BY <1>1, <1>3, RunEmpty
<1>5. t.last = pos + 1 /\ t.backlog = Run(pos + 1, s.base)
  <2>1. pos \in Nat /\ s.base \in Nat /\ pos <= s.base
    BY <1>1, <1>3
  <2>2. Head(Run(pos, s.base)) = pos + 1 /\ Tail(Run(pos, s.base)) = Run(pos + 1, s.base)
    BY <1>4, <2>1, RunFacts
  <2> QED
    BY <1>1, <2>2
<1>6. Rest(t) = Run(pos + 1, s.base)
  <2>1. Resume(t.from, t.base) = lo /\ pos + 1 > lo
    BY <1>2, <1>3 DEF lo
  <2> QED
    BY <1>5, <2>1 DEF Rest
<1>7. t.last \in 0..n /\ t.last \in 0..t.base /\ t.from \in 0..t.last
  <2>1. pos + 1 \in 0..n /\ pos + 1 \in 0..s.base /\ s.from \in 0..pos + 1
    BY <1>1, <1>3, <1>4
  <2> QED
    BY <1>5, <2>1
<1> QED
  BY <1>1, <1>5, <1>6, <1>7 DEF Contiguous, Queued

LEMMA ContiguousSubscribe ==
  ASSUME NEW n \in Nat, NEW x \in 0..n, NEW t, t.st = "backlog", t.ch = <<>>, t.base = n,
         t.from = x, t.last = x, t.backlog = Run(Resume(x, n), n)
  PROVE  Contiguous(t, n)
<1>1. Queued(t) = 0
  BY DEF Queued
<1>2. Resume(x, n) >= x /\ Resume(x, n) \in Nat
  BY RingAssumption DEF Resume, Oldest
<1>3. Rest(t) = Run(Resume(x, n), n)
  BY <1>2 DEF Rest
<1> QED
  BY <1>1, <1>3 DEF Contiguous

BacklogInv ==
  /\ \A i \in 1..Len(log) : log[i] > 0
  /\ StampOrdered => \A k \in Clients : Contiguous(sub[k], Len(log))

\* A step of one connection, the writer apart.
LEMMA OneBacklog ==
  ASSUME TailInv, BacklogInv, NEW k \in Clients, UNCHANGED log,
         NEW t, sub' = [sub EXCEPT ![k] = t], StampOrdered => Contiguous(t, Len(log))
  PROVE  BacklogInv'
<1>1. \A i \in Clients : sub'[i] = IF i = k THEN t ELSE sub[i]
  BY DEF TailInv
<1>2. StampOrdered' <=> StampOrdered
  BY DEF StampOrdered
<1>3. StampOrdered => \A i \in Clients : Contiguous(sub'[i], Len(log))
  BY <1>1 DEF BacklogInv
<1> QED
  BY <1>2, <1>3 DEF BacklogInv

\* A record enters the log: its stamp is positive, and if the stamps are in
\* order now they were before.
LEMMA LogBacklog ==
  ASSUME TailInv, BacklogInv, NEW c \in Callers, LogWrite(c) PROVE BacklogInv'
<1> USE LogsAssumption
<1>1. /\ log \in Seq(Nat) /\ Len(log) \in Nat /\ pend[c] \in Nat /\ pend[c] > 0
  BY DEF LogWrite, TailInv, WriterType
<1>2. /\ Len(log') = Len(log) + 1 /\ log'[Len(log) + 1] = pend[c]
      /\ \A i \in 1..Len(log) : log'[i] = log[i]
  BY <1>1 DEF LogWrite
<1>3. \A i \in 1..Len(log) : log[i] > 0
  BY DEF BacklogInv
<1> DEFINE n == Len(log)
<1> HIDE DEF n
<1>4. ASSUME NEW i \in 1..Len(log') PROVE log'[i] > 0
  <2>1. i \in 1..n \/ i = n + 1
    BY <1>1, <1>2 DEF n
  <2> QED
    BY <1>1, <1>2, <1>3, <2>1 DEF n
<1>5. ASSUME StampOrdered' PROVE StampOrdered
  <2>1. SUFFICES ASSUME NEW i \in 1..Len(log), NEW j \in 1..Len(log), i < j
                 PROVE  log[i] < log[j]
    BY DEF StampOrdered
  <2>2. i \in 1..Len(log') /\ j \in 1..Len(log')
    BY <1>1, <1>2
  <2>3. log'[i] < log'[j]
    BY <1>5, <2>1, <2>2 DEF StampOrdered
  <2> QED
    BY <1>2, <2>3
<1>6. ASSUME StampOrdered', NEW k \in Clients PROVE Contiguous(sub'[k], Len(log'))
  <2>1. Contiguous(sub[k], Len(log)) /\ SubFields(sub[k])
    BY <1>5, <1>6 DEF BacklogInv, TailInv, SubInv
  <2>2. sub'[k] = Offer(sub[k], Len(log) + 1)
    BY DEF LogWrite
  <2> QED
    BY <1>1, <1>2, <2>1, <2>2, ContiguousOffer
<1> QED
  BY <1>4, <1>6 DEF BacklogInv

LEMMA BacklogInit == FollowInit => BacklogInv
<1> SUFFICES ASSUME FollowInit PROVE BacklogInv
  OBVIOUS
<1>1. Len(log) = 0 /\ \A k \in Clients : sub[k] = Off(0)
  BY DEF FollowInit
<1> QED
  BY <1>1, ContiguousOff DEF BacklogInv

LEMMA BacklogStep == TailInv /\ BacklogInv /\ [FollowNext]_followVars => BacklogInv'
<1> SUFFICES ASSUME TailInv, BacklogInv, [FollowNext]_followVars PROVE BacklogInv'
  OBVIOUS
<1>0. /\ WriterType /\ RingInv /\ Len(log) \in Nat
      /\ \A k \in Clients : SubFields(sub[k])
      /\ sub = [k \in Clients |-> sub[k]]
  BY DEF TailInv, WriterType, SubInv
<1>1. ASSUME NEW k \in Clients, StampOrdered PROVE Contiguous(sub[k], Len(log))
  BY <1>1 DEF BacklogInv
<1>q. ASSUME UNCHANGED <<log, sub>> PROVE BacklogInv'
  BY <1>q DEF BacklogInv, StampOrdered
<1>2. ASSUME NEW c \in Callers, Stamp(c) \/ LogFails(c) PROVE BacklogInv'
  BY <1>q, <1>2 DEF Stamp, LogFails
<1>3. ASSUME NEW c \in Callers, LogWrite(c) PROVE BacklogInv'
  BY <1>3, LogBacklog
<1>4. ASSUME NEW k \in Clients, Subscribe(k) PROVE BacklogInv'
  <2> DEFINE x == sub[k].last
             y == Kept(IF x = 0 THEN 0 ELSE log[x])[Have]
             t == [Off(x) EXCEPT !.st = "backlog", !.base = Len(log), !.from = x, !.backlog = y]
  <2>1. sub' = [sub EXCEPT ![k] = t] /\ UNCHANGED log
    BY <1>4, Zenon DEF Subscribe
  <2>2. ASSUME StampOrdered PROVE Contiguous(t, Len(log))
    <3>1. x \in 0..Len(log)
      BY <1>1, <2>2 DEF Contiguous
    <3>2. y = Run(Resume(x, Len(log)), Len(log))
      BY <1>0, <2>2, <3>1, KeptIsRun DEF BacklogInv
    <3> HIDE DEF x, y
    <3>3. /\ t.st = "backlog" /\ t.ch = <<>> /\ t.base = Len(log) /\ t.from = x /\ t.last = x
          /\ t.backlog = y
      BY DEF Off
    <3> HIDE DEF t
    <3> QED
      BY <1>0, <3>1, <3>2, <3>3, ContiguousSubscribe
  <2> HIDE DEF t
  <2> QED
    BY <2>1, <2>2, OneBacklog
<1>5. ASSUME NEW k \in Clients, EmitBacklog(k) PROVE BacklogInv'
  <2>0. PICK B : sub[k] \in SubRecord(B)
    BY <1>0 DEF SubFields
  <2>1. CASE sub[k].backlog # <<>>
    <3> DEFINE t == [sub[k] EXCEPT !.last = Head(sub[k].backlog), !.backlog = Tail(sub[k].backlog)]
    <3>1. sub' = [sub EXCEPT ![k] = t] /\ UNCHANGED log
      BY <1>0, <1>5, <2>1 DEF EmitBacklog
    <3>2. /\ t.st = sub[k].st /\ t.ch = sub[k].ch /\ t.base = sub[k].base
          /\ t.from = sub[k].from /\ t.last = Head(sub[k].backlog)
          /\ t.backlog = Tail(sub[k].backlog)
      BY <2>0 DEF SubRecord
    <3> HIDE DEF t
    <3>3. StampOrdered => Contiguous(t, Len(log))
      BY <1>0, <1>1, <1>5, <2>1, <3>2, ContiguousEmit DEF EmitBacklog
    <3> QED
      BY <3>1, <3>3, OneBacklog
  <2>2. CASE sub[k].backlog = <<>>
    <3> DEFINE t == [sub[k] EXCEPT !.st = "check"]
    <3>1. sub' = [sub EXCEPT ![k] = t] /\ UNCHANGED log
      BY <1>0, <1>5, <2>2 DEF EmitBacklog
    <3>2. t.st = "check" /\ t.ch = sub[k].ch /\ t.last = sub[k].last
      BY <2>0 DEF SubRecord
    <3> HIDE DEF t
    <3>3. StampOrdered => Contiguous(t, Len(log))
      BY <1>1, <3>2, ContiguousTurn
    <3> QED
      BY <3>1, <3>3, OneBacklog
  <2> QED
    BY <2>1, <2>2
<1>6. ASSUME NEW k \in Clients, CheckDropped(k) PROVE BacklogInv'
  <2> DEFINE t == [sub[k] EXCEPT !.st = "recv", !.dropped = 0,
                                 !.announced = sub[k].announced + sub[k].dropped]
  <2>0. PICK B : sub[k] \in SubRecord(B)
    BY <1>0 DEF SubFields
  <2>1. sub' = [sub EXCEPT ![k] = t] /\ UNCHANGED log
    BY <1>0, <1>6 DEF CheckDropped
  <2>2. t.st = "recv" /\ t.ch = sub[k].ch /\ t.last = sub[k].last
    BY <2>0 DEF SubRecord
  <2> HIDE DEF t
  <2>3. StampOrdered => Contiguous(t, Len(log))
    BY <1>1, <2>2, ContiguousTurn
  <2> QED
    BY <2>1, <2>3, OneBacklog
<1>7. ASSUME NEW k \in Clients, Receive(k) PROVE BacklogInv'
  <2> DEFINE t == [sub[k] EXCEPT !.st = "check", !.ch = Tail(sub[k].ch),
                                 !.last = Head(sub[k].ch), !.recv = sub[k].recv + 1]
  <2>0. PICK B : sub[k] \in SubRecord(B)
    BY <1>0 DEF SubFields
  <2>1. sub' = [sub EXCEPT ![k] = t] /\ UNCHANGED log /\ sub[k].ch # <<>>
    BY <1>0, <1>7 DEF Receive
  <2>2. t.st = "check" /\ t.ch = Tail(sub[k].ch) /\ t.last = Head(sub[k].ch)
    BY <2>0 DEF SubRecord
  <2> HIDE DEF t
  <2>3. StampOrdered => Contiguous(t, Len(log))
    BY <1>0, <1>1, <2>1, <2>2, ContiguousReceive
  <2> QED
    BY <2>1, <2>3, OneBacklog
<1>8. ASSUME NEW k \in Clients, Heartbeat(k) PROVE BacklogInv'
  <2> DEFINE t == [sub[k] EXCEPT !.st = "check"]
  <2>0. PICK B : sub[k] \in SubRecord(B)
    BY <1>0 DEF SubFields
  <2>1. sub' = [sub EXCEPT ![k] = t] /\ UNCHANGED log
    BY <1>0, <1>8 DEF Heartbeat
  <2>2. t.st = "check" /\ t.ch = sub[k].ch /\ t.last = sub[k].last
    BY <2>0 DEF SubRecord
  <2> HIDE DEF t
  <2>3. StampOrdered => Contiguous(t, Len(log))
    BY <1>1, <2>2, ContiguousTurn
  <2> QED
    BY <2>1, <2>3, OneBacklog
<1>9. ASSUME NEW k \in Clients, Disconnect(k) PROVE BacklogInv'
  <2>1. StampOrdered => sub[k].last \in 0..Len(log)
    BY <1>1 DEF Contiguous
  <2>2. StampOrdered => Contiguous(Off(sub[k].last), Len(log))
    BY <1>0, <2>1, ContiguousOff
  <2> QED
    BY <1>9, <2>2, OneBacklog DEF Disconnect
<1>10. CASE UNCHANGED followVars
  BY <1>q, <1>10 DEF followVars
<1> QED
  BY <1>2, <1>3, <1>4, <1>5, <1>6, <1>7, <1>8, <1>9, <1>10 DEF FollowNext, Tailing

\* Subscribe's filter by time gives a reconnecting client exactly the retained
\* records behind the last one it saw, for every ring size and however often
\* it reconnects, while concurrent Log calls enter the lock in stamp order.
THEOREM BacklogAlwaysContiguous == FollowSpec => []BacklogContiguous
<1>1. TailInv /\ BacklogInv => BacklogContiguous
  <2> SUFFICES ASSUME TailInv, BacklogInv, StampOrdered, NEW k \in Clients,
                      sub[k].st = "backlog", sub[k].last = sub[k].from
               PROVE  sub[k].backlog = Run(Resume(sub[k].from, sub[k].base), sub[k].base)
    BY Zenon DEF BacklogContiguous, Run, Resume, Oldest
  <2>1. /\ sub[k].base \in Nat /\ sub[k].from \in Nat /\ sub[k].backlog = Rest(sub[k])
    BY DEF BacklogInv, Contiguous, TailInv
  <2>2. ~ (sub[k].last > Resume(sub[k].from, sub[k].base))
    BY <2>1, RingAssumption DEF Resume, Oldest
  <2> QED
    BY <2>1, <2>2 DEF Rest
<1> QED
  BY <1>1, TailAlways, BacklogInit, BacklogStep, PTL DEF FollowSpec
=============================================================================

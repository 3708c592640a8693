------------------------------ MODULE AuditTail ------------------------------
(***************************************************************************)
(* The in-memory side of audit.Writer: the ring of recent records, the     *)
(* live-tail subscriptions, and the SSE handler admin.auditTail with the   *)
(* client that reconnects to it.  The file side is module AuditFile.       *)
(*                                                                         *)
(* Log stamps a record before it takes Writer.mu; everything under the     *)
(* mutex is one action.  A record is its position in the order of the      *)
(* critical sections, log[i] its timestamp; stamps are distinct.           *)
(***************************************************************************)
EXTENDS Integers, Sequences

CONSTANTS
  RingSize,   \* Options.RingSize, also the capacity of a subscription's Ch
  Callers,    \* request goroutines that call Log
  Clients,    \* SSE clients
  MaxLogs     \* bound: calls to Log

ASSUME RingAssumption == RingSize \in Nat \ {0}
ASSUME LogsAssumption == MaxLogs \in Nat

VARIABLES
  clock,              \* time.Now
  pend,               \* pend[c]: the stamp of c's Log call, 0 outside Log
  log,                \* the stamps of all records written, in order
  ring, head, full,   \* Writer fields
  sub                 \* per client: its connection and its subscription

followVars == <<clock, pend, log, ring, head, full, sub>>

\* st is the handler's position; last is the record whose id the client will
\* send as Last-Event-ID.  base, from, recv and announced are history: the log
\* length and last at Subscribe, and what this connection has been given.
Off(last) == [st |-> "off", ch |-> <<>>, dropped |-> 0, backlog |-> <<>>,
              last |-> last, base |-> 0, from |-> 0, recv |-> 0, announced |-> 0]

SubType ==
  [st : {"off", "backlog", "check", "recv"}, ch : Seq(Nat), dropped : Nat,
   backlog : Seq(Nat), last : Nat, base : Nat, from : Nat, recv : Nat, announced : Nat]

\* The type invariant.
FollowTypeOK ==
  /\ clock \in 0..MaxLogs /\ pend \in [Callers -> 0..MaxLogs] /\ log \in Seq(Nat)
  /\ ring \in [0..RingSize-1 -> Nat] /\ head \in 0..RingSize-1 /\ full \in BOOLEAN
  /\ sub \in [Clients -> SubType]

-----------------------------------------------------------------------------
(* The ring *)

Have == IF full THEN RingSize ELSE head

\* The n most recent records, oldest first.
Newest(n) ==
  LET start == (head - n + RingSize) % RingSize
  IN  [i \in 1..n |-> ring[(start + i - 1) % RingSize]]

\* Writer.Recent.
Recent(n) == Newest(IF n > Have THEN Have ELSE n)

-----------------------------------------------------------------------------
(* Log *)

\* r.Time = time.Now(), before the lock.
Stamp(c) ==
  /\ pend[c] = 0 /\ clock < MaxLogs
  /\ clock' = clock + 1 /\ pend' = [pend EXCEPT ![c] = clock + 1]
  /\ UNCHANGED <<log, ring, head, full, sub>>

\* Mutant: a full channel drops the record without counting it.
OfferUncounted(s, id) ==
  IF s.st = "off" \/ Len(s.ch) >= RingSize THEN s ELSE [s EXCEPT !.ch = Append(s.ch, id)]

\* The non-blocking send to one subscription.
Offer(s, id) ==
  IF s.st = "off" THEN s
  ELSE IF Len(s.ch) < RingSize THEN [s EXCEPT !.ch = Append(s.ch, id)]
  ELSE [s EXCEPT !.dropped = s.dropped + 1]

\* Mutant: full follows head instead of latching.
RingWriteUnlatched(id) ==
  /\ ring' = [ring EXCEPT ![head] = id]
  /\ head' = (head + 1) % RingSize
  /\ full' = (head' = 0)

RingWrite(id) ==
  /\ ring' = [ring EXCEPT ![head] = id]
  /\ head' = (head + 1) % RingSize
  /\ full' = (full \/ head' = 0)

\* The critical section of Log: the line is written, then ring and fan-out.
LogWrite(c) ==
  /\ pend[c] # 0
  /\ log' = Append(log, pend[c])
  /\ RingWrite(Len(log) + 1)
  /\ sub' = [k \in Clients |-> Offer(sub[k], Len(log) + 1)]
  /\ pend' = [pend EXCEPT ![c] = 0] /\ UNCHANGED clock

\* The writer is closed or the write fails: Log returns, nothing is recorded.
LogFails(c) ==
  /\ pend[c] # 0 /\ pend' = [pend EXCEPT ![c] = 0]
  /\ UNCHANGED <<clock, log, ring, head, full, sub>>

-----------------------------------------------------------------------------
(* auditTail *)

\* Mutant: the backlog starts at, not after, Last-Event-ID.
NotBefore(i, after) == after = 0 \/ log[i] >= after

\* Subscribe's filter; a zero time keeps everything.
After(i, after) == after = 0 \/ log[i] > after

\* Subscribe's loop: Kept(after)[i] is the backlog after i records of the ring.
Kept(after) ==
  LET recent == Newest(Have)
      kept[i \in 0..Have] ==
        IF i = 0 THEN <<>>
        ELSE IF After(recent[i], after) THEN Append(kept[i - 1], recent[i])
        ELSE kept[i - 1]
  IN  kept

\* The client connects with the time of the last record it saw; Subscribe
\* copies the backlog and registers the channel under one lock.
Subscribe(k) ==
  LET last  == sub[k].last
      after == IF last = 0 THEN 0 ELSE log[last]
  IN  /\ sub[k].st = "off"
      /\ sub' = [sub EXCEPT ![k] =
           [Off(last) EXCEPT !.st = "backlog", !.base = Len(log), !.from = last,
              !.backlog = Kept(after)[Have]]]
      /\ UNCHANGED <<clock, pend, log, ring, head, full>>

\* Mutant: the live loop is entered after the last backlog record only.
EmitBacklogNonempty(k) ==
  /\ sub[k].st = "backlog" /\ sub[k].backlog # <<>>
  /\ sub' = [sub EXCEPT ![k].last = Head(sub[k].backlog), ![k].backlog = Tail(sub[k].backlog),
                        ![k].st = IF Len(sub[k].backlog) = 1 THEN "check" ELSE "backlog"]
  /\ UNCHANGED <<clock, pend, log, ring, head, full>>

\* One backlog record is emitted, or the live loop is entered.
EmitBacklog(k) ==
  /\ sub[k].st = "backlog"
  /\ \/ /\ sub[k].backlog # <<>>
        /\ sub' = [sub EXCEPT ![k].last = Head(sub[k].backlog),
                              ![k].backlog = Tail(sub[k].backlog)]
     \/ /\ sub[k].backlog = <<>>
        /\ sub' = [sub EXCEPT ![k].st = "check"]
  /\ UNCHANGED <<clock, pend, log, ring, head, full>>

\* DroppedAndReset and, if it is positive, the sentinel event.
CheckDropped(k) ==
  /\ sub[k].st = "check"
  /\ sub' = [sub EXCEPT ![k].st = "recv", ![k].dropped = 0,
                        ![k].announced = sub[k].announced + sub[k].dropped]
  /\ UNCHANGED <<clock, pend, log, ring, head, full>>

\* Mutant: the handler drains Ch without looking at the drop count again.
ReceiveOnly(k) ==
  /\ sub[k].st = "recv" /\ sub[k].ch # <<>>
  /\ sub' = [sub EXCEPT ![k].ch = Tail(sub[k].ch), ![k].last = Head(sub[k].ch),
                        ![k].recv = sub[k].recv + 1]
  /\ UNCHANGED <<clock, pend, log, ring, head, full>>

\* select: a record arrives and is emitted.
Receive(k) ==
  /\ sub[k].st = "recv" /\ sub[k].ch # <<>>
  /\ sub' = [sub EXCEPT ![k].st = "check", ![k].ch = Tail(sub[k].ch),
                        ![k].last = Head(sub[k].ch), ![k].recv = sub[k].recv + 1]
  /\ UNCHANGED <<clock, pend, log, ring, head, full>>

\* select: the heartbeat ticker.
Heartbeat(k) ==
  /\ sub[k].st = "recv" /\ sub' = [sub EXCEPT ![k].st = "check"]
  /\ UNCHANGED <<clock, pend, log, ring, head, full>>

\* The request context ends or an emit fails (the client has then not seen the
\* record): the deferred Close drops the subscription with what it holds.
Disconnect(k) ==
  /\ sub[k].st # "off" /\ sub' = [sub EXCEPT ![k] = Off(sub[k].last)]
  /\ UNCHANGED <<clock, pend, log, ring, head, full>>

-----------------------------------------------------------------------------
FollowInit ==
  /\ clock = 0 /\ pend = [c \in Callers |-> 0] /\ log = <<>>
  /\ ring = [i \in 0..RingSize-1 |-> 0] /\ head = 0 /\ full = FALSE
  /\ sub = [k \in Clients |-> Off(0)]

Tailing(k) == EmitBacklog(k) \/ CheckDropped(k) \/ Receive(k) \/ Heartbeat(k)

FollowNext ==
  \/ \E c \in Callers : Stamp(c) \/ LogWrite(c) \/ LogFails(c)
  \/ \E k \in Clients : Subscribe(k) \/ Tailing(k) \/ Disconnect(k)

FollowSpec == FollowInit /\ [][FollowNext]_followVars

\* The handler goroutine runs; select picks a ready record infinitely often
\* although the 15 s heartbeat may be ready too.
TailFairness ==
  \A k \in Clients :
    WF_followVars(EmitBacklog(k)) /\ WF_followVars(CheckDropped(k)) /\ SF_followVars(Receive(k))
FollowFairSpec == FollowSpec /\ TailFairness

-----------------------------------------------------------------------------
(* Properties *)

StampOrdered == \A i, j \in 1..Len(log) : i < j => log[i] < log[j]

Live(k) == sub[k].st # "off"

\* GET /admin/audit/recent: whatever the wrap-around of the ring, Recent(n) is
\* exactly the end of the log, in order.
RecentIsTail ==
  \A n \in 0..RingSize + 1 :
    LET m == Len(Recent(n))
    IN  /\ m = IF n < Len(log) /\ n < RingSize THEN n
               ELSE IF Len(log) < RingSize THEN Len(log) ELSE RingSize
        /\ \A i \in 1..m : Recent(n)[i] = Len(log) - m + i

\* Flow control loses nothing without counting it: each record logged since
\* Subscribe has been emitted, is queued, is in the drop counter or has been
\* reported in a sentinel.
DropsAccounted ==
  \A k \in Clients : Live(k) =>
    Len(log) = sub[k].base + sub[k].recv + Len(sub[k].ch) + sub[k].dropped + sub[k].announced

\* "Surfaces the drop count ... before the next real record": when the client
\* has a live record, every record missing before it was announced earlier.
NoSilentGap ==
  \A k \in Clients : (Live(k) /\ sub[k].recv > 0) =>
    sub[k].last - sub[k].base - sub[k].recv <= sub[k].announced

\* A reconnect with Last-Event-ID "gets a contiguous stream (bounded by ring
\* size)": the backlog is every retained record behind the last one seen, as
\* long as concurrent Log calls have entered the lock in the order of their
\* stamps.  (Otherwise Subscribe's filter by time loses a record.)  For a client
\* that saw none, from = 0, that is the whole ring: the code does not filter by a
\* zero time, where Subscribe's comment says "Pass a zero time.Time for no
\* backlog" (audit.go:171).
BacklogContiguous ==
  StampOrdered => \A k \in Clients :
    LET s  == sub[k]
        kept == IF s.base > RingSize THEN s.base - RingSize ELSE 0
        lo == IF s.from > kept THEN s.from ELSE kept
    IN  (s.st = "backlog" /\ s.last = s.from) =>
          s.backlog = [i \in 1..s.base - lo |-> lo + i]

\* A client that stays connected is told of every record: the queue drains and
\* no drop stays unreported once logging pauses.
TailCatchesUp ==
  \A k \in Clients : <>[]Live(k) => <>[](sub[k].ch = <<>> /\ sub[k].dropped = 0)
=============================================================================

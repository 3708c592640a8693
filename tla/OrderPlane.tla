------------------------------ MODULE OrderPlane ------------------------------
(***************************************************************************)
(* The order plane: proxy.Handler.ServeHTTP with the router snapshot it    *)
(* takes from profile.Holder, the audit record and the outcome counter of  *)
(* each request, and the shutdown of cmd/proxy, which gives requests ten   *)
(* seconds and then closes the audit writer under those still running.     *)
(*                                                                         *)
(* An endpoint is a (method, path) pair, matched or not by a route.  A     *)
(* router is named by its bundle.  serve loads a bundle before it listens, *)
(* so the 503 for a nil router does not occur; validate refuses a broker   *)
(* without a host, so neither does buildOutbound's error.                  *)
(***************************************************************************)
EXTENDS Naturals, Sequences, FiniteSets

CONSTANTS
  Requests, Brokers, Endpoints,
  Bundles,      \* bundle versions
  Profile,      \* Profile[b][k]: host, enabled flag and routes of broker k
  NoBroker,     \* the X-Tesseract-Broker header is missing
  None,
  MaxFaults     \* bound: failed audit writes

ASSUME ProfileAssumption ==
  /\ \A b \in Bundles : \A k \in DOMAIN Profile[b] :
       k \in Brokers /\ Profile[b][k].enabled \in BOOLEAN
         /\ Profile[b][k].routes \subseteq Endpoints
  /\ NoBroker \notin Brokers /\ None \notin Bundles
  /\ MaxFaults \in Nat

VARIABLES
  phase,      \* serve: "serving", "draining", "returning", "closed", "exited"
  holder,     \* the live router
  req,        \* per request: the handler's position and its locals
  sent,       \* per request: the host its order went to, or None
  tail,       \* an SSE client holds GET /admin/audit/tail open
  trail,      \* the audit records written
  metrics,    \* Counters
  cut,        \* history: Shutdown's ten seconds ended before some request did
  faults

vars == <<phase, holder, req, sent, tail, trail, metrics, cut, faults>>

Outcomes == {"forward", "reject", "upstream_error"}
Fresh == [st |-> "new", broker |-> NoBroker, endpoint |-> None, bundle |-> None,
          outcome |-> "none"]
Records == [req : Requests, outcome : Outcomes, bundle : Bundles \cup {None}]
Steps == {"new", "route", "send", "wait", "stream", "log", "count", "done"}

\* The type invariant.
TypeOK ==
  /\ phase \in {"serving", "draining", "returning", "closed", "exited"} /\ {tail, cut} \subseteq BOOLEAN
  /\ holder \in Bundles /\ trail \in Seq(Records) /\ metrics \in [Outcomes -> Nat]
  /\ req \in [Requests -> [st : Steps, broker : Brokers \cup {NoBroker},
                          endpoint : Endpoints \cup {None}, bundle : Bundles \cup {None},
                          outcome : Outcomes \cup {"none"}]]
  /\ DOMAIN sent = Requests /\ faults \in 0..MaxFaults

Running == phase # "exited"
At(r, st) == Running /\ req[r].st = st
Goto(r, st) == req' = [req EXCEPT ![r].st = st]
\* The handler returns with an outcome; its deferred functions come next.
Return(r, o) == req' = [req EXCEPT ![r].st = "log", ![r].outcome = o]
Server == <<phase, holder, tail, cut>>
Books == <<trail, metrics, faults>>

\* Router.Lookup; a disabled broker never matches.
Lookup(b, k, e) ==
  k \in DOMAIN Profile[b] /\ Profile[b][k].enabled /\ e \in Profile[b][k].routes

-----------------------------------------------------------------------------
(* ServeHTTP *)

Accept(r, k, e) ==
  /\ At(r, "new") /\ phase = "serving"
  /\ req' = [req EXCEPT ![r] = [Fresh EXCEPT !.st = "route", !.broker = k, !.endpoint = e]]
  /\ UNCHANGED <<Server, sent, Books>>

\* The header, the snapshot of the router and the lookup in that snapshot.
Route(r) ==
  /\ At(r, "route") /\ UNCHANGED <<Server, sent, Books>>
  /\ \/ req[r].broker = NoBroker /\ Return(r, "reject")                       \* 400
     \/ /\ req[r].broker # NoBroker /\ ~ Lookup(holder, req[r].broker, req[r].endpoint)
        /\ req' = [req EXCEPT ![r].st = "log", ![r].outcome = "reject", ![r].bundle = holder] \* 403
     \/ /\ Lookup(holder, req[r].broker, req[r].endpoint)
        /\ req' = [req EXCEPT ![r].st = "send", ![r].bundle = holder]

\* Mutant: the broker's host is looked up in the router that is live now.
SendToLive(r) ==
  /\ At(r, "send") /\ req[r].broker \in DOMAIN Profile[holder]
  /\ sent' = [sent EXCEPT ![r] = Profile[holder][req[r].broker].host] /\ Goto(r, "wait")
  /\ UNCHANGED <<Server, Books>>

\* buildOutbound on the snapshot's broker, and RoundTrip puts it on the wire or
\* cannot reach the broker.
Send(r) ==
  /\ At(r, "send") /\ UNCHANGED <<Server, Books>>
  /\ \/ /\ sent' = [sent EXCEPT ![r] = Profile[req[r].bundle][req[r].broker].host]
        /\ Goto(r, "wait")
     \/ UNCHANGED sent /\ Return(r, "upstream_error")                           \* 502

\* RoundTrip returns: an answer, or an error, the client's departure included,
\* although the broker has the order.
Answer(r) ==
  /\ At(r, "wait") /\ UNCHANGED <<Server, sent, Books>>
  /\ Goto(r, "stream") \/ Return(r, "upstream_error")

\* The body is copied to the end or not; the outcome is the same.
Stream(r) ==
  /\ At(r, "stream") /\ Return(r, "forward") /\ UNCHANGED <<Server, sent, Books>>

\* A panic below the handler is recovered as a 500.
Panic(r) ==
  /\ At(r, "wait") \/ At(r, "stream")
  /\ Return(r, "upstream_error") /\ UNCHANGED <<Server, sent, Books>>

RecordOf(r) == [req |-> r, outcome |-> req[r].outcome, bundle |-> req[r].bundle]
Inc(r) == metrics' = [metrics EXCEPT ![req[r].outcome] = @ + 1]

\* Mutant: the counter is bumped before the record is written.
LogCounts(r) ==
  /\ At(r, "log") /\ Goto(r, "count") /\ UNCHANGED <<Server, sent>>
  /\ Inc(r) /\ UNCHANGED <<trail, faults>>

\* The first deferred step: Audit.Log, its error ignored.
Log(r) ==
  /\ At(r, "log") /\ Goto(r, "count") /\ UNCHANGED <<Server, sent, metrics>>
  /\ \/ phase # "closed" /\ trail' = Append(trail, RecordOf(r)) /\ UNCHANGED faults
     \/ phase = "closed" /\ UNCHANGED <<trail, faults>>
     \/ phase # "closed" /\ faults < MaxFaults /\ faults' = faults + 1 /\ UNCHANGED trail

\* Then Metrics.IncOutcome.
IncOutcome(r) ==
  /\ At(r, "count") /\ Goto(r, "done") /\ Inc(r)
  /\ UNCHANGED <<Server, sent, trail, faults>>

Serve(r) ==
  Route(r) \/ Send(r) \/ Answer(r) \/ Stream(r) \/ Panic(r) \/ Log(r) \/ IncOutcome(r)

-----------------------------------------------------------------------------
(* Bundle swaps, the audit tail and shutdown *)

\* Holder.Store by the updater (module BundleUpdater).
Swap(b) ==
  /\ Running /\ holder # b /\ holder' = b
  /\ UNCHANGED <<phase, req, sent, tail, cut, Books>>

\* auditTail's loop ends only when its client goes away.
OpenTail ==
  /\ phase = "serving" /\ ~ tail /\ tail' = TRUE
  /\ UNCHANGED <<phase, holder, req, sent, cut, Books>>
CloseTail ==
  /\ Running /\ tail /\ tail' = FALSE
  /\ UNCHANGED <<phase, holder, req, sent, cut, Books>>

\* SIGTERM: the listener closes, no request is accepted any more.
Sigterm ==
  /\ phase = "serving" /\ phase' = "draining"
  /\ UNCHANGED <<holder, req, sent, tail, cut, Books>>

Served == \A r \in Requests : req[r].st \in {"new", "done"}

\* Mutant: srv.Close instead of srv.Shutdown.
ShutdownAtOnce ==
  /\ phase = "draining" /\ phase' = "returning"
  /\ UNCHANGED <<holder, req, sent, tail, cut, Books>>

\* srv.Shutdown: all requests have returned.
ShutdownDone ==
  /\ phase = "draining" /\ Served /\ ~ tail /\ phase' = "returning"
  /\ UNCHANGED <<holder, req, sent, tail, cut, Books>>

\* Mutant: Shutdown gets a context without a deadline.
ShutdownWaits == phase = "draining" /\ FALSE /\ UNCHANGED vars

\* srv.Shutdown: the ten seconds are over; handlers go on running.
ShutdownTimeout ==
  /\ phase = "draining" /\ (~ Served \/ tail)
  /\ phase' = "returning" /\ cut' = ~ Served
  /\ UNCHANGED <<holder, req, sent, tail, Books>>

\* serve returns: the deferred auditW.Close ...  The waits before it, workersWG and
\* sigWG, are left out: they end, for those goroutines follow the cancelled context
\* and a Tick under way is bounded by the fetcher's 30 s timeout.
CloseAudit ==
  /\ phase = "returning" /\ phase' = "closed"
  /\ UNCHANGED <<holder, req, sent, tail, cut, Books>>

\* ... and main exits, ending every handler.
Exit ==
  /\ phase = "closed" /\ phase' = "exited"
  /\ UNCHANGED <<holder, req, sent, tail, cut, Books>>

-----------------------------------------------------------------------------
Init ==
  /\ phase = "serving" /\ holder \in Bundles /\ tail = FALSE /\ cut = FALSE
  /\ req = [r \in Requests |-> Fresh] /\ sent = [r \in Requests |-> None]
  /\ trail = <<>> /\ metrics = [o \in Outcomes |-> 0] /\ faults = 0

Next ==
  \/ \E r \in Requests, k \in Brokers \cup {NoBroker}, e \in Endpoints : Accept(r, k, e)
  \/ \E r \in Requests : Serve(r)
  \/ \E b \in Bundles : Swap(b)
  \/ OpenTail \/ CloseTail \/ Sigterm
  \/ ShutdownDone \/ ShutdownTimeout \/ CloseAudit \/ Exit

Spec == Init /\ [][Next]_vars

\* serve's own goroutine and the ten-second timer; no broker is assumed to
\* answer and no client to leave.
ShutdownFairness ==
  WF_vars(ShutdownDone \/ ShutdownTimeout) /\ WF_vars(CloseAudit) /\ WF_vars(Exit)
FairSpec == Spec /\ ShutdownFairness

-----------------------------------------------------------------------------
(* Properties *)

Logged(o) == Cardinality({i \in DOMAIN trail : trail[i].outcome = o})

\* Hot swaps and requests: the version in a request's audit record is the one
\* that allowed it, and the order went to that version's host for the broker.
TrailExplainsOrders ==
  \A i \in DOMAIN trail :
    LET r == trail[i].req
        b == trail[i].bundle
    IN  sent[r] # None =>
          /\ Lookup(b, req[r].broker, req[r].endpoint)
          /\ sent[r] = Profile[b][req[r].broker].host

\* A scrape of /admin/metrics never counts an outcome whose record is not in
\* the trail, panics and interrupted streams included.
MetricsBehindTrail ==
  (faults = 0 /\ phase \in {"serving", "draining"}) =>
    \A o \in Outcomes : metrics[o] <= Logged(o)

\* "Audit log emit - explicitly required", "one Record per request": when the
\* process is gone, every order that reached a broker is in the trail, unless
\* Shutdown gave up on its request or the write failed.
OrdersAudited ==
  (phase = "exited" /\ ~ cut /\ faults = 0) =>
    \A r \in Requests : sent[r] # None => \E i \in DOMAIN trail : trail[i].req = r

\* SIGTERM ends the process although brokers hang and tails stay open.
ShutdownEnds == (phase = "draining") ~> (phase = "exited")
=============================================================================

-------------------------- MODULE OrderPlaneProofs --------------------------
(***************************************************************************)
(* Proofs about OrderPlane for any number of requests, brokers, endpoints  *)
(* and bundle versions, and every bound on failed audit writes.            *)
(***************************************************************************)
EXTENDS OrderPlane, FiniteSetTheorems, TLAPS

-----------------------------------------------------------------------------
(* The inductive invariant *)

Returned == {"log", "count", "done"}

\* Where a request's order went: to the host that the version the handler took
\* at Route has for a broker it allowed.
Explained(r) ==
  /\ Lookup(req[r].bundle, req[r].broker, req[r].endpoint)
  /\ sent[r] = Profile[req[r].bundle][req[r].broker].host

Positions ==
  \A r \in Requests :
    /\ req[r].st \in {"new", "route"} => sent[r] = None
    /\ req[r].st = "send" => Lookup(req[r].bundle, req[r].broker, req[r].endpoint)
    /\ req[r].st \in Returned => req[r].outcome \in Outcomes
    /\ sent[r] # None => Explained(r)

\* A record is written once its request's version and outcome are settled.
TrailFaithful ==
  \A i \in DOMAIN trail :
    LET r == trail[i].req
    IN  /\ req[r].st \in {"count", "done"}
        /\ trail[i].bundle = req[r].bundle /\ trail[i].outcome = req[r].outcome

\* Until the writer is closed, and after it if Shutdown waited for everybody,
\* every request that is past Log has its record.
TrailComplete ==
  (faults = 0 /\ (~ cut \/ phase \in {"serving", "draining", "returning"})) =>
    \A r \in Requests : req[r].st \in {"count", "done"} =>
      \E i \in DOMAIN trail : trail[i].req = r

Drained == (phase \in {"returning", "closed", "exited"} /\ ~ cut) => Served

\* The counters are the numbers of requests that are done.
Finished(o) == {r \in Requests : req[r].st = "done" /\ req[r].outcome = o}
Counted ==
  \A o \in Outcomes : IsFiniteSet(Finished(o)) /\ metrics[o] = Cardinality(Finished(o))

PlaneInv == TypeOK /\ Positions /\ TrailFaithful /\ TrailComplete /\ Drained /\ Counted

ReqType == [st : Steps, broker : Brokers \cup {NoBroker},
            endpoint : Endpoints \cup {None}, bundle : Bundles \cup {None},
            outcome : Outcomes \cup {"none"}]

-----------------------------------------------------------------------------
LEMMA InitPlane == Init => PlaneInv
<1> SUFFICES ASSUME Init PROVE PlaneInv
  OBVIOUS
<1>1. TypeOK
  <2>1. Fresh \in ReqType
    BY DEF Fresh, ReqType, Steps, Outcomes
  <2>2. req \in [Requests -> ReqType]
    BY <2>1 DEF Init
  <2>3. metrics \in [Outcomes -> Nat] /\ faults \in 0..MaxFaults /\ trail \in Seq(Records)
    BY ProfileAssumption DEF Init
  <2> QED
    BY <2>2, <2>3 DEF Init, TypeOK, ReqType
<1>2. \A r \in Requests : req[r].st = "new" /\ sent[r] = None
  BY DEF Init, Fresh
<1>3. Positions /\ TrailFaithful /\ TrailComplete /\ Drained
  BY <1>2 DEF Init, Positions, TrailFaithful, TrailComplete, Drained, Returned
<1>4. Counted
  <2>1. \A o \in Outcomes : Finished(o) = {}
    BY <1>2 DEF Finished
  <2> QED
    BY <2>1, FS_EmptySet DEF Init, Counted
<1> QED
  BY <1>1, <1>3, <1>4 DEF PlaneInv

-----------------------------------------------------------------------------
(* Types *)

LEMMA NextType == TypeOK /\ Positions /\ [Next]_vars => TypeOK'
<1> SUFFICES ASSUME TypeOK, Positions, [Next]_vars PROVE TypeOK'
  OBVIOUS
<1>0. req \in [Requests -> ReqType]
  BY DEF TypeOK, ReqType
<1> USE <1>0, ProfileAssumption
<1>1. req' \in [Requests -> ReqType]
  <2> USE DEF Server, Books, At, Goto, Return, ReqType, Steps, Outcomes
  <2>1. ASSUME NEW r \in Requests, NEW k \in Brokers \cup {NoBroker}, NEW e \in Endpoints,
               Accept(r, k, e)
        PROVE  req' \in [Requests -> ReqType]
    BY <2>1 DEF Accept, Fresh
  <2>2. ASSUME NEW r \in Requests, Route(r) PROVE req' \in [Requests -> ReqType]
    BY <2>2 DEF Route, TypeOK
  <2>3. ASSUME NEW r \in Requests, Serve(r), ~ Route(r) PROVE req' \in [Requests -> ReqType]
    BY <2>3 DEF Serve, Send, Answer, Stream, Panic, Log, IncOutcome
  <2>4. CASE UNCHANGED req
    BY <2>4
  <2> QED
    BY <2>1, <2>2, <2>3, <2>4
    DEF Next, vars, Swap, OpenTail, CloseTail, Sigterm, ShutdownDone, ShutdownTimeout,
        CloseAudit, Exit
<1>2. trail' \in Seq(Records) /\ metrics' \in [Outcomes -> Nat] /\ faults' \in 0..MaxFaults
  <2> USE DEF Server, Books, TypeOK
  <2>1. ASSUME NEW r \in Requests, Log(r)
        PROVE  trail' \in Seq(Records) /\ metrics' \in [Outcomes -> Nat]
               /\ faults' \in 0..MaxFaults
    <3>1. RecordOf(r) \in Records
      BY <2>1 DEF Log, At, RecordOf, Records, Positions, Returned, ReqType
    <3>2. trail' \in Seq(Records)
      <4>1. Append(trail, RecordOf(r)) \in Seq(Records)
        BY <3>1
      <4> QED
        BY <2>1, <4>1 DEF Log
    <3>3. faults' \in 0..MaxFaults
      BY <2>1 DEF Log
    <3> QED
      BY <2>1, <3>2, <3>3 DEF Log
  <2>2. ASSUME NEW r \in Requests, IncOutcome(r)
        PROVE  trail' \in Seq(Records) /\ metrics' \in [Outcomes -> Nat]
               /\ faults' \in 0..MaxFaults
    <3>1. req[r].outcome \in Outcomes
      BY <2>2 DEF IncOutcome, At, Positions, Returned
    <3>2. metrics' \in [Outcomes -> Nat]
      BY <2>2, <3>1 DEF IncOutcome, Inc
    <3> QED
      BY <2>2, <3>2 DEF IncOutcome
  <2>3. CASE UNCHANGED <<trail, metrics, faults>>
    BY <2>3
  <2> QED
    BY <2>1, <2>2, <2>3
    DEF Next, vars, Accept, Serve, Route, Send, Answer, Stream, Panic, Swap, OpenTail,
        CloseTail, Sigterm, ShutdownDone, ShutdownTimeout, CloseAudit, Exit
<1>3. holder' \in Bundles /\ tail' \in BOOLEAN /\ DOMAIN sent' = Requests
  <2> USE DEF Server, Books, TypeOK
  <2>1. ASSUME NEW r \in Requests, Send(r)
        PROVE  holder' \in Bundles /\ tail' \in BOOLEAN /\ DOMAIN sent' = Requests
    BY <2>1 DEF Send
  <2> QED
    BY <2>1
    DEF Next, vars, Accept, Serve, Route, Answer, Stream, Panic, Log, IncOutcome, Swap,
        OpenTail, CloseTail, Sigterm, ShutdownDone, ShutdownTimeout, CloseAudit, Exit
<1>4. phase' \in {"serving", "draining", "returning", "closed", "exited"} /\ cut' \in BOOLEAN
  BY DEF Server, Books, TypeOK, Next, vars, Accept, Serve, Route, Send, Answer, Stream, Panic,
       Log, IncOutcome, Swap, OpenTail, CloseTail, Sigterm, ShutdownDone, ShutdownTimeout,
       CloseAudit, Exit
<1> QED
  BY <1>1, <1>2, <1>3, <1>4 DEF TypeOK, ReqType

-----------------------------------------------------------------------------
(* What the steps outside Accept and Serve leave alone *)

ServerStep ==
  \/ \E b \in Bundles : Swap(b)
  \/ OpenTail \/ CloseTail \/ Sigterm \/ ShutdownDone \/ ShutdownTimeout \/ CloseAudit \/ Exit

LEMMA ServerStepDoes ==
  ASSUME ServerStep \/ UNCHANGED vars PROVE UNCHANGED <<req, sent, trail, metrics, faults>>
  BY DEF ServerStep, vars, Books, Swap, OpenTail, CloseTail, Sigterm, ShutdownDone,
         ShutdownTimeout, CloseAudit, Exit

-----------------------------------------------------------------------------
(* Orders and the version that explains them *)

LEMMA NextPositions == TypeOK /\ Positions /\ [Next]_vars => Positions'
<1> SUFFICES ASSUME TypeOK, Positions, [Next]_vars PROVE Positions'
  OBVIOUS
<1>0. req \in [Requests -> ReqType] /\ DOMAIN sent = Requests
  BY DEF TypeOK, ReqType
<1> USE <1>0 DEF Positions, Explained, Returned, ReqType, Steps, At, Goto, Return
<1>1. ASSUME NEW r \in Requests, NEW k \in Brokers \cup {NoBroker}, NEW e \in Endpoints,
             Accept(r, k, e)
      PROVE  Positions'
  BY <1>1 DEF Accept, Fresh
<1>2. ASSUME NEW r \in Requests, Route(r) PROVE Positions'
  BY <1>2 DEF Route, Outcomes
<1>3. ASSUME NEW r \in Requests, Send(r) PROVE Positions'
  BY <1>3 DEF Send, Outcomes
<1>4. ASSUME NEW r \in Requests, Answer(r) \/ Stream(r) \/ Panic(r) PROVE Positions'
  BY <1>4 DEF Answer, Stream, Panic, Outcomes
<1>5. ASSUME NEW r \in Requests, Log(r) \/ IncOutcome(r) PROVE Positions'
  BY <1>5 DEF Log, IncOutcome
<1>6. CASE ServerStep \/ UNCHANGED vars
  BY <1>6, ServerStepDoes
<1> QED
  BY <1>1, <1>2, <1>3, <1>4, <1>5, <1>6 DEF Next, Serve, ServerStep

LEMMA NextFaithful == TypeOK /\ TrailFaithful /\ [Next]_vars => TrailFaithful'
<1> SUFFICES ASSUME TypeOK, TrailFaithful, [Next]_vars PROVE TrailFaithful'
  OBVIOUS
<1>0. req \in [Requests -> ReqType] /\ trail \in Seq(Records)
      /\ \A i \in DOMAIN trail : trail[i].req \in Requests
  <2>1. \A i \in DOMAIN trail : trail[i] \in Records
    BY DEF TypeOK
  <2> QED
    BY <2>1 DEF TypeOK, ReqType, Records
<1> USE <1>0 DEF TrailFaithful, ReqType, Steps, At, Goto, Return
<1>1. ASSUME NEW r \in Requests, NEW k \in Brokers \cup {NoBroker}, NEW e \in Endpoints,
             Accept(r, k, e)
      PROVE  TrailFaithful'
  BY <1>1 DEF Accept, Books
<1>2. ASSUME NEW r \in Requests, Route(r) \/ Send(r) PROVE TrailFaithful'
  <2>1. /\ UNCHANGED trail /\ req[r].st \notin {"count", "done"}
        /\ \A q \in Requests \ {r} : req'[q] = req[q]
    BY <1>2 DEF Route, Send, Books
  <2> QED
    BY <2>1
<1>3. ASSUME NEW r \in Requests, Answer(r) \/ Stream(r) \/ Panic(r) PROVE TrailFaithful'
  <2>1. /\ UNCHANGED trail /\ req[r].st \notin {"count", "done"}
        /\ \A q \in Requests \ {r} : req'[q] = req[q]
    BY <1>3 DEF Answer, Stream, Panic, Books
  <2> QED
    BY <2>1
<1>4. ASSUME NEW r \in Requests, Log(r) PROVE TrailFaithful'
  <2>1. /\ req'[r].st = "count" /\ req'[r].bundle = req[r].bundle
        /\ req'[r].outcome = req[r].outcome
        /\ \A q \in Requests \ {r} : req'[q] = req[q]
    BY <1>4 DEF Log
  <2>2. CASE trail' = Append(trail, RecordOf(r))
    <3> SUFFICES ASSUME NEW i \in DOMAIN trail'
                 PROVE  LET q == trail'[i].req
                        IN  /\ req'[q].st \in {"count", "done"}
                            /\ trail'[i].bundle = req'[q].bundle
                            /\ trail'[i].outcome = req'[q].outcome
      OBVIOUS
    <3>1. CASE i \in DOMAIN trail
      <4>1. trail'[i] = trail[i]
        BY <2>2, <3>1
      <4>2. PICK q \in Requests : q = trail[i].req
        BY <3>1
      <4>3. /\ req[q].st \in {"count", "done"}
            /\ trail[i].bundle = req[q].bundle /\ trail[i].outcome = req[q].outcome
        BY <3>1, <4>2
      <4>4. q # r
        BY <1>4, <4>3 DEF Log
      <4> QED
        BY <2>1, <4>1, <4>2, <4>3, <4>4
    <3>2. CASE i = Len(trail) + 1
      <4>1. trail'[i] = RecordOf(r)
        BY <2>2, <3>2
      <4> QED
        BY <2>1, <4>1 DEF RecordOf
    <3> QED
      BY <2>2, <3>1, <3>2
  <2>3. CASE UNCHANGED trail
    BY <2>1, <2>3
  <2> QED
    BY <1>4, <2>2, <2>3 DEF Log
<1>5. ASSUME NEW r \in Requests, IncOutcome(r) PROVE TrailFaithful'
  <2>1. /\ req'[r].st = "done" /\ req'[r].bundle = req[r].bundle
        /\ req'[r].outcome = req[r].outcome
        /\ \A q \in Requests \ {r} : req'[q] = req[q]
    BY <1>5 DEF IncOutcome
  <2> QED
    BY <1>5, <2>1 DEF IncOutcome
<1>6. CASE ServerStep \/ UNCHANGED vars
  BY <1>6, ServerStepDoes
<1> QED
  BY <1>1, <1>2, <1>3, <1>4, <1>5, <1>6 DEF Next, Serve, ServerStep

-----------------------------------------------------------------------------
(* Shutdown and the completeness of the trail *)

LEMMA NextDrained == TypeOK /\ Drained /\ [Next]_vars => Drained'
<1> SUFFICES ASSUME TypeOK, Drained, [Next]_vars PROVE Drained'
  OBVIOUS
<1>0. req \in [Requests -> ReqType]
  BY DEF TypeOK, ReqType
<1> USE <1>0 DEF TypeOK, Drained, Served, Server, ReqType, Steps, At, Goto, Return
<1>1. ASSUME NEW r \in Requests, NEW k \in Brokers \cup {NoBroker}, NEW e \in Endpoints,
             Accept(r, k, e)
      PROVE  Drained'
  BY <1>1 DEF Accept
<1>2. ASSUME NEW r \in Requests, Serve(r) PROVE Drained'
  <2>1. req[r].st \notin {"new", "done"} /\ UNCHANGED <<phase, cut>>
    BY <1>2 DEF Serve, Route, Send, Answer, Stream, Panic, Log, IncOutcome
  <2> QED
    BY <2>1
<1>3. CASE (\E b \in Bundles : Swap(b)) \/ OpenTail \/ CloseTail \/ Sigterm
  BY <1>3 DEF Swap, OpenTail, CloseTail, Sigterm
<1>4. CASE ShutdownDone \/ ShutdownTimeout
  BY <1>4 DEF ShutdownDone, ShutdownTimeout
<1>5. CASE CloseAudit \/ Exit
  BY <1>5 DEF CloseAudit, Exit
<1>6. CASE UNCHANGED vars
  BY <1>6 DEF vars
<1> QED
  BY <1>1, <1>2, <1>3, <1>4, <1>5, <1>6 DEF Next

LEMMA NextComplete == TypeOK /\ Drained /\ TrailComplete /\ [Next]_vars => TrailComplete'
<1> SUFFICES ASSUME TypeOK, Drained, TrailComplete, [Next]_vars PROVE TrailComplete'
  OBVIOUS
<1>0. req \in [Requests -> ReqType] /\ trail \in Seq(Records) /\ faults \in Nat
  BY ProfileAssumption DEF TypeOK, ReqType
<1> USE <1>0 DEF TrailComplete, Server, ReqType, Steps, At, Goto, Return
<1>1. ASSUME NEW r \in Requests, NEW k \in Brokers \cup {NoBroker}, NEW e \in Endpoints,
             Accept(r, k, e)
      PROVE  TrailComplete'
  BY <1>1 DEF Accept, Books, Fresh
<1>2. ASSUME NEW r \in Requests, Route(r) \/ Send(r) PROVE TrailComplete'
  BY <1>2 DEF Route, Send, Books
<1>3. ASSUME NEW r \in Requests, Answer(r) \/ Stream(r) \/ Panic(r) PROVE TrailComplete'
  BY <1>3 DEF Answer, Stream, Panic, Books
<1>4. ASSUME NEW r \in Requests, Log(r) PROVE TrailComplete'
  <2>1. UNCHANGED <<phase, cut>> /\ req[r].st = "log"
        /\ \A q \in Requests \ {r} : req'[q].st = req[q].st
    BY <1>4 DEF Log
  <2>2. CASE phase # "closed" /\ trail' = Append(trail, RecordOf(r)) /\ UNCHANGED faults
    <3>1. RecordOf(r).req = r
      BY DEF RecordOf
    <3>2. \A i \in DOMAIN trail : i \in DOMAIN trail' /\ trail'[i] = trail[i]
      BY <2>2
    <3>3. Len(trail) + 1 \in DOMAIN trail' /\ trail'[Len(trail) + 1].req = r
      BY <2>2, <3>1
    <3> QED
      BY <2>1, <2>2, <3>2, <3>3
  <2>3. CASE phase = "closed" /\ UNCHANGED <<trail, faults>>
    <3>1. cut
      BY <2>1, <2>3 DEF Drained, Served
    <3> QED
      BY <2>1, <2>3, <3>1
  <2>4. CASE faults' = faults + 1
    BY <2>4
  <2> QED
    BY <1>4, <2>2, <2>3, <2>4 DEF Log
<1>5. ASSUME NEW r \in Requests, IncOutcome(r) PROVE TrailComplete'
  BY <1>5 DEF IncOutcome
<1>6. CASE ServerStep
  <2>1. \/ UNCHANGED <<phase, cut>>
        \/ phase' \in {"draining", "returning"} /\ phase \in {"serving", "draining"}
        \/ UNCHANGED cut /\ phase \in {"returning", "closed"} /\ phase' \in {"closed", "exited"}
    BY <1>6 DEF ServerStep, Swap, OpenTail, CloseTail, Sigterm, ShutdownDone, ShutdownTimeout,
                CloseAudit, Exit
  <2> QED
    BY <1>6, <2>1, ServerStepDoes
<1>7. CASE UNCHANGED vars
  BY <1>7 DEF vars
<1> QED
  BY <1>1, <1>2, <1>3, <1>4, <1>5, <1>6, <1>7 DEF Next, Serve, ServerStep

-----------------------------------------------------------------------------
(* The counters *)

LEMMA NextCounted == TypeOK /\ Counted /\ [Next]_vars => Counted'
<1> SUFFICES ASSUME TypeOK, Counted, [Next]_vars PROVE Counted'
  OBVIOUS
<1>0. req \in [Requests -> ReqType] /\ metrics \in [Outcomes -> Nat]
  BY DEF TypeOK, ReqType
<1>1. ASSUME NEW r \in Requests, IncOutcome(r) PROVE Counted'
  <2>1. /\ req[r].st = "count" /\ req'[r].st = "done" /\ req'[r].outcome = req[r].outcome
        /\ \A q \in Requests \ {r} : req'[q] = req[q]
    BY <1>0, <1>1 DEF IncOutcome, At, Goto, ReqType, Steps
  <2>2. metrics' = [metrics EXCEPT ![req[r].outcome] = metrics[req[r].outcome] + 1]
    BY <1>1 DEF IncOutcome, Inc
  <2> SUFFICES ASSUME NEW o \in Outcomes
               PROVE  IsFiniteSet(Finished(o)') /\ metrics'[o] = Cardinality(Finished(o)')
    BY DEF Counted
  <2>3. IsFiniteSet(Finished(o)) /\ metrics[o] = Cardinality(Finished(o))
    BY DEF Counted
  <2>4. CASE req[r].outcome = o
    <3>1. Finished(o)' = Finished(o) \cup {r} /\ r \notin Finished(o)
      BY <2>1, <2>4 DEF Finished
    <3>2. metrics'[o] = metrics[o] + 1
      BY <1>0, <2>2, <2>4
    <3> QED
      BY <2>3, <3>1, <3>2, FS_AddElement
  <2>5. CASE req[r].outcome # o
    <3>1. Finished(o)' = Finished(o)
      BY <2>1, <2>5 DEF Finished
    <3>2. metrics'[o] = metrics[o]
      BY <1>0, <2>2, <2>5
    <3> QED
      BY <2>3, <3>1, <3>2
  <2> QED
    BY <2>4, <2>5
<1>2. ASSUME UNCHANGED metrics,
             \A q \in Requests : req'[q] = req[q] \/ "done" \notin {req[q].st, req'[q].st}
      PROVE  Counted'
  <2>1. \A o \in Outcomes : Finished(o)' = Finished(o)
    BY <1>2 DEF Finished
  <2> QED
    BY <1>2, <2>1 DEF Counted
<1>3. ASSUME NEW r \in Requests, NEW k \in Brokers \cup {NoBroker}, NEW e \in Endpoints,
             Accept(r, k, e)
      PROVE  Counted'
  <2>1. UNCHANGED metrics
        /\ \A q \in Requests : req'[q] = req[q] \/ "done" \notin {req[q].st, req'[q].st}
    BY <1>0, <1>3 DEF Accept, Books, At, Fresh
  <2> QED
    BY <1>2, <2>1
<1>4. ASSUME NEW r \in Requests, Serve(r), ~ IncOutcome(r) PROVE Counted'
  <2>1. UNCHANGED metrics /\ req[r].st # "done" /\ req'[r].st # "done"
        /\ \A q \in Requests \ {r} : req'[q] = req[q]
    BY <1>0, <1>4 DEF Serve, Route, Send, Answer, Stream, Panic, Log, Books, At, Goto, Return,
                      ReqType, Steps
  <2> QED
    BY <1>2, <2>1
<1>5. CASE ServerStep \/ UNCHANGED vars
  BY <1>2, <1>5, ServerStepDoes
<1> QED
  BY <1>1, <1>3, <1>4, <1>5 DEF Next, ServerStep

-----------------------------------------------------------------------------
(* The theorems *)

LEMMA NextPlane == PlaneInv /\ [Next]_vars => PlaneInv'
  BY NextType, NextPositions, NextFaithful, NextComplete, NextDrained, NextCounted DEF PlaneInv

LEMMA AlwaysPlane == Spec => []PlaneInv
  BY InitPlane, NextPlane, PTL DEF Spec

\* However bundle swaps fall between a handler's steps, the version in its audit
\* record allowed the order and its host is where the order went.
THEOREM TrailAlwaysExplains == Spec => []TrailExplainsOrders
<1>1. PlaneInv => TrailExplainsOrders
  <2> SUFFICES ASSUME PlaneInv, NEW i \in DOMAIN trail, sent[trail[i].req] # None
               PROVE  LET r == trail[i].req
                          b == trail[i].bundle
                      IN  /\ Lookup(b, req[r].broker, req[r].endpoint)
                          /\ sent[r] = Profile[b][req[r].broker].host
    BY DEF TrailExplainsOrders
  <2>1. trail[i] \in Records
    BY DEF PlaneInv, TypeOK
  <2>2. trail[i].req \in Requests
    BY <2>1 DEF Records
  <2>3. Explained(trail[i].req) /\ trail[i].bundle = req[trail[i].req].bundle
    BY <2>2 DEF PlaneInv, Positions, TrailFaithful
  <2> QED
    BY <2>3 DEF Explained
<1> QED
  BY <1>1, AlwaysPlane, PTL

\* When the process is gone, every order that reached a broker has its record,
\* unless Shutdown gave up on its request or an audit write failed.
THEOREM OrdersAlwaysAudited == Spec => []OrdersAudited
<1>1. PlaneInv => OrdersAudited
  <2> SUFFICES ASSUME PlaneInv, phase = "exited", ~ cut, faults = 0,
                      NEW r \in Requests, sent[r] # None
               PROVE  \E i \in DOMAIN trail : trail[i].req = r
    BY DEF OrdersAudited
  <2>1. req[r].st \in {"new", "done"} /\ req[r].st # "new"
    BY DEF PlaneInv, Drained, Served, Positions
  <2> QED
    BY <2>1 DEF PlaneInv, TrailComplete
<1> QED
  BY <1>1, AlwaysPlane, PTL

\* While the proxy serves and no write has failed, a scrape never counts more
\* outcomes than the trail holds records: each request that is done maps to the
\* position of its own record.
THEOREM MetricsAlwaysBehind == Spec => []MetricsBehindTrail
<1>1. PlaneInv => MetricsBehindTrail
  <2> SUFFICES ASSUME PlaneInv, faults = 0, phase \in {"serving", "draining"},
                      NEW o \in Outcomes
               PROVE  metrics[o] <= Logged(o)
    BY DEF MetricsBehindTrail
  <2> DEFINE Positioned == {i \in DOMAIN trail : trail[i].outcome = o}
             pos == [r \in Finished(o) |-> CHOOSE i \in Positioned : trail[i].req = r]
  <2>1. IsFiniteSet(Positioned)
    <3>1. DOMAIN trail = 1..Len(trail) /\ Len(trail) \in Nat
      BY DEF PlaneInv, TypeOK
    <3>2. IsFiniteSet(DOMAIN trail)
      BY <3>1, FS_Interval
    <3> QED
      BY <3>2, FS_Subset
  <2>2. ASSUME NEW r \in Finished(o) PROVE pos[r] \in Positioned /\ trail[pos[r]].req = r
    <3>1. r \in Requests /\ req[r].st = "done" /\ req[r].outcome = o
      BY <2>2 DEF Finished
    <3>2. PICK i \in DOMAIN trail : trail[i].req = r
      BY <3>1 DEF PlaneInv, TrailComplete
    <3>3. i \in Positioned
      BY <3>1, <3>2 DEF PlaneInv, TrailFaithful
    <3> QED
      BY <3>2, <3>3
  <2>3. pos \in Injection(Finished(o), Positioned)
    BY <2>2 DEF Injection, IsInjective
  <2>4. Cardinality(Finished(o)) <= Cardinality(Positioned)
    BY <2>1, <2>3, FS_Injection
  <2> QED
    BY <2>4 DEF PlaneInv, Counted, Logged
<1> QED
  BY <1>1, AlwaysPlane, PTL
=============================================================================

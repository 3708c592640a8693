---------------------------- MODULE EgressProofs ----------------------------
(***************************************************************************)
(* Proofs about Egress for every set of hosts, addresses and bundles, both *)
(* appliers, DNS exempt or not, and every bound on failures.               *)
(***************************************************************************)
EXTENDS Egress, TLAPS

-----------------------------------------------------------------------------
(* The inductive invariants *)

\* A pass that has come to Apply has an answer for every host it copied.
Resolved ==
  /\ pc = "apply" => todo = {}
  /\ pc # "idle" => \A h \in snap \ todo : ans[h] # {}

\* What DNS answers for a live host, or for one that is about to be looked up,
\* and what it answered for those looked up, has been granted.
GrantedAnswers ==
  /\ \A h \in hosts : dns[h] \subseteq granted
  /\ pc = "resolve" => \A h \in todo : dns[h] \subseteq granted
  /\ pc # "idle" => \A h \in snap \ todo : ans[h] \subseteq granted

\* A pass over hosts that are no longer the present ones will be followed by
\* another: without this NoLostSwap is not inductive, for such a pass may
\* install its ruleset over the one for the present hosts.
Outdated == (pc # "idle" /\ snap # hosts) => sending > 0 \/ poke

EgressParts == Outdated /\ NoLostSwap /\ Resolved /\ GrantedAnswers /\ RulesetSound
EgressInv == TypeOK /\ EgressParts

-----------------------------------------------------------------------------
(* Union *)

LEMMA UnionContains ==
  ASSUME NEW f, NEW S, NEW h \in S PROVE f[h] \subseteq Union(f, S)
  BY DEF Union

LEMMA UnionWithin ==
  ASSUME NEW f, NEW S, NEW G, \A h \in S : f[h] \subseteq G PROVE Union(f, S) \subseteq G
  BY DEF Union

-----------------------------------------------------------------------------
(* Types *)

LEMMA InitType == Init => TypeOK
<1> SUFFICES ASSUME Init PROVE TypeOK
  OBVIOUS
<1>1. hosts \subseteq Hosts /\ dns \in [Hosts -> SUBSET Addrs]
  BY EgressAssumption DEF Init
<1>2. granted \subseteq Addrs
  BY <1>1, UnionWithin DEF Init
<1>3. Nothing \in [Hosts -> SUBSET Addrs]
  BY DEF Nothing
<1>4. faults \in 0..MaxFaults /\ sending \in 0..MaxSenders
  BY EgressAssumption DEF Init
<1> QED
  BY <1>1, <1>2, <1>3, <1>4 DEF Init, TypeOK

LEMMA NextType == TypeOK /\ [Next]_vars => TypeOK'
<1> SUFFICES ASSUME TypeOK, [Next]_vars PROVE TypeOK'
  OBVIOUS
<1>0. hosts \subseteq Hosts
  BY EgressAssumption DEF TypeOK
<1> USE <1>0, EgressAssumption DEF TypeOK, gen, kern, Fault
<1>1. ASSUME NEW H \in HostSets, StoreHosts(H) PROVE TypeOK'
  <2>1. Union(dns, H) \subseteq Addrs
    BY UnionWithin
  <2>2. sending' \in 0..MaxSenders
    BY <1>1 DEF StoreHosts
  <2> QED
    BY <1>1, <2>1, <2>2 DEF StoreHosts
<1>2. CASE SendPoke
  BY <1>2 DEF SendPoke
<1>3. CASE TickStart /\ (UNCHANGED poke \/ poke' = FALSE)
  <2>1. poke' \in BOOLEAN
    BY <1>3
  <2>2. pc' \in {"idle", "resolve", "apply"} /\ ans' \in [Hosts -> SUBSET Addrs]
    BY <1>3 DEF TickStart, Nothing
  <2> QED
    BY <1>3, <2>1, <2>2 DEF TickStart
<1>4. ASSUME NEW h \in Hosts, Lookup(h) PROVE TypeOK'
  <2>1. CASE Resolves(h) /\ UNCHANGED <<gen, snap, dns, kern, faults>>
    BY <1>4, <2>1 DEF Lookup, Resolves, Fail
  <2>2. CASE Fail
    <3>1. missed' \in BOOLEAN
      BY <2>2 DEF Fail
    <3>2. faults' \in 0..MaxFaults
      BY <1>4 DEF Lookup
    <3> QED
      BY <2>2, <3>1, <3>2 DEF Fail
  <2> QED
    BY <1>4, <2>1, <2>2 DEF Lookup
<1>5. CASE ApplyOK
  <2>1. Union(ans, snap) \subseteq Addrs
    BY UnionWithin
  <2> QED
    BY <1>5, <2>1 DEF ApplyOK, NftLoad
<1>6. CASE ApplyErr
  BY <1>6 DEF ApplyErr, Fail
<1>7. ASSUME NEW h \in Hosts, NEW S \in Answers, DnsChange(h, S) PROVE TypeOK'
  BY <1>7 DEF DnsChange
<1>8. CASE UNCHANGED vars
  BY <1>8 DEF vars
<1> QED
  BY <1>1, <1>2, <1>3, <1>4, <1>5, <1>6, <1>7, <1>8
  DEF Next, Tick, TickerFires, PokeReceived

-----------------------------------------------------------------------------
(* The invariant *)

LEMMA InitEgress == Init => EgressInv
<1> SUFFICES ASSUME Init PROVE EgressInv
  OBVIOUS
<1>1. \A h \in hosts : dns[h] \subseteq granted
  BY UnionContains DEF Init
<1> QED
  BY <1>1, InitType
  DEF Init, EgressInv, EgressParts, Outdated, NoLostSwap, Resolved, GrantedAnswers, RulesetSound,
     EveryHostCovered,
      OnlyGranted

LEMMA NextEgress == EgressInv /\ [Next]_vars => EgressInv'
<1> SUFFICES ASSUME EgressInv, [Next]_vars PROVE EgressInv'
  OBVIOUS
<1>0. TypeOK /\ TypeOK' /\ hosts \subseteq Hosts
  BY NextType, EgressAssumption DEF EgressInv, TypeOK
<1> SUFFICES EgressParts'
  BY <1>0 DEF EgressInv
<1> USE <1>0, EgressAssumption
    DEF TypeOK, EgressInv, EgressParts, Outdated, NoLostSwap, Resolved, GrantedAnswers,
       RulesetSound,
        EveryHostCovered, OnlyGranted, gen, kern
<1>1. ASSUME NEW H \in HostSets, StoreHosts(H)
      PROVE EgressParts'
  <2>1. \A h \in H : dns[h] \subseteq Union(dns, H)
    BY UnionContains
  <2> QED
    BY <1>1, <2>1 DEF StoreHosts
<1>2. CASE SendPoke
  BY <1>2 DEF SendPoke
<1>3. CASE TickStart /\ (UNCHANGED poke \/ poke' = FALSE)
  BY <1>3 DEF TickStart
<1>4. ASSUME NEW h \in Hosts, Lookup(h)
      PROVE EgressParts'
  <2>1. CASE Resolves(h) /\ UNCHANGED <<gen, snap, dns, kern, faults>>
    BY <1>4, <2>1 DEF Lookup, Resolves, Fail
  <2>2. CASE Fail
    BY <1>4, <2>2 DEF Lookup, Fail
  <2> QED
    BY <1>4, <2>1, <2>2 DEF Lookup
<1>5. CASE ApplyOK
  <2>1. \A h \in snap : ans[h] \subseteq Union(ans, snap)
    BY UnionContains
  <2>2. Union(ans, snap) \subseteq granted
    BY <1>5, UnionWithin DEF ApplyOK
  <2>3. applied'.hosts = snap /\ applied'.ans = ans
    BY <1>5 DEF ApplyOK
  <2>4. EveryHostCovered'
    BY <1>5, <2>1, <2>3 DEF ApplyOK, NftLoad
  <2>5. OnlyGranted'
    BY <1>5, <2>2 DEF ApplyOK, NftLoad
  <2>6. NoLostSwap'
    <3>1. CASE snap = hosts
      BY <1>5, <2>3, <3>1 DEF ApplyOK
    <3>2. CASE snap # hosts
      BY <1>5, <3>2 DEF ApplyOK
    <3> QED
      BY <3>1, <3>2
  <2>7. (Outdated /\ Resolved /\ GrantedAnswers)'
    BY <1>5 DEF ApplyOK
  <2> QED
    BY <2>4, <2>5, <2>6, <2>7
<1>6. CASE ApplyErr
  BY <1>6 DEF ApplyErr, Fail
<1>7. ASSUME NEW h \in Hosts, NEW S \in Answers, DnsChange(h, S)
      PROVE EgressParts'
  BY <1>7 DEF DnsChange
<1>8. CASE UNCHANGED vars
  BY <1>8 DEF vars
<1> QED
  BY <1>1, <1>2, <1>3, <1>4, <1>5, <1>6, <1>7, <1>8
  DEF Next, Tick, TickerFires, PokeReceived

\* No swap of the bundle is lost between UpdateHosts, the poke channel of
\* capacity one and a Tick that is already running.
THEOREM SwapNeverLost == Spec => []NoLostSwap
<1>1. EgressInv => NoLostSwap
  BY DEF EgressInv, EgressParts
<1> QED
  BY <1>1, InitEgress, NextEgress, PTL DEF Spec

\* The kernel's rules accept an address of every host of the last ruleset, and
\* none that was not a broker's while the broker was live or being looked up.
THEOREM RulesetAlwaysSound == Spec => []RulesetSound
<1>1. EgressInv => RulesetSound
  BY DEF EgressInv, EgressParts
<1> QED
  BY <1>1, InitEgress, NextEgress, PTL DEF Spec
=============================================================================

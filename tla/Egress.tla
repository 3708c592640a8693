-------------------------------- MODULE Egress --------------------------------
(***************************************************************************)
(* The egress allowlist: egress.Generator (UpdateHosts, Run, Tick,         *)
(* ResolveAll), its two Appliers, the companion tesseract-proxy-egress as  *)
(* the proxy invokes it, and the kernel's nftables set.                    *)
(*                                                                         *)
(* UpdateHosts runs in the goroutine that swapped the bundle, in several   *)
(* at once when Ticks of the updater overlap, Tick in the Run loop; they   *)
(* share hosts (under Generator.mu) and the poke channel.                  *)
(***************************************************************************)
EXTENDS Naturals, FiniteSets

CONSTANTS
  Hosts, Addrs,      \* broker hosts and IP addresses
  HostSets,          \* the enabledHosts of the bundles that may go live
  Answers,           \* what DNS may answer for a host: sets of addresses
  Helper,            \* TRUE: HelperApplier, FALSE: NftApplier
  DnsExempt,         \* whether DNS traffic passes the output chain
  MaxSenders,        \* bound: UpdateHosts calls between store and poke
  MaxFaults          \* bound: failed lookups and failed applies

ASSUME EgressAssumption ==
  /\ HostSets \subseteq SUBSET Hosts /\ HostSets # {}
  /\ Answers \subseteq SUBSET Addrs
  /\ {Helper, DnsExempt} \subseteq BOOLEAN /\ MaxSenders \in Nat /\ MaxFaults \in Nat

VARIABLES
  hosts,      \* Generator.hosts
  sending,    \* how many UpdateHosts have stored hosts and not yet poked
  poke,       \* Generator.poke holds an element (capacity 1)
  pc,         \* Run: "idle", "resolve" or "apply"
  snap, todo, \* Tick's copy of hosts; those not looked up yet
  ans,        \* ans[h]: Tick's lookup result for h
  dns,        \* dns[h]: what a lookup of h answers now
  filtered,   \* the nft table is installed, policy drop
  allowed,    \* addresses its rules accept on port 443
  applied,    \* history: hosts and answers of the last ruleset installed
  missed,     \* history: the last Tick on the present hosts failed
  granted,    \* history: answers for a host while it was live or being looked up
  faults

gen  == <<hosts, sending, poke, missed, granted>>
kern == <<filtered, allowed, applied>>
vars == <<gen, pc, snap, todo, ans, dns, kern, faults>>

\* The type invariant.
TypeOK ==
  /\ hosts \in HostSets /\ snap \subseteq Hosts /\ todo \subseteq snap
  /\ {poke, filtered, missed} \subseteq BOOLEAN /\ sending \in 0..MaxSenders
  /\ pc \in {"idle", "resolve", "apply"}
  /\ ans \in [Hosts -> SUBSET Addrs] /\ dns \in [Hosts -> SUBSET Addrs]
  /\ allowed \subseteq Addrs /\ granted \subseteq Addrs
  /\ applied \in [hosts : SUBSET Hosts, ans : [Hosts -> SUBSET Addrs]]
  /\ faults \in 0..MaxFaults

Nothing == [h \in Hosts |-> {}]
Union(f, S) == UNION {f[h] : h \in S}

Fault == faults < MaxFaults /\ faults' = faults + 1

-----------------------------------------------------------------------------
(* UpdateHosts *)

\* Mutant: the caller passes the hosts of disabled brokers too.
StoreHostsAll(H) ==
  /\ sending < MaxSenders /\ hosts' = Hosts /\ sending' = sending + 1 /\ missed' = FALSE
  /\ granted' = granted \cup Union(dns, H)
  /\ UNCHANGED <<poke, pc, snap, todo, ans, dns, kern, faults>>

\* The host set is replaced under the lock ...
StoreHosts(H) ==
  /\ sending < MaxSenders /\ hosts' = H /\ sending' = sending + 1 /\ missed' = FALSE
  /\ granted' = granted \cup Union(dns, H)
  /\ UNCHANGED <<poke, pc, snap, todo, ans, dns, kern, faults>>

\* Mutant: the poke is not sent when Tick is running.
SendPokeWhenIdle ==
  /\ sending > 0 /\ sending' = sending - 1 /\ poke' = (poke \/ pc = "idle")
  /\ UNCHANGED <<hosts, missed, granted, pc, snap, todo, ans, dns, kern, faults>>

\* ... then the poke is sent, or found pending.
SendPoke ==
  /\ sending > 0 /\ sending' = sending - 1 /\ poke' = TRUE
  /\ UNCHANGED <<hosts, missed, granted, pc, snap, todo, ans, dns, kern, faults>>

-----------------------------------------------------------------------------
(* Run and Tick *)

\* Tick copies hosts; with none it returns without touching the ruleset.
TickStart ==
  /\ pc = "idle"
  /\ pc' = IF hosts = {} THEN "idle" ELSE "resolve"
  /\ snap' = hosts /\ todo' = hosts /\ ans' = Nothing
  /\ UNCHANGED <<hosts, sending, missed, granted, dns, kern, faults>>

\* Mutant: a failed pass stops the ticker.
TickerFiresAfterSuccess == ~ missed /\ TickStart /\ UNCHANGED poke

TickerFires == TickStart /\ UNCHANGED poke
PokeReceived == poke /\ TickStart /\ poke' = FALSE

\* Tick returns an error: the ruleset stays, only the ticker tries again.
Fail ==
  /\ pc' = "idle" /\ missed' = (missed \/ snap = hosts)
  /\ UNCHANGED <<hosts, sending, poke, granted, snap, todo, ans, dns, kern>>

\* LookupHost needs the network: under policy drop only an exempt DNS works.
Resolves(h) == dns[h] # {} /\ (filtered => DnsExempt)

\* Mutant: a host without addresses is left out instead of failing the pass.
LookupSkips(h) ==
  /\ pc = "resolve" /\ h \in todo
  /\ ans' = [ans EXCEPT ![h] = dns[h]] /\ todo' = todo \ {h}
  /\ pc' = IF todo = {h} THEN "apply" ELSE "resolve"
  /\ UNCHANGED <<gen, snap, dns, kern, faults>>

\* ResolveAll: one host after the other; any failure ends the pass.
Lookup(h) ==
  /\ pc = "resolve" /\ h \in todo
  /\ \/ /\ Resolves(h)
        /\ ans' = [ans EXCEPT ![h] = dns[h]] /\ todo' = todo \ {h}
        /\ pc' = IF todo = {h} THEN "apply" ELSE "resolve"
        /\ UNCHANGED <<gen, snap, dns, kern, faults>>
     \/ ~ Resolves(h) /\ Fail /\ UNCHANGED faults
     \/ Fault /\ Fail

\* `nft -f -` on Render's output: the table is created or, having no flush, the
\* chain gains the rules.
NftLoad(old, new) == old \cup new

\* HelperApplier starts the companion with the ruleset on stdin, no argument.
HelperArgs == {}
\* The companion's run() returns an error unless it is told a bundle.
HelperRuns(args) == "--bundle" \in args
Refused == Helper /\ ~ HelperRuns(HelperArgs)

\* Applier.Apply succeeds: NftApplier, or a companion that runs.
ApplyOK ==
  /\ pc = "apply" /\ ~ Refused
  /\ filtered' = TRUE /\ allowed' = NftLoad(allowed, Union(ans, snap))
  /\ applied' = [hosts |-> snap, ans |-> ans]
  /\ missed' = (missed /\ snap # hosts)
  /\ pc' = "idle" /\ UNCHANGED <<hosts, sending, poke, granted, snap, todo, ans, dns, faults>>

ApplyErr ==
  /\ pc = "apply" /\ Fail
  /\ Fault \/ (Refused /\ UNCHANGED faults)

-----------------------------------------------------------------------------
\* A broker's address changes.
DnsChange(h, S) ==
  /\ dns[h] # S /\ dns' = [dns EXCEPT ![h] = S]
  /\ granted' = IF h \in hosts \/ (pc = "resolve" /\ h \in todo) THEN granted \cup S
                ELSE granted
  /\ UNCHANGED <<hosts, sending, poke, missed, pc, snap, todo, ans, kern, faults>>

\* serve calls UpdateHosts with the initial bundle before it starts Run.
Init ==
  /\ hosts \in HostSets /\ sending = 0 /\ poke = TRUE /\ missed = FALSE
  /\ pc = "idle" /\ snap = {} /\ todo = {} /\ ans = Nothing
  /\ dns \in [Hosts -> Answers] /\ granted = Union(dns, hosts)
  /\ filtered = FALSE /\ allowed = {} /\ applied = [hosts |-> {}, ans |-> Nothing]
  /\ faults = 0

Tick == (\E h \in Hosts : Lookup(h)) \/ ApplyOK \/ ApplyErr

Next ==
  \/ \E H \in HostSets : StoreHosts(H)
  \/ SendPoke \/ TickerFires \/ PokeReceived \/ Tick
  \/ \E h \in Hosts, S \in Answers : DnsChange(h, S)

Spec == Init /\ [][Next]_vars

\* The goroutines run and the 5-minute ticker fires.
FairSpec == Spec /\ WF_vars(SendPoke) /\ WF_vars(TickerFires) /\ WF_vars(PokeReceived) /\ WF_vars(Tick)

-----------------------------------------------------------------------------
(* Properties *)

\* No bundle swap is forgotten: while the installed ruleset is not the one for
\* the present hosts, a poke is pending or on its way, or Tick is at work on
\* these hosts, or Tick has tried them and failed (and the ticker will retry).
NoLostSwap ==
  (hosts # {} /\ applied.hosts # hosts)
    => \/ sending > 0 \/ poke \/ missed
       \/ pc # "idle" /\ snap = hosts

\* Fail closed on partial resolution: an installed ruleset accepts at least one
\* address of every host it was made for.
EveryHostCovered ==
  \A h \in applied.hosts : applied.ans[h] # {} /\ applied.ans[h] \subseteq allowed

\* "Allowing outbound TCP/443 to exactly that IP set" (egress.go:12): the addresses
\* the kernel accepts are those of the last ruleset.  Refuted: Render neither
\* flushes nor deletes, and `nft -f -` adds its rules to the chain that is there.
ExactRuleset == filtered => allowed = Union(applied.ans, applied.hosts)

\* What is left of it: the accepted addresses only grow, but all of them have been
\* an address of a host that a live bundle enabled, never of one that was only on
\* its way in or already gone when it was copied.
OnlyGranted == allowed \subseteq granted

\* The rules in the kernel let every broker through, and nobody who never was one;
\* those who were one and are no longer stay (ExactRuleset).
RulesetSound == EveryHostCovered /\ OnlyGranted

\* "Refresh on a 5-minute timer and on every bundle swap" (egress.go:14): if the
\* bundle and DNS settle and every host has an address, the kernel comes to accept
\* all of them.  It holds where something outside the repository lets DNS through
\* (DnsExempt) and NftApplier is used; the chain Render writes is policy drop with
\* no rule for DNS, so on its own the first ruleset blocks every later lookup, and
\* HelperApplier never gets a ruleset in.
EgressConverges ==
  \A H \in HostSets : \A d \in [H -> Answers \ {{}}] :
    <>[](hosts = H /\ \A h \in H : dns[h] = d[h]) => <>[](Union(d, H) \subseteq allowed)
=============================================================================

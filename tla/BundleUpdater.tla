---------------------------- MODULE BundleUpdater ----------------------------
(***************************************************************************)
(* The bundle pipeline of tesseract-proxy: bundleupd.Updater.Tick with its *)
(* HTTP fetcher, profile.LoadAndVerify, profile.Holder, the bundle files   *)
(* on disk, the startup load in cmd/proxy and --rollback-bundle.           *)
(*                                                                         *)
(* Tick holds Updater.mu only while it reads or writes lastETag/lastHash.  *)
(* The poll loop, the signal goroutine (SIGHUP) and every admin reload     *)
(* request call it, so its system calls interleave: each one is an action. *)
(*                                                                         *)
(* A bundle stands for its bytes; its hash is the bundle itself and the    *)
(* detached signature made for b is written b.  A crash kills the process  *)
(* and keeps the files (no power loss, so no unsynced writes).             *)
(***************************************************************************)
EXTENDS Naturals

CONSTANTS
  Bundles,        \* the bundle contents that exist
  Signed,         \* those the pinned key has signed
  Loadable,       \* those that decode, validate and pass min_proxy_version
  Version,        \* rank of bundle_version in the loader's string order
  Shipped,        \* the bundle install.sh leaves on disk
  Offered,        \* bundles the CDN may come to serve
  Forgeries,      \* signature bytes made for no bundle that it may serve: {BadSig} or {}
  Pushed,         \* bundles the operator may install with reload-bundle.sh
  Flush,          \* whether a CDN flush may lose the ETag
  Rollback,       \* whether the operator uses --rollback-bundle
  Workers,        \* goroutines that call Tick in this deployment
  Poller,         \* the worker running Updater.Run (refresh.enabled)
  SigLoop,        \* the worker handling SIGHUP / SIGUSR1
  BadSig,         \* signature bytes that verify nothing
  None,           \* missing file, nil router, zero hash, empty ETag
  MaxFaults,      \* bound: I/O and network failures
  MaxCrashes      \* bound: process crashes

ASSUME BundleAssumption ==
  /\ Signed \subseteq Bundles /\ Loadable \subseteq Bundles
  /\ Offered \subseteq Bundles /\ Pushed \subseteq Signed
  /\ Forgeries \subseteq {BadSig}
  /\ Shipped \in Signed \cap Loadable
  /\ Version \in [Bundles -> Nat]
ASSUME SentinelAssumption ==
  BadSig \notin Bundles /\ None \notin Bundles /\ BadSig # None
ASSUME BoundAssumption == 
  /\ MaxFaults \in Nat /\ MaxCrashes \in Nat /\ {Rollback, Flush} \subseteq BOOLEAN

VARIABLES
  up,           \* the proxy process is serving
  holder,       \* Holder.p: the live router, named by its bundle
  lastETag, lastHash,   \* Updater fields under Updater.mu
  poke, hup,    \* Updater.poke and hupCh hold an element (capacity 1)
  egressHosts,  \* the bundle whose hosts OnSwap last gave the egress generator
  pc, tick,     \* per worker: position in Tick and its local variables
  disk,         \* disk[k][s]: content of file k in slot s
  cdn,          \* what the bundle URL and the signature URL serve
  op,           \* the operator: idle, or between the steps of a script
  faults, crashes

mem   == <<holder, lastETag, lastHash, egressHosts>>
chans == <<poke, hup>>
env   == <<cdn, op>>
vars  == <<up, mem, chans, pc, tick, disk, env, faults, crashes>>

Sigs  == Bundles \cup {BadSig}
Kinds == {"bundle", "sig"}
Slots == {"current", "previous", "staged"}
Labels == {"idle", "fetchBundle", "fetchSig", "compare", "stageBundle",
           "stageSig", "unstage", "readPrev", "readBundle", "readSig",
           "rmBundle", "rmSig", "statBundle", "rotateBundle",
           "installBundle", "statSig", "rotateSig", "installSig", "store",
           "remember", "onSwap"}

\* The locals of one Tick call, reset to None after their last use.
TickLocals == [etag : Bundles \cup {None}, hash : Bundles \cup {None},
               bundle : Bundles \cup {None}, sig : Sigs \cup {None},
               newETag : Bundles \cup {None}, prev : Bundles \cup {None},
               loaded : Bundles \cup {None}]
OpIdle == [step |-> "idle", bundle |-> None]
Blank == [etag |-> None, hash |-> None, bundle |-> None, sig |-> None,
          newETag |-> None, prev |-> None, loaded |-> None]

MemType ==
  /\ up \in BOOLEAN /\ poke \in BOOLEAN /\ hup \in BOOLEAN
  /\ holder \in Bundles \cup {None} /\ egressHosts \in Bundles \cup {None}
  /\ lastETag \in Bundles \cup {None} /\ lastHash \in Bundles \cup {None}
TickType == pc \in [Workers -> Labels] /\ tick \in [Workers -> TickLocals]
DiskType ==
  /\ disk \in [Kinds -> [Slots -> Sigs \cup {None}]]
  /\ \A s \in Slots : disk["bundle"][s] # BadSig
EnvType ==
  /\ cdn \in [bundle : Bundles, sig : Sigs]
  /\ op \in [step : {"idle", "rollbackSig", "pushSig", "pushHup"},
             bundle : Pushed \cup {None}]
  /\ faults \in 0..MaxFaults /\ crashes \in 0..MaxCrashes

\* The type invariant.
TypeOK == MemType /\ TickType /\ DiskType /\ EnvType

-----------------------------------------------------------------------------
(* profile.LoadAndVerify *)

\* verifySignature: ECDSA accepts exactly the signature made for the bytes.
Verifies(b, s) == b # None /\ s = b

\* enforceVersionGates, the monotonic gate: no previous version, no gate.
Newer(b, prev) == prev # None => Version[b] > Version[prev]

\* Everything LoadAndVerify decides once both files have been read.
Accepts(b, s, prev) == Verifies(b, s) /\ b \in Loadable /\ Newer(b, prev)

-----------------------------------------------------------------------------
(* File system *)

\* os.Rename within one directory of slots; the source must exist.
Rename(slots, from, to) == [slots EXCEPT ![to] = slots[from], ![from] = None]

Move(k, from, to) == disk' = [disk EXCEPT ![k] = Rename(disk[k], from, to)]
Write(k, s, c) == disk' = [disk EXCEPT ![k] = [disk[k] EXCEPT ![s] = c]]

\* One call to the network or the file system fails.
Fault == faults < MaxFaults /\ faults' = faults + 1
NoFault == UNCHANGED faults

-----------------------------------------------------------------------------
(* Control of one Tick *)

Goto(w, l) == pc' = [pc EXCEPT ![w] = l]
Return(w) == Goto(w, "idle") /\ tick' = [tick EXCEPT ![w] = Blank]
Keep == UNCHANGED <<up, chans, env, crashes>>

\* Tick copies lastETag and lastHash under the mutex.
TickStart(w) ==
  /\ up /\ pc[w] = "idle"
  /\ Goto(w, "fetchBundle")
  /\ tick' = [tick EXCEPT ![w].etag = lastETag, ![w].hash = lastHash]
  /\ UNCHANGED <<up, mem, disk, env, faults, crashes>>

\* Updater.Run: the ticker fires.
TickerFires == Poller \in Workers /\ TickStart(Poller) /\ UNCHANGED chans

\* Updater.Run: a pending poke is received.
PokeReceived ==
  Poller \in Workers /\ poke /\ TickStart(Poller) /\ poke' = FALSE /\ UNCHANGED hup

\* The signal goroutine receives SIGHUP and ticks.
HupReceived ==
  SigLoop \in Workers /\ hup /\ TickStart(SigLoop) /\ hup' = FALSE /\ UNCHANGED poke

\* POST /admin/bundle/reload.
AdminReload(w) ==
  w \in Workers \ {Poller, SigLoop} /\ TickStart(w) /\ UNCHANGED chans

\* GET BundleURL with If-None-Match.  The response carries the bundle's ETag
\* or, after a CDN flush, none.
FetchBundle(w) ==
  /\ pc[w] = "fetchBundle"
  /\ \/ tick[w].etag = cdn.bundle /\ Return(w) /\ NoFault         \* 304
     \/ /\ tick[w].etag # cdn.bundle
        /\ \E e \in {cdn.bundle} \cup {z \in {None} : Flush} :
             tick' = [tick EXCEPT ![w].bundle = cdn.bundle, ![w].newETag = e]
        /\ Goto(w, "fetchSig") /\ NoFault
     \/ Fault /\ Return(w)                                        \* error
  /\ Keep /\ UNCHANGED <<mem, disk>>

\* Mutant: the fetcher returns the signature in the bundle's place.
FetchSigSwapped(w) ==
  /\ pc[w] = "fetchSig"
  /\ tick' = [tick EXCEPT ![w].bundle = cdn.sig]
  /\ Goto(w, "compare") /\ NoFault
  /\ Keep /\ UNCHANGED <<mem, disk>>

\* GET SigURL: a second request, so the two may see different publications.
FetchSig(w) ==
  /\ pc[w] = "fetchSig"
  /\ \/ /\ tick' = [tick EXCEPT ![w].sig = cdn.sig]
        /\ Goto(w, "compare") /\ NoFault
     \/ Fault /\ Return(w)
  /\ Keep /\ UNCHANGED <<mem, disk>>

\* hash == lastHash: same content as last time, only the ETag is refreshed.
CompareHash(w) ==
  /\ pc[w] = "compare"
  /\ \/ /\ tick[w].bundle = tick[w].hash
        /\ lastETag' = tick[w].newETag /\ Return(w)
     \/ /\ tick[w].bundle # tick[w].hash
        /\ tick' = [tick EXCEPT ![w].etag = None, ![w].hash = None]
        /\ Goto(w, "stageBundle") /\ UNCHANGED lastETag
  /\ Keep /\ UNCHANGED <<holder, lastHash, egressHosts, disk, faults>>

\* Mutant: a staged file left by an earlier Tick makes this one give up.
StageBundleExclusive(w) ==
  /\ pc[w] = "stageBundle"
  /\ \/ /\ disk["bundle"]["staged"] = None
        /\ Write("bundle", "staged", tick[w].bundle) /\ Goto(w, "stageSig") /\ UNCHANGED tick
     \/ disk["bundle"]["staged"] # None /\ Return(w) /\ UNCHANGED disk
  /\ NoFault /\ Keep /\ UNCHANGED mem

\* writeAtomic(stagedBundle): the path is shared by every worker.
StageBundle(w) ==
  /\ pc[w] = "stageBundle"
  /\ \/ Write("bundle", "staged", tick[w].bundle) /\ Goto(w, "stageSig")
        /\ NoFault /\ UNCHANGED tick
     \/ Fault /\ Return(w) /\ UNCHANGED disk
  /\ Keep /\ UNCHANGED mem

\* Mutant: the hash is remembered when the bundle is staged, before it is
\* known to verify.
StageSigRemembers(w) ==
  /\ pc[w] = "stageSig"
  /\ Write("sig", "staged", tick[w].sig) /\ Goto(w, "readPrev")
  /\ lastHash' = tick[w].bundle
  /\ Keep /\ UNCHANGED <<holder, lastETag, egressHosts, tick, faults>>

\* writeAtomic(stagedSig); on error the staged bundle is removed next.
StageSig(w) ==
  /\ pc[w] = "stageSig"
  /\ \/ Write("sig", "staged", tick[w].sig) /\ Goto(w, "readPrev") /\ NoFault
     \/ Fault /\ Goto(w, "unstage") /\ UNCHANGED disk
  /\ tick' = [tick EXCEPT ![w].sig = None] /\ Keep /\ UNCHANGED mem

Unstage(w) ==
  /\ pc[w] = "unstage"
  /\ \/ Write("bundle", "staged", None) /\ NoFault
     \/ Fault /\ UNCHANGED disk
  /\ Return(w) /\ Keep /\ UNCHANGED mem

\* Mutant: the version of the live router is not passed on.
ReadPrevMissing(w) ==
  /\ pc[w] = "readPrev"
  /\ Goto(w, "readBundle")
  /\ Keep /\ UNCHANGED <<mem, disk, faults, tick>>

\* prevVersion is taken from the router that is live now.
ReadPrev(w) ==
  /\ pc[w] = "readPrev"
  /\ tick' = [tick EXCEPT ![w].prev = holder]
  /\ Goto(w, "readBundle")
  /\ Keep /\ UNCHANGED <<mem, disk, faults>>

\* LoadAndVerify reads the staged bundle back from disk ...
ReadBundle(w) ==
  /\ pc[w] = "readBundle"
  /\ \/ /\ disk["bundle"]["staged"] # None
        /\ tick' = [tick EXCEPT ![w].loaded = disk["bundle"]["staged"]]
        /\ Goto(w, "readSig") /\ NoFault
     \/ /\ disk["bundle"]["staged"] = None
        /\ Goto(w, "rmBundle") /\ NoFault /\ UNCHANGED tick
     \/ Fault /\ Goto(w, "rmBundle") /\ UNCHANGED tick
  /\ Keep /\ UNCHANGED <<mem, disk>>

\* Mutant: the egress generator is told as soon as the bundle verifies.
VerifyAnnounces(w) ==
  /\ pc[w] = "readSig"
  /\ Accepts(tick[w].loaded, disk["sig"]["staged"], tick[w].prev)
  /\ egressHosts' = tick[w].loaded /\ Goto(w, "statBundle")
  /\ Keep /\ UNCHANGED <<holder, lastETag, lastHash, tick, disk, faults>>

\* Mutant: the router is built from a second read of the staged file.
VerifyReread(w) ==
  /\ pc[w] = "readSig" /\ disk["bundle"]["staged"] # None
  /\ Accepts(tick[w].loaded, disk["sig"]["staged"], tick[w].prev)
  /\ tick' = [tick EXCEPT ![w].prev = None, ![w].loaded = disk["bundle"]["staged"]]
  /\ Goto(w, "statBundle") /\ NoFault /\ Keep /\ UNCHANGED <<mem, disk>>

\* ... then the staged signature, and decides.
Verify(w) ==
  /\ pc[w] = "readSig"
  /\ \/ /\ Accepts(tick[w].loaded, disk["sig"]["staged"], tick[w].prev)
        /\ Goto(w, "statBundle") /\ NoFault
     \/ /\ ~ Accepts(tick[w].loaded, disk["sig"]["staged"], tick[w].prev)
        /\ Goto(w, "rmBundle") /\ NoFault
     \/ Fault /\ Goto(w, "rmBundle")
  /\ tick' = [tick EXCEPT ![w].prev = None] /\ Keep /\ UNCHANGED <<mem, disk>>

\* Verify failed: both staged files are removed, errors ignored.
RemoveStagedBundle(w) ==
  /\ pc[w] = "rmBundle"
  /\ \/ Write("bundle", "staged", None) /\ NoFault
     \/ Fault /\ UNCHANGED disk
  /\ Goto(w, "rmSig") /\ Keep /\ UNCHANGED <<mem, tick>>

RemoveStagedSig(w) ==
  /\ pc[w] = "rmSig"
  /\ \/ Write("sig", "staged", None) /\ NoFault
     \/ Fault /\ UNCHANGED disk
  /\ Return(w) /\ Keep /\ UNCHANGED mem

\* promote(current, staged) is three system calls per file.
StatAt    == [bundle |-> "statBundle",    sig |-> "statSig"]
RotateAt  == [bundle |-> "rotateBundle",  sig |-> "rotateSig"]
InstallAt == [bundle |-> "installBundle", sig |-> "installSig"]
\* Mutant: Tick forgets to promote the signature.
PromotedBundleOnly == [bundle |-> "store", sig |-> "store"]

PromotedTo == [bundle |-> "statSig",      sig |-> "store"]

PromoteStat(w, k) ==
  /\ pc[w] = StatAt[k]
  /\ \/ /\ disk[k]["current"] # None
        /\ Goto(w, RotateAt[k]) /\ NoFault /\ UNCHANGED tick
     \/ /\ disk[k]["current"] = None
        /\ Goto(w, InstallAt[k]) /\ NoFault /\ UNCHANGED tick
     \/ Fault /\ Return(w)
  /\ Keep /\ UNCHANGED <<mem, disk>>

\* Mutant: promote deletes the old file instead of rotating it.
PromoteDelete(w, k) ==
  /\ pc[w] = RotateAt[k]
  /\ Write(k, "current", None) /\ Goto(w, InstallAt[k])
  /\ Keep /\ UNCHANGED <<mem, tick, faults>>

PromoteRotate(w, k) ==
  /\ pc[w] = RotateAt[k]
  /\ \/ /\ disk[k]["current"] # None
        /\ Move(k, "current", "previous")
        /\ Goto(w, InstallAt[k]) /\ NoFault /\ UNCHANGED tick
     \/ disk[k]["current"] = None /\ Return(w) /\ NoFault /\ UNCHANGED disk
     \/ Fault /\ Return(w) /\ UNCHANGED disk
  /\ Keep /\ UNCHANGED mem

PromoteInstall(w, k) ==
  /\ pc[w] = InstallAt[k]
  /\ \/ /\ disk[k]["staged"] # None
        /\ Move(k, "staged", "current")
        /\ Goto(w, PromotedTo[k]) /\ NoFault /\ UNCHANGED tick
     \/ disk[k]["staged"] = None /\ Return(w) /\ NoFault /\ UNCHANGED disk
     \/ Fault /\ Return(w) /\ UNCHANGED disk
  /\ Keep /\ UNCHANGED mem

\* Mutant: the router is rebuilt from the promoted file instead of the bytes
\* that were verified.
HolderStoreReread(w) ==
  /\ pc[w] = "store"
  /\ holder' = disk["bundle"]["current"]
  /\ Goto(w, "remember")
  /\ Keep /\ UNCHANGED <<lastETag, lastHash, egressHosts, tick, disk, faults>>

\* Holder.Store publishes the router LoadAndVerify built.
HolderStore(w) ==
  /\ pc[w] = "store"
  /\ holder' = tick[w].loaded
  /\ Goto(w, "remember")
  /\ Keep /\ UNCHANGED <<lastETag, lastHash, egressHosts, tick, disk, faults>>

\* lastHash is the hash of the bytes that were fetched.
Remember(w) ==
  /\ pc[w] = "remember"
  /\ lastHash' = tick[w].bundle /\ lastETag' = tick[w].newETag
  /\ Goto(w, "onSwap")
  /\ Keep /\ UNCHANGED <<holder, egressHosts, tick, disk, faults>>

\* OnSwap: egressGen.UpdateHosts(enabledHosts(loadRes.Bundle)).
OnSwap(w) ==
  /\ pc[w] = "onSwap"
  /\ egressHosts' = tick[w].loaded
  /\ Return(w)
  /\ Keep /\ UNCHANGED <<holder, lastETag, lastHash, disk, faults>>

Tick(w) ==
  \/ FetchBundle(w) \/ FetchSig(w) \/ CompareHash(w)
  \/ StageBundle(w) \/ StageSig(w) \/ Unstage(w)
  \/ ReadPrev(w) \/ ReadBundle(w) \/ Verify(w)
  \/ RemoveStagedBundle(w) \/ RemoveStagedSig(w)
  \/ \E k \in Kinds : PromoteStat(w, k) \/ PromoteRotate(w, k) \/ PromoteInstall(w, k)
  \/ HolderStore(w) \/ Remember(w) \/ OnSwap(w)

-----------------------------------------------------------------------------
(* Process life cycle and signals *)

\* serve: the initial load has no previous version to gate on.  A failed load
\* makes serve return, so the process does not come up.
Start ==
  /\ ~ up
  /\ Accepts(disk["bundle"]["current"], disk["sig"]["current"], None)
  /\ up' = TRUE
  /\ holder' = disk["bundle"]["current"] /\ egressHosts' = disk["bundle"]["current"]
  /\ UNCHANGED <<lastETag, lastHash, chans, pc, tick, disk, env, faults, crashes>>

\* The process ends: everything in memory is gone, the files stay.
Exit ==
  /\ up /\ up' = FALSE
  /\ holder' = None /\ lastETag' = None /\ lastHash' = None /\ egressHosts' = None
  /\ poke' = FALSE /\ hup' = FALSE
  /\ pc' = [w \in Workers |-> "idle"] /\ tick' = [w \in Workers |-> Blank]
  /\ UNCHANGED <<disk, env, faults>>

\* SIGTERM: serve waits for the poll loop and the signal goroutine; an admin
\* request that outlives the 10 s of srv.Shutdown is cut short.
Stop ==
  /\ Exit /\ UNCHANGED crashes
  /\ \A w \in Workers \cap {Poller, SigLoop} : pc[w] = "idle"

Crash == Exit /\ crashes < MaxCrashes /\ crashes' = crashes + 1

\* SIGHUP into hupCh (capacity 1, excess signals are dropped).
Sighup ==
  /\ up /\ SigLoop \in Workers /\ ~ hup /\ hup' = TRUE
  /\ UNCHANGED <<up, mem, poke, pc, tick, disk, env, faults, crashes>>

\* SIGUSR1: the signal goroutine, when it is not inside a Tick, calls Poke.
\* Without the poll loop nobody reads the poke.
Sigusr1 ==
  /\ up /\ Poller \in Workers
  /\ (SigLoop \in Workers => pc[SigLoop] = "idle") /\ ~ poke /\ poke' = TRUE
  /\ UNCHANGED <<up, mem, hup, pc, tick, disk, env, faults, crashes>>

-----------------------------------------------------------------------------
(* The CDN and the operator *)

\* Bundle and signature are two objects on the CDN.
PublishBundle(b) ==
  /\ cdn.bundle # b /\ cdn' = [cdn EXCEPT !.bundle = b]
  /\ UNCHANGED <<up, mem, chans, pc, tick, disk, op, faults, crashes>>

PublishSig(s) ==
  /\ cdn.sig # s /\ cdn' = [cdn EXCEPT !.sig = s]
  /\ UNCHANGED <<up, mem, chans, pc, tick, disk, op, faults, crashes>>

\* --rollback-bundle, run while the service is stopped: previous bundle over
\* current, then previous signature over current.
RollbackBundle ==
  /\ Rollback /\ ~ up /\ op = OpIdle /\ disk["bundle"]["previous"] # None
  /\ Move("bundle", "previous", "current")
  /\ op' = [step |-> "rollbackSig", bundle |-> None]
  /\ UNCHANGED <<up, mem, chans, pc, tick, cdn, faults, crashes>>

\* The signature may be missing, its rename may fail, or the command may be
\* killed before it.
RollbackSig ==
  /\ op.step = "rollbackSig" /\ op' = OpIdle
  /\ \/ disk["sig"]["previous"] # None /\ Move("sig", "previous", "current")
     \/ UNCHANGED disk
  /\ UNCHANGED <<up, mem, chans, pc, tick, cdn, faults, crashes>>

\* reload-bundle.sh: install the bundle, install the signature, SIGHUP.
PushBundle(b) ==
  /\ up /\ op = OpIdle /\ SigLoop \in Workers
  /\ Write("bundle", "current", b) /\ op' = [step |-> "pushSig", bundle |-> b]
  /\ UNCHANGED <<up, mem, chans, pc, tick, cdn, faults, crashes>>

PushSig(b) ==
  /\ op = [step |-> "pushSig", bundle |-> b]
  /\ Write("sig", "current", b) /\ op' = [step |-> "pushHup", bundle |-> b]
  /\ UNCHANGED <<up, mem, chans, pc, tick, cdn, faults, crashes>>

PushHup(b) ==
  /\ op = [step |-> "pushHup", bundle |-> b] /\ op' = OpIdle /\ hup' = up
  /\ UNCHANGED <<up, mem, poke, pc, tick, disk, cdn, faults, crashes>>

Operator ==
  \/ RollbackBundle \/ RollbackSig
  \/ \E b \in Pushed : PushBundle(b) \/ PushSig(b) \/ PushHup(b)

-----------------------------------------------------------------------------
Init ==
  /\ up = FALSE /\ holder = None /\ lastETag = None /\ lastHash = None
  /\ egressHosts = None /\ poke = FALSE /\ hup = FALSE
  /\ pc = [w \in Workers |-> "idle"] /\ tick = [w \in Workers |-> Blank]
  /\ disk = [k \in Kinds |-> [s \in Slots |-> IF s = "current" THEN Shipped ELSE None]]
  /\ cdn = [bundle |-> Shipped, sig |-> Shipped]
  /\ op = OpIdle /\ faults = 0 /\ crashes = 0

Next ==
  \/ TickerFires \/ PokeReceived \/ HupReceived
  \/ \E w \in Workers : AdminReload(w) \/ Tick(w)
  \/ Start \/ Stop \/ Crash \/ Sighup \/ Sigusr1
  \/ \E b \in Offered : PublishBundle(b)
  \/ \E s \in (Offered \cap Signed) \cup Forgeries : PublishSig(s)
  \/ Operator

\* The Go scheduler runs every goroutine, the ticker fires, a received signal
\* is delivered and a script runs to its end.
Fairness ==
  /\ \A w \in Workers : WF_vars(Tick(w))
  /\ WF_vars(TickerFires) /\ WF_vars(PokeReceived) /\ WF_vars(HupReceived)
  /\ \A b \in Pushed : WF_vars(PushSig(b)) /\ WF_vars(PushHup(b))

Spec == Init /\ [][Next]_vars
FairSpec == Spec /\ Fairness
-----------------------------------------------------------------------------
(* Properties *)

Idle == \A w \in Workers : pc[w] = "idle"
ActivePair(b) == disk["bundle"]["current"] = b /\ disk["sig"]["current"] = b

\* "The goroutine never publishes a half-loaded router": however many Ticks
\* overlap on the shared staged files, the live router, and the host list
\* handed to the egress generator, come from a bundle whose own bytes passed
\* signature, schema and min_proxy_version.
RouterVerified ==
  up => /\ holder \in Signed \cap Loadable
        /\ egressHosts \in Signed \cap Loadable

\* enforceVersionGates through Tick: while the process lives, a swap of the
\* live router never lowers bundle_version.  (A restart may: Start has no gate.)
VersionMonotone == [][up /\ up' => Version[holder'] >= Version[holder]]_vars

\* With one Tick at a time and no I/O failure or crash, every Tick that has
\* returned leaves the active files equal to the live router and a matching
\* pair, or no pair, in the rollback slot.
DiskMatchesRouter ==
  (up /\ Idle /\ faults = 0 /\ crashes = 0 /\ op = OpIdle)
    => ActivePair(holder) /\ disk["bundle"]["previous"] = disk["sig"]["previous"]

\* After at most one I/O failure or crash, at whatever step of Tick, some
\* bundle file on disk still has its signature beside it: promote's order never
\* destroys the last usable pair.  (--rollback-bundle can: it overwrites the
\* active pair with whatever is in the previous slots.)
PairSurvives ==
  (~ Rollback /\ faults + crashes <= 1) =>
    \E s, t \in Slots : Verifies(disk["bundle"][s], disk["sig"][t])

\* Between Ticks the remembered ETag and hash are those of the live bundle, so
\* a 304 or an equal hash never skips content that is not already live.
SkipsOnlyLive ==
  (up /\ Idle) => {lastETag, lastHash} \subseteq {None, holder}

\* "The proxy is allowed to dial only the broker hosts named in the bundle", for
\* which OnSwap hands over the hosts "on every bundle swap" (egress.go:4, :87):
\* between Ticks the egress generator works from the live bundle's hosts.  It holds
\* with one Tick at a time; two that overlap may store in one order and call OnSwap
\* in the other, and then nothing corrects the host list until the next swap.
EgressFollowsRouter == (up /\ Idle) => egressHosts = holder

\* With one Tick at a time the pipeline implements BundleService: every system
\* call, failure, crash and operator step is one of its four steps or invisible.
Service == INSTANCE BundleService WITH
  Good <- Signed \cap Loadable, Feed <- Offered \cup {Shipped},
  live <- holder, hosts <- egressHosts
ImplementsService == Service!Spec

\* The poll loop converges: if the process stays up and the CDN settles on a
\* loadable signed bundle, the live version reaches it despite earlier I/O
\* failures, torn publications and leftovers in the staged slots.
LatestWins ==
  \A b \in Offered \cap Signed \cap Loadable :
    <>[](up /\ cdn = [bundle |-> b, sig |-> b]) => <>(up /\ Version[holder] >= Version[b])
=============================================================================

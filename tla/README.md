# Tesseract.Proxy in TLA+

This directory models the parts of Tesseract.Proxy that run concurrently, survive
failures or keep state on disk, and the pure algorithms they rely on, checks them with TLC
on small instances and proves, with TLAPS, the state machines' safety properties for
instances of every size. `PROJECT.json` holds the machine-readable side:
components, runs, mutants, the map from definitions to source lines, findings, hazards and
theorems. Source paths below are relative to `src/`.

## 1. The system

`tesseract-proxy` is a single Go process on a small host. It accepts mTLS connections,
forwards order requests that match a signed *bundle* of broker profiles, writes an audit
record per request and offers an admin plane on the same listener.

| Component | State | Operations | Interacts with |
|---|---|---|---|
| Bundle updater (`internal/bundleupd`) | last ETag and hash under a mutex, poke channel, the files `bundle`, `sig` with `.staged` and `.previous` | `Run`, `Poke`, `Tick` (from the poll loop, SIGHUP, `POST /admin/bundle/reload`) | CDN, loader, holder, egress generator through `OnSwap` |
| Loader, holder, router (`internal/profile`) | the live `*Router` behind an atomic pointer | `LoadAndVerify`, `Store`, `Load`, `Lookup` | updater, order plane, startup |
| Startup, signals, shutdown (`cmd/proxy`) | worker goroutines, signal channels of capacity 1 | `serve`, SIGHUP, SIGUSR1, SIGTERM, `--rollback-bundle`, `--rollback-binary` | everything |
| Audit writer (`internal/audit`) | file handle and encoder, ring, subscriptions, one mutex | `Log`, `Recent`, `Subscribe`, `Rotate`, `Reopen`, `Close` | order plane, admin plane, logrotate |
| Egress generator (`internal/egress`, `tesseract-proxy-egress`) | host set, poke channel; the kernel's nft table | `UpdateHosts`, `Run`, `Tick`, `ResolveAll`, `Apply` | updater, DNS, nft, companion binary |
| Binary updater (`internal/binupd`) | the files current, previous, staged | `Apply`, `Rollback` | admin plane, rollback CLI |
| mTLS allowlist (`internal/mtls`) | two serial tables behind atomic pointers | `Classify`, `Replace` | handshakes, admin guard, config |
| Order plane (`internal/proxy`, `internal/metrics`) | none of its own; router snapshot per request, counters | `ServeHTTP` | holder, brokers, audit, metrics, shutdown |
| Configuration (`internal/config`) | none; one validated document | `Validate`, the constructors behind each block | startup, SIGHUP |
| Admin UI (`tools/admin-ui`) | broker YAML files, bundle output, snapshot | broker CRUD, publish, diff, audit views | build-bundle, `reload-bundle.sh`, admin plane |

What is hard here: `Tick` runs in several goroutines at once on shared staged files; the
pair bundle/signature is fetched by two requests and promoted by four renames; skip state,
router and egress hosts are updated in separate steps; records are stamped outside the
lock that orders them; rotation is close, rename, open; pokes and signals are lossy
channels; the history scan reads the audit file without the lock; versions are compared as
strings; the kernel's rules outlive the process's idea of them; shutdown gives up on
requests after ten seconds. `PROJECT.json` lists each hazard at its line.

## 2. Modules

Each component module declares its constants with named assumptions, its variables,
one action per operation or system call, `Init`, `Next`, `Spec`, (`FairSpec`) and, at the
end, its properties. `Allowlist`, `BinaryUpdate`, `AuditTail` and `Algorithms` prefix these
names (`AllowlistInit`, `BinNext`, `FollowInit`, `CaseSpec`), so that one instance can extend
several of them. Definitions introduced by "Mutant:" are broken variants of the
definition below them; no specification uses them, they show that a property can fail.

| Module | Models | Grain |
|---|---|---|
| `BundleUpdater` | `Tick`, fetcher, `LoadAndVerify`, `Holder`, bundle files, startup, signals, rollback, `reload-bundle.sh`, CDN | one action per system call, HTTP request or critical section of `Tick` |
| `BundleService` | what the pipeline promises: serve a good, ever newer bundle of the feed, then announce its hosts | abstract, three variables |
| `AuditTail` | `Log`'s critical section, ring, `Recent`, `Subscribe`, the SSE handler, reconnecting clients | one action per critical section, plus the stamp taken before the lock |
| `AuditFile` | `Open`, `Log`, `Rotate`, `Reopen`, `Close`, logrotate | one action per operation (all hold `Writer.mu`) |
| `AuditQuery` | `GET /admin/audit/range` on top of `AuditFile` | one action per line scanned |
| `Egress` | `UpdateHosts` (calls may overlap), `Run`, `Tick`, `ResolveAll`, both appliers, kernel set, DNS | store and poke separate, one action per lookup, apply atomic (nft is) |
| `BinaryUpdate` | `Apply`, `Rollback` | one action per system call |
| `Allowlist` | `Classify`, `Replace`, admin guard, config edit, SIGHUP, restart | one action per atomic load or store |
| `OrderPlane` | `ServeHTTP`, `Holder` swaps, audit and counter, shutdown | one action per step another actor can see |
| `AdminUI` | `brokerStore` create, put, delete, persist; `publish` with build-bundle, `reload-bundle.sh`, snapshot | one action per system call or file written by a command |
| `BundleRules` | bundle validation, path templates, router, version gates | operators |
| `LineDiff` | LCS line diff and hunks of the admin UI | operators |
| `Configuration` | `Validate` of every block and what the constructors accept | operators |
| `HandshakeErrors` | which handshake errors are counted and under which label | operators |
| `Algorithms` | picks one small input for each of the four above and checks them against reference definitions | one step per input |
| `MC*` | constants and bounds for TLC | |
| `MCOrders`, `MCAdmission` | one instance each of components that share no variable: order plane and audit tail; decisions, serial tables, binary slots and admin UI | each component moves while the others are in their initial state |
| `BundleUpdaterProofs` | theorems on `BundleUpdater`, its refinement of `BundleService` among them | |
| `AuditTailProofs`, `AuditFileProofs`, `EgressProofs`, `BinaryUpdateProofs`, `AdmissionProofs`, `OrderPlaneProofs`, `AdminUIProofs` | theorems on the module each is named after; `AuditFileProofs` also on `AuditQuery`; `AdmissionProofs`, on what the proxy admits, on `Allowlist`, `Configuration`, `BundleRules` and `HandshakeErrors` | |

### BundleUpdater
A bundle is named by its bytes, so its hash is itself and the signature made for `b` is
written `b`; ECDSA is ideal (`Verifies`). `Loadable` stands for decoding, schema
validation and `min_proxy_version`; `Forgeries` are signature bytes the feed may carry that
were made for no bundle; `Version` is the rank of `bundle_version` in the string
order the loader compares with. `pc[w]`/`tick[w]` are one goroutine's position in `Tick`
and its locals; a local is reset after its last use, which only merges states. `disk[k][s]`
is the file of kind `k` (bundle, sig) in slot `s` (current, previous, staged).
`writeAtomic` is one step because its temporary name is unique and its rename atomic.
Crashes keep the files; unsynced writes after a power loss are not modelled. Any network
or file system call may fail while the fault budget lasts. The operator's two scripts are
sequences of steps that interleave with the process.

`Workers` chooses which callers of `Tick` take part in an instance: the poll loop (runs if
`refresh.enabled`), the signal goroutine (always there) and any number of admin requests.

### BundleService
Three variables: the process is up, the bundle that serves orders (`live`), the bundle whose
hosts the egress generator was told last (`hosts`). A start serves any good bundle of the
feed; a swap goes to a newer one; `hosts` follows `live`, possibly late; a stop or crash
empties both. `BundleUpdater!Service` maps `holder` and `egressHosts` to it, so everything on
disk and on the network, every local of `Tick` and every failure is a stuttering step.

### AuditTail, AuditFile and AuditQuery
`AuditTail` names a record by its position in the log; `log[i]` is its timestamp.
Timestamps are distinct, as nanosecond stamps nearly always are. The history fields
`base`, `from`, `recv`, `announced` of a subscription exist for the properties only. In
`AuditFile` a file is an inode; `ok = FALSE` is the error `json.Encoder` keeps after a
failed write. `reused` records that two admin rotations fell into one second; the archive
that a second rotation replaces stays in `arch` with inode 0, a file no reader finds.

`AuditQuery` adds one reader. A record ends its line and a fragment does not, so the record
appended after a reopen shares the fragment's line: a line is the sequence of what it holds,
and only a line of one whole record parses (`Intact`). `Complete` is where the scanner may
stop; at the end of the file a fragment is its last line and nothing is read after that. The
number of a record stands for its time, so the window is on file order; stamps that disagree
with the order of writes are the subject of `AuditTail`. `had` is history: the length of the
file when the request opened it. `RangeAnswers` does not compute the answer a second time: it
asks for positions in the file, the ends of the last lines (`LastLines`) or the places of the
records (`Found`), that the answer is read from in order and without a gap.

### Egress
`sending` counts the `UpdateHosts` calls between their store and their poke: overlapping
Ticks make such calls side by side. `NftLoad` is what `nft -f -` does with a file that has no
flush. `DnsExempt` says whether
DNS queries bypass the chain (a resolver on another path); the generated chain itself
does not admit them. `missed`, `applied` and `granted` are history; `granted` collects the
answers DNS gave for a host while it was enabled or while a Tick that had copied it was
still to look it up.

### BinaryUpdate, Allowlist, OrderPlane
`before` (BinaryUpdate) is the binary that was active when the last operation began.
`overlapped` records that two uploads or rollbacks have
overlapped, `cut` (OrderPlane) that shutdown gave up on a request; `refused`
and the field `listed` of a connection (a table has listed its serial since the handshake
began) are history too. In `OrderPlane` an endpoint is a
(method, path) pair and `Profile` gives each bundle's brokers; the 503 for a missing router
and the error for an empty host do not occur in the deployed program (startup loads a
bundle first, validation refuses an empty host) and have no action. The two waits for the
workers between `Shutdown` and the close of the audit writer (main.go:353) are left out: the
goroutines waited for end with the context or with the 30 s timeout of the HTTP call they
are in, and they touch neither requests nor the trail.

### AdminUI
An open descriptor is a place, not a path: after a rename or a remove by another request it
follows the file (`Follow`). `Mixed` is what two writers at offset 0 leave (`Overlay`). A
bundle is what was read from the broker files; the time stamp in it is left out, so two
builds of the same brokers are one bundle. A cancelled request kills only the direct child
(`go run`, `bash`); the command that child runs goes on and holds the pipes that `streamCmd`
reads, so the handler keeps its lock until it ends (`EndOfCommand`, `GiveUp`). `active` is the
pair as this script last left it. `clash` is history. Each save request is made once, which
bounds the saves; deletes and publishes repeat.

### The algorithms
A path is a sequence of characters over a small alphabet with the ones that matter (`/`,
`{`, `}`, `.`, letters, digits); a template is put together from pieces, well formed or not,
so that validation and compilation can be compared with a definition that never scans. A
version string is a sequence of character codes, spelled the way build-bundle, the CDN
workflow and the release script spell theirs. A configuration differs from a working one in
at most two fields. Recursion is in recursive functions (`LcsTable`, `LcsDiff`).

* `TemplatesMeanInstances` (`TemplatesChecked`, `MatchesAreInstances`): what validation lets pass is exactly the well
  formed templates, and the compiled expression matches exactly their instances.
* `LookupIsTheBundle`: the router finds an endpoint iff an enabled broker of the bundle has it.
* `GatesOrderVersions` is two statements. `SemverIsNumeric`: the binary gate is the numeric order, and malformed versions are refused.
  `VersionsUnderStringOrder`: what the string order of `bundle_version` does with the spellings
  in use, numbers written as decimal numerals of any length. Dated versions advance with the
  day, whatever the suffix (within a day the suffix decides); tags advance while they have as
  many digits, so `v0.10.0` is refused after `v0.9.0` and `v0.100.0` after `v0.50.0`;
  a dated version is never newer than a tagged one, so a host installed from a release tarball (version `v0.x.y`)
  refuses every dated bundle of the CDN.
* `DiffIsFaithful`: applying the hunks the way `patch` reads them (a range of no lines starts
  at the line before it) to the old file gives the new one, except that the header of an
  empty file says line 1 where `patch` expects 0; headers agree with the bodies, the kept lines are a longest common subsequence and each hunk has
  its context.
* `ValidatedStarts`: a configuration that validates is refused by a constructor only for the
  serial syntax or the port syntax, given that the files it names are there; an enabled
  refresh has its URL and an enabled egress generator its applier.
* `FailuresLabelled`: every cause of a failed handshake has a label of its own, except that an
  expired client certificate counts as `wrong_ca`, never as `expired`; other lines of the error log are not counted.

## 3. Runs

Passing runs (distinct states in parentheses):

| Run | Instance | Shows |
|---|---|---|
| `BundleSingle` (0.6M) | poll loop, 3 bundles, forged signatures, 2 faults, 1 crash, lost ETags, fair | files, router and skip state agree between Ticks; the last usable pair survives one failure; no downgrade; `ImplementsService`: the pipeline refines `BundleService`; the bundle the CDN settles on goes live |
| `BundleConcurrent` (6.1M) | SIGHUP goroutine and an admin reload, a feed that also carries a bundle which is neither signed nor loadable, a pushed pair, rollback | the live router is always one that was itself verified, though the staged files may be another Tick's by the time they are read |
| `Orders` (0.9M) | order plane: 2 requests, 3 bundles, 1 fault, fair; audit tail: ring of 2, 2 callers, a client that reconnects, 6 records, fair | audit explains every order, counters behind the trail, no order unrecorded, shutdown ends; ring arithmetic, drop accounting, announced gaps, contiguous reconnects, queues drain |
| `AuditFile` (2.0M) | 3 records, 3 files, 2 seconds, 2 faults, one range request with a cap of 2 lines, fair | no acknowledged record lost or reordered; the writer recovers; the range scan answers with the newest lines, or every readable record of the window |
| `Egress` (174k) | 2 hosts, 2 addresses, 2 overlapping `UpdateHosts`, 2 faults, DNS on another path, fair | no swap forgotten, no partial ruleset, no address of a host that was never live, convergence |
| `Admission` (3.8M) | templates of 4 pieces, paths of 5 characters, 2 brokers, files of 5 lines, version parts up to 2; 3 serials, 2 connections, a request that drops the last admin; 2 uploads and a rollback, 2 faults, a crash; one broker file, 2 documents, 2 saves, 2 publishers, 2 faults | the algorithms agree with their references; unaffected clients never refused, a revoked serial gets no new connection, a lockout ends only with a restart; only signed binaries, rollback target right, active binary survives any failures; broker files whole, a publish without failures leaves a matching pair, the snapshot is what was installed |

`Orders` and `Admission` put components in one instance that share no variable; in a
behaviour one of them moves and the others stay in their initial state. Nothing is lost by
that: no property speaks of two of them, and no fair action of one is enabled in its initial
state, so its fairness asks nothing of the other's behaviours.

Violation runs, each with an entry under `findings` quoting the text it contradicts:

| Run | The text says | The run shows |
|---|---|---|
| `BundleDowngrade` | older bundles are refused | two overlapping Ticks: the gate reads the live version before `LoadAndVerify`, the slower one stores the older bundle last |
| `EgressOverlap` | only the hosts of the bundle may be dialled; `UpdateHosts` is called on every swap for it | two overlapping Ticks: `Store` of one, `Store` and `OnSwap` of the other, `OnSwap` of the first leave the generator with the hosts of a bundle that is not live |
| `EgressHelper` | `HelperApplier` is the production path | it refuses the way the proxy calls it |
| `EgressDns` | the ruleset is refreshed every five minutes and on every swap | where queries pass the generated chain (policy drop, no rule for DNS), every refresh after the first fails: the instance has `DnsExempt = FALSE`, no fault and a resolver that answers |
| `EgressResidue` | exactly the addresses of the enabled hosts | without a flush the addresses of removed hosts stay admitted |
| `AllowlistAtomic` | `Replace` swaps the lists atomically | a serial that moves from the order list to the admin list is in one of them before and after and is refused when `Classify` loads the admin list before its store and the order list after its own |

Four more findings belong to passing runs: the property states what the code does, and a
text of the repository says something else. `LockoutNeedsRestart`: the release README has the
operator add a serial and reload, and a reload leaves the serial tables alone.
`BacklogContiguous`: the comment on `Subscribe` offers the zero time for no backlog, and it
gives the whole ring. `FailuresLabelled`: an expired client certificate is never counted as
`expired`. `DiffIsFaithful`: the header of an empty file is not the unified diff's.

`TypeOK` is the type invariant of each state machine; `BundleSingle` checks it and a theorem
proves it for the pipeline, in the other modules it documents the variables and the
inductive invariants start from it.

**Hypotheses of properties.** Some claims hold only while the code is not driven into a
known gap; the gap is a history variable or a state predicate in the property, and the
property fails without it:

* `BacklogContiguous` assumes `StampOrdered`: `Log` stamps before it takes the lock
  (audit.go:119) and `Subscribe` filters by stamp (audit.go:190), so a record written
  after, but stamped before, the last one seen is not in a reconnecting client's backlog.
* `DiskIsTheLog` assumes `~ reused`: a second rotation in the same second replaces the
  first archive (audit.go:271).
* `EgressConverges` is checked where DNS queries do not pass the generated chain
  (`DnsExempt = TRUE` in `Egress`); `EgressDns` is the other case.
* `PreviousIsPrior` and `ActiveSurvives` assume `~ overlapped`: two overlapping uploads can
  leave no active binary (binupd.go:169), since one promotes what the other staged.
* `OrdersAudited` assumes `~ cut`: when Shutdown's ten seconds end first, the audit writer
  is closed under the running request (main.go:349).
* `NoTornBroker` assumes that two saves of the broker have not overlapped (`clash`): they
  share one `.tmp` path (brokers.go:217), and a rename can publish a file still being written.
  `PairPushed` is about publishes without failures: an install that fails between the two
  files leaves a mixed pair on the box.
* `PairSurvives` is about one failure and no `--rollback-bundle`; a crash inside the two
  promotes leaves a usable pair, but not always in the active slots, and startup reads only
  those.

Other behaviour of the code the models contain, without a property of its own: SIGHUP does
not read a bundle pushed to disk (`HupReceived` starts a CDN poll); after a start the live
bundle is staged once more and refused by the version gate; two overlapping `Replace` calls
can leave the order table of one and the admin table of the other (mtls.go:134). Where a
documented claim fails, a weaker one holds: `OnlyGranted`, a part of `RulesetSound`, is what
remains of the exact ruleset. `Replace` accepts what a start refuses: `LockoutNeedsRestart`
says what follows. An open connection outlives its serial: `ServedWasListed` says what a
revocation does reach. The record after a torn line is on disk (`DiskIsTheLog`) and invisible
to the range scan (`RangeIsComplete`, with `TailIsNewest` the two parts of `RangeAnswers`). Without a `binary` block an upload is answered 400,
not the 501 a comment in config.go speaks of, because main.go always sets `AcceptBinary`;
`BrokerAuthFailures` is rendered and never incremented.

**Bounds.** Three bundles allow an old, a live and a newer one, and a downgrade;
two overlapping Ticks are enough for every race on the shared files because each race is
between one writer and one reader or two writers. Two faults reach a failure during the
recovery from a failure; a crash combines with both. A ring of two wraps and overflows
within four records. `MaxSenders` is 2, since one late poke after a newer store is the case
that matters. `MaxFaults` and `MaxCrashes` only bound the environment: no code
counter is capped.

For the algorithms: two brokers show a clash of ids, four pieces put every brace at either
end of a template and nested in another, and five lines with one line of context give one
hunk, two hunks and hunks that merge. One range request stands for all, because a request
leaves nothing behind and may start at any moment.

**Deadlock.** `Orders` and `Admission` switch the deadlock check off: a process that has
shut down and a picked case have no next step. Elsewhere it is on.

**Fairness.** `BundleUpdater`: a goroutine inside `Tick` goes on (every HTTP call has a 30 s
timeout), the ticker fires, a received poke or signal is handled, a script runs to its end.
Nothing is assumed of the CDN, the operator, faults or crashes. `AuditTail`: the handler
runs, and `select` picks a ready record infinitely often though heartbeats are ready too
(Go's select chooses uniformly). `AuditFile`: SIGHUP keeps coming (logrotate's postrotate).
`Egress`: goroutines run and the ticker fires. `OrderPlane`: only `serve` and the ten-second
timer; no broker has to answer.

## 4. Proofs

Each theorem holds for every value of the constants: any number of bundles, workers,
callers, clients, connections, requests, files and ring slots, and any budget of faults and
crashes. What is assumed of the constants are the named `ASSUME`s of the modules, which TLC
evaluates in every run; the last of them, `LockAssumption` of `AdminUI`, says that no
publisher is called `None`, the value of a lock that nobody holds. The layout is the same
everywhere: an inductive invariant as a conjunction of named parts, a lemma for `Init`, a
lemma for the step with one case per action, and theorems that read the property off.

### The bundle pipeline (`BundleUpdaterProofs`)

* `TypeCorrect`: `Spec => []TypeOK`.
* `RouterAlwaysVerified`: `Spec => []RouterVerified`. `RouterVerified` is not inductive: the
  router comes from a Tick's local `loaded`, so the invariant `VerifiedInv` also says that
  a Tick past `Verify` holds a verified bundle (`LoadedVerified`) and that signature bytes
  are honest wherever they may lie: in a Tick's locals, on disk and on the CDN
  (`HonestTick`, `HonestDisk`, `HonestCdn`: a signature that is some bundle is one of
  `Signed`). With it the number of overlapping Ticks does not matter.
* `SingleTickMonotone`: `OneTick => (Spec => VersionMonotone)`. With one caller the version
  read before `LoadAndVerify` is still the live one at `Store`; `GateInv` states that
  (`PrevIsLive`), that a Tick past the gate holds a newer bundle (`Gated`), and that a
  serving process has a router (`Serving`). `BundleDowngrade` shows that the hypothesis
  `OneTick` is needed.
* `PipelineImplementsService`: `OneTick => (Spec => ImplementsService)`.
  The step from `BundleUpdater` to the abstract service needs more than `GateInv`: every bundle
  in play comes from the feed (`FromFeed`), a stopped process holds no router and no hosts
  (`DownIsEmpty`), and a Tick that has stored and not yet announced holds the live bundle
  (`StoredIsLive`). `ServiceInv` is their conjunction with `VerifiedInv` and `GateInv`.
  `VisibleSteps` lists the actions that change one of the three variables the service sees;
  `StepRefines` maps each to its abstract step and all others to a stutter.
* `SkipsAlwaysLive` and `EgressAlwaysFollows`, under `OneTick`; for the second,
  `EgressOverlap` shows that the hypothesis is needed. `TickInv` adds to `ServiceInv`
  where a Tick's content comes from: the hash it compares with is the remembered one, its
  ETag and the staged file are those of the bundle it fetched (`OwnContent`). Then ETag, hash
  and hosts lag behind the router only between `Store` and the steps behind it (`Remembered`,
  `Announced`).
* `DiskAlwaysMatches` and `PairAlwaysSurvives`, under `PollOnly`: one caller of `Tick`, the poll
  loop or the signal goroutine, and no bundle pushed by `reload-bundle.sh`. Both parts of the
  hypothesis are needed: a stop waits for these two goroutines but not for an admin request,
  whose Tick may end between two renames, and the script writes the active files itself.
  `--rollback-bundle` is included in the first theorem. `DiskInv` says for each step of
  `promote` which of the six files hold the old and the new bundle while nothing has failed
  (`Promoted`, `ExactUp`), and the same for a stopped process whose rollback may have moved
  the bundle only (`ExactDown`). For one failure, `Survives` needs `Exact` in the state before
  it: from each half-moved position that `ExactUp` lists a bundle and its signature can still
  be found (`HalfMoved`, `FailedStep`).

### The audit writer (`AuditTailProofs`, `AuditFileProofs`)

* `RecentAlwaysTail`. `RingInv` gives the content of each slot by its distance from `head`
  (`Slot`); `Advance`, `Back` and `Onward` are the facts about `%` that `Log` and `Recent` use.
* `DropsAlwaysAccounted` and `GapsNeverSilent`. `NoSilentGap` speaks of the last record
  emitted; the invariant must speak of every record still queued. `GapsCounted` bounds what is
  missing before it by what is announced or counted; while the handler waits in `select`, by
  what is announced alone (`GapsAnnounced`), because a drop at that point means that the
  channel is full and nothing follows the gap.
* `BacklogAlwaysContiguous`. `Subscribe`'s loop is a recursive function, which for the prover is
  a `CHOOSE` of a solution of its equation. `KeptUnique` shows by induction on positions
  (`SetInduction`, from the well-foundedness of `<`) that there is only one, and `KeptIsRun`
  gives it: with the stamps in order, the filter by time selects by position. `BacklogInv`
  follows the rest of the backlog while it is emitted (`Rest`) and bounds what a client may
  send as its last record by the log, across disconnects.
* `DiskAlwaysTheLog`. `DiskIsTheLog` is about the files that are still linked; `FileInv` adds that
  reading them in the order of rotation is reading them in the order of creation
  (`ArchivesInOrder`, `PathIsNewest`), that no file newer than the open handle has been written,
  though logrotate may have left the handle behind (`HandleIsLast`), and states the property
  for the records of all files ever created (`NoStranger`, `NoLoss`, `InSequence`).
* `RangeAlwaysAnswers`. A file only grows (`FilesGrow`), so what a scan has read stays where it
  was. `Held` ties every stage of a request to its file: the ring holds the last lines of what
  has been read, its slots in the rotation that `head` and `count` give (`RingHolds`, kept by
  `RingKeeps`); the gathered records are all the hits so far (`Gathered`). `AtLineStart` is the
  part that is easy to miss: between two lines the scan stands behind a whole record, or a
  fragment appended next would continue a line it has already taken. `QueryOnlyReads`
  carries `DiskAlwaysTheLog` over to the system with requests.

### The other components

* `BinaryUpdateProofs`. `AlwaysSigned` holds with overlapping uploads, since only a verified
  binary is ever staged (`VerifiedUploads`). `ActiveAlwaysSurvives` and `AlwaysPrior`: without an
  overlap at most one operation is under way (`Solo`), and `Survival`, `Prior` say step by
  step which slots hold the binary that was active. The first needs no bound on failures.
* `EgressProofs`. `SwapNeverLost` needs `Outdated`: a Tick that works from hosts which have
  since changed is never the last one, a poke is pending or on its way. `RulesetAlwaysSound`
  needs what a Tick has resolved so far (`Resolved`) and that every answer in hand was granted
  (`GrantedAnswers`).
* `AdmissionProofs`, clients. `ServedAlwaysListed`: a handshake whose serial is listed now remembers it
  (`HandshakesRemember`). `KeptAlwaysServed`: at any moment each table, and whatever will
  become one, belongs to the start configuration or a request (`FromPlay`), and a handshake
  past the admin table has met one without its serial (`PastAdmin`).
  `LockoutOnlyRestart` is an action property.
* `OrderPlaneProofs`. `TrailAlwaysExplains`, `OrdersAlwaysAudited`, `MetricsAlwaysBehind`: where a
  request is determines what it has sent, recorded and counted (`Positions`,
  `TrailFaithful`, `TrailComplete`, `Drained`); a counter is the number of finished requests
  with its outcome (`Counted`), whose records are in the trail.
* `AdminUIProofs`. `BrokersNeverTorn`: without an overlap a save is alone with its `.tmp` file
  (`Alone`). `PairAlwaysPushed`, `SnapshotAlwaysLive`: one publisher holds the lock
  (`Exclusive`), carries one bundle from build to install (`Carrying`), and the box has half a
  pair only while one ssh installs the two files (`Balanced`).

### The decisions that keep no state (`AdmissionProofs`)

The run `Admission` compares each of them with a reference on bounded inputs. The theorems
here are stated twice: once for every input, and once as the run's property of `CaseSpec`,
which follows. `PiecesAssumption` says that a piece of a template is a character or a
placeholder, and that the bundles' templates are not given with a brace as a piece of its
own, where the pieces would not be what the text means; `VersionAssumption`, that the days
are days of a month and the release numbers decimal numerals, sequences of digits of any
length without a leading zero.

* `EveryConfigurationStarts` frees every field of a configuration at once (TLC varies two);
  `AlwaysStarts` draws `ValidatedStarts` from it.
* `StringsAreOrdered`: Go's `<` on strings is a strict total order on sequences of bytes of any
  length, which is what lets `BundleUpdater` replace a version by its rank; the least
  differing position comes from the well-foundedness of `<` (`LeastIs`). `GatesAlwaysOrder` is
  `GatesOrderVersions` for versions of any size: `DatedIs` and `TaggedIs` give the bytes of a
  version, `DigitOrdersTags` compares two numerals at their first differing digit,
  `VersionsFollow` puts them together; `SemverIs` reads `compareSemver` as a
  lexicographic order and `ValueDecides` as a number in base `MaxPart + 1`.
* `EveryTemplateMeansItsInstances` and `TemplatesAlwaysMean` (`TemplatesMeanInstances`), for
  templates and paths of any length. The scans of `validatePath` and `compilePathTemplate`,
  the match, the spelling of a template and the reference `Instance` are recursive functions:
  `Recursion` shows that such a definition has a solution if it only looks below its own rank,
  and `ValidateRuns`, `CompileRuns`, `MatchRuns`, `FlatRuns`, `EndRuns` give each of them its
  equation. Then the scan accepts from a character on exactly what is well-formed from there
  on (`Fine`, `ValidIsFine`), which works although a scan jumps over a placeholder because two
  pairs of braces never overlap (`PairsApart`); a template compiles to one symbol per piece
  (`CompiledIs`, along the positions that `Laid` gives the pieces); and from the k-th symbol on
  the expression matches what the k-th piece and those after it can be replaced by
  (`PieceTaken`, `InstancesMatch`).
* `EveryBundleAllowsWhatItLists` and `LookupAlwaysTheBundle` (`LookupIsTheBundle`), for bundles
  of any size: `Bundle.validate` makes ids unique, so that the map of `buildRouter` keeps every
  profile (`RouterIs`), and every path in it is a template of the kind above (`ValidIsPlain`).
* `EveryFailureLabelled` and `FailuresAlwaysLabelled` (`FailuresLabelled`): the table of labels
  is finite; a line that is no handshake error is not counted whatever else it holds.

### Only model-checked

* The liveness properties `LatestWins`, `TailCatchesUp`, `WriterHeals`, `EgressConverges` and
  `ShutdownEnds`: TLAPS does not treat fairness.
* `DiffIsFaithful`: that the walk through `dp` keeps a longest common subsequence, and that the
  hunks patch one file into the other, are inductions over pairs of files through a table,
  `SelectSeq`, `SetToSortSeq` and `FoldRight`. These take operators as arguments and the library
  states nothing about them that the provers could cite; a proof has not been attempted.
* The pipeline properties outside the hypotheses `OneTick` and `PollOnly`; the violation runs
  and the notes in section 3 say what happens there.

## 5. Not modelled

Cryptography, TLS, regular expressions and YAML and JSON parsing are the libraries'. Header
stripping (handler.go:248) is a fixed list of deletions. `status`, `profiles`, `metrics` and
`logStat` format one read. The admin UI's `list`, `get`, proxy client and audit relay forward
bytes; its dry build for the diff writes to a temporary directory of its own. The frontend,
the other command line tools and the install scripts run by hand keep no state the running
system shares. Unsynced writes after a power loss are outside the crash model.

## 6. Plan

Done: the modules, runs and proofs above. Next, in this order:

1. A composition of `AdminUI` and `BundleUpdater` over the shared files on the box.

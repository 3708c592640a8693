------------------------------- MODULE AdminUI -------------------------------
(***************************************************************************)
(* The admin UI server: brokerStore (create, put, delete, persist) and     *)
(* publish, which runs build-bundle and reload-bundle.sh and keeps a       *)
(* snapshot for later diffs.                                               *)
(*                                                                         *)
(* Requests run concurrently.  Two saves of one broker share its .tmp      *)
(* file: a rename or a remove takes the file away under the other's open   *)
(* descriptor, which is therefore a place (the .tmp path, the broker's     *)
(* path, or a file without a name), not a path.  Publish is serialised by  *)
(* a TryLock.  A bundle is what was read from the broker files; its        *)
(* signature is named by it.                                               *)
(***************************************************************************)
EXTENDS Naturals

CONSTANTS
  Names,        \* broker names
  Contents,     \* broker documents that pass the schema
  Savers,       \* create and put requests, each made once
  Publishers,   \* concurrent publish requests
  Empty, Mixed, None,   \* a truncated file, interleaved writes, no file
  MaxFaults     \* bound: calls and commands that fail

ASSUME DocumentAssumption ==
  {Empty, Mixed, None} \cap Contents = {} /\ Empty # Mixed /\ None \notin {Empty, Mixed}
ASSUME LockAssumption == None \notin Publishers
ASSUME BoundAssumption == MaxFaults \in Nat

VARIABLES
  file, tmp,   \* per broker: the content of <name>.yaml and <name>.yaml.tmp
  save,        \* per save request: position, broker, document, its descriptor
  lock,        \* publishHandler.mu: the request that holds it, or None
  pub,         \* per publish request: position, brokers left to read, bundle
  out,         \* BundleOut and SigOut
  box,         \* the uploads in /tmp on the box
  active,      \* the pair in /etc/tesseract-proxy/profiles
  snap,        \* last-published.bundle.yaml
  clash,       \* history: brokers that two saves have worked on at once
  faults

store == <<file, tmp, save, clash>>
deploy == <<lock, pub, out, box, active, snap>>
vars == <<store, deploy, faults>>

Files == Contents \cup {Empty, Mixed, None}
Bundles == [Names -> Files]
Pair(b, s) == [bundle |-> b, sig |-> s]
NoPair == Pair(None, None)
Pairs == [bundle : Bundles \cup {None}, sig : Bundles \cup {None}]
NoSave == [st |-> "idle", name |-> None, obj |-> None, fd |-> None]
Answered == [NoSave EXCEPT !.st = "done"]
NoPub == [st |-> "idle", todo |-> {}, bundle |-> [n \in Names |-> None], cancelled |-> FALSE]

\* The type invariant.
TypeOK ==
  /\ file \in [Names -> Files] /\ tmp \in [Names -> Files] /\ clash \subseteq Names
  /\ save \in [Savers -> {NoSave, Answered} \cup
       [st : {"create"}, name : Names, obj : Contents, fd : {None}] \cup
       [st : {"encode", "rename"}, name : Names, obj : Contents, fd : {"tmp", "file", "gone"}]]
  /\ pub \in [Publishers -> [st : {"idle", "list", "read", "writeBundle", "writeSig", "verify",
                                   "scpBundle", "scpSig", "installBundle", "installSig",
                                   "snapshot"},
                             todo : SUBSET Names, bundle : Bundles, cancelled : BOOLEAN]]
  /\ lock \in Publishers \cup {None} /\ {out, box, active} \subseteq Pairs
  /\ snap \in Bundles \cup {None} /\ faults \in 0..MaxFaults

Fault == faults < MaxFaults /\ faults' = faults + 1
NoFault == UNCHANGED faults

-----------------------------------------------------------------------------
(* Saving a broker *)

Saving(n) == {s \in Savers : save[s].name = n}

\* The request's body is valid and the stat decides it may go on.
Begin(s, n, c) ==
  /\ save[s] = NoSave
  /\ save' = [save EXCEPT ![s] = [st |-> "create", name |-> n, obj |-> c, fd |-> None]]
  /\ clash' = IF Saving(n) = {} THEN clash ELSE clash \cup {n}
  /\ UNCHANGED <<file, tmp, deploy, faults>>
Put(s, n, c) == file[n] # None /\ Begin(s, n, c)
Create(s, n, c) == file[n] = None /\ Begin(s, n, c)

\* The descriptors of the other requests follow the file when moved maps the
\* place it had to the place it has now.
Follow(s, moved) ==
  [r \in Savers |->
     IF r # s /\ save[r].name = save[s].name /\ save[r].fd \in DOMAIN moved
     THEN [save[r] EXCEPT !.fd = moved[save[r].fd]] ELSE save[r]]

\* persist: os.Create truncates the .tmp file, whoever made it.
CreateTmp(s) ==
  /\ save[s].st = "create" /\ UNCHANGED <<file, clash, deploy>>
  /\ \/ /\ tmp' = [tmp EXCEPT ![save[s].name] = Empty] /\ NoFault
        /\ save' = [save EXCEPT ![s].st = "encode", ![s].fd = "tmp"]
     \/ Fault /\ save' = [save EXCEPT ![s] = Answered] /\ UNCHANGED tmp

\* A document written from the start of a file that another may have written:
\* all of it if it is the longer one.
Overlay(old, new) == IF old \in {Empty, new} THEN {new} ELSE {new, Mixed}

\* Mutant: the document is written to the broker's own file.
EncodeInPlace(s) ==
  LET n == save[s].name IN
  /\ save[s].st = "encode" /\ UNCHANGED <<clash, deploy, tmp>>
  /\ \/ file' = [file EXCEPT ![n] = save[s].obj] /\ NoFault
     \/ file' = [file EXCEPT ![n] = Empty] /\ Fault
  /\ save' = [save EXCEPT ![s] = Answered]

\* The document is encoded to the descriptor; an error removes the .tmp path.
Encode(s) ==
  LET n == save[s].name IN
  /\ save[s].st = "encode" /\ UNCHANGED <<clash, deploy>>
  /\ \/ /\ save' = [save EXCEPT ![s].st = "rename"] /\ NoFault
        /\ \/ /\ save[s].fd = "tmp" /\ UNCHANGED file
              /\ \E d \in Overlay(tmp[n], save[s].obj) : tmp' = [tmp EXCEPT ![n] = d]
           \/ /\ save[s].fd = "file" /\ UNCHANGED tmp
              /\ \E d \in Overlay(file[n], save[s].obj) : file' = [file EXCEPT ![n] = d]
           \/ save[s].fd = "gone" /\ UNCHANGED <<file, tmp>>
     \/ /\ Fault /\ tmp' = [tmp EXCEPT ![n] = None] /\ UNCHANGED file
        /\ save' = [Follow(s, [tmp |-> "gone"]) EXCEPT ![s] = Answered]

\* os.Rename(tmp, dst); without a .tmp file, or on a fault, the answer is 500.
RenameTmp(s) ==
  LET n == save[s].name IN
  /\ save[s].st = "rename" /\ UNCHANGED <<clash, deploy>>
  /\ \/ /\ tmp[n] # None /\ NoFault
        /\ file' = [file EXCEPT ![n] = tmp[n]] /\ tmp' = [tmp EXCEPT ![n] = None]
        /\ save' = [Follow(s, [tmp |-> "file", file |-> "gone"]) EXCEPT ![s] = Answered]
     \/ /\ tmp[n] = None /\ NoFault /\ save' = [save EXCEPT ![s] = Answered]
        /\ UNCHANGED <<file, tmp>>
     \/ Fault /\ save' = [save EXCEPT ![s] = Answered] /\ UNCHANGED <<file, tmp>>

\* os.Remove of the broker's file.
Delete(n) ==
  /\ file[n] # None /\ file' = [file EXCEPT ![n] = None]
  /\ save' = [r \in Savers |-> IF save[r].name = n /\ save[r].fd = "file"
                               THEN [save[r] EXCEPT !.fd = "gone"] ELSE save[r]]
  /\ UNCHANGED <<tmp, clash, deploy, faults>>

Save(s) ==
  \/ \E n \in Names, c \in Contents : Put(s, n, c) \/ Create(s, n, c)
  \/ CreateTmp(s) \/ Encode(s) \/ RenameTmp(s)

-----------------------------------------------------------------------------
(* Publishing *)

At(p, st) == pub[p].st = st /\ UNCHANGED store
Goto(p, st) == pub' = [pub EXCEPT ![p].st = st] /\ UNCHANGED lock
\* The handler returns and its deferred Unlock runs.
Return(p) == pub' = [pub EXCEPT ![p] = NoPub] /\ lock' = None
\* A grandchild (build-bundle, openssl, scp, ssh) ends.  When the client is
\* gone, so is the direct child (go run, bash), which would have gone on; the
\* handler returns only here, for streamCmd reads the pipes to their end and
\* the grandchild held them open.
EndOfCommand(p, st) == IF pub[p].cancelled THEN Return(p) ELSE Goto(p, st)
Fails(p) == Fault /\ Return(p)

\* Mutant: a mutex nobody else takes.
TryLockAlways(p) ==
  /\ At(p, "idle") /\ lock' = p /\ pub' = [pub EXCEPT ![p].st = "list"]
  /\ UNCHANGED <<out, box, active, snap, faults>>

\* confirm phrase and deploy configuration are in order; otherwise, and when
\* the lock is taken (409), nothing changes.
TryLock(p) ==
  /\ At(p, "idle") /\ lock = None /\ lock' = p /\ pub' = [pub EXCEPT ![p].st = "list"]
  /\ UNCHANGED <<out, box, active, snap, faults>>

\* The client goes away: r.Context() is done.
Cancel(p) ==
  /\ pub[p].st \notin {"idle", "snapshot"} /\ ~ pub[p].cancelled
  /\ pub' = [pub EXCEPT ![p].cancelled = TRUE]
  /\ UNCHANGED <<store, lock, out, box, active, snap, faults>>

\* The direct child is killed, or not started, before its next command.
GiveUp(p) ==
  /\ pub[p].st \in {"list", "verify", "scpBundle", "installBundle"} /\ pub[p].cancelled
  /\ Return(p) /\ UNCHANGED <<store, out, box, active, snap, faults>>

\* build-bundle: loadBrokers walks the directory ...
ListBrokers(p) ==
  /\ At(p, "list") /\ UNCHANGED <<out, box, active, snap>>
  /\ \/ /\ pub' = [pub EXCEPT ![p].st = "read", ![p].todo = {n \in Names : file[n] # None}]
        /\ UNCHANGED lock /\ NoFault
     \/ Fails(p)

\* ... and reads the files one after the other; one that is gone, or that does
\* not parse, ends the build.
ReadBroker(p) ==
  /\ At(p, "read") /\ UNCHANGED <<out, box, active, snap>> /\ NoFault
  /\ \/ pub[p].todo = {} /\ Goto(p, "writeBundle")
     \/ \E n \in pub[p].todo :
          \/ file[n] # None /\ UNCHANGED lock
             /\ pub' = [pub EXCEPT ![p].todo = @ \ {n}, ![p].bundle[n] = file[n]]
          \/ file[n] \in {None, Mixed} /\ Return(p)

\* os.WriteFile of the bundle; a failed write leaves no usable one.
WriteBundle(p) ==
  /\ At(p, "writeBundle") /\ UNCHANGED <<box, active, snap>>
  /\ \/ out' = [out EXCEPT !.bundle = pub[p].bundle] /\ Goto(p, "writeSig") /\ NoFault
     \/ out' = [out EXCEPT !.bundle = None] /\ Fails(p)

WriteSig(p) ==
  /\ At(p, "writeSig") /\ UNCHANGED <<box, active, snap>>
  /\ \/ out' = [out EXCEPT !.sig = pub[p].bundle] /\ EndOfCommand(p, "verify") /\ NoFault
     \/ out' \in {out, [out EXCEPT !.sig = None]} /\ Fails(p)

\* reload-bundle.sh: the pair is verified locally ...
VerifyOut(p) ==
  /\ At(p, "verify") /\ UNCHANGED <<out, box, active, snap>>
  /\ \/ out.bundle = out.sig /\ EndOfCommand(p, "scpBundle") /\ NoFault
     \/ out.bundle # out.sig /\ Return(p) /\ NoFault
     \/ Fails(p)

\* ... uploaded by one scp ...
ScpBundle(p) ==
  /\ At(p, "scpBundle") /\ UNCHANGED <<out, active, snap>>
  /\ \/ box' = [box EXCEPT !.bundle = out.bundle] /\ Goto(p, "scpSig") /\ NoFault
     \/ Fails(p) /\ box' \in {box, [box EXCEPT !.bundle = None]}
ScpSig(p) ==
  /\ At(p, "scpSig") /\ UNCHANGED <<out, active, snap>>
  /\ \/ box' = [box EXCEPT !.sig = out.sig] /\ EndOfCommand(p, "installBundle") /\ NoFault
     \/ Fails(p) /\ box' \in {box, [box EXCEPT !.sig = None]}

\* ... and installed by one ssh, which then removes the uploads and reloads.
InstallBundle(p) ==
  /\ At(p, "installBundle") /\ UNCHANGED <<out, box, snap>>
  /\ \/ active' = [active EXCEPT !.bundle = box.bundle] /\ Goto(p, "installSig") /\ NoFault
     \/ Fails(p) /\ active' \in {active, [active EXCEPT !.bundle = None]}
InstallSig(p) ==
  /\ At(p, "installSig") /\ UNCHANGED <<out, snap>>
  /\ \/ /\ active' = [active EXCEPT !.sig = box.sig] /\ box' = NoPair
        /\ \/ EndOfCommand(p, "snapshot") /\ NoFault
           \/ Fails(p)
     \/ Fails(p) /\ active' \in {active, [active EXCEPT !.sig = None]} /\ UNCHANGED box

\* Mutant: the snapshot is taken after the build.
SnapshotAlways(p) ==
  /\ At(p, "verify") /\ UNCHANGED <<out, box, active>> /\ Return(p)
  /\ snap' = out.bundle /\ NoFault

\* writeSnapshot copies BundleOut; its failure is a warning.
Snapshot(p) ==
  /\ At(p, "snapshot") /\ UNCHANGED <<out, box, active>> /\ Return(p)
  /\ \/ snap' = out.bundle /\ NoFault
     \/ Fault /\ UNCHANGED snap

Publish(p) ==
  \/ TryLock(p) \/ Cancel(p) \/ GiveUp(p)
  \/ ListBrokers(p) \/ ReadBroker(p) \/ WriteBundle(p) \/ WriteSig(p)
  \/ VerifyOut(p) \/ ScpBundle(p) \/ ScpSig(p) \/ InstallBundle(p) \/ InstallSig(p)
  \/ Snapshot(p)

-----------------------------------------------------------------------------
Init ==
  /\ file \in [Names -> Contents \cup {None}] /\ tmp = [n \in Names |-> None]
  /\ save = [s \in Savers |-> NoSave] /\ clash = {}
  /\ lock = None /\ pub = [p \in Publishers |-> NoPub]
  /\ out = NoPair /\ box = NoPair /\ active = NoPair /\ snap = None
  /\ faults = 0

Next ==
  \/ \E s \in Savers : Save(s)
  \/ \E n \in Names : Delete(n)
  \/ \E p \in Publishers : Publish(p)

Spec == Init /\ [][Next]_vars

-----------------------------------------------------------------------------
(* Properties *)

\* "persist writes YAML atomically (tmp + rename)": whatever fails, a broker's
\* file is a whole document, unless two saves of that broker have overlapped on
\* its one .tmp file.
NoTornBroker == \A n \in Names \ clash : file[n] \in Contents \cup {None}

\* "Single-flight: one publish at a time.  Prevents racing reload-bundle
\* invocations clobbering each other": with nothing failing, a publish, cut off
\* by its client or not, leaves a bundle with its own signature on the box.
PairPushed == (lock = None /\ faults = 0) => active.bundle = active.sig

\* The snapshot that later diffs are made against is, when it is taken, the
\* bundle that the script has installed on the box with its own signature,
\* whatever failed before and whichever clients went away.
SnapshotIsLive == [][snap' # snap => active = Pair(snap', snap')]_vars
=============================================================================

---------------------------- MODULE AdminUIProofs ----------------------------
(***************************************************************************)
(* Proofs about module AdminUI: broker files are whole documents, and a    *)
(* publish leaves, and snapshots, a bundle with its own signature.         *)
(***************************************************************************)
EXTENDS AdminUI, TLAPS

-----------------------------------------------------------------------------
(* The broker store *)

SaveType == [st : {"idle", "create", "encode", "rename", "done"}, name : Names \cup {None},
             obj : Contents \cup {None}, fd : {"tmp", "file", "gone", None}]

Active(s) == save[s].st \in {"create", "encode", "rename"}

StoreType ==
  /\ file \in [Names -> Files] /\ tmp \in [Names -> Files] /\ clash \subseteq Names
  /\ save \in [Savers -> SaveType]
  /\ \A s \in Savers : Active(s) => save[s].name \in Names /\ save[s].obj \in Contents

\* A broker that no two saves have shared has one save at work, whose
\* descriptor is the .tmp file's, and that file is what the save made it.
Alone(n) ==
  /\ \A s, r \in Savers : (Active(s) /\ Active(r) /\ save[s].name = n /\ save[r].name = n) => s = r
  /\ \A s \in Savers : save[s].name = n =>
       /\ save[s].st = "encode" => save[s].fd = "tmp" /\ tmp[n] = Empty
       /\ save[s].st = "rename" => save[s].fd = "tmp" /\ tmp[n] \in Contents

StoreInv == StoreType /\ NoTornBroker /\ \A n \in Names \ clash : Alone(n)

LEMMA StoreInit == Init => StoreInv
<1> SUFFICES ASSUME Init PROVE StoreInv
  OBVIOUS
<1>1. \A s \in Savers : save[s] = NoSave /\ save[s].st = "idle"
  BY DEF Init, NoSave
<1>2. StoreType
  <2>1. NoSave \in SaveType
    BY DEF NoSave, SaveType
  <2>2. save \in [Savers -> SaveType]
    BY <2>1 DEF Init
  <2>3. file \in [Names -> Files] /\ tmp \in [Names -> Files] /\ clash \subseteq Names
    BY DEF Init, Files
  <2> QED
    BY <1>1, <2>2, <2>3 DEF StoreType, Active
<1>3. NoTornBroker
  BY DEF Init, NoTornBroker
<1> QED
  BY <1>1, <1>2, <1>3 DEF StoreInv, Alone, Active

LEMMA AnsweredSave == Answered \in SaveType /\ Answered.st = "done"
BY DEF Answered, NoSave, SaveType

\* The type after a step: the work of a save is that of the step before.
LEMMA StoreTypeKeeps ==
  ASSUME StoreType, file' \in [Names -> Files], tmp' \in [Names -> Files], clash' = clash,
         save' \in [Savers -> SaveType],
         \A r \in Savers : Active(r)' =>
           Active(r) /\ save'[r].name = save[r].name /\ save'[r].obj = save[r].obj
  PROVE  StoreType'
BY DEF StoreType

\* The request is accepted.
LEMMA BeginKeeps ==
  ASSUME StoreInv, NEW s \in Savers, NEW n \in Names, NEW c \in Contents, Begin(s, n, c)
  PROVE  StoreInv'
<1> DEFINE w == [st |-> "create", name |-> n, obj |-> c, fd |-> None]
<1>0. StoreType
  BY DEF StoreInv
<1>1. w \in SaveType /\ w.st = "create" /\ w.name = n /\ w.obj = c
  BY DEF SaveType
<1> HIDE DEF w
<1>2. \A r \in Savers : save'[r] = IF r = s THEN w ELSE save[r]
  BY <1>0 DEF Begin, StoreType, w
<1>3. /\ save' \in [Savers -> SaveType] /\ UNCHANGED <<file, tmp>>
      /\ clash' = IF Saving(n) = {} THEN clash ELSE clash \cup {n}
  BY <1>0, <1>1 DEF Begin, StoreType, w
<1>4. StoreType' /\ clash \subseteq clash'
  BY <1>0, <1>1, <1>2, <1>3 DEF StoreType, Active
<1>5. NoTornBroker'
  BY <1>3, <1>4 DEF StoreInv, NoTornBroker
<1>6. ASSUME NEW m \in Names \ clash' PROVE Alone(m)'
  <2>1. Alone(m)
    BY <1>4 DEF StoreInv
  <2>2. CASE m # n
    BY <1>1, <1>2, <1>3, <2>1, <2>2 DEF Alone, Active
  <2>3. CASE m = n
    <3>1. \A r \in Savers : save[r].name # n
      BY <1>3, <1>6, <2>3 DEF Saving
    <3> QED
      BY <1>1, <1>2, <1>3, <2>3, <3>1 DEF Alone, Active
  <2> QED
    BY <2>2, <2>3
<1> QED
  BY <1>4, <1>5, <1>6 DEF StoreInv

\* A step of save s on its broker keeps the invariant if it leaves the other
\* brokers and the positions of the other saves alone, and its own files right
\* when it is alone.
LEMMA SaveStepKeeps ==
  ASSUME StoreInv, StoreType', clash' = clash, NEW s \in Savers, Active(s),
         NEW n \in Names, n = save[s].name,
         \A m \in Names \ {n} : file'[m] = file[m] /\ tmp'[m] = tmp[m],
         \A r \in Savers \ {s} :
           /\ save'[r].st = save[r].st /\ save'[r].name = save[r].name
           /\ save[r].name # n => save'[r] = save[r],
         n \notin clash => file'[n] \in Contents \cup {None},
         save'[s].st # "done" =>
           /\ save'[s].name = n
           /\ n \notin clash =>
                /\ save'[s].st = "encode" => save'[s].fd = "tmp" /\ tmp'[n] = Empty
                /\ save'[s].st = "rename" => save'[s].fd = "tmp" /\ tmp'[n] \in Contents
  PROVE  StoreInv'
<1>1. NoTornBroker'
  BY DEF StoreInv, NoTornBroker
<1>2. ASSUME NEW m \in Names \ clash' PROVE Alone(m)'
  <2>1. Alone(m) /\ m \in Names \ clash
    BY DEF StoreInv
  <2>2. CASE m # n
    <3>1. \A r \in Savers : save'[r].name = m /\ Active(r)' =>
            r # s /\ save'[r] = save[r] /\ save[r].name = m /\ Active(r)
      BY <2>2 DEF Active
    <3>2. \A r \in Savers : (save'[r].name = m /\ save'[r].st \in {"encode", "rename"}) =>
            Active(r)'
      BY DEF Active
    <3> QED
      BY <2>1, <2>2, <3>1, <3>2 DEF Alone
  <2>3. CASE m = n
    <3>1. \A r \in Savers \ {s} : save[r].name = n => ~ Active(r)
      BY <2>1, <2>3 DEF Alone
    <3>2. \A r \in Savers \ {s} : save'[r].name = n => ~ Active(r)'
      BY <3>1 DEF Active
    <3>3. \A r \in Savers \ {s} : save'[r].name = n => save'[r].st \notin {"encode", "rename"}
      BY <3>2 DEF Active
    <3> QED
      BY <2>1, <2>3, <3>2, <3>3 DEF Alone
  <2> QED
    BY <2>2, <2>3
<1> QED
  BY <1>1, <1>2 DEF StoreInv

\* Only save s itself changes.
LEMMA CreateTmpKeeps ==
  ASSUME StoreInv, NEW s \in Savers, CreateTmp(s) PROVE StoreInv'
<1> DEFINE n == save[s].name
           w == [save[s] EXCEPT !.st = "encode", !.fd = "tmp"]
<1>0. StoreType /\ Active(s) /\ file' = file /\ clash' = clash /\ save[s].st = "create"
  BY DEF StoreInv, CreateTmp, Active
<1>1. save[s] \in SaveType /\ n \in Names /\ save[s].obj \in Contents
  BY <1>0 DEF StoreType
<1>2. w \in SaveType /\ w.st = "encode" /\ w.name = n /\ w.fd = "tmp" /\ w.obj = save[s].obj
  BY <1>1 DEF SaveType
<1>3. CASE tmp' = [tmp EXCEPT ![n] = Empty] /\ save' = [save EXCEPT ![s] = w]
  <2>1. /\ \A r \in Savers : save'[r] = IF r = s THEN w ELSE save[r]
        /\ \A m \in Names : tmp'[m] = IF m = n THEN Empty ELSE tmp[m]
    BY <1>0, <1>3 DEF StoreType
  <2>2. StoreType'
    <3>1. save' \in [Savers -> SaveType] /\ tmp' \in [Names -> Files] /\ file' \in [Names -> Files]
      BY <1>0, <1>2, <1>3 DEF StoreType, Files
    <3> QED
      BY <1>0, <1>2, <2>1, <3>1, StoreTypeKeeps DEF Active
  <2> HIDE DEF w, n
  <2>3. n \notin clash => file[n] \in Contents \cup {None}
    BY <1>1 DEF StoreInv, NoTornBroker
  <2> QED
    BY <1>0, <1>1, <1>2, <2>1, <2>2, <2>3, SaveStepKeeps DEF n
<1>4. CASE tmp' = tmp /\ save' = [save EXCEPT ![s] = Answered]
  <2>1. \A r \in Savers : save'[r] = IF r = s THEN Answered ELSE save[r]
    BY <1>0, <1>4 DEF StoreType
  <2>2. StoreType'
    <3>1. save' \in [Savers -> SaveType]
      BY <1>0, <1>4, AnsweredSave DEF StoreType
    <3> QED
      BY <1>0, <1>4, <2>1, <3>1, AnsweredSave, StoreTypeKeeps DEF Active, StoreType
  <2> HIDE DEF n
  <2>3. n \notin clash => file[n] \in Contents \cup {None}
    BY <1>1 DEF StoreInv, NoTornBroker
  <2> QED
    BY <1>0, <1>1, <1>4, <2>1, <2>2, <2>3, AnsweredSave, SaveStepKeeps DEF n
<1>5. CreateTmp(s) => \/ tmp' = [tmp EXCEPT ![n] = Empty] /\ save' = [save EXCEPT ![s] = w]
                      \/ tmp' = tmp /\ save' = [save EXCEPT ![s] = Answered]
  BY <1>0 DEF CreateTmp, StoreType
<1> QED
  BY <1>3, <1>4, <1>5

\* When the path of s is moved or removed, the descriptors of the other saves of
\* that broker follow the file, and nothing else of them changes.
LEMMA FollowOthers ==
  ASSUME StoreType, NEW s \in Savers,
         NEW moved \in {[tmp |-> "gone"], [tmp |-> "file", file |-> "gone"]},
         save' = [Follow(s, moved) EXCEPT ![s] = Answered]
  PROVE  /\ save' \in [Savers -> SaveType] /\ save'[s] = Answered
         /\ \A r \in Savers \ {s} :
              /\ save'[r].st = save[r].st /\ save'[r].name = save[r].name
              /\ save'[r].obj = save[r].obj
              /\ save[r].name # save[s].name => save'[r] = save[r]
<1>1. save'[s] = Answered
  BY DEF Follow
<1>2. ASSUME NEW r \in Savers, r # s
      PROVE  /\ save'[r] \in SaveType
             /\ save'[r].st = save[r].st /\ save'[r].name = save[r].name
             /\ save'[r].obj = save[r].obj
             /\ save[r].name # save[s].name => save'[r] = save[r]
  <2>1. save'[r] = IF save[r].name = save[s].name /\ save[r].fd \in DOMAIN moved
                   THEN [save[r] EXCEPT !.fd = moved[save[r].fd]] ELSE save[r]
    BY <1>2 DEF Follow
  <2>2. save[r] \in SaveType
    BY DEF StoreType
  <2>3. CASE save[r].name = save[s].name /\ save[r].fd \in DOMAIN moved
    <3>1. moved[save[r].fd] \in {"gone", "file"}
      BY <2>3
    <3> QED
      BY <2>1, <2>2, <2>3, <3>1 DEF SaveType
  <2>4. CASE ~ (save[r].name = save[s].name /\ save[r].fd \in DOMAIN moved)
    BY <2>1, <2>2, <2>4
  <2> QED
    BY <2>3, <2>4
<1>3. save' \in [Savers -> SaveType]
  <2>1. save' = [r \in Savers |-> save'[r]]
    BY DEF Follow
  <2>2. \A r \in Savers : save'[r] \in SaveType
    BY <1>1, <1>2, AnsweredSave
  <2> QED
    BY <2>1, <2>2
<1> QED
  BY <1>1, <1>2, <1>3

LEMMA EncodeKeeps ==
  ASSUME StoreInv, NEW s \in Savers, Encode(s) PROVE StoreInv'
<1> DEFINE n == save[s].name
           w == [save[s] EXCEPT !.st = "rename"]
<1>0. StoreType /\ Active(s) /\ clash' = clash /\ save[s].st = "encode"
  BY DEF StoreInv, Encode, Active
<1>1. save[s] \in SaveType /\ n \in Names /\ save[s].obj \in Contents
  BY <1>0 DEF StoreType
<1>2. w \in SaveType /\ w.st = "rename" /\ w.name = n /\ w.fd = save[s].fd /\ w.obj = save[s].obj
  BY <1>1 DEF SaveType
<1>3. n \notin clash => /\ file[n] \in Contents \cup {None}
                       /\ save[s].fd = "tmp" /\ tmp[n] = Empty
  BY <1>0, <1>1 DEF StoreInv, NoTornBroker, Alone
<1>4. CASE save' = [save EXCEPT ![s] = w]
           /\ \/ /\ save[s].fd = "tmp" /\ UNCHANGED file
                 /\ \E d \in Overlay(tmp[n], save[s].obj) : tmp' = [tmp EXCEPT ![n] = d]
              \/ /\ save[s].fd = "file" /\ UNCHANGED tmp
                 /\ \E d \in Overlay(file[n], save[s].obj) : file' = [file EXCEPT ![n] = d]
              \/ save[s].fd = "gone" /\ UNCHANGED <<file, tmp>>
  <2>1. \A r \in Savers : save'[r] = IF r = s THEN w ELSE save[r]
    BY <1>0, <1>4 DEF StoreType
  <2>2. \A old : Overlay(old, save[s].obj) \subseteq Files
    BY <1>1 DEF Overlay, Files
  <2>3. /\ save' \in [Savers -> SaveType] /\ tmp' \in [Names -> Files]
        /\ file' \in [Names -> Files]
    BY <1>0, <1>2, <1>4, <2>2 DEF StoreType
  <2>4. StoreType'
    BY <1>0, <1>2, <2>1, <2>3, StoreTypeKeeps DEF Active
  <2>5. \A m \in Names \ {n} : file'[m] = file[m] /\ tmp'[m] = tmp[m]
    BY <1>0, <1>4 DEF StoreType
  <2>6. n \notin clash => tmp'[n] \in Contents /\ file'[n] = file[n]
    <3> SUFFICES ASSUME n \notin clash PROVE tmp'[n] \in Contents /\ file'[n] = file[n]
      OBVIOUS
    <3>1. Overlay(tmp[n], save[s].obj) = {save[s].obj}
      BY <1>3 DEF Overlay
    <3> QED
      BY <1>0, <1>1, <1>3, <1>4, <3>1 DEF StoreType
  <2> HIDE DEF w, n
  <2> QED
    BY <1>0, <1>1, <1>2, <1>3, <2>1, <2>4, <2>5, <2>6, SaveStepKeeps DEF n
<1>5. CASE /\ tmp' = [tmp EXCEPT ![n] = None] /\ UNCHANGED file
           /\ save' = [Follow(s, [tmp |-> "gone"]) EXCEPT ![s] = Answered]
  <2>1. /\ save' \in [Savers -> SaveType] /\ save'[s] = Answered
        /\ \A r \in Savers \ {s} :
             /\ save'[r].st = save[r].st /\ save'[r].name = save[r].name
             /\ save'[r].obj = save[r].obj
             /\ save[r].name # save[s].name => save'[r] = save[r]
    BY <1>0, <1>5, FollowOthers
  <2>2. StoreType'
    <3>1. tmp' \in [Names -> Files] /\ file' \in [Names -> Files]
      BY <1>0, <1>5 DEF StoreType, Files
    <3> QED
      BY <1>0, <2>1, <3>1, AnsweredSave, StoreTypeKeeps DEF Active
  <2>3. \A m \in Names \ {n} : file'[m] = file[m] /\ tmp'[m] = tmp[m]
    BY <1>0, <1>5 DEF StoreType
  <2> HIDE DEF n
  <2> QED
    BY <1>0, <1>1, <1>3, <1>5, <2>1, <2>2, <2>3, AnsweredSave, SaveStepKeeps DEF n
<1> QED
  BY <1>0, <1>4, <1>5 DEF Encode, StoreType

LEMMA RenameTmpKeeps ==
  ASSUME StoreInv, NEW s \in Savers, RenameTmp(s) PROVE StoreInv'
<1> DEFINE n == save[s].name
<1>0. StoreType /\ Active(s) /\ clash' = clash /\ save[s].st = "rename"
  BY DEF StoreInv, RenameTmp, Active
<1>1. save[s] \in SaveType /\ n \in Names
  BY <1>0 DEF StoreType
<1>3. n \notin clash => file[n] \in Contents \cup {None} /\ tmp[n] \in Contents
  BY <1>0, <1>1 DEF StoreInv, NoTornBroker, Alone
<1>4. CASE /\ file' = [file EXCEPT ![n] = tmp[n]] /\ tmp' = [tmp EXCEPT ![n] = None]
           /\ save' = [Follow(s, [tmp |-> "file", file |-> "gone"]) EXCEPT ![s] = Answered]
  <2>1. /\ save' \in [Savers -> SaveType] /\ save'[s] = Answered
        /\ \A r \in Savers \ {s} :
             /\ save'[r].st = save[r].st /\ save'[r].name = save[r].name
             /\ save'[r].obj = save[r].obj
             /\ save[r].name # save[s].name => save'[r] = save[r]
    BY <1>0, <1>4, FollowOthers
  <2>2. StoreType'
    <3>1. tmp' \in [Names -> Files] /\ file' \in [Names -> Files]
      BY <1>0, <1>1, <1>4 DEF StoreType, Files
    <3> QED
      BY <1>0, <2>1, <3>1, AnsweredSave, StoreTypeKeeps DEF Active
  <2>3. /\ \A m \in Names \ {n} : file'[m] = file[m] /\ tmp'[m] = tmp[m]
        /\ file'[n] = tmp[n]
    BY <1>0, <1>1, <1>4 DEF StoreType
  <2> HIDE DEF n
  <2> QED
    BY <1>0, <1>1, <1>3, <2>1, <2>2, <2>3, AnsweredSave, SaveStepKeeps DEF n
<1>5. CASE save' = [save EXCEPT ![s] = Answered] /\ UNCHANGED <<file, tmp>>
  <2>1. \A r \in Savers : save'[r] = IF r = s THEN Answered ELSE save[r]
    BY <1>0, <1>5 DEF StoreType
  <2>2. StoreType'
    <3>1. save' \in [Savers -> SaveType]
      BY <1>0, <1>5, AnsweredSave DEF StoreType
    <3> QED
      BY <1>0, <1>5, <2>1, <3>1, AnsweredSave, StoreTypeKeeps DEF Active, StoreType
  <2> HIDE DEF n
  <2> QED
    BY <1>0, <1>1, <1>3, <1>5, <2>1, <2>2, AnsweredSave, SaveStepKeeps DEF n
<1> QED
  BY <1>4, <1>5 DEF RenameTmp

\* A broker is deleted: a save of it goes on.
LEMMA DeleteKeeps ==
  ASSUME StoreInv, NEW n \in Names, Delete(n) PROVE StoreInv'
<1>0. /\ StoreType /\ file' = [file EXCEPT ![n] = None] /\ UNCHANGED <<tmp, clash>>
      /\ save' = [r \in Savers |-> IF save[r].name = n /\ save[r].fd = "file"
                                   THEN [save[r] EXCEPT !.fd = "gone"] ELSE save[r]]
  BY DEF StoreInv, Delete
<1>1. ASSUME NEW r \in Savers
      PROVE  /\ save'[r] \in SaveType /\ save'[r].st = save[r].st
             /\ save'[r].name = save[r].name /\ save'[r].obj = save[r].obj
             /\ save[r].fd # "file" => save'[r].fd = save[r].fd
  <2>1. save[r] \in SaveType
    BY <1>0 DEF StoreType
  <2> QED
    BY <1>0, <2>1 DEF SaveType
<1>2. save' \in [Savers -> SaveType]
  BY <1>0, <1>1
<1>3. file' \in [Names -> Files] /\ \A m \in Names : file'[m] = IF m = n THEN None ELSE file[m]
  BY <1>0 DEF StoreType, Files
<1>4. StoreType'
  BY <1>0, <1>1, <1>2, <1>3 DEF StoreType, Active
<1>5. NoTornBroker'
  BY <1>0, <1>3 DEF StoreInv, NoTornBroker
<1>6. \A m \in Names \ clash' : Alone(m)'
  <2>1. \A r \in Savers : Active(r)' <=> Active(r)
    BY <1>1 DEF Active
  <2> QED
    BY <1>0, <1>1, <2>1 DEF StoreInv, Alone
<1> QED
  BY <1>4, <1>5, <1>6 DEF StoreInv

LEMMA StoreUnchanged == ASSUME StoreInv, UNCHANGED store PROVE StoreInv'
BY DEF StoreInv, StoreType, NoTornBroker, Alone, Active, store

LEMMA StoreStep == StoreInv /\ [Next]_vars => StoreInv'
<1> SUFFICES ASSUME StoreInv, [Next]_vars PROVE StoreInv'
  OBVIOUS
<1>1. ASSUME NEW s \in Savers, Save(s) PROVE StoreInv'
  BY <1>1, BeginKeeps, CreateTmpKeeps, EncodeKeeps, RenameTmpKeeps DEF Save, Put, Create
<1>2. ASSUME NEW n \in Names, Delete(n) PROVE StoreInv'
  BY <1>2, DeleteKeeps
<1>3. ASSUME NEW p \in Publishers, Publish(p) PROVE UNCHANGED store
  BY <1>3 DEF Publish, TryLock, Cancel, GiveUp, ListBrokers, ReadBroker, WriteBundle, WriteSig,
              VerifyOut, ScpBundle, ScpSig, InstallBundle, InstallSig, Snapshot, At
<1>4. CASE UNCHANGED vars
  BY <1>4, StoreUnchanged DEF vars
<1> QED
  BY <1>1, <1>2, <1>3, <1>4, StoreUnchanged DEF Next

\* Any number of concurrent saves, deletes and faults leaves each broker file
\* whole, except where two saves of one broker have shared its .tmp file.
THEOREM BrokersNeverTorn == Spec => []NoTornBroker
<1>1. Spec => []StoreInv
  BY StoreInit, StoreStep, PTL DEF Spec
<1> QED
  BY <1>1, PTL DEF StoreInv

-----------------------------------------------------------------------------
(* Publishing *)

PubStates == {"idle", "list", "read", "writeBundle", "writeSig", "verify", "scpBundle",
              "scpSig", "installBundle", "installSig", "snapshot"}
PubType == [st : PubStates, todo : SUBSET Names, bundle : Bundles, cancelled : BOOLEAN]

PushType ==
  /\ pub \in [Publishers -> PubType] /\ lock \in Publishers \cup {None}
  /\ out \in Pairs /\ box \in Pairs /\ active \in Pairs /\ faults \in Nat

\* What is where when request p is at position st with bundle b: the pair is
\* carried from the build to the box half by half.
Carried(st, b) ==
  /\ st = "writeSig" => out.bundle = b
  /\ st \in {"verify", "scpBundle", "scpSig", "installBundle", "installSig", "snapshot"} =>
       out.bundle = out.sig
  /\ st \in {"scpSig", "installBundle", "installSig"} => box.bundle = out.bundle
  /\ st \in {"installBundle", "installSig"} => box.sig = out.sig
  /\ st \in {"installSig", "snapshot"} => active.bundle = out.bundle
  /\ st = "snapshot" => active.sig = out.sig

\* Only the holder of the lock is at work ...
Exclusive == \A p \in Publishers : pub[p].st # "idle" => lock = p
Carrying == \A p \in Publishers : Carried(pub[p].st, pub[p].bundle)
\* ... and the box has half a pair only while one ssh installs the two files.
Balanced ==
  (faults = 0 /\ \A p \in Publishers : pub[p].st # "installSig") => active.bundle = active.sig

PushInv == PushType /\ Exclusive /\ Carrying /\ Balanced

LEMMA PushInit == Init => PushInv
<1> SUFFICES ASSUME Init PROVE PushInv
  OBVIOUS
<1>1. NoPub \in PubType /\ NoPub.st = "idle"
  BY DEF NoPub, PubType, PubStates, Bundles, Files
<1>2. NoPair \in Pairs /\ NoPair.bundle = NoPair.sig
  BY DEF NoPair, Pair, Pairs
<1>3. \A p \in Publishers : pub[p] = NoPub
  BY DEF Init
<1>4. PushType
  BY <1>1, <1>2 DEF Init, PushType
<1>5. Exclusive /\ Carrying /\ Balanced
  BY <1>1, <1>2, <1>3 DEF Init, Exclusive, Carrying, Carried, Balanced
<1> QED
  BY <1>4, <1>5 DEF PushInv

\* The two ways a step of a publish can end.
LEMMA ReturnDoes ==
  ASSUME PushType, NEW p \in Publishers, Return(p)
  PROVE  /\ pub' \in [Publishers -> PubType] /\ lock' = None /\ pub'[p].st = "idle"
         /\ \A q \in Publishers \ {p} : pub'[q] = pub[q]
<1>1. NoPub \in PubType /\ NoPub.st = "idle"
  BY DEF NoPub, PubType, PubStates, Bundles, Files
<1> QED
  BY <1>1 DEF Return, PushType

LEMMA GotoDoes ==
  ASSUME PushType, NEW p \in Publishers, NEW st \in PubStates, Goto(p, st)
  PROVE  /\ pub' \in [Publishers -> PubType] /\ lock' = lock /\ pub'[p].st = st
         /\ pub'[p].bundle = pub[p].bundle
         /\ \A q \in Publishers \ {p} : pub'[q] = pub[q]
<1>1. pub[p] \in PubType
  BY DEF PushType
<1>2. [pub[p] EXCEPT !.st = st] \in PubType
  BY <1>1 DEF PubType
<1> QED
  BY <1>1, <1>2 DEF Goto, PushType, PubType

\* A step of the publish that holds the lock, or takes it, concerns no other.
LEMMA HolderKeeps ==
  ASSUME PushInv, PushType', NEW p \in Publishers,
         pub[p].st # "idle" \/ lock = None,
         \A q \in Publishers \ {p} : pub'[q] = pub[q],
         pub'[p].st # "idle" => lock' = p,
         Carried(pub[p].st, pub[p].bundle)',
         (faults' = 0 /\ pub'[p].st # "installSig") => active'.bundle = active'.sig
  PROVE  PushInv'
<1>1. \A q \in Publishers \ {p} : pub[q].st = "idle"
  BY LockAssumption DEF PushInv, Exclusive
<1>2. Exclusive'
  BY <1>1 DEF Exclusive
<1>3. \A q \in Publishers \ {p} : Carried(pub[q].st, pub[q].bundle)'
  BY <1>1 DEF Carried
<1>4. Carrying'
  BY <1>3 DEF Carrying
<1>5. Balanced'
  BY DEF Balanced
<1> QED
  BY <1>2, <1>4, <1>5 DEF PushInv

\* The handler returns with the box as it was, outside the install.
LEMMA ReturnKeeps ==
  ASSUME PushInv, NEW p \in Publishers, pub[p].st # "idle", Return(p),
         out' \in Pairs, box' \in Pairs, active' \in Pairs, faults' \in Nat,
         faults' = 0 => active'.bundle = active'.sig
  PROVE  PushInv'
<1>1. PushType
  BY DEF PushInv
<1>2. /\ pub' \in [Publishers -> PubType] /\ lock' = None /\ pub'[p].st = "idle"
      /\ \A q \in Publishers \ {p} : pub'[q] = pub[q]
  BY <1>1, ReturnDoes
<1>3. PushType'
  BY <1>2 DEF PushType
<1>4. Carried(pub[p].st, pub[p].bundle)'
  BY <1>2 DEF Carried
<1> QED
  BY <1>2, <1>3, <1>4, HolderKeeps

LEMMA GotoKeeps ==
  ASSUME PushInv, NEW p \in Publishers, pub[p].st # "idle", NEW st \in PubStates, Goto(p, st),
         out' \in Pairs, box' \in Pairs, active' \in Pairs, faults' \in Nat,
         Carried(st, pub[p].bundle)',
         (faults' = 0 /\ st # "installSig") => active'.bundle = active'.sig
  PROVE  PushInv'
<1>1. PushType
  BY DEF PushInv
<1>2. /\ pub' \in [Publishers -> PubType] /\ lock' = lock /\ pub'[p].st = st
      /\ pub'[p].bundle = pub[p].bundle
      /\ \A q \in Publishers \ {p} : pub'[q] = pub[q]
  BY <1>1, GotoDoes
<1>3. PushType'
  BY <1>1, <1>2 DEF PushType
<1>4. lock' = p
  BY <1>2 DEF PushInv, Exclusive
<1> QED
  BY <1>2, <1>3, <1>4, HolderKeeps

\* What the holder of the lock may rely on.
LEMMA HolderKnows ==
  ASSUME PushInv, NEW p \in Publishers, pub[p].st # "idle"
  PROVE  /\ PushType /\ pub[p] \in PubType /\ lock = p
         /\ Carried(pub[p].st, pub[p].bundle)
         /\ (faults = 0 /\ pub[p].st # "installSig") => active.bundle = active.sig
<1>1. PushType /\ lock = p /\ Carried(pub[p].st, pub[p].bundle)
  BY DEF PushInv, Exclusive, Carrying
<1>2. \A q \in Publishers \ {p} : pub[q].st = "idle"
  BY <1>1 DEF PushInv, Exclusive
<1>3. (faults = 0 /\ pub[p].st # "installSig") => active.bundle = active.sig
  BY <1>2 DEF PushInv, Balanced
<1> QED
  BY <1>1, <1>3 DEF PushType

LEMMA PushUnchanged ==
  ASSUME PushInv, UNCHANGED <<deploy, faults>> PROVE PushInv'
BY DEF PushInv, PushType, Exclusive, Carrying, Carried, Balanced, deploy

LEMMA LockKeeps ==
  ASSUME PushInv, NEW p \in Publishers, TryLock(p) PROVE PushInv'
<1>0. PushType /\ pub[p] \in PubType
  BY DEF PushInv, PushType
<1>1. /\ pub' = [pub EXCEPT ![p] = [pub[p] EXCEPT !.st = "list"]]
      /\ lock = None /\ lock' = p /\ UNCHANGED <<out, box, active, faults>>
      /\ pub[p].st = "idle"
  BY <1>0 DEF TryLock, At, PushType
<1>2. /\ [pub[p] EXCEPT !.st = "list"] \in PubType
      /\ [pub[p] EXCEPT !.st = "list"].st = "list"
  BY <1>0 DEF PubType, PubStates
<1>3. /\ pub' \in [Publishers -> PubType] /\ pub'[p].st = "list"
      /\ \A q \in Publishers \ {p} : pub'[q] = pub[q]
  BY <1>0, <1>1, <1>2 DEF PushType
<1>4. PushType'
  BY <1>0, <1>1, <1>3 DEF PushType
<1>5. Carried(pub[p].st, pub[p].bundle)'
  BY <1>3 DEF Carried
<1>6. \A q \in Publishers : pub[q].st = "idle"
  BY <1>1, LockAssumption DEF PushInv, Exclusive
<1>7. faults' = 0 => active'.bundle = active'.sig
  BY <1>1, <1>6 DEF PushInv, Balanced
<1> QED
  BY <1>1, <1>3, <1>4, <1>5, <1>7, HolderKeeps

LEMMA CancelKeeps ==
  ASSUME PushInv, NEW p \in Publishers, Cancel(p) PROVE PushInv'
<1>0. pub[p].st # "idle" /\ PushType /\ pub[p] \in PubType /\ lock = p
      /\ Carried(pub[p].st, pub[p].bundle)
      /\ ((faults = 0 /\ pub[p].st # "installSig") => active.bundle = active.sig)
  BY HolderKnows DEF Cancel
<1>1. /\ pub' = [pub EXCEPT ![p] = [pub[p] EXCEPT !.cancelled = TRUE]]
      /\ UNCHANGED <<lock, out, box, active, faults>>
  BY <1>0 DEF Cancel, PushType
<1>2. /\ [pub[p] EXCEPT !.cancelled = TRUE] \in PubType
      /\ [pub[p] EXCEPT !.cancelled = TRUE].st = pub[p].st
      /\ [pub[p] EXCEPT !.cancelled = TRUE].bundle = pub[p].bundle
  BY <1>0 DEF PubType
<1>3. /\ pub' \in [Publishers -> PubType] /\ pub'[p].st = pub[p].st
      /\ pub'[p].bundle = pub[p].bundle
      /\ \A q \in Publishers \ {p} : pub'[q] = pub[q]
  BY <1>0, <1>1, <1>2 DEF PushType
<1>4. PushType'
  BY <1>0, <1>1, <1>3 DEF PushType
<1>5. Carried(pub[p].st, pub[p].bundle)'
  BY <1>0, <1>1, <1>3 DEF Carried
<1> QED
  BY <1>0, <1>1, <1>3, <1>4, <1>5, HolderKeeps

\* build-bundle reads the broker files into the request's bundle.
LEMMA ReadKeeps ==
  ASSUME PushInv, StoreType, NEW p \in Publishers, ListBrokers(p) \/ ReadBroker(p)
  PROVE  PushInv'
<1>0. pub[p].st \in {"list", "read"} /\ UNCHANGED <<out, box, active>>
  BY DEF ListBrokers, ReadBroker, At
<1>1. /\ PushType /\ pub[p] \in PubType /\ lock = p
      /\ (faults = 0 => active.bundle = active.sig)
      /\ out' \in Pairs /\ box' \in Pairs /\ active' \in Pairs /\ faults \in Nat
  BY <1>0, HolderKnows DEF PushType
<1>2. CASE Fails(p)
  <2>1. Return(p) /\ faults' \in Nat /\ faults' # 0
    BY <1>1, <1>2 DEF Fails, Fault
  <2> QED
    BY <1>0, <1>1, <2>1, ReturnKeeps
<1>3. CASE Return(p) /\ NoFault
  BY <1>0, <1>1, <1>3, ReturnKeeps DEF NoFault
<1>4. CASE Goto(p, "writeBundle") /\ NoFault
  <2>1. Carried("writeBundle", pub[p].bundle)'
    BY DEF Carried
  <2> QED
    BY <1>0, <1>1, <1>4, <2>1, GotoKeeps DEF NoFault, PubStates
<1>5. ASSUME NEW x \in PubType, x.st \in {"read"}, pub' = [pub EXCEPT ![p] = x],
             UNCHANGED <<lock, faults>>
      PROVE  PushInv'
  <2>1. /\ pub' \in [Publishers -> PubType] /\ pub'[p] = x
        /\ \A q \in Publishers \ {p} : pub'[q] = pub[q]
    BY <1>1, <1>5 DEF PushType
  <2>2. PushType'
    BY <1>1, <1>5, <2>1 DEF PushType
  <2>3. Carried(pub[p].st, pub[p].bundle)'
    BY <1>5, <2>1 DEF Carried
  <2> QED
    BY <1>0, <1>1, <1>5, <2>1, <2>2, <2>3, HolderKeeps
<1>6. CASE ListBrokers(p)
  <2> DEFINE x == [pub[p] EXCEPT !.st = "read", !.todo = {n \in Names : file[n] # None}]
  <2>1. x \in PubType /\ x.st = "read"
    BY <1>1 DEF PubType, PubStates
  <2>2. Fails(p) \/ (pub' = [pub EXCEPT ![p] = x] /\ UNCHANGED <<lock, faults>>)
    BY <1>1, <1>6 DEF ListBrokers, NoFault, PushType
  <2> HIDE DEF x
  <2> QED
    BY <1>2, <1>5, <2>1, <2>2
<1>7. CASE ReadBroker(p)
  <2>1. CASE \E n \in pub[p].todo : file[n] # None /\ UNCHANGED lock
               /\ pub' = [pub EXCEPT ![p].todo = @ \ {n}, ![p].bundle[n] = file[n]]
    <3>1. PICK n \in pub[p].todo : UNCHANGED lock
               /\ pub' = [pub EXCEPT ![p].todo = @ \ {n}, ![p].bundle[n] = file[n]]
      BY <2>1
    <3> DEFINE b == [pub[p].bundle EXCEPT ![n] = file[n]]
               x == [pub[p] EXCEPT !.todo = pub[p].todo \ {n}, !.bundle = b]
    <3>2. b \in Bundles
      BY <1>1 DEF PubType, Bundles, StoreType
    <3>3. x \in PubType /\ x.st = pub[p].st
      BY <1>1, <3>2 DEF PubType
    <3>4. pub' = [pub EXCEPT ![p] = x]
      BY <1>1, <3>1 DEF PushType, PubType
    <3>5. pub[p].st = "read" /\ UNCHANGED faults
      BY <1>7 DEF ReadBroker, At, NoFault
    <3> HIDE DEF x
    <3> QED
      BY <1>5, <3>1, <3>3, <3>4, <3>5
  <2> QED
    BY <1>3, <1>4, <1>7, <2>1 DEF ReadBroker
<1> QED
  BY <1>6, <1>7

\* Half of a pair is replaced, or lost.
LEMMA HalfPair ==
  ASSUME NEW pair \in Pairs, NEW b \in Bundles \cup {None}
  PROVE  /\ [pair EXCEPT !.bundle = b] \in Pairs /\ [pair EXCEPT !.sig = b] \in Pairs
         /\ [pair EXCEPT !.bundle = b].bundle = b /\ [pair EXCEPT !.bundle = b].sig = pair.sig
         /\ [pair EXCEPT !.sig = b].sig = b /\ [pair EXCEPT !.sig = b].bundle = pair.bundle
BY DEF Pairs

LEMMA HalfLost ==
  ASSUME NEW pair \in Pairs
  PROVE  {pair, [pair EXCEPT !.bundle = None], [pair EXCEPT !.sig = None]} \subseteq Pairs
BY DEF Pairs

\* A command fails: the handler returns, and nothing is claimed from then on of
\* the pair on the box.
LEMMA FailsKeeps ==
  ASSUME PushInv, NEW p \in Publishers, pub[p].st # "idle", Fails(p),
         out' \in Pairs, box' \in Pairs, active' \in Pairs
  PROVE  PushInv'
<1>1. Return(p) /\ faults' \in Nat /\ faults' # 0
  BY DEF Fails, Fault, PushInv, PushType
<1> QED
  BY <1>1, ReturnKeeps

\* A command ends and the handler goes on, or returns because the client is gone.
LEMMA CommandKeeps ==
  ASSUME PushInv, NEW p \in Publishers, pub[p].st # "idle", NEW st \in PubStates,
         EndOfCommand(p, st), NoFault, out' \in Pairs, box' \in Pairs, active' \in Pairs,
         Carried(st, pub[p].bundle)', faults' = 0 => active'.bundle = active'.sig
  PROVE  PushInv'
<1>1. faults' \in Nat
  BY DEF NoFault, PushInv, PushType
<1> QED
  BY <1>1, ReturnKeeps, GotoKeeps DEF EndOfCommand

LEMMA PushStep == PushInv /\ StoreType /\ [Next]_vars => PushInv'
<1> SUFFICES ASSUME PushInv, StoreType, [Next]_vars PROVE PushInv'
  OBVIOUS
<1>1. ASSUME NEW s \in Savers, Save(s) PROVE PushInv'
  <2>1. UNCHANGED deploy
    BY <1>1 DEF Save, Put, Create, Begin, CreateTmp, Encode, RenameTmp
  <2>2. faults' = faults \/ faults' = faults + 1
    BY <1>1 DEF Save, Put, Create, Begin, CreateTmp, Encode, RenameTmp, NoFault, Fault
  <2>3. faults' \in Nat /\ (faults' = 0 => faults = 0)
    BY <2>2 DEF PushInv, PushType
  <2> QED
    BY <2>1, <2>3 DEF PushInv, PushType, Exclusive, Carrying, Carried, Balanced, deploy
<1>2. ASSUME NEW n \in Names, Delete(n) PROVE PushInv'
  BY <1>2, PushUnchanged DEF Delete
<1>3. ASSUME NEW p \in Publishers, Publish(p) PROVE PushInv'
  <2>0. ASSUME pub[p].st # "idle"
        PROVE  /\ PushType /\ pub[p] \in PubType /\ lock = p
               /\ pub[p].bundle \in Bundles \cup {None}
               /\ Carried(pub[p].st, pub[p].bundle)
               /\ (faults = 0 /\ pub[p].st # "installSig") => active.bundle = active.sig
               /\ out \in Pairs /\ box \in Pairs /\ active \in Pairs /\ faults \in Nat
               /\ out.bundle \in Bundles \cup {None} /\ out.sig \in Bundles \cup {None}
               /\ box.bundle \in Bundles \cup {None} /\ box.sig \in Bundles \cup {None}
    <3>1. /\ PushType /\ pub[p] \in PubType /\ lock = p
          /\ Carried(pub[p].st, pub[p].bundle)
          /\ ((faults = 0 /\ pub[p].st # "installSig") => active.bundle = active.sig)
      BY <2>0, HolderKnows
    <3>2. /\ pub[p].bundle \in Bundles \cup {None}
          /\ out \in Pairs /\ box \in Pairs /\ active \in Pairs /\ faults \in Nat
      BY <3>1 DEF PushType, PubType
    <3> QED
      BY <3>1, <3>2 DEF Pairs
  <2>1. CASE TryLock(p)
    BY <2>1, LockKeeps
  <2>2. CASE Cancel(p)
    BY <2>2, CancelKeeps
  <2>3. CASE GiveUp(p)
    <3>1. /\ pub[p].st \notin {"idle", "installSig"} /\ Return(p)
          /\ UNCHANGED <<out, box, active, faults>>
      BY <2>3 DEF GiveUp
    <3> QED
      BY <2>0, <3>1, ReturnKeeps
  <2>4. CASE ListBrokers(p) \/ ReadBroker(p)
    BY <2>4, ReadKeeps
  <2>5. CASE WriteBundle(p)
    <3>1. pub[p].st = "writeBundle" /\ UNCHANGED <<box, active>>
      BY <2>5 DEF WriteBundle, At
    <3>2. CASE out' = [out EXCEPT !.bundle = pub[p].bundle] /\ Goto(p, "writeSig") /\ NoFault
      <4>1. out' \in Pairs /\ out'.bundle = pub[p].bundle
        BY <2>0, <3>1, <3>2, HalfPair
      <4>2. pub'[p].bundle = pub[p].bundle
        BY <2>0, <3>1, <3>2, GotoDoes DEF PubStates
      <4>3. Carried("writeSig", pub[p].bundle)'
        BY <4>1, <4>2 DEF Carried
      <4> QED
        BY <2>0, <3>1, <3>2, <4>1, <4>3, GotoKeeps DEF PubStates, NoFault
    <3>3. CASE out' = [out EXCEPT !.bundle = None] /\ Fails(p)
      BY <2>0, <3>1, <3>3, HalfPair, FailsKeeps
    <3> QED
      BY <2>5, <3>2, <3>3 DEF WriteBundle
  <2>6. CASE WriteSig(p)
    <3>1. pub[p].st = "writeSig" /\ UNCHANGED <<box, active>>
      BY <2>6 DEF WriteSig, At
    <3>2. CASE out' = [out EXCEPT !.sig = pub[p].bundle] /\ EndOfCommand(p, "verify") /\ NoFault
      <4>1. out' \in Pairs /\ out'.bundle = out'.sig
        BY <2>0, <3>1, <3>2, HalfPair DEF Carried
      <4>2. Carried("verify", pub[p].bundle)'
        BY <4>1 DEF Carried
      <4> QED
        BY <2>0, <3>1, <3>2, <4>1, <4>2, CommandKeeps DEF PubStates, NoFault
    <3>3. CASE out' \in {out, [out EXCEPT !.sig = None]} /\ Fails(p)
      <4>1. out' \in Pairs
        BY <2>0, <3>1, <3>3, HalfLost
      <4> QED
        BY <2>0, <3>1, <3>3, <4>1, FailsKeeps
    <3> QED
      BY <2>6, <3>2, <3>3 DEF WriteSig
  <2>7. CASE VerifyOut(p)
    <3>1. pub[p].st = "verify" /\ UNCHANGED <<out, box, active>>
      BY <2>7 DEF VerifyOut, At
    <3>2. CASE EndOfCommand(p, "scpBundle") /\ NoFault
      <4>1. Carried("scpBundle", pub[p].bundle)'
        BY <2>0, <3>1 DEF Carried
      <4> QED
        BY <2>0, <3>1, <3>2, <4>1, CommandKeeps DEF PubStates, NoFault
    <3>3. CASE Return(p) /\ NoFault
      BY <2>0, <3>1, <3>3, ReturnKeeps DEF NoFault
    <3>4. CASE Fails(p)
      BY <2>0, <3>1, <3>4, FailsKeeps
    <3> QED
      BY <2>7, <3>2, <3>3, <3>4 DEF VerifyOut
  <2>8. CASE ScpBundle(p)
    <3>1. pub[p].st = "scpBundle" /\ UNCHANGED <<out, active>>
      BY <2>8 DEF ScpBundle, At
    <3>2. CASE box' = [box EXCEPT !.bundle = out.bundle] /\ Goto(p, "scpSig") /\ NoFault
      <4>1. box' \in Pairs /\ box'.bundle = out.bundle
        BY <2>0, <3>1, <3>2, HalfPair
      <4>2. Carried("scpSig", pub[p].bundle)'
        BY <2>0, <3>1, <4>1 DEF Carried
      <4> QED
        BY <2>0, <3>1, <3>2, <4>1, <4>2, GotoKeeps DEF PubStates, NoFault
    <3>3. CASE Fails(p) /\ box' \in {box, [box EXCEPT !.bundle = None]}
      <4>1. box' \in Pairs
        BY <2>0, <3>1, <3>3, HalfLost
      <4> QED
        BY <2>0, <3>1, <3>3, <4>1, FailsKeeps
    <3> QED
      BY <2>8, <3>2, <3>3 DEF ScpBundle
  <2>9. CASE ScpSig(p)
    <3>1. pub[p].st = "scpSig" /\ UNCHANGED <<out, active>>
      BY <2>9 DEF ScpSig, At
    <3>2. CASE box' = [box EXCEPT !.sig = out.sig] /\ EndOfCommand(p, "installBundle") /\ NoFault
      <4>1. box' \in Pairs /\ box'.sig = out.sig /\ box'.bundle = box.bundle
        BY <2>0, <3>1, <3>2, HalfPair
      <4>2. Carried("installBundle", pub[p].bundle)'
        BY <2>0, <3>1, <4>1 DEF Carried
      <4> QED
        BY <2>0, <3>1, <3>2, <4>1, <4>2, CommandKeeps DEF PubStates, NoFault
    <3>3. CASE Fails(p) /\ box' \in {box, [box EXCEPT !.sig = None]}
      <4>1. box' \in Pairs
        BY <2>0, <3>1, <3>3, HalfLost
      <4> QED
        BY <2>0, <3>1, <3>3, <4>1, FailsKeeps
    <3> QED
      BY <2>9, <3>2, <3>3 DEF ScpSig
  <2>10. CASE InstallBundle(p)
    <3>1. pub[p].st = "installBundle" /\ UNCHANGED <<out, box>>
      BY <2>10 DEF InstallBundle, At
    <3>2. CASE /\ active' = [active EXCEPT !.bundle = box.bundle] /\ Goto(p, "installSig")
               /\ NoFault
      <4>1. active' \in Pairs /\ active'.bundle = box.bundle
        BY <2>0, <3>1, <3>2, HalfPair
      <4>2. Carried("installSig", pub[p].bundle)'
        BY <2>0, <3>1, <4>1 DEF Carried
      <4> QED
        BY <2>0, <3>1, <3>2, <4>1, <4>2, GotoKeeps DEF PubStates, NoFault
    <3>3. CASE Fails(p) /\ active' \in {active, [active EXCEPT !.bundle = None]}
      <4>1. active' \in Pairs
        BY <2>0, <3>1, <3>3, HalfLost
      <4> QED
        BY <2>0, <3>1, <3>3, <4>1, FailsKeeps
    <3> QED
      BY <2>10, <3>2, <3>3 DEF InstallBundle
  <2>11. CASE InstallSig(p)
    <3>1. pub[p].st = "installSig" /\ UNCHANGED out
      BY <2>11 DEF InstallSig, At
    <3>2. NoPair \in Pairs
      BY DEF NoPair, Pair, Pairs
    <3>3. CASE active' = [active EXCEPT !.sig = box.sig] /\ box' = NoPair
      <4>1. /\ active' \in Pairs /\ active'.bundle = active.bundle /\ active'.sig = box.sig
            /\ box' \in Pairs
        BY <2>0, <3>1, <3>2, <3>3, HalfPair
      <4>2. active'.bundle = active'.sig /\ Carried("snapshot", pub[p].bundle)'
        BY <2>0, <3>1, <4>1 DEF Carried
      <4>3. CASE EndOfCommand(p, "snapshot") /\ NoFault
        BY <2>0, <3>1, <4>1, <4>2, <4>3, CommandKeeps DEF PubStates
      <4>4. CASE Fails(p)
        BY <2>0, <3>1, <4>1, <4>4, FailsKeeps
      <4> QED
        BY <2>0, <2>11, <3>1, <4>1, <4>3, <4>4, FailsKeeps DEF InstallSig
    <3>4. CASE Fails(p) /\ active' \in {active, [active EXCEPT !.sig = None]} /\ UNCHANGED box
      <4>1. active' \in Pairs
        BY <2>0, <3>1, <3>4, HalfLost
      <4> QED
        BY <2>0, <3>1, <3>4, <4>1, FailsKeeps
    <3> QED
      BY <2>11, <3>3, <3>4 DEF InstallSig
  <2>12. CASE Snapshot(p)
    <3>1. pub[p].st = "snapshot" /\ Return(p) /\ UNCHANGED <<out, box, active>>
      BY <2>12 DEF Snapshot, At
    <3>2. faults' \in Nat /\ (faults' = 0 => faults = 0)
      BY <2>0, <2>12, <3>1 DEF Snapshot, Fault, NoFault
    <3> QED
      BY <2>0, <3>1, <3>2, ReturnKeeps
  <2> QED
    BY <1>3, <2>1, <2>2, <2>3, <2>4, <2>5, <2>6, <2>7, <2>8, <2>9, <2>10, <2>11, <2>12
       DEF Publish
<1>4. CASE UNCHANGED vars
  BY <1>4, PushUnchanged DEF vars
<1> QED
  BY <1>1, <1>2, <1>3, <1>4 DEF Next

LEMMA UIAlways == Spec => [](StoreInv /\ PushInv)
<1>1. StoreInv => StoreType
  BY DEF StoreInv
<1> QED
  BY <1>1, StoreInit, StoreStep, PushInit, PushStep, PTL DEF Spec

\* With nothing failing, no publish leaves the box with a bundle and another
\* bundle's signature, whichever of any number of clients go away in between.
THEOREM PairAlwaysPushed == Spec => []PairPushed
<1>1. PushInv => PairPushed
  BY LockAssumption DEF PushInv, Exclusive, Balanced, PairPushed
<1> QED
  BY <1>1, UIAlways, PTL

\* writeSnapshot copies the pair that is live on the box at that moment,
\* whatever has failed before.
THEOREM SnapshotAlwaysLive == Spec => SnapshotIsLive
<1>1. StoreInv /\ PushInv /\ [Next]_vars => [snap' # snap => active = Pair(snap', snap')]_vars
  <2> SUFFICES ASSUME PushInv, Next, snap' # snap PROVE active = Pair(snap', snap')
    BY DEF vars, deploy
  <2>1. ASSUME NEW s \in Savers, Save(s) PROVE FALSE
    BY <2>1 DEF Save, Put, Create, Begin, CreateTmp, Encode, RenameTmp, deploy
  <2>2. ASSUME NEW n \in Names, Delete(n) PROVE FALSE
    BY <2>2 DEF Delete, deploy
  <2>3. PICK p \in Publishers : Publish(p)
    BY <2>1, <2>2 DEF Next
  <2>4. Snapshot(p)
    BY <2>3 DEF Publish, TryLock, Cancel, GiveUp, ListBrokers, ReadBroker, WriteBundle, WriteSig,
                VerifyOut, ScpBundle, ScpSig, InstallBundle, InstallSig
  <2>5. pub[p].st = "snapshot" /\ snap' = out.bundle
    BY <2>4 DEF Snapshot, At
  <2>6. active.bundle = out.bundle /\ active.sig = out.bundle /\ active \in Pairs
    BY <2>5 DEF PushInv, PushType, Carrying, Carried
  <2> QED
    BY <2>5, <2>6 DEF Pairs, Pair
<1> QED
  BY <1>1, UIAlways, PTL DEF Spec, SnapshotIsLive
=============================================================================

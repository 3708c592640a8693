------------------------- MODULE BundleUpdaterProofs -------------------------
(***************************************************************************)
(* Proofs about BundleUpdater for every set of bundles and workers and     *)
(* every bound on failures and crashes.                                    *)
(***************************************************************************)
EXTENDS BundleUpdater, TLAPS

LEMMA BlankType == Blank \in TickLocals
  BY DEF Blank, TickLocals

\* Two fields of one worker's locals are assigned.
LEMMA TickUpdate ==
  ASSUME NEW w \in Workers, NEW e \in Bundles \cup {None}, NEW h \in Bundles \cup {None},
         tick \in [Workers -> TickLocals]
  PROVE  [tick EXCEPT ![w].etag = e, ![w].hash = h] \in [Workers -> TickLocals]
  BY DEF TickLocals

LEMMA FetchUpdate ==
  ASSUME NEW w \in Workers, NEW b \in Bundles \cup {None}, NEW e \in Bundles \cup {None},
         tick \in [Workers -> TickLocals]
  PROVE  [tick EXCEPT ![w].bundle = b, ![w].newETag = e] \in [Workers -> TickLocals]
  BY DEF TickLocals

\* Init satisfies the type invariant.
LEMMA InitType == Init => TypeOK
<1> SUFFICES ASSUME Init PROVE TypeOK
  OBVIOUS
<1>1. MemType
  BY DEF Init, MemType
<1>2. TickType
  BY BlankType DEF Init, TickType, Labels
<1>3. DiskType
  BY BundleAssumption, SentinelAssumption DEF Init, DiskType, Sigs, Kinds, Slots
<1>4. EnvType
  BY BundleAssumption, BoundAssumption DEF Init, EnvType, Sigs, OpIdle
<1> QED
  BY <1>1, <1>2, <1>3, <1>4 DEF TypeOK

\* Every step keeps the types: one case per action.
LEMMA NextType == TypeOK /\ [Next]_vars => TypeOK'
<1> SUFFICES ASSUME TypeOK, [Next]_vars PROVE TypeOK'
  OBVIOUS
<1>0. MemType /\ TickType /\ DiskType /\ EnvType
  BY DEF TypeOK
<1> USE <1>0, BundleAssumption, SentinelAssumption, BoundAssumption, BlankType
        DEF mem, chans, env, Goto, Return, Keep, Fault, NoFault
<1>1. CASE TickerFires
  <2>1. TickType'
    BY <1>1, TickUpdate DEF TickerFires, TickStart, TickType, Labels, MemType
  <2>2. MemType'
    BY <1>1 DEF TickerFires, TickStart, MemType
  <2>3. (DiskType /\ EnvType)'
    BY <1>1 DEF TickerFires, TickStart, DiskType, EnvType
  <2> QED
    BY <2>1, <2>2, <2>3 DEF TypeOK
<1>2. CASE PokeReceived
  <2>1. TickType'
    BY <1>2, TickUpdate DEF PokeReceived, TickStart, TickType, Labels, MemType
  <2>2. MemType'
    BY <1>2 DEF PokeReceived, TickStart, MemType
  <2>3. (DiskType /\ EnvType)'
    BY <1>2 DEF PokeReceived, TickStart, DiskType, EnvType
  <2> QED
    BY <2>1, <2>2, <2>3 DEF TypeOK
<1>3. CASE HupReceived
  <2>1. TickType'
    BY <1>3, TickUpdate DEF HupReceived, TickStart, TickType, Labels, MemType
  <2>2. MemType'
    BY <1>3 DEF HupReceived, TickStart, MemType
  <2>3. (DiskType /\ EnvType)'
    BY <1>3 DEF HupReceived, TickStart, DiskType, EnvType
  <2> QED
    BY <2>1, <2>2, <2>3 DEF TypeOK
<1>4. ASSUME NEW w \in Workers, AdminReload(w) PROVE TypeOK'
  <2>1. TickType'
    BY <1>4, TickUpdate DEF AdminReload, TickStart, TickType, Labels, MemType
  <2>2. MemType'
    BY <1>4 DEF AdminReload, TickStart, MemType
  <2>3. (DiskType /\ EnvType)'
    BY <1>4 DEF AdminReload, TickStart, DiskType, EnvType
  <2> QED
    BY <2>1, <2>2, <2>3 DEF TypeOK
<1>5. ASSUME NEW w \in Workers, Tick(w) PROVE TypeOK'
  <2>1. CASE FetchBundle(w)
    <3>1. TickType'
      <4>1. pc' \in [Workers -> Labels]
        BY <2>1 DEF FetchBundle, TickType, Labels
      <4>2. CASE tick' = [tick EXCEPT ![w] = Blank]
        BY <4>1, <4>2 DEF TickType
      <4>3. CASE \E e \in {cdn.bundle} \cup {z \in {None} : Flush} :
                   tick' = [tick EXCEPT ![w].bundle = cdn.bundle, ![w].newETag = e]
        <5>1. PICK e \in {cdn.bundle} \cup {z \in {None} : Flush} :
                tick' = [tick EXCEPT ![w].bundle = cdn.bundle, ![w].newETag = e]
          BY <4>3
        <5>2. cdn.bundle \in Bundles /\ e \in Bundles \cup {None}
          BY DEF EnvType
        <5>3. tick' \in [Workers -> TickLocals]
          BY <5>1, <5>2, FetchUpdate DEF TickType
        <5> QED
          BY <4>1, <5>3 DEF TickType
      <4> QED
        BY <2>1, <4>2, <4>3 DEF FetchBundle
    <3>2. EnvType'
      BY <2>1 DEF FetchBundle, EnvType, Sigs
    <3>3. (MemType /\ DiskType)'
      BY <2>1 DEF FetchBundle, MemType, DiskType
    <3> QED
      BY <3>1, <3>2, <3>3 DEF TypeOK
  <2>2. CASE FetchSig(w)
    <3>1. TickType'
      <4>1. [tick EXCEPT ![w].sig = cdn.sig] \in [Workers -> TickLocals]
        BY DEF TickType, TickLocals, EnvType
      <4> QED
        BY <2>2, <4>1 DEF FetchSig, TickType, Labels
    <3>2. EnvType'
      BY <2>2 DEF FetchSig, EnvType, Sigs
    <3>3. (MemType /\ DiskType)'
      BY <2>2 DEF FetchSig, MemType, DiskType
    <3> QED
      BY <3>1, <3>2, <3>3 DEF TypeOK
  <2>3. CASE CompareHash(w)
    <3>1. TickType'
      <4>1. [tick EXCEPT ![w].etag = None, ![w].hash = None] \in [Workers -> TickLocals]
        BY TickUpdate DEF TickType
      <4> QED
        BY <2>3, <4>1 DEF CompareHash, TickType, Labels
    <3>2. MemType'
      BY <2>3 DEF CompareHash, MemType, TickType, Labels, TickLocals
    <3>3. (DiskType /\ EnvType)'
      BY <2>3 DEF CompareHash, DiskType, EnvType
    <3> QED
      BY <3>1, <3>2, <3>3 DEF TypeOK
  <2>4. CASE StageBundle(w)
    <3>1. TickType'
      BY <2>4 DEF StageBundle, Write, TickType, Labels, TickLocals
    <3>2. DiskType'
      BY <2>4 DEF StageBundle, Write, DiskType, Kinds, Slots, Sigs, TickType, Labels, TickLocals
    <3>3. EnvType'
      BY <2>4 DEF StageBundle, Write, EnvType, Sigs
    <3>4. MemType'
      BY <2>4 DEF StageBundle, Write, MemType
    <3> QED
      BY <3>1, <3>2, <3>3, <3>4 DEF TypeOK
  <2>5. CASE StageSig(w)
    <3>1. TickType'
      BY <2>5 DEF StageSig, Write, TickType, Labels, TickLocals
    <3>2. DiskType'
      BY <2>5 DEF StageSig, Write, DiskType, Kinds, Slots, Sigs, TickType, Labels, TickLocals
    <3>3. EnvType'
      BY <2>5 DEF StageSig, Write, EnvType, Sigs
    <3>4. MemType'
      BY <2>5 DEF StageSig, Write, MemType
    <3> QED
      BY <3>1, <3>2, <3>3, <3>4 DEF TypeOK
  <2>6. CASE Unstage(w)
    <3>1. TickType'
      BY <2>6 DEF Unstage, Write, TickType, Labels, TickLocals
    <3>2. DiskType'
      BY <2>6 DEF Unstage, Write, DiskType, Kinds, Slots, Sigs
    <3>3. EnvType'
      BY <2>6 DEF Unstage, Write, EnvType, Sigs
    <3>4. MemType'
      BY <2>6 DEF Unstage, Write, MemType
    <3> QED
      BY <3>1, <3>2, <3>3, <3>4 DEF TypeOK
  <2>7. CASE ReadPrev(w)
    <3>1. TickType'
      BY <2>7 DEF ReadPrev, TickType, Labels, TickLocals, MemType
    <3>2. (MemType /\ DiskType /\ EnvType)'
      BY <2>7 DEF ReadPrev, MemType, DiskType, EnvType
    <3> QED
      BY <3>1, <3>2 DEF TypeOK
  <2>8. CASE ReadBundle(w)
    <3>1. TickType'
      BY <2>8 DEF ReadBundle, TickType, Labels, TickLocals, DiskType, Kinds, Slots, Sigs
    <3>2. EnvType'
      BY <2>8 DEF ReadBundle, EnvType, Sigs
    <3>3. (MemType /\ DiskType)'
      BY <2>8 DEF ReadBundle, MemType, DiskType
    <3> QED
      BY <3>1, <3>2, <3>3 DEF TypeOK
  <2>9. CASE Verify(w)
    <3>1. TickType'
      BY <2>9 DEF Verify, TickType, Labels, TickLocals
    <3>2. EnvType'
      BY <2>9 DEF Verify, EnvType, Sigs
    <3>3. (MemType /\ DiskType)'
      BY <2>9 DEF Verify, MemType, DiskType
    <3> QED
      BY <3>1, <3>2, <3>3 DEF TypeOK
  <2>10. CASE RemoveStagedBundle(w)
    <3>1. TickType'
      BY <2>10 DEF RemoveStagedBundle, Write, TickType, Labels, TickLocals
    <3>2. DiskType'
      BY <2>10 DEF RemoveStagedBundle, Write, DiskType, Kinds, Slots, Sigs
    <3>3. EnvType'
      BY <2>10 DEF RemoveStagedBundle, Write, EnvType, Sigs
    <3>4. MemType'
      BY <2>10 DEF RemoveStagedBundle, Write, MemType
    <3> QED
      BY <3>1, <3>2, <3>3, <3>4 DEF TypeOK
  <2>11. CASE RemoveStagedSig(w)
    <3>1. TickType'
      BY <2>11 DEF RemoveStagedSig, Write, TickType, Labels, TickLocals
    <3>2. DiskType'
      BY <2>11 DEF RemoveStagedSig, Write, DiskType, Kinds, Slots, Sigs
    <3>3. EnvType'
      BY <2>11 DEF RemoveStagedSig, Write, EnvType, Sigs
    <3>4. MemType'
      BY <2>11 DEF RemoveStagedSig, Write, MemType
    <3> QED
      BY <3>1, <3>2, <3>3, <3>4 DEF TypeOK
  <2>12. ASSUME NEW k \in Kinds, PromoteStat(w, k) PROVE TypeOK'
    <3>1. TickType'
      BY <2>12 DEF PromoteStat, RotateAt, InstallAt, TickType, Labels, TickLocals, Kinds
    <3>2. EnvType'
      BY <2>12 DEF PromoteStat, RotateAt, InstallAt, EnvType, Sigs
    <3>3. (MemType /\ DiskType)'
      BY <2>12 DEF PromoteStat, RotateAt, InstallAt, MemType, DiskType
    <3> QED
      BY <3>1, <3>2, <3>3 DEF TypeOK
  <2>13. ASSUME NEW k \in Kinds, PromoteRotate(w, k) PROVE TypeOK'
    <3>1. TickType'
      BY <2>13 DEF PromoteRotate, InstallAt, Move, Rename, TickType, Labels, TickLocals, Kinds
    <3>2. DiskType'
      BY <2>13 DEF PromoteRotate, InstallAt, Move, Rename, DiskType, Kinds, Slots, Sigs
    <3>3. EnvType'
      BY <2>13 DEF PromoteRotate, InstallAt, Move, Rename, EnvType, Sigs
    <3>4. MemType'
      BY <2>13 DEF PromoteRotate, InstallAt, Move, Rename, MemType
    <3> QED
      BY <3>1, <3>2, <3>3, <3>4 DEF TypeOK
  <2>14. ASSUME NEW k \in Kinds, PromoteInstall(w, k) PROVE TypeOK'
    <3>1. TickType'
      BY <2>14 DEF PromoteInstall, PromotedTo, Move, Rename, TickType, Labels, TickLocals, Kinds
    <3>2. DiskType'
      BY <2>14 DEF PromoteInstall, PromotedTo, Move, Rename, DiskType, Kinds, Slots, Sigs
    <3>3. EnvType'
      BY <2>14 DEF PromoteInstall, PromotedTo, Move, Rename, EnvType, Sigs
    <3>4. MemType'
      BY <2>14 DEF PromoteInstall, PromotedTo, Move, Rename, MemType
    <3> QED
      BY <3>1, <3>2, <3>3, <3>4 DEF TypeOK
  <2>15. CASE HolderStore(w)
    <3>1. TickType'
      BY <2>15 DEF HolderStore, TickType, Labels, TickLocals
    <3>2. MemType'
      BY <2>15 DEF HolderStore, MemType, TickType, Labels, TickLocals
    <3>3. (DiskType /\ EnvType)'
      BY <2>15 DEF HolderStore, DiskType, EnvType
    <3> QED
      BY <3>1, <3>2, <3>3 DEF TypeOK
  <2>16. CASE Remember(w)
    <3>1. TickType'
      BY <2>16 DEF Remember, TickType, Labels, TickLocals
    <3>2. MemType'
      BY <2>16 DEF Remember, MemType, TickType, Labels, TickLocals
    <3>3. (DiskType /\ EnvType)'
      BY <2>16 DEF Remember, DiskType, EnvType
    <3> QED
      BY <3>1, <3>2, <3>3 DEF TypeOK
  <2>17. CASE OnSwap(w)
    <3>1. TickType'
      BY <2>17 DEF OnSwap, TickType, Labels, TickLocals
    <3>2. MemType'
      BY <2>17 DEF OnSwap, MemType, TickType, Labels, TickLocals
    <3>3. (DiskType /\ EnvType)'
      BY <2>17 DEF OnSwap, DiskType, EnvType
    <3> QED
      BY <3>1, <3>2, <3>3 DEF TypeOK
  <2> QED
    BY <1>5, <2>1, <2>2, <2>3, <2>4, <2>5, <2>6, <2>7, <2>8, <2>9, <2>10, <2>11,
       <2>12, <2>13, <2>14, <2>15, <2>16, <2>17 DEF Tick
<1>6. CASE Start
  <2>1. MemType'
    BY <1>6 DEF Start, Accepts, Verifies, MemType, DiskType, Kinds, Slots, Sigs
  <2>2. (TickType /\ DiskType /\ EnvType)'
    BY <1>6 DEF Start, Accepts, Verifies, TickType, DiskType, EnvType
  <2> QED
    BY <2>1, <2>2 DEF TypeOK
<1>7. CASE Stop
  <2>1. MemType'
    BY <1>7 DEF Stop, Exit, MemType
  <2>2. TickType'
    BY <1>7 DEF Stop, Exit, TickType, Labels, TickLocals
  <2>3. (DiskType /\ EnvType)'
    BY <1>7 DEF Stop, Exit, DiskType, EnvType
  <2> QED
    BY <2>1, <2>2, <2>3 DEF TypeOK
<1>8. CASE Crash
  <2>1. MemType'
    BY <1>8 DEF Crash, Exit, MemType
  <2>2. TickType'
    BY <1>8 DEF Crash, Exit, TickType, Labels, TickLocals
  <2>3. EnvType'
    BY <1>8 DEF Crash, Exit, EnvType, Sigs
  <2>4. DiskType'
    BY <1>8 DEF Crash, Exit, DiskType
  <2> QED
    BY <2>1, <2>2, <2>3, <2>4 DEF TypeOK
<1>9. CASE Sighup
  <2>1. MemType'
    BY <1>9 DEF Sighup, MemType
  <2>2. (TickType /\ DiskType /\ EnvType)'
    BY <1>9 DEF Sighup, TickType, DiskType, EnvType
  <2> QED
    BY <2>1, <2>2 DEF TypeOK
<1>10. CASE Sigusr1
  <2>1. MemType'
    BY <1>10 DEF Sigusr1, MemType
  <2>2. (TickType /\ DiskType /\ EnvType)'
    BY <1>10 DEF Sigusr1, TickType, DiskType, EnvType
  <2> QED
    BY <2>1, <2>2 DEF TypeOK
<1>11. ASSUME NEW b \in Offered, PublishBundle(b) PROVE TypeOK'
  <2>1. EnvType'
    BY <1>11 DEF PublishBundle, EnvType, Sigs
  <2>2. (MemType /\ TickType /\ DiskType)'
    BY <1>11 DEF PublishBundle, MemType, TickType, DiskType
  <2> QED
    BY <2>1, <2>2 DEF TypeOK
<1>12. ASSUME NEW s \in (Offered \cap Signed) \cup Forgeries, PublishSig(s) PROVE TypeOK'
  <2>1. EnvType'
    BY <1>12 DEF PublishSig, EnvType, Sigs
  <2>2. (MemType /\ TickType /\ DiskType)'
    BY <1>12 DEF PublishSig, MemType, TickType, DiskType
  <2> QED
    BY <2>1, <2>2 DEF TypeOK
<1>13. CASE RollbackBundle
  <2>1. DiskType'
    BY <1>13 DEF RollbackBundle, Move, Rename, DiskType, Kinds, Slots, Sigs
  <2>2. EnvType'
    BY <1>13 DEF RollbackBundle, Move, Rename, EnvType, Sigs
  <2>3. (MemType /\ TickType)'
    BY <1>13 DEF RollbackBundle, Move, Rename, MemType, TickType
  <2> QED
    BY <2>1, <2>2, <2>3 DEF TypeOK
<1>14. CASE RollbackSig
  <2>1. DiskType'
    BY <1>14 DEF RollbackSig, Move, Rename, OpIdle, DiskType, Kinds, Slots, Sigs
  <2>2. EnvType'
    BY <1>14 DEF RollbackSig, Move, Rename, OpIdle, EnvType, Sigs
  <2>3. (MemType /\ TickType)'
    BY <1>14 DEF RollbackSig, Move, Rename, OpIdle, MemType, TickType
  <2> QED
    BY <2>1, <2>2, <2>3 DEF TypeOK
<1>15. ASSUME NEW b \in Pushed, PushBundle(b) PROVE TypeOK'
  <2>1. DiskType'
    BY <1>15 DEF PushBundle, Write, DiskType, Kinds, Slots, Sigs
  <2>2. EnvType'
    BY <1>15 DEF PushBundle, Write, EnvType, Sigs
  <2>3. (MemType /\ TickType)'
    BY <1>15 DEF PushBundle, Write, MemType, TickType
  <2> QED
    BY <2>1, <2>2, <2>3 DEF TypeOK
<1>16. ASSUME NEW b \in Pushed, PushSig(b) PROVE TypeOK'
  <2>1. DiskType'
    BY <1>16 DEF PushSig, Write, DiskType, Kinds, Slots, Sigs
  <2>2. EnvType'
    BY <1>16 DEF PushSig, Write, EnvType, Sigs
  <2>3. (MemType /\ TickType)'
    BY <1>16 DEF PushSig, Write, MemType, TickType
  <2> QED
    BY <2>1, <2>2, <2>3 DEF TypeOK
<1>17. ASSUME NEW b \in Pushed, PushHup(b) PROVE TypeOK'
  <2>1. MemType'
    BY <1>17 DEF PushHup, OpIdle, MemType
  <2>2. EnvType'
    BY <1>17 DEF PushHup, OpIdle, EnvType, Sigs
  <2>3. (TickType /\ DiskType)'
    BY <1>17 DEF PushHup, OpIdle, TickType, DiskType
  <2> QED
    BY <2>1, <2>2, <2>3 DEF TypeOK
<1>18. CASE UNCHANGED vars
  BY <1>18 DEF vars, TypeOK, MemType, TickType, DiskType, EnvType
<1> QED
  BY <1>1, <1>2, <1>3, <1>4, <1>5, <1>6, <1>7, <1>8, <1>9, <1>10, <1>11, <1>12,
     <1>13, <1>14, <1>15, <1>16, <1>17, <1>18 DEF Next, Operator

\* The type invariant of the bundle pipeline, for every instance.
THEOREM TypeCorrect == Spec => []TypeOK
  BY InitType, NextType, PTL DEF Spec
-----------------------------------------------------------------------------
(* The live router is always a verified bundle, however Ticks overlap. *)

\* Steps of Tick after LoadAndVerify has accepted.
PastVerify == {"statBundle", "rotateBundle", "installBundle", "statSig",
               "rotateSig", "installSig", "store", "remember", "onSwap"}

\* What a worker carries past LoadAndVerify is the content that was verified,
\* whatever has since happened to the files.
LoadedVerified ==
  \A w \in Workers : pc[w] \in PastVerify => tick[w].loaded \in Signed \cap Loadable

\* No signature file, response or local holds a signature the key did not make.
HonestTick == \A w \in Workers : tick[w].sig \in Signed \cup {BadSig, None}
HonestDisk == \A s \in Slots : disk["sig"][s] \in Signed \cup {BadSig, None}
HonestCdn == cdn.sig \in Signed \cup {BadSig}

VerifiedInv ==
  TypeOK /\ RouterVerified /\ LoadedVerified /\ HonestTick /\ HonestDisk /\ HonestCdn

LEMMA InitVerified == Init => VerifiedInv
<1> SUFFICES ASSUME Init PROVE VerifiedInv
  OBVIOUS
<1>1. TypeOK
  BY InitType
<1>2. RouterVerified
  BY DEF Init, RouterVerified
<1>3. LoadedVerified /\ HonestTick
  BY DEF Init, LoadedVerified, HonestTick, PastVerify, Blank
<1>4. HonestDisk /\ HonestCdn
  BY BundleAssumption DEF Init, HonestDisk, HonestCdn, Kinds, Slots
<1> QED
  BY <1>1, <1>2, <1>3, <1>4 DEF VerifiedInv

\* ECDSA over honest signatures: what LoadAndVerify accepts is signed.
LEMMA AcceptedIsVerified ==
  ASSUME NEW b, NEW s \in Signed \cup {BadSig, None}, NEW prev, Accepts(b, s, prev)
  PROVE  b \in Signed \cap Loadable
  BY BundleAssumption, SentinelAssumption DEF Accepts, Verifies

LEMMA NextVerified == VerifiedInv /\ [Next]_vars => VerifiedInv'
<1> SUFFICES ASSUME VerifiedInv, [Next]_vars PROVE VerifiedInv'
  OBVIOUS
<1> DEFINE Others == RouterVerified /\ LoadedVerified /\ HonestTick /\ HonestDisk /\ HonestCdn
<1>0. TypeOK /\ MemType /\ TickType /\ DiskType /\ EnvType /\ Others
  BY DEF TypeOK, VerifiedInv
<1> SUFFICES Others'
  BY <1>0, NextType DEF VerifiedInv
<1> USE <1>0, BundleAssumption, SentinelAssumption
        DEF mem, chans, env, Goto, Return, Keep
<1>1. CASE TickerFires
  <2>1. LoadedVerified'
    BY <1>1 DEF TickerFires, TickStart, LoadedVerified, PastVerify, TickType
  <2>2. HonestTick'
    BY <1>1 DEF TickerFires, TickStart, HonestTick, TickType, TickLocals
  <2>3. (RouterVerified /\ HonestDisk /\ HonestCdn)'
    BY <1>1 DEF TickerFires, TickStart, RouterVerified, HonestDisk, HonestCdn
  <2> QED
    BY <2>1, <2>2, <2>3
<1>2. CASE PokeReceived
  <2>1. LoadedVerified'
    BY <1>2 DEF PokeReceived, TickStart, LoadedVerified, PastVerify, TickType
  <2>2. HonestTick'
    BY <1>2 DEF PokeReceived, TickStart, HonestTick, TickType, TickLocals
  <2>3. (RouterVerified /\ HonestDisk /\ HonestCdn)'
    BY <1>2 DEF PokeReceived, TickStart, RouterVerified, HonestDisk, HonestCdn
  <2> QED
    BY <2>1, <2>2, <2>3
<1>3. CASE HupReceived
  <2>1. LoadedVerified'
    BY <1>3 DEF HupReceived, TickStart, LoadedVerified, PastVerify, TickType
  <2>2. HonestTick'
    BY <1>3 DEF HupReceived, TickStart, HonestTick, TickType, TickLocals
  <2>3. (RouterVerified /\ HonestDisk /\ HonestCdn)'
    BY <1>3 DEF HupReceived, TickStart, RouterVerified, HonestDisk, HonestCdn
  <2> QED
    BY <2>1, <2>2, <2>3
<1>4. ASSUME NEW w \in Workers, AdminReload(w) PROVE Others'
  <2>1. LoadedVerified'
    BY <1>4 DEF AdminReload, TickStart, LoadedVerified, PastVerify, TickType
  <2>2. HonestTick'
    BY <1>4 DEF AdminReload, TickStart, HonestTick, TickType, TickLocals
  <2>3. (RouterVerified /\ HonestDisk /\ HonestCdn)'
    BY <1>4 DEF AdminReload, TickStart, RouterVerified, HonestDisk, HonestCdn
  <2> QED
    BY <2>1, <2>2, <2>3
<1>5. ASSUME NEW w \in Workers, Tick(w) PROVE Others'
  <2>1. CASE FetchBundle(w)
    <3>1. LoadedVerified'
      BY <2>1 DEF FetchBundle, Fault, NoFault, LoadedVerified, PastVerify, TickType
    <3>2. HonestTick'
      BY <2>1 DEF FetchBundle, Fault, NoFault, HonestTick, TickType, TickLocals, Blank
    <3>3. (RouterVerified /\ HonestDisk /\ HonestCdn)'
      BY <2>1 DEF FetchBundle, Fault, NoFault, RouterVerified, HonestDisk, HonestCdn
    <3> QED
      BY <3>1, <3>2, <3>3
  <2>2. CASE FetchSig(w)
    <3>1. LoadedVerified'
      BY <2>2 DEF FetchSig, Fault, NoFault, LoadedVerified, PastVerify, TickType
    <3>2. HonestTick'
      BY <2>2 DEF FetchSig, Fault, NoFault, HonestTick, TickType, TickLocals, Blank, HonestCdn
    <3>3. (RouterVerified /\ HonestDisk /\ HonestCdn)'
      BY <2>2 DEF FetchSig, Fault, NoFault, RouterVerified, HonestDisk, HonestCdn
    <3> QED
      BY <3>1, <3>2, <3>3
  <2>3. CASE CompareHash(w)
    <3>1. LoadedVerified'
      BY <2>3 DEF CompareHash, LoadedVerified, PastVerify, TickType
    <3>2. HonestTick'
      BY <2>3 DEF CompareHash, HonestTick, TickType, TickLocals, Blank
    <3>3. (RouterVerified /\ HonestDisk /\ HonestCdn)'
      BY <2>3 DEF CompareHash, RouterVerified, HonestDisk, HonestCdn
    <3> QED
      BY <3>1, <3>2, <3>3
  <2>4. CASE StageBundle(w)
    <3>1. LoadedVerified'
      BY <2>4 DEF StageBundle, Write, Fault, NoFault, LoadedVerified, PastVerify, TickType
    <3>2. HonestTick'
      BY <2>4 DEF StageBundle, Write, Fault, NoFault, HonestTick, TickType, TickLocals, Blank
    <3>3. HonestDisk'
      BY <2>4 DEF StageBundle, Write, Fault, NoFault, HonestDisk, DiskType, Kinds, Slots
    <3>4. (RouterVerified /\ HonestCdn)'
      BY <2>4 DEF StageBundle, Write, Fault, NoFault, RouterVerified, HonestCdn
    <3> QED
      BY <3>1, <3>2, <3>3, <3>4
  <2>5. CASE StageSig(w)
    <3>1. LoadedVerified'
      BY <2>5 DEF StageSig, Write, Fault, NoFault, LoadedVerified, PastVerify, TickType
    <3>2. HonestTick'
      BY <2>5 DEF StageSig, Write, Fault, NoFault, HonestTick, TickType, TickLocals
    <3>3. HonestDisk'
      BY <2>5 DEF StageSig, Write, Fault, NoFault, HonestDisk, DiskType, Kinds, Slots, HonestTick
    <3>4. (RouterVerified /\ HonestCdn)'
      BY <2>5 DEF StageSig, Write, Fault, NoFault, RouterVerified, HonestCdn
    <3> QED
      BY <3>1, <3>2, <3>3, <3>4
  <2>6. CASE Unstage(w)
    <3>1. LoadedVerified'
      BY <2>6 DEF Unstage, Write, Fault, NoFault, LoadedVerified, PastVerify, TickType
    <3>2. HonestTick'
      BY <2>6 DEF Unstage, Write, Fault, NoFault, HonestTick, TickType, TickLocals, Blank
    <3>3. HonestDisk'
      BY <2>6 DEF Unstage, Write, Fault, NoFault, HonestDisk, DiskType, Kinds, Slots
    <3>4. (RouterVerified /\ HonestCdn)'
      BY <2>6 DEF Unstage, Write, Fault, NoFault, RouterVerified, HonestCdn
    <3> QED
      BY <3>1, <3>2, <3>3, <3>4
  <2>7. CASE ReadPrev(w)
    <3>1. LoadedVerified'
      BY <2>7 DEF ReadPrev, LoadedVerified, PastVerify, TickType
    <3>2. HonestTick'
      BY <2>7 DEF ReadPrev, HonestTick, TickType, TickLocals
    <3>3. (RouterVerified /\ HonestDisk /\ HonestCdn)'
      BY <2>7 DEF ReadPrev, RouterVerified, HonestDisk, HonestCdn
    <3> QED
      BY <3>1, <3>2, <3>3
  <2>8. CASE ReadBundle(w)
    <3>1. LoadedVerified'
      BY <2>8 DEF ReadBundle, Fault, NoFault, LoadedVerified, PastVerify, TickType
    <3>2. HonestTick'
      BY <2>8 DEF ReadBundle, Fault, NoFault, HonestTick, TickType, TickLocals
    <3>3. (RouterVerified /\ HonestDisk /\ HonestCdn)'
      BY <2>8 DEF ReadBundle, Fault, NoFault, RouterVerified, HonestDisk, HonestCdn
    <3> QED
      BY <3>1, <3>2, <3>3
  <2>9. CASE Verify(w)
    <3>1. LoadedVerified'
      <4>1. \A v \in Workers : tick'[v].loaded = tick[v].loaded
        BY <2>9 DEF Verify, TickType, TickLocals
      <4>2. \A v \in Workers \ {w} : pc'[v] = pc[v]
        BY <2>9 DEF Verify, TickType
      <4>3. pc'[w] \in PastVerify => tick[w].loaded \in Signed \cap Loadable
        <5>1. disk["sig"]["staged"] \in Signed \cup {BadSig, None}
          BY DEF HonestDisk, Slots
        <5>2. pc'[w] # "rmBundle" => Accepts(tick[w].loaded, disk["sig"]["staged"], tick[w].prev)
          BY <2>9 DEF Verify, TickType
        <5> QED
          BY <5>1, <5>2, AcceptedIsVerified DEF PastVerify
      <4> QED
        BY <4>1, <4>2, <4>3 DEF LoadedVerified
    <3>2. HonestTick'
      BY <2>9 DEF Verify, Fault, NoFault, HonestTick, TickType, TickLocals
    <3>3. (RouterVerified /\ HonestDisk /\ HonestCdn)'
      BY <2>9 DEF Verify, Fault, NoFault, RouterVerified, HonestDisk, HonestCdn
    <3> QED
      BY <3>1, <3>2, <3>3
  <2>10. CASE RemoveStagedBundle(w)
    <3>1. LoadedVerified'
      BY <2>10 DEF RemoveStagedBundle, Write, Fault, NoFault, LoadedVerified, PastVerify, TickType
    <3>2. HonestDisk'
      BY <2>10 DEF RemoveStagedBundle, Write, Fault, NoFault, HonestDisk, DiskType, Kinds, Slots
    <3>3. (RouterVerified /\ HonestTick /\ HonestCdn)'
      BY <2>10 DEF RemoveStagedBundle, Write, Fault, NoFault, RouterVerified, HonestTick,
             HonestCdn
    <3> QED
      BY <3>1, <3>2, <3>3
  <2>11. CASE RemoveStagedSig(w)
    <3>1. LoadedVerified'
      BY <2>11 DEF RemoveStagedSig, Write, Fault, NoFault, LoadedVerified, PastVerify, TickType
    <3>2. HonestTick'
      BY <2>11 DEF RemoveStagedSig, Write, Fault, NoFault, HonestTick, TickType, TickLocals, Blank
    <3>3. HonestDisk'
      BY <2>11 DEF RemoveStagedSig, Write, Fault, NoFault, HonestDisk, DiskType, Kinds, Slots
    <3>4. (RouterVerified /\ HonestCdn)'
      BY <2>11 DEF RemoveStagedSig, Write, Fault, NoFault, RouterVerified, HonestCdn
    <3> QED
      BY <3>1, <3>2, <3>3, <3>4
  <2>12. ASSUME NEW k \in Kinds, PromoteStat(w, k) PROVE Others'
    <3>1. LoadedVerified'
      BY <2>12 DEF PromoteStat, StatAt, RotateAt, InstallAt, Fault, NoFault, LoadedVerified,
             PastVerify, TickType, Kinds
    <3>2. HonestTick'
      BY <2>12 DEF PromoteStat, StatAt, RotateAt, InstallAt, Fault, NoFault, HonestTick, TickType,
             TickLocals, Blank
    <3>3. (RouterVerified /\ HonestDisk /\ HonestCdn)'
      BY <2>12 DEF PromoteStat, StatAt, RotateAt, InstallAt, Fault, NoFault, RouterVerified,
             HonestDisk, HonestCdn
    <3> QED
      BY <3>1, <3>2, <3>3
  <2>13. ASSUME NEW k \in Kinds, PromoteRotate(w, k) PROVE Others'
    <3>1. LoadedVerified'
      BY <2>13 DEF PromoteRotate, RotateAt, InstallAt, Move, Rename, Fault, NoFault,
             LoadedVerified, PastVerify, TickType, Kinds
    <3>2. HonestTick'
      BY <2>13 DEF PromoteRotate, RotateAt, InstallAt, Move, Rename, Fault, NoFault, HonestTick,
             TickType, TickLocals, Blank
    <3>3. HonestDisk'
      BY <2>13 DEF PromoteRotate, RotateAt, InstallAt, Move, Rename, Fault, NoFault, HonestDisk,
             DiskType, Kinds, Slots
    <3>4. (RouterVerified /\ HonestCdn)'
      BY <2>13 DEF PromoteRotate, RotateAt, InstallAt, Move, Rename, Fault, NoFault,
             RouterVerified, HonestCdn
    <3> QED
      BY <3>1, <3>2, <3>3, <3>4
  <2>14. ASSUME NEW k \in Kinds, PromoteInstall(w, k) PROVE Others'
    <3>1. LoadedVerified'
      BY <2>14 DEF PromoteInstall, InstallAt, PromotedTo, Move, Rename, Fault, NoFault,
             LoadedVerified, PastVerify, TickType, Kinds
    <3>2. HonestTick'
      BY <2>14 DEF PromoteInstall, InstallAt, PromotedTo, Move, Rename, Fault, NoFault,
             HonestTick, TickType, TickLocals, Blank
    <3>3. HonestDisk'
      BY <2>14 DEF PromoteInstall, InstallAt, PromotedTo, Move, Rename, Fault, NoFault,
             HonestDisk, DiskType, Kinds, Slots
    <3>4. (RouterVerified /\ HonestCdn)'
      BY <2>14 DEF PromoteInstall, InstallAt, PromotedTo, Move, Rename, Fault, NoFault,
             RouterVerified, HonestCdn
    <3> QED
      BY <3>1, <3>2, <3>3, <3>4
  <2>15. CASE HolderStore(w)
    <3>1. RouterVerified'
      BY <2>15 DEF HolderStore, RouterVerified, LoadedVerified, PastVerify
    <3>2. LoadedVerified'
      BY <2>15 DEF HolderStore, LoadedVerified, PastVerify, TickType
    <3>3. (HonestTick /\ HonestDisk /\ HonestCdn)'
      BY <2>15 DEF HolderStore, HonestTick, HonestDisk, HonestCdn
    <3> QED
      BY <3>1, <3>2, <3>3
  <2>16. CASE Remember(w)
    <3>1. LoadedVerified'
      BY <2>16 DEF Remember, LoadedVerified, PastVerify, TickType
    <3>2. (RouterVerified /\ HonestTick /\ HonestDisk /\ HonestCdn)'
      BY <2>16 DEF Remember, RouterVerified, HonestTick, HonestDisk, HonestCdn
    <3> QED
      BY <3>1, <3>2
  <2>17. CASE OnSwap(w)
    <3>1. RouterVerified'
      BY <2>17 DEF OnSwap, RouterVerified, LoadedVerified, PastVerify
    <3>2. LoadedVerified'
      BY <2>17 DEF OnSwap, LoadedVerified, PastVerify, TickType
    <3>3. HonestTick'
      BY <2>17 DEF OnSwap, HonestTick, TickType, TickLocals, Blank
    <3>4. (HonestDisk /\ HonestCdn)'
      BY <2>17 DEF OnSwap, HonestDisk, HonestCdn
    <3> QED
      BY <3>1, <3>2, <3>3, <3>4
  <2> QED
    BY <1>5, <2>1, <2>2, <2>3, <2>4, <2>5, <2>6, <2>7, <2>8, <2>9, <2>10, <2>11,
       <2>12, <2>13, <2>14, <2>15, <2>16, <2>17 DEF Tick
<1>6. CASE Start
  <2>1. RouterVerified'
    BY <1>6, AcceptedIsVerified DEF Start, RouterVerified, HonestDisk, Slots
  <2>2. (LoadedVerified /\ HonestTick /\ HonestDisk /\ HonestCdn)'
    BY <1>6 DEF Start, LoadedVerified, HonestTick, HonestDisk, HonestCdn
  <2> QED
    BY <2>1, <2>2
<1>7. CASE Stop
  <2>1. LoadedVerified'
    BY <1>7 DEF Stop, Exit, LoadedVerified, PastVerify, TickType
  <2>2. HonestTick'
    BY <1>7 DEF Stop, Exit, HonestTick, TickType, TickLocals, Blank
  <2>3. (RouterVerified /\ HonestDisk /\ HonestCdn)'
    BY <1>7 DEF Stop, Exit, RouterVerified, HonestDisk, HonestCdn
  <2> QED
    BY <2>1, <2>2, <2>3
<1>8. CASE Crash
  <2>1. LoadedVerified'
    BY <1>8 DEF Crash, Exit, LoadedVerified, PastVerify, TickType
  <2>2. HonestTick'
    BY <1>8 DEF Crash, Exit, HonestTick, TickType, TickLocals, Blank
  <2>3. (RouterVerified /\ HonestDisk /\ HonestCdn)'
    BY <1>8 DEF Crash, Exit, RouterVerified, HonestDisk, HonestCdn
  <2> QED
    BY <2>1, <2>2, <2>3
<1>9. CASE Sighup
  BY <1>9 DEF Sighup, RouterVerified, LoadedVerified, HonestTick, HonestDisk, HonestCdn
<1>10. CASE Sigusr1
  BY <1>10 DEF Sigusr1, RouterVerified, LoadedVerified, HonestTick, HonestDisk, HonestCdn
<1>11. ASSUME NEW b \in Offered, PublishBundle(b) PROVE Others'
  <2>1. HonestCdn'
    BY <1>11 DEF PublishBundle, HonestCdn, EnvType
  <2>2. (RouterVerified /\ LoadedVerified /\ HonestTick /\ HonestDisk)'
    BY <1>11 DEF PublishBundle, RouterVerified, LoadedVerified, HonestTick, HonestDisk
  <2> QED
    BY <2>1, <2>2
<1>12. ASSUME NEW s \in (Offered \cap Signed) \cup Forgeries, PublishSig(s) PROVE Others'
  <2>1. HonestCdn'
    BY <1>12 DEF PublishSig, HonestCdn, EnvType
  <2>2. (RouterVerified /\ LoadedVerified /\ HonestTick /\ HonestDisk)'
    BY <1>12 DEF PublishSig, RouterVerified, LoadedVerified, HonestTick, HonestDisk
  <2> QED
    BY <2>1, <2>2
<1>13. CASE RollbackBundle
  <2>1. HonestDisk'
    BY <1>13 DEF RollbackBundle, Move, Rename, HonestDisk, DiskType, Kinds, Slots
  <2>2. (RouterVerified /\ LoadedVerified /\ HonestTick /\ HonestCdn)'
    BY <1>13 DEF RollbackBundle, Move, Rename, RouterVerified, LoadedVerified, HonestTick,
           HonestCdn
  <2> QED
    BY <2>1, <2>2
<1>14. CASE RollbackSig
  <2>1. HonestDisk'
    BY <1>14 DEF RollbackSig, Move, Rename, HonestDisk, DiskType, Kinds, Slots
  <2>2. (RouterVerified /\ LoadedVerified /\ HonestTick /\ HonestCdn)'
    BY <1>14 DEF RollbackSig, Move, Rename, RouterVerified, LoadedVerified, HonestTick, HonestCdn
  <2> QED
    BY <2>1, <2>2
<1>15. ASSUME NEW b \in Pushed, PushBundle(b) PROVE Others'
  <2>1. HonestDisk'
    BY <1>15 DEF PushBundle, Write, HonestDisk, DiskType, Kinds, Slots
  <2>2. (RouterVerified /\ LoadedVerified /\ HonestTick /\ HonestCdn)'
    BY <1>15 DEF PushBundle, Write, RouterVerified, LoadedVerified, HonestTick, HonestCdn
  <2> QED
    BY <2>1, <2>2
<1>16. ASSUME NEW b \in Pushed, PushSig(b) PROVE Others'
  <2>1. HonestDisk'
    BY <1>16 DEF PushSig, Write, HonestDisk, DiskType, Kinds, Slots
  <2>2. (RouterVerified /\ LoadedVerified /\ HonestTick /\ HonestCdn)'
    BY <1>16 DEF PushSig, Write, RouterVerified, LoadedVerified, HonestTick, HonestCdn
  <2> QED
    BY <2>1, <2>2
<1>17. ASSUME NEW b \in Pushed, PushHup(b) PROVE Others'
  BY <1>17 DEF PushHup, RouterVerified, LoadedVerified, HonestTick, HonestDisk, HonestCdn
<1>18. CASE UNCHANGED vars
  BY <1>18 DEF vars, RouterVerified, LoadedVerified, HonestTick, HonestDisk, HonestCdn
<1> QED
  BY <1>1, <1>2, <1>3, <1>4, <1>5, <1>6, <1>7, <1>8, <1>9, <1>10, <1>11, <1>12,
     <1>13, <1>14, <1>15, <1>16, <1>17, <1>18 DEF Next, Operator

\* However many Ticks, signals and admin reloads overlap, and whatever fails or
\* crashes, the live router and the egress host list come from bundles that
\* passed LoadAndVerify.
THEOREM RouterAlwaysVerified == Spec => []RouterVerified
<1>1. VerifiedInv => RouterVerified
  BY DEF VerifiedInv
<1> QED
  BY InitVerified, NextVerified, <1>1, PTL DEF Spec
-----------------------------------------------------------------------------
(* With one Tick at a time the version gate holds. *)

\* Only one goroutine ever calls Tick.
OneTick == \A v, w \in Workers : v = w

Serving == \A w \in Workers : pc[w] # "idle" => up

\* The version Tick gates on is still that of the live router ...
PrevIsLive ==
  \A w \in Workers : pc[w] \in {"readBundle", "readSig"} => tick[w].prev = holder

\* ... and once accepted, the new one is higher until it is stored.
Gated ==
  \A w \in Workers :
    pc[w] \in PastVerify \ {"remember", "onSwap"} => Version[tick[w].loaded] > Version[holder]

GateInv == VerifiedInv /\ Serving /\ PrevIsLive /\ Gated

LEMMA InitGate == Init => GateInv
<1>1. Init => VerifiedInv
  BY InitVerified
<1>2. Init => Serving /\ PrevIsLive /\ Gated
  BY DEF Init, Serving, PrevIsLive, Gated, PastVerify
<1> QED
  BY <1>1, <1>2 DEF GateInv

LEMMA NextGate ==
  ASSUME OneTick PROVE GateInv /\ [Next]_vars => GateInv'
<1> SUFFICES ASSUME GateInv, [Next]_vars PROVE GateInv'
  OBVIOUS
<1> DEFINE Gate == Serving /\ PrevIsLive /\ Gated
<1>0. TickType /\ VerifiedInv /\ Gate
  BY DEF GateInv, VerifiedInv, TypeOK
<1> SUFFICES Gate'
  BY <1>0, NextVerified DEF GateInv
<1> USE <1>0, OneTick DEF OneTick, mem, chans, env, Goto, Return, Keep
<1>1. CASE TickerFires
  <2>1. Serving'
    BY <1>1 DEF TickerFires, TickStart, Serving, TickType
  <2>2. PrevIsLive'
    BY <1>1 DEF TickerFires, TickStart, PrevIsLive, TickType, TickLocals
  <2>3. Gated'
    BY <1>1 DEF TickerFires, TickStart, Gated, PastVerify, TickType, TickLocals
  <2> QED
    BY <2>1, <2>2, <2>3
<1>2. CASE PokeReceived
  <2>1. Serving'
    BY <1>2 DEF PokeReceived, TickStart, Serving, TickType
  <2>2. PrevIsLive'
    BY <1>2 DEF PokeReceived, TickStart, PrevIsLive, TickType, TickLocals
  <2>3. Gated'
    BY <1>2 DEF PokeReceived, TickStart, Gated, PastVerify, TickType, TickLocals
  <2> QED
    BY <2>1, <2>2, <2>3
<1>3. CASE HupReceived
  <2>1. Serving'
    BY <1>3 DEF HupReceived, TickStart, Serving, TickType
  <2>2. PrevIsLive'
    BY <1>3 DEF HupReceived, TickStart, PrevIsLive, TickType, TickLocals
  <2>3. Gated'
    BY <1>3 DEF HupReceived, TickStart, Gated, PastVerify, TickType, TickLocals
  <2> QED
    BY <2>1, <2>2, <2>3
<1>4. ASSUME NEW w \in Workers, AdminReload(w) PROVE Gate'
  <2>1. Serving'
    BY <1>4 DEF AdminReload, TickStart, Serving, TickType
  <2>2. PrevIsLive'
    BY <1>4 DEF AdminReload, TickStart, PrevIsLive, TickType, TickLocals
  <2>3. Gated'
    BY <1>4 DEF AdminReload, TickStart, Gated, PastVerify, TickType, TickLocals
  <2> QED
    BY <2>1, <2>2, <2>3
<1>5. ASSUME NEW w \in Workers, Tick(w) PROVE Gate'
  <2>1. CASE FetchBundle(w)
    <3>1. Serving'
      BY <2>1 DEF FetchBundle, Serving, TickType
    <3>2. PrevIsLive'
      BY <2>1 DEF FetchBundle, PrevIsLive, TickType, TickLocals
    <3>3. Gated'
      BY <2>1 DEF FetchBundle, Gated, PastVerify, TickType, TickLocals
    <3> QED
      BY <3>1, <3>2, <3>3
  <2>2. CASE FetchSig(w)
    <3>1. Serving'
      BY <2>2 DEF FetchSig, Serving, TickType
    <3>2. PrevIsLive'
      BY <2>2 DEF FetchSig, PrevIsLive, TickType, TickLocals
    <3>3. Gated'
      BY <2>2 DEF FetchSig, Gated, PastVerify, TickType, TickLocals
    <3> QED
      BY <3>1, <3>2, <3>3
  <2>3. CASE CompareHash(w)
    <3>1. Serving'
      BY <2>3 DEF CompareHash, Serving, TickType
    <3>2. PrevIsLive'
      BY <2>3 DEF CompareHash, PrevIsLive, TickType, TickLocals
    <3>3. Gated'
      BY <2>3 DEF CompareHash, Gated, PastVerify, TickType, TickLocals
    <3> QED
      BY <3>1, <3>2, <3>3
  <2>4. CASE StageBundle(w)
    <3>1. Serving'
      BY <2>4 DEF StageBundle, Serving, TickType
    <3>2. PrevIsLive'
      BY <2>4 DEF StageBundle, PrevIsLive, TickType, TickLocals
    <3>3. Gated'
      BY <2>4 DEF StageBundle, Gated, PastVerify, TickType, TickLocals
    <3> QED
      BY <3>1, <3>2, <3>3
  <2>5. CASE StageSig(w)
    <3>1. Serving'
      BY <2>5 DEF StageSig, Serving, TickType
    <3>2. PrevIsLive'
      BY <2>5 DEF StageSig, PrevIsLive, TickType, TickLocals
    <3>3. Gated'
      BY <2>5 DEF StageSig, Gated, PastVerify, TickType, TickLocals
    <3> QED
      BY <3>1, <3>2, <3>3
  <2>6. CASE Unstage(w)
    <3>1. Serving'
      BY <2>6 DEF Unstage, Serving, TickType
    <3>2. PrevIsLive'
      BY <2>6 DEF Unstage, PrevIsLive, TickType, TickLocals
    <3>3. Gated'
      BY <2>6 DEF Unstage, Gated, PastVerify, TickType, TickLocals
    <3> QED
      BY <3>1, <3>2, <3>3
  <2>7. CASE ReadPrev(w)
    <3>1. Serving'
      BY <2>7 DEF ReadPrev, Serving, TickType
    <3>2. PrevIsLive'
      BY <2>7 DEF ReadPrev, PrevIsLive, TickType, TickLocals
    <3>3. Gated'
      BY <2>7 DEF ReadPrev, Gated, PastVerify, TickType, TickLocals
    <3> QED
      BY <3>1, <3>2, <3>3
  <2>8. CASE ReadBundle(w)
    <3>1. Serving'
      BY <2>8 DEF ReadBundle, Serving, TickType
    <3>2. PrevIsLive'
      BY <2>8 DEF ReadBundle, PrevIsLive, TickType, TickLocals
    <3>3. Gated'
      BY <2>8 DEF ReadBundle, Gated, PastVerify, TickType, TickLocals
    <3> QED
      BY <3>1, <3>2, <3>3
  <2>9. CASE Verify(w)
    <3>1. Serving'
      BY <2>9 DEF Verify, Serving, TickType
    <3>2. PrevIsLive'
      BY <2>9 DEF Verify, PrevIsLive, TickType, TickLocals
    <3>3. Gated'
      <4>1. tick[w].prev = holder /\ holder # None
        BY <2>9, BundleAssumption, SentinelAssumption
        DEF Verify, PrevIsLive, Serving, VerifiedInv, RouterVerified
      <4>2. pc'[w] # "rmBundle" => Version[tick[w].loaded] > Version[holder]
        BY <2>9, <4>1 DEF Verify, Accepts, Newer, TickType
      <4>3. tick'[w].loaded = tick[w].loaded /\ holder' = holder
        BY <2>9 DEF Verify, TickType, TickLocals
      <4> QED
        BY <4>2, <4>3 DEF Gated, PastVerify
    <3> QED
      BY <3>1, <3>2, <3>3
  <2>10. CASE RemoveStagedBundle(w)
    <3>1. Serving'
      BY <2>10 DEF RemoveStagedBundle, Serving, TickType
    <3>2. PrevIsLive'
      BY <2>10 DEF RemoveStagedBundle, PrevIsLive, TickType, TickLocals
    <3>3. Gated'
      BY <2>10 DEF RemoveStagedBundle, Gated, PastVerify, TickType, TickLocals
    <3> QED
      BY <3>1, <3>2, <3>3
  <2>11. CASE RemoveStagedSig(w)
    <3>1. Serving'
      BY <2>11 DEF RemoveStagedSig, Serving, TickType
    <3>2. PrevIsLive'
      BY <2>11 DEF RemoveStagedSig, PrevIsLive, TickType, TickLocals
    <3>3. Gated'
      BY <2>11 DEF RemoveStagedSig, Gated, PastVerify, TickType, TickLocals
    <3> QED
      BY <3>1, <3>2, <3>3
  <2>12. ASSUME NEW k \in Kinds, PromoteStat(w, k) PROVE Gate'
    <3>1. Serving'
      BY <2>12 DEF PromoteStat, StatAt, RotateAt, InstallAt, Kinds, Serving, TickType
    <3>2. PrevIsLive'
      BY <2>12 DEF PromoteStat, StatAt, RotateAt, InstallAt, Kinds, PrevIsLive, TickType,
             TickLocals
    <3>3. Gated'
      BY <2>12 DEF PromoteStat, StatAt, RotateAt, InstallAt, Kinds, Gated, PastVerify, TickType,
             TickLocals
    <3> QED
      BY <3>1, <3>2, <3>3
  <2>13. ASSUME NEW k \in Kinds, PromoteRotate(w, k) PROVE Gate'
    <3>1. Serving'
      BY <2>13 DEF PromoteRotate, RotateAt, InstallAt, Kinds, Serving, TickType
    <3>2. PrevIsLive'
      BY <2>13 DEF PromoteRotate, RotateAt, InstallAt, Kinds, PrevIsLive, TickType, TickLocals
    <3>3. Gated'
      BY <2>13 DEF PromoteRotate, RotateAt, InstallAt, Kinds, Gated, PastVerify, TickType,
             TickLocals
    <3> QED
      BY <3>1, <3>2, <3>3
  <2>14. ASSUME NEW k \in Kinds, PromoteInstall(w, k) PROVE Gate'
    <3>1. Serving'
      BY <2>14 DEF PromoteInstall, InstallAt, PromotedTo, Kinds, Serving, TickType
    <3>2. PrevIsLive'
      BY <2>14 DEF PromoteInstall, InstallAt, PromotedTo, Kinds, PrevIsLive, TickType, TickLocals
    <3>3. Gated'
      BY <2>14 DEF PromoteInstall, InstallAt, PromotedTo, Kinds, Gated, PastVerify, TickType,
             TickLocals
    <3> QED
      BY <3>1, <3>2, <3>3
  <2>15. CASE HolderStore(w)
    <3>1. Serving'
      BY <2>15 DEF HolderStore, Serving, TickType
    <3>2. PrevIsLive'
      BY <2>15 DEF HolderStore, PrevIsLive, TickType, TickLocals
    <3>3. Gated'
      BY <2>15 DEF HolderStore, Gated, PastVerify, TickType, TickLocals
    <3> QED
      BY <3>1, <3>2, <3>3
  <2>16. CASE Remember(w)
    <3>1. Serving'
      BY <2>16 DEF Remember, Serving, TickType
    <3>2. PrevIsLive'
      BY <2>16 DEF Remember, PrevIsLive, TickType, TickLocals
    <3>3. Gated'
      BY <2>16 DEF Remember, Gated, PastVerify, TickType, TickLocals
    <3> QED
      BY <3>1, <3>2, <3>3
  <2>17. CASE OnSwap(w)
    <3>1. Serving'
      BY <2>17 DEF OnSwap, Serving, TickType
    <3>2. PrevIsLive'
      BY <2>17 DEF OnSwap, PrevIsLive, TickType, TickLocals
    <3>3. Gated'
      BY <2>17 DEF OnSwap, Gated, PastVerify, TickType, TickLocals
    <3> QED
      BY <3>1, <3>2, <3>3
  <2> QED
    BY <1>5, <2>1, <2>2, <2>3, <2>4, <2>5, <2>6, <2>7, <2>8, <2>9, <2>10, <2>11,
       <2>12, <2>13, <2>14, <2>15, <2>16, <2>17 DEF Tick
<1>6. CASE Start
  <2>1. Serving'
    BY <1>6 DEF Start, Serving, TickType
  <2>2. PrevIsLive'
    BY <1>6 DEF Start, PrevIsLive, Serving
  <2>3. Gated'
    BY <1>6 DEF Start, Gated, PastVerify, Serving
  <2> QED
    BY <2>1, <2>2, <2>3
<1>7. CASE Stop
  <2>1. Serving'
    BY <1>7 DEF Stop, Exit, Serving, TickType
  <2>2. PrevIsLive'
    BY <1>7 DEF Stop, Exit, PrevIsLive, TickType, TickLocals
  <2>3. Gated'
    BY <1>7 DEF Stop, Exit, Gated, PastVerify, TickType, TickLocals
  <2> QED
    BY <2>1, <2>2, <2>3
<1>8. CASE Crash
  <2>1. Serving'
    BY <1>8 DEF Crash, Exit, Serving, TickType
  <2>2. PrevIsLive'
    BY <1>8 DEF Crash, Exit, PrevIsLive, TickType, TickLocals
  <2>3. Gated'
    BY <1>8 DEF Crash, Exit, Gated, PastVerify, TickType, TickLocals
  <2> QED
    BY <2>1, <2>2, <2>3
<1>9. CASE Sighup
  BY <1>9 DEF Sighup, Serving, PrevIsLive, Gated
<1>10. CASE Sigusr1
  BY <1>10 DEF Sigusr1, Serving, PrevIsLive, Gated
<1>11. ASSUME NEW b \in Offered, PublishBundle(b) PROVE Gate'
  BY <1>11 DEF PublishBundle, Serving, PrevIsLive, Gated
<1>12. ASSUME NEW s \in (Offered \cap Signed) \cup Forgeries, PublishSig(s) PROVE Gate'
  BY <1>12 DEF PublishSig, Serving, PrevIsLive, Gated
<1>13. CASE RollbackBundle
  BY <1>13 DEF RollbackBundle, Serving, PrevIsLive, Gated
<1>14. CASE RollbackSig
  BY <1>14 DEF RollbackSig, Serving, PrevIsLive, Gated
<1>15. ASSUME NEW b \in Pushed, PushBundle(b) PROVE Gate'
  BY <1>15 DEF PushBundle, Serving, PrevIsLive, Gated
<1>16. ASSUME NEW b \in Pushed, PushSig(b) PROVE Gate'
  BY <1>16 DEF PushSig, Serving, PrevIsLive, Gated
<1>17. ASSUME NEW b \in Pushed, PushHup(b) PROVE Gate'
  BY <1>17 DEF PushHup, Serving, PrevIsLive, Gated
<1>18. CASE UNCHANGED vars
  BY <1>18 DEF vars, Serving, PrevIsLive, Gated
<1> QED
  BY <1>1, <1>2, <1>3, <1>4, <1>5, <1>6, <1>7, <1>8, <1>9, <1>10, <1>11, <1>12,
     <1>13, <1>14, <1>15, <1>16, <1>17, <1>18 DEF Next, Operator

\* Which steps write the live router: HolderStore, and those that change up.
LEMMA HolderWrites ==
  [Next]_vars => \/ holder' = holder
                 \/ ~ up \/ ~ up'
                 \/ \E w \in Workers : HolderStore(w)
<1> USE DEF mem, Keep
<1>1. ASSUME NEW w \in Workers, Tick(w) PROVE holder' = holder \/ HolderStore(w)
  BY <1>1 DEF Tick, FetchBundle, FetchSig, CompareHash, StageBundle, StageSig, Unstage,
     ReadPrev, ReadBundle, Verify, RemoveStagedBundle, RemoveStagedSig, PromoteStat,
     PromoteRotate, PromoteInstall, Remember, OnSwap
<1> QED
  BY <1>1 DEF Next, vars, TickerFires, PokeReceived, HupReceived, AdminReload, TickStart,
     Start, Stop, Crash, Exit, Sighup, Sigusr1, PublishBundle, PublishSig, Operator,
     RollbackBundle, RollbackSig, PushBundle, PushSig, PushHup

\* If only one goroutine calls Tick, a swap of the live router never lowers
\* bundle_version.  (With two, TLC finds a swap that does.)
THEOREM SingleTickMonotone == OneTick => (Spec => VersionMonotone)
<1> SUFFICES ASSUME OneTick PROVE Spec => VersionMonotone
  OBVIOUS
<1>1. GateInv /\ [Next]_vars => [up /\ up' => Version[holder'] >= Version[holder]]_vars
  <2> SUFFICES ASSUME GateInv, [Next]_vars, up, up' PROVE Version[holder'] >= Version[holder]
    OBVIOUS
  <2>1. holder \in Bundles
    BY BundleAssumption DEF GateInv, VerifiedInv, RouterVerified
  <2>2. Version[holder] \in Nat
    BY <2>1, BundleAssumption
  <2>3. CASE holder' = holder
    BY <2>2, <2>3
  <2>4. ASSUME NEW w \in Workers, HolderStore(w) PROVE Version[holder'] >= Version[holder]
    <3>1. Version[tick[w].loaded] > Version[holder]
      BY <2>4 DEF GateInv, Gated, PastVerify, HolderStore
    <3>2. tick[w].loaded \in Bundles
      BY <2>4, BundleAssumption DEF GateInv, VerifiedInv, LoadedVerified, PastVerify, HolderStore
    <3> QED
      BY <2>2, <2>4, <3>1, <3>2, BundleAssumption DEF HolderStore
  <2> QED
    BY <2>3, <2>4, HolderWrites
<1> QED
  BY InitGate, NextGate, <1>1, PTL DEF Spec, VersionMonotone

-----------------------------------------------------------------------------
(* With one Tick at a time BundleUpdater implements BundleService, for every *)
(* set of bundles, failures, crashes, pushes and rollbacks. *)

Fed == Offered \cup {Shipped}

\* Only content the CDN served reaches the staged file and a Tick's locals: a
\* pushed bundle is written to the active slot, which Tick never loads from.
FromFeed ==
  /\ cdn.bundle \in Fed
  /\ disk["bundle"]["staged"] \in Fed \cup {None}
  /\ \A w \in Workers : {tick[w].bundle, tick[w].loaded} \subseteq Fed \cup {None}

\* Nothing is live in a process that is down.
DownIsEmpty == ~ up => holder = None /\ egressHosts = None

\* Between Holder.Store and OnSwap the Tick still holds the live bundle.
StoredIsLive ==
  \A w \in Workers : pc[w] \in {"remember", "onSwap"} => tick[w].loaded = holder

ServiceInv == GateInv /\ FromFeed /\ DownIsEmpty /\ StoredIsLive

LEMMA InitService == Init => ServiceInv
<1> SUFFICES ASSUME Init PROVE ServiceInv
  OBVIOUS
<1>1. GateInv
  BY InitGate
<1>2. FromFeed
  BY DEF Init, FromFeed, Fed, Kinds, Slots, Blank
<1>3. DownIsEmpty /\ StoredIsLive
  BY DEF Init, DownIsEmpty, StoredIsLive
<1> QED
  BY <1>1, <1>2, <1>3 DEF ServiceInv

LEMMA NextService ==
  ASSUME OneTick, ServiceInv, [Next]_vars PROVE ServiceInv'
<1> DEFINE Rest == FromFeed /\ DownIsEmpty /\ StoredIsLive
<1>0. TickType /\ DiskType /\ Serving /\ Rest
  BY DEF ServiceInv, GateInv, VerifiedInv, TypeOK
<1> SUFFICES Rest'
  BY NextGate DEF ServiceInv
<1> USE <1>0, OneTick DEF OneTick, mem, chans, env, Goto, Return, Keep, Fault, NoFault

<1>1. CASE TickerFires
  <2>1. FromFeed'
    BY <1>1 DEF TickerFires, TickStart, FromFeed, Fed, TickType, TickLocals, Blank
  <2>2. DownIsEmpty'
    BY <1>1 DEF TickerFires, TickStart, DownIsEmpty, Serving
  <2>3. StoredIsLive'
    BY <1>1 DEF TickerFires, TickStart, StoredIsLive, TickType, TickLocals, Serving
  <2> QED
    BY <2>1, <2>2, <2>3
<1>2. CASE PokeReceived
  <2>1. FromFeed'
    BY <1>2 DEF PokeReceived, TickStart, FromFeed, Fed, TickType, TickLocals, Blank
  <2>2. DownIsEmpty'
    BY <1>2 DEF PokeReceived, TickStart, DownIsEmpty, Serving
  <2>3. StoredIsLive'
    BY <1>2 DEF PokeReceived, TickStart, StoredIsLive, TickType, TickLocals, Serving
  <2> QED
    BY <2>1, <2>2, <2>3
<1>3. CASE HupReceived
  <2>1. FromFeed'
    BY <1>3 DEF HupReceived, TickStart, FromFeed, Fed, TickType, TickLocals, Blank
  <2>2. DownIsEmpty'
    BY <1>3 DEF HupReceived, TickStart, DownIsEmpty, Serving
  <2>3. StoredIsLive'
    BY <1>3 DEF HupReceived, TickStart, StoredIsLive, TickType, TickLocals, Serving
  <2> QED
    BY <2>1, <2>2, <2>3
<1>4. ASSUME NEW w \in Workers, AdminReload(w) PROVE Rest'
  <2>1. FromFeed'
    BY <1>4 DEF AdminReload, TickStart, FromFeed, Fed, TickType, TickLocals, Blank
  <2>2. DownIsEmpty'
    BY <1>4 DEF AdminReload, TickStart, DownIsEmpty, Serving
  <2>3. StoredIsLive'
    BY <1>4 DEF AdminReload, TickStart, StoredIsLive, TickType, TickLocals, Serving
  <2> QED
    BY <2>1, <2>2, <2>3
<1>5. ASSUME NEW w \in Workers, Tick(w) PROVE Rest'
  <2>1. CASE FetchBundle(w)
    <3>1. FromFeed'
      BY <2>1 DEF FetchBundle, FromFeed, Fed, TickType, TickLocals, Blank
    <3>2. DownIsEmpty'
      BY <2>1 DEF FetchBundle, DownIsEmpty, Serving
    <3>3. StoredIsLive'
      BY <2>1 DEF FetchBundle, StoredIsLive, TickType, TickLocals, Serving
    <3> QED
      BY <3>1, <3>2, <3>3
  <2>2. CASE FetchSig(w)
    <3>1. FromFeed'
      BY <2>2 DEF FetchSig, FromFeed, Fed, TickType, TickLocals, Blank
    <3>2. DownIsEmpty'
      BY <2>2 DEF FetchSig, DownIsEmpty, Serving
    <3>3. StoredIsLive'
      BY <2>2 DEF FetchSig, StoredIsLive, TickType, TickLocals, Serving
    <3> QED
      BY <3>1, <3>2, <3>3
  <2>3. CASE CompareHash(w)
    <3>1. FromFeed'
      BY <2>3 DEF CompareHash, FromFeed, Fed, TickType, TickLocals, Blank
    <3>2. DownIsEmpty'
      BY <2>3 DEF CompareHash, DownIsEmpty, Serving
    <3>3. StoredIsLive'
      BY <2>3 DEF CompareHash, StoredIsLive, TickType, TickLocals, Serving
    <3> QED
      BY <3>1, <3>2, <3>3
  <2>4. CASE StageBundle(w)
    <3>1. FromFeed'
      BY <2>4 DEF StageBundle, Write, FromFeed, Fed, TickType, TickLocals, Blank, DiskType, Kinds,
             Slots
    <3>2. DownIsEmpty'
      BY <2>4 DEF StageBundle, Write, DownIsEmpty, Serving
    <3>3. StoredIsLive'
      BY <2>4 DEF StageBundle, Write, StoredIsLive, TickType, TickLocals, Serving
    <3> QED
      BY <3>1, <3>2, <3>3
  <2>5. CASE StageSig(w)
    <3>1. FromFeed'
      BY <2>5 DEF StageSig, Write, FromFeed, Fed, TickType, TickLocals, Blank, DiskType, Kinds,
             Slots
    <3>2. DownIsEmpty'
      BY <2>5 DEF StageSig, Write, DownIsEmpty, Serving
    <3>3. StoredIsLive'
      BY <2>5 DEF StageSig, Write, StoredIsLive, TickType, TickLocals, Serving
    <3> QED
      BY <3>1, <3>2, <3>3
  <2>6. CASE Unstage(w)
    <3>1. FromFeed'
      BY <2>6 DEF Unstage, Write, FromFeed, Fed, TickType, TickLocals, Blank, DiskType, Kinds,
             Slots
    <3>2. DownIsEmpty'
      BY <2>6 DEF Unstage, Write, DownIsEmpty, Serving
    <3>3. StoredIsLive'
      BY <2>6 DEF Unstage, Write, StoredIsLive, TickType, TickLocals, Serving
    <3> QED
      BY <3>1, <3>2, <3>3
  <2>7. CASE ReadPrev(w)
    <3>1. FromFeed'
      BY <2>7 DEF ReadPrev, FromFeed, Fed, TickType, TickLocals, Blank
    <3>2. DownIsEmpty'
      BY <2>7 DEF ReadPrev, DownIsEmpty, Serving
    <3>3. StoredIsLive'
      BY <2>7 DEF ReadPrev, StoredIsLive, TickType, TickLocals, Serving
    <3> QED
      BY <3>1, <3>2, <3>3
  <2>8. CASE ReadBundle(w)
    <3>1. FromFeed'
      BY <2>8 DEF ReadBundle, FromFeed, Fed, TickType, TickLocals, Blank
    <3>2. DownIsEmpty'
      BY <2>8 DEF ReadBundle, DownIsEmpty, Serving
    <3>3. StoredIsLive'
      BY <2>8 DEF ReadBundle, StoredIsLive, TickType, TickLocals, Serving
    <3> QED
      BY <3>1, <3>2, <3>3
  <2>9. CASE Verify(w)
    <3>1. FromFeed'
      BY <2>9 DEF Verify, FromFeed, Fed, TickType, TickLocals, Blank
    <3>2. DownIsEmpty'
      BY <2>9 DEF Verify, DownIsEmpty, Serving
    <3>3. StoredIsLive'
      BY <2>9 DEF Verify, StoredIsLive, TickType, TickLocals, Serving
    <3> QED
      BY <3>1, <3>2, <3>3
  <2>10. CASE RemoveStagedBundle(w)
    <3>1. FromFeed'
      BY <2>10 DEF RemoveStagedBundle, Write, FromFeed, Fed, TickType, TickLocals, Blank,
             DiskType, Kinds, Slots
    <3>2. DownIsEmpty'
      BY <2>10 DEF RemoveStagedBundle, Write, DownIsEmpty, Serving
    <3>3. StoredIsLive'
      BY <2>10 DEF RemoveStagedBundle, Write, StoredIsLive, TickType, TickLocals, Serving
    <3> QED
      BY <3>1, <3>2, <3>3
  <2>11. CASE RemoveStagedSig(w)
    <3>1. FromFeed'
      BY <2>11 DEF RemoveStagedSig, Write, FromFeed, Fed, TickType, TickLocals, Blank, DiskType,
             Kinds, Slots
    <3>2. DownIsEmpty'
      BY <2>11 DEF RemoveStagedSig, Write, DownIsEmpty, Serving
    <3>3. StoredIsLive'
      BY <2>11 DEF RemoveStagedSig, Write, StoredIsLive, TickType, TickLocals, Serving
    <3> QED
      BY <3>1, <3>2, <3>3
  <2>12. ASSUME NEW k \in Kinds, PromoteStat(w, k) PROVE Rest'
    <3>1. FromFeed'
      BY <2>12 DEF PromoteStat, StatAt, RotateAt, InstallAt, Kinds, FromFeed, Fed, TickType,
             TickLocals, Blank, DiskType, Kinds, Slots
    <3>2. DownIsEmpty'
      BY <2>12 DEF PromoteStat, StatAt, RotateAt, InstallAt, Kinds, DownIsEmpty, Serving
    <3>3. StoredIsLive'
      BY <2>12 DEF PromoteStat, StatAt, RotateAt, InstallAt, Kinds, StoredIsLive, TickType,
             TickLocals, Serving
    <3> QED
      BY <3>1, <3>2, <3>3
  <2>13. ASSUME NEW k \in Kinds, PromoteRotate(w, k) PROVE Rest'
    <3>1. FromFeed'
      BY <2>13 DEF PromoteRotate, RotateAt, InstallAt, Kinds, Move, Rename, FromFeed, Fed,
             TickType, TickLocals, Blank, DiskType, Kinds, Slots
    <3>2. DownIsEmpty'
      BY <2>13 DEF PromoteRotate, RotateAt, InstallAt, Kinds, Move, Rename, DownIsEmpty, Serving
    <3>3. StoredIsLive'
      BY <2>13 DEF PromoteRotate, RotateAt, InstallAt, Kinds, Move, Rename, StoredIsLive,
             TickType, TickLocals, Serving
    <3> QED
      BY <3>1, <3>2, <3>3
  <2>14. ASSUME NEW k \in Kinds, PromoteInstall(w, k) PROVE Rest'
    <3>1. FromFeed'
      BY <2>14 DEF PromoteInstall, InstallAt, PromotedTo, Kinds, Move, Rename, FromFeed, Fed,
             TickType, TickLocals, Blank, DiskType, Kinds, Slots
    <3>2. DownIsEmpty'
      BY <2>14 DEF PromoteInstall, InstallAt, PromotedTo, Kinds, Move, Rename, DownIsEmpty,
             Serving
    <3>3. StoredIsLive'
      BY <2>14 DEF PromoteInstall, InstallAt, PromotedTo, Kinds, Move, Rename, StoredIsLive,
             TickType, TickLocals, Serving
    <3> QED
      BY <3>1, <3>2, <3>3
  <2>15. CASE HolderStore(w)
    <3>1. FromFeed'
      BY <2>15 DEF HolderStore, FromFeed, Fed, TickType, TickLocals, Blank
    <3>2. DownIsEmpty'
      BY <2>15 DEF HolderStore, DownIsEmpty, Serving
    <3>3. StoredIsLive'
      BY <2>15 DEF HolderStore, StoredIsLive, TickType, TickLocals, Serving
    <3> QED
      BY <3>1, <3>2, <3>3
  <2>16. CASE Remember(w)
    <3>1. FromFeed'
      BY <2>16 DEF Remember, FromFeed, Fed, TickType, TickLocals, Blank
    <3>2. DownIsEmpty'
      BY <2>16 DEF Remember, DownIsEmpty, Serving
    <3>3. StoredIsLive'
      BY <2>16 DEF Remember, StoredIsLive, TickType, TickLocals, Serving
    <3> QED
      BY <3>1, <3>2, <3>3
  <2>17. CASE OnSwap(w)
    <3>1. FromFeed'
      BY <2>17 DEF OnSwap, FromFeed, Fed, TickType, TickLocals, Blank
    <3>2. DownIsEmpty'
      BY <2>17 DEF OnSwap, DownIsEmpty, Serving
    <3>3. StoredIsLive'
      BY <2>17 DEF OnSwap, StoredIsLive, TickType, TickLocals, Serving
    <3> QED
      BY <3>1, <3>2, <3>3
  <2> QED
    BY <1>5, <2>1, <2>2, <2>3, <2>4, <2>5, <2>6, <2>7, <2>8, <2>9, <2>10, <2>11, <2>12, <2>13,
       <2>14, <2>15, <2>16, <2>17 DEF Tick
<1>6. CASE Start
  <2>1. FromFeed'
    BY <1>6 DEF Start, FromFeed, Fed, TickType, TickLocals, Blank
  <2>2. DownIsEmpty'
    BY <1>6 DEF Start, DownIsEmpty, Serving
  <2>3. StoredIsLive'
    BY <1>6 DEF Start, StoredIsLive, TickType, TickLocals, Serving
  <2> QED
    BY <2>1, <2>2, <2>3
<1>7. CASE Stop
  <2>1. FromFeed'
    BY <1>7 DEF Stop, Exit, FromFeed, Fed, TickType, TickLocals, Blank
  <2>2. DownIsEmpty'
    BY <1>7 DEF Stop, Exit, DownIsEmpty, Serving
  <2>3. StoredIsLive'
    BY <1>7 DEF Stop, Exit, StoredIsLive, TickType, TickLocals, Serving
  <2> QED
    BY <2>1, <2>2, <2>3
<1>8. CASE Crash
  <2>1. FromFeed'
    BY <1>8 DEF Crash, Exit, FromFeed, Fed, TickType, TickLocals, Blank
  <2>2. DownIsEmpty'
    BY <1>8 DEF Crash, Exit, DownIsEmpty, Serving
  <2>3. StoredIsLive'
    BY <1>8 DEF Crash, Exit, StoredIsLive, TickType, TickLocals, Serving
  <2> QED
    BY <2>1, <2>2, <2>3
<1>9. CASE Sighup
  <2>1. FromFeed'
    BY <1>9 DEF Sighup, FromFeed, Fed, TickType, TickLocals, Blank
  <2>2. DownIsEmpty'
    BY <1>9 DEF Sighup, DownIsEmpty, Serving
  <2>3. StoredIsLive'
    BY <1>9 DEF Sighup, StoredIsLive, TickType, TickLocals, Serving
  <2> QED
    BY <2>1, <2>2, <2>3
<1>10. CASE Sigusr1
  <2>1. FromFeed'
    BY <1>10 DEF Sigusr1, FromFeed, Fed, TickType, TickLocals, Blank
  <2>2. DownIsEmpty'
    BY <1>10 DEF Sigusr1, DownIsEmpty, Serving
  <2>3. StoredIsLive'
    BY <1>10 DEF Sigusr1, StoredIsLive, TickType, TickLocals, Serving
  <2> QED
    BY <2>1, <2>2, <2>3
<1>11. ASSUME NEW b \in Offered, PublishBundle(b) PROVE Rest'
  <2>1. FromFeed'
    BY <1>11 DEF PublishBundle, FromFeed, Fed, TickType, TickLocals, Blank
  <2>2. DownIsEmpty'
    BY <1>11 DEF PublishBundle, DownIsEmpty, Serving
  <2>3. StoredIsLive'
    BY <1>11 DEF PublishBundle, StoredIsLive, TickType, TickLocals, Serving
  <2> QED
    BY <2>1, <2>2, <2>3
<1>12. ASSUME NEW s \in (Offered \cap Signed) \cup Forgeries, PublishSig(s) PROVE Rest'
  <2>1. FromFeed'
    BY <1>12 DEF PublishSig, FromFeed, Fed, TickType, TickLocals, Blank
  <2>2. DownIsEmpty'
    BY <1>12 DEF PublishSig, DownIsEmpty, Serving
  <2>3. StoredIsLive'
    BY <1>12 DEF PublishSig, StoredIsLive, TickType, TickLocals, Serving
  <2> QED
    BY <2>1, <2>2, <2>3
<1>13. CASE RollbackBundle
  <2>1. FromFeed'
    BY <1>13 DEF RollbackBundle, Move, Rename, FromFeed, Fed, TickType, TickLocals, Blank,
           DiskType, Kinds, Slots
  <2>2. DownIsEmpty'
    BY <1>13 DEF RollbackBundle, Move, Rename, DownIsEmpty, Serving
  <2>3. StoredIsLive'
    BY <1>13 DEF RollbackBundle, Move, Rename, StoredIsLive, TickType, TickLocals, Serving
  <2> QED
    BY <2>1, <2>2, <2>3
<1>14. CASE RollbackSig
  <2>1. FromFeed'
    BY <1>14 DEF RollbackSig, Move, Rename, FromFeed, Fed, TickType, TickLocals, Blank, DiskType,
           Kinds, Slots
  <2>2. DownIsEmpty'
    BY <1>14 DEF RollbackSig, Move, Rename, DownIsEmpty, Serving
  <2>3. StoredIsLive'
    BY <1>14 DEF RollbackSig, Move, Rename, StoredIsLive, TickType, TickLocals, Serving
  <2> QED
    BY <2>1, <2>2, <2>3
<1>15. ASSUME NEW b \in Pushed, PushBundle(b) PROVE Rest'
  <2>1. FromFeed'
    BY <1>15 DEF PushBundle, Write, FromFeed, Fed, TickType, TickLocals, Blank, DiskType, Kinds,
           Slots
  <2>2. DownIsEmpty'
    BY <1>15 DEF PushBundle, Write, DownIsEmpty, Serving
  <2>3. StoredIsLive'
    BY <1>15 DEF PushBundle, Write, StoredIsLive, TickType, TickLocals, Serving
  <2> QED
    BY <2>1, <2>2, <2>3
<1>16. ASSUME NEW b \in Pushed, PushSig(b) PROVE Rest'
  <2>1. FromFeed'
    BY <1>16 DEF PushSig, Write, FromFeed, Fed, TickType, TickLocals, Blank, DiskType, Kinds,
           Slots
  <2>2. DownIsEmpty'
    BY <1>16 DEF PushSig, Write, DownIsEmpty, Serving
  <2>3. StoredIsLive'
    BY <1>16 DEF PushSig, Write, StoredIsLive, TickType, TickLocals, Serving
  <2> QED
    BY <2>1, <2>2, <2>3
<1>17. ASSUME NEW b \in Pushed, PushHup(b) PROVE Rest'
  <2>1. FromFeed'
    BY <1>17 DEF PushHup, FromFeed, Fed, TickType, TickLocals, Blank
  <2>2. DownIsEmpty'
    BY <1>17 DEF PushHup, DownIsEmpty, Serving
  <2>3. StoredIsLive'
    BY <1>17 DEF PushHup, StoredIsLive, TickType, TickLocals, Serving
  <2> QED
    BY <2>1, <2>2, <2>3
<1>18. CASE UNCHANGED vars
  <2>1. FromFeed'
    BY <1>18 DEF vars, FromFeed, Fed, TickType, TickLocals, Blank
  <2>2. DownIsEmpty'
    BY <1>18 DEF vars, DownIsEmpty, Serving
  <2>3. StoredIsLive'
    BY <1>18 DEF vars, StoredIsLive, TickType, TickLocals, Serving
  <2> QED
    BY <2>1, <2>2, <2>3
<1> QED
  BY <1>1, <1>2, <1>3, <1>4, <1>5, <1>6, <1>7, <1>8, <1>9, <1>10, <1>11, <1>12,
     <1>13, <1>14, <1>15, <1>16, <1>17, <1>18 DEF Next, Operator

\* The steps a client can see: everything else leaves up, the live router and
\* the egress hosts alone.
LEMMA VisibleSteps ==
  [Next]_vars => \/ UNCHANGED <<up, holder, egressHosts>>
                 \/ Start \/ Exit
                 \/ \E w \in Workers : HolderStore(w) \/ OnSwap(w)
<1> USE DEF mem, Keep
<1>1. ASSUME NEW w \in Workers, Tick(w)
      PROVE  UNCHANGED <<up, holder, egressHosts>> \/ HolderStore(w) \/ OnSwap(w)
  BY <1>1 DEF Tick, FetchBundle, FetchSig, CompareHash, StageBundle, StageSig, Unstage,
     ReadPrev, ReadBundle, Verify, RemoveStagedBundle, RemoveStagedSig, PromoteStat,
     PromoteRotate, PromoteInstall, Remember
<1> QED
  BY <1>1 DEF Next, vars, TickerFires, PokeReceived, HupReceived, AdminReload, TickStart,
     Stop, Crash, Sighup, Sigusr1, PublishBundle, PublishSig, Operator,
     RollbackBundle, RollbackSig, PushBundle, PushSig, PushHup

\* Every step of the pipeline is a step of the service or changes nothing it
\* shows.
LEMMA StepRefines ==
  ASSUME OneTick, ServiceInv, ServiceInv', [Next]_vars
  PROVE  [Service!Next]_(Service!vars)
<1> USE DEF Service!Next, Service!vars
<1>0. RouterVerified /\ RouterVerified' /\ Serving /\ LoadedVerified /\ FromFeed /\ StoredIsLive
  BY DEF ServiceInv, GateInv, VerifiedInv
<1>1. CASE UNCHANGED <<up, holder, egressHosts>>
  BY <1>1
<1>2. CASE Start
  BY <1>0, <1>2 DEF Start, RouterVerified, Service!Boot
<1>3. CASE Exit
  BY <1>3 DEF Exit, Service!Halt
<1>4. ASSUME NEW w \in Workers, HolderStore(w) PROVE Service!Swap
  <2>1. up /\ up' = TRUE /\ egressHosts' = egressHosts /\ holder' = tick[w].loaded
    BY <1>0, <1>4 DEF HolderStore, Keep, Serving, ServiceInv, GateInv, VerifiedInv, TypeOK,
           MemType
  <2>2. tick[w].loaded \in Signed \cap Loadable
    BY <1>0, <1>4 DEF HolderStore, LoadedVerified, PastVerify
  <2>3. tick[w].loaded \in Offered \cup {Shipped}
    BY <1>0, <2>2, BundleAssumption, SentinelAssumption DEF FromFeed, Fed
  <2>4. Version[tick[w].loaded] > Version[holder]
    BY <1>4 DEF HolderStore, ServiceInv, GateInv, Gated, PastVerify
  <2> QED
    BY <2>1, <2>2, <2>3, <2>4 DEF Service!Swap
<1>5. ASSUME NEW w \in Workers, OnSwap(w) PROVE Service!Announce
  <2>1. up /\ up' = TRUE /\ holder' = holder /\ egressHosts' = tick[w].loaded
    BY <1>0, <1>5 DEF OnSwap, Keep, Serving, ServiceInv, GateInv, VerifiedInv, TypeOK, MemType
  <2>2. tick[w].loaded = holder
    BY <1>0, <1>5 DEF OnSwap, StoredIsLive
  <2> QED
    BY <2>1, <2>2 DEF Service!Announce
<1> QED
  BY <1>1, <1>2, <1>3, <1>4, <1>5, VisibleSteps

\* With one Tick at a time the bundle pipeline implements the service: a
\* running proxy moves only to strictly newer, verified bundles of the feed,
\* tells the egress generator after the swap and never about anything else,
\* whatever fails, crashes, is pushed or rolled back.
THEOREM PipelineImplementsService == OneTick => (Spec => ImplementsService)
<1> SUFFICES ASSUME OneTick PROVE Spec => ImplementsService
  OBVIOUS
<1>1. Init => Service!Init
  BY DEF Init, Service!Init
<1>2. ServiceInv /\ [Next]_vars => ServiceInv'
  BY NextService
<1>3. ServiceInv /\ ServiceInv' /\ [Next]_vars => [Service!Next]_(Service!vars)
  BY StepRefines
<1> QED
  BY InitService, <1>1, <1>2, <1>3, PTL DEF Spec, ImplementsService, Service!Spec

-----------------------------------------------------------------------------
(* What a Tick carries, and what it leaves in the updater's memory. *)

\* With one Tick at a time the staged file is the Tick's own: the bytes that it
\* fetched are those it stages, reads back, stores and remembers.
OwnContent ==
  \A w \in Workers :
    /\ pc[w] \in {"fetchBundle", "fetchSig", "compare"} => tick[w].hash = lastHash
    /\ pc[w] \notin {"idle", "fetchBundle"} =>
         tick[w].bundle # None /\ tick[w].newETag \in {None, tick[w].bundle}
    /\ pc[w] \in {"stageSig", "readPrev", "readBundle", "readSig"} =>
         disk["bundle"]["staged"] = tick[w].bundle
    /\ pc[w] \in {"readSig"} \cup PastVerify => tick[w].loaded = tick[w].bundle

\* Only between Holder.Store and the steps behind it do the egress generator and
\* the remembered ETag and hash lag behind the live router; a restart forgets
\* them.
Announced ==
  (up /\ \A w \in Workers : pc[w] \notin {"remember", "onSwap"}) => egressHosts = holder
Remembered ==
  /\ ~ up => lastETag = None /\ lastHash = None
  /\ (up /\ \A w \in Workers : pc[w] # "remember")
       => {lastETag, lastHash} \subseteq {None, holder}

TickInv == ServiceInv /\ OwnContent /\ Announced /\ Remembered

LEMMA InitTick == Init => TickInv
<1>1. Init => OwnContent /\ Announced /\ Remembered
  BY DEF Init, OwnContent, Announced, Remembered, PastVerify
<1> QED
  BY <1>1, InitService DEF TickInv

LEMMA PromoteLabels ==
  ASSUME NEW k \in Kinds
  PROVE  /\ StatAt[k] \in {"statBundle", "statSig"} /\ RotateAt[k] \in {"rotateBundle", "rotateSig"}
         /\ InstallAt[k] \in {"installBundle", "installSig"} /\ PromotedTo[k] \in {"statSig", "store"}
<1>1. k = "bundle" \/ k = "sig"
  BY DEF Kinds
<1> QED
  BY <1>1 DEF StatAt, RotateAt, InstallAt, PromotedTo

LEMMA NextTick ==
  ASSUME OneTick, TickInv, [Next]_vars PROVE TickInv'
<1> DEFINE Rest == OwnContent /\ Announced /\ Remembered
<1>0. TickType /\ DiskType /\ MemType /\ EnvType /\ Serving /\ StoredIsLive /\ Rest
  BY DEF TickInv, ServiceInv, GateInv, VerifiedInv, TypeOK
<1> SUFFICES Rest'
  BY NextService DEF TickInv
<1> USE <1>0, OneTick, SentinelAssumption
        DEF OneTick, mem, chans, env, Goto, Return, Keep, Fault, NoFault
<1>1. CASE TickerFires
  <2>1. OwnContent'
    BY <1>1 DEF TickerFires, TickStart, OwnContent, PastVerify, TickType, TickLocals, Blank,
           Labels, MemType
  <2>2. Announced'
    BY <1>1 DEF TickerFires, TickStart, Announced, StoredIsLive, Serving, TickType, Labels
  <2>3. Remembered'
    BY <1>1 DEF TickerFires, TickStart, Remembered, OwnContent, PastVerify, StoredIsLive, Serving,
           TickType, Labels, TickLocals
  <2> QED
    BY <2>1, <2>2, <2>3
<1>2. CASE PokeReceived
  <2>1. OwnContent'
    BY <1>2 DEF PokeReceived, TickStart, OwnContent, PastVerify, TickType, TickLocals, Blank,
           Labels, MemType
  <2>2. Announced'
    BY <1>2 DEF PokeReceived, TickStart, Announced, StoredIsLive, Serving, TickType, Labels
  <2>3. Remembered'
    BY <1>2 DEF PokeReceived, TickStart, Remembered, OwnContent, PastVerify, StoredIsLive,
           Serving, TickType, Labels, TickLocals
  <2> QED
    BY <2>1, <2>2, <2>3
<1>3. CASE HupReceived
  <2>1. OwnContent'
    BY <1>3 DEF HupReceived, TickStart, OwnContent, PastVerify, TickType, TickLocals, Blank,
           Labels, MemType
  <2>2. Announced'
    BY <1>3 DEF HupReceived, TickStart, Announced, StoredIsLive, Serving, TickType, Labels
  <2>3. Remembered'
    BY <1>3 DEF HupReceived, TickStart, Remembered, OwnContent, PastVerify, StoredIsLive, Serving,
           TickType, Labels, TickLocals
  <2> QED
    BY <2>1, <2>2, <2>3
<1>4. ASSUME NEW w \in Workers, AdminReload(w) PROVE Rest'
  <2>1. OwnContent'
    BY <1>4 DEF AdminReload, TickStart, OwnContent, PastVerify, TickType, TickLocals, Blank,
           Labels, MemType
  <2>2. Announced'
    BY <1>4 DEF AdminReload, TickStart, Announced, StoredIsLive, Serving, TickType, Labels
  <2>3. Remembered'
    BY <1>4 DEF AdminReload, TickStart, Remembered, OwnContent, PastVerify, StoredIsLive, Serving,
           TickType, Labels, TickLocals
  <2> QED
    BY <2>1, <2>2, <2>3
<1>5. ASSUME NEW w \in Workers, Tick(w) PROVE Rest'
  <2>1. CASE FetchBundle(w)
    <3>1. OwnContent'
      <4>1. CASE Return(w)
        BY <2>1, <4>1 DEF FetchBundle, OwnContent, PastVerify, TickType, Blank
      <4>2. CASE ~ Return(w)
        <5>1. PICK e \in {cdn.bundle} \cup {None} :
                tick' = [tick EXCEPT ![w].bundle = cdn.bundle, ![w].newETag = e]
          BY <2>1, <4>2 DEF FetchBundle
        <5>2. pc' = [pc EXCEPT ![w] = "fetchSig"] /\ UNCHANGED <<disk, lastHash>>
              /\ pc[w] = "fetchBundle"
          BY <2>1, <4>2 DEF FetchBundle
        <5>3. cdn.bundle # None
          BY DEF EnvType
        <5>4. tick'[w] = [tick[w] EXCEPT !.bundle = cdn.bundle, !.newETag = e]
              /\ tick[w] \in TickLocals /\ pc'[w] = "fetchSig"
          BY <5>1, <5>2 DEF TickType
        <5>5. \A v \in Workers : v = w
          BY <2>1
        <5>6. tick'[w].hash = tick[w].hash /\ tick'[w].bundle = cdn.bundle /\ tick'[w].newETag = e
          BY <5>4 DEF TickLocals
        <5> QED
          BY <5>2, <5>3, <5>4, <5>5, <5>6 DEF OwnContent, PastVerify
      <4> QED
        BY <4>1, <4>2
    <3>2. Announced'
      BY <2>1 DEF FetchBundle, Announced, StoredIsLive, Serving, TickType, Labels
    <3>3. Remembered'
      BY <2>1 DEF FetchBundle, Remembered, OwnContent, PastVerify, StoredIsLive, Serving,
             TickType, Labels, TickLocals
    <3> QED
      BY <3>1, <3>2, <3>3
  <2>2. CASE FetchSig(w)
    <3>1. OwnContent'
      BY <2>2 DEF FetchSig, OwnContent, PastVerify, TickType, TickLocals, Blank, Labels, MemType,
             DiskType, Kinds, Slots
    <3>2. Announced'
      BY <2>2 DEF FetchSig, Announced, StoredIsLive, Serving, TickType, Labels
    <3>3. Remembered'
      BY <2>2 DEF FetchSig, Remembered, OwnContent, PastVerify, StoredIsLive, Serving, TickType,
             Labels, TickLocals
    <3> QED
      BY <3>1, <3>2, <3>3
  <2>3. CASE CompareHash(w)
    <3>1. OwnContent'
      BY <2>3 DEF CompareHash, OwnContent, PastVerify, TickType, TickLocals, Blank, Labels,
             MemType, DiskType, Kinds, Slots
    <3>2. Announced'
      BY <2>3 DEF CompareHash, Announced, StoredIsLive, Serving, TickType, Labels
    <3>3. Remembered'
      BY <2>3 DEF CompareHash, Remembered, OwnContent, PastVerify, StoredIsLive, Serving,
             TickType, Labels, TickLocals
    <3> QED
      BY <3>1, <3>2, <3>3
  <2>4. CASE StageBundle(w)
    <3>1. OwnContent'
      BY <2>4 DEF StageBundle, Write, OwnContent, PastVerify, TickType, TickLocals, Blank, Labels,
             MemType, DiskType, Kinds, Slots
    <3>2. Announced'
      BY <2>4 DEF StageBundle, Write, Announced, StoredIsLive, Serving, TickType, Labels
    <3>3. Remembered'
      BY <2>4 DEF StageBundle, Write, Remembered, OwnContent, PastVerify, StoredIsLive, Serving,
             TickType, Labels, TickLocals
    <3> QED
      BY <3>1, <3>2, <3>3
  <2>5. CASE StageSig(w)
    <3>1. OwnContent'
      BY <2>5 DEF StageSig, Write, OwnContent, PastVerify, TickType, TickLocals, Blank, Labels,
             MemType, DiskType, Kinds, Slots
    <3>2. Announced'
      BY <2>5 DEF StageSig, Write, Announced, StoredIsLive, Serving, TickType, Labels
    <3>3. Remembered'
      BY <2>5 DEF StageSig, Write, Remembered, OwnContent, PastVerify, StoredIsLive, Serving,
             TickType, Labels, TickLocals
    <3> QED
      BY <3>1, <3>2, <3>3
  <2>6. CASE Unstage(w)
    <3>1. OwnContent'
      BY <2>6 DEF Unstage, Write, OwnContent, PastVerify, TickType, TickLocals, Blank, Labels,
             MemType, DiskType, Kinds, Slots
    <3>2. Announced'
      BY <2>6 DEF Unstage, Write, Announced, StoredIsLive, Serving, TickType, Labels
    <3>3. Remembered'
      BY <2>6 DEF Unstage, Write, Remembered, OwnContent, PastVerify, StoredIsLive, Serving,
             TickType, Labels, TickLocals
    <3> QED
      BY <3>1, <3>2, <3>3
  <2>7. CASE ReadPrev(w)
    <3>1. OwnContent'
      BY <2>7 DEF ReadPrev, OwnContent, PastVerify, TickType, TickLocals, Blank, Labels, MemType,
             DiskType, Kinds, Slots
    <3>2. Announced'
      BY <2>7 DEF ReadPrev, Announced, StoredIsLive, Serving, TickType, Labels
    <3>3. Remembered'
      BY <2>7 DEF ReadPrev, Remembered, OwnContent, PastVerify, StoredIsLive, Serving, TickType,
             Labels, TickLocals
    <3> QED
      BY <3>1, <3>2, <3>3
  <2>8. CASE ReadBundle(w)
    <3>1. OwnContent'
      BY <2>8 DEF ReadBundle, OwnContent, PastVerify, TickType, TickLocals, Blank, Labels,
             MemType, DiskType, Kinds, Slots
    <3>2. Announced'
      BY <2>8 DEF ReadBundle, Announced, StoredIsLive, Serving, TickType, Labels
    <3>3. Remembered'
      BY <2>8 DEF ReadBundle, Remembered, OwnContent, PastVerify, StoredIsLive, Serving, TickType,
             Labels, TickLocals
    <3> QED
      BY <3>1, <3>2, <3>3
  <2>9. CASE Verify(w)
    <3>1. OwnContent'
      BY <2>9 DEF Verify, OwnContent, PastVerify, TickType, TickLocals, Blank, Labels, MemType,
             DiskType, Kinds, Slots
    <3>2. Announced'
      BY <2>9 DEF Verify, Announced, StoredIsLive, Serving, TickType, Labels
    <3>3. Remembered'
      BY <2>9 DEF Verify, Remembered, OwnContent, PastVerify, StoredIsLive, Serving, TickType,
             Labels, TickLocals
    <3> QED
      BY <3>1, <3>2, <3>3
  <2>10. CASE RemoveStagedBundle(w)
    <3>1. OwnContent'
      BY <2>10 DEF RemoveStagedBundle, Write, OwnContent, PastVerify, TickType, TickLocals, Blank,
             Labels, MemType, DiskType, Kinds, Slots
    <3>2. Announced'
      BY <2>10 DEF RemoveStagedBundle, Write, Announced, StoredIsLive, Serving, TickType, Labels
    <3>3. Remembered'
      BY <2>10 DEF RemoveStagedBundle, Write, Remembered, OwnContent, PastVerify, StoredIsLive,
             Serving, TickType, Labels, TickLocals
    <3> QED
      BY <3>1, <3>2, <3>3
  <2>11. CASE RemoveStagedSig(w)
    <3>1. OwnContent'
      BY <2>11 DEF RemoveStagedSig, Write, OwnContent, PastVerify, TickType, TickLocals, Blank,
             Labels, MemType, DiskType, Kinds, Slots
    <3>2. Announced'
      BY <2>11 DEF RemoveStagedSig, Write, Announced, StoredIsLive, Serving, TickType, Labels
    <3>3. Remembered'
      BY <2>11 DEF RemoveStagedSig, Write, Remembered, OwnContent, PastVerify, StoredIsLive,
             Serving, TickType, Labels, TickLocals
    <3> QED
      BY <3>1, <3>2, <3>3
  <2>12. ASSUME NEW k \in Kinds, PromoteStat(w, k) PROVE Rest'
    <3>1. OwnContent'
      BY <2>12 DEF PromoteStat, StatAt, RotateAt, InstallAt, OwnContent, PastVerify, TickType,
             TickLocals, Blank, Labels, MemType, DiskType, Kinds, Slots
    <3>2. Announced'
      BY <2>12, PromoteLabels DEF PromoteStat, Announced, StoredIsLive, Serving,
             TickType, Labels
    <3>3. Remembered'
      BY <2>12, PromoteLabels DEF PromoteStat, Remembered, OwnContent, PastVerify,
             StoredIsLive, Serving, TickType, Labels, TickLocals
    <3> QED
      BY <3>1, <3>2, <3>3
  <2>13. ASSUME NEW k \in Kinds, PromoteRotate(w, k) PROVE Rest'
    <3>1. OwnContent'
      BY <2>13 DEF PromoteRotate, RotateAt, InstallAt, Move, Rename, OwnContent, PastVerify,
             TickType, TickLocals, Blank, Labels, MemType, DiskType, Kinds, Slots
    <3>2. Announced'
      BY <2>13, PromoteLabels DEF PromoteRotate, Move, Rename, Announced, StoredIsLive,
             Serving, TickType, Labels
    <3>3. Remembered'
      BY <2>13, PromoteLabels DEF PromoteRotate, Move, Rename, Remembered, OwnContent,
             PastVerify, StoredIsLive, Serving, TickType, Labels, TickLocals
    <3> QED
      BY <3>1, <3>2, <3>3
  <2>14. ASSUME NEW k \in Kinds, PromoteInstall(w, k) PROVE Rest'
    <3>1. OwnContent'
      BY <2>14 DEF PromoteInstall, InstallAt, PromotedTo, Move, Rename, OwnContent, PastVerify,
             TickType, TickLocals, Blank, Labels, MemType, DiskType, Kinds, Slots
    <3>2. Announced'
      BY <2>14, PromoteLabels DEF PromoteInstall, Move, Rename, Announced, StoredIsLive,
             Serving, TickType, Labels
    <3>3. Remembered'
      BY <2>14, PromoteLabels DEF PromoteInstall, Move, Rename, Remembered, OwnContent,
             PastVerify, StoredIsLive, Serving, TickType, Labels, TickLocals
    <3> QED
      BY <3>1, <3>2, <3>3
  <2>15. CASE HolderStore(w)
    <3>1. OwnContent'
      BY <2>15 DEF HolderStore, OwnContent, PastVerify, TickType, TickLocals, Blank, Labels,
             MemType, DiskType, Kinds, Slots
    <3>2. Announced'
      BY <2>15 DEF HolderStore, Announced, StoredIsLive, Serving, TickType, Labels
    <3>3. Remembered'
      BY <2>15 DEF HolderStore, Remembered, OwnContent, PastVerify, StoredIsLive, Serving,
             TickType, Labels, TickLocals
    <3> QED
      BY <3>1, <3>2, <3>3
  <2>16. CASE Remember(w)
    <3>1. OwnContent'
      BY <2>16 DEF Remember, OwnContent, PastVerify, TickType, TickLocals, Blank, Labels, MemType,
             DiskType, Kinds, Slots
    <3>2. Announced'
      BY <2>16 DEF Remember, Announced, StoredIsLive, Serving, TickType, Labels
    <3>3. Remembered'
      BY <2>16 DEF Remember, Remembered, OwnContent, PastVerify, StoredIsLive, Serving, TickType,
             Labels, TickLocals
    <3> QED
      BY <3>1, <3>2, <3>3
  <2>17. CASE OnSwap(w)
    <3>1. OwnContent'
      BY <2>17 DEF OnSwap, OwnContent, PastVerify, TickType, TickLocals, Blank, Labels, MemType,
             DiskType, Kinds, Slots
    <3>2. Announced'
      BY <2>17 DEF OnSwap, Announced, StoredIsLive, Serving, TickType, Labels
    <3>3. Remembered'
      BY <2>17 DEF OnSwap, Remembered, OwnContent, PastVerify, StoredIsLive, Serving, TickType,
             Labels, TickLocals
    <3> QED
      BY <3>1, <3>2, <3>3
  <2> QED
    BY <1>5, <2>1, <2>2, <2>3, <2>4, <2>5, <2>6, <2>7, <2>8, <2>9, <2>10, <2>11, <2>12, <2>13,
       <2>14, <2>15, <2>16, <2>17 DEF Tick
<1>6. CASE Start
  <2>1. OwnContent'
    BY <1>6 DEF Start, OwnContent, PastVerify, TickType, TickLocals, Blank, Labels, MemType
  <2>2. Announced'
    BY <1>6 DEF Start, Announced, StoredIsLive, Serving, TickType, Labels
  <2>3. Remembered'
    BY <1>6 DEF Start, Remembered, OwnContent, PastVerify, StoredIsLive, Serving, TickType,
           Labels, TickLocals
  <2> QED
    BY <2>1, <2>2, <2>3
<1>7. CASE Stop
  <2>1. OwnContent'
    BY <1>7 DEF Stop, Exit, OwnContent, PastVerify, TickType, TickLocals, Blank, Labels, MemType
  <2>2. Announced'
    BY <1>7 DEF Stop, Exit, Announced, StoredIsLive, Serving, TickType, Labels
  <2>3. Remembered'
    BY <1>7 DEF Stop, Exit, Remembered, OwnContent, PastVerify, StoredIsLive, Serving, TickType,
           Labels, TickLocals
  <2> QED
    BY <2>1, <2>2, <2>3
<1>8. CASE Crash
  <2>1. OwnContent'
    BY <1>8 DEF Crash, Exit, OwnContent, PastVerify, TickType, TickLocals, Blank, Labels, MemType
  <2>2. Announced'
    BY <1>8 DEF Crash, Exit, Announced, StoredIsLive, Serving, TickType, Labels
  <2>3. Remembered'
    BY <1>8 DEF Crash, Exit, Remembered, OwnContent, PastVerify, StoredIsLive, Serving, TickType,
           Labels, TickLocals
  <2> QED
    BY <2>1, <2>2, <2>3
<1>9. CASE Sighup
  <2>1. OwnContent'
    BY <1>9 DEF Sighup, OwnContent, PastVerify, TickType, TickLocals, Blank, Labels, MemType
  <2>2. Announced'
    BY <1>9 DEF Sighup, Announced, StoredIsLive, Serving, TickType, Labels
  <2>3. Remembered'
    BY <1>9 DEF Sighup, Remembered, OwnContent, PastVerify, StoredIsLive, Serving, TickType,
           Labels, TickLocals
  <2> QED
    BY <2>1, <2>2, <2>3
<1>10. CASE Sigusr1
  <2>1. OwnContent'
    BY <1>10 DEF Sigusr1, OwnContent, PastVerify, TickType, TickLocals, Blank, Labels, MemType
  <2>2. Announced'
    BY <1>10 DEF Sigusr1, Announced, StoredIsLive, Serving, TickType, Labels
  <2>3. Remembered'
    BY <1>10 DEF Sigusr1, Remembered, OwnContent, PastVerify, StoredIsLive, Serving, TickType,
           Labels, TickLocals
  <2> QED
    BY <2>1, <2>2, <2>3
<1>11. ASSUME NEW b, PublishBundle(b) \/ PublishSig(b) PROVE Rest'
  <2>1. OwnContent'
    BY <1>11 DEF PublishBundle, PublishSig, OwnContent, PastVerify, TickType, TickLocals, Blank,
           Labels, MemType
  <2>2. Announced'
    BY <1>11 DEF PublishBundle, PublishSig, Announced, StoredIsLive, Serving, TickType, Labels
  <2>3. Remembered'
    BY <1>11 DEF PublishBundle, PublishSig, Remembered, OwnContent, PastVerify, StoredIsLive,
           Serving, TickType, Labels, TickLocals
  <2> QED
    BY <2>1, <2>2, <2>3
<1>12. CASE RollbackBundle \/ RollbackSig
  <2>1. OwnContent'
    BY <1>12 DEF RollbackBundle, RollbackSig, Move, Rename, OwnContent, PastVerify, TickType,
           TickLocals, Blank, Labels, MemType, DiskType, Kinds, Slots
  <2>2. Announced'
    BY <1>12 DEF RollbackBundle, RollbackSig, Move, Rename, Announced, StoredIsLive, Serving,
           TickType, Labels
  <2>3. Remembered'
    BY <1>12 DEF RollbackBundle, RollbackSig, Move, Rename, Remembered, OwnContent, PastVerify,
           StoredIsLive, Serving, TickType, Labels, TickLocals
  <2> QED
    BY <2>1, <2>2, <2>3
<1>13. ASSUME NEW b \in Pushed, PushBundle(b) \/ PushSig(b) \/ PushHup(b) PROVE Rest'
  <2>1. OwnContent'
    BY <1>13 DEF PushBundle, PushSig, PushHup, Write, OwnContent, PastVerify, TickType,
           TickLocals, Blank, Labels, MemType, DiskType, Kinds, Slots
  <2>2. Announced'
    BY <1>13 DEF PushBundle, PushSig, PushHup, Write, Announced, StoredIsLive, Serving, TickType,
           Labels
  <2>3. Remembered'
    BY <1>13 DEF PushBundle, PushSig, PushHup, Write, Remembered, OwnContent, PastVerify,
           StoredIsLive, Serving, TickType, Labels, TickLocals
  <2> QED
    BY <2>1, <2>2, <2>3
<1>14. CASE UNCHANGED vars
  <2>1. OwnContent'
    BY <1>14 DEF vars, OwnContent, PastVerify, TickType, TickLocals, Blank, Labels, MemType
  <2>2. Announced'
    BY <1>14 DEF vars, Announced, StoredIsLive, Serving, TickType, Labels
  <2>3. Remembered'
    BY <1>14 DEF vars, Remembered, OwnContent, PastVerify, StoredIsLive, Serving, TickType,
           Labels, TickLocals
  <2> QED
    BY <2>1, <2>2, <2>3
<1> QED
  BY <1>1, <1>2, <1>3, <1>4, <1>5, <1>6, <1>7, <1>8, <1>9, <1>10, <1>11, <1>12, <1>13, <1>14
     DEF Next, Operator

\* With one Tick at a time a 304 or an equal hash never skips content that is
\* not live, whatever the CDN loses, the operator pushes or the network fails.
THEOREM SkipsAlwaysLive == OneTick => (Spec => []SkipsOnlyLive)
<1> SUFFICES ASSUME OneTick PROVE Spec => []SkipsOnlyLive
  OBVIOUS
<1>1. TickInv => SkipsOnlyLive
  BY DEF TickInv, Remembered, SkipsOnlyLive, Idle
<1>2. TickInv /\ [Next]_vars => TickInv'
  BY NextTick
<1> QED
  BY InitTick, <1>1, <1>2, PTL DEF Spec

\* With one Tick at a time the egress generator works, between Ticks, from the
\* hosts of the bundle that routes the orders.
THEOREM EgressAlwaysFollows == OneTick => (Spec => []EgressFollowsRouter)
<1> SUFFICES ASSUME OneTick PROVE Spec => []EgressFollowsRouter
  OBVIOUS
<1>1. TickInv => EgressFollowsRouter
  BY DEF TickInv, Announced, EgressFollowsRouter, Idle
<1>2. TickInv /\ [Next]_vars => TickInv'
  BY NextTick
<1> QED
  BY InitTick, <1>1, <1>2, PTL DEF Spec

-----------------------------------------------------------------------------
(* The files while the poll loop, or the signal goroutine, is the one caller  *)
(* of Tick: a shutdown then waits for it, and no script writes the active     *)
(* files under it.                                                            *)

PollOnly == OneTick /\ Workers \subseteq {Poller, SigLoop} /\ Pushed = {}

File(k, s) == disk[k][s]
Installed == {"current", "previous"}

\* The steps of promote, and those among them that find the files half moved.
Promotes == {"statBundle", "rotateBundle", "installBundle", "statSig", "rotateSig",
             "installSig", "store"}
Promoting == {"installBundle", "statSig", "rotateSig", "installSig", "store"}

\* What has been verified is in the staged files until promote moves it.
Promoted ==
  \A w \in Workers :
    /\ pc[w] \in {"statBundle", "rotateBundle", "installBundle"} =>
         File("bundle", "staged") = tick[w].loaded
    /\ pc[w] \in Promotes \ {"store"} => File("sig", "staged") = tick[w].loaded
    /\ pc[w] \in {"statSig", "rotateSig", "installSig", "store"} =>
         File("bundle", "current") = tick[w].loaded
    /\ pc[w] = "rotateSig" => File("sig", "current") # None

\* The files outside promote: b is active, and a matching pair of another bundle,
\* or none, is kept for the rollback.
AtRest(b) ==
  /\ ActivePair(b)
  /\ File("bundle", "previous") = File("sig", "previous") /\ File("bundle", "previous") # b

\* The files, step by step, while nothing has failed.
ExactUp ==
  up => /\ op = OpIdle
        /\ (\A w \in Workers : pc[w] \notin Promoting) => AtRest(holder)
        /\ \A w \in Workers :
             /\ pc[w] \in Promoting => File("bundle", "previous") = holder
             /\ pc[w] \in {"installBundle", "statSig", "rotateSig"} =>
                  File("sig", "current") = holder
             /\ pc[w] \in {"installSig", "store"} => File("sig", "previous") = holder
             /\ pc[w] = "store" => File("sig", "current") = tick[w].loaded

\* A stopped proxy's files are at rest, or a rollback has moved the bundle only:
\* then nothing starts, and there is nothing more to roll back.
ExactDown ==
  ~ up => \/ /\ op = OpIdle /\ File("bundle", "current") # None
             /\ AtRest(File("bundle", "current"))
          \/ /\ Rollback /\ op.step \in {"idle", "rollbackSig"}
             /\ File("bundle", "current") # File("sig", "current")
             /\ File("bundle", "previous") = None
             /\ op.step = "rollbackSig" => File("sig", "previous") = File("bundle", "current")

Unfailed == faults = 0 /\ crashes = 0
Exact == Unfailed => ExactUp /\ ExactDown

\* After one failure a usable pair is in the active and the rollback slots,
\* except while a verified one is on its way to the active slot.
RestPair ==
  \E s, t \in Installed : Verifies(File("bundle", s), File("sig", t))
Survives ==
  ~ Rollback =>
    /\ op = OpIdle
    /\ (faults + crashes = 1 /\ \A w \in Workers : pc[w] \notin Promoting \ {"store"})
         => RestPair

DiskInv == TickInv /\ Promoted /\ Exact /\ Survives

LEMMA InitDisk == Init => DiskInv
<1> SUFFICES ASSUME Init PROVE DiskInv
  OBVIOUS
<1>1. TickInv
  BY InitTick
<1>2. Promoted
  BY DEF Init, Promoted, Promotes
<1>3. File("bundle", "current") = Shipped /\ File("sig", "current") = Shipped
      /\ File("bundle", "previous") = None /\ File("sig", "previous") = None
  BY DEF Init, File, Kinds, Slots
<1>4. Shipped # None
  BY BundleAssumption, SentinelAssumption
<1>5. AtRest(Shipped)
  BY <1>3, <1>4 DEF AtRest, ActivePair, File
<1>6. Exact
  BY <1>3, <1>4, <1>5 DEF Init, Exact, ExactUp, ExactDown
<1>7. Survives
  BY DEF Init, Survives
<1> QED
  BY <1>1, <1>2, <1>6, <1>7 DEF DiskInv

\* While nothing has failed, a running proxy has a usable pair in the active and
\* the rollback slots, at every step of promote.
LEMMA UnfailedPair ==
  ASSUME OneTick, TickInv, Promoted, Exact, Unfailed, up PROVE RestPair
<1>1. ExactUp /\ holder # None
  BY SentinelAssumption, BundleAssumption
     DEF Exact, TickInv, ServiceInv, GateInv, VerifiedInv, RouterVerified
<1>2. CASE \A w \in Workers : pc[w] \notin Promoting
  <2>1. File("bundle", "current") = holder /\ File("sig", "current") = holder
    BY <1>1, <1>2 DEF ExactUp, AtRest, ActivePair, File
  <2> QED
    BY <1>1, <2>1 DEF RestPair, Verifies, Installed
<1>3. ASSUME NEW w \in Workers, pc[w] \in Promoting PROVE RestPair
  <2>1. File("bundle", "previous") = holder
        /\ (File("sig", "current") = holder \/ File("sig", "previous") = holder)
    BY <1>1, <1>3 DEF ExactUp, Promoting
  <2> QED
    BY <1>1, <2>1 DEF RestPair, Verifies, Installed
<1> QED
  BY <1>2, <1>3

-----------------------------------------------------------------------------
(* How the steps move the files *)

LEMMA Moved ==
  ASSUME DiskType, NEW k \in Kinds, NEW from \in Slots, NEW to \in Slots, from # to,
         Move(k, from, to)
  PROVE  /\ File(k, to)' = File(k, from) /\ File(k, from)' = None
         /\ \A s \in Slots \ {from, to} : File(k, s)' = File(k, s)
         /\ \A j \in Kinds \ {k} : \A s \in Slots : File(j, s)' = File(j, s)
  BY DEF DiskType, Move, Rename, File

LEMMA Written ==
  ASSUME DiskType, NEW k \in Kinds, NEW s \in Slots, NEW c, Write(k, s, c)
  PROVE  /\ File(k, s)' = c
         /\ \A t \in Slots \ {s} : File(k, t)' = File(k, t)
         /\ \A j \in Kinds \ {k} : \A t \in Slots : File(j, t)' = File(j, t)
  BY DEF DiskType, Write, File

InPlace == \A k \in Kinds : \A s \in Installed : File(k, s)' = File(k, s)

\* A step that fails leaves the installed files, and so their pair, in place.
LEMMA FailedStep ==
  ASSUME OneTick, DiskInv, up, UNCHANGED op, InPlace,
         \/ faults' = faults + 1 /\ crashes' = crashes
         \/ crashes' = crashes + 1 /\ faults' = faults
  PROVE  Exact' /\ Survives'
<1>1. faults \in Nat /\ crashes \in Nat
  BY BoundAssumption DEF DiskInv, TickInv, ServiceInv, GateInv, VerifiedInv, TypeOK, EnvType
<1>2. Exact'
  BY <1>1 DEF Exact, Unfailed
<1>3. ASSUME ~ Rollback, (faults + crashes = 1)' PROVE RestPair'
  <2>1. Unfailed
    BY <1>1, <1>3 DEF Unfailed
  <2>2. RestPair
    BY <2>1, UnfailedPair DEF DiskInv
  <2> QED
    BY <2>2 DEF RestPair, InPlace, Kinds, Installed
<1> QED
  BY <1>2, <1>3 DEF Survives, DiskInv

\* A step of Tick outside promote that does not fail leaves the files in place.
LEMMA QuietStep ==
  ASSUME OneTick, DiskInv, NEW w \in Workers, up, up', UNCHANGED <<holder, op, faults, crashes>>,
         InPlace, pc[w] \notin Promoting, pc'[w] \notin Promoting
  PROVE  Exact' /\ Survives'
<1>1. \A v \in Workers : v = w
  BY DEF OneTick
<1>2. Exact'
  <2> SUFFICES ASSUME Unfailed' PROVE ExactUp' /\ ExactDown'
    BY DEF Exact
  <2>1. ExactUp /\ AtRest(holder)
    BY <1>1 DEF DiskInv, Exact, Unfailed, ExactUp
  <2>2. AtRest(holder)'
    BY <2>1 DEF AtRest, ActivePair, File, InPlace, Kinds, Installed
  <2> QED
    BY <1>1, <2>1, <2>2 DEF ExactUp, ExactDown, Promoting
<1>3. Survives'
  <2>1. RestPair => RestPair'
    BY DEF RestPair, InPlace, Kinds, Installed
  <2> QED
    BY <1>1, <2>1 DEF Survives, DiskInv, Promoting
<1> QED
  BY <1>2, <1>3

\* A step that leaves promote's labels alone has nothing to say about Promoted.
LEMMA OutsidePromote ==
  ASSUME OneTick, NEW w \in Workers, pc'[w] \notin Promotes PROVE Promoted'
<1>1. \A v \in Workers : v = w
  BY DEF OneTick
<1> QED
  BY <1>1 DEF Promoted, Promotes

\* The steps of Tick before promote touch the staged files only.
LEMMA BeforePromote ==
  ASSUME OneTick, DiskInv, NEW w \in Workers,
         \/ FetchBundle(w) \/ FetchSig(w) \/ CompareHash(w)
         \/ StageBundle(w) \/ StageSig(w) \/ Unstage(w)
         \/ ReadPrev(w) \/ ReadBundle(w) \/ Verify(w)
         \/ RemoveStagedBundle(w) \/ RemoveStagedSig(w)
  PROVE  Promoted' /\ Exact' /\ Survives'
<1>0. TickType /\ DiskType /\ MemType /\ Serving /\ OwnContent
  BY DEF DiskInv, TickInv, ServiceInv, GateInv, VerifiedInv, TypeOK
<1> USE <1>0 DEF Goto, Return, Keep, Fault, NoFault, mem, chans, env
<1>1. pc[w] \notin Promotes /\ pc[w] # "idle"
  BY DEF Promotes, FetchBundle, FetchSig, CompareHash, StageBundle, StageSig, Unstage, ReadPrev,
         ReadBundle, Verify, RemoveStagedBundle, RemoveStagedSig
<1>2. UNCHANGED <<up, holder, op, crashes>>
  BY DEF FetchBundle, FetchSig, CompareHash, StageBundle, StageSig, Unstage, ReadPrev,
         ReadBundle, Verify, RemoveStagedBundle, RemoveStagedSig
<1>3. faults' \in {faults, faults + 1}
  BY DEF FetchBundle, FetchSig, CompareHash, StageBundle, StageSig, Unstage, ReadPrev,
         ReadBundle, Verify, RemoveStagedBundle, RemoveStagedSig
<1>4. up /\ up'
  BY <1>1, <1>2 DEF Serving, MemType
<1>5. InPlace
  <2>1. \/ UNCHANGED disk
        \/ \E k \in Kinds : \E c : Write(k, "staged", c)
    BY DEF Kinds, FetchBundle, FetchSig, CompareHash, StageBundle, StageSig, Unstage, ReadPrev,
           ReadBundle, Verify, RemoveStagedBundle, RemoveStagedSig
  <2>2. CASE UNCHANGED disk
    BY <2>2 DEF InPlace, File
  <2>3. ASSUME NEW k \in Kinds, NEW c, Write(k, "staged", c) PROVE InPlace
    <3>1. "staged" \in Slots /\ Installed \subseteq Slots \ {"staged"}
      BY DEF Slots, Installed
    <3>2. /\ \A t \in Slots \ {"staged"} : File(k, t)' = File(k, t)
          /\ \A j \in Kinds \ {k} : \A t \in Slots : File(j, t)' = File(j, t)
      BY <2>3, <3>1, Written
    <3> QED
      BY <3>1, <3>2 DEF InPlace
  <2> QED
    BY <2>1, <2>2, <2>3
<1>6. pc'[w] \in {"statBundle"} \cup (Labels \ Promotes)
  BY DEF TickType, Labels, Promotes, FetchBundle, FetchSig, CompareHash, StageBundle, StageSig,
         Unstage, ReadPrev, ReadBundle, Verify, RemoveStagedBundle, RemoveStagedSig
<1>7. pc[w] \notin Promoting /\ pc'[w] \notin Promoting
  BY <1>1, <1>6 DEF Promoting, Promotes
<1>8. Exact' /\ Survives'
  <2>1. CASE faults' = faults
    BY <1>2, <1>4, <1>5, <1>7, <2>1, QuietStep
  <2>2. CASE faults' = faults + 1
    BY <1>2, <1>4, <1>5, <2>2, FailedStep
  <2> QED
    BY <1>3, <2>1, <2>2
<1>9. Promoted'
  <2>1. CASE pc'[w] \notin Promotes
    BY <2>1, OutsidePromote
  <2>2. CASE pc'[w] = "statBundle"
    <3>1. Verify(w)
      BY <2>2 DEF TickType, FetchBundle, FetchSig, CompareHash, StageBundle, StageSig, Unstage,
             ReadPrev, ReadBundle, Verify, RemoveStagedBundle, RemoveStagedSig
    <3>2. Accepts(tick[w].loaded, disk["sig"]["staged"], tick[w].prev)
      BY <2>2, <3>1 DEF Verify, TickType
    <3>3. disk["sig"]["staged"] = tick[w].loaded
      BY <3>2 DEF Accepts, Verifies
    <3>4. disk["bundle"]["staged"] = tick[w].loaded
      BY <3>1 DEF Verify, OwnContent
    <3>5. UNCHANGED disk /\ tick'[w].loaded = tick[w].loaded
      BY <3>1 DEF Verify, TickType, TickLocals
    <3>6. \A v \in Workers : v = w
      BY DEF OneTick
    <3> QED
      BY <2>2, <3>3, <3>4, <3>5, <3>6 DEF Promoted, Promotes, File
  <2> QED
    BY <1>6, <2>1, <2>2
<1> QED
  BY <1>8, <1>9

\* A step into the middle of promote: what is owed is the position's own facts.
LEMMA HalfMoved ==
  ASSUME OneTick, DiskInv, NEW w \in Workers, up, up', UNCHANGED <<holder, op, faults, crashes>>,
         pc'[w] \in Promoting,
         Unfailed => /\ File("bundle", "previous")' = holder
                     /\ pc'[w] \in {"installBundle", "statSig", "rotateSig"} =>
                          File("sig", "current")' = holder
                     /\ pc'[w] \in {"installSig", "store"} => File("sig", "previous")' = holder
                     /\ pc'[w] = "store" => File("sig", "current")' = tick'[w].loaded,
         pc'[w] = "store" => RestPair'
  PROVE  Exact' /\ Survives'
<1>1. \A v \in Workers : v = w
  BY DEF OneTick
<1>2. Exact'
  <2> SUFFICES ASSUME Unfailed' PROVE ExactUp' /\ ExactDown'
    BY DEF Exact
  <2>1. Unfailed /\ op = OpIdle
    BY DEF DiskInv, Exact, Unfailed, ExactUp
  <2> QED
    BY <1>1, <2>1 DEF ExactUp, ExactDown
<1>3. Survives'
  BY <1>1 DEF Survives, DiskInv, Promoting
<1> QED
  BY <1>2, <1>3

LEMMA PromoteStep ==
  ASSUME OneTick, DiskInv, NEW w \in Workers, NEW k \in Kinds,
         PromoteStat(w, k) \/ PromoteRotate(w, k) \/ PromoteInstall(w, k)
  PROVE  Promoted' /\ Exact' /\ Survives'
<1>0. TickType /\ DiskType /\ MemType /\ Serving
  BY DEF DiskInv, TickInv, ServiceInv, GateInv, VerifiedInv, TypeOK
<1>1. /\ pc[w] \in Promotes \ {"store"}
      /\ UNCHANGED <<up, holder, op, crashes>>
  BY PromoteLabels DEF PromoteStat, PromoteRotate, PromoteInstall, Keep, mem, env, Promotes
<1>2. up /\ up'
  BY <1>0, <1>1 DEF Serving, MemType, Promotes
<1>3. tick[w].loaded # None /\ holder # None
  BY <1>1, <1>2, SentinelAssumption, BundleAssumption
     DEF DiskInv, TickInv, ServiceInv, GateInv, VerifiedInv, LoadedVerified, RouterVerified,
         PastVerify, Promotes
<1>4. \A v \in Workers : v = w
  BY DEF OneTick
<1>5. /\ pc[w] \in {"statBundle", "rotateBundle", "installBundle"} =>
           File("bundle", "staged") = tick[w].loaded
      /\ File("sig", "staged") = tick[w].loaded
      /\ pc[w] \in {"statSig", "rotateSig", "installSig"} =>
           File("bundle", "current") = tick[w].loaded
      /\ pc[w] = "rotateSig" => File("sig", "current") # None
  BY <1>1 DEF DiskInv, Promoted
<1>6. Unfailed =>
        /\ pc[w] \notin Promoting => AtRest(holder)
        /\ pc[w] \in Promoting => File("bundle", "previous") = holder
        /\ pc[w] \in {"installBundle", "statSig", "rotateSig"} => File("sig", "current") = holder
        /\ pc[w] = "installSig" => File("sig", "previous") = holder
  BY <1>2, <1>4 DEF DiskInv, Exact, ExactUp
<1>7. CASE Return(w) /\ faults' = faults + 1 /\ UNCHANGED disk
  <2>1. pc'[w] = "idle" /\ InPlace
    BY <1>0, <1>7 DEF Return, Goto, TickType, InPlace, File
  <2> QED
    BY <1>1, <1>2, <1>7, <2>1, OutsidePromote, FailedStep DEF Promotes
<1>8. CASE PromoteStat(w, "bundle") /\ ~ Fault
  <2>1. /\ UNCHANGED <<disk, tick, faults>> /\ pc[w] = "statBundle"
        /\ pc'[w] = IF File("bundle", "current") # None THEN "rotateBundle" ELSE "installBundle"
    BY <1>0, <1>8 DEF PromoteStat, NoFault, Goto, TickType, StatAt, RotateAt, InstallAt, File
  <2>2. Promoted'
    BY <1>4, <1>5, <2>1 DEF Promoted, Promotes, File
  <2>3. CASE pc'[w] = "rotateBundle"
    <3>1. InPlace
      BY <2>1 DEF InPlace, File
    <3> QED
      BY <1>1, <1>2, <2>1, <2>2, <2>3, <3>1, QuietStep DEF Promoting
  <2>4. CASE pc'[w] = "installBundle"
    <3>1. ~ Unfailed
      BY <1>3, <1>6, <2>1, <2>4 DEF AtRest, ActivePair, File, Promoting
    <3> QED
      BY <1>1, <1>2, <2>1, <2>2, <2>4, <3>1, HalfMoved DEF Promoting
  <2> QED
    BY <2>1, <2>3, <2>4
<1>9. CASE PromoteRotate(w, "bundle") /\ ~ Fault
  <2>1. pc[w] = "rotateBundle" /\ UNCHANGED faults
    BY <1>9 DEF PromoteRotate, NoFault, RotateAt
  <2>2. CASE File("bundle", "current") = None
    <3>1. pc'[w] = "idle" /\ InPlace
      BY <1>0, <1>9, <2>2 DEF PromoteRotate, Return, Goto, TickType, InPlace, File
    <3> QED
      BY <1>1, <1>2, <2>1, <3>1, OutsidePromote, QuietStep DEF Promotes, Promoting
  <2>3. CASE File("bundle", "current") # None
    <3>1. pc'[w] = "installBundle" /\ UNCHANGED tick /\ Move("bundle", "current", "previous")
      BY <1>0, <1>9, <2>3 DEF PromoteRotate, Goto, TickType, InstallAt, File
    <3>2. /\ File("bundle", "previous")' = File("bundle", "current")
          /\ File("bundle", "staged")' = File("bundle", "staged")
          /\ \A s \in Slots : File("sig", s)' = File("sig", s)
      BY <1>0, <3>1, Moved DEF Kinds, Slots
    <3>3. Promoted'
      BY <1>4, <1>5, <2>1, <3>1, <3>2 DEF Promoted, Promotes, Slots
    <3>4. Unfailed => File("bundle", "previous")' = holder /\ File("sig", "current")' = holder
      BY <1>6, <2>1, <3>2 DEF AtRest, ActivePair, File, Promoting, Slots
    <3> QED
      BY <1>1, <1>2, <2>1, <3>1, <3>3, <3>4, HalfMoved DEF Promoting
  <2> QED
    BY <2>2, <2>3
<1>10. CASE PromoteInstall(w, "bundle") /\ ~ Fault
  <2>1. pc[w] = "installBundle" /\ UNCHANGED faults
    BY <1>10 DEF PromoteInstall, NoFault, InstallAt
  <2>2. File("bundle", "staged") # None
    BY <1>3, <1>5, <2>1
  <2>3. pc'[w] = "statSig" /\ UNCHANGED tick /\ Move("bundle", "staged", "current")
    BY <1>0, <1>10, <2>2 DEF PromoteInstall, Goto, TickType, PromotedTo, File
  <2>4. /\ File("bundle", "current")' = File("bundle", "staged")
        /\ File("bundle", "previous")' = File("bundle", "previous")
        /\ \A s \in Slots : File("sig", s)' = File("sig", s)
    BY <1>0, <2>3, Moved DEF Kinds, Slots
  <2>5. Promoted'
    BY <1>4, <1>5, <2>1, <2>3, <2>4 DEF Promoted, Promotes, Slots
  <2>6. Unfailed => File("bundle", "previous")' = holder /\ File("sig", "current")' = holder
    BY <1>6, <2>1, <2>4 DEF Promoting, Slots
  <2> QED
    BY <1>1, <1>2, <2>1, <2>3, <2>5, <2>6, HalfMoved DEF Promoting
<1>11. CASE PromoteStat(w, "sig") /\ ~ Fault
  <2>1. /\ UNCHANGED <<disk, tick, faults>> /\ pc[w] = "statSig"
        /\ pc'[w] = IF File("sig", "current") # None THEN "rotateSig" ELSE "installSig"
    BY <1>0, <1>11 DEF PromoteStat, NoFault, Goto, TickType, StatAt, RotateAt, InstallAt, File
  <2>2. Promoted'
    BY <1>4, <1>5, <2>1 DEF Promoted, Promotes, File
  <2>3. Unfailed => /\ File("bundle", "previous")' = holder /\ File("sig", "current")' = holder
                    /\ pc'[w] = "rotateSig"
    BY <1>3, <1>6, <2>1 DEF File, Promoting
  <2> QED
    BY <1>1, <1>2, <2>1, <2>2, <2>3, HalfMoved DEF Promoting
<1>12. CASE PromoteRotate(w, "sig") /\ ~ Fault
  <2>1. pc[w] = "rotateSig" /\ UNCHANGED faults
    BY <1>12 DEF PromoteRotate, NoFault, RotateAt
  <2>2. File("sig", "current") # None
    BY <1>5, <2>1
  <2>3. pc'[w] = "installSig" /\ UNCHANGED tick /\ Move("sig", "current", "previous")
    BY <1>0, <1>12, <2>2 DEF PromoteRotate, Goto, TickType, InstallAt, File
  <2>4. /\ File("sig", "previous")' = File("sig", "current")
        /\ File("sig", "staged")' = File("sig", "staged")
        /\ \A s \in Slots : File("bundle", s)' = File("bundle", s)
    BY <1>0, <2>3, Moved DEF Kinds, Slots
  <2>5. Promoted'
    BY <1>4, <1>5, <2>1, <2>3, <2>4 DEF Promoted, Promotes, Slots
  <2>6. Unfailed => File("bundle", "previous")' = holder /\ File("sig", "previous")' = holder
    BY <1>6, <2>1, <2>4 DEF Promoting, Slots
  <2> QED
    BY <1>1, <1>2, <2>1, <2>3, <2>5, <2>6, HalfMoved DEF Promoting
<1>13. CASE PromoteInstall(w, "sig") /\ ~ Fault
  <2>1. pc[w] = "installSig" /\ UNCHANGED faults
    BY <1>13 DEF PromoteInstall, NoFault, InstallAt
  <2>2. File("sig", "staged") # None
    BY <1>3, <1>5, <2>1
  <2>3. pc'[w] = "store" /\ UNCHANGED tick /\ Move("sig", "staged", "current")
    BY <1>0, <1>13, <2>2 DEF PromoteInstall, Goto, TickType, PromotedTo, File
  <2>4. /\ File("sig", "current")' = File("sig", "staged")
        /\ File("sig", "previous")' = File("sig", "previous")
        /\ \A s \in Slots : File("bundle", s)' = File("bundle", s)
    BY <1>0, <2>3, Moved DEF Kinds, Slots
  <2>5. File("bundle", "current")' = tick[w].loaded /\ File("sig", "current")' = tick[w].loaded
    BY <1>5, <2>1, <2>4 DEF Slots
  <2>6. Promoted'
    BY <1>4, <2>3, <2>5 DEF Promoted, Promotes
  <2>7. Unfailed => File("bundle", "previous")' = holder /\ File("sig", "previous")' = holder
    BY <1>6, <2>1, <2>4 DEF Promoting, Slots
  <2>8. RestPair'
    BY <1>3, <2>5 DEF RestPair, Verifies, Installed
  <2> QED
    BY <1>1, <1>2, <2>1, <2>3, <2>5, <2>6, <2>7, <2>8, HalfMoved DEF Promoting
<1>14. CASE Fault
  <2>1. Return(w) /\ UNCHANGED disk
    BY <1>14, BoundAssumption DEF PromoteStat, PromoteRotate, PromoteInstall, Fault, NoFault,
       DiskInv, TickInv, ServiceInv, GateInv, VerifiedInv, TypeOK, EnvType
  <2> QED
    BY <1>7, <1>14, <2>1 DEF Fault
<1>15. k = "bundle" \/ k = "sig"
  BY DEF Kinds
<1> QED
  BY <1>8, <1>9, <1>10, <1>11, <1>12, <1>13, <1>14, <1>15

\* Holder.Store catches up with the files that promote has moved.
LEMMA StoreStep ==
  ASSUME OneTick, DiskInv, NEW w \in Workers, HolderStore(w)
  PROVE  Promoted' /\ Exact' /\ Survives'
<1>0. TickType /\ MemType /\ Serving
  BY DEF DiskInv, TickInv, ServiceInv, GateInv, VerifiedInv, TypeOK
<1>1. /\ pc[w] = "store" /\ pc'[w] = "remember" /\ holder' = tick[w].loaded
      /\ UNCHANGED <<up, op, disk, tick, faults, crashes>>
  BY <1>0 DEF HolderStore, Keep, Goto, env, TickType
<1>2. up /\ up'
  BY <1>0, <1>1 DEF Serving, MemType
<1>3. \A v \in Workers : v = w
  BY DEF OneTick
<1>4. holder # tick[w].loaded
  <2>1. holder \in Bundles /\ tick[w].loaded \in Bundles
        /\ Version[tick[w].loaded] > Version[holder]
    BY <1>1, <1>2, BundleAssumption
       DEF DiskInv, TickInv, ServiceInv, GateInv, VerifiedInv, RouterVerified, LoadedVerified,
           Gated, PastVerify
  <2> QED
    BY <2>1, BundleAssumption
<1>5. Promoted'
  BY <1>1, OutsidePromote DEF Promotes
<1>6. Exact'
  <2> SUFFICES ASSUME Unfailed' PROVE ExactUp' /\ ExactDown'
    BY DEF Exact
  <2>1. /\ op = OpIdle /\ File("bundle", "current") = tick[w].loaded
        /\ File("bundle", "previous") = holder /\ File("sig", "previous") = holder
        /\ File("sig", "current") = tick[w].loaded
    BY <1>1, <1>2 DEF DiskInv, Promoted, Exact, Unfailed, ExactUp, Promoting, Promotes
  <2>2. AtRest(holder)'
    BY <1>1, <1>4, <2>1 DEF AtRest, ActivePair, File
  <2> QED
    BY <1>1, <1>2, <1>3, <2>1, <2>2 DEF ExactUp, ExactDown, Promoting
<1>7. Survives'
  <2>1. RestPair => RestPair'
    BY <1>1 DEF RestPair, File
  <2> QED
    BY <1>1, <1>3, <2>1 DEF Survives, DiskInv, Promoting
<1> QED
  BY <1>5, <1>6, <1>7

\* Shutdown waits for the one caller of Tick, so the files are at rest; a start
\* takes what is at rest.
LEMMA LifeStep ==
  ASSUME PollOnly, DiskInv, Start \/ Stop PROVE Promoted' /\ Exact' /\ Survives'
<1>0. TickType /\ Serving
  BY DEF DiskInv, TickInv, ServiceInv, GateInv, VerifiedInv, TypeOK
<1>1. /\ \A w \in Workers : pc[w] = "idle" /\ pc'[w] = "idle"
      /\ UNCHANGED <<disk, op, faults, crashes>>
  BY <1>0 DEF PollOnly, Start, Stop, Exit, env, Serving
<1>2. Promoted'
  BY <1>1 DEF Promoted, Promotes
<1>3. Survives'
  <2>1. RestPair => RestPair'
    BY <1>1 DEF RestPair, File
  <2> QED
    BY <1>1, <2>1 DEF Survives, DiskInv, Promoting
<1>4. Exact'
  <2> SUFFICES ASSUME Unfailed' PROVE ExactUp' /\ ExactDown'
    BY DEF Exact
  <2>1. ExactUp /\ ExactDown
    BY <1>1 DEF DiskInv, Exact, Unfailed
  <2>2. CASE Start
    <3>1. ~ up /\ up' /\ holder' = File("bundle", "current")
          /\ File("bundle", "current") = File("sig", "current")
      BY <2>2 DEF Start, Accepts, Verifies, File
    <3>2. op = OpIdle /\ AtRest(File("bundle", "current"))
      BY <2>1, <3>1 DEF ExactDown
    <3>3. AtRest(holder)'
      BY <1>1, <3>1, <3>2 DEF AtRest, ActivePair, File
    <3> QED
      BY <1>1, <3>1, <3>2, <3>3 DEF ExactUp, ExactDown, Promoting
  <2>3. CASE Stop
    <3>1. up /\ ~ up'
      BY <2>3 DEF Stop, Exit
    <3>2. op = OpIdle /\ AtRest(holder) /\ holder # None
      BY <1>1, <2>1, <3>1, SentinelAssumption, BundleAssumption
         DEF ExactUp, Promoting, DiskInv, TickInv, ServiceInv, GateInv, VerifiedInv, RouterVerified
    <3>3. File("bundle", "current")' = holder /\ AtRest(File("bundle", "current"))'
      BY <1>1, <3>2 DEF AtRest, ActivePair, File
    <3> QED
      BY <1>1, <3>1, <3>2, <3>3 DEF ExactUp, ExactDown
  <2> QED
    BY <2>2, <2>3
<1> QED
  BY <1>2, <1>3, <1>4

\* A rollback that stops half way leaves a bundle beside another's signature,
\* which starts nothing.
LEMMA RollbackStep ==
  ASSUME DiskInv, RollbackBundle \/ RollbackSig PROVE Promoted' /\ Exact' /\ Survives'
<1>0. TickType /\ DiskType /\ Serving /\ MemType
  BY DEF DiskInv, TickInv, ServiceInv, GateInv, VerifiedInv, TypeOK
<1>1. UNCHANGED <<up, holder, pc, tick, faults, crashes>>
  BY DEF RollbackBundle, RollbackSig, mem
<1>2. CASE RollbackBundle
  <2>1. Rollback /\ ~ up /\ op = OpIdle /\ File("bundle", "previous") # None
        /\ op' = [step |-> "rollbackSig", bundle |-> None] /\ Move("bundle", "previous", "current")
    BY <1>2 DEF RollbackBundle, File
  <2>2. /\ File("bundle", "current")' = File("bundle", "previous")
        /\ File("bundle", "previous")' = None
        /\ \A s \in Slots : File("sig", s)' = File("sig", s)
    BY <1>0, <2>1, Moved DEF Kinds, Slots
  <2>3. Exact'
    <3> SUFFICES ASSUME Unfailed' PROVE ExactUp' /\ ExactDown'
      BY DEF Exact
    <3>1. AtRest(File("bundle", "current"))
      BY <1>1, <2>1 DEF DiskInv, Exact, Unfailed, ExactDown
    <3>2. File("bundle", "current") = File("sig", "current")
          /\ File("bundle", "previous") = File("sig", "previous")
          /\ File("bundle", "previous") # File("bundle", "current")
      BY <3>1 DEF AtRest, ActivePair, File
    <3> QED
      BY <1>1, <2>1, <2>2, <3>2 DEF ExactUp, ExactDown, Slots
  <2> QED
    BY <1>0, <1>1, <2>1, <2>3 DEF Promoted, Survives, Serving, Promotes
<1>3. CASE RollbackSig
  <2>1. op.step = "rollbackSig" /\ op' = OpIdle
    BY <1>3 DEF RollbackSig
  <2>2. op # OpIdle
    BY <2>1 DEF OpIdle
  <2>3. Rollback
    BY <2>2 DEF DiskInv, Survives
  <2>4. \/ UNCHANGED disk
        \/ File("sig", "previous") # None /\ Move("sig", "previous", "current")
    BY <1>3 DEF RollbackSig, File
  <2>5. Exact'
    <3> SUFFICES ASSUME Unfailed' PROVE ExactUp' /\ ExactDown'
      BY DEF Exact
    <3>1. ~ up /\ File("bundle", "current") # File("sig", "current")
          /\ File("bundle", "previous") = None
          /\ File("sig", "previous") = File("bundle", "current")
      BY <1>1, <2>1, <2>2 DEF DiskInv, Exact, Unfailed, ExactUp, ExactDown
    <3>2. CASE UNCHANGED disk
      BY <1>1, <2>1, <2>3, <3>1, <3>2 DEF ExactUp, ExactDown, OpIdle, File
    <3>3. CASE File("sig", "previous") # None /\ Move("sig", "previous", "current")
      <4>1. /\ File("sig", "current")' = File("sig", "previous") /\ File("sig", "previous")' = None
            /\ \A s \in Slots : File("bundle", s)' = File("bundle", s)
        BY <1>0, <3>3, Moved DEF Kinds, Slots
      <4>2. File("bundle", "current")' = File("bundle", "current")
            /\ File("bundle", "previous")' = None
        BY <3>1, <4>1 DEF Slots
      <4>3. AtRest(File("bundle", "current"))' /\ File("bundle", "current")' # None
        BY <3>1, <3>3, <4>1, <4>2 DEF AtRest, ActivePair, File
      <4> QED
        BY <1>1, <2>1, <3>1, <4>3 DEF ExactUp, ExactDown
    <3> QED
      BY <2>4, <3>2, <3>3
  <2>6. Promoted'
    <3>1. CASE UNCHANGED disk
      BY <1>1, <3>1 DEF DiskInv, Promoted, File
    <3>2. CASE File("sig", "previous") # None /\ Move("sig", "previous", "current")
      <4>1. /\ File("sig", "current")' # None /\ File("sig", "staged")' = File("sig", "staged")
            /\ \A s \in Slots : File("bundle", s)' = File("bundle", s)
        BY <1>0, <3>2, Moved DEF Kinds, Slots
      <4> QED
        BY <1>1, <4>1 DEF DiskInv, Promoted, Slots
    <3> QED
      BY <2>4, <3>1, <3>2
  <2> QED
    BY <2>3, <2>5, <2>6 DEF Survives
<1> QED
  BY <1>2, <1>3

LEMMA NextDisk ==
  ASSUME PollOnly, DiskInv, [Next]_vars PROVE DiskInv'
<1> DEFINE Files == Promoted /\ Exact /\ Survives
<1>0. TickType /\ MemType /\ Serving /\ OneTick /\ Pushed = {}
  BY DEF PollOnly, DiskInv, TickInv, ServiceInv, GateInv, VerifiedInv, TypeOK
<1>1. TickInv'
  BY <1>0, NextTick DEF DiskInv
<1> SUFFICES Files'
  BY <1>1 DEF DiskInv
<1>2. ASSUME UNCHANGED <<up, holder, pc, disk, op, faults, crashes>>, UNCHANGED tick PROVE Files'
  <2>1. Promoted'
    BY <1>2 DEF DiskInv, Promoted, File
  <2>2. Exact'
    BY <1>2 DEF DiskInv, Exact, Unfailed, ExactUp, ExactDown, AtRest, ActivePair, File
  <2>3. Survives'
    BY <1>2 DEF DiskInv, Survives, RestPair, File
  <2> QED
    BY <2>1, <2>2, <2>3
<1>3. ASSUME NEW w \in Workers, TickStart(w) PROVE Files'
  <2>1. /\ up /\ up' /\ pc[w] = "idle" /\ pc'[w] = "fetchBundle"
        /\ UNCHANGED <<holder, op, faults, crashes>> /\ InPlace
    BY <1>0, <1>3 DEF TickStart, Goto, mem, env, TickType, MemType, InPlace, File
  <2> QED
    BY <1>0, <2>1, QuietStep, OutsidePromote DEF Promotes, Promoting
<1>4. ASSUME NEW w \in Workers, Tick(w) PROVE Files'
  <2>1. ASSUME Remember(w) \/ OnSwap(w) PROVE Files'
    <3>1. /\ pc[w] \in {"remember", "onSwap"} /\ pc'[w] \in {"idle", "onSwap"}
          /\ UNCHANGED <<up, holder, op, faults, crashes>> /\ InPlace
      BY <1>0, <2>1 DEF Remember, OnSwap, Keep, Goto, Return, env, TickType, InPlace, File
    <3>2. up /\ up'
      BY <1>0, <3>1 DEF Serving, MemType
    <3> QED
      BY <1>0, <3>1, <3>2, QuietStep, OutsidePromote DEF Promotes, Promoting
  <2> QED
    BY <1>0, <1>4, <2>1, BeforePromote, PromoteStep, StoreStep DEF Tick
<1>5. CASE Crash
  <2>1. /\ up /\ UNCHANGED <<op, faults>> /\ crashes' = crashes + 1 /\ InPlace
        /\ \A w \in Workers : pc'[w] = "idle"
    BY <1>5 DEF Crash, Exit, env, InPlace, File
  <2>2. Promoted'
    BY <2>1 DEF Promoted, Promotes
  <2> QED
    BY <1>0, <2>1, <2>2, FailedStep
<1>6. CASE TickerFires \/ PokeReceived \/ HupReceived
  BY <1>3, <1>6 DEF TickerFires, PokeReceived, HupReceived
<1>7. ASSUME NEW w \in Workers, AdminReload(w) PROVE Files'
  BY <1>3, <1>7 DEF AdminReload
<1>8. CASE Sighup \/ Sigusr1
  BY <1>2, <1>8 DEF Sighup, Sigusr1, mem, env
<1>9. ASSUME NEW b, PublishBundle(b) \/ PublishSig(b) PROVE Files'
  BY <1>2, <1>9 DEF PublishBundle, PublishSig, mem
<1>10. CASE UNCHANGED vars
  BY <1>2, <1>10 DEF vars, mem, env
<1> QED
  BY <1>0, <1>4, <1>5, <1>6, <1>7, <1>8, <1>9, <1>10, LifeStep, RollbackStep DEF Next, Operator

\* While the poll loop (or the signal goroutine) alone calls Tick, a Tick that
\* has returned without any failure leaves the active files equal to the live
\* router and a matching pair, or none, in the rollback slot.
THEOREM DiskAlwaysMatches == PollOnly => (Spec => []DiskMatchesRouter)
<1> SUFFICES ASSUME PollOnly PROVE Spec => []DiskMatchesRouter
  OBVIOUS
<1>1. DiskInv => DiskMatchesRouter
  BY DEF DiskInv, Exact, Unfailed, ExactUp, AtRest, Promoting, File, DiskMatchesRouter, Idle
<1>2. DiskInv /\ [Next]_vars => DiskInv'
  BY NextDisk
<1> QED
  BY InitDisk, <1>1, <1>2, PTL DEF Spec

\* While the poll loop (or the signal goroutine) alone calls Tick, one failed
\* system call or one crash, at whatever step, leaves a bundle file on disk whose
\* signature is on disk too.
THEOREM PairAlwaysSurvives == PollOnly => (Spec => []PairSurvives)
<1> SUFFICES ASSUME PollOnly PROVE Spec => []PairSurvives
  OBVIOUS
<1>1. ASSUME DiskInv PROVE PairSurvives
  <2> SUFFICES ASSUME ~ Rollback, faults + crashes <= 1
               PROVE  \E s, t \in Slots : Verifies(File("bundle", s), File("sig", t))
    BY DEF PairSurvives, File
  <2>1. faults \in Nat /\ crashes \in Nat /\ OneTick
    BY <1>1, BoundAssumption
       DEF DiskInv, TickInv, ServiceInv, GateInv, VerifiedInv, TypeOK, EnvType, PollOnly
  <2>2. RestPair => \E s, t \in Slots : Verifies(File("bundle", s), File("sig", t))
    BY DEF RestPair, Installed, Slots
  <2>3. CASE Unfailed /\ up
    BY <1>1, <2>1, <2>2, <2>3, UnfailedPair DEF DiskInv
  <2>4. CASE Unfailed /\ ~ up
    <3>1. File("bundle", "current") # None /\ AtRest(File("bundle", "current"))
      BY <1>1, <2>4 DEF DiskInv, Exact, ExactDown
    <3>2. File("sig", "current") = File("bundle", "current")
      BY <3>1 DEF AtRest, ActivePair, File
    <3> QED
      BY <3>1, <3>2 DEF Verifies, Slots
  <2>5. CASE faults + crashes = 1
    <3>1. CASE \A w \in Workers : pc[w] \notin Promoting \ {"store"}
      BY <1>1, <2>2, <2>5, <3>1 DEF DiskInv, Survives
    <3>2. ASSUME NEW w \in Workers, pc[w] \in Promoting \ {"store"}
          PROVE  \E s, t \in Slots : Verifies(File("bundle", s), File("sig", t))
      <4>1. tick[w].loaded # None
        BY <1>1, <3>2, SentinelAssumption, BundleAssumption
           DEF DiskInv, TickInv, ServiceInv, GateInv, VerifiedInv, LoadedVerified, PastVerify,
               Promoting
      <4>2. /\ File("sig", "staged") = tick[w].loaded
            /\ \/ File("bundle", "staged") = tick[w].loaded
               \/ File("bundle", "current") = tick[w].loaded
        BY <1>1, <3>2 DEF DiskInv, Promoted, Promotes, Promoting
      <4> QED
        BY <4>1, <4>2 DEF Verifies, Slots
    <3> QED
      BY <3>1, <3>2
  <2> QED
    BY <2>1, <2>3, <2>4, <2>5 DEF Unfailed
<1>2. DiskInv /\ [Next]_vars => DiskInv'
  BY NextDisk
<1> QED
  BY InitDisk, <1>1, <1>2, PTL DEF Spec
=============================================================================

------------------------- MODULE BinaryUpdateProofs -------------------------
(***************************************************************************)
(* Proofs about BinaryUpdate for every set of binaries, any number of      *)
(* concurrent uploads and every bound on failures and crashes.             *)
(***************************************************************************)
EXTENDS BinaryUpdate, TLAPS

-----------------------------------------------------------------------------
(* The inductive invariants *)

\* What a request writes has been verified.
VerifiedUploads ==
  \A u \in Uploads : /\ upload[u].bin \in Signed \cup {NoBinary}
                     /\ upload[u].pc = "stage" => upload[u].bin \in Signed

SignedInv == BinTypeOK /\ OnlySigned /\ VerifiedUploads

\* As long as no two operations have overlapped, at most one is under way.
Solo ==
  ~ overlapped => /\ rollback # "idle" => \A u \in Uploads : upload[u].pc = "idle"
             /\ \A u, v \in Uploads :
                  upload[u].pc # "idle" /\ upload[v].pc # "idle" => u = v

\* The binary that was active when the operation began: out of the way of the
\* staged path, which the next upload overwrites, and, unless it is the active
\* one, out of the way of the current path too.
Aside == before \in {binary["previous"], binary["tmp"]}
InPlace == binary["current"] = before \/ (binary["current"] = NoBinary /\ Aside)

ApplyKeeps ==
  \A u \in Uploads : /\ upload[u].pc \in {"stage", "stat"} => InPlace
                     /\ upload[u].pc = "rotate" => binary["current"] = before
                     /\ upload[u].pc = "install" => binary["current"] = NoBinary /\ Aside
RollbackKeeps ==
  /\ rollback = "stash" => InPlace
  /\ rollback \in {"promote", "restore", "demote"} => binary["tmp"] = before
Survival ==
  ~ overlapped => (binary["current"] = before \/ Aside) /\ ApplyKeeps /\ RollbackKeeps
SurvivalInv == SignedInv /\ Solo /\ Survival

\* With nothing failing, promote and Rollback find every file they rename, and
\* the steps that undo a failure are never reached.
Smooth == ~ overlapped /\ binFaults = 0 /\ crashes = 0
PriorKept ==
  /\ binary["current"] # NoBinary
  /\ binary["previous"] = before \/ (binary["previous"] = NoBinary /\ binary["current"] = before)
ApplySmooth ==
  \A u \in Uploads :
    /\ upload[u].pc # "clean"
    /\ upload[u].pc \in {"stage", "stat", "rotate"} => binary["current"] = before
    /\ upload[u].pc \in {"stat", "rotate", "install"} => binary["staged"] # NoBinary
    /\ upload[u].pc = "install" => binary["previous"] = before
RollbackSmooth ==
  /\ rollback # "restore"
  /\ rollback = "stash" => binary["current"] = before
  /\ rollback \in {"stash", "promote"} => binary["previous"] # NoBinary
  /\ rollback \in {"promote", "demote"} => binary["tmp"] = before
  /\ rollback = "demote" => binary["current"] # NoBinary
Prior == Smooth => (Quiet => PriorKept) /\ ApplySmooth /\ RollbackSmooth
PriorInv == SurvivalInv /\ Prior

-----------------------------------------------------------------------------
(* Types and signatures *)

LEMMA InitSigned == BinInit => SignedInv
<1> SUFFICES ASSUME BinInit PROVE SignedInv
  OBVIOUS
<1>1. BinTypeOK
  <2>1. binary \in [Slots -> Binaries \cup {NoBinary}]
    BY BinaryAssumption DEF BinInit
  <2>2. upload \in [Uploads -> [pc : {"idle", "stage", "stat", "rotate", "install", "clean"},
                                bin : Binaries \cup {NoBinary}]]
    BY DEF BinInit, Nobody
  <2>3. binFaults \in 0..MaxBinFaults /\ crashes \in 0..MaxCrashes
    BY BinaryAssumption DEF BinInit
  <2> QED
    BY <2>1, <2>2, <2>3, BinaryAssumption DEF BinInit, BinTypeOK
<1>2. OnlySigned /\ VerifiedUploads
  BY BinaryAssumption DEF BinInit, OnlySigned, VerifiedUploads, Slots, Nobody
<1> QED
  BY <1>1, <1>2 DEF SignedInv

\* Every step keeps the types and the signatures: a rename only moves what was
\* there, and only Stage brings in new bytes.
LEMMA NextSigned == SignedInv /\ [BinNext]_binVars => SignedInv'
<1> SUFFICES ASSUME SignedInv, [BinNext]_binVars PROVE SignedInv'
  OBVIOUS
<1>0. BinTypeOK /\ OnlySigned /\ VerifiedUploads
  BY DEF SignedInv
<1> USE <1>0, BinaryAssumption
    DEF SignedInv, BinTypeOK, OnlySigned, VerifiedUploads, Slots, Nobody, BinFault, NoBinFault,
        Rename, RenameErr, BeginOperation, UploadAt, UploadGoto, Done, KeepApply, KeepRollback
<1>1. ASSUME NEW u \in Uploads, NEW b \in Binaries, Upload(u, b) PROVE SignedInv'
  BY <1>1 DEF Upload
<1>2. ASSUME NEW u \in Uploads, Stage(u) PROVE SignedInv'
  BY <1>2 DEF Stage
<1>3. ASSUME NEW u \in Uploads, PromoteStat(u) PROVE SignedInv'
  BY <1>3 DEF PromoteStat
<1>4. ASSUME NEW u \in Uploads, PromoteRotate(u) PROVE SignedInv'
  BY <1>4 DEF PromoteRotate
<1>5. ASSUME NEW u \in Uploads, PromoteInstall(u) PROVE SignedInv'
  BY <1>5 DEF PromoteInstall
<1>6. ASSUME NEW u \in Uploads, RemoveStaged(u) PROVE SignedInv'
  BY <1>6 DEF RemoveStaged
<1>7. CASE RollbackStat
  BY <1>7 DEF RollbackStat
<1>8. CASE RollbackStash
  BY <1>8 DEF RollbackStash
<1>9. CASE RollbackPromote
  BY <1>9 DEF RollbackPromote
<1>10. CASE RollbackRestore
  BY <1>10 DEF RollbackRestore
<1>11. CASE RollbackDemote
  BY <1>11 DEF RollbackDemote
<1>12. CASE Crash
  BY <1>12 DEF Crash
<1>13. CASE UNCHANGED binVars
  BY <1>13 DEF binVars
<1> QED
  BY <1>1, <1>2, <1>3, <1>4, <1>5, <1>6, <1>7, <1>8, <1>9, <1>10, <1>11, <1>12, <1>13
  DEF BinNext, Apply, Rollback

\* However many uploads, rollbacks and crashes overlap on the shared paths, no
\* slot ever holds a binary the signing key has not signed.
THEOREM AlwaysSigned == BinSpec => []OnlySigned
<1>1. SignedInv => OnlySigned
  BY DEF SignedInv
<1> QED
  BY <1>1, InitSigned, NextSigned, PTL DEF BinSpec

-----------------------------------------------------------------------------
(* One operation at a time *)

LEMMA InitSurvival == BinInit => SurvivalInv
<1> SUFFICES ASSUME BinInit PROVE SurvivalInv
  OBVIOUS
<1>1. Solo
  BY DEF BinInit, Solo, Nobody
<1>2. Survival
  BY DEF BinInit, Survival, ApplyKeeps, RollbackKeeps, Slots, Nobody
<1> QED
  BY <1>1, <1>2, InitSigned DEF SurvivalInv

\* Only an operation that begins while another is under way breaks Solo, and
\* Begin notes that in clash.
LEMMA NextSolo == BinTypeOK /\ Solo /\ [BinNext]_binVars => Solo'
<1> SUFFICES ASSUME BinTypeOK, Solo, [BinNext]_binVars PROVE Solo'
  OBVIOUS
<1> USE DEF BinTypeOK, Solo, Nobody, BeginOperation, Quiet, UploadAt, UploadGoto, Done,
        KeepApply, KeepRollback
<1>1. ASSUME NEW u \in Uploads, NEW b \in Binaries, Upload(u, b) PROVE Solo'
  BY <1>1 DEF Upload
<1>2. ASSUME NEW u \in Uploads, Apply(u) PROVE Solo'
  BY <1>2 DEF Apply, Stage, PromoteStat, PromoteRotate, PromoteInstall, RemoveStaged
<1>3. CASE Rollback
  BY <1>3 DEF Rollback, RollbackStat, RollbackStash, RollbackPromote, RollbackRestore,
              RollbackDemote
<1>4. CASE Crash
  BY <1>4 DEF Crash
<1>5. CASE UNCHANGED binVars
  BY <1>5 DEF binVars
<1> QED
  BY <1>1, <1>2, <1>3, <1>4, <1>5 DEF BinNext

\* Each system call of the one operation under way leaves the binary that was
\* active when it began in some slot the rest of the operation does not clobber.
LEMMA NextSurvival == SurvivalInv /\ [BinNext]_binVars => SurvivalInv'
<1> SUFFICES ASSUME SurvivalInv, [BinNext]_binVars PROVE SurvivalInv'
  OBVIOUS
<1>0. SignedInv' /\ Solo' /\ BinTypeOK /\ Solo /\ Survival
  BY NextSigned, NextSolo DEF SurvivalInv, SignedInv
<1> SUFFICES ASSUME ~ overlapped' PROVE Survival'
  BY <1>0 DEF SurvivalInv, Survival
<1> USE <1>0, BinaryAssumption
    DEF BinTypeOK, Slots, Solo, Survival, Aside, InPlace, ApplyKeeps, RollbackKeeps,
        Nobody, Rename, RenameErr, BeginOperation, Quiet, UploadAt, UploadGoto, Done,
        KeepApply, KeepRollback
<1>1. ASSUME NEW u \in Uploads, NEW b \in Binaries, Upload(u, b) PROVE Survival'
  BY <1>1 DEF Upload
<1>2. ASSUME NEW u \in Uploads, Stage(u) PROVE Survival'
  BY <1>2 DEF Stage
<1>3. ASSUME NEW u \in Uploads, PromoteStat(u) PROVE Survival'
  BY <1>3 DEF PromoteStat
<1>4. ASSUME NEW u \in Uploads, PromoteRotate(u) PROVE Survival'
  BY <1>4 DEF PromoteRotate
<1>5. ASSUME NEW u \in Uploads, PromoteInstall(u) PROVE Survival'
  BY <1>5 DEF PromoteInstall
<1>6. ASSUME NEW u \in Uploads, RemoveStaged(u) PROVE Survival'
  BY <1>6 DEF RemoveStaged
<1>7. CASE RollbackStat
  BY <1>7 DEF RollbackStat
<1>8. CASE RollbackStash
  BY <1>8 DEF RollbackStash
<1>9. CASE RollbackPromote
  BY <1>9 DEF RollbackPromote
<1>10. CASE RollbackRestore
  BY <1>10 DEF RollbackRestore
<1>11. CASE RollbackDemote
  BY <1>11 DEF RollbackDemote
<1>12. CASE Crash
  BY <1>12 DEF Crash
<1>13. CASE UNCHANGED binVars
  BY <1>13 DEF binVars
<1> QED
  BY <1>1, <1>2, <1>3, <1>4, <1>5, <1>6, <1>7, <1>8, <1>9, <1>10, <1>11, <1>12, <1>13
  DEF BinNext, Apply, Rollback

\* Apply and Rollback never lose the binary they replace, however many of their
\* system calls fail and however often the process dies between two of them, as
\* long as no two operations overlap.
THEOREM ActiveAlwaysSurvives == BinSpec => []ActiveSurvives
<1>1. SurvivalInv => ActiveSurvives
  BY DEF SurvivalInv, Survival, Aside, ActiveSurvives, Slots
<1> QED
  BY <1>1, InitSurvival, NextSurvival, PTL DEF BinSpec

-----------------------------------------------------------------------------
(* Nothing failing *)

LEMMA InitPrior == BinInit => PriorInv
<1> SUFFICES ASSUME BinInit PROVE PriorInv
  OBVIOUS
<1>1. Prior
  BY BinaryAssumption DEF BinInit, Prior, PriorKept, ApplySmooth, RollbackSmooth, Slots, Nobody
<1> QED
  BY <1>1, InitSurvival DEF PriorInv

LEMMA NextPrior == PriorInv /\ [BinNext]_binVars => PriorInv'
<1> SUFFICES ASSUME PriorInv, [BinNext]_binVars PROVE PriorInv'
  OBVIOUS
<1>0. SurvivalInv' /\ BinTypeOK /\ VerifiedUploads /\ Solo /\ Prior
  BY NextSurvival DEF PriorInv, SurvivalInv, SignedInv
<1> SUFFICES ASSUME Smooth' PROVE Prior'
  BY <1>0 DEF PriorInv, Prior
<1>1. binFaults' = 0 /\ crashes' = 0 /\ ~ overlapped'
  BY DEF Smooth
<1> USE <1>0, <1>1, BinaryAssumption
    DEF BinTypeOK, Slots, VerifiedUploads, Solo, Prior, Smooth, PriorKept, ApplySmooth,
        RollbackSmooth, Nobody, BinFault, NoBinFault, Rename, RenameErr, BeginOperation,
        Quiet, UploadAt, UploadGoto,
        Done, KeepApply, KeepRollback
<1>2. ASSUME NEW u \in Uploads, NEW b \in Binaries, Upload(u, b) PROVE Prior'
  BY <1>2 DEF Upload
<1>3. ASSUME NEW u \in Uploads, Stage(u) PROVE Prior'
  BY <1>3 DEF Stage
<1>4. ASSUME NEW u \in Uploads, PromoteStat(u) PROVE Prior'
  BY <1>4 DEF PromoteStat
<1>5. ASSUME NEW u \in Uploads, PromoteRotate(u) PROVE Prior'
  BY <1>5 DEF PromoteRotate
<1>6. ASSUME NEW u \in Uploads, PromoteInstall(u) PROVE Prior'
  BY <1>6 DEF PromoteInstall
<1>7. ASSUME NEW u \in Uploads, RemoveStaged(u) PROVE Prior'
  BY <1>7 DEF RemoveStaged
<1>8. CASE RollbackStat
  BY <1>8 DEF RollbackStat
<1>9. CASE RollbackStash
  BY <1>9 DEF RollbackStash
<1>10. CASE RollbackPromote
  BY <1>10 DEF RollbackPromote
<1>11. CASE RollbackRestore
  BY <1>11 DEF RollbackRestore
<1>12. CASE RollbackDemote
  BY <1>12 DEF RollbackDemote
<1>13. CASE Crash
  BY <1>13 DEF Crash
<1>14. CASE UNCHANGED binVars
  BY <1>14 DEF binVars
<1> QED
  BY <1>2, <1>3, <1>4, <1>5, <1>6, <1>7, <1>8, <1>9, <1>10, <1>11, <1>12, <1>13, <1>14
  DEF BinNext, Apply, Rollback

\* After uploads and rollbacks that ran one at a time and to their end, a binary
\* is active and the one before it is in the rollback slot.
THEOREM AlwaysPrior == BinSpec => []PreviousIsPrior
<1>1. PriorInv => PreviousIsPrior
  BY DEF PriorInv, Prior, Smooth, PriorKept, PreviousIsPrior
<1> QED
  BY <1>1, InitPrior, NextPrior, PTL DEF BinSpec
=============================================================================

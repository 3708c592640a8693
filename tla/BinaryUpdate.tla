----------------------------- MODULE BinaryUpdate -----------------------------
(***************************************************************************)
(* binupd.Receiver: Apply behind POST /admin/binary/upload, any number of  *)
(* requests at once, and Rollback behind --rollback-binary, a process of   *)
(* its own.  Nothing serialises them: each system call is an action.       *)
(*                                                                         *)
(* A binary stands for its bytes.  A crash keeps the files.                *)
(***************************************************************************)
EXTENDS Naturals

CONSTANTS
  Binaries,     \* what a client may upload, and what was installed first
  Signed,       \* those with a good signature by the binary signing key
  Shipped,      \* the binary install.sh put in place
  Uploads,      \* concurrent upload requests
  NoBinary,     \* no file
  MaxBinFaults, MaxCrashes   \* bounds

ASSUME BinaryAssumption ==
  /\ Signed \subseteq Binaries /\ Shipped \in Signed /\ NoBinary \notin Binaries
  /\ MaxBinFaults \in Nat /\ MaxCrashes \in Nat

VARIABLES
  binary,     \* binary[s]: content of the file in slot s
  upload,     \* per request: position in Apply and its binary
  rollback,   \* position in Rollback
  before,     \* history: the active binary before the operation that last began
  overlapped, \* history: two operations have overlapped
  binFaults, crashes

binVars == <<binary, upload, rollback, before, overlapped, binFaults, crashes>>

Slots == {"current", "previous", "staged", "tmp"}
Nobody == [pc |-> "idle", bin |-> NoBinary]

\* The type invariant.
BinTypeOK ==
  /\ binary \in [Slots -> Binaries \cup {NoBinary}]
  /\ upload \in [Uploads -> [pc : {"idle", "stage", "stat", "rotate", "install", "clean"},
                             bin : Binaries \cup {NoBinary}]]
  /\ rollback \in {"idle", "stash", "promote", "restore", "demote"}
  /\ before \in Binaries /\ overlapped \in BOOLEAN
  /\ binFaults \in 0..MaxBinFaults /\ crashes \in 0..MaxCrashes

BinFault == binFaults < MaxBinFaults /\ binFaults' = binFaults + 1
NoBinFault == UNCHANGED binFaults

\* os.Rename: the source must exist, the target is replaced.
Rename(from, to) ==
  binary[from] # NoBinary /\ binary' = [binary EXCEPT ![to] = binary[from], ![from] = NoBinary]

\* A rename from slot s fails.
RenameErr(s) ==
  /\ UNCHANGED binary
  /\ \/ binary[s] = NoBinary /\ NoBinFault
     \/ BinFault

Quiet == rollback = "idle" /\ \A u \in Uploads : upload[u].pc = "idle"

\* History at the start of an operation.
BeginOperation ==
  /\ before' = IF binary["current"] = NoBinary THEN before ELSE binary["current"]
  /\ overlapped' = (overlapped \/ ~ Quiet)

-----------------------------------------------------------------------------
(* Apply *)

UploadAt(u, l) == upload[u].pc = l
UploadGoto(u, l) == upload' = [upload EXCEPT ![u].pc = l]
Done(u) == upload' = [upload EXCEPT ![u] = Nobody]
KeepApply == UNCHANGED <<rollback, before, overlapped, crashes>>

\* Mutant: the signature is not looked at.
UploadUnverified(u, b) ==
  /\ UploadAt(u, "idle")
  /\ upload' = [upload EXCEPT ![u] = [pc |-> "stage", bin |-> b]]
  /\ BeginOperation /\ UNCHANGED <<binary, rollback, binFaults, crashes>>

\* The bytes in memory are verified; a bad signature is a 400 and no file.
Upload(u, b) ==
  /\ UploadAt(u, "idle") /\ b \in Signed
  /\ upload' = [upload EXCEPT ![u] = [pc |-> "stage", bin |-> b]]
  /\ BeginOperation /\ UNCHANGED <<binary, rollback, binFaults, crashes>>

\* writeExecutable: a temporary file renamed to the shared staged path.
Stage(u) ==
  /\ UploadAt(u, "stage") /\ KeepApply
  /\ \/ binary' = [binary EXCEPT !["staged"] = upload[u].bin] /\ UploadGoto(u, "stat") /\ NoBinFault
     \/ BinFault /\ Done(u) /\ UNCHANGED binary

PromoteStat(u) ==
  /\ UploadAt(u, "stat") /\ KeepApply /\ UNCHANGED binary
  /\ \/ binary["current"] # NoBinary /\ UploadGoto(u, "rotate") /\ NoBinFault
     \/ binary["current"] = NoBinary /\ UploadGoto(u, "install") /\ NoBinFault
     \/ BinFault /\ UploadGoto(u, "clean")

\* Mutant: the old binary is removed instead of kept for rollback.
PromoteRotateRemoves(u) ==
  /\ UploadAt(u, "rotate") /\ KeepApply /\ NoBinFault
  /\ binary' = [binary EXCEPT !["current"] = NoBinary] /\ UploadGoto(u, "install")

PromoteRotate(u) ==
  /\ UploadAt(u, "rotate") /\ KeepApply
  /\ \/ Rename("current", "previous") /\ UploadGoto(u, "install") /\ NoBinFault
     \/ RenameErr("current") /\ UploadGoto(u, "clean")

PromoteInstall(u) ==
  /\ UploadAt(u, "install") /\ KeepApply
  /\ \/ Rename("staged", "current") /\ Done(u) /\ NoBinFault
     \/ RenameErr("staged") /\ UploadGoto(u, "clean")

\* promote failed: the staged file is removed, the error ignored.
RemoveStaged(u) ==
  /\ UploadAt(u, "clean") /\ KeepApply /\ Done(u)
  /\ \/ binary' = [binary EXCEPT !["staged"] = NoBinary] /\ NoBinFault
     \/ BinFault /\ UNCHANGED binary

-----------------------------------------------------------------------------
(* Rollback *)

KeepRollback == UNCHANGED <<upload, before, overlapped, crashes>>

RollbackStat ==
  /\ rollback = "idle" /\ binary["previous"] # NoBinary
  /\ rollback' = "stash" /\ BeginOperation /\ UNCHANGED <<binary, upload, binFaults, crashes>>

RollbackStash ==
  /\ rollback = "stash" /\ KeepRollback
  /\ \/ Rename("current", "tmp") /\ rollback' = "promote" /\ NoBinFault
     \/ RenameErr("current") /\ rollback' = "idle"

RollbackPromote ==
  /\ rollback = "promote" /\ KeepRollback
  /\ \/ Rename("previous", "current") /\ rollback' = "demote" /\ NoBinFault
     \/ RenameErr("previous") /\ rollback' = "restore"

RollbackRestore ==
  /\ rollback = "restore" /\ KeepRollback /\ rollback' = "idle"
  /\ \/ Rename("tmp", "current") /\ NoBinFault
     \/ RenameErr("tmp")

\* Mutant: the stashed binary is left where it is.
RollbackDemoteSkipped ==
  /\ rollback = "demote" /\ KeepRollback /\ rollback' = "idle" /\ NoBinFault
  /\ UNCHANGED binary

RollbackDemote ==
  /\ rollback = "demote" /\ KeepRollback /\ rollback' = "idle"
  /\ \/ Rename("tmp", "previous") /\ NoBinFault
     \/ RenameErr("tmp")

-----------------------------------------------------------------------------
\* The proxy dies, or the rollback process does.
Crash ==
  /\ crashes < MaxCrashes /\ crashes' = crashes + 1
  /\ \/ upload' = [u \in Uploads |-> Nobody] /\ UNCHANGED rollback
     \/ rollback' = "idle" /\ UNCHANGED upload
  /\ UNCHANGED <<binary, before, overlapped, binFaults>>

BinInit ==
  /\ binary = [s \in Slots |-> IF s = "current" THEN Shipped ELSE NoBinary]
  /\ upload = [u \in Uploads |-> Nobody] /\ rollback = "idle"
  /\ before = Shipped /\ overlapped = FALSE /\ binFaults = 0 /\ crashes = 0

Apply(u) ==
  \/ Stage(u) \/ PromoteStat(u) \/ PromoteRotate(u) \/ PromoteInstall(u) \/ RemoveStaged(u)
Rollback ==
  \/ RollbackStat \/ RollbackStash \/ RollbackPromote \/ RollbackRestore \/ RollbackDemote

BinNext ==
  \/ \E u \in Uploads : Apply(u) \/ \E b \in Binaries : Upload(u, b)
  \/ Rollback \/ Crash

BinSpec == BinInit /\ [][BinNext]_binVars

-----------------------------------------------------------------------------
(* Properties *)

\* Whatever uploads and rollbacks overlap on the shared paths, systemd never
\* finds an unverified binary in the active or in the rollback slot.
OnlySigned == \A s \in Slots : binary[s] \in Signed \cup {NoBinary}

\* One operation at a time and nothing failing: an active binary is in place,
\* and the one that was active before the last upload or rollback is in the
\* other slot, so a rollback, and a rollback of the rollback, has its target.
PreviousIsPrior ==
  (Quiet /\ ~ overlapped /\ binFaults = 0 /\ crashes = 0) =>
    /\ binary["current"] # NoBinary
    /\ binary["previous"] = before \/ (binary["previous"] = NoBinary /\ binary["current"] = before)

\* One operation at a time: whichever calls fail and wherever the process dies,
\* again and again, the binary that was active when the operation began is still
\* on disk.
ActiveSurvives == ~ overlapped => \E s \in Slots : binary[s] = before
=============================================================================

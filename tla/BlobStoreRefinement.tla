------------------------ MODULE BlobStoreRefinement -------------------------
(***************************************************************************)
(* Where no sync fails (MaxIoErrors = 0) the store implements module       *)
(* BlobIndex, and the action properties of BlobStore follow.  They need    *)
(* not hold afterwards: a sync that is tried again after one that failed   *)
(* reports success although the bytes never reached the disk.              *)
(***************************************************************************)
EXTENDS BlobStoreSafety

(* A thread of a process that runs a batch has set State.syncing. *)
BatchFlagged ==
    /\ \A t \in Thread : pc[t] \in BatchLabels => ProcOf[t] \in syncing
    /\ OneBatch

(* The files are touched in these ways only. *)
FsStep ==
    \/ UNCHANGED fsVars
    \/ \E b \in Blob : \E i \in Ino : LinkFile(b, i)
    \/ \E b \in Blob : UnlinkFile(b) /\ dir[b] \notin good
    \/ \E b \in Blob : SyncData(b) \/ SyncDir(b)
    \/ SyncFilesystem

(* A thread's step changes the files by one operation of the file system,  *)
(* and unlinks only corrupt files.                                         *)
LEMMA StepFs ==
    ASSUME TypeOK, FailureFree, NEW t \in Thread, Step(t)
    PROVE  FsStep
  <1>a. my[t].blob \in Blob /\ my[t].toSync \subseteq Blob /\ my[t].toSyncDirs \subseteq Blob
    BY Zenon DEF TypeOK, QueueTypeOK, Locals
  <1>v. ThreadInv(t)
    BY Zenon DEF FailureFree
  <1>1. CASE OpenBlob(t) \/ CheckUnchanged(t) \/ CheckHash(t) \/ RecordCheck(t)
             \/ AcquireStoreLock(t) \/ PersistVerify(t) \/ RegisterStat(t) \/ RegisterQueue(t)
             \/ SyncOk(t) \/ SyncErr(t) \/ RowCheck(t) \/ RowWrite(t)
    BY <1>1, Zenon
    DEF FsStep, OpenBlob, CheckUnchanged, CheckHash, RecordCheck, AcquireStoreLock, PersistVerify,
        RegisterStat, RegisterQueue, SyncOk, SyncErr, RowCheck, RowWrite
  <1>2. CASE PersistLink(t)
    BY <1>a, <1>2, Zenon DEF FsStep, PersistLink
  <1>3. CASE PersistRemove(t)
    BY Zenon, <1>a, <1>v, <1>3 DEF FsStep, PersistRemove, ThreadInv
  <1>4. CASE InSync(t)
    <2>1. CASE AwaitBatch(t) \/ BeginBatch(t) \/ EndBatch(t) \/ BatchSyncfs(t)
      BY Zenon, <2>1 DEF FsStep, AwaitBatch, BeginBatch, EndBatch, BatchSyncfs
    <2>2. CASE BatchSyncFile(t) \/ BatchSyncDir(t)
      BY Zenon, <1>a, <2>2 DEF FsStep, BatchSyncFile, BatchSyncDir
    <2>3. CASE BatchUnlink(t)
      BY Zenon, <1>v, <2>3 DEF BatchUnlink, ThreadInv
    <2>4. QED
      BY Zenon, <1>4, <2>1, <2>2, <2>3 DEF InSync, SyncStep
  <1>5. QED
    BY Zenon, <1>1, <1>2, <1>3, <1>4 DEF Step

(* So does every step but a power loss.                                    *)
LEMMA NextFs ==
    ASSUME TypeOK, FailureFree, [Next]_vars, MaxIoErrors = 0
    PROVE  PowerLoss \/ FsStep
  <1>1. ASSUME NEW t \in Thread, Start(t) \/ StoreLockTimeout(t) PROVE FsStep
    BY Zenon, <1>1
    DEF FsStep, Start, PutBytes, VerifyBlob, PublishStaged, AddArtifacts, StoreLockTimeout
  <1>2. \A t \in Thread : ~BatchError(t)
    BY DEF BatchError, TypeOK, QueueTypeOK
  <1>3. CASE Checkpoint \/ UNCHANGED vars \/ \E p \in Proc : Kill(p)
    BY <1>3, Zenon DEF FsStep, Checkpoint, vars, Kill
  <1>4. QED
    BY Zenon, <1>1, <1>2, <1>3, StepFs DEF Next

(* Every step but a power loss keeps the blobs whose bytes are right.      *)
LEMMA NextKeeps ==
    ASSUME TypeOK, FailureFree, [Next]_vars, MaxIoErrors = 0
    PROVE  PowerLoss \/ FsKeeps
  BY Zenon, NextFs, FsStepKeeps DEF FsStep, TypeOK, FailureFree

(* With no sync allowed to fail, the invariant holds unconditionally. *)
NoErrors == ioErrors = 0

(* Without failing syncs, the invariant's condition always holds.          *)
LEMMA NeverFails ==
    ASSUME MaxIoErrors = 0
    PROVE  Spec => [](TypeOK /\ FailureFree)
  <1>1. Init => NoErrors
    BY Zenon DEF Init, QueueInit, NoErrors
  <1>2. NoErrors /\ TypeOK /\ [Next]_vars => NoErrors'
    <2> SUFFICES ASSUME NoErrors, TypeOK, [Next]_vars PROVE NoErrors'
      BY Zenon
    <2>1. \A t \in Thread : ~BatchError(t)
      BY DEF BatchError, NoErrors
    <2>2. QED
      BY Zenon, <2>1, NextErrors DEF NoErrors
  <1>3. IInv /\ NoErrors => FailureFree
    BY Zenon DEF IInv, NoErrors
  <1>4. Spec => [](TypeOK /\ IInv)
    BY Zenon, Invariant
  <1>5. QED
    BY <1>1, <1>2, <1>3, <1>4, PTL DEF Spec

(***************************************************************************)
(* Without failing syncs, no step but a power loss removes or replaces a   *)
(* blob file whose bytes are right.                                        *)
(***************************************************************************)
THEOREM OnlyCorruptEverRemoved ==
    ASSUME MaxIoErrors = 0
    PROVE  Spec => OnlyCorruptRemoved
  <1>1. TypeOK /\ FailureFree /\ [Next]_vars
          => [PowerLoss \/ \A b \in Blob : dir[b] \in good => dir'[b] = dir[b]]_vars
    <2> SUFFICES ASSUME TypeOK, FailureFree, [Next]_vars
                 PROVE  PowerLoss \/ \A b \in Blob : dir[b] \in good => dir'[b] = dir[b]
      BY Zenon
    <2>1. CASE FsKeeps
      BY Zenon, <2>1 DEF FsKeeps
    <2>2. QED
      BY Zenon, <2>1, NextKeeps
  <1>2. QED
    BY <1>1, NeverFails, PTL DEF Spec, OnlyCorruptRemoved

(***************************************************************************)
(* Without failing syncs, a power loss keeps the blob of every row it      *)
(* leaves (durability.rs, first crash-safety fact).                        *)
(***************************************************************************)
THEOREM RowBlobsSurvive ==
    ASSUME MaxIoErrors = 0
    PROVE  Spec => CrashKeepsRowBlobs
  <1>1. TypeOK /\ FailureFree /\ [Next]_vars
          => [PowerLoss => \A b \in index'.rows : dir[b] \in good => dir'[b] \in good']_vars
    <2> SUFFICES ASSUME TypeOK, FailureFree, PowerLoss
                 PROVE  \A b \in index'.rows : dir'[b] \in good'
      BY Zenon
    <2>1. IndexDurable' /\ index' \in Index
      BY Zenon, PowerLossInv DEF FailureFree, PowerLoss, TypeOK
    <2>2. QED
      BY Zenon, <2>1 DEF IndexDurable, Durable, Index
  <1>2. QED
    BY <1>1, NeverFails, PTL DEF Spec, CrashKeepsRowBlobs

-----------------------------------------------------------------------------
(* The refinement *)

(***************************************************************************)
(* A power loss cannot bring back a row that is not in the index, nor an   *)
(* intact file that is not at its path.                                    *)
(***************************************************************************)
NothingHidden ==
    /\ \A ix \in indexDisk : ix.rows \subseteq index.rows
    /\ \A b \in Blob : \A f \in diskDir[b] : f \in good => f = dir[b]

(* A right file that a power loss may bring back is the one at its path.   *)
LEMMA HiddenFs ==
    ASSUME TypeOK, FailureFree, NothingHidden, FsStep
    PROVE  \A b \in Blob : \A f \in diskDir'[b] : f \in good' => f = dir'[b]
  <1> USE NoFileAssumption DEF TypeOK, FsTypeOK, FailureFree, PathsCreated, Created, NothingHidden, File
  <1>1. CASE UNCHANGED fsVars
    BY Zenon, <1>1 DEF fsVars
  <1>2. ASSUME NEW b \in Blob, NEW i \in Ino, LinkFile(b, i)
        PROVE  \A c \in Blob : \A f \in diskDir'[c] : f \in good' => f = dir'[c]
    BY SMTT(60), <1>2 DEF LinkFile
  <1>3. ASSUME NEW b \in Blob, UnlinkFile(b), dir[b] \notin good
        PROVE  \A c \in Blob : \A f \in diskDir'[c] : f \in good' => f = dir'[c]
    BY ZenonT(60), <1>3 DEF UnlinkFile
  <1>4. ASSUME NEW b \in Blob, SyncData(b) \/ SyncDir(b)
        PROVE  \A c \in Blob : \A f \in diskDir'[c] : f \in good' => f = dir'[c]
    BY <1>4 DEF SyncData, SyncDir
  <1>5. CASE SyncFilesystem
    BY Zenon, <1>5 DEF SyncFilesystem
  <1>6. QED
    BY ZenonT(60), <1>1, <1>2, <1>3, <1>4, <1>5 DEF FsStep

(* What a step does to the rows. *)
RowsStep ==
    \/ UNCHANGED <<index, indexDisk>>
    \/ UNCHANGED <<fsVars, index>> /\ indexDisk' = {index}
    \/ \E b \in Blob, next \in Index :
         /\ Commit(next) /\ UNCHANGED fsVars
         /\ next.rows = index.rows \/ (next.rows = index.rows \cup {b} /\ dir[b] \in good)

(* Every step but a power loss commits at most one row, whose blob is in   *)
(* place with the right bytes.                                             *)
LEMMA NextRows ==
    ASSUME TypeOK, FailureFree, [Next]_vars
    PROVE  PowerLoss \/ RowsStep
  <1>1. ASSUME NEW t \in Thread, Start(t) \/ StoreLockTimeout(t) PROVE RowsStep
    BY Zenon, <1>1
    DEF RowsStep, Start, PutBytes, VerifyBlob, PublishStaged, AddArtifacts, StoreLockTimeout, storeVars
  <1>2. ASSUME NEW t \in Thread, Step(t) PROVE RowsStep
    <2>a. my[t] \in Locals /\ my[t].blob \in Blob /\ my[t].fd \in File
      BY Zenon DEF TypeOK, QueueTypeOK, Locals
    <2>1. CASE RecordCheck(t)
      <3>1. PICK next \in Index : next = [index EXCEPT !.checked[my[t].blob] = my[t].fd]
        BY Zenon, <2>a DEF Index, TypeOK
      <3>2. Commit(next) /\ UNCHANGED fsVars
        BY Zenon, <2>1, <3>1 DEF RecordCheck
      <3>3. next.rows = index.rows
        BY Zenon, <3>1 DEF Index, TypeOK
      <3>4. QED
        BY Zenon, <2>a, <3>2, <3>3 DEF RowsStep
    <2>2. CASE RowWrite(t)
      <3>1. CheckedAfterRow(t) \in [Blob -> File]
        BY Zenon, <2>a DEF CheckedAfterRow, Index, TypeOK, FsTypeOK
      <3>2. PICK next \in Index :
              next = [rows |-> index.rows \cup {my[t].blob}, checked |-> CheckedAfterRow(t)]
        BY Zenon, <2>a, <3>1 DEF Index, TypeOK
      <3>3. Commit(next) /\ UNCHANGED fsVars /\ next.rows = index.rows \cup {my[t].blob}
        BY ZenonT(60), <2>2, <3>2 DEF RowWrite
      <3>4. dir[my[t].blob] \in good
        BY Zenon, <2>2 DEF RowWrite, FailureFree, ThreadInv, IntactLabels
      <3>5. QED
        BY Zenon, <2>a, <3>3, <3>4 DEF RowsStep
    <2>3. CASE InSync(t) \/ (RegisterStat(t) /\ UNCHANGED storeVars)
      BY Zenon, <2>3 DEF RowsStep, InSync, storeVars
    <2>4. CASE OpenBlob(t) \/ CheckUnchanged(t) \/ CheckHash(t) \/ AcquireStoreLock(t)
               \/ PersistLink(t) \/ PersistVerify(t) \/ PersistRemove(t) \/ RegisterQueue(t)
               \/ SyncOk(t) \/ SyncErr(t) \/ RowCheck(t)
      BY Zenon, <2>4
      DEF RowsStep, OpenBlob, CheckUnchanged, CheckHash, AcquireStoreLock, PersistLink, PersistVerify,
          PersistRemove, RegisterQueue, SyncOk, SyncErr, RowCheck, storeVars
    <2>5. QED
      BY ZenonT(60), <1>2, <2>1, <2>2, <2>3, <2>4 DEF Step
  <1>3. QED
    BY Zenon, <1>1, <1>2 DEF Next, RowsStep, Checkpoint, Kill, vars, storeVars

(* So every step keeps the files and the rows that a power loss may bring  *)
(* back among those in place.                                              *)
LEMMA HiddenNext ==
    ASSUME TypeOK, FailureFree, NothingHidden, [Next]_vars, MaxIoErrors = 0
    PROVE  NothingHidden'
  <1>1. CASE PowerLoss
    <2>1. indexDisk' = {index'}
      BY Zenon, <1>1 DEF PowerLoss
    <2>2. \A b \in Blob : diskDir'[b] = {dir'[b]}
      BY Zenon, <1>1 DEF PowerLoss, FsPowerLoss
    <2>3. QED
      BY Zenon, <2>1, <2>2 DEF NothingHidden
  <1>2. CASE ~PowerLoss
    <2>1. FsStep /\ RowsStep
      BY Zenon, <1>2, NextFs, NextRows
    <2>2. \A ix \in indexDisk' : ix.rows \subseteq index'.rows
      BY Zenon, <2>1 DEF RowsStep, Commit, NothingHidden
    <2>3. QED
      BY Zenon, <2>1, <2>2, HiddenFs DEF NothingHidden
  <1>3. QED
    BY Zenon, <1>1, <1>2

(* Every step is a step of BlobIndex or leaves its state unchanged.        *)
LEMMA Refines ==
    ASSUME TypeOK, FailureFree, NothingHidden, [Next]_vars, MaxIoErrors = 0
    PROVE  [Promise!Next]_<<index.rows, {b \in Blob : dir[b] \in good}>>
  <1> DEFINE intact == {b \in Blob : dir[b] \in good}
             intactNext == {b \in Blob : dir'[b] \in good'}
  <1> SUFFICES \/ index'.rows = index.rows /\ intactNext = intact
               \/ \E b \in Blob : index'.rows = index.rows /\ intactNext = intact \cup {b}
               \/ \E b \in intact : index'.rows = index.rows \cup {b} /\ intactNext = intact
               \/ /\ index'.rows \subseteq index.rows /\ intactNext \subseteq intact
                  /\ index'.rows \subseteq intactNext
    BY Zenon DEF Promise!Next, Promise!Publish, Promise!Name, Promise!PowerLoss
  <1>1. CASE PowerLoss
    <2>1. index'.rows \subseteq index.rows
      BY Zenon, <1>1 DEF PowerLoss, NothingHidden
    <2>2. intactNext \subseteq intact
      BY Zenon, <1>1 DEF PowerLoss, FsPowerLoss, NothingHidden
    <2>3. IndexDurable' /\ index' \in Index
      BY Zenon, <1>1, PowerLossInv DEF FailureFree, PowerLoss, TypeOK
    <2>4. index'.rows \subseteq intactNext
      BY Zenon, <2>3 DEF IndexDurable, Durable, Index
    <2>5. QED
      BY ZenonT(60), <2>1, <2>2, <2>4
  <1>2. CASE ~PowerLoss
    <2>1. FsStep /\ RowsStep
      BY Zenon, <1>2, NextFs, NextRows
    <2>2. CASE UNCHANGED fsVars
      <3>1. intactNext = intact
        BY Zenon, <2>2 DEF fsVars
      <3>2. index'.rows = index.rows \/ \E b \in intact : index'.rows = index.rows \cup {b}
        BY Zenon, <2>1 DEF RowsStep, Commit
      <3>3. QED
        BY Zenon, <3>1, <3>2
    <2>3. CASE ~UNCHANGED fsVars
      <3>1. index' = index
        BY Zenon, <2>1, <2>3 DEF RowsStep
      <3>2. ASSUME NEW b \in Blob, NEW i \in Ino, LinkFile(b, i) PROVE intactNext = intact \cup {b}
        BY ZenonT(60), <3>2, NoFileAssumption DEF LinkFile, TypeOK, FsTypeOK,
           FailureFree, PathsCreated, Created, File
      <3>3. ASSUME NEW b \in Blob, UnlinkFile(b), dir[b] \notin good PROVE intactNext = intact
        BY Zenon, <3>3, NoFileAssumption DEF UnlinkFile, TypeOK, FsTypeOK, File
      <3>4. ASSUME NEW b \in Blob, SyncData(b) \/ SyncDir(b) PROVE intactNext = intact
        BY Zenon, <3>4 DEF SyncData, SyncDir
      <3>5. SyncFilesystem => intactNext = intact
        BY Zenon DEF SyncFilesystem
      <3>6. QED
        BY ZenonT(60), <2>1, <2>3, <3>1, <3>2, <3>3, <3>4, <3>5 DEF FsStep
    <2>4. QED
      BY ZenonT(60), <2>2, <2>3
  <1>3. QED
    BY Zenon, <1>1, <1>2

(***************************************************************************)
(* Without failing syncs the store implements BlobIndex: linking a file is *)
(* Publish, committing a row is Name, a power loss is PowerLoss, and every *)
(* other step of every thread leaves the abstract index unchanged.         *)
(***************************************************************************)
THEOREM StoreImplementsPromise ==
    ASSUME MaxIoErrors = 0
    PROVE  Spec => ImplementsPromise
  <1>1. Init => NothingHidden /\ Promise!Init
    BY NoFileAssumption DEF Init, FsInit, NothingHidden, Promise!Init
  <1>2. TypeOK /\ FailureFree /\ NothingHidden /\ [Next]_vars => NothingHidden'
    BY Zenon, HiddenNext
  <1>3. TypeOK /\ FailureFree /\ NothingHidden /\ [Next]_vars
          => [Promise!Next]_<<index.rows, {b \in Blob : dir[b] \in good}>>
    BY Zenon, Refines
  <1>4. QED
    BY <1>1, <1>2, <1>3, NeverFails, PTL DEF Spec, ImplementsPromise, Promise!Spec

-----------------------------------------------------------------------------
(* Batches, with any number of failing syncs *)

(* A step that puts no thread into a batch keeps BatchFlagged. *)
LEMMA NoNewBatch ==
    ASSUME BatchFlagged,
           \A u \in Thread : pc'[u] \in BatchLabels
                             => pc[u] \in BatchLabels /\ (ProcOf[u] \in syncing => ProcOf[u] \in syncing')
    PROVE  BatchFlagged'
  BY Zenon DEF BatchFlagged, OneBatch

(* A thread that enters a batch sets State.syncing, and clears it when it  *)
(* leaves.                                                                 *)
LEMMA BatchStep ==
    ASSUME pc \in [Thread -> Labels], BatchFlagged, NEW t \in Thread, Step(t)
    PROVE  BatchFlagged'
  <1>1. CASE BeginBatch(t)
    <2>1. ProcOf[t] \notin syncing /\ syncing' = syncing \cup {ProcOf[t]}
      BY Zenon, <1>1 DEF BeginBatch, MayBegin
    <2>2. \A u \in Thread : u # t => pc'[u] = pc[u]
      BY Zenon, <1>1 DEF BeginBatch
    <2>3. QED
      BY Zenon, <2>1, <2>2 DEF BatchFlagged, OneBatch
  <1>2. CASE EndBatch(t)
    <2>1. pc[t] \in BatchLabels /\ syncing' = syncing \ {ProcOf[t]}
      BY Zenon, <1>2 DEF EndBatch, BatchLabels
    <2>2. \A u \in Thread : pc'[u] = pc[u] \/ pc'[u] = "sync"
      BY Zenon, <1>2 DEF EndBatch, Woken
    <2>3. pc'[t] = "sync"
      BY Zenon, <1>2 DEF EndBatch, Woken
    <2>4. QED
      BY Zenon, <2>1, <2>2, <2>3, NoNewBatch DEF BatchFlagged, OneBatch, BatchLabels
  <1>3. CASE syncing' = syncing /\ (pc' = pc \/ \E l \in Labels : pc' = [pc EXCEPT ![t] = l]
                                    /\ (l \in BatchLabels => pc[t] \in BatchLabels))
    BY ZenonT(60), <1>3, NoNewBatch
  <1>4. CASE SyncOk(t) \/ SyncErr(t) \/ (RegisterStat(t) /\ UNCHANGED storeVars)
    BY <1>3, <1>4
    DEF SyncOk, SyncErr, SyncReturnsOk, SyncReturnsErr, RegisterStat, GoTo, Return, queueVars, BatchLabels,
        Labels, SyncLabels
  <1>5. CASE AwaitBatch(t) \/ BatchSyncfs(t) \/ BatchSyncFile(t) \/ BatchSyncDir(t) \/ BatchUnlink(t)
    BY ZenonT(60), <1>3, <1>5
    DEF AwaitBatch, BatchSyncfs, BatchSyncFile, BatchSyncDir, BatchUnlink, queueVars, BatchLabels,
        Labels, SyncLabels
  <1>6. CASE OpenBlob(t) \/ CheckUnchanged(t) \/ CheckHash(t) \/ RecordCheck(t)
    BY SMTT(60), <1>3, <1>6
    DEF OpenBlob, CheckUnchanged, CheckHash, RecordCheck, Intact, Register, GoTo, Return, queueVars,
        BatchLabels, Labels, SyncLabels
  <1>7. CASE AcquireStoreLock(t) \/ PersistLink(t) \/ PersistVerify(t) \/ PersistRemove(t)
    BY SMTT(60), <1>3, <1>7
    DEF AcquireStoreLock, PersistLink, PersistVerify, PersistRemove, Published, PersistFails, Register,
        GoTo, Return, queueVars, BatchLabels, Labels, SyncLabels
  <1>8. CASE RegisterQueue(t)
    <2>1. syncing' = syncing
      BY Zenon, <1>8 DEF RegisterQueue, RegisterKnown, RegisterNew, queueVars
    <2>2. pc' = [pc EXCEPT ![t] = "sync"] \/ pc' = [pc EXCEPT ![t] = "idle"]
      BY Zenon, <1>8 DEF RegisterQueue, Registered, Return
    <2>3. /\ "sync" \in Labels /\ "idle" \in Labels
          /\ "sync" \notin BatchLabels /\ "idle" \notin BatchLabels
      BY Zenon DEF Labels, BatchLabels, SyncLabels
    <2>4. QED
      BY Zenon, <1>3, <2>1, <2>2, <2>3
  <1>9. CASE RowCheck(t) \/ RowWrite(t)
    BY ZenonT(60), <1>3, <1>9 DEF RowCheck, RowWrite, GoTo, Return, queueVars,
       BatchLabels, Labels, SyncLabels
  <1>10. QED
    BY ZenonT(60), <1>1, <1>2, <1>4, <1>5, <1>6, <1>7, <1>8, <1>9 DEF Step, InSync,
       SyncStep

(* So every step keeps the flag and the batches in agreement.              *)
LEMMA BatchNext ==
    ASSUME TypeOK, BatchFlagged, [Next]_vars
    PROVE  BatchFlagged'
  <1>a. pc \in [Thread -> Labels] /\ ProcOf \in [Thread -> Proc]
    BY Zenon, DurabilityAssumption DEF TypeOK, QueueTypeOK
  <1>1. CASE UNCHANGED vars \/ Checkpoint
    BY Zenon, <1>1, NoNewBatch DEF vars, queueVars, Checkpoint
  <1>2. ASSUME NEW procs \in SUBSET Proc, Forget(procs) PROVE BatchFlagged'
    <2>1. \A u \in Thread : pc'[u] = IF ProcOf[u] \in procs THEN "idle" ELSE pc[u]
      BY Zenon, <1>2 DEF Forget
    <2>2. syncing' = syncing \ procs
      BY <1>2, Zenon DEF Forget, ForgetQueues
    <2>3. QED
      BY Zenon, <2>1, <2>2, NoNewBatch DEF BatchLabels
  <1>3. ASSUME NEW t \in Thread, Start(t) \/ StoreLockTimeout(t) \/ BatchError(t) PROVE BatchFlagged'
    <2>1. syncing' = syncing /\ \E l \in Labels :
            pc' = [pc EXCEPT ![t] = l] /\ (l \in BatchLabels => pc[t] \in BatchLabels)
      BY <1>3
      DEF Start, PutBytes, VerifyBlob, PublishStaged, AddArtifacts, StoreLockTimeout, BatchError, Return,
          queueVars, BatchLabels, Labels, SyncLabels
    <2>2. QED
      BY ZenonT(60), <1>a, <2>1, NoNewBatch
  <1>4. QED
    BY <1>a, <1>1, <1>2, <1>3, BatchStep, Zenon DEF Next, Kill, PowerLoss

(***************************************************************************)
(* Two threads of a process never run batches at once, however many syncs  *)
(* fail: State.syncing is set for as long as a thread is in one.           *)
(***************************************************************************)
THEOREM OneBatchAlways == Spec => []OneBatch
  <1>1. Init => BatchFlagged
    BY Zenon DEF Init, QueueInit, BatchFlagged, OneBatch, BatchLabels
  <1>2. TypeOK /\ BatchFlagged /\ [Next]_vars => BatchFlagged'
    BY Zenon, BatchNext
  <1>3. BatchFlagged => OneBatch
    BY Zenon DEF BatchFlagged
  <1>4. QED
    BY <1>1, <1>2, <1>3, TypeCorrect, PTL DEF Spec
=============================================================================

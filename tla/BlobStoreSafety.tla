-------------------------- MODULE BlobStoreSafety ---------------------------
(***************************************************************************)
(* Proofs about module BlobStore: its types and, while no sync fails, that *)
(* IInv is inductive; RowsIntact, StampsSound, OneBatch and                *)
(* OnlyCorruptRemoved follow.  IInv says where, at every moment, the sync  *)
(* of a blob that somebody is going to rely on will come from: the blob is *)
(* durable, or it waits in the process's queue under a ticket that no      *)
(* running batch will reach, or a running batch has yet to sync its        *)
(* directory.                                                              *)
(*                                                                         *)
(* The argument has three layers.  FsKeeps: no step but a power loss takes *)
(* away a file whose bytes are right, and no step at all takes away a      *)
(* durable one.  CoveredKeeps: therefore what a ticket promises stays      *)
(* promised while queues and batches advance.  Then one lemma per action.  *)
(***************************************************************************)
EXTENDS BlobStore, TLAPS

-----------------------------------------------------------------------------
(* The inductive invariant *)

(* The file at b's path is intact, and a power loss leaves it there. *)
Durable(b) ==
    /\ dir[b] \in good
    /\ dir[b] \in safe
    /\ diskDir[b] = {dir[b]}

InBatch(t) == pc[t] \in {"syncfs", "fsync"}

(* make_durable(n) in process p does not return before b is durable. *)
Covered(p, b, n) ==
    \/ Durable(b)
    \/ b \in files[p] /\ taken[p] < n
    \/ synced[p] < n /\ \E u \in Thread :
            ProcOf[u] = p /\ InBatch(u) /\ b \in my[u].toSyncDirs

(* Identities the processes remember are those of files that were created. *)
Created(f) == f \in used \cup {NoFile}

PathsCreated == \A b \in Blob : Created(dir[b]) /\ \A f \in diskDir[b] : Created(f)

-----------------------------------------------------------------------------
(* The queues *)

CountsOrdered == \A p \in Proc : synced[p] <= taken[p] /\ taken[p] <= registered[p]

QueuedIntact == \A p \in Proc : \A b \in files[p] : dir[b] \in good

(* A thread in a batch is the only one, and has synced what it has to. *)
Batching(t) ==
    InBatch(t) =>
        /\ ProcOf[t] \in syncing
        /\ my[t].upto = taken[ProcOf[t]]
        /\ \A b \in my[t].toSyncDirs :
            dir[b] \in good /\ (b \notin my[t].toSync => dir[b] \in safe)
        /\ \A u \in Thread : InBatch(u) /\ ProcOf[u] = ProcOf[t] => u = t

StampsCovered ==
    \A p \in Proc, b \in Blob :
        /\ Created(stamps[p][b].ino)
        /\ stamps[p][b].ino = dir[b] /\ dir[b] \in good => Covered(p, b, stamps[p][b].ticket)

QueueInv ==
    /\ CountsOrdered
    /\ QueuedIntact
    /\ \A t \in Thread : Batching(t)
    /\ StampsCovered

-----------------------------------------------------------------------------
(* A thread *)

LockLabels == {"link", "verify", "remove", "rowCheck", "rowWrite"}

(* From here on a thread deals with a blob whose bytes are right. *)
IntactLabels == SyncLabels \cup {"regStat", "regQueue", "stamp", "rowLock", "rowCheck", "rowWrite"}

(* The file opened for a check is still the one at the path. *)
SameFile(t) ==
    \/ pc[t] = "stamp"
    \/ pc[t] \in SyncLabels \cup {"regStat", "regQueue"} /\ my[t].call = "check"

WriteLabels == {"stamp", "rowLock", "rowCheck", "rowWrite"}

ThreadInv(t) ==
    /\ pc[t] # "unlink"
    /\ Created(my[t].fd)
    /\ Created(my[t].seen)
    /\ pc[t] \in LockLabels => lock = t
    /\ pc[t] = "remove" => dir[my[t].blob] \notin good
    /\ pc[t] = "check" => my[t].fd # NoFile
    /\ pc[t] = "check" /\ my[t].fd \in good => dir[my[t].blob] = my[t].fd
    /\ pc[t] \in IntactLabels => dir[my[t].blob] \in good
    /\ SameFile(t) => my[t].fd = dir[my[t].blob]
    /\ pc[t] = "regQueue" => my[t].seen = dir[my[t].blob]
    /\ pc[t] \in SyncLabels => Covered(ProcOf[t], my[t].blob, my[t].ticket)
    /\ pc[t] \in WriteLabels => Durable(my[t].blob)

-----------------------------------------------------------------------------
(* What outlives a process *)

HeldIntact == \A p \in Proc : \A b \in held[p] : dir[b] \in good

(* Every state of index.db a power loss may leave names only durable blobs. *)
IndexDurable ==
    /\ index \in indexDisk
    /\ \A ix \in indexDisk, b \in Blob :
        /\ b \in ix.rows => Durable(b)
        /\ ix.checked[b] # NoFile => Durable(b) /\ dir[b] = ix.checked[b]

FailureFree ==
    /\ lost = {}
    /\ failed = {}
    /\ PathsCreated
    /\ QueueInv
    /\ \A t \in Thread : ThreadInv(t)
    /\ HeldIntact
    /\ IndexDurable

(***************************************************************************)
(* Until a sync fails, everything a thread, a queue or a row relies on is  *)
(* durable or on its way to be: the inductive invariant.                   *)
(***************************************************************************)
IInv == ioErrors = 0 => FailureFree

-----------------------------------------------------------------------------
(* Types *)

USE DEF fsVars, queueVars, storeVars

ThreadTypeOK ==
    /\ pc \in [Thread -> Labels]
    /\ my \in [Thread -> Locals]

(* A call's fresh locals have their types.                                 *)
LEMMA FreshType ==
    ASSUME NEW op \in Ops, NEW call \in Calls, NEW b \in Blob
    PROVE  Fresh(op, call, b) \in Locals
  BY Zenon DEF Fresh, Locals, File

(* So have those of an idle thread.                                        *)
LEMMA IdleType == Idle \in Locals
  <1>1. AnyBlob \in Blob
    BY Zenon, StoreAssumption DEF AnyBlob
  <1>2. QED
    BY Zenon, <1>1, FreshType DEF Idle, Ops, Calls

(* The ways a thread's step ends. *)
LEMMA ReturnType ==
    ASSUME ThreadTypeOK, NEW t \in Thread, Return(t)
    PROVE  ThreadTypeOK'
  BY Zenon, IdleType DEF ThreadTypeOK, Return, Labels

(* Moving on within a call keeps the types of the threads.                 *)
LEMMA GoToType ==
    ASSUME ThreadTypeOK, NEW t \in Thread, NEW l \in Labels, GoTo(t, l)
    PROVE  ThreadTypeOK'
  BY Zenon DEF ThreadTypeOK, GoTo

(* So does entering Durability::register.                                  *)
LEMMA RegisterType ==
    ASSUME ThreadTypeOK, NEW t \in Thread, NEW call \in Calls, NEW created \in BOOLEAN,
           Register(t, call, created)
    PROVE  ThreadTypeOK'
  <1> DEFINE m == [my[t] EXCEPT !.call = call, !.created = created, !.fd = NoFile]
  <1>1. my[t] \in Locals
    BY Zenon DEF ThreadTypeOK
  <1>2. m \in Locals
    BY <1>1, Zenon DEF Locals, File
  <1>3. my' = [my EXCEPT ![t] = m]
    BY Zenon DEF Register
  <1>4. pc' \in [Thread -> Labels]
    BY Zenon DEF ThreadTypeOK, Register, Labels
  <1>5. QED
    BY <1>2, <1>3, <1>4, Zenon DEF ThreadTypeOK

(* The type invariant is inductive. *)
LEMMA InitType == Init => TypeOK
  <1> SUFFICES ASSUME Init PROVE TypeOK
    BY Zenon
  <1>1. FsTypeOK
    BY Zenon DEF Init, FsInit, FsTypeOK, File
  <1>2. QueueTypeOK
    BY Zenon, IdleType DEF Init, QueueInit, QueueTypeOK, Stamp, NoStamp, File,
       Labels
  <1>3. QED
    BY <1>1, <1>2 DEF Init, TypeOK, Index, File

(* Every operation of the file system keeps its types.                     *)
LEMMA FsNextType ==
    ASSUME FsTypeOK,
           \/ UNCHANGED fsVars
           \/ \E b \in Blob, i \in Ino : LinkFile(b, i)
           \/ \E b \in Blob : UnlinkFile(b) \/ SyncData(b) \/ SyncDir(b)
           \/ SyncFilesystem
           \/ WritebackError
           \/ FsPowerLoss
    PROVE  FsTypeOK'
  <1>1. CASE UNCHANGED fsVars
    BY Zenon, <1>1 DEF FsTypeOK
  <1>2. CASE \E b \in Blob, i \in Ino : LinkFile(b, i)
    BY <1>2 DEF FsTypeOK, LinkFile, File
  <1>3. CASE \E b \in Blob : UnlinkFile(b) \/ SyncData(b) \/ SyncDir(b)
    BY <1>3 DEF FsTypeOK, UnlinkFile, SyncData, SyncDir, File
  <1>4. CASE SyncFilesystem
    BY Zenon, <1>4 DEF FsTypeOK, SyncFilesystem, File
  <1>5. CASE WritebackError
    BY Zenon, <1>5 DEF FsTypeOK, WritebackError
  <1>6. CASE FsPowerLoss
    BY <1>6 DEF FsTypeOK, FsPowerLoss
  <1>7. QED
    BY Zenon, <1>1, <1>2, <1>3, <1>4, <1>5, <1>6

(* Every step of a thread keeps the types. *)
LEMMA StartType ==
    ASSUME TypeOK, NEW t \in Thread, Start(t)
    PROVE  TypeOK'
  <1> USE DEF TypeOK, QueueTypeOK
  <1>0. PICK b \in Blob :
          PutBytes(t, b) \/ VerifyBlob(t, b) \/ PublishStaged(t, b) \/ AddArtifacts(t, b)
    BY Zenon DEF Start
  <1>1. FsTypeOK'
    BY Zenon, <1>0, FsNextType DEF PutBytes, VerifyBlob, PublishStaged, AddArtifacts
  <1>2. CASE PutBytes(t, b) \/ VerifyBlob(t, b) \/ PublishStaged(t, b)
    <2>1. /\ Fresh("put", "none", b) \in Locals
          /\ Fresh("verify", "none", b) \in Locals
          /\ Fresh("stage", "publish", b) \in Locals
      BY Zenon, FreshType DEF Ops, Calls
    <2>2. QED
      BY ZenonT(60), <1>1, <1>2, <2>1 DEF PutBytes, VerifyBlob, PublishStaged, Labels
  <1>3. CASE AddArtifacts(t, b)
    <2>1. [Fresh("rows", "rows", b) EXCEPT !.ticket = RegisteredSoFar(ProcOf[t])] \in Locals
      <3>1. Fresh("rows", "rows", b) \in Locals
        BY Zenon, FreshType DEF Ops, Calls
      <3>2. RegisteredSoFar(ProcOf[t]) \in Nat
        BY Zenon, DurabilityAssumption DEF RegisteredSoFar
      <3>3. QED
        BY <3>1, <3>2, Zenon DEF Locals
    <2>2. QED
      BY Zenon, <1>1, <1>3, <2>1 DEF AddArtifacts, Labels, SyncLabels
  <1>4. QED
    BY Zenon, <1>0, <1>2, <1>3

(* A step of a thread keeps the types.                                     *)
LEMMA StepType ==
    ASSUME TypeOK, NEW t \in Thread, Step(t)
    PROVE  TypeOK'
  <1>b. my[t] \in Locals /\ my[t].blob \in Blob /\ my[t].fd \in File /\ ProcOf[t] \in Proc
    BY Zenon, DurabilityAssumption DEF Locals, TypeOK, QueueTypeOK
  <1>d. dir[my[t].blob] \in File
    BY Zenon, <1>b DEF TypeOK, FsTypeOK
  <1>h. ThreadTypeOK
    BY Zenon DEF TypeOK, QueueTypeOK, ThreadTypeOK
  <1>l. {"idle", "check", "stamp", "regStat", "regQueue", "lock", "link", "verify", "remove",
         "rowLock", "rowCheck", "rowWrite", "sync"} \subseteq Labels
        /\ {"check", "found", "publish"} \subseteq Calls
    BY Zenon DEF Labels, SyncLabels, Calls
  <1>r. ASSUME Hold(t) \/ UNCHANGED held PROVE held' \in [Proc -> SUBSET Blob]
    BY <1>r, <1>b DEF Hold, TypeOK
  <1>i. ASSUME Intact(t) PROVE ThreadTypeOK' /\ (Hold(t) \/ UNCHANGED held)
    BY <1>i, <1>h, <1>l, ReturnType, RegisterType, Zenon DEF Intact
  <1>1. CASE OpenBlob(t)
    <2>1. FsTypeOK'
      BY Zenon, <1>1, FsNextType DEF OpenBlob, TypeOK
    <2>2. ThreadTypeOK'
      <3>1. CASE Return(t)
        BY Zenon, <3>1, <1>h, ReturnType
      <3>2. CASE /\ pc' = [pc EXCEPT ![t] = "check"]
                 /\ my' = [my EXCEPT ![t].fd = dir[my[t].blob]]
        BY Zenon, <3>2, <1>b, <1>d, <1>l, <1>h DEF ThreadTypeOK, Locals
      <3>3. CASE pc' = [pc EXCEPT ![t] = "lock"] /\ my' = [my EXCEPT ![t].call = "publish"]
        BY Zenon, <3>3, <1>b, <1>l, <1>h DEF ThreadTypeOK, Locals
      <3>4. QED
        BY Zenon, <1>1, <3>1, <3>2, <3>3 DEF OpenBlob
    <2>3. QED
      BY Zenon, <1>1, <2>1, <2>2 DEF OpenBlob, TypeOK, QueueTypeOK, ThreadTypeOK
  <1>2. CASE CheckUnchanged(t)
    <2>1. FsTypeOK'
      BY Zenon, <1>2, FsNextType DEF CheckUnchanged, TypeOK
    <2>2. ThreadTypeOK' /\ held' \in [Proc -> SUBSET Blob]
      BY Zenon, <1>2, <1>i, <1>r DEF CheckUnchanged
    <2>3. QED
      BY Zenon, <1>2, <2>1, <2>2 DEF CheckUnchanged, TypeOK, QueueTypeOK,
         ThreadTypeOK
  <1>3. CASE CheckHash(t)
    <2>1. FsTypeOK'
      BY Zenon, <1>3, FsNextType DEF CheckHash, TypeOK
    <2>2. ThreadTypeOK'
      <3>1. CASE Return(t) \/ GoTo(t, "stamp")
        BY Zenon, <3>1, <1>h, <1>l, ReturnType, GoToType
      <3>2. CASE pc' = [pc EXCEPT ![t] = "regStat"] /\ my' = [my EXCEPT ![t].call = "check"]
        BY Zenon, <3>2, <1>b, <1>l, <1>h DEF ThreadTypeOK, Locals
      <3>3. CASE /\ pc' = [pc EXCEPT ![t] = "lock"]
                 /\ my' = [my EXCEPT ![t] = [@ EXCEPT !.call = "publish", !.fd = NoFile]]
        BY <3>3, <1>b, <1>l, <1>h, Zenon DEF ThreadTypeOK, Locals, File
      <3>4. QED
        BY Zenon, <1>3, <3>1, <3>2, <3>3 DEF CheckHash
    <2>3. QED
      BY Zenon, <1>3, <2>1, <2>2 DEF CheckHash, TypeOK, QueueTypeOK, ThreadTypeOK
  <1>4. CASE RecordCheck(t)
    <2>1. FsTypeOK'
      BY Zenon, <1>4, FsNextType DEF RecordCheck, TypeOK
    <2>2. [index EXCEPT !.checked[my[t].blob] = my[t].fd] \in Index
      BY Zenon, <1>b DEF Index, TypeOK
    <2>3. ThreadTypeOK' /\ held' \in [Proc -> SUBSET Blob]
      BY Zenon, <1>4, <1>i, <1>r DEF RecordCheck
    <2>4. QED
      BY <1>4, <2>1, <2>2, <2>3, Zenon DEF RecordCheck, Commit, TypeOK,
         QueueTypeOK, ThreadTypeOK
  <1>5. CASE AcquireStoreLock(t)
    <2>1. FsTypeOK'
      BY Zenon, <1>5, FsNextType DEF AcquireStoreLock, TypeOK
    <2>2. ThreadTypeOK'
      BY Zenon, <1>5, <1>h, <1>l, GoToType DEF AcquireStoreLock
    <2>3. QED
      BY Zenon, <1>5, <2>1, <2>2 DEF AcquireStoreLock, TypeOK, QueueTypeOK,
         ThreadTypeOK
  <1>6. CASE PersistLink(t)
    <2>1. FsTypeOK'
      BY <1>6, <1>b, FsNextType, Zenon DEF PersistLink, TypeOK
    <2>2. ThreadTypeOK' /\ lock' \in Thread \cup {Free}
      BY <1>6, <1>h, <1>l, GoToType, RegisterType, Zenon DEF PersistLink,
         Published, TypeOK
    <2>3. QED
      BY Zenon, <1>6, <2>1, <2>2 DEF PersistLink, TypeOK, QueueTypeOK, ThreadTypeOK
  <1>7. CASE PersistVerify(t)
    <2>1. FsTypeOK'
      BY Zenon, <1>7, FsNextType DEF PersistVerify, TypeOK
    <2>2. ThreadTypeOK' /\ lock' \in Thread \cup {Free}
      <3>1. CASE Published(t, FALSE) \/ PersistFails(t) \/ (GoTo(t, "remove") /\ UNCHANGED lock)
        BY <3>1, <1>h, <1>l, GoToType, RegisterType, ReturnType, Zenon
        DEF Published, PersistFails, TypeOK
      <3>2. CASE /\ pc' = [pc EXCEPT ![t] = "link"]
                 /\ my' = [my EXCEPT ![t].retry = TRUE]
                 /\ UNCHANGED lock
        BY <3>2, <1>b, <1>l, <1>h, Zenon DEF ThreadTypeOK, Locals, TypeOK
      <3>3. QED
        BY <1>7, <3>1, <3>2, Zenon DEF PersistVerify
    <2>3. QED
      BY Zenon, <1>7, <2>1, <2>2 DEF PersistVerify, TypeOK, QueueTypeOK,
         ThreadTypeOK
  <1>8. CASE PersistRemove(t)
    <2>1. FsTypeOK'
      BY Zenon, <1>8, <1>b, FsNextType DEF PersistRemove, TypeOK
    <2>2. ThreadTypeOK' /\ lock' \in Thread \cup {Free}
      <3>1. CASE PersistFails(t)
        BY Zenon, <3>1, <1>h, ReturnType DEF PersistFails
      <3>2. CASE /\ pc' = [pc EXCEPT ![t] = "link"]
                 /\ my' = [my EXCEPT ![t].retry = TRUE]
                 /\ UNCHANGED lock
        BY <3>2, <1>b, <1>l, <1>h, Zenon DEF ThreadTypeOK, Locals, TypeOK
      <3>3. QED
        BY Zenon, <1>8, <3>1, <3>2 DEF PersistRemove
    <2>3. QED
      BY Zenon, <1>8, <2>1, <2>2 DEF PersistRemove, TypeOK, QueueTypeOK,
         ThreadTypeOK
  <1>9. CASE RegisterStat(t) /\ UNCHANGED storeVars
    <2>1. FsTypeOK'
      BY Zenon, <1>9, FsNextType DEF RegisterStat, TypeOK
    <2>2. ThreadTypeOK'
      BY Zenon, <1>9, <1>b, <1>d, <1>h, <1>l DEF RegisterStat, ThreadTypeOK, Locals
    <2>3. QED
      BY Zenon, <1>9, <2>1, <2>2 DEF RegisterStat, TypeOK, QueueTypeOK, ThreadTypeOK
  <1>10. CASE RegisterQueue(t)
    <2>1. FsTypeOK'
      BY Zenon, <1>10, FsNextType DEF RegisterQueue, TypeOK
    <2>2. Ticket(t) \in Nat
      BY <1>b DEF Ticket, Stamp, TypeOK, QueueTypeOK
    <2>3. ASSUME NEW syncs, Registered(t, syncs)
          PROVE  ThreadTypeOK' /\ held' \in [Proc -> SUBSET Blob]
      <3>1. CASE Return(t) /\ Hold(t)
        BY Zenon, <3>1, <1>h, <1>r, ReturnType
      <3>2. CASE /\ pc' = [pc EXCEPT ![t] = "sync"]
                 /\ my' = [my EXCEPT ![t] = [@ EXCEPT !.ticket = Raise(my[t].ticket, Ticket(t)),
                                                     !.seen = NoFile]]
                 /\ UNCHANGED held
        <4>1. Raise(my[t].ticket, Ticket(t)) \in Nat
          BY Zenon, <1>b, <2>2 DEF Raise, Locals
        <4> DEFINE m == [my[t] EXCEPT !.ticket = Raise(my[t].ticket, Ticket(t)), !.seen = NoFile]
        <4>2. m \in Locals
          BY <1>b, <4>1, Zenon DEF Locals, File
        <4>5. my' = [my EXCEPT ![t] = m]
          BY Zenon, <3>2
        <4>3. ThreadTypeOK'
          <5> HIDE DEF m
          <5>1. QED
            BY Zenon, <3>2, <4>2, <4>5, <1>l, <1>h DEF ThreadTypeOK
        <4>4. QED
          BY Zenon, <3>2, <4>3, <1>r
      <3>3. QED
        BY Zenon, <2>3, <3>1, <3>2 DEF Registered
    <2>4. ThreadTypeOK' /\ held' \in [Proc -> SUBSET Blob]
      BY Zenon, <1>10, <2>3 DEF RegisterQueue
    <2>5. QueueTypeOK'
      <3>1. CASE RegisterKnown(t)
        BY Zenon, <1>10, <2>4, <3>1
        DEF RegisterQueue, RegisterKnown, ThreadTypeOK, TypeOK, QueueTypeOK
      <3>2. CASE RegisterNew(t)
        <4>1. stamps' \in [Proc -> [Blob -> Stamp]]
          BY <1>b, <2>2, <3>2, Zenon DEF RegisterNew, Stamp, Locals, TypeOK,
             QueueTypeOK
        <4>2. QED
          <5>1. /\ files' \in [Proc -> SUBSET Blob] /\ mine' \in [Proc -> SUBSET Blob]
                /\ registered' \in [Proc -> Nat]
            BY ZenonT(60), <1>b, <2>2, <3>2 DEF RegisterNew, TypeOK, QueueTypeOK
          <5>2. UNCHANGED <<taken, synced, syncing, failed, ioErrors>>
            BY Zenon, <1>10, <3>2 DEF RegisterQueue, RegisterNew
          <5>3. QED
            BY Zenon, <2>4, <4>1, <5>1, <5>2 DEF ThreadTypeOK, TypeOK, QueueTypeOK
      <3>3. QED
        BY Zenon, <1>10, <3>1, <3>2 DEF RegisterQueue
    <2>6. QED
      BY Zenon, <1>10, <2>1, <2>4, <2>5 DEF RegisterQueue, TypeOK
  <1>11. CASE InSync(t)
    <2>0. my[t].toSync \subseteq Blob /\ my[t].toSyncDirs \subseteq Blob /\ my[t].toUnlink \subseteq Blob
      BY Zenon, <1>b DEF Locals
    <2>1. FsTypeOK'
      <3>1. CASE AwaitBatch(t) \/ BeginBatch(t) \/ EndBatch(t)
        BY Zenon, <3>1, FsNextType DEF AwaitBatch, BeginBatch, EndBatch, TypeOK
      <3>2. CASE BatchSyncfs(t)
        BY Zenon, <3>2, FsNextType DEF BatchSyncfs, TypeOK
      <3>3. CASE BatchSyncFile(t) \/ BatchSyncDir(t) \/ BatchUnlink(t)
        BY Zenon, <2>0, <3>3, FsNextType DEF BatchSyncFile, BatchSyncDir,
           BatchUnlink, TypeOK
      <3>4. QED
        BY Zenon, <1>11, <3>1, <3>2, <3>3 DEF InSync, SyncStep
    <2> USE DEF TypeOK, QueueTypeOK
    <2>2. CASE AwaitBatch(t)
      BY Zenon, <1>11, <2>1, <2>2 DEF InSync, AwaitBatch, Labels, SyncLabels
    <2>3. CASE BeginBatch(t)
      <3>1. [my[t] EXCEPT !.upto = registered[ProcOf[t]], !.toSync = files[ProcOf[t]],
                          !.toSyncDirs = files[ProcOf[t]], !.toUnlink = mine[ProcOf[t]]] \in Locals
        BY Zenon, <1>b DEF Locals
      <3>2. my' \in [Thread -> Locals]
        BY Zenon, <2>3, <3>1 DEF BeginBatch
      <3>3. pc' \in [Thread -> Labels]
        BY Zenon, <2>3 DEF BeginBatch, Labels, SyncLabels
      <3>4. QED
        BY Zenon, <1>11, <1>b, <2>1, <2>3, <3>2, <3>3 DEF InSync, BeginBatch
    <2>4. CASE BatchSyncfs(t)
      BY <1>11, <1>b, <2>1, <2>4, Zenon DEF InSync, BatchSyncfs, Labels,
         SyncLabels, Locals
    <2>5. CASE BatchSyncFile(t) \/ BatchSyncDir(t) \/ BatchUnlink(t)
      <3>1. my' \in [Thread -> Locals]
        <4>1. ASSUME NEW S \in SUBSET Blob
              PROVE  /\ [my EXCEPT ![t].toSync = S] \in [Thread -> Locals]
                     /\ [my EXCEPT ![t].toSyncDirs = S] \in [Thread -> Locals]
                     /\ [my EXCEPT ![t].toUnlink = S] \in [Thread -> Locals]
          <5>1. [my EXCEPT ![t].toSync = S] \in [Thread -> Locals]
            BY <1>b, Zenon DEF Locals
          <5>2. [my EXCEPT ![t].toSyncDirs = S] \in [Thread -> Locals]
            BY <1>b, Zenon DEF Locals
          <5>3. [my EXCEPT ![t].toUnlink = S] \in [Thread -> Locals]
            BY <1>b, Zenon DEF Locals
          <5>4. QED
            BY Zenon, <5>1, <5>2, <5>3
        <4>2. CASE BatchSyncFile(t)
          <5>1. PICK b \in my[t].toSync : my' = [my EXCEPT ![t].toSync = my[t].toSync \ {b}]
            BY <4>2, Zenon DEF BatchSyncFile
          <5>2. my[t].toSync \ {b} \in SUBSET Blob
            BY Zenon, <2>0
          <5>3. QED
            BY <4>1, <5>1, <5>2, Zenon
        <4>3. CASE BatchSyncDir(t)
          <5>1. PICK b \in my[t].toSyncDirs :
                  my' = [my EXCEPT ![t].toSyncDirs = my[t].toSyncDirs \ {b}]
            BY <4>3, Zenon DEF BatchSyncDir
          <5>2. my[t].toSyncDirs \ {b} \in SUBSET Blob
            BY Zenon, <2>0
          <5>3. QED
            BY <4>1, <5>1, <5>2, Zenon
        <4>4. CASE BatchUnlink(t)
          <5>1. PICK b \in my[t].toUnlink : my' = [my EXCEPT ![t].toUnlink = my[t].toUnlink \ {b}]
            BY <4>4, Zenon DEF BatchUnlink
          <5>2. my[t].toUnlink \ {b} \in SUBSET Blob
            BY Zenon, <2>0
          <5>3. QED
            BY <4>1, <5>1, <5>2, Zenon
        <4>5. QED
          BY Zenon, <2>5, <4>2, <4>3, <4>4
      <3>2. QED
        BY Zenon, <1>11, <2>1, <2>5, <3>1 DEF InSync, BatchSyncFile, BatchSyncDir,
           BatchUnlink
    <2>6. CASE EndBatch(t)
      <3>1. pc' \in [Thread -> Labels]
        BY Zenon, <2>6 DEF EndBatch, Woken, Labels, SyncLabels
      <3>2. my' \in [Thread -> Locals]
        BY <1>b, <2>6, Zenon DEF EndBatch, Locals
      <3>3. QED
        BY <1>11, <1>b, <2>1, <2>6, <3>1, <3>2, Zenon DEF InSync, EndBatch,
           SyncedNow, Locals
    <2>7. QED
      BY Zenon, <1>11, <2>2, <2>3, <2>4, <2>5, <2>6 DEF InSync, SyncStep
  <1>12. CASE SyncOk(t)
    <2>1. FsTypeOK'
      BY <1>12, FsNextType, Zenon DEF SyncOk, TypeOK
    <2>2. ThreadTypeOK' /\ held' \in [Proc -> SUBSET Blob]
      BY Zenon, <1>12, <1>h, <1>l, <1>r, GoToType, ReturnType DEF SyncOk
    <2>3. QED
      BY Zenon, <1>12, <2>1, <2>2 DEF SyncOk, TypeOK, QueueTypeOK, ThreadTypeOK
  <1>13. CASE SyncErr(t)
    <2>1. FsTypeOK'
      BY Zenon, <1>13, FsNextType DEF SyncErr, TypeOK
    <2>2. Fresh("put", "publish", my[t].blob) \in Locals
      BY Zenon, <1>b, FreshType DEF Ops, Calls
    <2>3. QED
      BY ZenonT(60), <1>13, <2>1, <2>2, IdleType DEF SyncErr, Return, Labels, TypeOK,
         QueueTypeOK
  <1>14. CASE RowCheck(t)
    <2>1. FsTypeOK'
      BY Zenon, <1>14, FsNextType DEF RowCheck, TypeOK
    <2>2. QED
      BY ZenonT(60), <1>14, <2>1, IdleType DEF RowCheck, GoTo, Return, Labels, TypeOK,
         QueueTypeOK
  <1>15. CASE RowWrite(t)
    <2>1. FsTypeOK'
      BY <1>15, FsNextType, Zenon DEF RowWrite, TypeOK
    <2>2. CheckedAfterRow(t) \in [Blob -> File]
      BY <1>b, Zenon DEF CheckedAfterRow, HashedStamp, Index, Stamp, FsTypeOK,
         TypeOK, QueueTypeOK
    <2>3. [rows |-> index.rows \cup {my[t].blob}, checked |-> CheckedAfterRow(t)] \in Index
      BY <1>b, <2>2, Zenon DEF Index, TypeOK
    <2>4. QED
      BY Zenon, <1>15, <1>b, <2>1, <2>3, IdleType
      DEF RowWrite, Commit, Hold, Return, Labels, TypeOK, QueueTypeOK
  <1>16. QED
    BY Zenon, <1>1, <1>2, <1>3, <1>4, <1>5, <1>6, <1>7, <1>8, <1>9, <1>10, <1>11,
       <1>12, <1>13,
       <1>14, <1>15 DEF Step

(* So does every step.                                                     *)
LEMMA NextType ==
    ASSUME TypeOK, [Next]_vars
    PROVE  TypeOK'
  <1>1. CASE \E t \in Thread : Start(t) \/ Step(t)
    BY Zenon, <1>1, StartType, StepType
  <1>2. ASSUME NEW t \in Thread, StoreLockTimeout(t) PROVE TypeOK'
    <2>1. FsTypeOK'
      BY Zenon, <1>2, FsNextType DEF StoreLockTimeout, TypeOK
    <2>2. ThreadTypeOK'
      BY Zenon, <1>2, ReturnType DEF StoreLockTimeout, ThreadTypeOK, TypeOK,
         QueueTypeOK
    <2>3. QED
      BY Zenon, <1>2, <2>1, <2>2 DEF StoreLockTimeout, ThreadTypeOK, TypeOK,
         QueueTypeOK
  <1>3. ASSUME NEW t \in Thread, BatchError(t), UNCHANGED storeVars PROVE TypeOK'
    <2>1. FsTypeOK'
      BY Zenon, <1>3, FsNextType DEF BatchError, TypeOK
    <2>2. QED
      BY <1>3, <2>1, SMTT(30) DEF BatchError, TypeOK, QueueTypeOK, Labels,
         SyncLabels
  <1>4. ASSUME NEW procs, Forget(procs)
        PROVE  QueueTypeOK' /\ held' \in [Proc -> SUBSET Blob]
    <2>1. ThreadTypeOK' /\ held' \in [Proc -> SUBSET Blob]
      BY Zenon, <1>4, IdleType, DurabilityAssumption DEF Forget, ThreadTypeOK,
         TypeOK, QueueTypeOK, Labels
    <2>2. stamps' \in [Proc -> [Blob -> Stamp]]
      BY Zenon, <1>4 DEF Forget, ForgetQueues, TypeOK, QueueTypeOK, Stamp,
         NoStamp, File
    <2>3. QED
      BY Zenon, <1>4, <2>1, <2>2 DEF Forget, ForgetQueues, ThreadTypeOK, TypeOK,
         QueueTypeOK
  <1>5. ASSUME NEW p \in Proc, Kill(p) PROVE TypeOK'
    <2>1. FsTypeOK'
      BY <1>5, FsNextType, Zenon DEF Kill, TypeOK
    <2>2. QED
      BY <1>4, <1>5, <2>1, Zenon DEF Kill, TypeOK
  <1>6. CASE Checkpoint
    <2>1. FsTypeOK'
      BY Zenon, <1>6, FsNextType DEF Checkpoint, TypeOK
    <2>2. QED
      BY Zenon, <1>6, <2>1 DEF Checkpoint, TypeOK, QueueTypeOK
  <1>7. CASE PowerLoss
    <2>1. FsTypeOK'
      BY Zenon, <1>7, FsNextType DEF PowerLoss, TypeOK
    <2>2. QED
      BY Zenon, <1>4, <1>7, <2>1 DEF PowerLoss, TypeOK
  <1>8. CASE UNCHANGED vars
    <2>1. FsTypeOK'
      BY Zenon, <1>8, FsNextType DEF vars, TypeOK
    <2>2. QED
      BY Zenon, <1>8, <2>1 DEF vars, TypeOK, QueueTypeOK
  <1>9. QED
    BY Zenon, <1>1, <1>2, <1>3, <1>5, <1>6, <1>7, <1>8 DEF Next

(***************************************************************************)
(* The variables of the store keep their types in every reachable state,   *)
(* for any number of processes, threads, blobs and I/O errors.             *)
(***************************************************************************)
THEOREM TypeCorrect == Spec => []TypeOK
  BY InitType, NextType, PTL DEF Spec

HIDE DEF fsVars, queueVars, storeVars

-----------------------------------------------------------------------------
(* The inductive invariant *)

(* What a step that is no power loss does to the files. *)
FsKeeps ==
    /\ \A b \in Blob : dir[b] \in good => dir'[b] = dir[b] /\ dir'[b] \in good'
    /\ \A b \in Blob : Durable(b) => Durable(b)'
    /\ \A b \in Blob : dir'[b] \in good' =>
         (dir'[b] = dir[b] /\ dir[b] \in good) \/ ~Created(dir'[b])
    /\ \A f \in used : f \in good' => f \in good
    /\ used \subseteq used' /\ safe \subseteq safe' /\ good \subseteq good'
    /\ lost' = {}
    /\ PathsCreated'

(* No file appears. *)
NoneAppears == \A b \in Blob : dir'[b] \in good' => dir[b] \in good

(* An operation of the file system that fails nothing and unlinks no right *)
(* file keeps what is intact and what is durable.                          *)
LEMMA FsStepKeeps ==
    ASSUME FsTypeOK, PathsCreated, lost = {},
           \/ UNCHANGED fsVars
           \/ \E b \in Blob : \E i \in Ino : LinkFile(b, i)
           \/ \E b \in Blob : UnlinkFile(b) /\ dir[b] \notin good
           \/ \E b \in Blob : SyncData(b) \/ SyncDir(b)
           \/ SyncFilesystem
    PROVE  FsKeeps
  <1> USE NoFileAssumption DEF FsTypeOK, PathsCreated, Created, Durable, FsKeeps, File
  <1>1. CASE UNCHANGED fsVars
    BY Zenon, <1>1 DEF fsVars
  <1>2. ASSUME NEW b \in Blob, NEW i \in Ino, LinkFile(b, i) PROVE FsKeeps
    BY ZenonT(60), <1>2 DEF LinkFile
  <1>3. ASSUME NEW b \in Blob, UnlinkFile(b), dir[b] \notin good PROVE FsKeeps
    BY Zenon, <1>3 DEF UnlinkFile
  <1>4. ASSUME NEW b \in Blob, SyncData(b) PROVE FsKeeps
    BY Zenon, <1>4 DEF SyncData
  <1>5. ASSUME NEW b \in Blob, SyncDir(b) PROVE FsKeeps
    BY ZenonT(60), <1>5 DEF SyncDir
  <1>6. CASE SyncFilesystem
    BY ZenonT(60), <1>6 DEF SyncFilesystem
  <1>7. QED
    BY Zenon, <1>1, <1>2, <1>3, <1>4, <1>5, <1>6

(* A promise of process p is kept while its queue is left alone. *)
LEMMA CoveredKeeps ==
    ASSUME FsKeeps, NEW p \in Proc, NEW b \in Blob, NEW n, Covered(p, b, n),
           files'[p] = files[p], taken'[p] = taken[p], synced'[p] = synced[p],
           \A u \in Thread : ProcOf[u] = p /\ InBatch(u)
                => InBatch(u)' /\ my'[u].toSyncDirs = my[u].toSyncDirs
    PROVE  Covered(p, b, n)'
  BY Zenon DEF FsKeeps, Covered

OthersStay(t) == \A u \in Thread \ {t} : pc'[u] = pc[u] /\ my'[u] = my[u]

(* A thread that does not move, or is woken, keeps its invariant. *)
LEMMA OtherThreadKeeps ==
    ASSUME TypeOK, FailureFree, FsKeeps, NEW u \in Thread,
           pc'[u] = pc[u] \/ (pc[u] = "waiting" /\ pc'[u] = "sync"), my'[u] = my[u],
           lock = u => lock' = u /\ NoneAppears,
           pc[u] \in SyncLabels => Covered(ProcOf[u], my[u].blob, my[u].ticket)'
    PROVE  ThreadInv(u)'
  <1>1. ThreadInv(u) /\ my[u].blob \in Blob
    BY Zenon DEF FailureFree, TypeOK, QueueTypeOK, Locals
  <1>w. /\ SameFile(u)' <=> SameFile(u)
        /\ pc'[u] \in SyncLabels <=> pc[u] \in SyncLabels
        /\ pc'[u] \in IntactLabels <=> pc[u] \in IntactLabels
        /\ pc'[u] \in LockLabels => pc'[u] = pc[u]
        /\ pc'[u] \in WriteLabels => pc'[u] = pc[u]
        /\ pc'[u] \in {"unlink", "remove", "check", "regQueue"} => pc'[u] = pc[u]
    BY Zenon DEF SameFile, SyncLabels, IntactLabels, LockLabels, WriteLabels
  <1>3. pc[u] \in LockLabels => lock' = u /\ NoneAppears
    BY Zenon, <1>1 DEF ThreadInv
  <1>4. Created(my[u].fd)' /\ Created(my[u].seen)'
    BY Zenon, <1>1 DEF ThreadInv, Created, FsKeeps
  <1>5. pc[u] = "remove" => dir'[my[u].blob] \notin good'
    BY Zenon, <1>1, <1>3 DEF ThreadInv, NoneAppears, LockLabels
  <1>6. pc[u] = "check" /\ my[u].fd \in good' => my[u].fd \in good /\ dir[my[u].blob] = my[u].fd
    BY Zenon, <1>1 DEF ThreadInv, Created, FsKeeps
  <1>7. pc[u] \in IntactLabels =>
          dir'[my[u].blob] \in good' /\ dir'[my[u].blob] = dir[my[u].blob]
    BY Zenon, <1>1 DEF ThreadInv, FsKeeps
  <1>8. SameFile(u) \/ pc[u] = "regQueue" => pc[u] \in IntactLabels
    BY Zenon DEF SameFile, IntactLabels
  <1>9. pc[u] \in WriteLabels => Durable(my[u].blob)'
    BY Zenon, <1>1 DEF ThreadInv, FsKeeps
  <1>10. QED
    BY ZenonT(60), <1>1, <1>w, <1>3, <1>4, <1>5, <1>6, <1>7, <1>8, <1>9 DEF ThreadInv,
       FsKeeps

(***************************************************************************)
(* A step outside the batches changes one thread and leaves the queues     *)
(* alone: what remains to show is that thread's own invariant, and what    *)
(* the step does to the blobs held and to the index.                       *)
(***************************************************************************)
LocalStep(t) ==
    /\ FsKeeps
    /\ UNCHANGED <<queueVars, ioErrors>>
    /\ OthersStay(t)
    /\ ~InBatch(t) /\ ~InBatch(t)'
    /\ lock' = lock \/ lock \in {t, Free}
    /\ NoneAppears \/ lock = t

(* A step outside the queue and the files keeps a ticket covered.          *)
LEMMA LocalCovered ==
    ASSUME NEW t \in Thread, LocalStep(t),
           NEW p \in Proc, NEW b \in Blob, NEW n, Covered(p, b, n)
    PROVE  Covered(p, b, n)'
  <1>1. \A u \in Thread : InBatch(u) => InBatch(u)' /\ my'[u].toSyncDirs = my[u].toSyncDirs
    BY Zenon DEF LocalStep, OthersStay, InBatch
  <1>2. QED
    BY Zenon, <1>1, CoveredKeeps DEF LocalStep, queueVars

(* A step outside the queue and the files keeps the invariant when it does *)
(* so for its own thread, the held blobs and the index.                    *)
LEMMA LocalStepKeeps ==
    ASSUME TypeOK, FailureFree, NEW t \in Thread, LocalStep(t),
           ThreadInv(t)', HeldIntact', IndexDurable'
    PROVE  FailureFree'
  <1>1. ASSUME NEW u \in Thread PROVE ThreadInv(u)'
    <2>1. CASE u = t
      BY Zenon, <2>1
    <2>2. CASE u # t
      <3>1. ProcOf[u] \in Proc /\ my[u].blob \in Blob
        BY Zenon, DurabilityAssumption DEF TypeOK, QueueTypeOK, Locals
      <3>2. u \in Thread \ {t} /\ pc'[u] = pc[u] /\ my'[u] = my[u]
        BY Zenon, <2>2 DEF LocalStep, OthersStay
      <3>3. pc[u] \in SyncLabels => Covered(ProcOf[u], my[u].blob, my[u].ticket)'
        BY Zenon, <3>1, <3>2, LocalCovered DEF FailureFree, ThreadInv
      <3>4. QED
        BY Zenon, <3>2, <3>3, OtherThreadKeeps, StoreAssumption DEF LocalStep
    <2>3. QED
      BY Zenon, <2>1, <2>2
  <1>2. CountsOrdered'
    BY Zenon DEF FailureFree, QueueInv, CountsOrdered, LocalStep, queueVars
  <1>3. QueuedIntact'
    BY Zenon DEF FailureFree, QueueInv, QueuedIntact, LocalStep, queueVars,
       FsKeeps, TypeOK, QueueTypeOK
  <1>4. ASSUME NEW u \in Thread PROVE Batching(u)'
    <2>1. ASSUME NEW v \in Thread PROVE (InBatch(v)' => InBatch(v)) /\ (InBatch(v) => my'[v] = my[v])
      BY Zenon DEF LocalStep, OthersStay, InBatch
    <2>2. Batching(u) /\ my[u].toSyncDirs \subseteq Blob
      BY Zenon DEF FailureFree, QueueInv, TypeOK, QueueTypeOK, Locals
    <2>3. QED
      BY <2>1, <2>2, Zenon DEF Batching, LocalStep, queueVars, FsKeeps
  <1>5. ASSUME NEW p \in Proc, NEW b \in Blob
        PROVE  /\ Created(stamps[p][b].ino)'
               /\ stamps'[p][b].ino = dir'[b] /\ dir'[b] \in good'
                    => Covered(p, b, stamps[p][b].ticket)'
    <2>1. Created(stamps[p][b].ino) /\ UNCHANGED stamps
      BY Zenon DEF FailureFree, QueueInv, StampsCovered, LocalStep, queueVars
    <2>2. stamps'[p][b].ino = dir'[b] /\ dir'[b] \in good' => stamps[p][b].ino = dir[b] /\ dir[b] \in good
      BY <2>1, Zenon DEF LocalStep, FsKeeps, Created, FailureFree, PathsCreated
    <2>3. QED
      BY <2>1, <2>2, LocalCovered, Zenon
      DEF FailureFree, QueueInv, StampsCovered, LocalStep, FsKeeps, Created
  <1>6. QED
    BY Zenon, <1>1, <1>2, <1>3, <1>4, <1>5
    DEF FailureFree, QueueInv, StampsCovered, LocalStep, FsKeeps, queueVars

(* A ticket that is synced covers durable blobs only. *)
LEMMA CoveredDurable ==
    ASSUME NEW p \in Proc, NEW b, NEW n \in Nat, Covered(p, b, n), synced[p] \in Nat, taken[p] \in Nat,
           n <= synced[p], synced[p] <= taken[p]
    PROVE  Durable(b)
  BY DEF Covered

(* An idle thread has no file open and none in view.                       *)
LEMMA IdleFields == Idle.fd = NoFile /\ Idle.seen = NoFile
  BY Zenon DEF Idle, Fresh

(* Where a thread is after `Return`. *)
LEMMA IdleInv ==
    ASSUME NEW t \in Thread, pc'[t] = "idle", my'[t] = Idle
    PROVE  ThreadInv(t)' /\ ~InBatch(t)'
  <1>1. my'[t].fd = NoFile /\ my'[t].seen = NoFile
    BY IdleFields, Zenon
  <1>2. QED
    BY Zenon, <1>1 DEF ThreadInv, InBatch, Created, LockLabels, IntactLabels,
       SyncLabels, SameFile, WriteLabels

(* A thread that returns owes nothing.                                     *)
LEMMA ReturnInv ==
    ASSUME TypeOK, NEW t \in Thread, Return(t)
    PROVE  ThreadInv(t)' /\ ~InBatch(t)' /\ OthersStay(t)
  <1>1. pc'[t] = "idle" /\ my'[t] = Idle /\ OthersStay(t)
    BY Zenon DEF Return, TypeOK, QueueTypeOK, OthersStay
  <1>2. QED
    BY Zenon, <1>1, IdleInv

(* The index stays durable while the files are kept.                       *)
LEMMA IndexKeeps ==
    ASSUME IndexDurable, FsKeeps, UNCHANGED <<index, indexDisk>>
    PROVE  IndexDurable'
  BY ZenonT(60) DEF IndexDurable, FsKeeps, Durable

(* Blobs a process holds stay intact, also when it takes one more that is. *)
LEMMA HeldKeeps ==
    ASSUME TypeOK, HeldIntact, FsKeeps, NEW t \in Thread,
           UNCHANGED held \/ (Hold(t) /\ dir[my[t].blob] \in good)
    PROVE  HeldIntact'
  <1>1. my[t].blob \in Blob /\ \A p \in Proc : held[p] \subseteq Blob
    BY Zenon DEF TypeOK, QueueTypeOK, Locals
  <1>2. ProcOf[t] \in Proc
    BY Zenon, DurabilityAssumption
  <1>3. CASE UNCHANGED held
    BY Zenon, <1>1, <1>3 DEF HeldIntact, FsKeeps
  <1>4. CASE Hold(t) /\ dir[my[t].blob] \in good
    <2>1. \A p \in Proc : held'[p] \subseteq held[p] \cup {my[t].blob}
      BY Zenon, <1>2, <1>4 DEF Hold, TypeOK
    <2>2. QED
      BY Zenon, <1>1, <1>4, <2>1 DEF HeldIntact, FsKeeps
  <1>5. QED
    BY Zenon, <1>3, <1>4

(* The steps that leave files, queues and index alone. *)
LEMMA QuietStep ==
    ASSUME TypeOK, FailureFree, NEW t \in Thread,
           UNCHANGED <<fsVars, queueVars, ioErrors, index, indexDisk>>,
           OthersStay(t), ~InBatch(t), ~InBatch(t)', lock' = lock \/ lock \in {t, Free},
           UNCHANGED held \/ (Hold(t) /\ dir[my[t].blob] \in good),
           ThreadInv(t)'
    PROVE  FailureFree'
  <1>1. FsKeeps /\ NoneAppears
    BY Zenon, FsStepKeeps DEF TypeOK, FailureFree, NoneAppears, fsVars
  <1>2. HeldIntact' /\ IndexDurable'
    BY Zenon, <1>1, HeldKeeps, IndexKeeps DEF FailureFree
  <1>3. QED
    BY Zenon, <1>1, <1>2, LocalStepKeeps DEF LocalStep

(* The start of a call keeps the invariant.                                *)
LEMMA StartInv ==
    ASSUME TypeOK, FailureFree, NEW t \in Thread, Start(t)
    PROVE  FailureFree'
  <1>0. PICK b \in Blob :
          PutBytes(t, b) \/ VerifyBlob(t, b) \/ PublishStaged(t, b) \/ AddArtifacts(t, b)
    BY Zenon DEF Start
  <1>t. pc \in [Thread -> Labels] /\ my \in [Thread -> Locals]
    BY Zenon DEF TypeOK, QueueTypeOK
  <1>1. CASE PutBytes(t, b) \/ VerifyBlob(t, b) \/ PublishStaged(t, b)
    <2>1. /\ pc[t] = "idle" /\ pc'[t] \in {"open", "lock"} /\ my'[t].fd = NoFile
          /\ my'[t].seen = NoFile
          /\ UNCHANGED <<fsVars, queueVars, ioErrors, storeVars>>
      BY <1>1, <1>t DEF PutBytes, VerifyBlob, PublishStaged, Fresh
    <2>2. OthersStay(t)
      BY Zenon, <1>1, <1>t DEF PutBytes, VerifyBlob, PublishStaged, OthersStay
    <2>3. ThreadInv(t)' /\ ~InBatch(t) /\ ~InBatch(t)'
      BY Zenon, <2>1 DEF ThreadInv, InBatch, Created, LockLabels, IntactLabels,
         SyncLabels, SameFile,
                  WriteLabels
    <2>4. QED
      BY Zenon, <2>1, <2>2, <2>3, QuietStep DEF storeVars
  <1>2. CASE AddArtifacts(t, b)
    <2>0. dir[b] \in good /\ dir[b] # NoFile
      BY Zenon, <1>2, DurabilityAssumption, NoFileAssumption
      DEF AddArtifacts, FailureFree, HeldIntact, TypeOK, FsTypeOK
    <2>1. /\ pc[t] = "idle" /\ pc'[t] = "regStat" /\ my'[t].fd = NoFile /\ my'[t].blob = b
          /\ my'[t].seen = NoFile /\ my'[t].call = "rows"
          /\ UNCHANGED <<fsVars, queueVars, ioErrors, storeVars>>
      BY Zenon, <1>2, <1>t, <2>0 DEF AddArtifacts, Fresh
    <2>2. OthersStay(t)
      BY Zenon, <1>2, <1>t DEF AddArtifacts, OthersStay
    <2>3. ThreadInv(t)' /\ ~InBatch(t) /\ ~InBatch(t)'
      BY Zenon, <2>0, <2>1 DEF ThreadInv, InBatch, Created, LockLabels,
         IntactLabels, SyncLabels, SameFile,
                  WriteLabels, fsVars
    <2>4. QED
      BY Zenon, <2>1, <2>2, <2>3, QuietStep DEF storeVars
  <1>3. QED
    BY Zenon, <1>0, <1>1, <1>2

(* `put` and `verify` go on with a blob known intact. *)
LEMMA IntactInv ==
    ASSUME TypeOK, FailureFree, NEW t \in Thread, Intact(t), UNCHANGED fsVars,
           dir[my[t].blob] \in good
    PROVE  /\ ThreadInv(t)' /\ ~InBatch(t)' /\ OthersStay(t)
           /\ UNCHANGED held \/ Hold(t)
  <1>t. pc \in [Thread -> Labels] /\ my \in [Thread -> Locals]
    BY Zenon DEF TypeOK, QueueTypeOK
  <1>1. CASE Register(t, "found", FALSE)
    <2>1. /\ pc'[t] = "regStat" /\ my'[t].fd = NoFile /\ my'[t].blob = my[t].blob
          /\ my'[t].seen = my[t].seen /\ my'[t].call = "found"
      BY Zenon, <1>1, <1>t DEF Register, Locals
    <2>2. OthersStay(t)
      BY Zenon, <1>1, <1>t DEF Register, OthersStay
    <2>3. Created(my[t].seen)
      BY Zenon DEF FailureFree, ThreadInv
    <2>4. ThreadInv(t)' /\ ~InBatch(t)'
      BY Zenon, <2>1, <2>3 DEF ThreadInv, InBatch, Created, LockLabels,
         IntactLabels, SyncLabels, SameFile,
                  WriteLabels, fsVars
    <2>5. QED
      BY <1>1, <2>2, <2>4, Zenon DEF Intact
  <1>2. CASE Return(t)
    BY <1>2, ReturnInv, Zenon DEF Intact
  <1>3. QED
    BY <1>1, <1>2, Zenon DEF Intact

(* stored_blob, which opens and checks a file, keeps the invariant.        *)
LEMMA StoredBlobInv ==
    ASSUME TypeOK, FailureFree, NEW t \in Thread,
           OpenBlob(t) \/ CheckUnchanged(t) \/ CheckHash(t)
    PROVE  FailureFree'
  <1>t. pc \in [Thread -> Labels] /\ my \in [Thread -> Locals] /\ my[t].blob \in Blob
        /\ ProcOf[t] \in Proc
    BY Zenon, DurabilityAssumption DEF TypeOK, QueueTypeOK, Locals
  <1>v. ThreadInv(t) /\ NoFile \notin good
    BY Zenon, NoFileAssumption DEF FailureFree, TypeOK, FsTypeOK
  <1> USE DEF LockLabels, IntactLabels, SyncLabels, SameFile, WriteLabels, Created, InBatch
  <1>1. CASE OpenBlob(t)
    <2>0. ~InBatch(t) /\ UNCHANGED <<fsVars, queueVars, ioErrors, storeVars>>
      BY Zenon, <1>1 DEF OpenBlob
    <2>1. CASE Return(t)
      BY Zenon, <2>0, <2>1, ReturnInv, QuietStep DEF storeVars
    <2>2. CASE /\ dir[my[t].blob] # NoFile
               /\ pc' = [pc EXCEPT ![t] = "check"]
               /\ my' = [my EXCEPT ![t].fd = dir[my[t].blob]]
      <3>1. /\ pc'[t] = "check" /\ my'[t].fd = dir[my[t].blob] /\ my'[t].blob = my[t].blob
            /\ my'[t].seen = my[t].seen /\ OthersStay(t)
        BY Zenon, <2>2, <1>t DEF OthersStay, Locals
      <3>2. Created(dir[my[t].blob])
        BY Zenon, <1>t DEF FailureFree, PathsCreated
      <3>3. ThreadInv(t)' /\ ~InBatch(t)'
        BY Zenon, <3>1, <3>2, <1>v, <2>0, <2>2 DEF ThreadInv, fsVars
      <3>4. QED
        BY Zenon, <2>0, <3>1, <3>3, QuietStep DEF storeVars
    <2>3. CASE pc' = [pc EXCEPT ![t] = "lock"] /\ my' = [my EXCEPT ![t].call = "publish"]
      <3>1. /\ pc'[t] = "lock" /\ my'[t].fd = my[t].fd
            /\ my'[t].seen = my[t].seen /\ OthersStay(t)
        BY Zenon, <2>3, <1>t DEF OthersStay, Locals
      <3>2. ThreadInv(t)' /\ ~InBatch(t)'
        BY <3>1, <1>v, <2>0, Zenon DEF ThreadInv, fsVars
      <3>3. QED
        BY Zenon, <2>0, <3>1, <3>2, QuietStep DEF storeVars
    <2>4. QED
      BY Zenon, <1>1, <2>1, <2>2, <2>3 DEF OpenBlob
  <1>2. CASE CheckUnchanged(t)
    <2>0. ~InBatch(t) /\ UNCHANGED <<fsVars, queueVars, ioErrors, lock, index, indexDisk>>
      BY Zenon, <1>2 DEF CheckUnchanged
    <2>1. dir[my[t].blob] \in good
      BY <1>2, <1>t, <1>v, Zenon
      DEF CheckUnchanged, Unchanged, ThreadInv, FailureFree, IndexDurable, Durable
    <2>2. QED
      BY Zenon, <1>2, <2>0, <2>1, IntactInv, QuietStep DEF CheckUnchanged
  <1>3. CASE CheckHash(t)
    <2>0. ~InBatch(t) /\ UNCHANGED <<fsVars, queueVars, ioErrors, storeVars>> /\ pc[t] = "check"
      BY Zenon, <1>3 DEF CheckHash
    <2>1. CASE Return(t)
      BY <2>0, <2>1, ReturnInv, QuietStep, Zenon DEF storeVars
    <2>2. CASE /\ my[t].fd \in good /\ IsDurable(ProcOf[t], my[t].blob, my[t].fd)
               /\ GoTo(t, "stamp")
      <3>1. pc'[t] = "stamp" /\ my'[t] = my[t] /\ OthersStay(t)
        BY Zenon, <2>2, <1>t DEF OthersStay, GoTo
      <3>2. dir[my[t].blob] = my[t].fd
        BY Zenon, <1>v, <2>0, <2>2 DEF ThreadInv
      <3>3. Covered(ProcOf[t], my[t].blob, stamps[ProcOf[t]][my[t].blob].ticket)
        BY <2>2, <3>2, <1>t, Zenon DEF IsDurable, FailureFree, QueueInv,
           StampsCovered
      <3>4. Durable(my[t].blob)
        <4>1. /\ stamps[ProcOf[t]][my[t].blob].ticket <= synced[ProcOf[t]]
              /\ synced[ProcOf[t]] <= taken[ProcOf[t]]
          BY <2>2, <1>t, Zenon DEF IsDurable, FailureFree, QueueInv, CountsOrdered
        <4>2. stamps[ProcOf[t]][my[t].blob].ticket \in Nat
              /\ synced[ProcOf[t]] \in Nat /\ taken[ProcOf[t]] \in Nat
          BY ZenonT(60), <1>t DEF TypeOK, QueueTypeOK, Stamp
        <4>3. QED
          BY <3>3, <4>1, <4>2, <1>t, CoveredDurable, Zenon
      <3>5. ThreadInv(t)' /\ ~InBatch(t)'
        BY <3>1, <3>2, <3>4, <1>v, <2>0, <2>2, Zenon DEF ThreadInv, fsVars, Durable
      <3>6. QED
        BY Zenon, <2>0, <3>1, <3>5, QuietStep DEF storeVars
    <2>3. CASE /\ my[t].fd \in good
               /\ pc' = [pc EXCEPT ![t] = "regStat"] /\ my' = [my EXCEPT ![t].call = "check"]
      <3>1. /\ pc'[t] = "regStat" /\ my'[t].fd = my[t].fd /\ my'[t].blob = my[t].blob
            /\ my'[t].seen = my[t].seen /\ OthersStay(t)
        BY Zenon, <2>3, <1>t DEF OthersStay, Locals
      <3>2. ThreadInv(t)' /\ ~InBatch(t)'
        BY <3>1, <1>v, <2>0, <2>3 DEF ThreadInv, fsVars
      <3>3. QED
        BY <2>0, <3>1, <3>2, QuietStep, Zenon DEF storeVars
    <2>4. CASE /\ pc' = [pc EXCEPT ![t] = "lock"]
               /\ my' = [my EXCEPT ![t] = [@ EXCEPT !.call = "publish", !.fd = NoFile]]
      <3>1. /\ pc'[t] = "lock" /\ my'[t].fd = NoFile
            /\ my'[t].seen = my[t].seen /\ OthersStay(t)
        BY Zenon, <2>4, <1>t DEF OthersStay, Locals
      <3>2. ThreadInv(t)' /\ ~InBatch(t)'
        BY <3>1, <1>v, <2>0, Zenon DEF ThreadInv, fsVars
      <3>3. QED
        BY Zenon, <2>0, <3>1, <3>2, QuietStep DEF storeVars
    <2>5. QED
      BY Zenon, <1>3, <2>1, <2>2, <2>3, <2>4 DEF CheckHash
  <1>4. QED
    BY Zenon, <1>1, <1>2, <1>3

(* A commit that names or stamps a durable blob. *)
LEMMA CommitInv ==
    ASSUME TypeOK, FailureFree, UNCHANGED fsVars, NEW b \in Blob, Durable(b),
           NEW next \in Index, Commit(next),
           next.rows \subseteq index.rows \cup {b},
           \A c \in Blob : next.checked[c] = index.checked[c]
                             \/ (c = b /\ next.checked[c] = dir[b])
    PROVE  IndexDurable'
  <1>1. index' = next /\ indexDisk' = indexDisk \cup {next} /\ index \in indexDisk
    BY Zenon DEF Commit, FailureFree, IndexDurable
  <1>2. \A ix \in indexDisk, c \in Blob :
          /\ c \in ix.rows => Durable(c)
          /\ ix.checked[c] # NoFile => Durable(c) /\ dir[c] = ix.checked[c]
    BY Zenon DEF FailureFree, IndexDurable
  <1>3. \A c \in Blob :
          /\ c \in next.rows => Durable(c)
          /\ next.checked[c] # NoFile => Durable(c) /\ dir[c] = next.checked[c]
    BY Zenon, <1>1, <1>2
  <1>4. \A c \in Blob : Durable(c)' <=> Durable(c)
    BY Zenon DEF fsVars, Durable
  <1>5. QED
    BY Zenon, <1>1, <1>2, <1>3, <1>4 DEF IndexDurable, fsVars

(* Writing a checked stamp or a row keeps the invariant.                   *)
LEMMA IndexStepInv ==
    ASSUME TypeOK, FailureFree, NEW t \in Thread, RecordCheck(t) \/ RowWrite(t)
    PROVE  FailureFree'
  <1>t. my[t] \in Locals /\ my[t].blob \in Blob /\ my[t].fd \in File
    BY Zenon DEF TypeOK, QueueTypeOK, Locals
  <1>v. ThreadInv(t) /\ pc[t] \in WriteLabels /\ ~InBatch(t) /\ (lock' = lock \/ lock = t)
    BY Zenon DEF FailureFree, RecordCheck, RowWrite, WriteLabels, InBatch,
       ThreadInv, LockLabels
  <1>d. Durable(my[t].blob) /\ dir[my[t].blob] \in good
    BY Zenon, <1>v DEF ThreadInv, Durable
  <1>f. UNCHANGED <<fsVars, queueVars, ioErrors>>
    BY Zenon DEF RecordCheck, RowWrite
  <1>k. FsKeeps /\ NoneAppears
    BY Zenon, <1>f, FsStepKeeps DEF TypeOK, FailureFree, NoneAppears, fsVars
  <1>1. CASE RecordCheck(t)
    <2>1. [index EXCEPT !.checked[my[t].blob] = my[t].fd] \in Index
      BY Zenon, <1>t DEF Index, TypeOK
    <2>2. my[t].fd = dir[my[t].blob]
      BY Zenon, <1>1, <1>v DEF RecordCheck, ThreadInv, SameFile
    <2>3. IndexDurable'
      <3> DEFINE next == [index EXCEPT !.checked[my[t].blob] = my[t].fd]
      <3>1. Commit(next) /\ next \in Index
        BY Zenon, <1>1, <2>1 DEF RecordCheck
      <3>2. /\ next.rows = index.rows
            /\ \A c \in Blob : next.checked[c] = index.checked[c]
                                 \/ (c = my[t].blob /\ next.checked[c] = dir[my[t].blob])
        BY Zenon, <2>2 DEF Index, TypeOK
      <3> HIDE DEF next
      <3>3. QED
        BY Zenon, <1>t, <1>d, <1>f, <3>1, <3>2, CommitInv
    <2>4. /\ ThreadInv(t)' /\ ~InBatch(t)' /\ OthersStay(t)
          /\ UNCHANGED held \/ Hold(t)
      BY Zenon, <1>1, <1>d, <1>f, IntactInv DEF RecordCheck
    <2>5. HeldIntact'
      BY Zenon, <1>d, <1>k, <2>4, HeldKeeps DEF FailureFree
    <2>6. QED
      BY Zenon, <1>1, <1>f, <1>k, <1>v, <2>3, <2>4, <2>5, LocalStepKeeps
         DEF LocalStep, RecordCheck
  <1>2. CASE RowWrite(t)
    <2>1. CheckedAfterRow(t) \in [Blob -> File]
          /\ \A c \in Blob : CheckedAfterRow(t)[c] = index.checked[c]
                               \/ (c = my[t].blob /\ CheckedAfterRow(t)[c] = dir[my[t].blob])
      BY <1>t, Zenon DEF CheckedAfterRow, Index, TypeOK, FsTypeOK
    <2>2. IndexDurable'
      <3> DEFINE next == [rows |-> index.rows \cup {my[t].blob}, checked |-> CheckedAfterRow(t)]
      <3>1. Commit(next) /\ next \in Index
        BY Zenon, <1>2, <1>t, <2>1 DEF RowWrite, Index, TypeOK
      <3>2. next.rows \subseteq index.rows \cup {my[t].blob} /\ next.checked = CheckedAfterRow(t)
        BY Zenon
      <3> HIDE DEF next
      <3>3. QED
        BY Zenon, <1>t, <1>d, <1>f, <2>1, <3>1, <3>2, CommitInv
    <2>3. ThreadInv(t)' /\ ~InBatch(t)' /\ OthersStay(t) /\ Hold(t)
      BY <1>2, ReturnInv, Zenon DEF RowWrite
    <2>4. HeldIntact'
      BY Zenon, <1>d, <1>k, <2>3, HeldKeeps DEF FailureFree
    <2>5. lock = t
      BY <1>2, <1>v, Zenon DEF RowWrite, ThreadInv, LockLabels
    <2>6. QED
      BY Zenon, <1>2, <1>f, <1>k, <1>v, <2>2, <2>3, <2>4, <2>5, LocalStepKeeps
         DEF LocalStep, RowWrite
  <1>3. QED
    BY Zenon, <1>1, <1>2

(* Taking the store lock, or failing to, keeps the invariant.              *)
LEMMA LockInv ==
    ASSUME TypeOK, FailureFree, NEW t \in Thread,
           AcquireStoreLock(t) \/ StoreLockTimeout(t) \/ RowCheck(t)
    PROVE  FailureFree'
  <1>t. pc \in [Thread -> Labels] /\ my \in [Thread -> Locals]
    BY Zenon DEF TypeOK, QueueTypeOK
  <1>v. ThreadInv(t)
    BY Zenon DEF FailureFree
  <1>q. UNCHANGED <<fsVars, queueVars, ioErrors, held, index, indexDisk>>
    BY Zenon DEF AcquireStoreLock, StoreLockTimeout, RowCheck, storeVars
  <1> USE DEF LockLabels, IntactLabels, SyncLabels, SameFile, WriteLabels, Created, InBatch
  <1>1. CASE AcquireStoreLock(t)
    <2>1. /\ lock = Free /\ lock' = t /\ my'[t] = my[t] /\ OthersStay(t)
          /\ \/ pc[t] = "lock" /\ pc'[t] = "link"
             \/ pc[t] = "rowLock" /\ pc'[t] = "rowCheck"
      BY Zenon, <1>1, <1>t DEF AcquireStoreLock, GoTo, OthersStay
    <2>2. ThreadInv(t)' /\ ~InBatch(t)' /\ ~InBatch(t)
      BY <1>v, <1>q, <2>1, Zenon DEF ThreadInv, fsVars, Durable
    <2>3. QED
      BY Zenon, <1>q, <2>1, <2>2, QuietStep
  <1>2. CASE StoreLockTimeout(t)
    <2>1. ~InBatch(t) /\ Return(t) /\ lock' = lock
      BY Zenon, <1>2 DEF StoreLockTimeout, storeVars
    <2>2. QED
      BY <1>q, <2>1, ReturnInv, QuietStep, Zenon
  <1>3. CASE RowCheck(t)
    <2>1. ~InBatch(t) /\ lock = t
      BY <1>3, <1>v, Zenon DEF RowCheck, ThreadInv
    <2>2. CASE Return(t)
      BY <1>q, <2>1, <2>2, ReturnInv, QuietStep, Zenon
    <2>3. CASE GoTo(t, "rowWrite") /\ UNCHANGED lock
      <3>1. pc[t] = "rowCheck" /\ pc'[t] = "rowWrite" /\ my'[t] = my[t] /\ OthersStay(t)
        BY Zenon, <1>3, <1>t, <2>3 DEF RowCheck, GoTo, OthersStay
      <3>2. ThreadInv(t)' /\ ~InBatch(t)'
        BY Zenon, <1>v, <1>q, <2>1, <2>3, <3>1 DEF ThreadInv, fsVars, Durable
      <3>3. QED
        BY Zenon, <1>q, <2>1, <2>3, <3>1, <3>2, QuietStep
    <2>4. QED
      BY Zenon, <1>3, <2>2, <2>3 DEF RowCheck
  <1>4. QED
    BY Zenon, <1>1, <1>2, <1>3

(* publish_blob leaves a blob whose bytes are right and releases the lock. *)
LEMMA PublishedInv ==
    ASSUME TypeOK, FailureFree, FsKeeps, NEW t \in Thread, NEW created,
           Register(t, "publish", created), dir'[my[t].blob] \in good'
    PROVE  ThreadInv(t)' /\ ~InBatch(t)' /\ OthersStay(t)
  <1>t. pc \in [Thread -> Labels] /\ my \in [Thread -> Locals]
    BY Zenon DEF TypeOK, QueueTypeOK
  <1>1. /\ pc'[t] = "regStat" /\ my'[t].fd = NoFile /\ my'[t].blob = my[t].blob
        /\ my'[t].seen = my[t].seen /\ my'[t].call = "publish" /\ OthersStay(t)
    BY Zenon, <1>t DEF Register, Locals, OthersStay
  <1>2. Created(my[t].seen)'
    BY <1>1, Zenon DEF FailureFree, ThreadInv, Created, FsKeeps
  <1>3. QED
    BY <1>1, <1>2, Zenon DEF ThreadInv, InBatch, Created, LockLabels,
       IntactLabels, SyncLabels, SameFile,
                  WriteLabels

(* publish_blob, which links, verifies and removes, keeps the invariant.   *)
LEMMA PersistInv ==
    ASSUME TypeOK, FailureFree, NEW t \in Thread,
           PersistLink(t) \/ PersistVerify(t) \/ PersistRemove(t)
    PROVE  FailureFree'
  <1>t. pc \in [Thread -> Labels] /\ my \in [Thread -> Locals] /\ my[t].blob \in Blob
    BY Zenon DEF TypeOK, QueueTypeOK, Locals
  <1>n. NoFile \notin good
    BY Zenon, NoFileAssumption DEF TypeOK, FsTypeOK
  <1>v. ThreadInv(t)
    BY Zenon DEF FailureFree
  <1>q. UNCHANGED <<queueVars, ioErrors, held, index, indexDisk>>
    BY Zenon DEF PersistLink, PersistVerify, PersistRemove
  <1>l. lock = t /\ ~InBatch(t)
    BY <1>v, Zenon DEF PersistLink, PersistVerify, PersistRemove, ThreadInv,
       LockLabels, InBatch
  <1>s. ASSUME FsKeeps, ThreadInv(t)', ~InBatch(t)', OthersStay(t) PROVE FailureFree'
    <2>1. HeldIntact' /\ IndexDurable'
      BY <1>q, <1>s, HeldKeeps, IndexKeeps, Zenon DEF FailureFree
    <2>2. QED
      BY Zenon, <1>q, <1>l, <1>s, <2>1, LocalStepKeeps DEF LocalStep
  <1>u. ASSUME UNCHANGED fsVars PROVE FsKeeps
    BY Zenon, <1>u, FsStepKeeps DEF TypeOK, FailureFree
  <1> USE DEF LockLabels, IntactLabels, SyncLabels, SameFile, WriteLabels, InBatch
  <1>1. CASE PersistLink(t)
    <2>1. ASSUME NEW i \in Ino, LinkFile(my[t].blob, i), Published(t, TRUE) PROVE FailureFree'
      <3>1. FsKeeps
        BY <1>t, <2>1, FsStepKeeps, Zenon DEF TypeOK, FailureFree
      <3>2. dir'[my[t].blob] \in good'
        BY Zenon, <1>t, <2>1 DEF LinkFile, TypeOK, FsTypeOK
      <3>3. QED
        BY <2>1, <3>1, <3>2, <1>s, PublishedInv, Zenon DEF Published
    <2>2. CASE dir[my[t].blob] # NoFile /\ GoTo(t, "verify") /\ UNCHANGED <<fsVars, lock>>
      <3>1. pc'[t] = "verify" /\ my'[t] = my[t] /\ OthersStay(t)
        BY <1>t, <2>2, Zenon DEF GoTo, OthersStay
      <3>2. ThreadInv(t)' /\ ~InBatch(t)'
        BY <1>v, <1>l, <2>2, <3>1, Zenon DEF ThreadInv, fsVars, Created
      <3>3. QED
        BY <2>2, <3>1, <3>2, <1>s, <1>u, Zenon
    <2>3. QED
      BY <1>1, <2>1, <2>2, Zenon DEF PersistLink
  <1>2. CASE PersistVerify(t)
    <2>1. UNCHANGED fsVars /\ FsKeeps
      BY Zenon, <1>2, <1>u DEF PersistVerify
    <2>2. CASE dir[my[t].blob] \in good /\ Published(t, FALSE)
      BY <2>1, <2>2, <1>s, PublishedInv, Zenon DEF Published, fsVars
    <2>3. CASE PersistFails(t)
      BY Zenon, <2>1, <2>3, <1>s, ReturnInv DEF PersistFails
    <2>4. CASE /\ pc' = [pc EXCEPT ![t] = "link"]
               /\ my' = [my EXCEPT ![t].retry = TRUE]
               /\ UNCHANGED lock
      <3>1. /\ pc'[t] = "link" /\ my'[t].fd = my[t].fd /\ my'[t].seen = my[t].seen
            /\ OthersStay(t)
        BY Zenon, <1>t, <2>4 DEF OthersStay, Locals
      <3>2. ThreadInv(t)' /\ ~InBatch(t)'
        BY Zenon, <1>v, <1>l, <2>1, <2>4, <3>1 DEF ThreadInv, fsVars, Created
      <3>3. QED
        BY Zenon, <2>1, <3>1, <3>2, <1>s
    <2>5. CASE dir[my[t].blob] \notin good /\ GoTo(t, "remove") /\ UNCHANGED lock
      <3>1. pc'[t] = "remove" /\ my'[t] = my[t] /\ OthersStay(t)
        BY Zenon, <1>t, <2>5 DEF GoTo, OthersStay
      <3>2. ThreadInv(t)' /\ ~InBatch(t)'
        BY Zenon, <1>v, <1>l, <2>1, <2>5, <3>1 DEF ThreadInv, fsVars, Created
      <3>3. QED
        BY Zenon, <2>1, <3>1, <3>2, <1>s
    <2>6. QED
      BY <1>2, <2>2, <2>3, <2>4, <2>5, Zenon DEF PersistVerify
  <1>3. CASE PersistRemove(t)
    <2>0. dir[my[t].blob] \notin good
      BY Zenon, <1>3, <1>v DEF PersistRemove, ThreadInv
    <2>1. CASE PersistFails(t) /\ UNCHANGED fsVars
      BY Zenon, <2>1, <1>s, <1>u, ReturnInv DEF PersistFails
    <2>2. CASE /\ UnlinkFile(my[t].blob)
               /\ pc' = [pc EXCEPT ![t] = "link"]
               /\ my' = [my EXCEPT ![t].retry = TRUE]
               /\ UNCHANGED lock
      <3>1. FsKeeps
        BY Zenon, <1>t, <2>0, <2>2, FsStepKeeps DEF TypeOK, FailureFree
      <3>2. /\ pc'[t] = "link" /\ my'[t].fd = my[t].fd /\ my'[t].seen = my[t].seen
            /\ OthersStay(t)
        BY Zenon, <1>t, <2>2 DEF OthersStay, Locals
      <3>3. ThreadInv(t)' /\ ~InBatch(t)'
        BY Zenon, <1>v, <1>l, <2>2, <3>1, <3>2 DEF ThreadInv, FsKeeps, Created
      <3>4. QED
        BY Zenon, <3>1, <3>2, <3>3, <1>s
    <2>3. QED
      BY Zenon, <1>3, <2>1, <2>2 DEF PersistRemove
  <1>4. QED
    BY Zenon, <1>1, <1>2, <1>3

(* register's look at the file keeps the invariant.                        *)
LEMMA StatInv ==
    ASSUME TypeOK, FailureFree, NEW t \in Thread, RegisterStat(t), UNCHANGED storeVars
    PROVE  FailureFree'
  <1>t. pc \in [Thread -> Labels] /\ my \in [Thread -> Locals] /\ my[t].blob \in Blob
    BY Zenon DEF TypeOK, QueueTypeOK, Locals
  <1>1. /\ pc[t] = "regStat" /\ pc'[t] = "regQueue" /\ my'[t].seen = dir[my[t].blob]
        /\ my'[t].fd = my[t].fd /\ my'[t].blob = my[t].blob /\ my'[t].call = my[t].call
        /\ OthersStay(t)
    BY Zenon, <1>t DEF RegisterStat, OthersStay, Locals
  <1>2. ThreadInv(t) /\ Created(dir[my[t].blob])
    BY Zenon, <1>t DEF FailureFree, PathsCreated
  <1>3. ThreadInv(t)' /\ ~InBatch(t) /\ ~InBatch(t)'
    BY <1>1, <1>2 DEF RegisterStat, ThreadInv, InBatch, Created, LockLabels,
       IntactLabels, SyncLabels,
                  SameFile, WriteLabels, fsVars
  <1>4. QED
    BY Zenon, <1>1, <1>3, QuietStep DEF RegisterStat, storeVars

(* make_durable returns only when the blob is durable. *)
LEMMA SyncReturnInv ==
    ASSUME TypeOK, FailureFree, NEW t \in Thread, SyncOk(t) \/ SyncErr(t)
    PROVE  FailureFree'
  <1>t. /\ pc \in [Thread -> Labels] /\ my \in [Thread -> Locals] /\ my[t].ticket \in Nat
        /\ ProcOf[t] \in Proc
    BY Zenon, DurabilityAssumption DEF TypeOK, QueueTypeOK, Locals
  <1>v. ThreadInv(t) /\ pc[t] = "sync" /\ ~InBatch(t)
    BY Zenon DEF FailureFree, SyncOk, SyncReturnsOk, SyncErr, SyncReturnsErr,
       InBatch
  <1>1. SyncOk(t)
    BY Zenon DEF SyncErr, SyncReturnsErr, FailureFree
  <1>2. my[t].ticket <= synced[ProcOf[t]]
    BY <1>1, Zenon DEF SyncOk, SyncReturnsOk
  <1>3. Durable(my[t].blob)
    <2>1. synced[ProcOf[t]] <= taken[ProcOf[t]]
      BY <1>t, Zenon DEF FailureFree, QueueInv, CountsOrdered
    <2>2. synced[ProcOf[t]] \in Nat /\ taken[ProcOf[t]] \in Nat
      BY Zenon, <1>t DEF TypeOK, QueueTypeOK
    <2>3. Covered(ProcOf[t], my[t].blob, my[t].ticket)
      BY <1>v, Zenon DEF ThreadInv, SyncLabels
    <2>4. QED
      BY <1>t, <1>2, <2>1, <2>2, <2>3, CoveredDurable, Zenon
  <1>4. CASE Return(t) /\ Hold(t)
    BY <1>1, <1>3, <1>4, <1>v, ReturnInv, QuietStep, Zenon DEF SyncOk, Durable
  <1>5. ASSUME NEW l \in {"stamp", "rowLock"}, GoTo(t, l), UNCHANGED held,
               l = "stamp" => my[t].call = "check"
        PROVE  FailureFree'
    <2>1. pc'[t] = l /\ my'[t] = my[t] /\ OthersStay(t)
      BY Zenon, <1>t, <1>5 DEF GoTo, OthersStay
    <2>2. UNCHANGED fsVars /\ UNCHANGED lock
      BY <1>1, Zenon DEF SyncOk
    <2>3. ThreadInv(t)' /\ ~InBatch(t)'
      BY <1>v, <1>3, <1>5, <2>1, <2>2, Zenon
      DEF ThreadInv, InBatch, Created, LockLabels, IntactLabels, SyncLabels, SameFile, WriteLabels,
          fsVars, Durable
    <2>4. QED
      BY <1>1, <1>5, <1>v, <2>1, <2>3, QuietStep, Zenon DEF SyncOk
  <1>6. QED
    BY Zenon, <1>1, <1>4, <1>5 DEF SyncOk

AllCovered == \A p \in Proc, b \in Blob, n \in Nat : Covered(p, b, n) => Covered(p, b, n)'

(***************************************************************************)
(* A step inside `register` or `make_durable`: every promise is kept, and  *)
(* what remains to show is the moving thread's own invariant and the       *)
(* queue's.                                                                *)
(***************************************************************************)
QueueStep(t) ==
    /\ FsKeeps /\ NoneAppears /\ AllCovered
    /\ failed' = failed
    /\ UNCHANGED <<lock, index, indexDisk>>
    /\ \A u \in Thread \ {t} :
        my'[u] = my[u] /\ (pc'[u] = pc[u] \/ (pc[u] = "waiting" /\ pc'[u] = "sync"))

(* A step of the queue keeps the invariant when it does so for its own     *)
(* thread and the queue.                                                   *)
LEMMA QueueStepKeeps ==
    ASSUME TypeOK, FailureFree, NEW t \in Thread, QueueStep(t),
           UNCHANGED held \/ (Hold(t) /\ dir[my[t].blob] \in good),
           ThreadInv(t)', QueueInv'
    PROVE  FailureFree'
  <1>1. ASSUME NEW u \in Thread \ {t} PROVE ThreadInv(u)'
    <2>1. ProcOf[u] \in Proc /\ my[u].blob \in Blob /\ my[u].ticket \in Nat
      BY Zenon, DurabilityAssumption DEF TypeOK, QueueTypeOK, Locals
    <2>2. my'[u] = my[u] /\ (pc'[u] = pc[u] \/ (pc[u] = "waiting" /\ pc'[u] = "sync"))
      BY Zenon DEF QueueStep
    <2>3. pc[u] \in SyncLabels => Covered(ProcOf[u], my[u].blob, my[u].ticket)'
      BY <2>1, <2>2, Zenon DEF FailureFree, ThreadInv, QueueStep, AllCovered
    <2>4. QED
      BY <2>2, <2>3, OtherThreadKeeps, Zenon DEF QueueStep
  <1>2. HeldIntact' /\ IndexDurable'
    BY HeldKeeps, IndexKeeps, Zenon DEF FailureFree, QueueStep
  <1>3. QED
    BY <1>1, <1>2, Zenon DEF FailureFree, QueueStep, FsKeeps

(* Stamps that are left alone stay covered. *)
LEMMA StampsKeep ==
    ASSUME TypeOK, FailureFree, FsKeeps, AllCovered, NEW p \in Proc, NEW b \in Blob,
           stamps'[p][b] = stamps[p][b]
    PROVE  /\ Created(stamps[p][b].ino)'
           /\ stamps'[p][b].ino = dir'[b] /\ dir'[b] \in good'
                => Covered(p, b, stamps[p][b].ticket)'
  <1>1. Created(stamps[p][b].ino) /\ stamps[p][b].ticket \in Nat
    BY ZenonT(60) DEF FailureFree, QueueInv, StampsCovered, TypeOK, QueueTypeOK, Stamp
  <1>2. stamps'[p][b].ino = dir'[b] /\ dir'[b] \in good' => stamps[p][b].ino = dir[b] /\ dir[b] \in good
    BY <1>1, Zenon DEF FsKeeps, Created
  <1>3. QED
    BY <1>1, <1>2, Zenon DEF FailureFree, QueueInv, StampsCovered, AllCovered,
       FsKeeps, Created

(* register, under the queue's mutex, keeps the invariant.                 *)
LEMMA RegisterQueueInv ==
    ASSUME TypeOK, TypeOK', FailureFree, NEW t \in Thread, RegisterQueue(t)
    PROVE  FailureFree'
  <1>a. /\ pc \in [Thread -> Labels] /\ my \in [Thread -> Locals] /\ my[t].blob \in Blob
        /\ ProcOf[t] \in Proc /\ my[t].ticket \in Nat
    BY Zenon, DurabilityAssumption DEF TypeOK, QueueTypeOK, Locals
  <1>p. PICK p \in Proc : p = ProcOf[t]
    BY Zenon, <1>a
  <1>b. PICK b \in Blob : b = my[t].blob
    BY Zenon, <1>a
  <1>c. /\ registered[p] \in Nat /\ taken[p] \in Nat /\ synced[p] \in Nat
        /\ stamps[p][b].ticket \in Nat /\ taken[p] <= registered[p] /\ synced[p] <= taken[p]
    BY DEF TypeOK, QueueTypeOK, Stamp, FailureFree, QueueInv, CountsOrdered
  <1>n. PICK n \in Nat : n = Ticket(t)
    <2>1. registered[p] + 1 \in Nat
      BY <1>c
    <2>2. Ticket(t) \in Nat
      BY <1>c, <1>p, <1>b, <2>1, Zenon DEF Ticket
    <2>3. QED
      BY Zenon, <2>2
  <1>v. ThreadInv(t) /\ pc[t] = "regQueue" /\ ~InBatch(t)
    BY Zenon DEF FailureFree, RegisterQueue, InBatch
  <1>g. dir[b] \in good /\ my[t].seen = dir[b] /\ my[t].seen # NoFile /\ dir[b] \in used
    <2>1. dir[b] \in good /\ my[t].seen = dir[b]
      BY <1>b, <1>v, Zenon DEF ThreadInv, IntactLabels
    <2>2. good \subseteq used /\ used \subseteq Ino
      BY Zenon DEF TypeOK, FsTypeOK
    <2>3. QED
      BY Zenon, <2>1, <2>2, NoFileAssumption
  <1>f. UNCHANGED <<fsVars, ioErrors, lock, index, indexDisk>>
    BY Zenon DEF RegisterQueue
  <1>k. FsKeeps /\ NoneAppears
    BY Zenon, <1>f, FsStepKeeps DEF TypeOK, FailureFree, NoneAppears, fsVars
  <1>1. PICK syncs : Registered(t, syncs)
    BY Zenon DEF RegisterQueue
  <1>2. OthersStay(t)
    BY Zenon, <1>1, <1>a DEF Registered, Return, OthersStay
  <1>3. UNCHANGED held \/ (Hold(t) /\ dir[my[t].blob] \in good)
    BY Zenon, <1>1, <1>b, <1>g DEF Registered
  <1>4. ~InBatch(t)'
    BY Zenon, <1>1, <1>a, ReturnInv DEF Registered, InBatch
  <1>5. ASSUME Covered(p, b, n)' PROVE ThreadInv(t)'
    <2>1. CASE Return(t)
      BY Zenon, <2>1, ReturnInv
    <2>2. CASE /\ pc' = [pc EXCEPT ![t] = "sync"]
               /\ my' = [my EXCEPT ![t] = [@ EXCEPT !.ticket = Raise(my[t].ticket, Ticket(t)),
                                                    !.seen = NoFile]]
      <3>1. /\ pc'[t] = "sync" /\ my'[t].fd = my[t].fd /\ my'[t].blob = b
            /\ my'[t].seen = NoFile /\ my'[t].call = my[t].call
            /\ my'[t].ticket = Raise(my[t].ticket, n)
        BY Zenon, <2>2, <1>a, <1>b, <1>n DEF Locals
      <3>2. my'[t].ticket \in Nat /\ n <= my'[t].ticket
        BY <3>1, <1>a, SMTT(30) DEF Raise
      <3>3. Covered(p, b, my[t].ticket)'
        <4>1. taken'[p] \in Nat /\ synced'[p] \in Nat
          BY Zenon DEF TypeOK, QueueTypeOK
        <4>2. QED
          BY <1>5, <3>2, <4>1 DEF Covered
      <3>4. QED
        BY <3>1, <3>3, <1>f, <1>g, <1>v, <1>b, <1>p, Zenon
        DEF ThreadInv, Created, LockLabels, IntactLabels, SyncLabels, SameFile, WriteLabels, fsVars
    <2>3. QED
      BY Zenon, <1>1, <2>1, <2>2 DEF Registered
  <1>6. CASE RegisterKnown(t)
    <2>1. UNCHANGED queueVars /\ n = stamps[p][b].ticket /\ stamps[p][b].ino = dir[b]
      BY <1>6, <1>n, <1>b, <1>p, <1>g, Zenon DEF RegisterKnown, Known, Ticket
    <2>2. LocalStep(t)
      BY <2>1, <1>f, <1>k, <1>2, <1>v, <1>4, Zenon DEF LocalStep
    <2>3. Covered(p, b, n)
      BY <2>1, <1>g, Zenon DEF FailureFree, QueueInv, StampsCovered
    <2>4. ThreadInv(t)'
      BY Zenon, <2>2, <2>3, <1>5, LocalCovered
    <2>5. QED
      BY <2>1, <2>4, <1>f, <1>2, <1>3, <1>4, <1>v, QuietStep, Zenon
  <1>7. CASE RegisterNew(t)
    <2>1. /\ n = registered[p] + 1
          /\ files' = [files EXCEPT ![p] = @ \cup {b}]
          /\ registered' = [registered EXCEPT ![p] = n]
          /\ UNCHANGED <<taken, synced, syncing, failed>>
      BY <1>7, <1>n, <1>b, <1>p, Zenon DEF RegisterNew, Ticket
    <2>2. /\ stamps'[p][b].ino = dir[b] /\ stamps'[p][b].ticket = n
          /\ \A q \in Proc, c \in Blob : q # p \/ c # b => stamps'[q][c] = stamps[q][c]
      <3>1. stamps \in [Proc -> [Blob -> Stamp]]
        BY Zenon DEF TypeOK, QueueTypeOK
      <3>2. stamps' = IF my[t].seen = NoFile THEN stamps
                      ELSE [stamps EXCEPT ![ProcOf[t]][my[t].blob] =
                              [ino |-> my[t].seen, ticket |-> Ticket(t),
                               hashed |-> my[t].created \/ (@.hashed /\ @.ino = my[t].seen)]]
        BY <1>7, Zenon DEF RegisterNew
      <3>3. PICK h : stamps' = [stamps EXCEPT ![p][b] = [ino |-> dir[b], ticket |-> n, hashed |-> h]]
        BY <3>2, <1>n, <1>b, <1>p, <1>g, Zenon
      <3>4. QED
        BY Zenon, <3>1, <3>3
    <2>3. \A q \in Proc : files[q] \subseteq files'[q] /\ files'[q] \subseteq files[q] \cup {b}
      BY Zenon, <2>1 DEF TypeOK, QueueTypeOK
    <2>4. b \in files'[p] /\ taken'[p] < n
      BY <2>1, <1>c, SMTT(30) DEF TypeOK, QueueTypeOK
    <2>5. Covered(p, b, n)'
      BY Zenon, <2>4 DEF Covered
    <2>6. \A u \in Thread : /\ InBatch(u) <=> InBatch(u)'
                            /\ InBatch(u) => my'[u] = my[u]
      BY <1>2, <1>4, <1>v, Zenon DEF OthersStay, InBatch
    <2>7. AllCovered
      BY <2>1, <2>3, <2>6, <1>k, Zenon DEF AllCovered, Covered, FsKeeps
    <2>8. QueueInv'
      <3>1. CountsOrdered'
        <4>1. /\ taken' = taken /\ synced' = synced /\ registered' = [registered EXCEPT ![p] = n]
              /\ CountsOrdered
          BY <2>1, Zenon DEF FailureFree, QueueInv
        <4>2. registered \in [Proc -> Nat]
          BY Zenon DEF TypeOK, QueueTypeOK
        <4>3. taken[p] <= n
          BY <2>1, <1>c
        <4>4. QED
          BY Zenon, <4>1, <4>2, <4>3 DEF CountsOrdered
      <3>2. QueuedIntact'
        BY <2>3, <1>g, <1>f, Zenon DEF QueuedIntact, FailureFree, QueueInv, fsVars
      <3>3. \A u \in Thread : Batching(u)'
        BY <2>1, <2>6, <1>f, Zenon DEF Batching, FailureFree, QueueInv, fsVars
      <3>4. StampsCovered'
        <4>1. ASSUME NEW q \in Proc, NEW c \in Blob
              PROVE  /\ Created(stamps[q][c].ino)'
                     /\ stamps'[q][c].ino = dir'[c] /\ dir'[c] \in good'
                          => Covered(q, c, stamps[q][c].ticket)'
          <5>1. CASE q = p /\ c = b
            BY <5>1, <2>2, <2>5, <1>g, <1>f, Zenon DEF Created, fsVars
          <5>2. CASE q # p \/ c # b
            BY <5>2, <2>2, <2>7, <1>k, StampsKeep, Zenon
          <5>3. QED
            BY <5>1, <5>2, Zenon
        <4>2. QED
          BY <4>1, Zenon DEF StampsCovered
      <3>5. QED
        BY Zenon, <3>1, <3>2, <3>3, <3>4 DEF QueueInv
    <2>9. QueueStep(t)
      BY <2>1, <2>7, <1>k, <1>f, <1>2, Zenon DEF QueueStep, OthersStay
    <2>10. ThreadInv(t)'
      BY Zenon, <2>5, <1>5
    <2>11. QED
      BY Zenon, <2>8, <2>9, <2>10, <1>3, QueueStepKeeps
  <1>8. QED
    BY <1>6, <1>7, Zenon DEF RegisterQueue

(* Waiting for a batch keeps the invariant.                                *)
LEMMA AwaitBatchInv ==
    ASSUME TypeOK, FailureFree, NEW t \in Thread, AwaitBatch(t), UNCHANGED storeVars
    PROVE  FailureFree'
  <1>a. /\ pc \in [Thread -> Labels] /\ my \in [Thread -> Locals] /\ my[t].blob \in Blob
        /\ ProcOf[t] \in Proc
    BY Zenon, DurabilityAssumption DEF TypeOK, QueueTypeOK, Locals
  <1>1. /\ pc[t] = "sync" /\ pc'[t] = "waiting" /\ my'[t] = my[t] /\ OthersStay(t)
        /\ UNCHANGED <<fsVars, queueVars, ioErrors, lock, held, index, indexDisk>>
    BY Zenon, <1>a DEF AwaitBatch, OthersStay, storeVars
  <1>k. FsKeeps /\ NoneAppears
    BY <1>1, FsStepKeeps, Zenon DEF TypeOK, FailureFree, NoneAppears, fsVars
  <1>2. ~InBatch(t) /\ ~InBatch(t)'
    BY Zenon, <1>1 DEF InBatch
  <1>3. LocalStep(t)
    BY <1>1, <1>2, <1>k, Zenon DEF LocalStep
  <1>4. ThreadInv(t) /\ Covered(ProcOf[t], my[t].blob, my[t].ticket)
    BY <1>1, Zenon DEF FailureFree, ThreadInv, SyncLabels
  <1>5. Covered(ProcOf[t], my[t].blob, my[t].ticket)'
    BY <1>a, <1>1, <1>3, <1>4, LocalCovered, Zenon
  <1>6. ThreadInv(t)'
    BY <1>1, <1>4, <1>5, Zenon
    DEF ThreadInv, Created, LockLabels, IntactLabels, SyncLabels, SameFile, WriteLabels, fsVars
  <1>7. QED
    BY <1>1, <1>2, <1>6, QuietStep, Zenon

(* A thread that stays in `make_durable` with the same locals but its batch. *)
LEMMA SyncerInv ==
    ASSUME TypeOK, FailureFree, FsKeeps, AllCovered, NEW t \in Thread,
           pc[t] \in SyncLabels, pc'[t] \in SyncLabels \ {"unlink"},
           my'[t].fd = my[t].fd, my'[t].seen = my[t].seen, my'[t].blob = my[t].blob,
           my'[t].call = my[t].call, my'[t].ticket = my[t].ticket
    PROVE  ThreadInv(t)'
  <1>1. /\ my[t].blob \in Blob /\ ProcOf[t] \in Proc /\ my[t].ticket \in Nat
    BY DurabilityAssumption, Zenon DEF TypeOK, QueueTypeOK, Locals
  <1>2. ThreadInv(t)
    BY Zenon DEF FailureFree
  <1>3. Covered(ProcOf[t], my[t].blob, my[t].ticket)'
    BY <1>1, <1>2, Zenon DEF AllCovered, ThreadInv
  <1>4. dir[my[t].blob] \in good
    BY <1>2, Zenon DEF ThreadInv, IntactLabels
  <1>5. QED
    BY Zenon, <1>1, <1>2, <1>3, <1>4
    DEF ThreadInv, Created, LockLabels, IntactLabels, SyncLabels, SameFile, WriteLabels, FsKeeps

(* Beginning a batch keeps the invariant.                                  *)
LEMMA BeginBatchInv ==
    ASSUME TypeOK, FailureFree, NEW t \in Thread, BeginBatch(t), UNCHANGED storeVars
    PROVE  FailureFree'
  <1>a. pc \in [Thread -> Labels] /\ my \in [Thread -> Locals] /\ ProcOf[t] \in Proc
    BY Zenon, DurabilityAssumption DEF TypeOK, QueueTypeOK
  <1>p. PICK p \in Proc : p = ProcOf[t]
    BY Zenon, <1>a
  <1>1. /\ pc[t] = "sync" /\ pc'[t] \in {"syncfs", "fsync"}
        /\ p \notin syncing /\ syncing' = syncing \cup {p}
        /\ files' = [files EXCEPT ![p] = {}] /\ taken' = [taken EXCEPT ![p] = registered[p]]
        /\ UNCHANGED <<fsVars, registered, synced, stamps, failed, storeVars>>
    BY Zenon, <1>a, <1>p DEF BeginBatch, MayBegin
  <1>2. /\ my'[t].upto = registered[p] /\ my'[t].toSync = files[p] /\ my'[t].toSyncDirs = files[p]
        /\ my'[t].fd = my[t].fd /\ my'[t].seen = my[t].seen /\ my'[t].blob = my[t].blob
        /\ my'[t].call = my[t].call /\ my'[t].ticket = my[t].ticket
    BY ZenonT(60), <1>a, <1>p DEF BeginBatch, Locals
  <1>3. OthersStay(t)
    BY Zenon, <1>a DEF BeginBatch, OthersStay
  <1>k. FsKeeps /\ NoneAppears
    BY <1>1, FsStepKeeps, Zenon DEF TypeOK, FailureFree, NoneAppears, fsVars
  <1>4. \A u \in Thread : InBatch(u) => ProcOf[u] # p
    BY <1>1, Zenon DEF FailureFree, QueueInv, Batching
  <1>5. /\ InBatch(t)' /\ ~InBatch(t)
        /\ \A u \in Thread \ {t} : (InBatch(u)' <=> InBatch(u)) /\ my'[u] = my[u]
    BY <1>1, <1>3, Zenon DEF InBatch, OthersStay
  <1>6. /\ synced[p] \in Nat /\ taken[p] \in Nat /\ registered[p] \in Nat
        /\ synced[p] <= taken[p] /\ taken[p] <= registered[p]
    BY Zenon DEF TypeOK, QueueTypeOK, FailureFree, QueueInv, CountsOrdered
  <1>7. ASSUME NEW q \in Proc, NEW b \in Blob, NEW n \in Nat, Covered(q, b, n)
        PROVE  Covered(q, b, n)'
    <2>1. CASE q = p
      <3>1. Durable(b) \/ (b \in files[p] /\ taken[p] < n)
        BY Zenon, <1>7, <1>4, <2>1 DEF Covered
      <3>2. CASE Durable(b)
        BY <3>2, <1>k, Zenon DEF Covered, FsKeeps
      <3>3. CASE b \in files[p] /\ taken[p] < n
        <4>1. synced'[p] < n
          BY <3>3, <1>1, <1>6, SMTT(30)
        <4>2. ProcOf[t] = p /\ InBatch(t)' /\ b \in my'[t].toSyncDirs
          BY <3>3, <1>2, <1>5, <1>p, Zenon
        <4>3. QED
          BY <4>1, <4>2, <2>1, Zenon DEF Covered
      <3>4. QED
        BY Zenon, <3>1, <3>2, <3>3
    <2>2. CASE q # p
      <3>1. files'[q] = files[q] /\ taken'[q] = taken[q] /\ synced'[q] = synced[q]
        BY Zenon, <2>2, <1>1 DEF TypeOK, QueueTypeOK
      <3>2. \A u \in Thread : ProcOf[u] = q /\ InBatch(u)
                => InBatch(u)' /\ my'[u].toSyncDirs = my[u].toSyncDirs
        BY <2>2, <1>5, <1>p, Zenon
      <3>3. QED
        BY <3>1, <3>2, <1>7, <1>k, CoveredKeeps, Zenon
    <2>3. QED
      BY Zenon, <2>1, <2>2
  <1>8. AllCovered
    BY Zenon, <1>7 DEF AllCovered
  <1>9. QueueInv'
    <2>1. CountsOrdered'
      BY <1>1, <1>6 DEF CountsOrdered, FailureFree, QueueInv, TypeOK, QueueTypeOK
    <2>2. QueuedIntact'
      BY Zenon, <1>1 DEF QueuedIntact, FailureFree, QueueInv, TypeOK, QueueTypeOK,
         fsVars
    <2>3. ASSUME NEW u \in Thread PROVE Batching(u)'
      <3>1. CASE u = t
        <4>1. taken'[p] = registered[p]
          BY Zenon, <1>1 DEF TypeOK, QueueTypeOK
        <4>2. \A b \in files[p] : dir'[b] \in good'
          BY <1>1, Zenon DEF FailureFree, QueueInv, QueuedIntact, fsVars
        <4>3. QED
          BY <3>1, <4>1, <4>2, <1>1, <1>2, <1>4, <1>5, <1>p, Zenon DEF Batching
      <3>2. CASE u # t /\ InBatch(u)
        <4>1. Batching(u) /\ ProcOf[u] # p /\ ProcOf[u] \in Proc
          BY Zenon, <3>2, <1>4, DurabilityAssumption DEF FailureFree, QueueInv
        <4>2. taken'[ProcOf[u]] = taken[ProcOf[u]]
          BY <4>1, <1>1, Zenon DEF TypeOK, QueueTypeOK
        <4>3. QED
          BY <3>2, <4>1, <4>2, <1>1, <1>5, <1>p, Zenon DEF Batching, fsVars
      <3>3. CASE u # t /\ ~InBatch(u)
        BY <3>3, <1>5, Zenon DEF Batching
      <3>4. QED
        BY Zenon, <3>1, <3>2, <3>3
    <2>4. StampsCovered'
      BY <1>1, <1>8, <1>k, StampsKeep, Zenon DEF StampsCovered
    <2>5. QED
      BY Zenon, <2>1, <2>2, <2>3, <2>4 DEF QueueInv
  <1>10. ThreadInv(t)'
    BY <1>1, <1>2, <1>8, <1>k, SyncerInv, Zenon DEF SyncLabels
  <1>11. QueueStep(t)
    BY <1>1, <1>3, <1>8, <1>k, Zenon DEF QueueStep, OthersStay, storeVars
  <1>12. QED
    BY <1>1, <1>9, <1>10, <1>11, QueueStepKeeps, Zenon DEF storeVars

(* A batch syncs files, then directories; a blob it is done with is durable. *)
LEMMA BatchWorkInv ==
    ASSUME TypeOK, FailureFree, FsKeeps, NoneAppears, NEW t \in Thread,
           UNCHANGED <<queueVars, storeVars>>, OthersStay(t), InBatch(t), InBatch(t)',
           my'[t].fd = my[t].fd, my'[t].seen = my[t].seen, my'[t].blob = my[t].blob,
           my'[t].call = my[t].call, my'[t].ticket = my[t].ticket, my'[t].upto = my[t].upto,
           my'[t].toSyncDirs \subseteq my[t].toSyncDirs,
           \A b \in my[t].toSyncDirs \ my'[t].toSyncDirs : Durable(b)',
           \A b \in my'[t].toSyncDirs \ my'[t].toSync : dir'[b] \in safe'
    PROVE  FailureFree'
  <1>a. my[t].toSyncDirs \subseteq Blob
    BY Zenon DEF TypeOK, QueueTypeOK, Locals
  <1>b. \A u \in Thread : (InBatch(u)' <=> InBatch(u)) /\ (u # t => my'[u] = my[u])
    BY Zenon DEF OthersStay, InBatch
  <1>1. ASSUME NEW q \in Proc, NEW b \in Blob, NEW n \in Nat, Covered(q, b, n)
        PROVE  Covered(q, b, n)'
    <2>1. CASE Durable(b) \/ (b \in files[q] /\ taken[q] < n)
      BY <2>1, Zenon DEF Covered, FsKeeps, queueVars
    <2>2. ASSUME synced[q] < n, NEW u \in Thread, ProcOf[u] = q, InBatch(u), b \in my[u].toSyncDirs
          PROVE  Covered(q, b, n)'
      <3>1. CASE b \in my'[u].toSyncDirs
        BY <2>2, <3>1, <1>b, Zenon DEF Covered, queueVars
      <3>2. CASE b \notin my'[u].toSyncDirs
        <4>1. u = t
          BY <2>2, <3>2, <1>b, Zenon
        <4>2. QED
          BY <2>2, <3>2, <4>1, Zenon DEF Covered
      <3>3. QED
        BY <3>1, <3>2, Zenon
    <2>3. QED
      BY <1>1, <2>1, <2>2, Zenon DEF Covered
  <1>2. AllCovered
    BY Zenon, <1>1 DEF AllCovered
  <1>3. QueueInv'
    <2>1. CountsOrdered'
      BY Zenon DEF CountsOrdered, FailureFree, QueueInv, queueVars
    <2>2. QueuedIntact'
      BY Zenon DEF QueuedIntact, FailureFree, QueueInv, queueVars, FsKeeps,
         TypeOK, QueueTypeOK
    <2>3. ASSUME NEW u \in Thread PROVE Batching(u)'
      <3>1. Batching(u) /\ my[u].toSyncDirs \subseteq Blob
        BY Zenon DEF FailureFree, QueueInv, TypeOK, QueueTypeOK, Locals
      <3>2. CASE u = t
        BY <3>1, <3>2, <1>b, Zenon DEF Batching, queueVars, FsKeeps
      <3>3. CASE u # t
        BY <3>1, <3>3, <1>b, Zenon DEF Batching, queueVars, FsKeeps
      <3>4. QED
        BY <3>2, <3>3, Zenon
    <2>4. StampsCovered'
      BY <1>2, StampsKeep, Zenon DEF StampsCovered, queueVars
    <2>5. QED
      BY <2>1, <2>2, <2>3, <2>4, Zenon DEF QueueInv
  <1>4. ThreadInv(t)'
    BY <1>2, SyncerInv, Zenon DEF SyncLabels, InBatch
  <1>5. QueueStep(t)
    BY <1>2, Zenon DEF QueueStep, OthersStay, storeVars, queueVars
  <1>6. QED
    BY <1>3, <1>4, <1>5, QueueStepKeeps, Zenon DEF storeVars

(* The syncs of a batch keep the invariant.                                *)
LEMMA BatchInv ==
    ASSUME TypeOK, FailureFree, NEW t \in Thread, UNCHANGED storeVars,
           BatchSyncfs(t) \/ BatchSyncFile(t) \/ BatchSyncDir(t)
    PROVE  FailureFree'
  <1>a. /\ pc \in [Thread -> Labels] /\ my \in [Thread -> Locals] /\ my[t] \in Locals
        /\ my[t].toSync \subseteq Blob /\ my[t].toSyncDirs \subseteq Blob
    BY Zenon DEF TypeOK, QueueTypeOK, Locals
  <1>b. InBatch(t) /\ InBatch(t)' /\ OthersStay(t) /\ UNCHANGED queueVars
    BY Zenon, <1>a DEF BatchSyncfs, BatchSyncFile, BatchSyncDir, InBatch, OthersStay
  <1>c. \A b \in my[t].toSyncDirs :
          dir[b] \in good /\ dir[b] \in used /\ (b \notin my[t].toSync => dir[b] \in safe)
    BY <1>b, Zenon DEF FailureFree, QueueInv, Batching, TypeOK, FsTypeOK
  <1>l. lost = {} /\ PathsCreated /\ FsTypeOK
    BY Zenon DEF FailureFree, TypeOK
  <1>1. CASE BatchSyncfs(t)
    <2>1. FsKeeps /\ NoneAppears
      BY Zenon, <1>1, <1>l, FsStepKeeps DEF BatchSyncfs, NoneAppears, SyncFilesystem
    <2>2. /\ my'[t].toSync = {} /\ my'[t].toSyncDirs = {} /\ my'[t].upto = my[t].upto
          /\ my'[t].fd = my[t].fd /\ my'[t].seen = my[t].seen /\ my'[t].blob = my[t].blob
          /\ my'[t].call = my[t].call /\ my'[t].ticket = my[t].ticket
      BY Zenon, <1>1, <1>a DEF BatchSyncfs, Locals
    <2>3. \A b \in my[t].toSyncDirs : Durable(b)'
      BY Zenon, <1>1, <1>a, <1>c, <1>l DEF BatchSyncfs, SyncFilesystem, Durable
    <2>4. QED
      BY <1>b, <2>1, <2>2, <2>3, BatchWorkInv, Zenon
  <1>2. ASSUME NEW b \in my[t].toSync, pc[t] = "fsync", SyncData(b),
               my' = [my EXCEPT ![t].toSync = my[t].toSync \ {b}]
        PROVE  FailureFree'
    <2>1. FsKeeps /\ NoneAppears
      BY Zenon, <1>2, <1>a, <1>l, FsStepKeeps DEF NoneAppears, SyncData
    <2>2. /\ my'[t].toSync = my[t].toSync \ {b} /\ my'[t].toSyncDirs = my[t].toSyncDirs
          /\ my'[t].upto = my[t].upto
          /\ my'[t].fd = my[t].fd /\ my'[t].seen = my[t].seen /\ my'[t].blob = my[t].blob
          /\ my'[t].call = my[t].call /\ my'[t].ticket = my[t].ticket
      BY Zenon, <1>2, <1>a DEF Locals
    <2>3. \A c \in my'[t].toSyncDirs \ my'[t].toSync : dir'[c] \in safe'
      BY Zenon, <1>2, <1>c, <1>l, <2>2 DEF SyncData
    <2>4. QED
      BY <1>b, <2>1, <2>2, <2>3, BatchWorkInv, Zenon
  <1>3. ASSUME NEW b \in my[t].toSyncDirs, pc[t] = "fsync", my[t].toSync = {}, SyncDir(b),
               my' = [my EXCEPT ![t].toSyncDirs = my[t].toSyncDirs \ {b}]
        PROVE  FailureFree'
    <2>1. FsKeeps /\ NoneAppears
      BY <1>3, <1>a, <1>l, FsStepKeeps, Zenon DEF NoneAppears, SyncDir
    <2>2. /\ my'[t].toSync = my[t].toSync /\ my'[t].toSyncDirs = my[t].toSyncDirs \ {b}
          /\ my'[t].upto = my[t].upto
          /\ my'[t].fd = my[t].fd /\ my'[t].seen = my[t].seen /\ my'[t].blob = my[t].blob
          /\ my'[t].call = my[t].call /\ my'[t].ticket = my[t].ticket
      BY Zenon, <1>3, <1>a DEF Locals
    <2>3. Durable(b)'
      BY Zenon, <1>3, <1>a, <1>c, <1>l DEF SyncDir, Durable, FsTypeOK
    <2>4. \A c \in my'[t].toSyncDirs \ my'[t].toSync : dir'[c] \in safe'
      BY Zenon, <1>3, <1>c, <2>2 DEF SyncDir
    <2>5. QED
      BY <1>b, <2>1, <2>2, <2>3, <2>4, BatchWorkInv, Zenon
  <1>4. QED
    BY Zenon, <1>1, <1>2, <1>3 DEF BatchSyncFile, BatchSyncDir

(* The end of a batch, where its tickets become durable, keeps the         *)
(* invariant.                                                              *)
LEMMA EndBatchInv ==
    ASSUME TypeOK, FailureFree, NEW t \in Thread, EndBatch(t), UNCHANGED storeVars
    PROVE  FailureFree'
  <1>a. pc \in [Thread -> Labels] /\ my \in [Thread -> Locals] /\ ProcOf[t] \in Proc
    BY Zenon, DurabilityAssumption DEF TypeOK, QueueTypeOK
  <1>p. PICK p \in Proc : p = ProcOf[t]
    BY Zenon, <1>a
  <1>1. /\ pc[t] = "fsync" /\ my[t].toSyncDirs = {} /\ InBatch(t)
        /\ synced' = [synced EXCEPT ![p] = my[t].upto]
        /\ syncing' = syncing \ {p}
        /\ UNCHANGED <<fsVars, files, mine, taken, registered, stamps, failed, storeVars>>
    BY Zenon, <1>p DEF EndBatch, SyncedNow, InBatch, FailureFree, ThreadInv
  <1>2. /\ pc'[t] = "sync"
        /\ \A u \in Thread \ {t} :
             my'[u] = my[u] /\ (pc'[u] = pc[u] \/ (pc[u] = "waiting" /\ pc'[u] = "sync"))
    BY Zenon, <1>a DEF EndBatch, Woken
  <1>3. /\ my'[t].fd = my[t].fd /\ my'[t].seen = my[t].seen /\ my'[t].blob = my[t].blob
        /\ my'[t].call = my[t].call /\ my'[t].ticket = my[t].ticket
    BY ZenonT(60), <1>a DEF EndBatch, Locals
  <1>k. FsKeeps /\ NoneAppears
    BY <1>1, FsStepKeeps, Zenon DEF TypeOK, FailureFree, NoneAppears, fsVars
  <1>4. /\ my[t].upto = taken[p]
        /\ \A u \in Thread : InBatch(u) /\ ProcOf[u] = p => u = t
    BY <1>1, <1>p, Zenon DEF FailureFree, QueueInv, Batching
  <1>5. \A u \in Thread : InBatch(u)' <=> InBatch(u) /\ u # t
    BY Zenon, <1>2 DEF InBatch
  <1>6. synced'[p] = taken[p] /\ \A q \in Proc \ {p} : synced'[q] = synced[q]
    BY <1>1, <1>4, Zenon DEF TypeOK, QueueTypeOK
  <1>7. ASSUME NEW q \in Proc, NEW b \in Blob, NEW n \in Nat, Covered(q, b, n)
        PROVE  Covered(q, b, n)'
    <2>1. CASE q = p
      <3>1. Durable(b) \/ (b \in files[p] /\ taken[p] < n)
        BY <1>7, <1>1, <1>4, <2>1, Zenon DEF Covered
      <3>2. QED
        BY <3>1, <2>1, <1>1, <1>k, Zenon DEF Covered, FsKeeps
    <2>2. CASE q # p
      <3>1. \A u \in Thread : ProcOf[u] = q /\ InBatch(u)
                => InBatch(u)' /\ my'[u].toSyncDirs = my[u].toSyncDirs
        BY Zenon, <2>2, <1>2, <1>5, <1>p
      <3>2. QED
        BY Zenon, <3>1, <2>2, <1>1, <1>6, <1>7, <1>k, CoveredKeeps
    <2>3. QED
      BY Zenon, <2>1, <2>2
  <1>8. AllCovered
    BY Zenon, <1>7 DEF AllCovered
  <1>9. QueueInv'
    <2>1. CountsOrdered'
      <3>1. /\ taken' = taken /\ registered' = registered /\ synced' = [synced EXCEPT ![p] = taken[p]]
            /\ taken[p] \in Nat /\ synced \in [Proc -> Nat] /\ CountsOrdered
        BY <1>1, <1>6, Zenon DEF FailureFree, QueueInv, TypeOK, QueueTypeOK
      <3>2. QED
        BY <3>1 DEF CountsOrdered
    <2>2. QueuedIntact'
      BY <1>1, Zenon DEF QueuedIntact, FailureFree, QueueInv, fsVars
    <2>3. ASSUME NEW u \in Thread PROVE Batching(u)'
      <3>1. Batching(u)
        BY Zenon DEF FailureFree, QueueInv
      <3>2. CASE InBatch(u) /\ u # t
        BY Zenon, <3>1, <3>2, <1>1, <1>2, <1>4, <1>5 DEF Batching, fsVars
      <3>3. CASE ~(InBatch(u) /\ u # t)
        BY <3>3, <1>5, Zenon DEF Batching
      <3>4. QED
        BY Zenon, <3>2, <3>3
    <2>4. StampsCovered'
      BY <1>1, <1>8, <1>k, StampsKeep, Zenon DEF StampsCovered
    <2>5. QED
      BY Zenon, <2>1, <2>2, <2>3, <2>4 DEF QueueInv
  <1>10. ThreadInv(t)'
    BY <1>1, <1>2, <1>3, <1>8, <1>k, SyncerInv, Zenon DEF SyncLabels
  <1>11. QueueStep(t)
    BY <1>1, <1>2, <1>8, <1>k, Zenon DEF QueueStep, storeVars
  <1>12. QED
    BY <1>1, <1>9, <1>10, <1>11, QueueStepKeeps, Zenon DEF storeVars

(* Killing a process keeps the invariant.                                  *)
LEMMA KillInv ==
    ASSUME TypeOK, FailureFree, NEW p \in Proc, Kill(p)
    PROVE  FailureFree'
  <1>1. /\ UNCHANGED <<fsVars, index, indexDisk>>
        /\ \A q \in Proc \ {p} : /\ files'[q] = files[q] /\ taken'[q] = taken[q]
                                 /\ registered'[q] = registered[q] /\ synced'[q] = synced[q]
                                 /\ stamps'[q] = stamps[q] /\ held'[q] = held[q]
        /\ files'[p] = {} /\ taken'[p] = 0 /\ registered'[p] = 0 /\ synced'[p] = 0
        /\ stamps'[p] = [b \in Blob |-> NoStamp] /\ held'[p] = {}
        /\ syncing' = syncing \ {p} /\ failed' = failed \ {p}
    BY Zenon DEF Kill, Forget, ForgetQueues
  <1>2. \A u \in Thread : /\ ProcOf[u] = p => pc'[u] = "idle" /\ my'[u] = Idle
                          /\ ProcOf[u] # p => pc'[u] = pc[u] /\ my'[u] = my[u]
    BY Zenon DEF Kill, Forget
  <1>k. FsKeeps /\ NoneAppears
    BY <1>1, FsStepKeeps, Zenon DEF TypeOK, FailureFree, NoneAppears, fsVars
  <1>3. \A u \in Thread : InBatch(u)' <=> InBatch(u) /\ ProcOf[u] # p
    BY Zenon, <1>2 DEF InBatch
  <1>4. ASSUME NEW q \in Proc \ {p}, NEW b \in Blob, NEW n, Covered(q, b, n)
        PROVE  Covered(q, b, n)'
    BY ZenonT(60), <1>1, <1>2, <1>3, <1>4, <1>k, CoveredKeeps
  <1>5. ASSUME NEW u \in Thread PROVE ThreadInv(u)'
    <2>1. CASE ProcOf[u] = p
      BY <1>2, <2>1, IdleInv, Zenon
    <2>2. CASE ProcOf[u] # p
      <3>1. ProcOf[u] \in Proc \ {p} /\ my[u].blob \in Blob
        BY Zenon, <2>2, DurabilityAssumption DEF TypeOK, QueueTypeOK, Locals
      <3>2. pc'[u] = pc[u] /\ my'[u] = my[u] /\ ThreadInv(u)
        BY <1>2, <2>2, Zenon DEF FailureFree
      <3>3. pc[u] \in SyncLabels => Covered(ProcOf[u], my[u].blob, my[u].ticket)'
        BY <1>4, <3>1, <3>2, Zenon DEF ThreadInv
      <3>4. lock = u => lock' = u
        BY <2>2, Zenon DEF Kill
      <3>5. QED
        BY <1>k, <3>2, <3>3, <3>4, OtherThreadKeeps, Zenon
    <2>3. QED
      BY Zenon, <2>1, <2>2
  <1>6. QueueInv'
    <2>1. CountsOrdered'
      <3>1. CountsOrdered
        BY Zenon DEF FailureFree, QueueInv
      <3>2. ASSUME NEW q \in Proc PROVE synced'[q] <= taken'[q] /\ taken'[q] <= registered'[q]
        <4>1. CASE q = p
          <5>1. synced'[q] = 0 /\ taken'[q] = 0 /\ registered'[q] = 0
            BY <1>1, <4>1, Zenon
          <5>2. QED
            BY <5>1
        <4>2. CASE q # p
          BY <1>1, <3>1, <4>2, Zenon DEF CountsOrdered
        <4>3. QED
          BY Zenon, <4>1, <4>2
      <3>3. QED
        BY <3>2, Zenon DEF CountsOrdered
    <2>2. QueuedIntact'
      BY <1>1, Zenon DEF QueuedIntact, FailureFree, QueueInv, fsVars
    <2>3. ASSUME NEW u \in Thread PROVE Batching(u)'
      <3>1. Batching(u) /\ ProcOf[u] \in Proc
        BY Zenon, DurabilityAssumption DEF FailureFree, QueueInv
      <3>2. CASE InBatch(u) /\ ProcOf[u] # p
        BY <3>1, <3>2, <1>1, <1>2, <1>3, Zenon DEF Batching, fsVars
      <3>3. CASE ~(InBatch(u) /\ ProcOf[u] # p)
        BY <3>3, <1>3, Zenon DEF Batching
      <3>4. QED
        BY Zenon, <3>2, <3>3
    <2>4. ASSUME NEW q \in Proc, NEW b \in Blob
          PROVE  /\ Created(stamps[q][b].ino)'
                 /\ stamps'[q][b].ino = dir'[b] /\ dir'[b] \in good'
                      => Covered(q, b, stamps[q][b].ticket)'
      <3>1. CASE q = p
        <4>1. stamps'[q][b].ino = NoFile /\ NoFile \notin good'
          <5>1. good' = good /\ good \subseteq used /\ used \subseteq Ino
            BY <1>1, Zenon DEF fsVars, TypeOK, FsTypeOK
          <5>2. stamps'[q][b] = NoStamp
            BY <1>1, <3>1, Zenon
          <5>3. QED
            BY <5>1, <5>2, NoFileAssumption DEF NoStamp
        <4>2. QED
          BY Zenon, <4>1 DEF Created
      <3>2. CASE q # p
        <4>1. /\ stamps'[q][b] = stamps[q][b] /\ Created(stamps[q][b].ino)
              /\ stamps[q][b].ino = dir[b] /\ dir[b] \in good => Covered(q, b, stamps[q][b].ticket)
          BY <1>1, <3>2, Zenon DEF FailureFree, QueueInv, StampsCovered
        <4>2. QED
          BY <1>1, <1>4, <3>2, <4>1, Zenon DEF fsVars, Created
      <3>3. QED
        BY <3>1, <3>2, Zenon
    <2>5. StampsCovered'
      BY <2>4, Zenon DEF StampsCovered
    <2>6. QED
      BY Zenon, <2>1, <2>2, <2>3, <2>5 DEF QueueInv
  <1>7. HeldIntact'
    BY <1>1, Zenon DEF HeldIntact, FailureFree, fsVars
  <1>8. IndexDurable'
    BY <1>1, <1>k, IndexKeeps, Zenon DEF FailureFree
  <1>9. QED
    BY <1>1, <1>5, <1>6, <1>7, <1>8, <1>k, Zenon DEF FailureFree, FsKeeps

(***************************************************************************)
(* A power loss: every directory entry and file a row or a checked stamp   *)
(* depends on is the one the disk holds.                                   *)
(***************************************************************************)
LEMMA PowerLossInv ==
    ASSUME TypeOK, FailureFree, PowerLoss
    PROVE  FailureFree'
  <1>1. PICK left \in [Blob -> File], torn \in SUBSET (used \ safe) :
          /\ \A b \in Blob : left[b] \in diskDir[b]
          /\ dir' = left /\ diskDir' = [b \in Blob |-> {left[b]}]
          /\ good' = good \ torn /\ safe' = used /\ lost' = {} /\ used' = used
    BY Zenon DEF PowerLoss, FsPowerLoss
  <1>2. \A b \in Blob : Durable(b) => Durable(b)' /\ dir'[b] = dir[b]
    BY Zenon, <1>1 DEF Durable, TypeOK, FsTypeOK
  <1>3. PathsCreated'
    BY Zenon, <1>1 DEF FailureFree, PathsCreated, Created
  <1>4. /\ \A q \in Proc : /\ files'[q] = {} /\ taken'[q] = 0 /\ registered'[q] = 0 /\ synced'[q] = 0
                           /\ stamps'[q] = [b \in Blob |-> NoStamp] /\ held'[q] = {}
        /\ failed' = {}
    BY Zenon DEF PowerLoss, Forget, ForgetQueues, FailureFree
  <1>5. \A u \in Thread : pc'[u] = "idle" /\ my'[u] = Idle
    BY DurabilityAssumption, Zenon DEF PowerLoss, Forget
  <1>6. \A u \in Thread : ThreadInv(u)' /\ ~InBatch(u)'
    BY Zenon, <1>5, IdleInv
  <1>7. QueueInv'
    <2>1. CountsOrdered' /\ QueuedIntact' /\ HeldIntact'
      <3>1. \A q \in Proc : synced'[q] <= taken'[q] /\ taken'[q] <= registered'[q]
        <4>1. \A q \in Proc : synced'[q] = 0 /\ taken'[q] = 0 /\ registered'[q] = 0
          BY <1>4, Zenon
        <4>2. QED
          BY <4>1
      <3>2. QED
        BY <1>4, <3>1, Zenon DEF CountsOrdered, QueuedIntact, HeldIntact
    <2>2. \A u \in Thread : Batching(u)'
      BY Zenon, <1>6 DEF Batching
    <2>3. StampsCovered'
      <3>1. NoFile \notin good'
        BY Zenon, <1>1, NoFileAssumption DEF TypeOK, FsTypeOK
      <3>2. QED
        <4>1. \A q \in Proc, b \in Blob : stamps'[q][b].ino = NoFile
          <5>1. \A q \in Proc : stamps'[q] = [b \in Blob |-> NoStamp]
            BY <1>4, Zenon
          <5>2. QED
            BY <5>1 DEF NoStamp
        <4>2. QED
          BY <3>1, <4>1, Zenon DEF StampsCovered, Created
    <2>4. QED
      BY Zenon, <2>1, <2>2, <2>3 DEF QueueInv
  <1>8. HeldIntact'
    BY Zenon, <1>4 DEF HeldIntact
  <1>9. IndexDurable'
    <2>1. index' \in indexDisk /\ indexDisk' = {index'}
      BY Zenon DEF PowerLoss
    <2>2. QED
      BY <1>2, <2>1, Zenon DEF IndexDurable, FailureFree
  <1>10. QED
    BY Zenon, <1>1, <1>3, <1>4, <1>6, <1>7, <1>8, <1>9 DEF FailureFree

(* A step that leaves everything but the checkpointed index alone. *)
LEMMA IdleStepInv ==
    ASSUME FailureFree, Checkpoint \/ UNCHANGED vars
    PROVE  FailureFree'
  <1>1. UNCHANGED <<fsVars, queueVars, pc, my, lock, held, index>>
    BY Zenon DEF Checkpoint, vars, storeVars
  <1>d. /\ \A b : Durable(b)' <=> Durable(b)
        /\ \A u : InBatch(u)' <=> InBatch(u)
    BY <1>1, Zenon DEF Durable, InBatch, fsVars
  <1>e. files' = files /\ taken' = taken /\ synced' = synced /\ my' = my
    BY <1>1, Zenon DEF queueVars
  <1>2. \A p, b, n : Covered(p, b, n)' <=> Covered(p, b, n)
    BY ZenonT(60), <1>d, <1>e DEF Covered
  <1>3. \A u \in Thread : ThreadInv(u)'
    BY Zenon, <1>1, <1>d, <1>2 DEF ThreadInv, FailureFree, Created, SameFile,
       Durable, fsVars
  <1>4. QueueInv'
    BY <1>1, <1>d, <1>2, Zenon
    DEF QueueInv, FailureFree, CountsOrdered, QueuedIntact, Batching, StampsCovered, Created,
        fsVars, queueVars
  <1>5. IndexDurable'
    BY <1>1, <1>d, Zenon DEF IndexDurable, FailureFree, Checkpoint, vars,
       storeVars, fsVars
  <1>6. QED
    BY Zenon, <1>1, <1>3, <1>4, <1>5 DEF FailureFree, PathsCreated, HeldIntact,
       Created, fsVars, queueVars

(* IInv is inductive. *)
LEMMA InitInv == Init => IInv
  <1> SUFFICES ASSUME Init PROVE FailureFree
    BY Zenon DEF IInv
  <1>1. \A u \in Thread : pc[u] = "idle" /\ my[u] = Idle
    BY Zenon DEF Init
  <1>2. \A u \in Thread : ThreadInv(u) /\ ~InBatch(u)
    <2> SUFFICES ASSUME NEW u \in Thread PROVE ThreadInv(u) /\ ~InBatch(u)
      BY Zenon
    <2>1. pc[u] = "idle" /\ my[u].fd = NoFile /\ my[u].seen = NoFile
      BY <1>1, IdleFields, Zenon
    <2>2. QED
      BY <2>1, Zenon DEF ThreadInv, InBatch, Created, LockLabels, IntactLabels,
         SyncLabels, SameFile, WriteLabels
  <1>3. QueueInv
    <2>1. \A p \in Proc : synced[p] <= taken[p] /\ taken[p] <= registered[p] /\ files[p] = {}
      BY DEF Init, QueueInit
    <2>2. \A p \in Proc, b \in Blob : stamps[p][b].ino = NoFile /\ dir[b] \notin good
      BY Zenon DEF Init, FsInit, QueueInit, NoStamp
    <2>3. QED
      BY <1>2, <2>1, <2>2, Zenon DEF QueueInv, CountsOrdered, QueuedIntact,
         Batching, StampsCovered, Created
  <1>4. QED
    BY <1>2, <1>3, SMTT(30)
    DEF Init, FsInit, QueueInit, FailureFree, PathsCreated, Created, HeldIntact, IndexDurable

(* Only a failing batch counts as an error. *)
LEMMA NextErrors ==
    ASSUME [Next]_vars, \A t \in Thread : ~BatchError(t)
    PROVE  ioErrors' = ioErrors
  <1>1. ASSUME NEW t \in Thread, Start(t) \/ StoreLockTimeout(t) PROVE ioErrors' = ioErrors
    BY Zenon, <1>1 DEF Start, PutBytes, VerifyBlob, PublishStaged, AddArtifacts,
       StoreLockTimeout
  <1>2. ASSUME NEW t \in Thread, Step(t) PROVE ioErrors' = ioErrors
    BY Zenon, <1>2
    DEF Step, OpenBlob, CheckUnchanged, CheckHash, RecordCheck, AcquireStoreLock, PersistLink,
        PersistVerify, PersistRemove, RegisterStat, RegisterQueue, InSync, SyncStep, AwaitBatch,
        BeginBatch, BatchSyncfs, BatchSyncFile, BatchSyncDir, BatchUnlink, EndBatch, SyncOk,
        SyncErr, RowCheck, RowWrite
  <1>3. QED
    BY <1>1, <1>2, Zenon DEF Next, Kill, PowerLoss, Forget, Checkpoint, vars

(* Every step keeps the invariant.                                         *)
LEMMA NextInv ==
    ASSUME TypeOK, TypeOK', IInv, [Next]_vars
    PROVE  IInv'
  <1> SUFFICES ASSUME ioErrors' = 0 PROVE FailureFree'
    BY Zenon DEF IInv
  <1>0. ioErrors = 0 /\ FailureFree /\ \A t \in Thread : ~BatchError(t)
    <2>1. \A t \in Thread : ~BatchError(t)
      <3>1. ioErrors \in Nat
        BY Zenon DEF TypeOK, QueueTypeOK
      <3>2. QED
        BY <3>1 DEF BatchError
    <2>3. ioErrors' = ioErrors
      BY Zenon, <2>1, NextErrors
    <2>4. QED
      BY Zenon, <2>1, <2>3 DEF IInv
  <1>1. ASSUME NEW t \in Thread, Step(t) PROVE FailureFree'
    <2>1. ~BatchUnlink(t)
      BY Zenon, <1>0 DEF BatchUnlink, FailureFree, ThreadInv
    <2>2. CASE InSync(t)
      BY Zenon, <2>1, <2>2, <1>0, AwaitBatchInv, BeginBatchInv, BatchInv,
         EndBatchInv DEF InSync, SyncStep
    <2>3. CASE ~InSync(t)
      BY Zenon, <2>3, <1>0, <1>1, StoredBlobInv, IndexStepInv, LockInv,
         PersistInv, StatInv,
         RegisterQueueInv, SyncReturnInv DEF Step
    <2>4. QED
      BY Zenon, <2>2, <2>3
  <1>2. QED
    BY Zenon, <1>0, <1>1, StartInv, LockInv, KillInv, PowerLossInv,
       IdleStepInv DEF Next

(* The invariant says that rows name intact blobs and that stamps are      *)
(* sound.                                                                  *)
LEMMA InvFacts ==
    ASSUME TypeOK, IInv
    PROVE  RowsIntact /\ StampsSound
  <1> SUFFICES ASSUME ioErrors = 0 PROVE RowsIntact /\ StampsSound
    BY Zenon DEF RowsIntact, StampsSound
  <1>1. IndexDurable /\ index.rows \subseteq Blob
    BY Zenon DEF IInv, FailureFree, TypeOK, Index
  <1>2. QED
    BY <1>1, Zenon DEF IndexDurable, Durable, RowsIntact, StampsSound

(***************************************************************************)
(* Every state of the store satisfies the inductive invariant.             *)
(***************************************************************************)
THEOREM Invariant == Spec => [](TypeOK /\ IInv)
  <1>1. TypeOK /\ IInv /\ [Next]_vars => TypeOK' /\ IInv'
    BY Zenon, NextType, NextInv
  <1>2. QED
    BY <1>1, InitType, InitInv, PTL DEF Spec

(***************************************************************************)
(* While no sync fails, every blob an index row names is stored and hashes *)
(* to its id, whatever processes are killed and whenever the power fails.  *)
(***************************************************************************)
THEOREM RowsAlwaysIntact == Spec => []RowsIntact
  BY Invariant, InvFacts, PTL

(***************************************************************************)
(* While no sync fails, a file that its checked stamp calls unchanged has  *)
(* the bytes its name promises.                                            *)
(***************************************************************************)
THEOREM StampsAlwaysSound == Spec => []StampsSound
  BY Invariant, InvFacts, PTL
=============================================================================

----------------------------- MODULE BlobStore ------------------------------
(***************************************************************************)
(* The content store of rv-store: several processes, each with several     *)
(* threads, publish blobs by content hash, verify stored ones and write    *)
(* index rows that name them, on top of the batches of module Durability.  *)
(* A process may be killed, and the machine may lose power, at any step.   *)
(*                                                                         *)
(* An operation is                                                         *)
(*   put     put_bytes: reuse a stored blob that hashes to its id, else    *)
(*           publish one                                                   *)
(*   stage   publish_staged with a coordinate: publish, sync, write a row  *)
(*   verify  stored_blob / check_pin_unless_unchanged: hash a stored blob  *)
(*           unless its checked stamp says it is unchanged                 *)
(*   rows    add_artifacts for a blob this process put or verified         *)
(***************************************************************************)
EXTENDS Durability

CONSTANTS
    Offered,      \* the operations threads start, of put, stage, verify and rows
    Free          \* no thread holds the store lock

ASSUME StoreAssumption == Free \notin Thread /\ Blob # {} /\ Offered \subseteq Ops

VARIABLES
    lock,         \* the thread that holds the store lock
    held,         \* blobs each process put or verified, and so may name in a row
    index,        \* index.db as every process reads it
    indexDisk     \* the states of index.db a power loss may leave

storeVars == <<lock, held, index, indexDisk>>
vars == <<fsVars, queueVars, ioErrors, pc, my, storeVars>>

(* rows: blobs some row names; checked: blobs' `checked_stamp`. *)
Index == [rows : SUBSET Blob, checked : [Blob -> File]]

TypeOK ==
    /\ FsTypeOK
    /\ QueueTypeOK
    /\ lock \in Thread \cup {Free}
    /\ held \in [Proc -> SUBSET Blob]
    /\ index \in Index
    /\ indexDisk \in SUBSET Index

AnyBlob == CHOOSE b \in Blob : TRUE

(* The locals of a thread between operations. *)
Idle == Fresh("none", "none", AnyBlob)

Init ==
    /\ FsInit
    /\ QueueInit
    /\ pc = [t \in Thread |-> "idle"]
    /\ my = [t \in Thread |-> Idle]
    /\ lock = Free
    /\ held = [p \in Proc |-> {}]
    /\ index = [rows |-> {}, checked |-> [b \in Blob |-> NoFile]]
    /\ indexDisk = {index}

(***************************************************************************)
(* One commit.  index.db is in WAL mode with synchronous=NORMAL: a commit  *)
(* is on disk only after the next checkpoint, and a power loss leaves the  *)
(* result of some prefix of the commits since then.                        *)
(***************************************************************************)
Commit(next) ==
    /\ index' = next
    /\ indexDisk' = indexDisk \cup {next}

(* The thread's operation is over. *)
Return(t) ==
    /\ pc' = [pc EXCEPT ![t] = "idle"]
    /\ my' = [my EXCEPT ![t] = Idle]

Hold(t) == held' = [held EXCEPT ![ProcOf[t]] = @ \cup {my[t].blob}]

GoTo(t, label) ==
    /\ pc' = [pc EXCEPT ![t] = label]
    /\ UNCHANGED my

Register(t, call, created) ==
    /\ pc' = [pc EXCEPT ![t] = "regStat"]
    /\ my' = [my EXCEPT ![t] = [@ EXCEPT !.call = call, !.created = created, !.fd = NoFile]]

-----------------------------------------------------------------------------
(* Starting an operation *)

PutBytes(t, b) ==
    /\ "put" \in Offered
    /\ pc[t] = "idle"
    /\ pc' = [pc EXCEPT ![t] = "open"]
    /\ my' = [my EXCEPT ![t] = Fresh("put", "none", b)]
    /\ UNCHANGED <<fsVars, queueVars, ioErrors, storeVars>>

VerifyBlob(t, b) ==
    /\ "verify" \in Offered
    /\ pc[t] = "idle"
    /\ pc' = [pc EXCEPT ![t] = "open"]
    /\ my' = [my EXCEPT ![t] = Fresh("verify", "none", b)]
    /\ UNCHANGED <<fsVars, queueVars, ioErrors, storeVars>>

(* Bytes that fail their checks are dropped and nothing is published. *)
PublishStaged(t, b) ==
    /\ "stage" \in Offered
    /\ pc[t] = "idle"
    /\ pc' = [pc EXCEPT ![t] = "lock"]
    /\ my' = [my EXCEPT ![t] = Fresh("stage", "publish", b)]
    /\ UNCHANGED <<fsVars, queueVars, ioErrors, storeVars>>

(* Everything registered so far is synced too; a missing file is not queued. *)
AddArtifacts(t, b) ==
    /\ "rows" \in Offered
    /\ pc[t] = "idle"
    /\ b \in held[ProcOf[t]]
    /\ pc' = [pc EXCEPT ![t] = IF dir[b] = NoFile THEN "sync" ELSE "regStat"]
    /\ my' = [my EXCEPT ![t] = [Fresh("rows", "rows", b) EXCEPT
                                  !.ticket = RegisteredSoFar(ProcOf[t])]]
    /\ UNCHANGED <<fsVars, queueVars, ioErrors, storeVars>>

-----------------------------------------------------------------------------
(* stored_blob *)

OpenBlob(t) ==
    /\ pc[t] = "open"
    /\ \/ /\ dir[my[t].blob] # NoFile
          /\ pc' = [pc EXCEPT ![t] = "check"]
          /\ my' = [my EXCEPT ![t].fd = dir[my[t].blob]]
       \/ /\ dir[my[t].blob] = NoFile
          /\ my[t].op = "put"
          /\ pc' = [pc EXCEPT ![t] = "lock"]
          /\ my' = [my EXCEPT ![t].call = "publish"]
       \/ /\ dir[my[t].blob] = NoFile
          /\ my[t].op = "verify"
          /\ Return(t)
    /\ UNCHANGED <<fsVars, queueVars, ioErrors, storeVars>>

(* The checked stamp says the open file is unchanged since it hashed to its id. *)
Unchanged(t) == index.checked[my[t].blob] = my[t].fd

(* What `put` and `verify` do once the blob is known intact. *)
Intact(t) ==
    \/ /\ my[t].op = "put"
       /\ Register(t, "found", FALSE)
       /\ UNCHANGED held
    \/ /\ my[t].op = "verify"
       /\ Hold(t)
       /\ Return(t)

CheckUnchanged(t) ==
    /\ pc[t] = "check"
    /\ Unchanged(t)
    /\ Intact(t)
    /\ UNCHANGED <<fsVars, queueVars, ioErrors, lock, index, indexDisk>>

(* The file is hashed, and synced before its check is recorded. *)
CheckHash(t) ==
    /\ pc[t] = "check"
    /\ ~Unchanged(t)
    /\ \/ /\ my[t].fd \in good
          /\ IsDurable(ProcOf[t], my[t].blob, my[t].fd)
          /\ GoTo(t, "stamp")
       \/ /\ my[t].fd \in good
          /\ ~IsDurable(ProcOf[t], my[t].blob, my[t].fd)
          /\ pc' = [pc EXCEPT ![t] = "regStat"]
          /\ my' = [my EXCEPT ![t].call = "check"]
       \/ /\ my[t].fd \notin good
          /\ my[t].op = "put"
          /\ pc' = [pc EXCEPT ![t] = "lock"]
          /\ my' = [my EXCEPT ![t] = [@ EXCEPT !.call = "publish", !.fd = NoFile]]
       \/ /\ my[t].fd \notin good
          /\ my[t].op = "verify"
          /\ Return(t)
    /\ UNCHANGED <<fsVars, queueVars, ioErrors, storeVars>>

(* `set_checked_stamp`, without the store lock. *)
RecordCheck(t) ==
    /\ pc[t] = "stamp"
    /\ Commit([index EXCEPT !.checked[my[t].blob] = my[t].fd])
    /\ Intact(t)
    /\ UNCHANGED <<fsVars, queueVars, ioErrors, lock>>

-----------------------------------------------------------------------------
(* publish_blob and persist_blob *)

AcquireStoreLock(t) ==
    /\ lock = Free
    /\ \/ pc[t] = "lock" /\ GoTo(t, "link")
       \/ pc[t] = "rowLock" /\ GoTo(t, "rowCheck")
    /\ lock' = t
    /\ UNCHANGED <<fsVars, queueVars, ioErrors, held, index, indexDisk>>

(* `LockTimeout`: the operation fails. *)
StoreLockTimeout(t) ==
    /\ lock # Free
    /\ pc[t] \in {"lock", "rowLock"}
    /\ Return(t)
    /\ UNCHANGED <<fsVars, queueVars, ioErrors, storeVars>>

Published(t, created) ==
    /\ Register(t, "publish", created)
    /\ lock' = Free

PersistLink(t) ==
    /\ pc[t] = "link"
    /\ \/ /\ \E i \in Ino : LinkFile(my[t].blob, i)
          /\ Published(t, TRUE)
       \/ /\ dir[my[t].blob] # NoFile
          /\ GoTo(t, "verify")
          /\ UNCHANGED <<fsVars, lock>>
    /\ UNCHANGED <<queueVars, ioErrors, held, index, indexDisk>>

PersistFails(t) ==
    /\ Return(t)
    /\ lock' = Free

(* Mutant: a found file is replaced without a look at its bytes. *)
PersistVerifyNothing(t) ==
    /\ pc[t] = "verify"
    /\ GoTo(t, "remove")
    /\ UNCHANGED <<fsVars, queueVars, ioErrors, storeVars>>

(* A file found at the path is reused if it hashes to the id, replaced once if not. *)
PersistVerify(t) ==
    LET found == dir[my[t].blob]
    IN  /\ pc[t] = "verify"
        /\ \/ /\ found \in good
              /\ Published(t, FALSE)
           \/ /\ found \notin good
              /\ my[t].retry
              /\ PersistFails(t)
           \/ /\ found = NoFile
              /\ ~my[t].retry
              /\ pc' = [pc EXCEPT ![t] = "link"]
              /\ my' = [my EXCEPT ![t].retry = TRUE]
              /\ UNCHANGED lock
           \/ /\ found \notin good \cup {NoFile}
              /\ ~my[t].retry
              /\ GoTo(t, "remove")
              /\ UNCHANGED lock
        /\ UNCHANGED <<fsVars, queueVars, ioErrors, held, index, indexDisk>>

PersistRemove(t) ==
    /\ pc[t] = "remove"
    /\ \/ /\ dir[my[t].blob] # NoFile
          /\ UnlinkFile(my[t].blob)
          /\ pc' = [pc EXCEPT ![t] = "link"]
          /\ my' = [my EXCEPT ![t].retry = TRUE]
          /\ UNCHANGED lock
       \/ /\ dir[my[t].blob] = NoFile
          /\ PersistFails(t)
          /\ UNCHANGED fsVars
    /\ UNCHANGED <<queueVars, ioErrors, held, index, indexDisk>>

-----------------------------------------------------------------------------
(* register, and what its callers do next *)

(* These calls of `register` are followed by `make_durable`. *)
CallerSyncs(t) == my[t].call = "check" \/ my[t].op \in {"stage", "rows"}

(* Mutant: the new count is ignored. *)
RaiseNot(old, new) == old

Raise(old, new) == IF old < new THEN new ELSE old

(* `register` queued the blob, or returned the ticket it has. *)
Registered(t, syncs) ==
    \/ /\ syncs
       /\ pc' = [pc EXCEPT ![t] = "sync"]
       /\ my' = [my EXCEPT ![t] = [@ EXCEPT !.ticket = Raise(my[t].ticket, Ticket(t)), !.seen = NoFile]]
       /\ UNCHANGED held
    \/ /\ ~syncs
       /\ Return(t)
       /\ Hold(t)

RegisterQueue(t) ==
    /\ pc[t] = "regQueue"
    /\ \/ RegisterKnown(t) /\ Registered(t, CallerSyncs(t))
       \/ RegisterNew(t) /\ Registered(t, CallerSyncs(t) \/ Full(ProcOf[t]))
    /\ UNCHANGED <<fsVars, ioErrors, lock, index, indexDisk>>

SyncOk(t) ==
    /\ SyncReturnsOk(t)
    /\ \/ my[t].call = "check" /\ GoTo(t, "stamp") /\ UNCHANGED held
       \/ my[t].op \in {"stage", "rows"} /\ GoTo(t, "rowLock") /\ UNCHANGED held
       \/ ~CallerSyncs(t) /\ Return(t) /\ Hold(t)
    /\ UNCHANGED <<fsVars, queueVars, ioErrors, lock, index, indexDisk>>

(* put_bytes writes the blob when the check of the stored one fails. *)
SyncErr(t) ==
    /\ SyncReturnsErr(t)
    /\ \/ /\ my[t].op = "put" /\ my[t].call = "check"
          /\ pc' = [pc EXCEPT ![t] = "lock"]
          /\ my' = [my EXCEPT ![t] = Fresh("put", "publish", my[t].blob)]
       \/ ~(my[t].op = "put" /\ my[t].call = "check") /\ Return(t)
    /\ UNCHANGED <<fsVars, queueVars, ioErrors, storeVars>>

-----------------------------------------------------------------------------
(* The row of add_artifacts and publish_staged, under the store lock *)

RowCheck(t) ==
    /\ pc[t] = "rowCheck"
    /\ \/ dir[my[t].blob] # NoFile /\ GoTo(t, "rowWrite") /\ UNCHANGED lock
       \/ dir[my[t].blob] = NoFile /\ Return(t) /\ lock' = Free
    /\ UNCHANGED <<fsVars, queueVars, ioErrors, held, index, indexDisk>>

(* `record_hashed_stamp`: the file this process wrote and synced is still there. *)
CheckedAfterRow(t) ==
    LET b == my[t].blob
        i == HashedStamp(ProcOf[t], b)
    IN  IF i # NoFile /\ i = dir[b] THEN [index.checked EXCEPT ![b] = i] ELSE index.checked

RowWrite(t) ==
    /\ pc[t] = "rowWrite"
    /\ Commit([rows |-> index.rows \cup {my[t].blob}, checked |-> CheckedAfterRow(t)])
    /\ lock' = Free
    /\ Hold(t)
    /\ Return(t)
    /\ UNCHANGED <<fsVars, queueVars, ioErrors>>

-----------------------------------------------------------------------------
(* The environment *)

(* SQLite checkpoints the WAL. *)
Checkpoint ==
    /\ indexDisk # {index}
    /\ indexDisk' = {index}
    /\ UNCHANGED <<fsVars, queueVars, ioErrors, pc, my, lock, held, index>>

Forget(procs) ==
    /\ ForgetQueues(procs)
    /\ pc' = [t \in Thread |-> IF ProcOf[t] \in procs THEN "idle" ELSE pc[t]]
    /\ my' = [t \in Thread |-> IF ProcOf[t] \in procs THEN Idle ELSE my[t]]
    /\ held' = [p \in Proc |-> IF p \in procs THEN {} ELSE held[p]]
    /\ UNCHANGED ioErrors

(* One process is killed; a new one starts in its place. *)
Kill(p) ==
    /\ Forget({p})
    /\ lock' = IF lock # Free /\ ProcOf[lock] = p THEN Free ELSE lock
    /\ UNCHANGED <<fsVars, index, indexDisk>>

PowerLoss ==
    /\ FsPowerLoss
    /\ Forget(Proc)
    /\ lock' = Free
    /\ index' \in indexDisk
    /\ indexDisk' = {index'}

-----------------------------------------------------------------------------
Start(t) == \E b \in Blob :
    PutBytes(t, b) \/ VerifyBlob(t, b) \/ PublishStaged(t, b) \/ AddArtifacts(t, b)

(* The steps of `make_durable` leave the store's own variables alone. *)
InSync(t) == SyncStep(t) /\ UNCHANGED storeVars

Step(t) ==
    \/ OpenBlob(t) \/ CheckUnchanged(t) \/ CheckHash(t) \/ RecordCheck(t)
    \/ AcquireStoreLock(t) \/ PersistLink(t) \/ PersistVerify(t) \/ PersistRemove(t)
    \/ RegisterStat(t) /\ UNCHANGED storeVars
    \/ RegisterQueue(t)
    \/ InSync(t) \/ SyncOk(t) \/ SyncErr(t)
    \/ RowCheck(t) \/ RowWrite(t)

Next ==
    \/ \E t \in Thread :
        \/ Start(t)
        \/ Step(t)
        \/ StoreLockTimeout(t)
        \/ BatchError(t) /\ UNCHANGED storeVars
    \/ \E p \in Proc : Kill(p)
    \/ Checkpoint
    \/ PowerLoss

Spec == Init /\ [][Next]_vars

(* Threads in `make_durable` keep running; nothing else is assumed. *)
FairSpec == Spec /\ \A t \in Thread : WF_vars(InSync(t) \/ SyncOk(t) \/ SyncErr(t))

-----------------------------------------------------------------------------
(* Properties *)

(***************************************************************************)
(* Until a sync fails somewhere, every blob an index row names is stored   *)
(* and hashes to its id, in particular after a power loss.  is_indexed     *)
(* relies on it: it does not hash the file of a row it finds.              *)
(***************************************************************************)
RowsIntact == ioErrors = 0 => \A b \in index.rows : dir[b] \in good

(***************************************************************************)
(* Until a sync fails somewhere, a file whose identity is the recorded     *)
(* checked stamp has the bytes its name promises.  stored_blob returns     *)
(* Intact for it without reading it.                                       *)
(***************************************************************************)
StampsSound ==
    ioErrors = 0 => \A b \in Blob :
        index.checked[b] = dir[b] /\ dir[b] # NoFile => dir[b] \in good

(***************************************************************************)
(* Two threads of a process never run batches at once: the second would    *)
(* set State.synced while files of the first are still being synced.       *)
(***************************************************************************)
OneBatch ==
    \A t, u \in Thread :
        ProcOf[t] = ProcOf[u] /\ pc[t] \in BatchLabels /\ pc[u] \in BatchLabels => t = u

(***************************************************************************)
(* A power loss never loses or tears a blob that a row it leaves names     *)
(* (durability.rs, first crash-safety fact).                               *)
(***************************************************************************)
CrashKeepsRowBlobs ==
    [][PowerLoss => \A b \in index'.rows : dir[b] \in good => dir'[b] \in good']_vars

(***************************************************************************)
(* Only a power loss takes away a stored blob whose bytes are right        *)
(* (lookup_artifact_locked: raeva removes only what fails verification).   *)
(***************************************************************************)
OnlyCorruptRemoved ==
    [][PowerLoss \/ \A b \in Blob : dir[b] \in good => dir'[b] = dir[b]]_vars

(***************************************************************************)
(* Every call of make_durable returns, whichever thread runs the batches   *)
(* and whether or not one of them fails.                                   *)
(***************************************************************************)
SyncReturns == \A t \in Thread : pc[t] \in SyncLabels ~> pc[t] \notin SyncLabels

(* The store implements the promise of module BlobIndex. *)
Promise == INSTANCE BlobIndex WITH
    rows <- index.rows, intact <- {b \in Blob : dir[b] \in good}

(***************************************************************************)
(* While no sync fails the store behaves as the abstract index: rows name  *)
(* only intact blobs when they are written, and rows and blobs go together *)
(* in a power loss.                                                        *)
(***************************************************************************)
ImplementsPromise == Promise!Spec
=============================================================================

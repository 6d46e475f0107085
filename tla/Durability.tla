----------------------------- MODULE Durability -----------------------------
(***************************************************************************)
(* rv-store/src/durability.rs: the queue of blobs a process has yet to     *)
(* sync, and the batches that sync them.  Every process has one queue,     *)
(* shared by its threads.  `register` and `make_durable` are split where   *)
(* the code reads the file before it takes the mutex, and where it         *)
(* releases the mutex to run a batch.                                      *)
(***************************************************************************)
EXTENDS BlobFs

CONSTANTS
    Proc,          \* raeva processes that share the store
    Thread,        \* their blocking threads
    ProcOf,        \* the process a thread belongs to
    MaxPending,    \* MAX_PENDING: the most blobs that wait for a sync
    SyncfsMin,     \* SYNCFS_MIN_PATHS
    MaxTicket,     \* bound: registrations of one process
    MaxIoErrors    \* bound: batches that fail

ASSUME DurabilityAssumption ==
    /\ ProcOf \in [Thread -> Proc]
    /\ MaxPending \in Nat \ {0}
    /\ SyncfsMin \in Nat
    /\ MaxTicket \in Nat
    /\ MaxIoErrors \in Nat

VARIABLES
    files,         \* State.files: paths to sync, registered after the last batch began
    mine,          \* those of them this process published (Pending.created)
    taken,         \* State.registered when the last batch began
    registered,    \* State.registered
    synced,        \* State.synced
    stamps,        \* State.stamps: path -> (file, ticket, hashed)
    syncing,       \* processes whose State.syncing is set
    failed,        \* processes whose State.failed is set
    ioErrors,      \* batches that failed so far, in any process
    pc,            \* what each thread does next
    my             \* each thread's local variables

queueVars == <<files, mine, taken, registered, synced, stamps, syncing, failed>>

Stamp == [ino : File, ticket : Nat, hashed : BOOLEAN]

NoStamp == [ino |-> NoFile, ticket |-> 0, hashed |-> FALSE]

Ops == {"none", "put", "stage", "verify", "rows"}

(* Which of its calls of `register` a thread is in. *)
Calls == {"none", "check", "found", "publish", "rows"}

SyncLabels == {"sync", "waiting", "syncfs", "fsync", "unlink"}

BatchLabels == {"syncfs", "fsync", "unlink"}

Labels == SyncLabels \cup
    {"idle", "open", "check", "stamp", "regStat", "regQueue", "lock", "link",
     "verify", "remove", "rowLock", "rowCheck", "rowWrite"}

Locals == [op : Ops, call : Calls, blob : Blob, fd : File, retry : BOOLEAN,
           created : BOOLEAN, seen : File, ticket : Nat, upto : Nat,
           toSync : SUBSET Blob, toSyncDirs : SUBSET Blob, toUnlink : SUBSET Blob]

Fresh(op, call, b) ==
    [op |-> op, call |-> call, blob |-> b, fd |-> NoFile, retry |-> FALSE,
     created |-> FALSE, seen |-> NoFile, ticket |-> 0, upto |-> 0,
     toSync |-> {}, toSyncDirs |-> {}, toUnlink |-> {}]

QueueTypeOK ==
    /\ files \in [Proc -> SUBSET Blob]
    /\ mine \in [Proc -> SUBSET Blob]
    /\ taken \in [Proc -> Nat]
    /\ registered \in [Proc -> Nat]
    /\ synced \in [Proc -> Nat]
    /\ stamps \in [Proc -> [Blob -> Stamp]]
    /\ syncing \in SUBSET Proc
    /\ failed \in SUBSET Proc
    /\ ioErrors \in Nat
    /\ pc \in [Thread -> Labels]
    /\ my \in [Thread -> Locals]

QueueInit ==
    /\ files = [p \in Proc |-> {}]
    /\ mine = [p \in Proc |-> {}]
    /\ taken = [p \in Proc |-> 0]
    /\ registered = [p \in Proc |-> 0]
    /\ synced = [p \in Proc |-> 0]
    /\ stamps = [p \in Proc |-> [b \in Blob |-> NoStamp]]
    /\ syncing = {}
    /\ failed = {}
    /\ ioErrors = 0

(* A new process starts with an empty queue. *)
ForgetQueues(procs) ==
    /\ files' = [p \in Proc |-> IF p \in procs THEN {} ELSE files[p]]
    /\ mine' = [p \in Proc |-> IF p \in procs THEN {} ELSE mine[p]]
    /\ taken' = [p \in Proc |-> IF p \in procs THEN 0 ELSE taken[p]]
    /\ registered' = [p \in Proc |-> IF p \in procs THEN 0 ELSE registered[p]]
    /\ synced' = [p \in Proc |-> IF p \in procs THEN 0 ELSE synced[p]]
    /\ stamps' = [p \in Proc |-> IF p \in procs THEN [b \in Blob |-> NoStamp] ELSE stamps[p]]
    /\ syncing' = syncing \ procs
    /\ failed' = failed \ procs

-----------------------------------------------------------------------------
(* register *)

(* The file's identity is read before the mutex is taken. *)
RegisterStat(t) ==
    /\ pc[t] = "regStat"
    /\ pc' = [pc EXCEPT ![t] = "regQueue"]
    /\ my' = [my EXCEPT ![t].seen = dir[my[t].blob]]
    /\ UNCHANGED <<fsVars, queueVars, ioErrors>>

(* A found file that is unchanged since it was queued keeps its ticket. *)
Known(t) ==
    LET p == ProcOf[t]
        b == my[t].blob
    IN  /\ ~my[t].created
        /\ my[t].seen # NoFile
        /\ stamps[p][b].ino = my[t].seen

(* `files.len()` after one more registration reaches the limit. *)
Full(p) == registered[p] + 1 - taken[p] >= MaxPending

(* Mutant: the count before this registration. *)
TicketBefore(t) ==
    IF Known(t) THEN stamps[ProcOf[t]][my[t].blob].ticket ELSE registered[ProcOf[t]]

(* What `register` returns. *)
Ticket(t) ==
    IF Known(t) THEN stamps[ProcOf[t]][my[t].blob].ticket ELSE registered[ProcOf[t]] + 1

RegisterKnown(t) == Known(t) /\ UNCHANGED queueVars

RegisterNew(t) ==
    LET p == ProcOf[t]
        b == my[t].blob
        seen == my[t].seen
    IN  /\ ~Known(t)
        /\ registered[p] < MaxTicket
        /\ files' = [files EXCEPT ![p] = @ \cup {b}]
        /\ mine' = [mine EXCEPT ![p] = IF my[t].created THEN @ \cup {b} ELSE @]
        /\ registered' = [registered EXCEPT ![p] = Ticket(t)]
        /\ stamps' = IF seen = NoFile THEN stamps
                     ELSE [stamps EXCEPT ![p][b] =
                             [ino |-> seen, ticket |-> Ticket(t),
                              hashed |-> my[t].created \/ (@.hashed /\ @.ino = seen)]]
        /\ UNCHANGED <<taken, synced, syncing, failed>>

(* Mutant: a file that is only queued counts as durable. *)
IsDurableQueued(p, b, i) ==
    /\ p \notin failed
    /\ stamps[p][b].ino = i

(* `is_durable`: this process synced the file known by that identity. *)
IsDurable(p, b, i) ==
    /\ p \notin failed
    /\ stamps[p][b].ino = i
    /\ stamps[p][b].ticket <= synced[p]

(* `hashed_stamp`: the file this process wrote and synced, else NoFile. *)
HashedStamp(p, b) ==
    IF p \notin failed /\ stamps[p][b].hashed /\ stamps[p][b].ticket <= synced[p]
    THEN stamps[p][b].ino
    ELSE NoFile

(* `registered`: the count that covers everything registered so far. *)
RegisteredSoFar(p) == registered[p]

-----------------------------------------------------------------------------
(* make_durable *)

(* Another thread runs a batch: wait for it to end. *)
AwaitBatch(t) ==
    /\ pc[t] = "sync"
    /\ ProcOf[t] \notin failed
    /\ synced[ProcOf[t]] < my[t].ticket
    /\ ProcOf[t] \in syncing
    /\ pc' = [pc EXCEPT ![t] = "waiting"]
    /\ UNCHANGED <<fsVars, queueVars, ioErrors, my>>

(* `files.len() + dirs.len()`: a registration queued twice counts twice; a   *)
(* blob has two shard directories of its own, and all share the blob root.   *)
BatchPaths(p) == (registered[p] - taken[p]) + 2 * Cardinality(files[p]) + 1

(* Mutant: a second thread begins a batch while one runs. *)
MayBeginAlways(p) == TRUE

MayBegin(p) == p \notin syncing

BeginBatch(t) ==
    LET p == ProcOf[t]
    IN  /\ pc[t] = "sync"
        /\ p \notin failed
        /\ synced[p] < my[t].ticket
        /\ MayBegin(p)
        /\ syncing' = syncing \cup {p}
        /\ files' = [files EXCEPT ![p] = {}]
        /\ mine' = [mine EXCEPT ![p] = {}]
        /\ taken' = [taken EXCEPT ![p] = registered[p]]
        /\ my' = [my EXCEPT ![t] = [@ EXCEPT !.upto = registered[p], !.toSync = files[p],
                                     !.toSyncDirs = files[p], !.toUnlink = mine[p]]]
        /\ pc' = [pc EXCEPT ![t] =
                    IF BatchPaths(p) >= SyncfsMin THEN "syncfs" ELSE "fsync"]
        /\ UNCHANGED <<fsVars, registered, synced, stamps, failed, ioErrors>>

(* A large batch is one `syncfs`. *)
BatchSyncfs(t) ==
    /\ pc[t] = "syncfs"
    /\ SyncFilesystem
    /\ pc' = [pc EXCEPT ![t] = "fsync"]
    /\ my' = [my EXCEPT ![t] = [@ EXCEPT !.toSync = {}, !.toSyncDirs = {}]]
    /\ UNCHANGED <<queueVars, ioErrors>>

(* Else the files, in any order, *)
BatchSyncFile(t) ==
    /\ pc[t] = "fsync"
    /\ \E b \in my[t].toSync :
        /\ SyncData(b)
        /\ my' = [my EXCEPT ![t].toSync = my[t].toSync \ {b}]
    /\ UNCHANGED <<queueVars, ioErrors, pc>>

(* then the directories. *)
BatchSyncDir(t) ==
    /\ pc[t] = "fsync"
    /\ my[t].toSync = {}
    /\ \E b \in my[t].toSyncDirs :
        /\ SyncDir(b)
        /\ my' = [my EXCEPT ![t].toSyncDirs = my[t].toSyncDirs \ {b}]
    /\ UNCHANGED <<queueVars, ioErrors, pc>>

BatchError(t) ==
    /\ \/ pc[t] = "syncfs"
       \/ pc[t] = "fsync" /\ my[t].toSync \cup my[t].toSyncDirs # {}
    /\ ioErrors < MaxIoErrors
    /\ ioErrors' = ioErrors + 1
    /\ WritebackError
    /\ pc' = [pc EXCEPT ![t] = "unlink"]
    /\ UNCHANGED <<queueVars, my>>

(* A failed batch unlinks what this process published, without the store lock. *)
BatchUnlink(t) ==
    /\ pc[t] = "unlink"
    /\ \E b \in my[t].toUnlink :
        /\ UnlinkFile(b)
        /\ my' = [my EXCEPT ![t].toUnlink = my[t].toUnlink \ {b}]
    /\ UNCHANGED <<queueVars, ioErrors, pc>>

(* Mutant: nobody is woken. *)
WokenNone(t) == [pc EXCEPT ![t] = "sync"]

(* `notify_all`: every thread of the process that waits looks again. *)
Woken(t) ==
    [u \in Thread |-> IF u = t \/ (ProcOf[u] = ProcOf[t] /\ pc[u] = "waiting")
                      THEN "sync" ELSE pc[u]]

(* What was registered when the batch began is durable when it ends. *)
SyncedNow(t) == my[t].upto

EndBatch(t) ==
    LET p == ProcOf[t]
    IN  /\ \/ /\ pc[t] = "fsync"
              /\ my[t].toSync = {}
              /\ my[t].toSyncDirs = {}
              /\ synced' = [synced EXCEPT ![p] = SyncedNow(t)]
              /\ UNCHANGED failed
           \/ /\ pc[t] = "unlink"
              /\ my[t].toUnlink = {}
              /\ failed' = failed \cup {p}
              /\ UNCHANGED synced
        /\ syncing' = syncing \ {p}
        /\ pc' = Woken(t)
        /\ my' = [my EXCEPT ![t] = [@ EXCEPT !.upto = 0, !.toUnlink = {}, !.toSync = {},
                                     !.toSyncDirs = {}]]
        /\ UNCHANGED <<fsVars, files, mine, taken, registered, stamps, ioErrors>>

(* What a thread in `make_durable` does until it returns. *)
SyncStep(t) ==
    \/ AwaitBatch(t)
    \/ BeginBatch(t)
    \/ BatchSyncfs(t)
    \/ BatchSyncFile(t)
    \/ BatchSyncDir(t)
    \/ BatchUnlink(t)
    \/ EndBatch(t)

(* Mutant: the ticket is not compared. *)
SyncReturnsAtOnce(t) ==
    /\ pc[t] = "sync"
    /\ ProcOf[t] \notin failed

(* `make_durable` returns Ok, or the error of a failed batch. *)
SyncReturnsOk(t) ==
    /\ pc[t] = "sync"
    /\ ProcOf[t] \notin failed
    /\ my[t].ticket <= synced[ProcOf[t]]

SyncReturnsErr(t) ==
    /\ pc[t] = "sync"
    /\ ProcOf[t] \in failed
=============================================================================

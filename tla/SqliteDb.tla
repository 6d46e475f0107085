------------------------------ MODULE SqliteDb ------------------------------
(***************************************************************************)
(* rv-store/src/sqlite.rs: processes that share a SQLite file, the store   *)
(* index or the metadata cache, and the protocol by which one that finds   *)
(* the file damaged deletes it and starts a new one while nobody has it    *)
(* open.                                                                   *)
(*   - The bootstrap lock (the store lock) is held while a process opens   *)
(*     or recreates the file, and around an operation of run_locked.       *)
(*   - The .users file carries a shared lock for every process with the    *)
(*     file open, an exclusive one for the process that deletes it, and    *)
(*     the epoch: how often the file was recreated.                        *)
(*   - In a process, an operation holds the read guard of the Db's state   *)
(*     and a recreate the write guard.                                     *)
(***************************************************************************)
EXTENDS Naturals, FiniteSets

CONSTANTS
    Proc, Thread, ProcOf,
    Gen,            \* the schema generation each process supports
    MaxGen,         \* the latest generation
    None,           \* no thread, no process
    MaxTries,       \* how often a recreate tries before PEER_WAIT is over
    MaxDamage,      \* how often the file is damaged
    MaxFaults       \* how often a process is killed or an I/O call fails

ASSUME SqliteDbAssumption ==
    /\ ProcOf \in [Thread -> Proc]
    /\ MaxGen \in Nat \ {0}
    /\ Gen \in [Proc -> 1..MaxGen]
    /\ None \notin Proc \cup Thread
    /\ MaxTries \in Nat /\ MaxDamage \in Nat /\ MaxFaults \in Nat

VARIABLES
    file,           \* the file at the path: which one, its generation, its damage
    made,           \* how many files were created there
    epoch,          \* the number in .users
    boot,           \* the thread that holds the bootstrap lock
    excl,           \* the process that holds .users exclusively
    shared,         \* the processes that hold .users shared
    db,             \* the Db of each process
    my,             \* the state of each thread
    damages, faults

dbVars == <<file, made, epoch>>
lockVars == <<boot, excl, shared>>
budgets == <<damages, faults>>
vars == <<dbVars, lockVars, db, my, budgets>>

Absent == 0

(* "deep" is damage past the schema, which only some queries meet; "header" *)
(* is a file that is not SQLite, which every reader notices.                *)
Damage == {"none", "deep", "header"}

(***************************************************************************)
(* open: the Db is in the registry; pool: it has its pool; conns: the      *)
(* files its connections have open; linger: a connection outlived close;   *)
(* wrote: the files it committed rows to.                                  *)
(***************************************************************************)
NoDb == [open |-> FALSE, pool |-> FALSE, conns |-> {}, linger |-> FALSE, epoch |-> 0,
         generation |-> 0, recreated |-> FALSE, readers |-> {}, writer |-> None, wrote |-> {}]

Idle == [pc |-> "idle", mode |-> "run", via |-> "enable", locked |-> FALSE,
         second |-> FALSE, seen |-> 0, tries |-> 0, inc |-> Absent, bad |-> Absent]

Labels == {"idle", "boot", "enable", "delete", "create", "bump", "share", "check", "setup",
           "read", "lock", "checkout", "op", "recreate", "rboot", "reset"}

DbRecord ==
    [open : BOOLEAN, pool : BOOLEAN, conns : SUBSET Nat, linger : BOOLEAN, epoch : Nat,
     generation : Nat, recreated : BOOLEAN, readers : SUBSET Thread,
     writer : Thread \cup {None}, wrote : SUBSET Nat]

ThreadRecord ==
    [pc : Labels, mode : {"open", "run"}, via : {"enable", "reset"}, locked : BOOLEAN,
     second : BOOLEAN, seen : Nat, tries : 0..MaxTries, inc : Nat, bad : Nat]

TypeOK ==
    /\ file \in [inc : Nat, gen : 0..MaxGen, damage : Damage]
    /\ made \in Nat /\ epoch \in Nat
    /\ boot \in Thread \cup {None}
    /\ excl \in Proc \cup {None}
    /\ shared \in SUBSET Proc
    /\ db \in [Proc -> DbRecord]
    /\ my \in [Thread -> ThreadRecord]
    /\ damages \in 0..MaxDamage /\ faults \in 0..MaxFaults

Init ==
    /\ file = [inc |-> Absent, gen |-> 0, damage |-> "none"]
    /\ made = 0 /\ epoch = 0
    /\ boot = None /\ excl = None /\ shared = {}
    /\ db = [p \in Proc |-> NoDb]
    /\ my = [t \in Thread |-> Idle]
    /\ damages = 0 /\ faults = 0

-----------------------------------------------------------------------------
At(t, label) == my[t].pc = label
GoTo(t, label) == my' = [my EXCEPT ![t].pc = label]

NewFile == [inc |-> made + 1, gen |-> 0, damage |-> "none"]

(* A connection to the path creates the file if there is none. *)
OpenPath ==
    /\ file' = IF file.inc = Absent THEN NewFile ELSE file
    /\ made' = IF file.inc = Absent THEN made + 1 ELSE made

Newer(p) == file.gen > Gen[p]

(* What open_wal reports: the header, then the generation. *)
WalFails(p) == file.inc # Absent /\ (file.damage = "header" \/ Newer(p))

(***************************************************************************)
(* An open or a recreate ends in an error.  The locks are dropped; open    *)
(* drops the Db with them, a recreate keeps the Db, its pool only if       *)
(* keepPool.                                                               *)
(***************************************************************************)
GiveUp(t, keepPool) ==
    LET p == ProcOf[t]
    IN  /\ boot' = None
        /\ excl' = IF excl = p THEN None ELSE excl
        /\ my' = [my EXCEPT ![t] = Idle]
        /\ \/ /\ my[t].mode = "open"
              /\ db' = [db EXCEPT ![p] = [NoDb EXCEPT !.wrote = db[p].wrote]]
              /\ shared' = shared \ {p}
           \/ /\ my[t].mode = "run"
              /\ db' = [db EXCEPT ![p] = [@ EXCEPT !.writer = None,
                                          !.pool = keepPool,
                                          !.conns = IF keepPool THEN db[p].conns ELSE {}]]
              /\ shared' = IF keepPool THEN shared ELSE shared \ {p}

-----------------------------------------------------------------------------
(* open and enable_wal *)

OpenBegin(t) ==
    /\ At(t, "idle")
    /\ my' = [my EXCEPT ![t] = [Idle EXCEPT !.pc = "boot", !.mode = "open"]]
    /\ UNCHANGED <<dbVars, lockVars, db, budgets>>

(* The bootstrap lock; a Db that this process has open is shared. *)
OpenLocked(t) ==
    /\ At(t, "boot")
    /\ boot = None
    /\ \/ db[ProcOf[t]].open /\ my' = [my EXCEPT ![t] = Idle] /\ UNCHANGED boot
       \/ ~db[ProcOf[t]].open /\ GoTo(t, "enable") /\ boot' = t
    /\ UNCHANGED <<dbVars, excl, shared, db, budgets>>

(* Join the users of the file with a pool on it. *)
JoinUsers(p) ==
    /\ shared' = shared \cup {p}
    /\ db' = [db EXCEPT ![p] = [@ EXCEPT !.epoch = epoch, !.pool = TRUE]]

(* Mutant: the file is recreated although another process has it open. *)
EnableWalAnyway(t) ==
    LET p == ProcOf[t]
    IN  /\ At(t, "enable")
        /\ \/ /\ ~WalFails(p)
              /\ OpenPath
              /\ JoinUsers(p)
              /\ GoTo(t, "setup")
              /\ UNCHANGED <<epoch, boot, excl>>
           \/ /\ WalFails(p) /\ file.damage = "header"
              /\ excl' = p
              /\ my' = [my EXCEPT ![t] = [@ EXCEPT !.pc = "delete", !.via = "enable"]]
              /\ UNCHANGED <<dbVars, boot, shared, db>>
        /\ UNCHANGED budgets

EnableWal(t) ==
    LET p == ProcOf[t]
        alone == shared = {}
    IN  /\ At(t, "enable")
        /\ \/ /\ ~WalFails(p)
              /\ OpenPath
              /\ JoinUsers(p)
              /\ GoTo(t, "setup")
              /\ UNCHANGED <<epoch, boot, excl>>
           \/ /\ WalFails(p) /\ file.damage = "header" /\ alone
              /\ excl' = p
              /\ my' = [my EXCEPT ![t] = [@ EXCEPT !.pc = "delete", !.via = "enable"]]
              /\ UNCHANGED <<dbVars, boot, shared, db>>
           \/ /\ WalFails(p) /\ ~(file.damage = "header" /\ alone)
              /\ GiveUp(t, FALSE)
              /\ UNCHANGED dbVars
        /\ UNCHANGED budgets

-----------------------------------------------------------------------------
(* recreate_files *)

(* A readable file of a newer raeva is kept, any other is deleted. *)
DeleteFiles(t) ==
    LET newer == file.inc # Absent /\ file.damage # "header" /\ Newer(ProcOf[t])
    IN  /\ At(t, "delete")
        /\ \/ /\ newer
              /\ GiveUp(t, FALSE)
              /\ UNCHANGED dbVars
           \/ /\ ~newer
              /\ file' = [file EXCEPT !.inc = Absent]
              /\ GoTo(t, "create")
              /\ UNCHANGED <<made, epoch, lockVars, db>>
        /\ UNCHANGED budgets

CreateFile(t) ==
    /\ At(t, "create")
    /\ file' = NewFile
    /\ made' = made + 1
    /\ GoTo(t, "bump")
    /\ UNCHANGED <<epoch, lockVars, db, budgets>>

(* Mutant: the epoch stays. *)
BumpEpochNot(t) ==
    /\ At(t, "bump")
    /\ excl' = None
    /\ GoTo(t, "share")
    /\ UNCHANGED <<dbVars, boot, shared, db, budgets>>

(* The new epoch is written, then the exclusive lock goes. *)
BumpEpoch(t) ==
    /\ At(t, "bump")
    /\ epoch' = epoch + 1
    /\ excl' = None
    /\ GoTo(t, "share")
    /\ UNCHANGED <<file, made, boot, shared, db, budgets>>

(* One of these calls fails. *)
RecreateFails(t) ==
    /\ my[t].pc \in {"delete", "create", "bump"}
    /\ faults < MaxFaults
    /\ faults' = faults + 1
    /\ GiveUp(t, FALSE)
    /\ UNCHANGED <<dbVars, damages>>

-----------------------------------------------------------------------------
(* The end of enable_wal and of reset *)

(* The shared lock is taken, and the epoch of the file kept. *)
Share(t) ==
    LET p == ProcOf[t]
    IN  /\ At(t, "share")
        /\ \/ /\ my[t].via = "enable"
              /\ JoinUsers(p)
              /\ GoTo(t, "setup")
           \/ /\ my[t].via = "reset"
              /\ shared' = shared \cup {p}
              /\ db' = [db EXCEPT ![p].epoch = epoch]
              /\ GoTo(t, "check")
        /\ UNCHANGED <<dbVars, boot, excl, budgets>>

(* reset looks at the generation before it makes the pool; the connection  *)
(* that reads it creates a file where a peer that ended left none.         *)
CheckGeneration(t) ==
    /\ At(t, "check")
    /\ \/ /\ WalFails(ProcOf[t])
          /\ GiveUp(t, FALSE)
          /\ UNCHANGED dbVars
       \/ /\ ~WalFails(ProcOf[t])
          /\ OpenPath
          /\ db' = [db EXCEPT ![ProcOf[t]].pool = TRUE]
          /\ GoTo(t, "setup")
          /\ UNCHANGED <<epoch, lockVars>>
    /\ UNCHANGED budgets

(* Mutant: a recreate is not counted. *)
SetUpSilent(t) ==
    LET p == ProcOf[t]
    IN  /\ At(t, "setup")
        /\ ~WalFails(p)
        /\ file' = [file EXCEPT !.gen = IF @ < Gen[p] THEN Gen[p] ELSE @]
        /\ boot' = None
        /\ db' = [db EXCEPT ![p] =
                    [@ EXCEPT !.open = TRUE,
                              !.conns = db[p].conns \cup {file.inc},
                              !.writer = None]]
        /\ \/ /\ my[t].mode = "open"
              /\ my' = [my EXCEPT ![t] = Idle]
           \/ /\ my[t].mode = "run"
              /\ my' = [my EXCEPT ![t] = [@ EXCEPT !.pc = "read", !.second = TRUE]]
        /\ UNCHANGED <<made, epoch, excl, shared, budgets>>

(* set_up creates the schema and stamps the file with the generation. *)
SetUp(t) ==
    LET p == ProcOf[t]
    IN  /\ At(t, "setup")
        /\ ~WalFails(p)
        /\ file' = [file EXCEPT !.gen = IF @ < Gen[p] THEN Gen[p] ELSE @]
        /\ boot' = None
        /\ db' = [db EXCEPT ![p] =
                    [@ EXCEPT !.open = TRUE,
                              !.conns = db[p].conns \cup {file.inc},
                              !.writer = None,
                              !.generation = IF my[t].via = "reset" THEN db[p].generation + 1
                                             ELSE db[p].generation]]
        /\ \/ /\ my[t].mode = "open"
              /\ my' = [my EXCEPT ![t] = Idle]
           \/ /\ my[t].mode = "run"
              /\ my' = [my EXCEPT ![t] = [@ EXCEPT !.pc = "read", !.second = TRUE]]
        /\ UNCHANGED <<made, epoch, excl, shared, budgets>>

(* set_up finds damage or a newer raeva's generation.  open recreates a    *)
(* file that turned out to be damaged, under the lock it has.              *)
SetUpFails(t) ==
    LET p == ProcOf[t]
        corrupt == file.damage # "none"
    IN  /\ At(t, "setup")
        /\ corrupt \/ Newer(p)
        /\ \/ /\ corrupt /\ my[t].via = "enable"
              /\ db' = [db EXCEPT ![p] = [@ EXCEPT !.recreated = TRUE, !.pool = FALSE]]
              /\ shared' = shared \ {p}
              /\ my' = [my EXCEPT ![t] = [@ EXCEPT !.pc = "reset", !.via = "reset"]]
              /\ UNCHANGED <<boot, excl>>
           \/ GiveUp(t, TRUE)
        /\ UNCHANGED <<dbVars, budgets>>

(* It fails for another reason, such as a busy database. *)
SetUpBusy(t) ==
    /\ At(t, "setup")
    /\ faults < MaxFaults
    /\ faults' = faults + 1
    /\ GiveUp(t, TRUE)
    /\ UNCHANGED <<dbVars, damages>>

-----------------------------------------------------------------------------
(* run and run_locked: one attempt *)

RunBegin(t) ==
    /\ At(t, "idle")
    /\ db[ProcOf[t]].open
    /\ \E locked \in BOOLEAN :
         my' = [my EXCEPT ![t] = [Idle EXCEPT !.pc = "read", !.locked = locked]]
    /\ UNCHANGED <<dbVars, lockVars, db, budgets>>

ReadGuard(t) ==
    LET p == ProcOf[t]
    IN  /\ At(t, "read")
        /\ db[p].writer = None
        /\ db' = [db EXCEPT ![p].readers = @ \cup {t}]
        /\ my' = [my EXCEPT ![t] = [@ EXCEPT !.pc = IF my[t].locked THEN "lock" ELSE "checkout",
                                             !.seen = db[p].generation]]
        /\ UNCHANGED <<dbVars, lockVars, budgets>>

TakeLock(t) ==
    /\ At(t, "lock")
    /\ boot = None
    /\ boot' = t
    /\ GoTo(t, "checkout")
    /\ UNCHANGED <<dbVars, excl, shared, db, budgets>>

(* An attempt ends: the connection, the lock and the guard go. *)
EndAttempt(t) ==
    /\ boot' = IF boot = t THEN None ELSE boot
    /\ UNCHANGED <<excl, shared>>

(* Without a pool, or when no connection opens, the attempt fails for good. *)
Checkout(t) ==
    LET p == ProcOf[t]
    IN  /\ At(t, "checkout")
        /\ \/ /\ db[p].pool
              /\ \E c \in db[p].conns \cup {file.inc} :
                   /\ c # Absent
                   /\ db' = [db EXCEPT ![p].conns = @ \cup {c}]
                   /\ my' = [my EXCEPT ![t] = [@ EXCEPT !.pc = "op", !.inc = c]]
              /\ UNCHANGED lockVars
           \/ /\ ~db[p].pool \/ file.damage = "header"
              /\ db' = [db EXCEPT ![p].readers = @ \ {t}]
              /\ my' = [my EXCEPT ![t] = Idle]
              /\ EndAttempt(t)
        /\ UNCHANGED <<dbVars, budgets>>

(* The operation succeeds: a read, or a write of a file not of a newer raeva. *)
OpDone(t) ==
    LET p == ProcOf[t]
        c == my[t].inc
    IN  /\ At(t, "op")
        /\ c = file.inc => file.damage # "header"
        /\ \/ db' = [db EXCEPT ![p].readers = @ \ {t}]
           \/ /\ c = file.inc => ~Newer(p)
              /\ db' = [db EXCEPT ![p] = [@ EXCEPT !.readers = db[p].readers \ {t},
                                                   !.wrote = db[p].wrote \cup {c}]]
        /\ my' = [my EXCEPT ![t] = Idle]
        /\ EndAttempt(t)
        /\ UNCHANGED <<dbVars, budgets>>

(***************************************************************************)
(* It meets damage, or misreads the rows of a newer raeva as that.  The    *)
(* second attempt's error is returned, the first one's leads to recreate.  *)
(***************************************************************************)
OpCorrupt(t) ==
    LET p == ProcOf[t]
    IN  /\ At(t, "op")
        /\ my[t].inc = file.inc
        /\ file.damage # "none" \/ Newer(p)
        /\ db' = [db EXCEPT ![p].readers = @ \ {t}]
        /\ my' = [my EXCEPT ![t] = IF my[t].second THEN Idle
                                   ELSE [@ EXCEPT !.pc = "recreate", !.bad = my[t].inc]]
        /\ EndAttempt(t)
        /\ UNCHANGED <<dbVars, budgets>>

(* The wait for the bootstrap lock times out. *)
LockTimeout(t) ==
    LET p == ProcOf[t]
    IN  /\ my[t].pc \in {"boot", "lock", "rboot"}
        /\ boot # None
        /\ db' = [db EXCEPT ![p] = [@ EXCEPT !.readers = db[p].readers \ {t},
                                             !.writer = IF db[p].writer = t THEN None
                                                        ELSE db[p].writer]]
        /\ my' = [my EXCEPT ![t] = Idle]
        /\ UNCHANGED <<dbVars, lockVars, budgets>>

-----------------------------------------------------------------------------
(* recreate and reset *)

(***************************************************************************)
(* With the write guard: run again if the file was reopened since, else    *)
(* close the pool, once per Db; a connection that outlives the wait for    *)
(* it keeps the shared lock, and the query fails.                          *)
(***************************************************************************)
Recreate(t) ==
    LET p == ProcOf[t]
        closed == [db[p] EXCEPT !.recreated = TRUE, !.pool = FALSE]
    IN  /\ At(t, "recreate")
        /\ db[p].writer = None /\ db[p].readers = {}
        /\ \/ /\ db[p].generation # my[t].seen
              /\ my' = [my EXCEPT ![t] = [@ EXCEPT !.pc = "read", !.second = TRUE]]
              /\ UNCHANGED <<db, lockVars>>
           \/ /\ db[p].generation = my[t].seen
              /\ db[p].recreated
              /\ my' = [my EXCEPT ![t] = Idle]
              /\ UNCHANGED <<db, lockVars>>
           \/ /\ db[p].generation = my[t].seen
              /\ ~db[p].recreated
              /\ \/ /\ db' = [db EXCEPT ![p] = [closed EXCEPT !.conns = {}, !.writer = t]]
                    /\ shared' = shared \ {p}
                    /\ my' = [my EXCEPT ![t] = [@ EXCEPT !.pc = "rboot", !.via = "reset"]]
                 \/ /\ db' = [db EXCEPT ![p] = [closed EXCEPT !.linger = TRUE]]
                    /\ my' = [my EXCEPT ![t] = Idle]
                    /\ UNCHANGED shared
              /\ UNCHANGED <<boot, excl>>
        /\ UNCHANGED <<dbVars, budgets>>

LingerEnds(p) ==
    /\ db[p].linger
    /\ db' = [db EXCEPT ![p] = [@ EXCEPT !.linger = FALSE, !.conns = {}]]
    /\ shared' = shared \ {p}
    /\ UNCHANGED <<dbVars, boot, excl, my, budgets>>

RecreateLock(t) ==
    /\ At(t, "rboot")
    /\ boot = None
    /\ boot' = t
    /\ GoTo(t, "reset")
    /\ UNCHANGED <<dbVars, excl, shared, db, budgets>>

(* Mutant: a recreate waits for its peers however long they take. *)
ResetForever(t) ==
    LET p == ProcOf[t]
    IN  /\ At(t, "reset")
        /\ \/ /\ epoch # db[p].epoch
              /\ GoTo(t, "share")
              /\ UNCHANGED <<lockVars, db>>
           \/ /\ epoch = db[p].epoch
              /\ shared = {}
              /\ excl' = p
              /\ GoTo(t, "delete")
              /\ UNCHANGED <<boot, shared, db>>
           \/ /\ epoch = db[p].epoch
              /\ shared # {}
              /\ boot' = None
              /\ GoTo(t, "rboot")
              /\ UNCHANGED <<excl, shared, db>>
        /\ UNCHANGED <<dbVars, budgets>>

(***************************************************************************)
(* Under the bootstrap lock: a new epoch means that a peer recreated the   *)
(* file.  Otherwise it is deleted if nobody has it open; if somebody does, *)
(* recreate tries again until its deadline, open fails.                    *)
(***************************************************************************)
Reset(t) ==
    LET p == ProcOf[t]
    IN  /\ At(t, "reset")
        /\ \/ /\ epoch # db[p].epoch
              /\ GoTo(t, "share")
              /\ UNCHANGED <<lockVars, db>>
           \/ /\ epoch = db[p].epoch
              /\ shared = {}
              /\ excl' = p
              /\ GoTo(t, "delete")
              /\ UNCHANGED <<boot, shared, db>>
           \/ /\ epoch = db[p].epoch
              /\ shared # {}
              /\ GiveUp(t, FALSE)
           \/ /\ epoch = db[p].epoch
              /\ shared # {}
              /\ my[t].mode = "run"
              /\ my[t].tries < MaxTries
              /\ boot' = None
              /\ my' = [my EXCEPT ![t] = [@ EXCEPT !.pc = "rboot", !.tries = my[t].tries + 1]]
              /\ UNCHANGED <<excl, shared, db>>
        /\ UNCHANGED <<dbVars, budgets>>

-----------------------------------------------------------------------------
(* The world *)

DamageFile(d) ==
    /\ damages < MaxDamage
    /\ file.inc # Absent
    /\ damages' = damages + 1
    /\ file' = [file EXCEPT !.damage = d]
    /\ UNCHANGED <<made, epoch, lockVars, db, my, faults>>

Forget(p) ==
    /\ boot' = IF boot # None /\ ProcOf[boot] = p THEN None ELSE boot
    /\ excl' = IF excl = p THEN None ELSE excl
    /\ shared' = shared \ {p}
    /\ db' = [db EXCEPT ![p] = NoDb]
    /\ my' = [t \in Thread |-> IF ProcOf[t] = p THEN Idle ELSE my[t]]

Exit(p) ==
    /\ db[p].open
    /\ \A t \in Thread : ProcOf[t] = p => At(t, "idle")
    /\ Forget(p)
    /\ UNCHANGED <<dbVars, budgets>>

Kill(p) ==
    /\ faults < MaxFaults
    /\ faults' = faults + 1
    /\ Forget(p)
    /\ UNCHANGED <<dbVars, damages>>

OpenStep(t) ==
    \/ OpenLocked(t) \/ EnableWal(t) \/ DeleteFiles(t) \/ CreateFile(t) \/ BumpEpoch(t)
    \/ Share(t) \/ CheckGeneration(t) \/ SetUp(t) \/ SetUpFails(t)

RunStep(t) ==
    \/ ReadGuard(t) \/ TakeLock(t) \/ Checkout(t) \/ OpDone(t) \/ OpCorrupt(t)
    \/ Recreate(t) \/ RecreateLock(t) \/ Reset(t)

Next ==
    \/ \E t \in Thread :
         \/ OpenBegin(t) \/ RunBegin(t)
         \/ OpenStep(t) \/ RunStep(t)
         \/ RecreateFails(t) \/ SetUpBusy(t) \/ LockTimeout(t)
    \/ \E p \in Proc : LingerEnds(p) \/ Exit(p) \/ Kill(p)
    \/ \E d \in {"deep", "header"} : DamageFile(d)

Spec == Init /\ [][Next]_vars

(* A thread gets a lock or a guard that it waits for. *)
Turn(t) == OpenLocked(t) \/ TakeLock(t) \/ RecreateLock(t) \/ ReadGuard(t) \/ Recreate(t)

(***************************************************************************)
(* Threads run.  A wait for a lock or a guard that is free again and again *)
(* ends, although others take it too: flock queues its waiters, RwLock     *)
(* lets a waiting writer in.  Nothing is assumed of timeouts.              *)
(***************************************************************************)
FairSpec ==
    /\ Spec
    /\ \A t \in Thread : WF_vars(OpenStep(t) \/ RunStep(t)) /\ SF_vars(Turn(t))

-----------------------------------------------------------------------------
(* Properties *)

(***************************************************************************)
(* No process has a connection to a file that was deleted or replaced, so  *)
(* no row is written to a file that nobody else sees (sqlite.rs, DbUser    *)
(* and enable_wal).                                                        *)
(***************************************************************************)
ConnectionsCurrent == \A p \in Proc : db[p].conns \subseteq {file.inc}

(***************************************************************************)
(* While a process deletes the file it is alone with it: nobody has it     *)
(* open, and nobody is about to.                                           *)
(***************************************************************************)
DeletedAlone ==
    excl # None =>
        /\ shared = {} /\ \A p \in Proc : ~db[p].pool
        /\ boot # None /\ ProcOf[boot] = excl

(***************************************************************************)
(* A process has only connections to the file of now, and deletes it alone. *)
(***************************************************************************)
FileShared == ConnectionsCurrent /\ DeletedAlone

(***************************************************************************)
(* While no process is killed and no call fails, a file that is deleted    *)
(* was damaged: a process that found damage, closed the file and waited    *)
(* for the lock does not delete the sound file that a peer put there in    *)
(* the meantime (recreate_files).                                          *)
(***************************************************************************)
SoundKept == faults = 0 /\ file.inc # Absent /\ file'.inc # file.inc => file.damage # "none"

(***************************************************************************)
(* A readable file of a newer raeva is not deleted by an older one that    *)
(* misreads its rows (recreate_files).                                     *)
(***************************************************************************)
NewerKept ==
    file.inc # Absent /\ file'.inc # file.inc /\ file.damage # "header"
        => excl # None /\ file.gen <= Gen[excl]

(***************************************************************************)
(* What a step of recreate_files may delete.                               *)
(***************************************************************************)
FilesKept == [][SoundKept /\ NewerKept]_vars

(***************************************************************************)
(* While nothing fails, an operation that runs on a file without the rows  *)
(* its process wrote before does so after the process counted a recreate,  *)
(* which is what recreated_mid_run tells ensure_artifacts to restore again.*)
(* A second damage that strikes the new file before its set_up fails the   *)
(* set_up, and such a recreate is not counted.                             *)
(***************************************************************************)
LostRowsCounted ==
    \A t \in Thread : faults = 0 /\ damages <= 1 /\ At(t, "op") =>
        db[ProcOf[t]].wrote \subseteq {my[t].inc} \/ my[t].seen > 0

(***************************************************************************)
(* The operation that runs again after a recreate runs on another file     *)
(* than the one it failed on.                                              *)
(***************************************************************************)
RetryOnNewFile ==
    \A t \in Thread : At(t, "op") /\ my[t].second => my[t].inc # my[t].bad

(***************************************************************************)
(* A recreate is seen by whoever runs on the new file.                     *)
(***************************************************************************)
RecreationSeen == LostRowsCounted /\ RetryOnNewFile

(***************************************************************************)
(* Operations wait for the bootstrap lock with the read guard held, and a  *)
(* recreate waits for both; still some thread that is in a call can always *)
(* go on without a timeout.                                                *)
(***************************************************************************)
Blocked(t) ==
    LET d == db[ProcOf[t]]
    IN  \/ my[t].pc \in {"boot", "lock", "rboot"} /\ boot # None
        \/ At(t, "read") /\ d.writer # None
        \/ At(t, "recreate") /\ (d.writer # None \/ d.readers # {})

NoDeadlock ==
    (\A t \in Thread : At(t, "idle") \/ Blocked(t)) => \A t \in Thread : At(t, "idle")

(***************************************************************************)
(* Every call of run and of open returns, although a recreate waits for    *)
(* running operations and for peers, and operations wait for the lock that *)
(* a recreate takes.                                                       *)
(***************************************************************************)
CallsReturn == \A t \in Thread : ~At(t, "idle") ~> At(t, "idle")
=============================================================================

---------------------------- MODULE SqliteDbSteps ---------------------------
(***************************************************************************)
(* The protocol of SqliteDb for any number of processes and threads, any   *)
(* damage, any kills and failed calls.                                     *)
(***************************************************************************)
EXTENDS SqliteDb, TLAPS

-----------------------------------------------------------------------------
(* The inductive invariant *)

(* Where a thread has the bootstrap lock, where it recreates the file, and *)
(* where it holds the read guard.                                          *)
BootPcs == {"enable", "delete", "create", "bump", "share", "check", "setup", "reset"}
DeletePcs == {"delete", "create", "bump"}
RecreatePcs == {"rboot", "reset", "delete", "create", "bump", "share", "check", "setup"}
ReadPcs == {"lock", "checkout", "op"}

DbOf(t) == db[ProcOf[t]]
InRun(t, pcs) == my[t].mode = "run" /\ my[t].pc \in pcs

(* One thread opens or recreates at a time, under the bootstrap lock, and  *)
(* nobody has the file open while it is deleted.                           *)
LocksInv ==
    /\ \A t \in Thread :
          /\ my[t].pc \in BootPcs => boot = t
          /\ my[t].pc \in DeletePcs => excl = ProcOf[t] /\ shared = {}
    /\ excl # None => boot # None /\ ProcOf[boot] = excl /\ my[boot].pc \in DeletePcs
    /\ boot # None => my[boot].pc \in BootPcs \cup {"checkout", "op"}

(* What a thread is about, and how that shows in the Db of its process:    *)
(* a run needs an open Db, an open one that is not, a reader the read      *)
(* guard, and a recreate, the only one of its Db, the write guard.         *)
ThreadInv(t) ==
    /\ At(t, "idle") => my[t].mode = "run" /\ ~my[t].second /\ my[t].bad = Absent
    /\ my[t].pc \in {"boot", "enable"} => my[t].mode = "open"
    /\ my[t].pc \in ReadPcs \cup {"read", "recreate", "rboot"} => my[t].mode = "run"
    /\ my[t].pc \in {"reset", "check"} => my[t].via = "reset"
    /\ my[t].mode = "open" => ~my[t].second /\ my[t].bad = Absent
    /\ my[t].mode = "open" /\ my[t].pc \in BootPcs => ~DbOf(t).open
    /\ my[t].mode = "run" /\ ~At(t, "idle") => DbOf(t).open
    /\ my[t].pc \in ReadPcs => t \in DbOf(t).readers /\ my[t].seen = DbOf(t).generation
    /\ InRun(t, RecreatePcs) =>
          /\ my[t].via = "reset"
          /\ DbOf(t).writer = t /\ DbOf(t).recreated /\ ~DbOf(t).linger
          /\ ~At(t, "setup") => ~DbOf(t).pool /\ DbOf(t).conns = {}

(* Where a thread is with the file. *)
StageInv(t) ==
    /\ my[t].pc \in {"check", "setup"} => ProcOf[t] \in shared
    /\ At(t, "setup") => DbOf(t).pool
    /\ At(t, "op") => DbOf(t).pool /\ my[t].inc \in DbOf(t).conns
    /\ At(t, "create") => file.inc = Absent
    /\ At(t, "bump") \/ (At(t, "share") /\ my[t].via = "enable") => file.inc # Absent
    /\ my[t].pc \in RecreatePcs => made # 0

(* A Db has its connections to the file of now, and shows them to others   *)
(* by the shared lock; a Db that was not closed for a recreate has its     *)
(* pool.                                                                   *)
ConnsInv(p) ==
    /\ db[p].conns \subseteq {file.inc}
    /\ db[p].pool \/ db[p].conns # {} => p \in shared /\ file.inc # Absent
    /\ db[p].linger => db[p].open /\ db[p].recreated /\ ~db[p].pool
    /\ ~db[p].open => db[p].conns = {} /\ db[p].readers = {} /\ db[p].writer = None
    /\ db[p].open => made # 0
    /\ db[p].open /\ ~db[p].recreated => db[p].pool

(* The guards of a Db are held by threads of its process that are where    *)
(* they need them, and what it knows of the epoch is current while it has  *)
(* the shared lock.                                                        *)
GuardsInv(p) ==
    /\ \A t \in db[p].readers : ProcOf[t] = p /\ my[t].pc \in ReadPcs
    /\ db[p].writer # None =>
          /\ db[p].readers = {}
          /\ ProcOf[db[p].writer] = p /\ InRun(db[p].writer, RecreatePcs)
    /\ db[p].epoch <= epoch
    /\ p \in shared => db[p].epoch = epoch

(* The file the thread's first attempt failed on is no longer there. *)
Gone(t) == my[t].bad = Absent \/ my[t].bad # file.inc

(* Whatever tells a thread to run again, a new epoch, a new generation or  *)
(* its own recreate, comes after the file it failed on is gone.            *)
RetryInv(t) ==
    /\ my[t].bad <= made
    /\ At(t, "bump") => \A u \in Thread : Gone(u)
    /\ InRun(t, {"share", "check", "setup"}) =>
          \A u \in Thread : ProcOf[u] = ProcOf[t] => Gone(u)
    /\ epoch # DbOf(t).epoch => Gone(t)
    /\ At(t, "recreate") /\ DbOf(t).generation # my[t].seen => Gone(t)
    /\ my[t].second => Gone(t)

(* The file is damaged, or a newer raeva's that process p misreads. *)
Unusable(p) == file.damage # "none" \/ Newer(p)

(* Without faults, what a thread is about to delete still is the file it   *)
(* found unusable.                                                         *)
DeleteInv(t) ==
    /\ At(t, "recreate") /\ ~DbOf(t).recreated => Unusable(ProcOf[t])
    /\ faults = 0 /\ At(t, "delete") => Unusable(ProcOf[t])
    /\ /\ faults = 0 /\ my[t].pc \in {"rboot", "reset"}
       /\ epoch = DbOf(t).epoch /\ \A u \in Thread : ~At(u, "bump")
       => Unusable(ProcOf[t])

(* There is a file once one was made, but while a thread makes the next.  *)
FileInv ==
    /\ file.inc <= made
    /\ faults = 0 /\ file.inc = Absent /\ made # 0 => \E t \in Thread : At(t, "create")

ThreadOK(t) == ThreadInv(t) /\ StageInv(t) /\ RetryInv(t) /\ DeleteInv(t)
DbOK(p) == ConnsInv(p) /\ GuardsInv(p)

SqliteInv ==
    /\ TypeOK /\ LocksInv /\ FileInv
    /\ \A t \in Thread : ThreadOK(t)
    /\ \A p \in Proc : DbOK(p)

-----------------------------------------------------------------------------
(* Steps, field by field *)

USE SqliteDbAssumption DEF Absent

(* Thread t steps to a state with these fields, the others stay. *)
ThreadTo(t, pc, mode, via, second, seen, inc, bad) ==
    /\ my' \in [Thread -> ThreadRecord] /\ \A u \in Thread \ {t} : my'[u] = my[u]
    /\ my'[t].pc = pc /\ my'[t].mode = mode /\ my'[t].via = via /\ my'[t].second = second
    /\ my'[t].seen = seen /\ my'[t].inc = inc /\ my'[t].bad = bad

(* The same for the Db of p. *)
DbTo(p, open, pool, conns, linger, ep, generation, recreated, readers, writer, wrote) ==
    /\ db' \in [Proc -> DbRecord] /\ \A q \in Proc \ {p} : db'[q] = db[q]
    /\ db'[p].open = open /\ db'[p].pool = pool /\ db'[p].conns = conns
    /\ db'[p].linger = linger /\ db'[p].epoch = ep /\ db'[p].generation = generation
    /\ db'[p].recreated = recreated /\ db'[p].readers = readers
    /\ db'[p].writer = writer /\ db'[p].wrote = wrote

(* The types of the fields, one by one. *)
FieldTypes ==
    /\ \A p \in Proc :
          /\ db[p].readers \subseteq Thread /\ db[p].writer \in Thread \cup {None}
          /\ db[p].epoch \in Nat /\ db[p].generation \in Nat
          /\ db[p].conns \subseteq Nat /\ db[p].wrote \subseteq Nat
    /\ \A t \in Thread :
          /\ my[t].pc \in Labels /\ my[t].mode \in {"open", "run"}
          /\ my[t].via \in {"enable", "reset"} /\ my[t].seen \in Nat
          /\ my[t].inc \in Nat /\ my[t].bad \in Nat
          /\ ProcOf[t] \in Proc
    /\ boot \in Thread \cup {None} /\ excl \in Proc \cup {None} /\ shared \subseteq Proc
    /\ file.inc \in Nat /\ file.gen \in Nat /\ file.damage \in Damage
    /\ made \in Nat /\ epoch \in Nat /\ damages \in Nat /\ faults \in Nat

(* The fields of the records have their types.                             *)
LEMMA FieldTypesHold == TypeOK => FieldTypes
BY DEF TypeOK, FieldTypes, DbRecord, ThreadRecord

(* The record of a thread that is in no call. *)
LEMMA IdleRecord ==
    /\ Idle \in ThreadRecord /\ Idle.pc = "idle" /\ Idle.mode = "run" /\ Idle.via = "enable"
    /\ Idle.second = FALSE /\ Idle.seen = 0 /\ Idle.inc = Absent /\ Idle.bad = Absent
BY DEF Idle, ThreadRecord, Labels

(* A thread goes on. *)
LEMMA GoToEffect ==
    ASSUME TypeOK, NEW t \in Thread, NEW l \in Labels, my' = [my EXCEPT ![t].pc = l]
    PROVE  ThreadTo(t, l, my[t].mode, my[t].via, my[t].second, my[t].seen, my[t].inc, my[t].bad)
<1>1. PICK n : n = [my[t] EXCEPT !.pc = l]
  BY Zenon
<1>2. my[t] \in ThreadRecord
  BY Zenon DEF TypeOK
<1>3. /\ n \in ThreadRecord /\ n.pc = l /\ n.mode = my[t].mode /\ n.via = my[t].via
      /\ n.second = my[t].second /\ n.seen = my[t].seen /\ n.inc = my[t].inc
      /\ n.bad = my[t].bad
  BY Zenon, <1>1, <1>2 DEF ThreadRecord, Labels
<1>4. /\ my' \in [Thread -> ThreadRecord] /\ my'[t] = n
      /\ \A x \in Thread \ {t} : my'[x] = my[x]
  BY Zenon, <1>1, <1>3 DEF TypeOK
<1>5. QED
  BY Zenon, <1>3, <1>4 DEF ThreadTo

(* A call returns. *)
LEMMA IdleEffect ==
    ASSUME TypeOK, NEW t \in Thread,
           my' = [my EXCEPT ![t] = Idle]
    PROVE  ThreadTo(t, "idle", "run", "enable", FALSE, 0, Absent, Absent)
<1>1. PICK n : n = Idle
  BY Zenon
<1>2. my[t] \in ThreadRecord
  BY Zenon DEF TypeOK
<1>3. /\ n \in ThreadRecord /\ n.pc = "idle" /\ n.mode = "run" /\ n.via = "enable"
      /\ n.second = FALSE /\ n.seen = 0 /\ n.inc = Absent /\ n.bad = Absent
  BY <1>1, <1>2 DEF ThreadRecord, Labels, Idle
<1>4. /\ my' \in [Thread -> ThreadRecord] /\ my'[t] = n
      /\ \A x \in Thread \ {t} : my'[x] = my[x]
  BY Zenon, <1>1, <1>3 DEF TypeOK
<1>5. QED
  BY Zenon, <1>3, <1>4 DEF ThreadTo

(* A call of open begins. *)
LEMMA OpenBeginEffect ==
    ASSUME TypeOK, NEW t \in Thread,
           my' = [my EXCEPT ![t] = [Idle EXCEPT !.pc = "boot", !.mode = "open"]]
    PROVE  ThreadTo(t, "boot", "open", "enable", FALSE, 0, Absent, Absent)
<1>1. PICK n : n = [Idle EXCEPT !.pc = "boot", !.mode = "open"]
  BY Zenon
<1>2. my[t] \in ThreadRecord
  BY Zenon DEF TypeOK
<1>3. /\ n \in ThreadRecord /\ n.pc = "boot" /\ n.mode = "open" /\ n.via = "enable"
      /\ n.second = FALSE /\ n.seen = 0 /\ n.inc = Absent /\ n.bad = Absent
  BY Zenon, <1>1, <1>2, IdleRecord DEF ThreadRecord, Labels
<1>4. /\ my' \in [Thread -> ThreadRecord] /\ my'[t] = n
      /\ \A x \in Thread \ {t} : my'[x] = my[x]
  BY Zenon, <1>1, <1>3 DEF TypeOK
<1>5. QED
  BY Zenon, <1>3, <1>4 DEF ThreadTo

(* A call of run begins. *)
LEMMA RunBeginEffect ==
    ASSUME TypeOK, NEW t \in Thread, NEW b \in BOOLEAN,
           my' = [my EXCEPT ![t] = [Idle EXCEPT !.pc = "read", !.locked = b]]
    PROVE  ThreadTo(t, "read", "run", "enable", FALSE, 0, Absent, Absent)
<1>1. PICK n : n = [Idle EXCEPT !.pc = "read", !.locked = b]
  BY Zenon
<1>2. my[t] \in ThreadRecord
  BY Zenon DEF TypeOK
<1>3. /\ n \in ThreadRecord /\ n.pc = "read" /\ n.mode = "run" /\ n.via = "enable"
      /\ n.second = FALSE /\ n.seen = 0 /\ n.inc = Absent /\ n.bad = Absent
  BY Zenon, <1>1, <1>2, IdleRecord DEF ThreadRecord, Labels
<1>4. /\ my' \in [Thread -> ThreadRecord] /\ my'[t] = n
      /\ \A x \in Thread \ {t} : my'[x] = my[x]
  BY Zenon, <1>1, <1>3 DEF TypeOK
<1>5. QED
  BY Zenon, <1>3, <1>4 DEF ThreadTo

(* A thread goes on to recreate the file. *)
LEMMA ViaEffect ==
    ASSUME TypeOK, NEW t \in Thread, NEW l \in Labels, NEW v \in {"enable", "reset"},
           my' = [my EXCEPT ![t] = [@ EXCEPT !.pc = l, !.via = v]]
    PROVE  ThreadTo(t, l, my[t].mode, v, my[t].second, my[t].seen, my[t].inc, my[t].bad)
<1>1. PICK n : n = [my[t] EXCEPT !.pc = l, !.via = v]
  BY Zenon
<1>2. my[t] \in ThreadRecord
  BY Zenon DEF TypeOK
<1>3. /\ n \in ThreadRecord /\ n.pc = l /\ n.mode = my[t].mode /\ n.via = v
      /\ n.second = my[t].second /\ n.seen = my[t].seen /\ n.inc = my[t].inc
      /\ n.bad = my[t].bad
  BY ZenonT(60), <1>1, <1>2 DEF ThreadRecord, Labels
<1>4. /\ my' \in [Thread -> ThreadRecord] /\ my'[t] = n
      /\ \A x \in Thread \ {t} : my'[x] = my[x]
  BY Zenon, <1>1, <1>3 DEF TypeOK
<1>5. QED
  BY Zenon, <1>3, <1>4 DEF ThreadTo

(* A thread runs its operation again. *)
LEMMA AgainEffect ==
    ASSUME TypeOK, NEW t \in Thread,
           my' = [my EXCEPT ![t] = [@ EXCEPT !.pc = "read", !.second = TRUE]]
    PROVE  ThreadTo(t, "read", my[t].mode, my[t].via, TRUE, my[t].seen, my[t].inc, my[t].bad)
<1>1. PICK n : n = [my[t] EXCEPT !.pc = "read", !.second = TRUE]
  BY Zenon
<1>2. my[t] \in ThreadRecord
  BY Zenon DEF TypeOK
<1>3. /\ n \in ThreadRecord /\ n.pc = "read" /\ n.mode = my[t].mode /\ n.via = my[t].via
      /\ n.second = TRUE /\ n.seen = my[t].seen /\ n.inc = my[t].inc
      /\ n.bad = my[t].bad
  BY Zenon, <1>1, <1>2 DEF ThreadRecord, Labels
<1>4. /\ my' \in [Thread -> ThreadRecord] /\ my'[t] = n
      /\ \A x \in Thread \ {t} : my'[x] = my[x]
  BY Zenon, <1>1, <1>3 DEF TypeOK
<1>5. QED
  BY Zenon, <1>3, <1>4 DEF ThreadTo

(* A thread has the read guard. *)
LEMMA SeenEffect ==
    ASSUME TypeOK, NEW t \in Thread, NEW l \in Labels, NEW k \in Nat,
           my' = [my EXCEPT ![t] = [@ EXCEPT !.pc = l, !.seen = k]]
    PROVE  ThreadTo(t, l, my[t].mode, my[t].via, my[t].second, k, my[t].inc, my[t].bad)
<1>1. PICK n : n = [my[t] EXCEPT !.pc = l, !.seen = k]
  BY Zenon
<1>2. my[t] \in ThreadRecord
  BY Zenon DEF TypeOK
<1>3. /\ n \in ThreadRecord /\ n.pc = l /\ n.mode = my[t].mode /\ n.via = my[t].via
      /\ n.second = my[t].second /\ n.seen = k /\ n.inc = my[t].inc /\ n.bad = my[t].bad
  BY ZenonT(60), <1>1, <1>2 DEF ThreadRecord, Labels
<1>4. /\ my' \in [Thread -> ThreadRecord] /\ my'[t] = n
      /\ \A x \in Thread \ {t} : my'[x] = my[x]
  BY Zenon, <1>1, <1>3 DEF TypeOK
<1>5. QED
  BY Zenon, <1>3, <1>4 DEF ThreadTo

(* A thread has a connection. *)
LEMMA IncEffect ==
    ASSUME TypeOK, NEW t \in Thread, NEW c \in Nat,
           my' = [my EXCEPT ![t] = [@ EXCEPT !.pc = "op", !.inc = c]]
    PROVE  ThreadTo(t, "op", my[t].mode, my[t].via, my[t].second, my[t].seen, c, my[t].bad)
<1>1. PICK n : n = [my[t] EXCEPT !.pc = "op", !.inc = c]
  BY Zenon
<1>2. my[t] \in ThreadRecord
  BY Zenon DEF TypeOK
<1>3. /\ n \in ThreadRecord /\ n.pc = "op" /\ n.mode = my[t].mode /\ n.via = my[t].via
      /\ n.second = my[t].second /\ n.seen = my[t].seen /\ n.inc = c
      /\ n.bad = my[t].bad
  BY Zenon, <1>1, <1>2 DEF ThreadRecord, Labels
<1>4. /\ my' \in [Thread -> ThreadRecord] /\ my'[t] = n
      /\ \A x \in Thread \ {t} : my'[x] = my[x]
  BY Zenon, <1>1, <1>3 DEF TypeOK
<1>5. QED
  BY Zenon, <1>3, <1>4 DEF ThreadTo

(* A thread found damage. *)
LEMMA BadEffect ==
    ASSUME TypeOK, NEW t \in Thread, NEW c \in Nat,
           my' = [my EXCEPT ![t] = [@ EXCEPT !.pc = "recreate", !.bad = c]]
    PROVE  ThreadTo(t, "recreate", my[t].mode, my[t].via, my[t].second, my[t].seen, my[t].inc, c)
<1>1. PICK n : n = [my[t] EXCEPT !.pc = "recreate", !.bad = c]
  BY Zenon
<1>2. my[t] \in ThreadRecord
  BY Zenon DEF TypeOK
<1>3. /\ n \in ThreadRecord /\ n.pc = "recreate" /\ n.mode = my[t].mode
      /\ n.via = my[t].via /\ n.second = my[t].second /\ n.seen = my[t].seen
      /\ n.inc = my[t].inc /\ n.bad = c
  BY Zenon, <1>1, <1>2 DEF ThreadRecord, Labels
<1>4. /\ my' \in [Thread -> ThreadRecord] /\ my'[t] = n
      /\ \A x \in Thread \ {t} : my'[x] = my[x]
  BY Zenon, <1>1, <1>3 DEF TypeOK
<1>5. QED
  BY Zenon, <1>3, <1>4 DEF ThreadTo

(* A recreate tries again. *)
LEMMA TriesEffect ==
    ASSUME TypeOK, NEW t \in Thread, NEW k \in 0..MaxTries,
           my' = [my EXCEPT ![t] = [@ EXCEPT !.pc = "rboot", !.tries = k]]
    PROVE  ThreadTo(t, "rboot", my[t].mode, my[t].via, my[t].second, my[t].seen, my[t].inc,
                      my[t].bad)
<1>1. PICK n : n = [my[t] EXCEPT !.pc = "rboot", !.tries = k]
  BY Zenon
<1>2. my[t] \in ThreadRecord
  BY Zenon DEF TypeOK
<1>3. /\ n \in ThreadRecord /\ n.pc = "rboot" /\ n.mode = my[t].mode
      /\ n.via = my[t].via /\ n.second = my[t].second /\ n.seen = my[t].seen
      /\ n.inc = my[t].inc /\ n.bad = my[t].bad
  BY Zenon, <1>1, <1>2 DEF ThreadRecord, Labels
<1>4. /\ my' \in [Thread -> ThreadRecord] /\ my'[t] = n
      /\ \A x \in Thread \ {t} : my'[x] = my[x]
  BY Zenon, <1>1, <1>3 DEF TypeOK
<1>5. QED
  BY Zenon, <1>3, <1>4 DEF ThreadTo

(* A Db has its pool at this epoch. *)
LEMMA JoinEffect ==
    ASSUME TypeOK, NEW p \in Proc, NEW k \in Nat,
           db' = [db EXCEPT ![p] = [@ EXCEPT !.epoch = k, !.pool = TRUE]]
    PROVE  DbTo(p, db[p].open, TRUE, db[p].conns, db[p].linger, k, db[p].generation,
                  db[p].recreated, db[p].readers, db[p].writer, db[p].wrote)
<1>1. PICK n : n = [db[p] EXCEPT !.epoch = k, !.pool = TRUE]
  BY Zenon
<1>2. db[p] \in DbRecord
  BY Zenon DEF TypeOK
<1>3. /\ n \in DbRecord /\ n.open = db[p].open /\ n.pool = TRUE /\ n.conns = db[p].conns
      /\ n.linger = db[p].linger /\ n.epoch = k /\ n.generation = db[p].generation
      /\ n.recreated = db[p].recreated /\ n.readers = db[p].readers
      /\ n.writer = db[p].writer /\ n.wrote = db[p].wrote
  BY Zenon, <1>1, <1>2 DEF DbRecord
<1>4. /\ db' \in [Proc -> DbRecord] /\ db'[p] = n
      /\ \A x \in Proc \ {p} : db'[x] = db[x]
  BY Zenon, <1>1, <1>3 DEF TypeOK
<1>5. QED
  BY Zenon, <1>3, <1>4 DEF DbTo

(* A Db knows this epoch. *)
LEMMA EpochEffect ==
    ASSUME TypeOK, NEW p \in Proc, NEW k \in Nat, db' = [db EXCEPT ![p].epoch = k]
    PROVE  DbTo(p, db[p].open, db[p].pool, db[p].conns, db[p].linger, k, db[p].generation,
                  db[p].recreated, db[p].readers, db[p].writer, db[p].wrote)
<1>1. PICK n : n = [db[p] EXCEPT !.epoch = k]
  BY Zenon
<1>2. db[p] \in DbRecord
  BY Zenon DEF TypeOK
<1>3. /\ n \in DbRecord /\ n.open = db[p].open /\ n.pool = db[p].pool
      /\ n.conns = db[p].conns /\ n.linger = db[p].linger /\ n.epoch = k
      /\ n.generation = db[p].generation /\ n.recreated = db[p].recreated
      /\ n.readers = db[p].readers /\ n.writer = db[p].writer /\ n.wrote = db[p].wrote
  BY Zenon, <1>1, <1>2 DEF DbRecord
<1>4. /\ db' \in [Proc -> DbRecord] /\ db'[p] = n
      /\ \A x \in Proc \ {p} : db'[x] = db[x]
  BY Zenon, <1>1, <1>3 DEF TypeOK
<1>5. QED
  BY Zenon, <1>3, <1>4 DEF DbTo

(* A Db has its pool. *)
LEMMA PoolEffect ==
    ASSUME TypeOK, NEW p \in Proc, db' = [db EXCEPT ![p].pool = TRUE]
    PROVE  DbTo(p, db[p].open, TRUE, db[p].conns, db[p].linger, db[p].epoch, db[p].generation,
                  db[p].recreated, db[p].readers, db[p].writer, db[p].wrote)
<1>1. PICK n : n = [db[p] EXCEPT !.pool = TRUE]
  BY Zenon
<1>2. db[p] \in DbRecord
  BY Zenon DEF TypeOK
<1>3. /\ n \in DbRecord /\ n.open = db[p].open /\ n.pool = TRUE /\ n.conns = db[p].conns
      /\ n.linger = db[p].linger /\ n.epoch = db[p].epoch
      /\ n.generation = db[p].generation /\ n.recreated = db[p].recreated
      /\ n.readers = db[p].readers /\ n.writer = db[p].writer /\ n.wrote = db[p].wrote
  BY Zenon, <1>1, <1>2 DEF DbRecord
<1>4. /\ db' \in [Proc -> DbRecord] /\ db'[p] = n
      /\ \A x \in Proc \ {p} : db'[x] = db[x]
  BY Zenon, <1>1, <1>3 DEF TypeOK
<1>5. QED
  BY Zenon, <1>3, <1>4 DEF DbTo

(* A Db is set up. *)
LEMMA SetUpEffect ==
    ASSUME TypeOK, NEW p \in Proc, NEW c \in SUBSET Nat, NEW k \in Nat,
           db' = [db EXCEPT ![p] = [@ EXCEPT !.open = TRUE, !.conns = c, !.writer = None, !.generation = k]]
    PROVE  DbTo(p, TRUE, db[p].pool, c, db[p].linger, db[p].epoch, k, db[p].recreated,
                  db[p].readers, None, db[p].wrote)
<1>1. PICK n : n = [db[p] EXCEPT !.open = TRUE, !.conns = c, !.writer = None, !.generation = k]
  BY Zenon
<1>2. db[p] \in DbRecord
  BY Zenon DEF TypeOK
<1>3. /\ n \in DbRecord /\ n.open = TRUE /\ n.pool = db[p].pool /\ n.conns = c
      /\ n.linger = db[p].linger /\ n.epoch = db[p].epoch /\ n.generation = k
      /\ n.recreated = db[p].recreated /\ n.readers = db[p].readers /\ n.writer = None
      /\ n.wrote = db[p].wrote
  BY Zenon, <1>1, <1>2 DEF DbRecord
<1>4. /\ db' \in [Proc -> DbRecord] /\ db'[p] = n
      /\ \A x \in Proc \ {p} : db'[x] = db[x]
  BY Zenon, <1>1, <1>3 DEF TypeOK
<1>5. QED
  BY Zenon, <1>3, <1>4 DEF DbTo

(* A new Db is closed. *)
LEMMA FailEffect ==
    ASSUME TypeOK, NEW p \in Proc,
           db' = [db EXCEPT ![p] = [@ EXCEPT !.recreated = TRUE, !.pool = FALSE]]
    PROVE  DbTo(p, db[p].open, FALSE, db[p].conns, db[p].linger, db[p].epoch, db[p].generation,
                  TRUE, db[p].readers, db[p].writer, db[p].wrote)
<1>1. PICK n : n = [db[p] EXCEPT !.recreated = TRUE, !.pool = FALSE]
  BY Zenon
<1>2. db[p] \in DbRecord
  BY Zenon DEF TypeOK
<1>3. /\ n \in DbRecord /\ n.open = db[p].open /\ n.pool = FALSE
      /\ n.conns = db[p].conns /\ n.linger = db[p].linger /\ n.epoch = db[p].epoch
      /\ n.generation = db[p].generation /\ n.recreated = TRUE
      /\ n.readers = db[p].readers /\ n.writer = db[p].writer /\ n.wrote = db[p].wrote
  BY Zenon, <1>1, <1>2 DEF DbRecord
<1>4. /\ db' \in [Proc -> DbRecord] /\ db'[p] = n
      /\ \A x \in Proc \ {p} : db'[x] = db[x]
  BY Zenon, <1>1, <1>3 DEF TypeOK
<1>5. QED
  BY Zenon, <1>3, <1>4 DEF DbTo

(* A read guard is taken or dropped. *)
LEMMA ReadersEffect ==
    ASSUME TypeOK, NEW p \in Proc, NEW g \in SUBSET Thread, db' = [db EXCEPT ![p].readers = g]
    PROVE  DbTo(p, db[p].open, db[p].pool, db[p].conns, db[p].linger, db[p].epoch,
                  db[p].generation, db[p].recreated, g, db[p].writer, db[p].wrote)
<1>1. PICK n : n = [db[p] EXCEPT !.readers = g]
  BY Zenon
<1>2. db[p] \in DbRecord
  BY Zenon DEF TypeOK
<1>3. /\ n \in DbRecord /\ n.open = db[p].open /\ n.pool = db[p].pool
      /\ n.conns = db[p].conns /\ n.linger = db[p].linger /\ n.epoch = db[p].epoch
      /\ n.generation = db[p].generation /\ n.recreated = db[p].recreated
      /\ n.readers = g /\ n.writer = db[p].writer /\ n.wrote = db[p].wrote
  BY Zenon, <1>1, <1>2 DEF DbRecord
<1>4. /\ db' \in [Proc -> DbRecord] /\ db'[p] = n
      /\ \A x \in Proc \ {p} : db'[x] = db[x]
  BY Zenon, <1>1, <1>3 DEF TypeOK
<1>5. QED
  BY Zenon, <1>3, <1>4 DEF DbTo

(* A connection is made. *)
LEMMA ConnsEffect ==
    ASSUME TypeOK, NEW p \in Proc, NEW c \in SUBSET Nat, db' = [db EXCEPT ![p].conns = c]
    PROVE  DbTo(p, db[p].open, db[p].pool, c, db[p].linger, db[p].epoch, db[p].generation,
                  db[p].recreated, db[p].readers, db[p].writer, db[p].wrote)
<1>1. PICK n : n = [db[p] EXCEPT !.conns = c]
  BY Zenon
<1>2. db[p] \in DbRecord
  BY Zenon DEF TypeOK
<1>3. /\ n \in DbRecord /\ n.open = db[p].open /\ n.pool = db[p].pool /\ n.conns = c
      /\ n.linger = db[p].linger /\ n.epoch = db[p].epoch
      /\ n.generation = db[p].generation /\ n.recreated = db[p].recreated
      /\ n.readers = db[p].readers /\ n.writer = db[p].writer /\ n.wrote = db[p].wrote
  BY Zenon, <1>1, <1>2 DEF DbRecord
<1>4. /\ db' \in [Proc -> DbRecord] /\ db'[p] = n
      /\ \A x \in Proc \ {p} : db'[x] = db[x]
  BY Zenon, <1>1, <1>3 DEF TypeOK
<1>5. QED
  BY Zenon, <1>3, <1>4 DEF DbTo

(* Rows are committed. *)
LEMMA WroteEffect ==
    ASSUME TypeOK, NEW p \in Proc, NEW g \in SUBSET Thread, NEW w \in SUBSET Nat,
           db' = [db EXCEPT ![p] = [@ EXCEPT !.readers = g, !.wrote = w]]
    PROVE  DbTo(p, db[p].open, db[p].pool, db[p].conns, db[p].linger, db[p].epoch,
                  db[p].generation, db[p].recreated, g, db[p].writer, w)
<1>1. PICK n : n = [db[p] EXCEPT !.readers = g, !.wrote = w]
  BY Zenon
<1>2. db[p] \in DbRecord
  BY Zenon DEF TypeOK
<1>3. /\ n \in DbRecord /\ n.open = db[p].open /\ n.pool = db[p].pool
      /\ n.conns = db[p].conns /\ n.linger = db[p].linger /\ n.epoch = db[p].epoch
      /\ n.generation = db[p].generation /\ n.recreated = db[p].recreated
      /\ n.readers = g /\ n.writer = db[p].writer /\ n.wrote = w
  BY Zenon, <1>1, <1>2 DEF DbRecord
<1>4. /\ db' \in [Proc -> DbRecord] /\ db'[p] = n
      /\ \A x \in Proc \ {p} : db'[x] = db[x]
  BY Zenon, <1>1, <1>3 DEF TypeOK
<1>5. QED
  BY Zenon, <1>3, <1>4 DEF DbTo

(* Both guards are dropped. *)
LEMMA GuardsEffect ==
    ASSUME TypeOK, NEW p \in Proc, NEW g \in SUBSET Thread, NEW w \in Thread \cup {None},
           db' = [db EXCEPT ![p] = [@ EXCEPT !.readers = g, !.writer = w]]
    PROVE  DbTo(p, db[p].open, db[p].pool, db[p].conns, db[p].linger, db[p].epoch,
                  db[p].generation, db[p].recreated, g, w, db[p].wrote)
<1>1. PICK n : n = [db[p] EXCEPT !.readers = g, !.writer = w]
  BY Zenon
<1>2. db[p] \in DbRecord
  BY Zenon DEF TypeOK
<1>3. /\ n \in DbRecord /\ n.open = db[p].open /\ n.pool = db[p].pool
      /\ n.conns = db[p].conns /\ n.linger = db[p].linger /\ n.epoch = db[p].epoch
      /\ n.generation = db[p].generation /\ n.recreated = db[p].recreated
      /\ n.readers = g /\ n.writer = w /\ n.wrote = db[p].wrote
  BY Zenon, <1>1, <1>2 DEF DbRecord
<1>4. /\ db' \in [Proc -> DbRecord] /\ db'[p] = n
      /\ \A x \in Proc \ {p} : db'[x] = db[x]
  BY Zenon, <1>1, <1>3 DEF TypeOK
<1>5. QED
  BY Zenon, <1>3, <1>4 DEF DbTo

(* A Db is closed for a recreate. *)
LEMMA CloseEffect ==
    ASSUME TypeOK, NEW p \in Proc, NEW w \in Thread,
           db' = [db EXCEPT ![p] = [[@ EXCEPT !.recreated = TRUE, !.pool = FALSE] EXCEPT !.conns = {}, !.writer = w]]
    PROVE  DbTo(p, db[p].open, FALSE, {}, db[p].linger, db[p].epoch, db[p].generation, TRUE,
                  db[p].readers, w, db[p].wrote)
<1>1. PICK n : n = [[db[p] EXCEPT !.recreated = TRUE, !.pool = FALSE] EXCEPT !.conns = {}, !.writer = w]
  BY Zenon
<1>2. db[p] \in DbRecord
  BY Zenon DEF TypeOK
<1>3. /\ n \in DbRecord /\ n.open = db[p].open /\ n.pool = FALSE /\ n.conns = {}
      /\ n.linger = db[p].linger /\ n.epoch = db[p].epoch
      /\ n.generation = db[p].generation /\ n.recreated = TRUE
      /\ n.readers = db[p].readers /\ n.writer = w /\ n.wrote = db[p].wrote
  BY Zenon, <1>1, <1>2 DEF DbRecord
<1>4. /\ db' \in [Proc -> DbRecord] /\ db'[p] = n
      /\ \A x \in Proc \ {p} : db'[x] = db[x]
  BY Zenon, <1>1, <1>3 DEF TypeOK
<1>5. QED
  BY Zenon, <1>3, <1>4 DEF DbTo

(* A connection outlives the closing of a Db. *)
LEMMA LingerEffect ==
    ASSUME TypeOK, NEW p \in Proc,
           db' = [db EXCEPT ![p] = [[@ EXCEPT !.recreated = TRUE, !.pool = FALSE] EXCEPT !.linger = TRUE]]
    PROVE  DbTo(p, db[p].open, FALSE, db[p].conns, TRUE, db[p].epoch, db[p].generation, TRUE,
                  db[p].readers, db[p].writer, db[p].wrote)
<1>1. PICK n : n = [[db[p] EXCEPT !.recreated = TRUE, !.pool = FALSE] EXCEPT !.linger = TRUE]
  BY Zenon
<1>2. db[p] \in DbRecord
  BY Zenon DEF TypeOK
<1>3. /\ n \in DbRecord /\ n.open = db[p].open /\ n.pool = FALSE
      /\ n.conns = db[p].conns /\ n.linger = TRUE /\ n.epoch = db[p].epoch
      /\ n.generation = db[p].generation /\ n.recreated = TRUE
      /\ n.readers = db[p].readers /\ n.writer = db[p].writer /\ n.wrote = db[p].wrote
  BY Zenon, <1>1, <1>2 DEF DbRecord
<1>4. /\ db' \in [Proc -> DbRecord] /\ db'[p] = n
      /\ \A x \in Proc \ {p} : db'[x] = db[x]
  BY Zenon, <1>1, <1>3 DEF TypeOK
<1>5. QED
  BY Zenon, <1>3, <1>4 DEF DbTo

(* It closes. *)
LEMMA LingerEndEffect ==
    ASSUME TypeOK, NEW p \in Proc,
           db' = [db EXCEPT ![p] = [@ EXCEPT !.linger = FALSE, !.conns = {}]]
    PROVE  DbTo(p, db[p].open, db[p].pool, {}, FALSE, db[p].epoch, db[p].generation,
                  db[p].recreated, db[p].readers, db[p].writer, db[p].wrote)
<1>1. PICK n : n = [db[p] EXCEPT !.linger = FALSE, !.conns = {}]
  BY Zenon
<1>2. db[p] \in DbRecord
  BY Zenon DEF TypeOK
<1>3. /\ n \in DbRecord /\ n.open = db[p].open /\ n.pool = db[p].pool /\ n.conns = {}
      /\ n.linger = FALSE /\ n.epoch = db[p].epoch /\ n.generation = db[p].generation
      /\ n.recreated = db[p].recreated /\ n.readers = db[p].readers
      /\ n.writer = db[p].writer /\ n.wrote = db[p].wrote
  BY Zenon, <1>1, <1>2 DEF DbRecord
<1>4. /\ db' \in [Proc -> DbRecord] /\ db'[p] = n
      /\ \A x \in Proc \ {p} : db'[x] = db[x]
  BY Zenon, <1>1, <1>3 DEF TypeOK
<1>5. QED
  BY Zenon, <1>3, <1>4 DEF DbTo

(* A recreate ends in an error. *)
LEMMA GiveUpEffect ==
    ASSUME TypeOK, NEW p \in Proc, NEW k \in BOOLEAN, NEW c \in SUBSET Nat,
           db' = [db EXCEPT ![p] = [@ EXCEPT !.writer = None, !.pool = k, !.conns = c]]
    PROVE  DbTo(p, db[p].open, k, c, db[p].linger, db[p].epoch, db[p].generation, db[p].recreated,
                  db[p].readers, None, db[p].wrote)
<1>1. PICK n : n = [db[p] EXCEPT !.writer = None, !.pool = k, !.conns = c]
  BY Zenon
<1>2. db[p] \in DbRecord
  BY Zenon DEF TypeOK
<1>3. /\ n \in DbRecord /\ n.open = db[p].open /\ n.pool = k /\ n.conns = c
      /\ n.linger = db[p].linger /\ n.epoch = db[p].epoch
      /\ n.generation = db[p].generation /\ n.recreated = db[p].recreated
      /\ n.readers = db[p].readers /\ n.writer = None /\ n.wrote = db[p].wrote
  BY Zenon, <1>1, <1>2 DEF DbRecord
<1>4. /\ db' \in [Proc -> DbRecord] /\ db'[p] = n
      /\ \A x \in Proc \ {p} : db'[x] = db[x]
  BY Zenon, <1>1, <1>3 DEF TypeOK
<1>5. QED
  BY Zenon, <1>3, <1>4 DEF DbTo

(* A Db is dropped. *)
LEMMA NoDbEffect ==
    ASSUME TypeOK, NEW p \in Proc, NEW w \in SUBSET Nat,
           db' = [db EXCEPT ![p] = [NoDb EXCEPT !.wrote = w]]
    PROVE  DbTo(p, FALSE, FALSE, {}, FALSE, 0, 0, FALSE, {}, None, w)
<1>1. PICK n : n = [NoDb EXCEPT !.wrote = w]
  BY Zenon
<1>2. db[p] \in DbRecord
  BY Zenon DEF TypeOK
<1>3. /\ n \in DbRecord /\ n.open = FALSE /\ n.pool = FALSE /\ n.conns = {}
      /\ n.linger = FALSE /\ n.epoch = 0 /\ n.generation = 0 /\ n.recreated = FALSE
      /\ n.readers = {} /\ n.writer = None /\ n.wrote = w
  BY Zenon, <1>1, <1>2 DEF DbRecord, NoDb
<1>4. /\ db' \in [Proc -> DbRecord] /\ db'[p] = n
      /\ \A x \in Proc \ {p} : db'[x] = db[x]
  BY Zenon, <1>1, <1>3 DEF TypeOK
<1>5. QED
  BY Zenon, <1>3, <1>4 DEF DbTo

-----------------------------------------------------------------------------
(* What a step leaves alone *)

USE DEF At, DbOf, InRun

(***************************************************************************)
(* A step of one thread that changes neither the file nor a Db keeps the   *)
(* invariant of everybody else, if the thread keeps the guards it has and  *)
(* is not in the middle of a recreate_files.                               *)
(***************************************************************************)
LEMMA LocalStep ==
    ASSUME SqliteInv, FieldTypes, NEW t \in Thread,
           \A u \in Thread \ {t} : my'[u] = my[u],
           UNCHANGED <<db, file, made, epoch, shared, faults>>,
           my'[t].bad = my[t].bad \/ my'[t].bad = Absent,
           my[t].pc \notin {"create", "bump"},
           my[t].pc \in ReadPcs => my'[t].pc \in ReadPcs,
           my[t].mode = "run" /\ my[t].pc \in RecreatePcs =>
              my'[t].mode = "run" /\ my'[t].pc \in RecreatePcs
    PROVE  /\ FileInv'
           /\ \A u \in Thread \ {t} : ThreadOK(u)'
           /\ \A p \in Proc : DbOK(p)'
<1>1. FileInv'
  BY ZenonT(60) DEF SqliteInv, FileInv
<1>2. ASSUME NEW u \in Thread \ {t} PROVE ThreadInv(u)' /\ StageInv(u)'
  <2>1. ThreadInv(u) /\ StageInv(u) /\ my'[u] = my[u]
    BY Zenon DEF SqliteInv, ThreadOK
  <2>2. QED
    BY <2>1 DEF ThreadInv, StageInv
<1>3. \A u \in Thread : Gone(u) => Gone(u)'
  BY Zenon DEF Gone
<1>4. ASSUME NEW u \in Thread \ {t} PROVE RetryInv(u)'
  <2>1. RetryInv(u) /\ my'[u] = my[u]
    BY Zenon DEF SqliteInv, ThreadOK
  <2>2. QED
    BY Zenon, <1>3, <2>1 DEF RetryInv
<1>5. ASSUME NEW u \in Thread \ {t} PROVE DeleteInv(u)'
  <2>1. DeleteInv(u) /\ my'[u] = my[u] /\ (Unusable(ProcOf[u]) => Unusable(ProcOf[u])')
    BY Zenon DEF SqliteInv, ThreadOK, Unusable, Newer
  <2>2. (\A v \in Thread : my'[v].pc # "bump") => (\A v \in Thread : my[v].pc # "bump")
    BY Zenon
  <2>3. QED
    BY Zenon, <2>1, <2>2 DEF DeleteInv
<1>6. ASSUME NEW p \in Proc PROVE DbOK(p)'
  <2>1. ConnsInv(p) /\ GuardsInv(p) /\ db[p].readers \subseteq Thread
        /\ db[p].writer \in Thread \cup {None}
    BY Zenon DEF SqliteInv, DbOK, FieldTypes
  <2>2. ConnsInv(p)'
    BY Zenon, <2>1 DEF ConnsInv
  <2>3. \A u \in Thread :
           /\ my[u].pc \in ReadPcs => my'[u].pc \in ReadPcs
           /\ my[u].mode = "run" /\ my[u].pc \in RecreatePcs =>
                 my'[u].mode = "run" /\ my'[u].pc \in RecreatePcs
    BY Zenon
  <2>4. GuardsInv(p)'
    BY Zenon, <2>1, <2>3 DEF GuardsInv
  <2>5. QED
    BY Zenon, <2>2, <2>4 DEF DbOK
<1>7. QED
  BY Zenon, <1>1, <1>2, <1>4, <1>5, <1>6 DEF ThreadOK

(***************************************************************************)
(* A step of process p that leaves the file where it is and as unusable as *)
(* it was, and the epoch, keeps the invariant of the other processes.      *)
(***************************************************************************)
LEMMA OthersStep ==
    ASSUME SqliteInv, FieldTypes, NEW p \in Proc,
           \A u \in Thread : ProcOf[u] # p => my'[u] = my[u],
           \A q \in Proc \ {p} : db'[q] = db[q] /\ (q \in shared' <=> q \in shared),
           UNCHANGED <<made, epoch>>, file'.inc = file.inc,
           \A q \in Proc : Unusable(q) => Unusable(q)',
           faults' = 0 => /\ faults = 0
                          /\ \A u \in Thread : my[u].pc \in {"create", "bump"} =>
                                my'[u].pc = my[u].pc,
           \A u \in Thread : ProcOf[u] = p => my'[u].bad = my[u].bad \/ my'[u].bad = Absent
                                              \/ shared # {}
    PROVE  /\ FileInv'
           /\ \A u \in Thread : ProcOf[u] # p => ThreadOK(u)'
           /\ \A q \in Proc \ {p} : DbOK(q)'
<1>1. FileInv'
  BY ZenonT(60) DEF SqliteInv, FileInv
<1>2. ASSUME NEW u \in Thread, ProcOf[u] # p PROVE ThreadInv(u)' /\ StageInv(u)'
  <2>1. /\ ThreadInv(u) /\ StageInv(u) /\ my'[u] = my[u] /\ db'[ProcOf[u]] = db[ProcOf[u]]
        /\ ProcOf[u] \in shared' <=> ProcOf[u] \in shared
    BY Zenon, <1>2 DEF SqliteInv, ThreadOK
  <2>2. QED
    BY <2>1 DEF ThreadInv, StageInv
<1>3. ASSUME NEW u \in Thread, ProcOf[u] # p PROVE RetryInv(u)'
  <2>1. RetryInv(u) /\ my'[u] = my[u] /\ db'[ProcOf[u]] = db[ProcOf[u]]
    BY Zenon, <1>3 DEF SqliteInv, ThreadOK
  <2>2. my[u].pc = "bump" => shared = {}
    BY Zenon DEF SqliteInv, LocksInv, DeletePcs
  <2>3. my[u].pc = "bump" => \A v \in Thread : Gone(v) => Gone(v)'
    BY Zenon, <2>2 DEF Gone
  <2>4. \A v \in Thread : ProcOf[v] = ProcOf[u] /\ Gone(v) => Gone(v)'
    BY Zenon, <1>3 DEF Gone
  <2>5. QED
    BY Zenon, <2>1, <2>3, <2>4 DEF RetryInv
<1>4. ASSUME NEW u \in Thread, ProcOf[u] # p PROVE DeleteInv(u)'
  <2>1. /\ DeleteInv(u) /\ my'[u] = my[u] /\ db'[ProcOf[u]] = db[ProcOf[u]]
        /\ Unusable(ProcOf[u]) => Unusable(ProcOf[u])'
    BY Zenon, <1>4 DEF SqliteInv, ThreadOK
  <2>2. faults' = 0 /\ (\A v \in Thread : my'[v].pc # "bump")
           => faults = 0 /\ \A v \in Thread : my[v].pc # "bump"
    BY Zenon
  <2>3. QED
    BY Zenon, <2>1, <2>2 DEF DeleteInv
<1>5. ASSUME NEW q \in Proc \ {p} PROVE DbOK(q)'
  <2>1. /\ ConnsInv(q) /\ GuardsInv(q) /\ db[q].readers \subseteq Thread
        /\ db[q].writer \in Thread \cup {None} /\ db'[q] = db[q]
        /\ q \in shared' <=> q \in shared
    BY Zenon DEF SqliteInv, DbOK, FieldTypes
  <2>2. ConnsInv(q)'
    BY Zenon, <2>1 DEF ConnsInv
  <2>3. GuardsInv(q)'
    BY <2>1 DEF GuardsInv
  <2>4. QED
    BY Zenon, <2>2, <2>3 DEF DbOK
<1>6. QED
  BY Zenon, <1>1, <1>2, <1>3, <1>4, <1>5 DEF ThreadOK

(***************************************************************************)
(* While a thread opens or recreates, no other thread of its process does, *)
(* and none has the read guard.                                            *)
(***************************************************************************)
LEMMA AloneInProcess ==
    ASSUME SqliteInv, FieldTypes, NEW t \in Thread, my[t].pc \in BootPcs,
           NEW u \in Thread, u # t, ProcOf[u] = ProcOf[t]
    PROVE  /\ my[u].pc \in {"idle", "boot", "read", "recreate"}
           /\ my[t].mode = "open" => my[u].pc \in {"idle", "boot"}
<1>1. boot = t /\ my[u].pc \notin BootPcs
  BY Zenon DEF SqliteInv, LocksInv
<1>2. /\ ThreadInv(t) /\ ThreadInv(u) /\ ConnsInv(ProcOf[t]) /\ GuardsInv(ProcOf[t])
      /\ my[u].pc \in Labels /\ my[t].mode \in {"open", "run"}
  BY Zenon DEF SqliteInv, ThreadOK, DbOK, FieldTypes
<1>3. CASE my[t].mode = "open"
  <2>1. ~DbOf(u).open /\ DbOf(u).readers = {}
    BY Zenon, <1>2, <1>3 DEF ThreadInv, ConnsInv
  <2>2. my[u].pc \notin ReadPcs \cup {"read", "recreate", "rboot"}
    BY Zenon, <1>2, <2>1 DEF ThreadInv, ReadPcs
  <2>3. QED
    BY Zenon, <1>1, <1>2, <2>2 DEF Labels, BootPcs, ReadPcs
<1>4. CASE my[t].mode = "run"
  <2>1. my[t].pc \in RecreatePcs
    BY Zenon, <1>2, <1>4 DEF ThreadInv, BootPcs, RecreatePcs
  <2>2. DbOf(u).writer = t /\ DbOf(u).readers = {}
    BY ZenonT(60), <1>2, <1>4, <2>1 DEF ThreadInv, GuardsInv
  <2>3. my[u].pc \notin ReadPcs \cup {"rboot"}
    BY Zenon, <1>2, <2>2 DEF ThreadInv, ReadPcs, RecreatePcs
  <2>4. QED
    BY Zenon, <1>1, <1>2, <1>4, <2>3 DEF Labels, BootPcs, ReadPcs
<1>5. QED
  BY Zenon, <1>2, <1>3, <1>4


(***************************************************************************)
(* A step of recreate_files, or one that makes the file anew, by thread t, *)
(* while nobody has a pool or a connection and after which every file that *)
(* an attempt failed on is gone.                                           *)
(***************************************************************************)
LEMMA FileStep ==
    ASSUME SqliteInv, FieldTypes, NEW t \in Thread, my[t].pc \in BootPcs,
           \A u \in Thread \ {t} : my'[u] = my[u],
           \A q \in Proc \ {ProcOf[t]} : db'[q] = db[q] /\ (q \in shared' <=> q \in shared),
           \A q \in Proc : ~db[q].pool /\ db[q].conns = {},
           made' \in Nat, made' >= made, epoch' \in Nat, epoch' >= epoch,
           epoch' = epoch \/ shared = {},
           \A u \in Thread : Gone(u)'
    PROVE  /\ \A u \in Thread : ProcOf[u] # ProcOf[t] =>
                 ThreadInv(u)' /\ StageInv(u)' /\ RetryInv(u)'
           /\ \A q \in Proc \ {ProcOf[t]} : DbOK(q)'
<1>1. ASSUME NEW u \in Thread, ProcOf[u] # ProcOf[t]
      PROVE  ThreadInv(u)' /\ StageInv(u)' /\ RetryInv(u)'
  <2>1. /\ ThreadInv(u) /\ StageInv(u) /\ RetryInv(u) /\ my'[u] = my[u]
        /\ db'[ProcOf[u]] = db[ProcOf[u]] /\ ProcOf[u] \in Proc
        /\ my[u].pc \notin BootPcs
    BY Zenon, <1>1 DEF SqliteInv, ThreadOK, FieldTypes, LocksInv
  <2>2. ThreadInv(u)'
    BY ZenonT(60), <2>1 DEF ThreadInv
  <2>3. StageInv(u)'
    BY SMTT(60), <2>1 DEF StageInv, FieldTypes, BootPcs
  <2>4. RetryInv(u)'
    BY <2>1 DEF RetryInv, FieldTypes
  <2>5. QED
    BY Zenon, <2>2, <2>3, <2>4
<1>2. ASSUME NEW q \in Proc \ {ProcOf[t]} PROVE DbOK(q)'
  <2>1. /\ ConnsInv(q) /\ GuardsInv(q) /\ db'[q] = db[q]
        /\ q \in shared' <=> q \in shared
        /\ ~db[q].pool /\ db[q].conns = {} /\ (made # 0 => made' # 0)
        /\ db[q].readers \subseteq Thread /\ db[q].writer \in Thread \cup {None}
        /\ (db[q].epoch <= epoch => db[q].epoch <= epoch')
    BY DEF SqliteInv, DbOK, FieldTypes
  <2>2. ConnsInv(q)'
    BY Zenon, <2>1 DEF ConnsInv
  <2>3. \A u \in Thread : ProcOf[u] = q => my'[u] = my[u]
    BY Zenon
  <2>4. GuardsInv(q)'
    BY ZenonT(60), <2>1, <2>3 DEF GuardsInv
  <2>5. QED
    BY ZenonT(60), <2>2, <2>4 DEF DbOK
<1>3. QED
  BY Zenon, <1>1, <1>2

(* A thread that waits for a guard or the lock, or is in no call, needs    *)
(* no more of the Db than that it is open.                                 *)
LEMMA WaitsOn ==
    ASSUME NEW u \in Thread, ThreadInv(u), StageInv(u), my'[u] = my[u],
           my[u].pc \in {"idle", "boot", "read", "recreate"},
           my[u].pc \in {"read", "recreate"} => db'[ProcOf[u]].open
    PROVE  ThreadInv(u)' /\ StageInv(u)'
<1>1. ThreadInv(u)'
  BY Zenon DEF ThreadInv, BootPcs, RecreatePcs, ReadPcs
<1>2. StageInv(u)'
  BY Zenon DEF StageInv, RecreatePcs
<1>3. QED
  BY Zenon, <1>1, <1>2

-----------------------------------------------------------------------------
(* Steps of one thread that change neither the file nor a Db *)

(* A call of open begins. *)
LEMMA OpenBeginStep ==
    ASSUME SqliteInv, NEW t \in Thread, OpenBegin(t)
    PROVE  SqliteInv'
<1> DEFINE p == ProcOf[t]
<1>0. TypeOK /\ FieldTypes
  BY Zenon, FieldTypesHold DEF SqliteInv
<1>1. /\ p \in Proc /\ LocksInv /\ FileInv /\ ConnsInv(p) /\ GuardsInv(p)
      /\ ThreadInv(t) /\ StageInv(t) /\ RetryInv(t) /\ DeleteInv(t)
  BY Zenon, <1>0 DEF SqliteInv, ThreadOK, DbOK, FieldTypes
<1>2. /\ my[t].pc = "idle" /\ my[t].mode = "run" /\ my[t].bad = Absent
  BY Zenon, <1>0, <1>1 DEF OpenBegin, LocksInv, ThreadInv, StageInv, ConnsInv,
     GuardsInv,
     FieldTypes, BootPcs, DeletePcs, RecreatePcs, ReadPcs
<1>3. ThreadTo(t, "boot", "open", "enable", FALSE, 0, Absent, Absent)
  BY Zenon, <1>0, OpenBeginEffect DEF OpenBegin
<1>5. /\ UNCHANGED db
      /\ UNCHANGED <<file, made, epoch, boot, excl, shared, damages, faults>>
  BY ZenonT(60) DEF OpenBegin, dbVars, lockVars, budgets
<1> USE <1>0, <1>1, <1>2, <1>3, <1>5
<1>6. TypeOK'
  BY Zenon DEF TypeOK, ThreadTo
<1>7. LocksInv'
  BY ZenonT(60) DEF LocksInv, ThreadTo, FieldTypes, BootPcs, DeletePcs
<1>8. /\ FileInv' /\ \A u \in Thread \ {t} : ThreadOK(u)'
      /\ \A q \in Proc : DbOK(q)'
  BY Zenon, LocalStep DEF ThreadTo, ReadPcs, RecreatePcs
<1>9. ThreadInv(t)'
  BY Zenon DEF ThreadInv, ThreadTo, FieldTypes, BootPcs, RecreatePcs, ReadPcs
<1>10. StageInv(t)'
  BY Zenon DEF StageInv, ThreadTo, RecreatePcs
<1>11. RetryInv(t)'
  BY Zenon DEF RetryInv, Gone, ThreadTo, FieldTypes
<1>12. DeleteInv(t)'
  BY ZenonT(60) DEF DeleteInv, Unusable, Newer, ThreadTo
<1>13. QED
  BY ONLY Zenon, <1>6, <1>7, <1>8, <1>9, <1>10, <1>11, <1>12 DEF SqliteInv, ThreadOK

(* open finds that its process has the Db. *)
LEMMA OpenSharesStep ==
    ASSUME SqliteInv, NEW t \in Thread, OpenLocked(t), db[ProcOf[t]].open
    PROVE  SqliteInv'
<1> DEFINE p == ProcOf[t]
<1>0. TypeOK /\ FieldTypes
  BY Zenon, FieldTypesHold DEF SqliteInv
<1>1. /\ p \in Proc /\ LocksInv /\ FileInv /\ ConnsInv(p) /\ GuardsInv(p)
      /\ ThreadInv(t) /\ StageInv(t) /\ RetryInv(t) /\ DeleteInv(t)
  BY Zenon, <1>0 DEF SqliteInv, ThreadOK, DbOK, FieldTypes
<1>2. /\ my[t].pc = "boot" /\ my[t].mode = "open"
  BY Zenon, <1>0, <1>1 DEF OpenLocked, LocksInv, ThreadInv, StageInv, ConnsInv,
     GuardsInv,
     FieldTypes, BootPcs, DeletePcs, RecreatePcs, ReadPcs
<1>3. ThreadTo(t, "idle", "run", "enable", FALSE, 0, Absent, Absent)
  BY <1>0, IdleEffect, Zenon DEF OpenLocked
<1>5. /\ UNCHANGED db
      /\ UNCHANGED <<file, made, epoch, boot, excl, shared, damages, faults>>
  BY Zenon DEF OpenLocked, dbVars, lockVars, budgets
<1> USE <1>0, <1>1, <1>2, <1>3, <1>5
<1>6. TypeOK'
  BY ZenonT(60) DEF TypeOK, ThreadTo
<1>7. LocksInv'
  BY SMTT(60) DEF LocksInv, ThreadTo, FieldTypes, BootPcs, DeletePcs
<1>8. /\ FileInv' /\ \A u \in Thread \ {t} : ThreadOK(u)'
      /\ \A q \in Proc : DbOK(q)'
  BY Zenon, LocalStep DEF ThreadTo, ReadPcs, RecreatePcs
<1>9. ThreadInv(t)'
  BY Zenon DEF ThreadInv, ThreadTo, FieldTypes, BootPcs, RecreatePcs, ReadPcs
<1>10. StageInv(t)'
  BY ZenonT(60) DEF StageInv, ThreadTo, RecreatePcs
<1>11. RetryInv(t)'
  BY DEF RetryInv, Gone, ThreadTo, FieldTypes, FieldTypes
<1>12. DeleteInv(t)'
  BY ZenonT(60) DEF DeleteInv, Unusable, Newer, ThreadTo
<1>13. QED
  BY ONLY Zenon, <1>6, <1>7, <1>8, <1>9, <1>10, <1>11, <1>12 DEF SqliteInv, ThreadOK

(* open has the bootstrap lock. *)
LEMMA OpenLocksStep ==
    ASSUME SqliteInv, NEW t \in Thread, OpenLocked(t), ~db[ProcOf[t]].open
    PROVE  SqliteInv'
<1> DEFINE p == ProcOf[t]
<1>0. TypeOK /\ FieldTypes
  BY Zenon, FieldTypesHold DEF SqliteInv
<1>1. /\ p \in Proc /\ LocksInv /\ FileInv /\ ConnsInv(p) /\ GuardsInv(p)
      /\ ThreadInv(t) /\ StageInv(t) /\ RetryInv(t) /\ DeleteInv(t)
  BY Zenon, <1>0 DEF SqliteInv, ThreadOK, DbOK, FieldTypes
<1>2. /\ my[t].pc = "boot" /\ my[t].mode = "open" /\ boot = None /\ excl = None
      /\ ~db[p].open
  BY Zenon, <1>0, <1>1 DEF OpenLocked, LocksInv, ThreadInv, StageInv, ConnsInv,
     GuardsInv,
     FieldTypes, BootPcs, DeletePcs, RecreatePcs, ReadPcs
<1>3. ThreadTo(t, "enable", my[t].mode, my[t].via, my[t].second, my[t].seen, my[t].inc,
                     my[t].bad)
  BY <1>0, GoToEffect, Zenon DEF OpenLocked, GoTo, Labels
<1>5. /\ boot' = t /\ UNCHANGED db
      /\ UNCHANGED <<file, made, epoch, excl, shared, damages, faults>>
  BY ZenonT(60) DEF OpenLocked, dbVars, lockVars, budgets
<1> USE <1>0, <1>1, <1>2, <1>3, <1>5
<1>6. TypeOK'
  BY Zenon DEF TypeOK, ThreadTo
<1>7. LocksInv'
  BY ZenonT(60) DEF LocksInv, ThreadTo, FieldTypes, BootPcs, DeletePcs
<1>8. /\ FileInv' /\ \A u \in Thread \ {t} : ThreadOK(u)'
      /\ \A q \in Proc : DbOK(q)'
  BY Zenon, LocalStep DEF ThreadTo, ReadPcs, RecreatePcs
<1>9. ThreadInv(t)'
  BY Zenon DEF ThreadInv, ThreadTo, FieldTypes, BootPcs, RecreatePcs, ReadPcs
<1>10. StageInv(t)'
  BY Zenon DEF StageInv, ThreadTo, RecreatePcs
<1>11. RetryInv(t)'
  BY Zenon DEF RetryInv, Gone, ThreadTo, FieldTypes
<1>12. DeleteInv(t)'
  BY ZenonT(60) DEF DeleteInv, Unusable, Newer, ThreadTo
<1>13. QED
  BY ONLY Zenon, <1>6, <1>7, <1>8, <1>9, <1>10, <1>11, <1>12 DEF SqliteInv, ThreadOK

(* open is alone with a damaged file. *)
LEMMA EnableDeletesStep ==
    ASSUME SqliteInv, NEW t \in Thread, EnableWal(t), WalFails(ProcOf[t]), file.damage =
           "header", shared = {}
    PROVE  SqliteInv'
<1> DEFINE p == ProcOf[t]
<1>0. TypeOK /\ FieldTypes
  BY Zenon, FieldTypesHold DEF SqliteInv
<1>1. /\ p \in Proc /\ LocksInv /\ FileInv /\ ConnsInv(p) /\ GuardsInv(p)
      /\ ThreadInv(t) /\ StageInv(t) /\ RetryInv(t) /\ DeleteInv(t)
  BY ZenonT(60), <1>0 DEF SqliteInv, ThreadOK, DbOK, FieldTypes
<1>2. /\ my[t].pc = "enable" /\ my[t].mode = "open" /\ boot = t /\ excl = None
      /\ ~db[p].open /\ file.inc # Absent /\ made # 0
  BY <1>0, <1>1 DEF EnableWal, WalFails, FileInv, LocksInv, ThreadInv, StageInv,
     ConnsInv, GuardsInv, FieldTypes, BootPcs, DeletePcs, RecreatePcs, ReadPcs
<1>3. ThreadTo(t, "delete", my[t].mode, "enable", my[t].second, my[t].seen, my[t].inc,
                     my[t].bad)
  BY <1>0, ViaEffect, Zenon DEF EnableWal, Labels
<1>5. /\ excl' = p /\ UNCHANGED db
      /\ UNCHANGED <<file, made, epoch, boot, shared, damages, faults>>
  BY Zenon DEF EnableWal, dbVars, lockVars, budgets
<1> USE <1>0, <1>1, <1>2, <1>3, <1>5
<1>6. TypeOK'
  BY Zenon DEF TypeOK, ThreadTo
<1>7. LocksInv'
  BY ZenonT(60) DEF LocksInv, ThreadTo, FieldTypes, BootPcs, DeletePcs
<1>8. /\ FileInv' /\ \A u \in Thread \ {t} : ThreadOK(u)'
      /\ \A q \in Proc : DbOK(q)'
  BY Zenon, LocalStep DEF ThreadTo, ReadPcs, RecreatePcs
<1>9. ThreadInv(t)'
  BY Zenon DEF ThreadInv, ThreadTo, FieldTypes, BootPcs, RecreatePcs, ReadPcs
<1>10. StageInv(t)'
  BY Zenon DEF StageInv, ThreadTo, RecreatePcs
<1>11. RetryInv(t)'
  BY Zenon DEF RetryInv, Gone, ThreadTo, FieldTypes
<1>12. DeleteInv(t)'
  BY Zenon DEF DeleteInv, Unusable, Newer, ThreadTo
<1>13. QED
  BY ONLY Zenon, <1>6, <1>7, <1>8, <1>9, <1>10, <1>11, <1>12 DEF SqliteInv, ThreadOK

(* A call of run begins. *)
LEMMA RunBeginStep ==
    ASSUME SqliteInv, NEW t \in Thread, RunBegin(t)
    PROVE  SqliteInv'
<1> DEFINE p == ProcOf[t]
<1>0. TypeOK /\ FieldTypes
  BY Zenon, FieldTypesHold DEF SqliteInv
<1>1. /\ p \in Proc /\ LocksInv /\ FileInv /\ ConnsInv(p) /\ GuardsInv(p)
      /\ ThreadInv(t) /\ StageInv(t) /\ RetryInv(t) /\ DeleteInv(t)
  BY Zenon, <1>0 DEF SqliteInv, ThreadOK, DbOK, FieldTypes
<1>2. /\ my[t].pc = "idle" /\ my[t].mode = "run" /\ my[t].bad = Absent /\ db[p].open
  BY Zenon, <1>0, <1>1 DEF RunBegin, LocksInv, ThreadInv, StageInv, ConnsInv,
     GuardsInv,
     FieldTypes, BootPcs, DeletePcs, RecreatePcs, ReadPcs
<1>3. ThreadTo(t, "read", "run", "enable", FALSE, 0, Absent, Absent)
  BY <1>0, RunBeginEffect, Zenon DEF RunBegin
<1>5. /\ UNCHANGED db
      /\ UNCHANGED <<file, made, epoch, boot, excl, shared, damages, faults>>
  BY Zenon DEF RunBegin, dbVars, lockVars, budgets
<1> USE <1>0, <1>1, <1>2, <1>3, <1>5
<1>6. TypeOK'
  BY Zenon DEF TypeOK, ThreadTo
<1>7. LocksInv'
  BY ZenonT(60) DEF LocksInv, ThreadTo, FieldTypes, BootPcs, DeletePcs
<1>8. /\ FileInv' /\ \A u \in Thread \ {t} : ThreadOK(u)'
      /\ \A q \in Proc : DbOK(q)'
  BY Zenon, LocalStep DEF ThreadTo, ReadPcs, RecreatePcs
<1>9. ThreadInv(t)'
  BY Zenon DEF ThreadInv, ThreadTo, FieldTypes, BootPcs, RecreatePcs, ReadPcs
<1>10. StageInv(t)'
  BY Zenon DEF StageInv, ThreadTo, RecreatePcs
<1>11. RetryInv(t)'
  BY Zenon DEF RetryInv, Gone, ThreadTo, FieldTypes
<1>12. DeleteInv(t)'
  BY Zenon DEF DeleteInv, Unusable, Newer, ThreadTo
<1>13. QED
  BY ONLY Zenon, <1>6, <1>7, <1>8, <1>9, <1>10, <1>11, <1>12 DEF SqliteInv, ThreadOK

(* An operation of run_locked has the bootstrap lock. *)
LEMMA TakeLockStep ==
    ASSUME SqliteInv, NEW t \in Thread, TakeLock(t)
    PROVE  SqliteInv'
<1> DEFINE p == ProcOf[t]
<1>0. TypeOK /\ FieldTypes
  BY Zenon, FieldTypesHold DEF SqliteInv
<1>1. /\ p \in Proc /\ LocksInv /\ FileInv /\ ConnsInv(p) /\ GuardsInv(p)
      /\ ThreadInv(t) /\ StageInv(t) /\ RetryInv(t) /\ DeleteInv(t)
  BY Zenon, <1>0 DEF SqliteInv, ThreadOK, DbOK, FieldTypes
<1>2. /\ my[t].pc = "lock" /\ my[t].mode = "run" /\ boot = None /\ excl = None
      /\ db[p].open
  BY Zenon, <1>0, <1>1 DEF TakeLock, LocksInv, ThreadInv, StageInv, ConnsInv,
     GuardsInv,
     FieldTypes, BootPcs, DeletePcs, RecreatePcs, ReadPcs
<1>3. ThreadTo(t, "checkout", my[t].mode, my[t].via, my[t].second, my[t].seen, my[t].inc,
                     my[t].bad)
  BY <1>0, GoToEffect, Zenon DEF TakeLock, GoTo, Labels
<1>5. /\ boot' = t /\ UNCHANGED db
      /\ UNCHANGED <<file, made, epoch, excl, shared, damages, faults>>
  BY Zenon DEF TakeLock, dbVars, lockVars, budgets
<1> USE <1>0, <1>1, <1>2, <1>3, <1>5
<1>6. TypeOK'
  BY ZenonT(60) DEF TypeOK, ThreadTo
<1>7. LocksInv'
  BY DEF LocksInv, ThreadTo, FieldTypes, BootPcs, DeletePcs
<1>8. /\ FileInv' /\ \A u \in Thread \ {t} : ThreadOK(u)'
      /\ \A q \in Proc : DbOK(q)'
  BY Zenon, LocalStep DEF ThreadTo, ReadPcs, RecreatePcs
<1>9. ThreadInv(t)'
  BY Zenon DEF ThreadInv, ThreadTo, FieldTypes, BootPcs, RecreatePcs, ReadPcs
<1>10. StageInv(t)'
  BY Zenon DEF StageInv, ThreadTo, RecreatePcs
<1>11. RetryInv(t)'
  BY Zenon DEF RetryInv, Gone, ThreadTo, FieldTypes
<1>12. DeleteInv(t)'
  BY ZenonT(60) DEF DeleteInv, Unusable, Newer, ThreadTo
<1>13. QED
  BY ONLY Zenon, <1>6, <1>7, <1>8, <1>9, <1>10, <1>11, <1>12 DEF SqliteInv, ThreadOK

(* The file was reopened since: the operation runs again. *)
LEMMA RecreateAgainStep ==
    ASSUME SqliteInv, NEW t \in Thread, Recreate(t), db[ProcOf[t]].generation #
           my[t].seen
    PROVE  SqliteInv'
<1> DEFINE p == ProcOf[t]
<1>0. TypeOK /\ FieldTypes
  BY Zenon, FieldTypesHold DEF SqliteInv
<1>1. /\ p \in Proc /\ LocksInv /\ FileInv /\ ConnsInv(p) /\ GuardsInv(p)
      /\ ThreadInv(t) /\ StageInv(t) /\ RetryInv(t) /\ DeleteInv(t)
  BY Zenon, <1>0 DEF SqliteInv, ThreadOK, DbOK, FieldTypes
<1>2. /\ my[t].pc = "recreate" /\ my[t].mode = "run" /\ db[p].open
  BY Zenon, <1>0, <1>1 DEF Recreate, LocksInv, ThreadInv, StageInv, ConnsInv,
     GuardsInv,
     FieldTypes, BootPcs, DeletePcs, RecreatePcs, ReadPcs
<1>3. ThreadTo(t, "read", my[t].mode, my[t].via, TRUE, my[t].seen, my[t].inc, my[t].bad)
  BY <1>0, AgainEffect, Zenon DEF Recreate
<1>5. /\ UNCHANGED db
      /\ UNCHANGED <<file, made, epoch, boot, excl, shared, damages, faults>>
  BY Zenon DEF Recreate, dbVars, lockVars, budgets
<1> USE <1>0, <1>1, <1>2, <1>3, <1>5
<1>6. TypeOK'
  BY Zenon DEF TypeOK, ThreadTo
<1>7. LocksInv'
  BY SMTT(60) DEF LocksInv, ThreadTo, FieldTypes, BootPcs, DeletePcs
<1>8. /\ FileInv' /\ \A u \in Thread \ {t} : ThreadOK(u)'
      /\ \A q \in Proc : DbOK(q)'
  BY Zenon, LocalStep DEF ThreadTo, ReadPcs, RecreatePcs
<1>9. ThreadInv(t)'
  BY Zenon DEF ThreadInv, ThreadTo, FieldTypes, BootPcs, RecreatePcs, ReadPcs
<1>10. StageInv(t)'
  BY Zenon DEF StageInv, ThreadTo, RecreatePcs
<1>11. RetryInv(t)'
  BY Zenon DEF RetryInv, Gone, ThreadTo, FieldTypes
<1>12. DeleteInv(t)'
  BY Zenon DEF DeleteInv, Unusable, Newer, ThreadTo
<1>13. QED
  BY ONLY Zenon, <1>6, <1>7, <1>8, <1>9, <1>10, <1>11, <1>12 DEF SqliteInv, ThreadOK

(* The Db was recreated once before: the query fails. *)
LEMMA RecreateNoStep ==
    ASSUME SqliteInv, NEW t \in Thread, Recreate(t), db[ProcOf[t]].generation =
           my[t].seen, db[ProcOf[t]].recreated
    PROVE  SqliteInv'
<1> DEFINE p == ProcOf[t]
<1>0. TypeOK /\ FieldTypes
  BY Zenon, FieldTypesHold DEF SqliteInv
<1>1. /\ p \in Proc /\ LocksInv /\ FileInv /\ ConnsInv(p) /\ GuardsInv(p)
      /\ ThreadInv(t) /\ StageInv(t) /\ RetryInv(t) /\ DeleteInv(t)
  BY Zenon, <1>0 DEF SqliteInv, ThreadOK, DbOK, FieldTypes
<1>2. /\ my[t].pc = "recreate" /\ my[t].mode = "run"
  BY Zenon, <1>0, <1>1 DEF Recreate, LocksInv, ThreadInv, StageInv, ConnsInv,
     GuardsInv,
     FieldTypes, BootPcs, DeletePcs, RecreatePcs, ReadPcs
<1>3. ThreadTo(t, "idle", "run", "enable", FALSE, 0, Absent, Absent)
  BY <1>0, IdleEffect, Zenon DEF Recreate
<1>5. /\ UNCHANGED db
      /\ UNCHANGED <<file, made, epoch, boot, excl, shared, damages, faults>>
  BY Zenon DEF Recreate, dbVars, lockVars, budgets
<1> USE <1>0, <1>1, <1>2, <1>3, <1>5
<1>6. TypeOK'
  BY Zenon DEF TypeOK, ThreadTo
<1>7. LocksInv'
  BY Zenon DEF LocksInv, ThreadTo, FieldTypes, BootPcs, DeletePcs
<1>8. /\ FileInv' /\ \A u \in Thread \ {t} : ThreadOK(u)'
      /\ \A q \in Proc : DbOK(q)'
  BY Zenon, LocalStep DEF ThreadTo, ReadPcs, RecreatePcs
<1>9. ThreadInv(t)'
  BY Zenon DEF ThreadInv, ThreadTo, FieldTypes, BootPcs, RecreatePcs, ReadPcs
<1>10. StageInv(t)'
  BY Zenon DEF StageInv, ThreadTo, RecreatePcs
<1>11. RetryInv(t)'
  BY DEF RetryInv, Gone, ThreadTo, FieldTypes, FieldTypes
<1>12. DeleteInv(t)'
  BY ZenonT(60) DEF DeleteInv, Unusable, Newer, ThreadTo
<1>13. QED
  BY ONLY Zenon, <1>6, <1>7, <1>8, <1>9, <1>10, <1>11, <1>12 DEF SqliteInv, ThreadOK

(* A recreate has the bootstrap lock. *)
LEMMA RecreateLockStep ==
    ASSUME SqliteInv, NEW t \in Thread, RecreateLock(t)
    PROVE  SqliteInv'
<1> DEFINE p == ProcOf[t]
<1>0. TypeOK /\ FieldTypes
  BY Zenon, FieldTypesHold DEF SqliteInv
<1>1. /\ p \in Proc /\ LocksInv /\ FileInv /\ ConnsInv(p) /\ GuardsInv(p)
      /\ ThreadInv(t) /\ StageInv(t) /\ RetryInv(t) /\ DeleteInv(t)
  BY Zenon, <1>0 DEF SqliteInv, ThreadOK, DbOK, FieldTypes
<1>2. /\ my[t].pc = "rboot" /\ my[t].mode = "run" /\ boot = None /\ excl = None
      /\ my[t].via = "reset" /\ made # 0
  BY Zenon, <1>0, <1>1 DEF RecreateLock, LocksInv, ThreadInv, StageInv, ConnsInv,
     GuardsInv,
     FieldTypes, BootPcs, DeletePcs, RecreatePcs, ReadPcs
<1>3. ThreadTo(t, "reset", my[t].mode, my[t].via, my[t].second, my[t].seen, my[t].inc,
                     my[t].bad)
  BY <1>0, GoToEffect, Zenon DEF RecreateLock, GoTo, Labels
<1>5. /\ boot' = t /\ UNCHANGED db
      /\ UNCHANGED <<file, made, epoch, excl, shared, damages, faults>>
  BY Zenon DEF RecreateLock, dbVars, lockVars, budgets
<1> USE <1>0, <1>1, <1>2, <1>3, <1>5
<1>6. TypeOK'
  BY Zenon DEF TypeOK, ThreadTo
<1>7. LocksInv'
  BY ZenonT(60) DEF LocksInv, ThreadTo, FieldTypes, BootPcs, DeletePcs
<1>8. /\ FileInv' /\ \A u \in Thread \ {t} : ThreadOK(u)'
      /\ \A q \in Proc : DbOK(q)'
  BY Zenon, LocalStep DEF ThreadTo, ReadPcs, RecreatePcs
<1>9. ThreadInv(t)'
  BY Zenon DEF ThreadInv, ThreadTo, FieldTypes, BootPcs, RecreatePcs, ReadPcs
<1>10. StageInv(t)'
  BY Zenon DEF StageInv, ThreadTo, RecreatePcs
<1>11. RetryInv(t)'
  BY Zenon DEF RetryInv, Gone, ThreadTo, FieldTypes
<1>12. DeleteInv(t)'
  BY ZenonT(60) DEF DeleteInv, Unusable, Newer, ThreadTo
<1>13. QED
  BY ONLY Zenon, <1>6, <1>7, <1>8, <1>9, <1>10, <1>11, <1>12 DEF SqliteInv, ThreadOK

(* A peer recreated the file. *)
LEMMA ResetSharesStep ==
    ASSUME SqliteInv, NEW t \in Thread, Reset(t), epoch # db[ProcOf[t]].epoch
    PROVE  SqliteInv'
<1> DEFINE p == ProcOf[t]
<1>0. TypeOK /\ FieldTypes
  BY Zenon, FieldTypesHold DEF SqliteInv
<1>1. /\ p \in Proc /\ LocksInv /\ FileInv /\ ConnsInv(p) /\ GuardsInv(p)
      /\ ThreadInv(t) /\ StageInv(t) /\ RetryInv(t) /\ DeleteInv(t)
  BY Zenon, <1>0 DEF SqliteInv, ThreadOK, DbOK, FieldTypes
<1>2. /\ my[t].pc = "reset" /\ boot = t /\ excl = None /\ my[t].via = "reset"
      /\ made # 0
  BY Zenon, <1>0, <1>1 DEF Reset, LocksInv, ThreadInv, StageInv, ConnsInv,
     GuardsInv,
     FieldTypes, BootPcs, DeletePcs, RecreatePcs, ReadPcs
<1>3. ThreadTo(t, "share", my[t].mode, my[t].via, my[t].second, my[t].seen, my[t].inc,
                     my[t].bad)
  BY <1>0, GoToEffect, Zenon DEF Reset, GoTo, Labels
<1>5. /\ UNCHANGED db
      /\ UNCHANGED <<file, made, epoch, boot, excl, shared, damages, faults>>
  BY Zenon DEF Reset, dbVars, lockVars, budgets
<1> USE <1>0, <1>1, <1>2, <1>3, <1>5
<1>6. TypeOK'
  BY Zenon DEF TypeOK, ThreadTo
<1>7. LocksInv'
  BY ZenonT(60) DEF LocksInv, ThreadTo, FieldTypes, BootPcs, DeletePcs
<1>8. /\ FileInv' /\ \A u \in Thread \ {t} : ThreadOK(u)'
      /\ \A q \in Proc : DbOK(q)'
  BY Zenon, LocalStep DEF ThreadTo, ReadPcs, RecreatePcs
<1>9. ThreadInv(t)'
  BY Zenon DEF ThreadInv, ThreadTo, FieldTypes, BootPcs, RecreatePcs, ReadPcs
<1>10. StageInv(t)'
  BY ZenonT(60) DEF StageInv, ThreadTo, RecreatePcs
<1>11. RetryInv(t)'
  BY DEF RetryInv, Gone, ThreadTo, FieldTypes, SqliteInv, ThreadOK
<1>12. DeleteInv(t)'
  BY Zenon DEF DeleteInv, Unusable, Newer, ThreadTo
<1>13. QED
  BY ONLY Zenon, <1>6, <1>7, <1>8, <1>9, <1>10, <1>11, <1>12 DEF SqliteInv, ThreadOK

(* A reset is alone with the file. *)
LEMMA ResetDeletesStep ==
    ASSUME SqliteInv, NEW t \in Thread, At(t, "reset"), epoch = db[ProcOf[t]].epoch,
           shared = {}, excl' = ProcOf[t], GoTo(t, "delete"), UNCHANGED <<boot, shared,
           db, dbVars, budgets>>
    PROVE  SqliteInv'
<1> DEFINE p == ProcOf[t]
<1>0. TypeOK /\ FieldTypes
  BY Zenon, FieldTypesHold DEF SqliteInv
<1>1. /\ p \in Proc /\ LocksInv /\ FileInv /\ ConnsInv(p) /\ GuardsInv(p)
      /\ ThreadInv(t) /\ StageInv(t) /\ RetryInv(t) /\ DeleteInv(t)
  BY Zenon, <1>0 DEF SqliteInv, ThreadOK, DbOK, FieldTypes
<1>2. /\ my[t].pc = "reset" /\ boot = t /\ excl = None /\ my[t].via = "reset"
      /\ made # 0
  BY Zenon, <1>0, <1>1 DEF LocksInv, ThreadInv, StageInv, ConnsInv, GuardsInv,
     FieldTypes,
     BootPcs, DeletePcs, RecreatePcs, ReadPcs
<1>3. ThreadTo(t, "delete", my[t].mode, my[t].via, my[t].second, my[t].seen, my[t].inc,
                     my[t].bad)
  BY <1>0, GoToEffect, Zenon DEF GoTo, Labels
<1>5. /\ excl' = p /\ UNCHANGED db
      /\ UNCHANGED <<file, made, epoch, boot, shared, damages, faults>>
  BY Zenon DEF dbVars, lockVars, budgets
<1> USE <1>0, <1>1, <1>2, <1>3, <1>5
<1>6. TypeOK'
  BY Zenon DEF TypeOK, ThreadTo
<1>7. LocksInv'
  BY DEF LocksInv, ThreadTo, FieldTypes, BootPcs, DeletePcs
<1>8. /\ FileInv' /\ \A u \in Thread \ {t} : ThreadOK(u)'
      /\ \A q \in Proc : DbOK(q)'
  BY Zenon, LocalStep DEF ThreadTo, ReadPcs, RecreatePcs
<1>9. ThreadInv(t)'
  BY Zenon DEF ThreadInv, ThreadTo, FieldTypes, BootPcs, RecreatePcs, ReadPcs
<1>10. StageInv(t)'
  BY Zenon DEF StageInv, ThreadTo, RecreatePcs
<1>11. RetryInv(t)'
  BY Zenon DEF RetryInv, Gone, ThreadTo, FieldTypes
<1>12. DeleteInv(t)'
  BY Zenon DEF DeleteInv, Unusable, Newer, ThreadTo, LocksInv, BootPcs
<1>13. QED
  BY ONLY Zenon, <1>6, <1>7, <1>8, <1>9, <1>10, <1>11, <1>12 DEF SqliteInv, ThreadOK

(* A peer has the file: a recreate waits for the lock again. *)
LEMMA ResetRetriesStep ==
    ASSUME SqliteInv, NEW t \in Thread, At(t, "reset"), my[t].mode = "run", my[t].tries
           < MaxTries, boot' = None, my' = [my EXCEPT ![t] = [@ EXCEPT !.pc = "rboot",
           !.tries = my[t].tries + 1]], UNCHANGED <<excl, shared, db, dbVars, budgets>>
    PROVE  SqliteInv'
<1> DEFINE p == ProcOf[t]
<1>0. TypeOK /\ FieldTypes
  BY Zenon, FieldTypesHold DEF SqliteInv
<1>1. /\ p \in Proc /\ LocksInv /\ FileInv /\ ConnsInv(p) /\ GuardsInv(p)
      /\ ThreadInv(t) /\ StageInv(t) /\ RetryInv(t) /\ DeleteInv(t)
  BY Zenon, <1>0 DEF SqliteInv, ThreadOK, DbOK, FieldTypes
<1>2. /\ my[t].pc = "reset" /\ boot = t /\ excl = None /\ my[t].via = "reset"
      /\ made # 0
  BY Zenon, <1>0, <1>1 DEF LocksInv, ThreadInv, StageInv, ConnsInv, GuardsInv,
     FieldTypes,
     BootPcs, DeletePcs, RecreatePcs, ReadPcs
<1>b. my[t].tries + 1 \in 0..MaxTries
  BY <1>0 DEF TypeOK, ThreadRecord
<1>3. ThreadTo(t, "rboot", my[t].mode, my[t].via, my[t].second, my[t].seen, my[t].inc,
                     my[t].bad)
  BY <1>0, TriesEffect, <1>b, Zenon
<1>5. /\ boot' = None /\ UNCHANGED db
      /\ UNCHANGED <<file, made, epoch, excl, shared, damages, faults>>
  BY Zenon DEF dbVars, lockVars, budgets
<1> USE <1>0, <1>1, <1>2, <1>3, <1>5
<1>6. TypeOK'
  BY Zenon DEF TypeOK, ThreadTo
<1>7. LocksInv'
  BY Zenon DEF LocksInv, ThreadTo, FieldTypes, BootPcs, DeletePcs
<1>8. /\ FileInv' /\ \A u \in Thread \ {t} : ThreadOK(u)'
      /\ \A q \in Proc : DbOK(q)'
  BY LocalStep DEF ThreadTo, ReadPcs, RecreatePcs
<1>9. ThreadInv(t)'
  BY Zenon DEF ThreadInv, ThreadTo, FieldTypes, BootPcs, RecreatePcs, ReadPcs
<1>10. StageInv(t)'
  BY Zenon DEF StageInv, ThreadTo, RecreatePcs
<1>11. RetryInv(t)'
  BY Zenon DEF RetryInv, Gone, ThreadTo, FieldTypes
<1>12. DeleteInv(t)'
  BY ZenonT(60) DEF DeleteInv, Unusable, Newer, ThreadTo
<1>13. QED
  BY ONLY Zenon, <1>6, <1>7, <1>8, <1>9, <1>10, <1>11, <1>12 DEF SqliteInv, ThreadOK

-----------------------------------------------------------------------------
(* Steps that delete the file or make it *)

(* open makes the file. *)
LEMMA EnableCreatesStep ==
    ASSUME SqliteInv, NEW t \in Thread, EnableWal(t), ~WalFails(ProcOf[t]), file.inc =
           Absent
    PROVE  SqliteInv'
<1> DEFINE p == ProcOf[t]
<1>0. TypeOK /\ FieldTypes
  BY Zenon, FieldTypesHold DEF SqliteInv
<1>1. /\ p \in Proc /\ LocksInv /\ FileInv /\ ConnsInv(p) /\ GuardsInv(p)
      /\ ThreadInv(t) /\ StageInv(t) /\ RetryInv(t) /\ DeleteInv(t)
  BY Zenon, <1>0 DEF SqliteInv, ThreadOK, DbOK, FieldTypes
<1>2. /\ my[t].pc = "enable" /\ my[t].mode = "open" /\ boot = t /\ excl = None
      /\ ~db[p].open /\ db[p].readers = {}
  BY Zenon, <1>0, <1>1 DEF EnableWal, LocksInv, ThreadInv, StageInv, ConnsInv,
     GuardsInv,
     FieldTypes, BootPcs, DeletePcs, RecreatePcs, ReadPcs
<1>b. /\ JoinUsers(p) /\ OpenPath /\ UNCHANGED <<epoch, boot, excl, budgets>>
  BY Zenon DEF EnableWal
<1>3. ThreadTo(t, "setup", my[t].mode, my[t].via, my[t].second, my[t].seen, my[t].inc,
                     my[t].bad)
  BY <1>0, GoToEffect, Zenon DEF EnableWal, GoTo, Labels
<1>4. DbTo(p, db[p].open, TRUE, db[p].conns, db[p].linger, epoch, db[p].generation,
                 db[p].recreated, db[p].readers, db[p].writer, db[p].wrote)
  BY Zenon, <1>0, <1>1, JoinEffect, <1>b DEF JoinUsers, FieldTypes
<1>a. /\ file' \in [inc : Nat, gen : 0..MaxGen, damage : Damage] /\ file'.inc = made + 1
      /\ file'.gen = 0 /\ file'.damage = "none" /\ made' = made + 1 /\ made' # 0
  BY <1>0, <1>b DEF OpenPath, NewFile, Damage, FieldTypes
<1>5. /\ file' \in [inc : Nat, gen : 0..MaxGen, damage : Damage] /\ file'.inc = made + 1
      /\ file'.gen = 0 /\ file'.damage = "none" /\ made' = made + 1 /\ made' # 0
      /\ file.inc = Absent /\ shared' = shared \cup {p}
      /\ UNCHANGED <<epoch, boot, excl, damages, faults>>
  BY Zenon, <1>a, <1>b DEF JoinUsers, budgets
<1> USE <1>0, <1>1, <1>2, <1>3, <1>4, <1>5
<1>6. TypeOK'
  BY Zenon DEF TypeOK, ThreadTo, DbTo
<1>7. LocksInv'
  BY SMTT(60) DEF LocksInv, ThreadTo, FieldTypes, BootPcs, DeletePcs
<1>8. \A u \in Thread : Gone(u)'
  BY SMTT(60) DEF SqliteInv, ThreadOK, RetryInv, Gone, ThreadTo, FieldTypes
<1>9. \A q \in Proc : ~db[q].pool /\ db[q].conns = {}
  BY ZenonT(60) DEF SqliteInv, DbOK, ConnsInv
<1>10. FileInv'
  BY DEF FileInv, FieldTypes
<1>11. ASSUME NEW u \in Thread \ {t} PROVE DeleteInv(u)'
  <2>1. /\ ThreadInv(u) /\ StageInv(u) /\ ConnsInv(ProcOf[u]) /\ ProcOf[u] \in Proc
        /\ my'[u] = my[u] /\ my[u].pc \notin BootPcs
    BY Zenon DEF SqliteInv, ThreadOK, DbOK, LocksInv, ThreadTo, FieldTypes
  <2>2. db'[ProcOf[u]].recreated = db[ProcOf[u]].recreated
    BY Zenon, <2>1 DEF DbTo
  <2>3. my[u].pc = "recreate" => db[ProcOf[u]].recreated
    BY Zenon, <1>9, <2>1 DEF ThreadInv, ConnsInv, ReadPcs
  <2>4. faults = 0 => my[u].pc # "rboot"
    BY Zenon, <2>1 DEF StageInv, FileInv, LocksInv, BootPcs, RecreatePcs
  <2>5. QED
    BY Zenon, <2>1, <2>2, <2>3, <2>4 DEF DeleteInv, BootPcs
<1>12. /\ \A u \in Thread : ProcOf[u] # p => ThreadInv(u)' /\ StageInv(u)' /\ RetryInv(u)'
       /\ \A q \in Proc \ {p} : DbOK(q)'
  <2>1. \A u \in Thread \ {t} : my'[u] = my[u]
    BY Zenon DEF ThreadTo
  <2>2. \A q \in Proc \ {p} : db'[q] = db[q] /\ (q \in shared' <=> q \in shared)
    BY Zenon DEF DbTo
  <2>3. /\ made' \in Nat /\ made' >= made /\ epoch' \in Nat /\ epoch' >= epoch
        /\ my[t].pc \in BootPcs
    BY DEF FieldTypes, BootPcs
  <2>4. QED
    BY Zenon, <1>8, <1>9, <2>1, <2>2, <2>3, FileStep
<1>13. ThreadInv(t)'
  BY ZenonT(60) DEF ThreadInv, ThreadTo, DbTo, FieldTypes, BootPcs, RecreatePcs, ReadPcs
<1>14. StageInv(t)'
  BY Zenon DEF StageInv, ThreadTo, DbTo, RecreatePcs
<1>15. RetryInv(t)'
  BY <1>8 DEF RetryInv, ThreadTo, DbTo, FieldTypes
<1>16. DeleteInv(t)'
  BY Zenon DEF DeleteInv, Unusable, Newer, ThreadTo, DbTo
<1>17. ConnsInv(p)'
  BY ZenonT(60), <1>9 DEF ConnsInv, DbTo
<1>18. GuardsInv(p)'
  BY DEF GuardsInv, ThreadTo, DbTo, FieldTypes, RecreatePcs, ReadPcs
<1>19. ASSUME NEW u \in Thread, ProcOf[u] = p, u # t PROVE ThreadOK(u)'
  <2>1. /\ ThreadInv(u) /\ StageInv(u) /\ RetryInv(u) /\ DeleteInv(u)
        /\ my'[u] = my[u]
    BY Zenon, <1>19 DEF SqliteInv, ThreadOK, ThreadTo
  <2>2. /\ my[u].pc \in {"idle", "boot", "read", "recreate"}
        /\ my[t].mode = "open" => my[u].pc \in {"idle", "boot"}
    BY Zenon, <1>19, <2>1, AloneInProcess DEF BootPcs
  <2>3. my[u].pc \in {"read", "recreate"} => db'[ProcOf[u]].open
    BY Zenon, <1>19, <2>1, <2>2 DEF ThreadInv, DbTo
  <2>4. ThreadInv(u)' /\ StageInv(u)'
    BY ONLY ZenonT(60), <1>19, <2>1, <2>2, <2>3, WaitsOn
  <2>5. RetryInv(u)'
    BY SMTT(60), <1>19, <2>1, <2>2, <1>8 DEF RetryInv, DbTo, FieldTypes
  <2>6. QED
    BY Zenon, <1>19, <2>4, <2>5, <1>11 DEF ThreadOK
<1>20. QED
  BY ONLY Zenon, <1>6, <1>7, <1>10, <1>11, <1>12, <1>13, <1>14, <1>15, <1>16,
     <1>17, <1>18,
     <1>19 DEF SqliteInv, ThreadOK, DbOK

(* A reset makes the file where a peer that ended left none. *)
LEMMA CheckCreatesStep ==
    ASSUME SqliteInv, NEW t \in Thread, CheckGeneration(t), ~WalFails(ProcOf[t]),
           file.inc = Absent
    PROVE  SqliteInv'
<1> DEFINE p == ProcOf[t]
<1>0. TypeOK /\ FieldTypes
  BY Zenon, FieldTypesHold DEF SqliteInv
<1>1. /\ p \in Proc /\ LocksInv /\ FileInv /\ ConnsInv(p) /\ GuardsInv(p)
      /\ ThreadInv(t) /\ StageInv(t) /\ RetryInv(t) /\ DeleteInv(t)
  BY Zenon, <1>0 DEF SqliteInv, ThreadOK, DbOK, FieldTypes
<1>2. /\ my[t].pc = "check" /\ my[t].via = "reset" /\ boot = t /\ excl = None
      /\ made # 0 /\ p \in shared /\ db[p].readers = {} /\ ~db[p].linger
  BY Zenon, <1>0, <1>1 DEF CheckGeneration, LocksInv, ThreadInv, StageInv,
     ConnsInv, GuardsInv,
     FieldTypes, BootPcs, DeletePcs, RecreatePcs, ReadPcs
<1>b. /\ db' = [db EXCEPT ![p].pool = TRUE] /\ OpenPath
      /\ UNCHANGED <<epoch, lockVars, budgets>>
  BY Zenon DEF CheckGeneration
<1>3. ThreadTo(t, "setup", my[t].mode, my[t].via, my[t].second, my[t].seen, my[t].inc,
                     my[t].bad)
  BY <1>0, GoToEffect, Zenon DEF CheckGeneration, GoTo, Labels
<1>4. DbTo(p, db[p].open, TRUE, db[p].conns, db[p].linger, db[p].epoch, db[p].generation,
                 db[p].recreated, db[p].readers, db[p].writer, db[p].wrote)
  BY <1>0, <1>1, PoolEffect, <1>b, Zenon
<1>a. /\ file' \in [inc : Nat, gen : 0..MaxGen, damage : Damage] /\ file'.inc = made + 1
      /\ file'.gen = 0 /\ file'.damage = "none" /\ made' = made + 1 /\ made' # 0
  BY <1>0, <1>b DEF OpenPath, NewFile, Damage, FieldTypes
<1>5. /\ file' \in [inc : Nat, gen : 0..MaxGen, damage : Damage] /\ file'.inc = made + 1
      /\ file'.gen = 0 /\ file'.damage = "none" /\ made' = made + 1 /\ made' # 0
      /\ file.inc = Absent /\ UNCHANGED <<epoch, boot, excl, shared, damages, faults>>
  BY Zenon, <1>a, <1>b DEF lockVars, budgets
<1> USE <1>0, <1>1, <1>2, <1>3, <1>4, <1>5
<1>6. TypeOK'
  BY Zenon DEF TypeOK, ThreadTo, DbTo
<1>7. LocksInv'
  BY ZenonT(60) DEF LocksInv, ThreadTo, FieldTypes, BootPcs, DeletePcs
<1>8. \A u \in Thread : Gone(u)'
  <2>1. ASSUME NEW u \in Thread PROVE my'[u].bad = my[u].bad /\ my[u].bad <= made
    BY ZenonT(60) DEF SqliteInv, ThreadOK, RetryInv, ThreadTo
  <2>2. \A u \in Thread : my[u].bad \in Nat
    BY ZenonT(60) DEF FieldTypes
  <2>3. QED
    BY ONLY SMTT(60), <1>0, <1>5, <2>1, <2>2 DEF Gone, FieldTypes
<1>9. \A q \in Proc : ~db[q].pool /\ db[q].conns = {}
  BY ZenonT(60) DEF SqliteInv, DbOK, ConnsInv
<1>10. FileInv'
  BY SMTT(60) DEF FileInv, FieldTypes
<1>11. ASSUME NEW u \in Thread \ {t} PROVE DeleteInv(u)'
  <2>1. /\ ThreadInv(u) /\ StageInv(u) /\ ConnsInv(ProcOf[u]) /\ ProcOf[u] \in Proc
        /\ my'[u] = my[u] /\ my[u].pc \notin BootPcs
    BY Zenon DEF SqliteInv, ThreadOK, DbOK, LocksInv, ThreadTo, FieldTypes
  <2>2. db'[ProcOf[u]].recreated = db[ProcOf[u]].recreated
    BY Zenon, <2>1 DEF DbTo
  <2>3. my[u].pc = "recreate" => db[ProcOf[u]].recreated
    BY Zenon, <1>9, <2>1 DEF ThreadInv, ConnsInv, ReadPcs
  <2>4. faults = 0 => my[u].pc # "rboot"
    BY Zenon, <2>1 DEF StageInv, FileInv, LocksInv, BootPcs, RecreatePcs
  <2>5. QED
    BY Zenon, <2>1, <2>2, <2>3, <2>4 DEF DeleteInv, BootPcs
<1>12. /\ \A u \in Thread : ProcOf[u] # p => ThreadInv(u)' /\ StageInv(u)' /\ RetryInv(u)'
       /\ \A q \in Proc \ {p} : DbOK(q)'
  <2>1. \A u \in Thread \ {t} : my'[u] = my[u]
    BY Zenon DEF ThreadTo
  <2>2. \A q \in Proc \ {p} : db'[q] = db[q] /\ (q \in shared' <=> q \in shared)
    BY Zenon DEF DbTo
  <2>3. /\ made' \in Nat /\ made' >= made /\ epoch' \in Nat /\ epoch' >= epoch
        /\ my[t].pc \in BootPcs
    BY DEF FieldTypes, BootPcs
  <2>4. QED
    BY Zenon, <1>8, <1>9, <2>1, <2>2, <2>3, FileStep
<1>13. ThreadInv(t)'
  BY ZenonT(60) DEF ThreadInv, ThreadTo, DbTo, FieldTypes, BootPcs, RecreatePcs, ReadPcs
<1>14. StageInv(t)'
  BY Zenon DEF StageInv, ThreadTo, DbTo, RecreatePcs
<1>15. RetryInv(t)'
  BY <1>8 DEF RetryInv, ThreadTo, DbTo, FieldTypes
<1>16. DeleteInv(t)'
  BY Zenon DEF DeleteInv, Unusable, Newer, ThreadTo, DbTo
<1>17. ConnsInv(p)'
  BY Zenon, <1>9 DEF ConnsInv, DbTo
<1>18. GuardsInv(p)'
  <2>1. \A u \in Thread : my'[u].mode = my[u].mode /\ (my'[u].pc = my[u].pc \/ u = t)
    BY Zenon DEF ThreadTo
  <2>2. my'[t].pc \in RecreatePcs /\ my[t].pc \in RecreatePcs
    BY Zenon DEF ThreadTo, RecreatePcs
  <2>3. db'[p].writer = db[p].writer /\ db'[p].readers = {} /\ db'[p].epoch = db[p].epoch
    BY Zenon DEF DbTo
  <2>4. QED
    BY ZenonT(60), <2>1, <2>2, <2>3 DEF GuardsInv, FieldTypes
<1>19. ASSUME NEW u \in Thread, ProcOf[u] = p, u # t PROVE ThreadOK(u)'
  <2>1. /\ ThreadInv(u) /\ StageInv(u) /\ RetryInv(u) /\ DeleteInv(u)
        /\ my'[u] = my[u]
    BY Zenon, <1>19 DEF SqliteInv, ThreadOK, ThreadTo
  <2>2. /\ my[u].pc \in {"idle", "boot", "read", "recreate"}
        /\ my[t].mode = "open" => my[u].pc \in {"idle", "boot"}
    BY Zenon, <1>19, <2>1, AloneInProcess DEF BootPcs
  <2>3. my[u].pc \in {"read", "recreate"} => db'[ProcOf[u]].open
    BY ZenonT(60), <1>19, <2>1, <2>2 DEF ThreadInv, DbTo
  <2>4. ThreadInv(u)' /\ StageInv(u)'
    BY ONLY Zenon, <1>19, <2>1, <2>2, <2>3, WaitsOn
  <2>5. RetryInv(u)'
    BY SMTT(60), <1>19, <2>1, <1>8 DEF RetryInv, DbTo, FieldTypes
  <2>6. QED
    BY Zenon, <1>19, <2>4, <2>5, <1>11 DEF ThreadOK
<1>20. QED
  BY ONLY Zenon, <1>6, <1>7, <1>10, <1>11, <1>12, <1>13, <1>14, <1>15, <1>16,
     <1>17, <1>18,
     <1>19 DEF SqliteInv, ThreadOK, DbOK

(* The file is deleted. *)
LEMMA DeleteStep ==
    ASSUME SqliteInv, NEW t \in Thread, At(t, "delete"), file' = [file EXCEPT !.inc =
           Absent], GoTo(t, "create"), UNCHANGED <<made, epoch, lockVars, db, budgets>>
    PROVE  SqliteInv'
<1> DEFINE p == ProcOf[t]
<1>0. TypeOK /\ FieldTypes
  BY Zenon, FieldTypesHold DEF SqliteInv
<1>1. /\ p \in Proc /\ LocksInv /\ FileInv /\ ConnsInv(p) /\ GuardsInv(p)
      /\ ThreadInv(t) /\ StageInv(t) /\ RetryInv(t) /\ DeleteInv(t)
  BY Zenon, <1>0 DEF SqliteInv, ThreadOK, DbOK, FieldTypes
<1>2. /\ my[t].pc = "delete" /\ boot = t /\ excl = p /\ shared = {}
      /\ db[p].readers = {} /\ made # 0
  BY <1>0, <1>1 DEF LocksInv, ThreadInv, StageInv, ConnsInv, GuardsInv, FieldTypes,
     BootPcs, DeletePcs, RecreatePcs, ReadPcs
<1>3. ThreadTo(t, "create", my[t].mode, my[t].via, my[t].second, my[t].seen, my[t].inc,
                     my[t].bad)
  BY <1>0, GoToEffect, Zenon DEF GoTo, Labels
<1>a. /\ file' \in [inc : Nat, gen : 0..MaxGen, damage : Damage] /\ file'.inc = Absent
      /\ file'.gen = file.gen /\ file'.damage = file.damage
  BY Zenon, <1>0 DEF TypeOK
<1>5. /\ UNCHANGED db /\ file' \in [inc : Nat, gen : 0..MaxGen, damage : Damage]
      /\ file'.inc = Absent /\ file'.gen = file.gen /\ file'.damage = file.damage
      /\ UNCHANGED <<made, epoch, boot, excl, shared, damages, faults>>
  BY ZenonT(60), <1>a DEF dbVars, lockVars, budgets
<1> USE <1>0, <1>1, <1>2, <1>3, <1>5
<1>6. TypeOK'
  BY Zenon DEF TypeOK, ThreadTo
<1>7. LocksInv'
  BY ZenonT(60) DEF LocksInv, ThreadTo, FieldTypes, BootPcs, DeletePcs
<1>8. \A u \in Thread : Gone(u)'
  BY Zenon DEF Gone
<1>9. \A q \in Proc : ~db[q].pool /\ db[q].conns = {}
  BY Zenon DEF SqliteInv, DbOK, ConnsInv
<1>10. FileInv'
  BY DEF FileInv, ThreadTo, FieldTypes
<1>11. ASSUME NEW u \in Thread \ {t} PROVE DeleteInv(u)'
  <2>1. /\ ThreadInv(u) /\ StageInv(u) /\ DeleteInv(u) /\ DbOK(ProcOf[u]) /\ ProcOf[u] \in Proc
        /\ my'[u] = my[u] /\ my[u].pc \notin BootPcs
    BY Zenon DEF SqliteInv, ThreadOK, LocksInv, ThreadTo, FieldTypes, BootPcs
  <2>2. Unusable(ProcOf[u]) => Unusable(ProcOf[u])'
    BY Zenon DEF Unusable, Newer
  <2>3. (\A v \in Thread : my'[v].pc # "bump") => \A v \in Thread : my[v].pc # "bump"
    BY ZenonT(60) DEF ThreadTo
  <2>4. QED
    BY Zenon, <2>1, <2>2, <2>3 DEF DeleteInv
<1>12. /\ \A u \in Thread : ProcOf[u] # p => ThreadInv(u)' /\ StageInv(u)' /\ RetryInv(u)'
       /\ \A q \in Proc \ {p} : DbOK(q)'
  <2>1. \A u \in Thread \ {t} : my'[u] = my[u]
    BY Zenon DEF ThreadTo
  <2>2. \A q \in Proc \ {p} : db'[q] = db[q] /\ (q \in shared' <=> q \in shared)
    BY Zenon
  <2>3. /\ made' \in Nat /\ made' >= made /\ epoch' \in Nat /\ epoch' >= epoch
        /\ my[t].pc \in BootPcs
    BY DEF FieldTypes, BootPcs
  <2>4. QED
    BY Zenon, <1>8, <1>9, <2>1, <2>2, <2>3, FileStep
<1>13. ThreadInv(t)'
  BY Zenon DEF ThreadInv, ThreadTo, FieldTypes, BootPcs, RecreatePcs, ReadPcs
<1>14. StageInv(t)'
  BY Zenon DEF StageInv, ThreadTo, RecreatePcs
<1>15. RetryInv(t)'
  BY Zenon, <1>8 DEF RetryInv, ThreadTo, FieldTypes
<1>16. DeleteInv(t)'
  BY Zenon DEF DeleteInv, Unusable, Newer, ThreadTo
<1>17. ConnsInv(p)'
  BY ZenonT(60) DEF ConnsInv
<1>18. GuardsInv(p)'
  BY SMTT(60) DEF GuardsInv, ThreadTo, FieldTypes, RecreatePcs, ReadPcs
<1>19. ASSUME NEW u \in Thread, ProcOf[u] = p, u # t PROVE ThreadOK(u)'
  <2>1. /\ ThreadInv(u) /\ StageInv(u) /\ RetryInv(u) /\ DeleteInv(u)
        /\ my'[u] = my[u]
    BY Zenon, <1>19 DEF SqliteInv, ThreadOK, ThreadTo
  <2>2. /\ my[u].pc \in {"idle", "boot", "read", "recreate"}
        /\ my[t].mode = "open" => my[u].pc \in {"idle", "boot"}
    BY Zenon, <1>19, <2>1, AloneInProcess DEF BootPcs
  <2>3. my[u].pc \in {"read", "recreate"} => db'[ProcOf[u]].open
    BY Zenon, <1>19, <2>1, <2>2 DEF ThreadInv
  <2>4. ThreadInv(u)' /\ StageInv(u)'
    BY ONLY Zenon, <1>19, <2>1, <2>2, <2>3, WaitsOn
  <2>5. RetryInv(u)'
    BY ZenonT(60), <1>19, <2>1, <2>2, <1>8 DEF RetryInv
  <2>6. QED
    BY Zenon, <1>19, <2>4, <2>5, <1>11 DEF ThreadOK
<1>20. QED
  BY ONLY Zenon, <1>6, <1>7, <1>10, <1>11, <1>12, <1>13, <1>14, <1>15, <1>16,
     <1>17, <1>18,
     <1>19 DEF SqliteInv, ThreadOK, DbOK

(* The new file is made. *)
LEMMA CreateStep ==
    ASSUME SqliteInv, NEW t \in Thread, CreateFile(t)
    PROVE  SqliteInv'
<1> DEFINE p == ProcOf[t]
<1>0. TypeOK /\ FieldTypes
  BY Zenon, FieldTypesHold DEF SqliteInv
<1>1. /\ p \in Proc /\ LocksInv /\ FileInv /\ ConnsInv(p) /\ GuardsInv(p)
      /\ ThreadInv(t) /\ StageInv(t) /\ RetryInv(t) /\ DeleteInv(t)
  BY Zenon, <1>0 DEF SqliteInv, ThreadOK, DbOK, FieldTypes
<1>2. /\ my[t].pc = "create" /\ file.inc = Absent /\ boot = t /\ excl = p /\ shared = {}
      /\ db[p].readers = {} /\ made # 0
  BY <1>0, <1>1 DEF CreateFile, LocksInv, ThreadInv, StageInv, ConnsInv, GuardsInv,
     FieldTypes, BootPcs, DeletePcs, RecreatePcs, ReadPcs
<1>3. ThreadTo(t, "bump", my[t].mode, my[t].via, my[t].second, my[t].seen, my[t].inc,
                     my[t].bad)
  BY <1>0, GoToEffect, Zenon DEF CreateFile, GoTo, Labels
<1>a. /\ file' \in [inc : Nat, gen : 0..MaxGen, damage : Damage] /\ file'.inc = made + 1
      /\ file'.gen = 0 /\ file'.damage = "none"
  BY <1>0 DEF CreateFile, NewFile, Damage, FieldTypes
<1>5. /\ UNCHANGED db /\ file' \in [inc : Nat, gen : 0..MaxGen, damage : Damage]
      /\ file'.inc = made + 1 /\ file'.gen = 0 /\ file'.damage = "none"
      /\ made' = made + 1 /\ made' # 0
      /\ UNCHANGED <<epoch, boot, excl, shared, damages, faults>>
  BY <1>0, <1>a DEF CreateFile, FieldTypes, dbVars, lockVars, budgets
<1> USE <1>0, <1>1, <1>2, <1>3, <1>5
<1>6. TypeOK'
  BY Zenon DEF TypeOK, ThreadTo
<1>7. LocksInv'
  BY Zenon DEF LocksInv, ThreadTo, FieldTypes, BootPcs, DeletePcs
<1>8. \A u \in Thread : Gone(u)'
  BY SMTT(60) DEF SqliteInv, ThreadOK, RetryInv, Gone, ThreadTo, FieldTypes
<1>9. \A q \in Proc : ~db[q].pool /\ db[q].conns = {}
  BY Zenon DEF SqliteInv, DbOK, ConnsInv
<1>10. FileInv'
  BY DEF FileInv, FieldTypes
<1>11. ASSUME NEW u \in Thread \ {t} PROVE DeleteInv(u)'
  <2>1. /\ ThreadInv(u) /\ StageInv(u) /\ DeleteInv(u) /\ DbOK(ProcOf[u]) /\ ProcOf[u] \in Proc
        /\ my'[u] = my[u] /\ my[u].pc \notin BootPcs
    BY Zenon DEF SqliteInv, ThreadOK, LocksInv, ThreadTo, FieldTypes, BootPcs
  <2>2. my[u].pc = "recreate" => db[ProcOf[u]].recreated
    BY Zenon, <1>9, <2>1 DEF ThreadInv, DbOK, ConnsInv, ReadPcs
  <2>3. my'[t].pc = "bump"
    BY Zenon DEF ThreadTo
  <2>4. QED
    BY Zenon, <2>1, <2>2, <2>3 DEF DeleteInv, BootPcs
<1>12. /\ \A u \in Thread : ProcOf[u] # p => ThreadInv(u)' /\ StageInv(u)' /\ RetryInv(u)'
       /\ \A q \in Proc \ {p} : DbOK(q)'
  <2>1. \A u \in Thread \ {t} : my'[u] = my[u]
    BY Zenon DEF ThreadTo
  <2>2. \A q \in Proc \ {p} : db'[q] = db[q] /\ (q \in shared' <=> q \in shared)
    BY Zenon
  <2>3. /\ made' \in Nat /\ made' >= made /\ epoch' \in Nat /\ epoch' >= epoch
        /\ my[t].pc \in BootPcs
    BY DEF FieldTypes, BootPcs
  <2>4. QED
    BY Zenon, <1>8, <1>9, <2>1, <2>2, <2>3, FileStep
<1>13. ThreadInv(t)'
  BY Zenon DEF ThreadInv, ThreadTo, FieldTypes, BootPcs, RecreatePcs, ReadPcs
<1>14. StageInv(t)'
  BY Zenon DEF StageInv, ThreadTo, RecreatePcs
<1>15. RetryInv(t)'
  BY <1>8 DEF RetryInv, ThreadTo, FieldTypes
<1>16. DeleteInv(t)'
  BY Zenon DEF DeleteInv, Unusable, Newer, ThreadTo
<1>17. ConnsInv(p)'
  BY Zenon, <1>9 DEF ConnsInv
<1>18. GuardsInv(p)'
  BY ZenonT(60) DEF GuardsInv, ThreadTo, FieldTypes, RecreatePcs, ReadPcs
<1>19. ASSUME NEW u \in Thread, ProcOf[u] = p, u # t PROVE ThreadOK(u)'
  <2>1. /\ ThreadInv(u) /\ StageInv(u) /\ RetryInv(u) /\ DeleteInv(u)
        /\ my'[u] = my[u]
    BY Zenon, <1>19 DEF SqliteInv, ThreadOK, ThreadTo
  <2>2. /\ my[u].pc \in {"idle", "boot", "read", "recreate"}
        /\ my[t].mode = "open" => my[u].pc \in {"idle", "boot"}
    BY Zenon, <1>19, <2>1, AloneInProcess DEF BootPcs
  <2>3. my[u].pc \in {"read", "recreate"} => db'[ProcOf[u]].open
    BY ZenonT(60), <1>19, <2>1, <2>2 DEF ThreadInv
  <2>4. ThreadInv(u)' /\ StageInv(u)'
    BY ONLY Zenon, <1>19, <2>1, <2>2, <2>3, WaitsOn
  <2>5. RetryInv(u)'
    BY SMTT(60), <1>19, <2>1, <2>2, <1>8 DEF RetryInv, FieldTypes
  <2>6. QED
    BY Zenon, <1>19, <2>4, <2>5, <1>11 DEF ThreadOK
<1>20. QED
  BY ONLY Zenon, <1>6, <1>7, <1>10, <1>11, <1>12, <1>13, <1>14, <1>15, <1>16,
     <1>17, <1>18,
     <1>19 DEF SqliteInv, ThreadOK, DbOK

(* The new epoch is written. *)
LEMMA BumpStep ==
    ASSUME SqliteInv, NEW t \in Thread, BumpEpoch(t)
    PROVE  SqliteInv'
<1> DEFINE p == ProcOf[t]
<1>0. TypeOK /\ FieldTypes
  BY Zenon, FieldTypesHold DEF SqliteInv
<1>1. /\ p \in Proc /\ LocksInv /\ FileInv /\ ConnsInv(p) /\ GuardsInv(p)
      /\ ThreadInv(t) /\ StageInv(t) /\ RetryInv(t) /\ DeleteInv(t)
  BY Zenon, <1>0 DEF SqliteInv, ThreadOK, DbOK, FieldTypes
<1>2. /\ my[t].pc = "bump" /\ file.inc # Absent /\ boot = t /\ excl = p /\ shared = {}
      /\ db[p].readers = {} /\ made # 0
  BY <1>0, <1>1 DEF BumpEpoch, LocksInv, ThreadInv, StageInv, ConnsInv, GuardsInv,
     FieldTypes, BootPcs, DeletePcs, RecreatePcs, ReadPcs
<1>3. ThreadTo(t, "share", my[t].mode, my[t].via, my[t].second, my[t].seen, my[t].inc,
                     my[t].bad)
  BY <1>0, GoToEffect, Zenon DEF BumpEpoch, GoTo, Labels
<1>5. /\ UNCHANGED db /\ epoch' = epoch + 1 /\ excl' = None
      /\ UNCHANGED <<file, made, boot, shared, damages, faults>>
  BY Zenon DEF BumpEpoch, dbVars, lockVars, budgets
<1> USE <1>0, <1>1, <1>2, <1>3, <1>5
<1>6. TypeOK'
  BY DEF TypeOK, ThreadTo
<1>7. LocksInv'
  BY SMTT(60) DEF LocksInv, ThreadTo, FieldTypes, BootPcs, DeletePcs
<1>8. \A u \in Thread : Gone(u)'
  BY DEF RetryInv, Gone, ThreadTo
<1>9. \A q \in Proc : ~db[q].pool /\ db[q].conns = {}
  BY Zenon DEF SqliteInv, DbOK, ConnsInv
<1>10. FileInv'
  BY Zenon DEF FileInv, ThreadTo
<1>11. ASSUME NEW u \in Thread \ {t} PROVE DeleteInv(u)'
  <2>1. /\ ThreadInv(u) /\ StageInv(u) /\ DeleteInv(u) /\ DbOK(ProcOf[u]) /\ ProcOf[u] \in Proc
        /\ my'[u] = my[u] /\ my[u].pc \notin BootPcs
    BY ZenonT(60) DEF SqliteInv, ThreadOK, LocksInv, ThreadTo, FieldTypes, BootPcs
  <2>2. epoch' # db[ProcOf[u]].epoch
    BY <2>1 DEF DbOK, GuardsInv, FieldTypes
  <2>3. QED
    BY Zenon, <2>1, <2>2 DEF DeleteInv, Unusable, Newer, BootPcs
<1>12. /\ \A u \in Thread : ProcOf[u] # p => ThreadInv(u)' /\ StageInv(u)' /\ RetryInv(u)'
       /\ \A q \in Proc \ {p} : DbOK(q)'
  <2>1. \A u \in Thread \ {t} : my'[u] = my[u]
    BY Zenon DEF ThreadTo
  <2>2. \A q \in Proc \ {p} : db'[q] = db[q] /\ (q \in shared' <=> q \in shared)
    BY Zenon
  <2>3. /\ made' \in Nat /\ made' >= made /\ epoch' \in Nat /\ epoch' >= epoch
        /\ my[t].pc \in BootPcs
    BY DEF FieldTypes, BootPcs
  <2>4. QED
    BY Zenon, <1>8, <1>9, <2>1, <2>2, <2>3, FileStep
<1>13. ThreadInv(t)'
  BY Zenon DEF ThreadInv, ThreadTo, FieldTypes, BootPcs, RecreatePcs, ReadPcs
<1>14. StageInv(t)'
  BY Zenon DEF StageInv, ThreadTo, RecreatePcs
<1>15. RetryInv(t)'
  BY Zenon, <1>8 DEF RetryInv, ThreadTo, FieldTypes
<1>16. DeleteInv(t)'
  BY Zenon DEF DeleteInv, Unusable, Newer, ThreadTo
<1>17. ConnsInv(p)'
  BY ZenonT(60) DEF ConnsInv
<1>18. GuardsInv(p)'
  BY DEF GuardsInv, ThreadTo, FieldTypes, RecreatePcs, ReadPcs
<1>19. ASSUME NEW u \in Thread, ProcOf[u] = p, u # t PROVE ThreadOK(u)'
  <2>1. /\ ThreadInv(u) /\ StageInv(u) /\ RetryInv(u) /\ DeleteInv(u)
        /\ my'[u] = my[u]
    BY Zenon, <1>19 DEF SqliteInv, ThreadOK, ThreadTo
  <2>2. /\ my[u].pc \in {"idle", "boot", "read", "recreate"}
        /\ my[t].mode = "open" => my[u].pc \in {"idle", "boot"}
    BY Zenon, <1>19, <2>1, AloneInProcess DEF BootPcs
  <2>3. my[u].pc \in {"read", "recreate"} => db'[ProcOf[u]].open
    BY Zenon, <1>19, <2>1, <2>2 DEF ThreadInv
  <2>4. ThreadInv(u)' /\ StageInv(u)'
    BY ONLY Zenon, <1>19, <2>1, <2>2, <2>3, WaitsOn
  <2>5. RetryInv(u)'
    BY Zenon, <1>19, <2>1, <2>2, <1>8 DEF RetryInv
  <2>6. QED
    BY Zenon, <1>19, <2>4, <2>5, <1>11 DEF ThreadOK
<1>20. QED
  BY ONLY Zenon, <1>6, <1>7, <1>10, <1>11, <1>12, <1>13, <1>14, <1>15, <1>16,
     <1>17, <1>18,
     <1>19 DEF SqliteInv, ThreadOK, DbOK
=============================================================================

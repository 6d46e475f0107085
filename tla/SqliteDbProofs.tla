--------------------------- MODULE SqliteDbProofs ---------------------------
(***************************************************************************)
(* The proofs about SqliteDb: SqliteInv of SqliteDbSteps is inductive, and *)
(* what the runs check of the safety of the file follows from it for every *)
(* number of processes and threads, every generation and every number of   *)
(* damages, faults and tries.                                              *)
(***************************************************************************)
EXTENDS SqliteDbSteps

USE SqliteDbAssumption DEF Absent, At, DbOf, InRun

-----------------------------------------------------------------------------
(* Steps that change the Db of one process *)

(* A Db that no thread reads keeps its guards while its writer runs on.    *)
LEMMA GuardsKept ==
    ASSUME FieldTypes, NEW p \in Proc, GuardsInv(p), db[p].readers = {},
           db'[p].readers = {}, db'[p].writer = db[p].writer, epoch' = epoch,
           db'[p].epoch \in {epoch, db[p].epoch}, p \in shared' => db'[p].epoch = epoch,
           \A u \in Thread : InRun(u, RecreatePcs) => InRun(u, RecreatePcs)'
    PROVE  GuardsInv(p)'
<1>1. db[p].writer # None => db[p].writer \in Thread
  BY Zenon DEF FieldTypes
<1>2. db[p].writer # None =>
         /\ ProcOf[db[p].writer] = p
         /\ my'[db[p].writer].mode = "run" /\ my'[db[p].writer].pc \in RecreatePcs
  BY Zenon, <1>1 DEF GuardsInv
<1>3. db'[p].epoch <= epoch'
  <2>1. epoch \in Nat /\ db[p].epoch <= epoch
    BY Zenon DEF FieldTypes, GuardsInv
  <2>2. QED
    BY <2>1
<1>4. QED
  BY Zenon, <1>2, <1>3 DEF GuardsInv

(* open joins the users of a file that is there. *)
LEMMA EnableJoinsStep ==
    ASSUME SqliteInv, NEW t \in Thread, EnableWal(t), ~WalFails(ProcOf[t]), file.inc #
           Absent
    PROVE  SqliteInv'
<1> DEFINE p == ProcOf[t]
<1>0. TypeOK /\ FieldTypes
  BY Zenon, FieldTypesHold DEF SqliteInv
<1>1. /\ p \in Proc /\ LocksInv /\ FileInv /\ ConnsInv(p) /\ GuardsInv(p)
      /\ ThreadInv(t) /\ StageInv(t) /\ RetryInv(t) /\ DeleteInv(t)
  BY ZenonT(60), <1>0 DEF SqliteInv, ThreadOK, DbOK, FieldTypes
<1>2. /\ my[t].pc = "enable" /\ my[t].mode = "open" /\ boot = t /\ excl = None
      /\ ~db[p].open /\ db[p].readers = {} /\ made # 0
  BY SMTT(60), <1>0, <1>1 DEF EnableWal, FileInv, LocksInv, ThreadInv, StageInv, ConnsInv,
     GuardsInv, FieldTypes, BootPcs, DeletePcs, RecreatePcs, ReadPcs
<1>3. ThreadTo(t, "setup", my[t].mode, my[t].via, my[t].second, my[t].seen, my[t].inc,
                     my[t].bad)
  BY Zenon, <1>0, GoToEffect DEF EnableWal, GoTo, Labels
<1>4. DbTo(p, db[p].open, TRUE, db[p].conns, db[p].linger, epoch, db[p].generation,
                 db[p].recreated, db[p].readers, db[p].writer, db[p].wrote)
  BY Zenon, <1>0, <1>1, JoinEffect DEF EnableWal, JoinUsers, FieldTypes
<1>5. /\ shared' = shared \cup {p}
      /\ UNCHANGED <<file, made, epoch, boot, excl, damages, faults>>
  BY ZenonT(60) DEF EnableWal, JoinUsers, OpenPath, dbVars, lockVars, budgets
<1> USE <1>0, <1>1, <1>2, <1>3, <1>4, <1>5
<1>6. TypeOK'
  BY ZenonT(60) DEF TypeOK, ThreadTo, DbTo
<1>7. LocksInv'
  BY DEF LocksInv, ThreadTo, FieldTypes, BootPcs, DeletePcs
<1>8. /\ FileInv' /\ \A u \in Thread : ProcOf[u] # p => ThreadOK(u)'
      /\ \A q \in Proc \ {p} : DbOK(q)'
  <2>1. /\ \A u \in Thread : ProcOf[u] # p => my'[u] = my[u]
        /\ \A u \in Thread : my[u].pc \in {"create", "bump"} => my'[u].pc = my[u].pc
        /\ \A u \in Thread : ProcOf[u] = p =>
              my'[u].bad = my[u].bad \/ my'[u].bad = Absent \/ shared # {}
    BY Zenon DEF ThreadTo
  <2>2. \A q \in Proc \ {p} : db'[q] = db[q] /\ (q \in shared' <=> q \in shared)
    BY Zenon DEF DbTo
  <2>3. \A q \in Proc : Unusable(q) => Unusable(q)'
    BY Zenon DEF Unusable, Newer
  <2>4. QED
    BY Zenon, <2>1, <2>2, <2>3, OthersStep
<1>9. \A u \in Thread : Gone(u) => Gone(u)'
  BY ZenonT(60) DEF Gone, ThreadTo
<1>10. ThreadInv(t)'
  BY Zenon DEF ThreadInv, ThreadTo, DbTo, FieldTypes, BootPcs, RecreatePcs, ReadPcs
<1>11. StageInv(t)'
  BY Zenon DEF StageInv, ThreadTo, DbTo, RecreatePcs
<1>12. RetryInv(t)'
  BY Zenon, <1>9 DEF RetryInv, ThreadTo, DbTo, FieldTypes
<1>13. DeleteInv(t)'
  BY Zenon DEF DeleteInv, Unusable, Newer, ThreadTo, DbTo
<1>14. ConnsInv(p)'
  BY ZenonT(60) DEF ConnsInv, DbTo
<1>15. GuardsInv(p)'
  <2>1. /\ db'[p].readers = {} /\ db'[p].writer = db[p].writer /\ epoch' = epoch
        /\ db'[p].epoch \in {epoch, db[p].epoch} /\ (p \in shared' => db'[p].epoch = epoch)
    BY Zenon DEF DbTo, GuardsInv
  <2>2. \A u \in Thread : InRun(u, RecreatePcs) => InRun(u, RecreatePcs)'
    BY Zenon DEF ThreadTo, RecreatePcs
  <2>3. QED
    BY ONLY Zenon, <1>0, <1>1, <1>2, <2>1, <2>2, GuardsKept DEF p
<1>16. ASSUME NEW u \in Thread, ProcOf[u] = p, u # t PROVE ThreadOK(u)'
  <2>1. /\ ThreadInv(u) /\ StageInv(u) /\ RetryInv(u) /\ DeleteInv(u)
        /\ my'[u] = my[u]
    BY Zenon, <1>16 DEF SqliteInv, ThreadOK, ThreadTo
  <2>2. /\ my[u].pc \in {"idle", "boot", "read", "recreate"}
        /\ my[t].mode = "open" => my[u].pc \in {"idle", "boot"}
    BY Zenon, <1>16, <2>1, AloneInProcess DEF BootPcs
  <2>3. my[u].pc \in {"read", "recreate"} => db'[ProcOf[u]].open
    BY Zenon, <1>16, <2>1, <2>2 DEF ThreadInv, DbTo
  <2>4. ThreadInv(u)' /\ StageInv(u)'
    BY ONLY Zenon, <1>16, <2>1, <2>2, <2>3, WaitsOn
  <2>5. RetryInv(u)'
    BY Zenon, <1>16, <2>1, <2>2, <1>9 DEF RetryInv, DbTo
  <2>6. DeleteInv(u)'
    BY ZenonT(60), <1>16, <2>1, <2>2 DEF DeleteInv, Unusable, Newer, ThreadTo, DbTo
  <2>7. QED
    BY Zenon, <2>4, <2>5, <2>6 DEF ThreadOK
<1>17. QED
  BY ONLY ZenonT(60), <1>6, <1>7, <1>8, <1>10, <1>11, <1>12, <1>13, <1>14, <1>15,
     <1>16 DEF
     SqliteInv, ThreadOK, DbOK

(* open joins the users of the file it recreated. *)
LEMMA ShareEnableStep ==
    ASSUME SqliteInv, NEW t \in Thread, Share(t), my[t].via = "enable"
    PROVE  SqliteInv'
<1> DEFINE p == ProcOf[t]
<1>0. TypeOK /\ FieldTypes
  BY Zenon, FieldTypesHold DEF SqliteInv
<1>1. /\ p \in Proc /\ LocksInv /\ FileInv /\ ConnsInv(p) /\ GuardsInv(p)
      /\ ThreadInv(t) /\ StageInv(t) /\ RetryInv(t) /\ DeleteInv(t)
  BY Zenon, <1>0 DEF SqliteInv, ThreadOK, DbOK, FieldTypes
<1>2. /\ my[t].pc = "share" /\ my[t].mode = "open" /\ boot = t /\ excl = None
      /\ ~db[p].open /\ db[p].readers = {} /\ file.inc # Absent /\ made # 0
  BY Zenon, <1>0, <1>1 DEF Share, LocksInv, ThreadInv, StageInv, ConnsInv,
     GuardsInv,
     FieldTypes, BootPcs, DeletePcs, RecreatePcs, ReadPcs
<1>3. ThreadTo(t, "setup", my[t].mode, my[t].via, my[t].second, my[t].seen, my[t].inc,
                     my[t].bad)
  BY Zenon, <1>0, GoToEffect DEF Share, GoTo, Labels
<1>4. DbTo(p, db[p].open, TRUE, db[p].conns, db[p].linger, epoch, db[p].generation,
                 db[p].recreated, db[p].readers, db[p].writer, db[p].wrote)
  BY Zenon, <1>0, <1>1, JoinEffect DEF Share, JoinUsers, FieldTypes
<1>5. /\ shared' = shared \cup {p}
      /\ UNCHANGED <<file, made, epoch, boot, excl, damages, faults>>
  BY ZenonT(60) DEF Share, JoinUsers, dbVars, lockVars, budgets
<1> USE <1>0, <1>1, <1>2, <1>3, <1>4, <1>5
<1>6. TypeOK'
  BY Zenon DEF TypeOK, ThreadTo, DbTo
<1>7. LocksInv'
  BY DEF LocksInv, ThreadTo, FieldTypes, BootPcs, DeletePcs
<1>8. /\ FileInv' /\ \A u \in Thread : ProcOf[u] # p => ThreadOK(u)'
      /\ \A q \in Proc \ {p} : DbOK(q)'
  <2>1. /\ \A u \in Thread : ProcOf[u] # p => my'[u] = my[u]
        /\ \A u \in Thread : my[u].pc \in {"create", "bump"} => my'[u].pc = my[u].pc
        /\ \A u \in Thread : ProcOf[u] = p =>
              my'[u].bad = my[u].bad \/ my'[u].bad = Absent \/ shared # {}
    BY Zenon DEF ThreadTo
  <2>2. \A q \in Proc \ {p} : db'[q] = db[q] /\ (q \in shared' <=> q \in shared)
    BY Zenon DEF DbTo
  <2>3. \A q \in Proc : Unusable(q) => Unusable(q)'
    BY Zenon DEF Unusable, Newer
  <2>4. QED
    BY Zenon, <2>1, <2>2, <2>3, OthersStep
<1>9. \A u \in Thread : Gone(u) => Gone(u)'
  BY ZenonT(60) DEF Gone, ThreadTo
<1>10. ThreadInv(t)'
  BY Zenon DEF ThreadInv, ThreadTo, DbTo, FieldTypes, BootPcs, RecreatePcs, ReadPcs
<1>11. StageInv(t)'
  BY Zenon DEF StageInv, ThreadTo, DbTo, RecreatePcs
<1>12. RetryInv(t)'
  BY Zenon, <1>9 DEF RetryInv, ThreadTo, DbTo, FieldTypes
<1>13. DeleteInv(t)'
  BY Zenon DEF DeleteInv, Unusable, Newer, ThreadTo, DbTo
<1>14. ConnsInv(p)'
  BY ZenonT(60) DEF ConnsInv, DbTo
<1>15. GuardsInv(p)'
  <2>1. /\ db'[p].readers = {} /\ db'[p].writer = db[p].writer /\ epoch' = epoch
        /\ db'[p].epoch \in {epoch, db[p].epoch} /\ (p \in shared' => db'[p].epoch = epoch)
    BY Zenon DEF DbTo, GuardsInv
  <2>2. \A u \in Thread : InRun(u, RecreatePcs) => InRun(u, RecreatePcs)'
    BY Zenon DEF ThreadTo, RecreatePcs
  <2>3. QED
    BY ONLY Zenon, <1>0, <1>1, <1>2, <2>1, <2>2, GuardsKept DEF p
<1>16. ASSUME NEW u \in Thread, ProcOf[u] = p, u # t PROVE ThreadOK(u)'
  <2>1. /\ ThreadInv(u) /\ StageInv(u) /\ RetryInv(u) /\ DeleteInv(u)
        /\ my'[u] = my[u]
    BY Zenon, <1>16 DEF SqliteInv, ThreadOK, ThreadTo
  <2>2. /\ my[u].pc \in {"idle", "boot", "read", "recreate"}
        /\ my[t].mode = "open" => my[u].pc \in {"idle", "boot"}
    BY Zenon, <1>16, <2>1, AloneInProcess DEF BootPcs
  <2>3. my[u].pc \in {"read", "recreate"} => db'[ProcOf[u]].open
    BY ZenonT(60), <1>16, <2>1, <2>2 DEF ThreadInv, DbTo
  <2>4. ThreadInv(u)' /\ StageInv(u)'
    BY ONLY Zenon, <1>16, <2>1, <2>2, <2>3, WaitsOn
  <2>5. RetryInv(u)'
    BY Zenon, <1>16, <2>1, <2>2, <1>9 DEF RetryInv, DbTo
  <2>6. DeleteInv(u)'
    BY ZenonT(60), <1>16, <2>1, <2>2 DEF DeleteInv, Unusable, Newer, ThreadTo, DbTo
  <2>7. QED
    BY Zenon, <2>4, <2>5, <2>6 DEF ThreadOK
<1>17. QED
  BY ONLY Zenon, <1>6, <1>7, <1>8, <1>10, <1>11, <1>12, <1>13, <1>14, <1>15,
     <1>16 DEF
     SqliteInv, ThreadOK, DbOK

(* A reset joins the users of the file. *)
LEMMA ShareResetStep ==
    ASSUME SqliteInv, NEW t \in Thread, Share(t), my[t].via = "reset"
    PROVE  SqliteInv'
<1> DEFINE p == ProcOf[t]
<1>0. TypeOK /\ FieldTypes
  BY Zenon, FieldTypesHold DEF SqliteInv
<1>1. /\ p \in Proc /\ LocksInv /\ FileInv /\ ConnsInv(p) /\ GuardsInv(p)
      /\ ThreadInv(t) /\ StageInv(t) /\ RetryInv(t) /\ DeleteInv(t)
  BY Zenon, <1>0 DEF SqliteInv, ThreadOK, DbOK, FieldTypes
<1>2. /\ my[t].pc = "share" /\ boot = t /\ excl = None /\ made # 0 /\ db[p].readers = {}
  BY ZenonT(60), <1>0, <1>1 DEF Share, LocksInv, ThreadInv, StageInv, ConnsInv,
     GuardsInv,
     FieldTypes, BootPcs, DeletePcs, RecreatePcs, ReadPcs
<1>3. ThreadTo(t, "check", my[t].mode, my[t].via, my[t].second, my[t].seen, my[t].inc,
                     my[t].bad)
  BY <1>0, GoToEffect, Zenon DEF Share, GoTo, Labels
<1>4. DbTo(p, db[p].open, db[p].pool, db[p].conns, db[p].linger, epoch, db[p].generation,
                 db[p].recreated, db[p].readers, db[p].writer, db[p].wrote)
  BY <1>0, <1>1, EpochEffect, Zenon DEF Share, FieldTypes
<1>5. /\ shared' = shared \cup {p}
      /\ UNCHANGED <<file, made, epoch, boot, excl, damages, faults>>
  BY Zenon DEF Share, dbVars, lockVars, budgets
<1> USE <1>0, <1>1, <1>2, <1>3, <1>4, <1>5
<1>6. TypeOK'
  BY ZenonT(60) DEF TypeOK, ThreadTo, DbTo
<1>7. LocksInv'
  BY DEF LocksInv, ThreadTo, FieldTypes, BootPcs, DeletePcs
<1>8. /\ FileInv' /\ \A u \in Thread : ProcOf[u] # p => ThreadOK(u)'
      /\ \A q \in Proc \ {p} : DbOK(q)'
  <2>1. /\ \A u \in Thread : ProcOf[u] # p => my'[u] = my[u]
        /\ \A u \in Thread : my[u].pc \in {"create", "bump"} => my'[u].pc = my[u].pc
        /\ \A u \in Thread : ProcOf[u] = p =>
              my'[u].bad = my[u].bad \/ my'[u].bad = Absent \/ shared # {}
    BY Zenon DEF ThreadTo
  <2>2. \A q \in Proc \ {p} : db'[q] = db[q] /\ (q \in shared' <=> q \in shared)
    BY Zenon DEF DbTo
  <2>3. \A q \in Proc : Unusable(q) => Unusable(q)'
    BY Zenon DEF Unusable, Newer
  <2>4. QED
    BY Zenon, <2>1, <2>2, <2>3, OthersStep
<1>9. \A u \in Thread : Gone(u) => Gone(u)'
  BY ZenonT(60) DEF Gone, ThreadTo
<1>10. ThreadInv(t)'
  BY ZenonT(60) DEF ThreadInv, ThreadTo, DbTo, FieldTypes, BootPcs, RecreatePcs, ReadPcs
<1>11. StageInv(t)'
  BY Zenon DEF StageInv, ThreadTo, DbTo, RecreatePcs
<1>12. RetryInv(t)'
  BY Zenon, <1>9 DEF RetryInv, ThreadTo, DbTo, FieldTypes
<1>13. DeleteInv(t)'
  BY Zenon DEF DeleteInv, Unusable, Newer, ThreadTo, DbTo
<1>14. ConnsInv(p)'
  BY ZenonT(60) DEF ConnsInv, DbTo
<1>15. GuardsInv(p)'
  <2>1. /\ db'[p].readers = {} /\ db'[p].writer = db[p].writer /\ epoch' = epoch
        /\ db'[p].epoch \in {epoch, db[p].epoch} /\ (p \in shared' => db'[p].epoch = epoch)
    BY Zenon DEF DbTo, GuardsInv
  <2>2. \A u \in Thread : InRun(u, RecreatePcs) => InRun(u, RecreatePcs)'
    BY Zenon DEF ThreadTo, RecreatePcs
  <2>3. QED
    BY ONLY Zenon, <1>0, <1>1, <1>2, <2>1, <2>2, GuardsKept DEF p
<1>16. ASSUME NEW u \in Thread, ProcOf[u] = p, u # t PROVE ThreadOK(u)'
  <2>1. /\ ThreadInv(u) /\ StageInv(u) /\ RetryInv(u) /\ DeleteInv(u)
        /\ my'[u] = my[u]
    BY Zenon, <1>16 DEF SqliteInv, ThreadOK, ThreadTo
  <2>2. /\ my[u].pc \in {"idle", "boot", "read", "recreate"}
        /\ my[t].mode = "open" => my[u].pc \in {"idle", "boot"}
    BY Zenon, <1>16, <2>1, AloneInProcess DEF BootPcs
  <2>3. my[u].pc \in {"read", "recreate"} => db'[ProcOf[u]].open
    BY ZenonT(60), <1>16, <2>1, <2>2 DEF ThreadInv, DbTo
  <2>4. ThreadInv(u)' /\ StageInv(u)'
    BY ONLY Zenon, <1>16, <2>1, <2>2, <2>3, WaitsOn
  <2>5. RetryInv(u)'
    BY ZenonT(60), <1>16, <2>1, <2>2, <1>9 DEF RetryInv, DbTo
  <2>6. DeleteInv(u)'
    BY Zenon, <1>16, <2>1, <2>2 DEF DeleteInv, Unusable, Newer, ThreadTo, DbTo
  <2>7. QED
    BY Zenon, <2>4, <2>5, <2>6 DEF ThreadOK
<1>17. QED
  BY ONLY Zenon, <1>6, <1>7, <1>8, <1>10, <1>11, <1>12, <1>13, <1>14, <1>15,
     <1>16 DEF
     SqliteInv, ThreadOK, DbOK

(* A reset makes its pool on the file. *)
LEMMA CheckStep ==
    ASSUME SqliteInv, NEW t \in Thread, CheckGeneration(t), ~WalFails(ProcOf[t]),
           file.inc # Absent
    PROVE  SqliteInv'
<1> DEFINE p == ProcOf[t]
<1>0. TypeOK /\ FieldTypes
  BY Zenon, FieldTypesHold DEF SqliteInv
<1>1. /\ p \in Proc /\ LocksInv /\ FileInv /\ ConnsInv(p) /\ GuardsInv(p)
      /\ ThreadInv(t) /\ StageInv(t) /\ RetryInv(t) /\ DeleteInv(t)
  BY Zenon, <1>0 DEF SqliteInv, ThreadOK, DbOK, FieldTypes
<1>2. /\ my[t].pc = "check" /\ my[t].via = "reset" /\ boot = t /\ excl = None
      /\ made # 0 /\ p \in shared /\ db[p].readers = {} /\ ~db[p].linger
  BY ZenonT(60), <1>0, <1>1 DEF CheckGeneration, LocksInv, ThreadInv, StageInv,
     ConnsInv, GuardsInv,
     FieldTypes, BootPcs, DeletePcs, RecreatePcs, ReadPcs
<1>3. ThreadTo(t, "setup", my[t].mode, my[t].via, my[t].second, my[t].seen, my[t].inc,
                     my[t].bad)
  BY <1>0, GoToEffect, Zenon DEF CheckGeneration, GoTo, Labels
<1>4. DbTo(p, db[p].open, TRUE, db[p].conns, db[p].linger, db[p].epoch, db[p].generation,
                 db[p].recreated, db[p].readers, db[p].writer, db[p].wrote)
  BY <1>0, <1>1, PoolEffect, Zenon DEF CheckGeneration
<1>5. UNCHANGED <<file, made, epoch, boot, excl, shared, damages, faults>>
  BY Zenon DEF CheckGeneration, OpenPath, dbVars, lockVars, budgets
<1> USE <1>0, <1>1, <1>2, <1>3, <1>4, <1>5
<1>6. TypeOK'
  BY Zenon DEF TypeOK, ThreadTo, DbTo
<1>7. LocksInv'
  BY ZenonT(60) DEF LocksInv, ThreadTo, FieldTypes, BootPcs, DeletePcs
<1>8. /\ FileInv' /\ \A u \in Thread : ProcOf[u] # p => ThreadOK(u)'
      /\ \A q \in Proc \ {p} : DbOK(q)'
  <2>1. /\ \A u \in Thread : ProcOf[u] # p => my'[u] = my[u]
        /\ \A u \in Thread : my[u].pc \in {"create", "bump"} => my'[u].pc = my[u].pc
        /\ \A u \in Thread : ProcOf[u] = p =>
              my'[u].bad = my[u].bad \/ my'[u].bad = Absent \/ shared # {}
    BY Zenon DEF ThreadTo
  <2>2. \A q \in Proc \ {p} : db'[q] = db[q] /\ (q \in shared' <=> q \in shared)
    BY Zenon DEF DbTo
  <2>3. \A q \in Proc : Unusable(q) => Unusable(q)'
    BY Zenon DEF Unusable, Newer
  <2>4. QED
    BY Zenon, <2>1, <2>2, <2>3, OthersStep
<1>9. \A u \in Thread : Gone(u) => Gone(u)'
  BY ZenonT(60) DEF Gone, ThreadTo
<1>10. ThreadInv(t)'
  BY ZenonT(60) DEF ThreadInv, ThreadTo, DbTo, FieldTypes, BootPcs, RecreatePcs, ReadPcs
<1>11. StageInv(t)'
  BY Zenon DEF StageInv, ThreadTo, DbTo, RecreatePcs
<1>12. RetryInv(t)'
  BY Zenon, <1>9 DEF RetryInv, ThreadTo, DbTo, FieldTypes
<1>13. DeleteInv(t)'
  BY Zenon DEF DeleteInv, Unusable, Newer, ThreadTo, DbTo
<1>14. ConnsInv(p)'
  BY ZenonT(60) DEF ConnsInv, DbTo
<1>15. GuardsInv(p)'
  <2>1. /\ db'[p].readers = {} /\ db'[p].writer = db[p].writer /\ epoch' = epoch
        /\ db'[p].epoch \in {epoch, db[p].epoch} /\ (p \in shared' => db'[p].epoch = epoch)
    BY Zenon DEF DbTo, GuardsInv
  <2>2. \A u \in Thread : InRun(u, RecreatePcs) => InRun(u, RecreatePcs)'
    BY Zenon DEF ThreadTo, RecreatePcs
  <2>3. QED
    BY ONLY Zenon, <1>0, <1>1, <1>2, <2>1, <2>2, GuardsKept DEF p
<1>16. ASSUME NEW u \in Thread, ProcOf[u] = p, u # t PROVE ThreadOK(u)'
  <2>1. /\ ThreadInv(u) /\ StageInv(u) /\ RetryInv(u) /\ DeleteInv(u)
        /\ my'[u] = my[u]
    BY Zenon, <1>16 DEF SqliteInv, ThreadOK, ThreadTo
  <2>2. /\ my[u].pc \in {"idle", "boot", "read", "recreate"}
        /\ my[t].mode = "open" => my[u].pc \in {"idle", "boot"}
    BY Zenon, <1>16, <2>1, AloneInProcess DEF BootPcs
  <2>3. my[u].pc \in {"read", "recreate"} => db'[ProcOf[u]].open
    BY ZenonT(60), <1>16, <2>1, <2>2 DEF ThreadInv, DbTo
  <2>4. ThreadInv(u)' /\ StageInv(u)'
    BY ONLY Zenon, <1>16, <2>1, <2>2, <2>3, WaitsOn
  <2>5. RetryInv(u)'
    BY SMTT(60), <1>16, <2>1, <2>2, <1>9 DEF RetryInv, DbTo
  <2>6. DeleteInv(u)'
    BY ZenonT(60), <1>16, <2>1, <2>2 DEF DeleteInv, Unusable, Newer, ThreadTo, DbTo
  <2>7. QED
    BY Zenon, <2>4, <2>5, <2>6 DEF ThreadOK
<1>17. QED
  BY ONLY Zenon, <1>6, <1>7, <1>8, <1>10, <1>11, <1>12, <1>13, <1>14, <1>15,
     <1>16 DEF
     SqliteInv, ThreadOK, DbOK

(* open finds damage and recreates the file under the lock it has. *)
LEMMA SetUpResetsStep ==
    ASSUME SqliteInv, NEW t \in Thread, At(t, "setup"), file.damage # "none", my[t].via
           = "enable", db' = [db EXCEPT ![ProcOf[t]] = [@ EXCEPT !.recreated = TRUE,
           !.pool = FALSE]], shared' = shared \ {ProcOf[t]}, my' = [my EXCEPT ![t] = [@
           EXCEPT !.pc = "reset", !.via = "reset"]], UNCHANGED <<boot, excl, dbVars,
           budgets>>
    PROVE  SqliteInv'
<1> DEFINE p == ProcOf[t]
<1>0. TypeOK /\ FieldTypes
  BY Zenon, FieldTypesHold DEF SqliteInv
<1>1. /\ p \in Proc /\ LocksInv /\ FileInv /\ ConnsInv(p) /\ GuardsInv(p)
      /\ ThreadInv(t) /\ StageInv(t) /\ RetryInv(t) /\ DeleteInv(t)
  BY Zenon, <1>0 DEF SqliteInv, ThreadOK, DbOK, FieldTypes
<1>2. /\ my[t].pc = "setup" /\ boot = t /\ excl = None /\ made # 0 /\ p \in shared
      /\ db[p].pool /\ file.inc # Absent /\ db[p].readers = {} /\ my[t].mode = "open"
      /\ ~db[p].open
  BY Zenon, <1>0, <1>1 DEF LocksInv, ThreadInv, StageInv, ConnsInv, GuardsInv,
     FieldTypes,
     BootPcs, DeletePcs, RecreatePcs, ReadPcs
<1>3. ThreadTo(t, "reset", my[t].mode, "reset", my[t].second, my[t].seen, my[t].inc,
                     my[t].bad)
  BY <1>0, ViaEffect, Zenon DEF Labels
<1>4. DbTo(p, db[p].open, FALSE, db[p].conns, db[p].linger, db[p].epoch, db[p].generation,
                 TRUE, db[p].readers, db[p].writer, db[p].wrote)
  BY <1>0, <1>1, FailEffect, Zenon
<1>5. /\ shared' = shared \ {p}
      /\ UNCHANGED <<file, made, epoch, boot, excl, damages, faults>>
  BY ZenonT(60) DEF dbVars, lockVars, budgets
<1> USE <1>0, <1>1, <1>2, <1>3, <1>4, <1>5
<1>6. TypeOK'
  BY Zenon DEF TypeOK, ThreadTo, DbTo
<1>7. LocksInv'
  BY Zenon DEF LocksInv, ThreadTo, FieldTypes, BootPcs, DeletePcs
<1>8. /\ FileInv' /\ \A u \in Thread : ProcOf[u] # p => ThreadOK(u)'
      /\ \A q \in Proc \ {p} : DbOK(q)'
  <2>1. /\ \A u \in Thread : ProcOf[u] # p => my'[u] = my[u]
        /\ \A u \in Thread : my[u].pc \in {"create", "bump"} => my'[u].pc = my[u].pc
        /\ \A u \in Thread : ProcOf[u] = p =>
              my'[u].bad = my[u].bad \/ my'[u].bad = Absent \/ shared # {}
    BY Zenon DEF ThreadTo
  <2>2. \A q \in Proc \ {p} : db'[q] = db[q] /\ (q \in shared' <=> q \in shared)
    BY Zenon DEF DbTo
  <2>3. \A q \in Proc : Unusable(q) => Unusable(q)'
    BY Zenon DEF Unusable, Newer
  <2>4. QED
    BY ZenonT(60), <2>1, <2>2, <2>3, OthersStep
<1>9. \A u \in Thread : Gone(u) => Gone(u)'
  BY SMTT(60) DEF Gone, ThreadTo
<1>10. ThreadInv(t)'
  BY DEF ThreadInv, ThreadTo, DbTo, FieldTypes, BootPcs, RecreatePcs, ReadPcs
<1>11. StageInv(t)'
  BY Zenon DEF StageInv, ThreadTo, DbTo, RecreatePcs
<1>12. RetryInv(t)'
  BY <1>9 DEF RetryInv, ThreadTo, DbTo, FieldTypes
<1>13. DeleteInv(t)'
  BY Zenon DEF DeleteInv, Unusable, Newer, ThreadTo, DbTo
<1>14. ConnsInv(p)'
  BY ZenonT(60) DEF ConnsInv, DbTo
<1>15. GuardsInv(p)'
  BY DEF GuardsInv, ThreadTo, DbTo, FieldTypes, RecreatePcs, ReadPcs
<1>16. ASSUME NEW u \in Thread, ProcOf[u] = p, u # t PROVE ThreadOK(u)'
  <2>1. /\ ThreadInv(u) /\ StageInv(u) /\ RetryInv(u) /\ DeleteInv(u)
        /\ my'[u] = my[u]
    BY Zenon, <1>16 DEF SqliteInv, ThreadOK, ThreadTo
  <2>2. /\ my[u].pc \in {"idle", "boot", "read", "recreate"}
        /\ my[t].mode = "open" => my[u].pc \in {"idle", "boot"}
    BY Zenon, <1>16, <2>1, AloneInProcess DEF BootPcs
  <2>3. my[u].pc \in {"read", "recreate"} => db'[ProcOf[u]].open
    BY ZenonT(60), <1>16, <2>1, <2>2 DEF ThreadInv, DbTo
  <2>4. ThreadInv(u)' /\ StageInv(u)'
    BY ONLY Zenon, <1>16, <2>1, <2>2, <2>3, WaitsOn
  <2>5. RetryInv(u)'
    BY <1>16, <2>1, <2>2, <1>9 DEF RetryInv, DbTo
  <2>6. DeleteInv(u)'
    BY ZenonT(60), <1>16, <2>1, <2>2 DEF DeleteInv, Unusable, Newer, ThreadTo, DbTo
  <2>7. QED
    BY Zenon, <2>4, <2>5, <2>6 DEF ThreadOK
<1>17. QED
  BY ONLY Zenon, <1>6, <1>7, <1>8, <1>10, <1>11, <1>12, <1>13, <1>14, <1>15,
     <1>16 DEF
     SqliteInv, ThreadOK, DbOK

(* An operation has the read guard. *)
LEMMA ReadGuardStep ==
    ASSUME SqliteInv, NEW t \in Thread, ReadGuard(t)
    PROVE  SqliteInv'
<1> DEFINE p == ProcOf[t]
<1>0. TypeOK /\ FieldTypes
  BY Zenon, FieldTypesHold DEF SqliteInv
<1>1. /\ p \in Proc /\ LocksInv /\ FileInv /\ ConnsInv(p) /\ GuardsInv(p)
      /\ ThreadInv(t) /\ StageInv(t) /\ RetryInv(t) /\ DeleteInv(t)
  BY Zenon, <1>0 DEF SqliteInv, ThreadOK, DbOK, FieldTypes
<1>2. /\ my[t].pc = "read" /\ my[t].mode = "run" /\ db[p].open /\ db[p].writer = None
  BY Zenon, <1>0, <1>1 DEF ReadGuard, LocksInv, ThreadInv, StageInv, ConnsInv,
     GuardsInv,
     FieldTypes, BootPcs, DeletePcs, RecreatePcs, ReadPcs
<1>b. PICK l : l = IF my[t].locked THEN "lock" ELSE "checkout"
  BY Zenon
<1>3. ThreadTo(t, l, my[t].mode, my[t].via, my[t].second, db[p].generation, my[t].inc,
                     my[t].bad)
  BY Zenon, <1>0, SeenEffect, <1>b, <1>1 DEF ReadGuard, Labels, FieldTypes
<1>4. DbTo(p, db[p].open, db[p].pool, db[p].conns, db[p].linger, db[p].epoch,
                 db[p].generation, db[p].recreated, db[p].readers \cup {t}, db[p].writer,
                 db[p].wrote)
  BY Zenon, <1>0, <1>1, ReadersEffect DEF ReadGuard, FieldTypes
<1>5. /\ UNCHANGED <<file, made, epoch, boot, excl, shared, damages, faults>>
      /\ l \in {"lock", "checkout"}
  BY Zenon, <1>b DEF ReadGuard, dbVars, lockVars, budgets
<1> USE <1>0, <1>1, <1>2, <1>3, <1>4, <1>5
<1>6. TypeOK'
  BY ZenonT(60) DEF TypeOK, ThreadTo, DbTo
<1>7. LocksInv'
  BY DEF LocksInv, ThreadTo, FieldTypes, BootPcs, DeletePcs
<1>8. /\ FileInv' /\ \A u \in Thread : ProcOf[u] # p => ThreadOK(u)'
      /\ \A q \in Proc \ {p} : DbOK(q)'
  <2>1. /\ \A u \in Thread : ProcOf[u] # p => my'[u] = my[u]
        /\ \A u \in Thread : my[u].pc \in {"create", "bump"} => my'[u].pc = my[u].pc
        /\ \A u \in Thread : ProcOf[u] = p =>
              my'[u].bad = my[u].bad \/ my'[u].bad = Absent \/ shared # {}
    BY Zenon DEF ThreadTo
  <2>2. \A q \in Proc \ {p} : db'[q] = db[q] /\ (q \in shared' <=> q \in shared)
    BY Zenon DEF DbTo
  <2>3. \A q \in Proc : Unusable(q) => Unusable(q)'
    BY Zenon DEF Unusable, Newer
  <2>4. QED
    BY Zenon, <2>1, <2>2, <2>3, OthersStep
<1>9. \A u \in Thread : Gone(u) => Gone(u)'
  BY ZenonT(60) DEF Gone, ThreadTo
<1>10. ThreadInv(t)'
  BY ZenonT(60) DEF ThreadInv, ThreadTo, DbTo, FieldTypes, BootPcs, RecreatePcs, ReadPcs
<1>11. StageInv(t)'
  BY Zenon DEF StageInv, ThreadTo, DbTo, RecreatePcs
<1>12. RetryInv(t)'
  BY Zenon, <1>9 DEF RetryInv, ThreadTo, DbTo, FieldTypes
<1>13. DeleteInv(t)'
  BY Zenon DEF DeleteInv, Unusable, Newer, ThreadTo, DbTo
<1>14. ConnsInv(p)'
  BY ZenonT(60) DEF ConnsInv, DbTo
<1>15. GuardsInv(p)'
  BY DEF GuardsInv, ThreadTo, DbTo, FieldTypes, RecreatePcs, ReadPcs
<1>16. ASSUME NEW u \in Thread, ProcOf[u] = p, u # t PROVE ThreadOK(u)'
  <2>1. /\ ThreadInv(u) /\ StageInv(u) /\ RetryInv(u) /\ DeleteInv(u)
        /\ my'[u] = my[u]
    BY Zenon, <1>16 DEF SqliteInv, ThreadOK, ThreadTo
  <2>2. ThreadInv(u)'
    <3>1. (my[u].pc \in ReadPcs => u \in DbOf(u).readers /\ my[u].seen = DbOf(u).generation)'
      BY SMTT(60), <1>16, <2>1 DEF ThreadInv, DbTo
    <3>2. (InRun(u, RecreatePcs) =>
             /\ my[u].via = "reset"
             /\ DbOf(u).writer = u /\ DbOf(u).recreated /\ ~DbOf(u).linger
             /\ ~At(u, "setup") => ~DbOf(u).pool /\ DbOf(u).conns = {})'
      BY <1>16, <2>1 DEF ThreadInv, DbTo
    <3>3. DbOf(u)'.open = DbOf(u).open
      BY Zenon, <1>16, <2>1 DEF DbTo
    <3>4. QED
      BY ONLY ZenonT(60), <2>1, <3>1, <3>2, <3>3 DEF ThreadInv, At, DbOf
  <2>3. StageInv(u)'
    BY ZenonT(60), <1>16, <2>1 DEF StageInv, DbTo, RecreatePcs
  <2>4. RetryInv(u)'
    BY SMTT(60), <1>16, <2>1, <1>9 DEF RetryInv, DbTo
  <2>5. DeleteInv(u)'
    BY <1>16, <2>1 DEF DeleteInv, Unusable, Newer, ThreadTo, DbTo
  <2>6. QED
    BY Zenon, <2>2, <2>3, <2>4, <2>5 DEF ThreadOK
<1>17. QED
  BY ONLY Zenon, <1>6, <1>7, <1>8, <1>10, <1>11, <1>12, <1>13, <1>14, <1>15,
     <1>16 DEF
     SqliteInv, ThreadOK, DbOK

(* An operation has a connection. *)
LEMMA CheckoutStep ==
    ASSUME SqliteInv, NEW t \in Thread, At(t, "checkout"), db[ProcOf[t]].pool, NEW c \in
           db[ProcOf[t]].conns \cup {file.inc}, db' = [db EXCEPT ![ProcOf[t]].conns = @
           \cup {c}], my' = [my EXCEPT ![t] = [@ EXCEPT !.pc = "op", !.inc = c]],
           UNCHANGED <<lockVars, dbVars, budgets>>
    PROVE  SqliteInv'
<1> DEFINE p == ProcOf[t]
<1>0. TypeOK /\ FieldTypes
  BY Zenon, FieldTypesHold DEF SqliteInv
<1>1. /\ p \in Proc /\ LocksInv /\ FileInv /\ ConnsInv(p) /\ GuardsInv(p)
      /\ ThreadInv(t) /\ StageInv(t) /\ RetryInv(t) /\ DeleteInv(t)
  BY Zenon, <1>0 DEF SqliteInv, ThreadOK, DbOK, FieldTypes
<1>2. /\ my[t].pc = "checkout" /\ my[t].mode = "run" /\ c = file.inc /\ c \in Nat
      /\ p \in shared /\ file.inc # Absent /\ db[p].open
  BY Zenon, <1>0, <1>1 DEF LocksInv, ThreadInv, StageInv, ConnsInv, GuardsInv,
     FieldTypes,
     BootPcs, DeletePcs, RecreatePcs, ReadPcs
<1>3. ThreadTo(t, "op", my[t].mode, my[t].via, my[t].second, my[t].seen, c, my[t].bad)
  BY <1>0, IncEffect, <1>2, Zenon
<1>4. DbTo(p, db[p].open, db[p].pool, db[p].conns \cup {c}, db[p].linger, db[p].epoch,
                 db[p].generation, db[p].recreated, db[p].readers, db[p].writer, db[p].wrote)
  BY Zenon, <1>0, <1>1, ConnsEffect, <1>2 DEF FieldTypes
<1>5. UNCHANGED <<file, made, epoch, boot, excl, shared, damages, faults>>
  BY Zenon DEF dbVars, lockVars, budgets
<1> USE <1>0, <1>1, <1>2, <1>3, <1>4, <1>5
<1>6. TypeOK'
  BY Zenon DEF TypeOK, ThreadTo, DbTo
<1>7. LocksInv'
  BY DEF LocksInv, ThreadTo, FieldTypes, BootPcs, DeletePcs
<1>8. /\ FileInv' /\ \A u \in Thread : ProcOf[u] # p => ThreadOK(u)'
      /\ \A q \in Proc \ {p} : DbOK(q)'
  <2>1. /\ \A u \in Thread : ProcOf[u] # p => my'[u] = my[u]
        /\ \A u \in Thread : my[u].pc \in {"create", "bump"} => my'[u].pc = my[u].pc
        /\ \A u \in Thread : ProcOf[u] = p =>
              my'[u].bad = my[u].bad \/ my'[u].bad = Absent \/ shared # {}
    BY Zenon DEF ThreadTo
  <2>2. \A q \in Proc \ {p} : db'[q] = db[q] /\ (q \in shared' <=> q \in shared)
    BY Zenon DEF DbTo
  <2>3. \A q \in Proc : Unusable(q) => Unusable(q)'
    BY Zenon DEF Unusable, Newer
  <2>4. QED
    BY Zenon, <2>1, <2>2, <2>3, OthersStep
<1>9. \A u \in Thread : Gone(u) => Gone(u)'
  BY DEF Gone, ThreadTo
<1>10. ThreadInv(t)'
  BY ZenonT(60) DEF ThreadInv, ThreadTo, DbTo, FieldTypes, BootPcs, RecreatePcs,
     ReadPcs
<1>11. StageInv(t)'
  BY Zenon DEF StageInv, ThreadTo, DbTo, RecreatePcs
<1>12. RetryInv(t)'
  BY ZenonT(60), <1>9 DEF RetryInv, ThreadTo, DbTo, FieldTypes
<1>13. DeleteInv(t)'
  BY Zenon DEF DeleteInv, Unusable, Newer, ThreadTo, DbTo
<1>14. ConnsInv(p)'
  BY Zenon DEF ConnsInv, DbTo
<1>15. GuardsInv(p)'
  BY DEF GuardsInv, ThreadTo, DbTo, FieldTypes, RecreatePcs, ReadPcs
<1>16. ASSUME NEW u \in Thread, ProcOf[u] = p, u # t PROVE ThreadOK(u)'
  <2>1. /\ ThreadInv(u) /\ StageInv(u) /\ RetryInv(u) /\ DeleteInv(u)
        /\ my'[u] = my[u]
    BY Zenon, <1>16 DEF SqliteInv, ThreadOK, ThreadTo
  <2>2. ThreadInv(u)'
    BY <1>16, <2>1 DEF ThreadInv, DbTo, BootPcs, RecreatePcs, ReadPcs
  <2>3. StageInv(u)'
    BY ZenonT(60), <1>16, <2>1 DEF StageInv, DbTo, RecreatePcs
  <2>4. RetryInv(u)'
    BY <1>16, <2>1, <1>9 DEF RetryInv, DbTo
  <2>5. DeleteInv(u)'
    BY SMTT(60), <1>16, <2>1 DEF DeleteInv, Unusable, Newer, ThreadTo, DbTo
  <2>6. QED
    BY Zenon, <2>2, <2>3, <2>4, <2>5 DEF ThreadOK
<1>17. QED
  BY ONLY Zenon, <1>6, <1>7, <1>8, <1>10, <1>11, <1>12, <1>13, <1>14, <1>15,
     <1>16 DEF
     SqliteInv, ThreadOK, DbOK

(* An attempt ends and the call with it. *)
LEMMA AttemptEndsStep ==
    ASSUME SqliteInv, NEW t \in Thread, my[t].pc \in ReadPcs, db' = [db EXCEPT
           ![ProcOf[t]].readers = @ \ {t}], my' = [my EXCEPT ![t] = Idle],
           EndAttempt(t), UNCHANGED <<dbVars, budgets>>
    PROVE  SqliteInv'
<1> DEFINE p == ProcOf[t]
<1>0. TypeOK /\ FieldTypes
  BY Zenon, FieldTypesHold DEF SqliteInv
<1>1. /\ p \in Proc /\ LocksInv /\ FileInv /\ ConnsInv(p) /\ GuardsInv(p)
      /\ ThreadInv(t) /\ StageInv(t) /\ RetryInv(t) /\ DeleteInv(t)
  BY Zenon, <1>0 DEF SqliteInv, ThreadOK, DbOK, FieldTypes
<1>2. /\ my[t].pc \in ReadPcs /\ my[t].mode = "run" /\ db[p].writer = None
  BY Zenon, <1>0, <1>1 DEF LocksInv, ThreadInv, StageInv, ConnsInv, GuardsInv,
     FieldTypes,
     BootPcs, DeletePcs, RecreatePcs, ReadPcs
<1>3. ThreadTo(t, "idle", "run", "enable", FALSE, 0, Absent, Absent)
  BY <1>0, IdleEffect, Zenon
<1>4. DbTo(p, db[p].open, db[p].pool, db[p].conns, db[p].linger, db[p].epoch,
                 db[p].generation, db[p].recreated, db[p].readers \ {t}, db[p].writer,
                 db[p].wrote)
  BY <1>0, <1>1, ReadersEffect, Zenon DEF FieldTypes
<1>5. /\ boot' = (IF boot = t THEN None ELSE boot)
      /\ UNCHANGED <<file, made, epoch, excl, shared, damages, faults>>
  BY Zenon DEF EndAttempt, dbVars, lockVars, budgets
<1> USE <1>0, <1>1, <1>2, <1>3, <1>4, <1>5
<1>6. TypeOK'
  BY Zenon DEF TypeOK, ThreadTo, DbTo
<1>7. LocksInv'
  BY DEF LocksInv, ThreadTo, FieldTypes, BootPcs, DeletePcs, ReadPcs
<1>8. /\ FileInv' /\ \A u \in Thread : ProcOf[u] # p => ThreadOK(u)'
      /\ \A q \in Proc \ {p} : DbOK(q)'
  <2>1. /\ \A u \in Thread : ProcOf[u] # p => my'[u] = my[u]
        /\ \A u \in Thread : my[u].pc \in {"create", "bump"} => my'[u].pc = my[u].pc
        /\ \A u \in Thread : ProcOf[u] = p =>
              my'[u].bad = my[u].bad \/ my'[u].bad = Absent \/ shared # {}
    BY Zenon DEF ThreadTo, ReadPcs
  <2>2. \A q \in Proc \ {p} : db'[q] = db[q] /\ (q \in shared' <=> q \in shared)
    BY Zenon DEF DbTo
  <2>3. \A q \in Proc : Unusable(q) => Unusable(q)'
    BY Zenon DEF Unusable, Newer
  <2>4. QED
    BY Zenon, <2>1, <2>2, <2>3, OthersStep
<1>9. \A u \in Thread : Gone(u) => Gone(u)'
  BY Zenon DEF Gone, ThreadTo
<1>10. ThreadInv(t)'
  BY Zenon DEF ThreadInv, ThreadTo, DbTo, FieldTypes, BootPcs, RecreatePcs, ReadPcs
<1>11. StageInv(t)'
  BY Zenon DEF StageInv, ThreadTo, DbTo, RecreatePcs
<1>12. RetryInv(t)'
  <2>1. my'[t].pc = "idle" /\ my'[t].second = FALSE /\ my'[t].bad = Absent /\ made' \in Nat
    BY Zenon DEF ThreadTo, FieldTypes
  <2>2. QED
    BY <2>1 DEF RetryInv, Gone
<1>13. DeleteInv(t)'
  BY Zenon DEF DeleteInv, Unusable, Newer, ThreadTo, DbTo
<1>14. ConnsInv(p)'
  BY ZenonT(60) DEF ConnsInv, DbTo
<1>15. GuardsInv(p)'
  BY DEF GuardsInv, ThreadTo, DbTo, FieldTypes, RecreatePcs, ReadPcs
<1>16. ASSUME NEW u \in Thread, ProcOf[u] = p, u # t PROVE ThreadOK(u)'
  <2>1. /\ ThreadInv(u) /\ StageInv(u) /\ RetryInv(u) /\ DeleteInv(u)
        /\ my'[u] = my[u]
    BY ZenonT(60), <1>16 DEF SqliteInv, ThreadOK, ThreadTo
  <2>2. ThreadInv(u)'
    BY SMTT(60), <1>16, <2>1 DEF ThreadInv, DbTo, BootPcs, RecreatePcs, ReadPcs
  <2>3. StageInv(u)'
    BY <1>16, <2>1 DEF StageInv, DbTo, RecreatePcs
  <2>4. RetryInv(u)'
    BY SMTT(60), <1>16, <2>1, <1>9 DEF RetryInv, DbTo
  <2>5. DeleteInv(u)'
    BY SMTT(60), <1>16, <2>1 DEF DeleteInv, Unusable, Newer, ThreadTo, DbTo, ReadPcs
  <2>6. QED
    BY Zenon, <2>2, <2>3, <2>4, <2>5 DEF ThreadOK
<1>17. QED
  BY ONLY Zenon, <1>6, <1>7, <1>8, <1>10, <1>11, <1>12, <1>13, <1>14, <1>15,
     <1>16 DEF
     SqliteInv, ThreadOK, DbOK

(* An operation commits rows. *)
LEMMA OpWritesStep ==
    ASSUME SqliteInv, NEW t \in Thread, At(t, "op"), db' = [db EXCEPT ![ProcOf[t]] = [@
           EXCEPT !.readers = db[ProcOf[t]].readers \ {t}, !.wrote = db[ProcOf[t]].wrote
           \cup {my[t].inc}]], my' = [my EXCEPT ![t] = Idle], EndAttempt(t), UNCHANGED
           <<dbVars, budgets>>
    PROVE  SqliteInv'
<1> DEFINE p == ProcOf[t]
<1>0. TypeOK /\ FieldTypes
  BY Zenon, FieldTypesHold DEF SqliteInv
<1>1. /\ p \in Proc /\ LocksInv /\ FileInv /\ ConnsInv(p) /\ GuardsInv(p)
      /\ ThreadInv(t) /\ StageInv(t) /\ RetryInv(t) /\ DeleteInv(t)
  BY Zenon, <1>0 DEF SqliteInv, ThreadOK, DbOK, FieldTypes
<1>2. /\ my[t].pc \in ReadPcs /\ my[t].mode = "run" /\ db[p].writer = None
  BY Zenon, <1>0, <1>1 DEF LocksInv, ThreadInv, StageInv, ConnsInv, GuardsInv,
     FieldTypes,
     BootPcs, DeletePcs, RecreatePcs, ReadPcs
<1>3. ThreadTo(t, "idle", "run", "enable", FALSE, 0, Absent, Absent)
  BY <1>0, IdleEffect, Zenon
<1>4. DbTo(p, db[p].open, db[p].pool, db[p].conns, db[p].linger, db[p].epoch,
                 db[p].generation, db[p].recreated, db[p].readers \ {t}, db[p].writer,
                 db[p].wrote \cup {my[t].inc})
  BY ZenonT(60), <1>0, <1>1, WroteEffect DEF FieldTypes
<1>5. /\ boot' = (IF boot = t THEN None ELSE boot)
      /\ UNCHANGED <<file, made, epoch, excl, shared, damages, faults>>
  BY Zenon DEF EndAttempt, dbVars, lockVars, budgets
<1> USE <1>0, <1>1, <1>2, <1>3, <1>4, <1>5
<1>6. TypeOK'
  BY Zenon DEF TypeOK, ThreadTo, DbTo
<1>7. LocksInv'
  BY DEF LocksInv, ThreadTo, FieldTypes, BootPcs, DeletePcs, ReadPcs
<1>8. /\ FileInv' /\ \A u \in Thread : ProcOf[u] # p => ThreadOK(u)'
      /\ \A q \in Proc \ {p} : DbOK(q)'
  <2>1. /\ \A u \in Thread : ProcOf[u] # p => my'[u] = my[u]
        /\ \A u \in Thread : my[u].pc \in {"create", "bump"} => my'[u].pc = my[u].pc
        /\ \A u \in Thread : ProcOf[u] = p =>
              my'[u].bad = my[u].bad \/ my'[u].bad = Absent \/ shared # {}
    BY Zenon DEF ThreadTo, ReadPcs
  <2>2. \A q \in Proc \ {p} : db'[q] = db[q] /\ (q \in shared' <=> q \in shared)
    BY Zenon DEF DbTo
  <2>3. \A q \in Proc : Unusable(q) => Unusable(q)'
    BY Zenon DEF Unusable, Newer
  <2>4. QED
    BY Zenon, <2>1, <2>2, <2>3, OthersStep
<1>9. \A u \in Thread : Gone(u) => Gone(u)'
  BY Zenon DEF Gone, ThreadTo
<1>10. ThreadInv(t)'
  BY Zenon DEF ThreadInv, ThreadTo, DbTo, FieldTypes, BootPcs, RecreatePcs, ReadPcs
<1>11. StageInv(t)'
  BY Zenon DEF StageInv, ThreadTo, DbTo, RecreatePcs
<1>12. RetryInv(t)'
  <2>1. my'[t].pc = "idle" /\ my'[t].second = FALSE /\ my'[t].bad = Absent /\ made' \in Nat
    BY Zenon DEF ThreadTo, FieldTypes
  <2>2. QED
    BY <2>1 DEF RetryInv, Gone
<1>13. DeleteInv(t)'
  BY Zenon DEF DeleteInv, Unusable, Newer, ThreadTo, DbTo
<1>14. ConnsInv(p)'
  BY Zenon DEF ConnsInv, DbTo
<1>15. GuardsInv(p)'
  BY DEF GuardsInv, ThreadTo, DbTo, FieldTypes, RecreatePcs, ReadPcs
<1>16. ASSUME NEW u \in Thread, ProcOf[u] = p, u # t PROVE ThreadOK(u)'
  <2>1. /\ ThreadInv(u) /\ StageInv(u) /\ RetryInv(u) /\ DeleteInv(u)
        /\ my'[u] = my[u]
    BY ZenonT(60), <1>16 DEF SqliteInv, ThreadOK, ThreadTo
  <2>2. ThreadInv(u)'
    BY SMTT(60), <1>16, <2>1 DEF ThreadInv, DbTo, BootPcs, RecreatePcs, ReadPcs
  <2>3. StageInv(u)'
    BY SMTT(60), <1>16, <2>1 DEF StageInv, DbTo, RecreatePcs
  <2>4. RetryInv(u)'
    BY SMTT(60), <1>16, <2>1, <1>9 DEF RetryInv, DbTo
  <2>5. DeleteInv(u)'
    BY SMTT(60), <1>16, <2>1 DEF DeleteInv, Unusable, Newer, ThreadTo, DbTo, ReadPcs
  <2>6. QED
    BY Zenon, <2>2, <2>3, <2>4, <2>5 DEF ThreadOK
<1>17. QED
  BY ONLY Zenon, <1>6, <1>7, <1>8, <1>10, <1>11, <1>12, <1>13, <1>14, <1>15,
     <1>16 DEF
     SqliteInv, ThreadOK, DbOK

(* The first attempt meets damage. *)
LEMMA OpCorruptStep ==
    ASSUME SqliteInv, NEW t \in Thread, OpCorrupt(t), ~my[t].second
    PROVE  SqliteInv'
<1> DEFINE p == ProcOf[t]
<1>0. TypeOK /\ FieldTypes
  BY Zenon, FieldTypesHold DEF SqliteInv
<1>1. /\ p \in Proc /\ LocksInv /\ FileInv /\ ConnsInv(p) /\ GuardsInv(p)
      /\ ThreadInv(t) /\ StageInv(t) /\ RetryInv(t) /\ DeleteInv(t)
  BY Zenon, <1>0 DEF SqliteInv, ThreadOK, DbOK, FieldTypes
<1>2. /\ my[t].pc = "op" /\ my[t].mode = "run" /\ db[p].writer = None /\ db[p].open
      /\ my[t].inc = file.inc /\ p \in shared /\ db[p].epoch = epoch
      /\ my[t].seen = db[p].generation /\ Unusable(p) /\ shared # {}
  BY Zenon, <1>0, <1>1 DEF OpCorrupt, Unusable, LocksInv, ThreadInv, StageInv,
     ConnsInv,
     GuardsInv, FieldTypes, BootPcs, DeletePcs, RecreatePcs, ReadPcs
<1>3. ThreadTo(t, "recreate", my[t].mode, my[t].via, my[t].second, my[t].seen, my[t].inc,
                     my[t].inc)
  BY <1>0, BadEffect, Zenon DEF OpCorrupt, FieldTypes
<1>4. DbTo(p, db[p].open, db[p].pool, db[p].conns, db[p].linger, db[p].epoch,
                 db[p].generation, db[p].recreated, db[p].readers \ {t}, db[p].writer,
                 db[p].wrote)
  BY Zenon, <1>0, <1>1, ReadersEffect DEF OpCorrupt, FieldTypes
<1>5. /\ boot' = (IF boot = t THEN None ELSE boot)
      /\ UNCHANGED <<file, made, epoch, excl, shared, damages, faults>>
  BY Zenon DEF OpCorrupt, EndAttempt, dbVars, lockVars, budgets
<1> USE <1>0, <1>1, <1>2, <1>3, <1>4, <1>5
<1>6. TypeOK'
  BY Zenon DEF TypeOK, ThreadTo, DbTo
<1>7. LocksInv'
  BY ZenonT(60) DEF LocksInv, ThreadTo, FieldTypes, BootPcs, DeletePcs, ReadPcs
<1>8. /\ FileInv' /\ \A u \in Thread : ProcOf[u] # p => ThreadOK(u)'
      /\ \A q \in Proc \ {p} : DbOK(q)'
  <2>1. /\ \A u \in Thread : ProcOf[u] # p => my'[u] = my[u]
        /\ \A u \in Thread : my[u].pc \in {"create", "bump"} => my'[u].pc = my[u].pc
        /\ \A u \in Thread : ProcOf[u] = p =>
              my'[u].bad = my[u].bad \/ my'[u].bad = Absent \/ shared # {}
    BY Zenon DEF ThreadTo, ReadPcs
  <2>2. \A q \in Proc \ {p} : db'[q] = db[q] /\ (q \in shared' <=> q \in shared)
    BY Zenon DEF DbTo
  <2>3. \A q \in Proc : Unusable(q) => Unusable(q)'
    BY Zenon DEF Unusable, Newer
  <2>4. QED
    BY Zenon, <2>1, <2>2, <2>3, OthersStep
<1>9. ThreadInv(t)'
  BY Zenon DEF ThreadInv, ThreadTo, DbTo, FieldTypes, BootPcs, RecreatePcs, ReadPcs
<1>10. StageInv(t)'
  BY Zenon DEF StageInv, ThreadTo, DbTo, RecreatePcs
<1>11. RetryInv(t)'
  BY ZenonT(60) DEF RetryInv, Gone, ThreadTo, DbTo, FieldTypes, FileInv
<1>12. DeleteInv(t)'
  BY Zenon DEF DeleteInv, Unusable, Newer, ThreadTo, DbTo
<1>13. ConnsInv(p)'
  BY Zenon DEF ConnsInv, DbTo
<1>14. GuardsInv(p)'
  BY DEF GuardsInv, ThreadTo, DbTo, FieldTypes, RecreatePcs, ReadPcs
<1>15. ASSUME NEW u \in Thread, ProcOf[u] = p, u # t PROVE ThreadOK(u)'
  <2>1. /\ ThreadInv(u) /\ StageInv(u) /\ RetryInv(u) /\ DeleteInv(u)
        /\ my'[u] = my[u]
    BY Zenon, <1>15 DEF SqliteInv, ThreadOK, ThreadTo
  <2>2. my[u].pc # "bump" /\ ~InRun(u, {"share", "check", "setup"})
    BY ZenonT(60), <1>15, <2>1 DEF ThreadInv, LocksInv, DeletePcs, RecreatePcs
  <2>3. ThreadInv(u)'
    <3>1. (my[u].pc \in ReadPcs => u \in DbOf(u).readers /\ my[u].seen = DbOf(u).generation)'
      BY SMTT(60), <1>15, <2>1, <2>2 DEF ThreadInv, DbTo
    <3>2. (InRun(u, RecreatePcs) =>
             /\ my[u].via = "reset"
             /\ DbOf(u).writer = u /\ DbOf(u).recreated /\ ~DbOf(u).linger
             /\ ~At(u, "setup") => ~DbOf(u).pool /\ DbOf(u).conns = {})'
      BY <1>15, <2>1, <2>2 DEF ThreadInv, DbTo
    <3>3. DbOf(u)'.open = DbOf(u).open
      BY Zenon, <1>15, <2>1, <2>2 DEF DbTo
    <3>4. QED
      BY ONLY Zenon, <2>1, <3>1, <3>2, <3>3 DEF ThreadInv, At, DbOf
  <2>4. StageInv(u)'
    BY ZenonT(60), <1>15, <2>1, <2>2 DEF StageInv, DbTo, RecreatePcs
  <2>5. RetryInv(u)'
    BY <1>15, <2>1, <2>2 DEF RetryInv, DbTo, Gone, ThreadTo
  <2>6. DeleteInv(u)'
    BY ZenonT(60), <1>15, <2>1, <2>2 DEF DeleteInv, Unusable, Newer, ThreadTo, DbTo,
       ReadPcs
  <2>7. QED
    BY ZenonT(60), <2>3, <2>4, <2>5, <2>6 DEF ThreadOK
<1>16. QED
  BY ONLY Zenon, <1>6, <1>7, <1>8, <1>9, <1>10, <1>11, <1>12, <1>13, <1>14,
     <1>15 DEF
     SqliteInv, ThreadOK, DbOK

(* The wait for the bootstrap lock times out. *)
LEMMA LockTimeoutStep ==
    ASSUME SqliteInv, NEW t \in Thread, LockTimeout(t)
    PROVE  SqliteInv'
<1> DEFINE p == ProcOf[t]
<1>0. TypeOK /\ FieldTypes
  BY Zenon, FieldTypesHold DEF SqliteInv
<1>1. /\ p \in Proc /\ LocksInv /\ FileInv /\ ConnsInv(p) /\ GuardsInv(p)
      /\ ThreadInv(t) /\ StageInv(t) /\ RetryInv(t) /\ DeleteInv(t)
  BY Zenon, <1>0 DEF SqliteInv, ThreadOK, DbOK, FieldTypes
<1>2. /\ my[t].pc \in {"boot", "lock", "rboot"}
      /\ (my[t].pc = "boot" => my[t].mode = "open")
      /\ (my[t].pc # "boot" => my[t].mode = "run")
  BY Zenon, <1>0, <1>1 DEF LockTimeout, LocksInv, ThreadInv, StageInv, ConnsInv,
     GuardsInv,
     FieldTypes, BootPcs, DeletePcs, RecreatePcs, ReadPcs
<1>3. ThreadTo(t, "idle", "run", "enable", FALSE, 0, Absent, Absent)
  BY <1>0, IdleEffect, Zenon DEF LockTimeout
<1>4. DbTo(p, db[p].open, db[p].pool, db[p].conns, db[p].linger, db[p].epoch,
                 db[p].generation, db[p].recreated, db[p].readers \ {t},
                 IF db[p].writer = t THEN None ELSE db[p].writer, db[p].wrote)
  BY <1>0, <1>1, GuardsEffect, Zenon DEF LockTimeout, FieldTypes
<1>5. UNCHANGED <<file, made, epoch, boot, excl, shared, damages, faults>>
  BY Zenon DEF LockTimeout, dbVars, lockVars, budgets
<1> USE <1>0, <1>1, <1>2, <1>3, <1>4, <1>5
<1>6. TypeOK'
  BY Zenon DEF TypeOK, ThreadTo, DbTo
<1>7. LocksInv'
  BY Zenon DEF LocksInv, ThreadTo, FieldTypes, BootPcs, DeletePcs
<1>8. /\ FileInv' /\ \A u \in Thread : ProcOf[u] # p => ThreadOK(u)'
      /\ \A q \in Proc \ {p} : DbOK(q)'
  <2>1. /\ \A u \in Thread : ProcOf[u] # p => my'[u] = my[u]
        /\ \A u \in Thread : my[u].pc \in {"create", "bump"} => my'[u].pc = my[u].pc
        /\ \A u \in Thread : ProcOf[u] = p =>
              my'[u].bad = my[u].bad \/ my'[u].bad = Absent \/ shared # {}
    BY Zenon DEF ThreadTo
  <2>2. \A q \in Proc \ {p} : db'[q] = db[q] /\ (q \in shared' <=> q \in shared)
    BY Zenon DEF DbTo
  <2>3. \A q \in Proc : Unusable(q) => Unusable(q)'
    BY Zenon DEF Unusable, Newer
  <2>4. QED
    BY Zenon, <2>1, <2>2, <2>3, OthersStep
<1>9. \A u \in Thread : Gone(u) => Gone(u)'
  BY Zenon DEF Gone, ThreadTo
<1>10. ThreadInv(t)'
  BY Zenon DEF ThreadInv, ThreadTo, DbTo, FieldTypes, BootPcs, RecreatePcs, ReadPcs
<1>11. StageInv(t)'
  BY Zenon DEF StageInv, ThreadTo, DbTo, RecreatePcs
<1>12. RetryInv(t)'
  <2>1. my'[t].pc = "idle" /\ my'[t].second = FALSE /\ my'[t].bad = Absent /\ made' \in Nat
    BY Zenon DEF ThreadTo, FieldTypes
  <2>2. QED
    BY <2>1 DEF RetryInv, Gone
<1>13. DeleteInv(t)'
  BY Zenon DEF DeleteInv, Unusable, Newer, ThreadTo, DbTo
<1>14. ConnsInv(p)'
  BY ZenonT(60) DEF ConnsInv, DbTo
<1>15. GuardsInv(p)'
  BY DEF GuardsInv, ThreadTo, DbTo, FieldTypes, RecreatePcs, ReadPcs
<1>16. ASSUME NEW u \in Thread, ProcOf[u] = p, u # t PROVE ThreadOK(u)'
  <2>1. /\ ThreadInv(u) /\ StageInv(u) /\ RetryInv(u) /\ DeleteInv(u)
        /\ my'[u] = my[u]
    BY Zenon, <1>16 DEF SqliteInv, ThreadOK, ThreadTo
  <2>2. ThreadInv(u)'
    <3>1. (my[u].pc \in ReadPcs => u \in DbOf(u).readers /\ my[u].seen = DbOf(u).generation)'
      BY ZenonT(60), <1>16, <2>1 DEF ThreadInv, DbTo
    <3>2. (InRun(u, RecreatePcs) =>
             /\ my[u].via = "reset"
             /\ DbOf(u).writer = u /\ DbOf(u).recreated /\ ~DbOf(u).linger
             /\ ~At(u, "setup") => ~DbOf(u).pool /\ DbOf(u).conns = {})'
      BY <1>16, <2>1 DEF ThreadInv, DbTo
    <3>3. DbOf(u)'.open = DbOf(u).open
      BY Zenon, <1>16, <2>1 DEF DbTo
    <3>4. QED
      BY ONLY Zenon, <2>1, <3>1, <3>2, <3>3 DEF ThreadInv, At, DbOf
  <2>3. StageInv(u)'
    BY Zenon, <1>16, <2>1 DEF StageInv, DbTo, RecreatePcs
  <2>4. RetryInv(u)'
    BY ZenonT(60), <1>16, <2>1, <1>9 DEF RetryInv, DbTo
  <2>5. DeleteInv(u)'
    BY SMTT(60), <1>16, <2>1 DEF DeleteInv, Unusable, Newer, ThreadTo, DbTo
  <2>6. QED
    BY Zenon, <2>2, <2>3, <2>4, <2>5 DEF ThreadOK
<1>17. QED
  BY ONLY Zenon, <1>6, <1>7, <1>8, <1>10, <1>11, <1>12, <1>13, <1>14, <1>15,
     <1>16 DEF
     SqliteInv, ThreadOK, DbOK

(* A recreate closes the Db. *)
LEMMA RecreateClosesStep ==
    ASSUME SqliteInv, NEW t \in Thread, At(t, "recreate"), db[ProcOf[t]].writer = None,
           db[ProcOf[t]].readers = {}, ~db[ProcOf[t]].recreated, db' = [db EXCEPT
           ![ProcOf[t]] = [[db[ProcOf[t]] EXCEPT !.recreated = TRUE, !.pool = FALSE]
           EXCEPT !.conns = {}, !.writer = t]], shared' = shared \ {ProcOf[t]}, my' =
           [my EXCEPT ![t] = [@ EXCEPT !.pc = "rboot", !.via = "reset"]], UNCHANGED
           <<boot, excl, dbVars, budgets>>
    PROVE  SqliteInv'
<1> DEFINE p == ProcOf[t]
<1>0. TypeOK /\ FieldTypes
  BY Zenon, FieldTypesHold DEF SqliteInv
<1>1. /\ p \in Proc /\ LocksInv /\ FileInv /\ ConnsInv(p) /\ GuardsInv(p)
      /\ ThreadInv(t) /\ StageInv(t) /\ RetryInv(t) /\ DeleteInv(t)
  BY Zenon, <1>0 DEF SqliteInv, ThreadOK, DbOK, FieldTypes
<1>2. /\ my[t].pc = "recreate" /\ my[t].mode = "run" /\ db[p].open /\ ~db[p].linger
      /\ made # 0 /\ Unusable(p)
  BY Zenon, <1>0, <1>1 DEF DeleteInv, LocksInv, ThreadInv, StageInv, ConnsInv,
     GuardsInv,
     FieldTypes, BootPcs, DeletePcs, RecreatePcs, ReadPcs
<1>3. ThreadTo(t, "rboot", my[t].mode, "reset", my[t].second, my[t].seen, my[t].inc,
                     my[t].bad)
  BY <1>0, ViaEffect, Zenon DEF Labels
<1>4. DbTo(p, db[p].open, FALSE, {}, db[p].linger, db[p].epoch, db[p].generation, TRUE,
                 db[p].readers, t, db[p].wrote)
  BY <1>0, <1>1, CloseEffect, Zenon
<1>5. /\ shared' = shared \ {p}
      /\ UNCHANGED <<file, made, epoch, boot, excl, damages, faults>>
  BY Zenon DEF dbVars, lockVars, budgets
<1> USE <1>0, <1>1, <1>2, <1>3, <1>4, <1>5
<1>6. TypeOK'
  BY ZenonT(60) DEF TypeOK, ThreadTo, DbTo
<1>7. LocksInv'
  BY DEF LocksInv, ThreadTo, FieldTypes, BootPcs, DeletePcs
<1>8. /\ FileInv' /\ \A u \in Thread : ProcOf[u] # p => ThreadOK(u)'
      /\ \A q \in Proc \ {p} : DbOK(q)'
  <2>1. /\ \A u \in Thread : ProcOf[u] # p => my'[u] = my[u]
        /\ \A u \in Thread : my[u].pc \in {"create", "bump"} => my'[u].pc = my[u].pc
        /\ \A u \in Thread : ProcOf[u] = p =>
              my'[u].bad = my[u].bad \/ my'[u].bad = Absent \/ shared # {}
    BY Zenon DEF ThreadTo
  <2>2. \A q \in Proc \ {p} : db'[q] = db[q] /\ (q \in shared' <=> q \in shared)
    BY Zenon DEF DbTo
  <2>3. \A q \in Proc : Unusable(q) => Unusable(q)'
    BY Zenon DEF Unusable, Newer
  <2>4. QED
    BY Zenon, <2>1, <2>2, <2>3, OthersStep
<1>9. \A u \in Thread : Gone(u) => Gone(u)'
  BY DEF Gone, ThreadTo
<1>10. ThreadInv(t)'
  BY ZenonT(60) DEF ThreadInv, ThreadTo, DbTo, FieldTypes, BootPcs, RecreatePcs, ReadPcs
<1>11. StageInv(t)'
  BY Zenon DEF StageInv, ThreadTo, DbTo, RecreatePcs
<1>12. RetryInv(t)'
  BY ZenonT(60), <1>9 DEF RetryInv, ThreadTo, DbTo, FieldTypes
<1>13. DeleteInv(t)'
  BY Zenon DEF DeleteInv, Unusable, Newer, ThreadTo, DbTo
<1>14. ConnsInv(p)'
  BY Zenon DEF ConnsInv, DbTo
<1>15. GuardsInv(p)'
  BY DEF GuardsInv, ThreadTo, DbTo, FieldTypes, RecreatePcs, ReadPcs
<1>16. ASSUME NEW u \in Thread, ProcOf[u] = p, u # t PROVE ThreadOK(u)'
  <2>1. /\ ThreadInv(u) /\ StageInv(u) /\ RetryInv(u) /\ DeleteInv(u)
        /\ my'[u] = my[u]
    BY Zenon, <1>16 DEF SqliteInv, ThreadOK, ThreadTo
  <2>2. my[u].pc \notin {"op", "check", "setup"}
    BY Zenon, <1>16, <2>1 DEF ThreadInv, StageInv, FieldTypes, ReadPcs, BootPcs,
       RecreatePcs
  <2>3. ThreadInv(u)'
    BY ZenonT(60), <1>16, <2>1, <2>2 DEF ThreadInv, DbTo, BootPcs, RecreatePcs,
       ReadPcs
  <2>4. StageInv(u)'
    BY Zenon, <1>16, <2>1, <2>2 DEF StageInv, DbTo, RecreatePcs
  <2>5. RetryInv(u)'
    BY <1>16, <2>1, <2>2, <1>9 DEF RetryInv, DbTo
  <2>6. DeleteInv(u)'
    BY ZenonT(60), <1>16, <2>1, <2>2 DEF DeleteInv, Unusable, Newer, ThreadTo, DbTo
  <2>7. QED
    BY ZenonT(60), <2>3, <2>4, <2>5, <2>6 DEF ThreadOK
<1>17. QED
  BY ONLY Zenon, <1>6, <1>7, <1>8, <1>10, <1>11, <1>12, <1>13, <1>14, <1>15,
     <1>16 DEF
     SqliteInv, ThreadOK, DbOK

(* A connection outlives the closing of the Db. *)
LEMMA RecreateLingersStep ==
    ASSUME SqliteInv, NEW t \in Thread, At(t, "recreate"), db[ProcOf[t]].writer = None,
           db[ProcOf[t]].readers = {}, ~db[ProcOf[t]].recreated, db' = [db EXCEPT
           ![ProcOf[t]] = [[db[ProcOf[t]] EXCEPT !.recreated = TRUE, !.pool = FALSE]
           EXCEPT !.linger = TRUE]], my' = [my EXCEPT ![t] = Idle], UNCHANGED <<shared,
           boot, excl, dbVars, budgets>>
    PROVE  SqliteInv'
<1> DEFINE p == ProcOf[t]
<1>0. TypeOK /\ FieldTypes
  BY Zenon, FieldTypesHold DEF SqliteInv
<1>1. /\ p \in Proc /\ LocksInv /\ FileInv /\ ConnsInv(p) /\ GuardsInv(p)
      /\ ThreadInv(t) /\ StageInv(t) /\ RetryInv(t) /\ DeleteInv(t)
  BY Zenon, <1>0 DEF SqliteInv, ThreadOK, DbOK, FieldTypes
<1>2. /\ my[t].pc = "recreate" /\ my[t].mode = "run" /\ db[p].open /\ made # 0
  BY Zenon, <1>0, <1>1 DEF LocksInv, ThreadInv, StageInv, ConnsInv, GuardsInv,
     FieldTypes,
     BootPcs, DeletePcs, RecreatePcs, ReadPcs
<1>3. ThreadTo(t, "idle", "run", "enable", FALSE, 0, Absent, Absent)
  BY <1>0, IdleEffect, Zenon DEF Labels
<1>4. DbTo(p, db[p].open, FALSE, db[p].conns, TRUE, db[p].epoch, db[p].generation, TRUE,
                 db[p].readers, db[p].writer, db[p].wrote)
  BY <1>0, <1>1, LingerEffect, Zenon
<1>5. UNCHANGED <<file, made, epoch, boot, excl, shared, damages, faults>>
  BY Zenon DEF dbVars, lockVars, budgets
<1> USE <1>0, <1>1, <1>2, <1>3, <1>4, <1>5
<1>6. TypeOK'
  BY ZenonT(60) DEF TypeOK, ThreadTo, DbTo
<1>7. LocksInv'
  BY DEF LocksInv, ThreadTo, FieldTypes, BootPcs, DeletePcs
<1>8. /\ FileInv' /\ \A u \in Thread : ProcOf[u] # p => ThreadOK(u)'
      /\ \A q \in Proc \ {p} : DbOK(q)'
  <2>1. /\ \A u \in Thread : ProcOf[u] # p => my'[u] = my[u]
        /\ \A u \in Thread : my[u].pc \in {"create", "bump"} => my'[u].pc = my[u].pc
        /\ \A u \in Thread : ProcOf[u] = p =>
              my'[u].bad = my[u].bad \/ my'[u].bad = Absent \/ shared # {}
    BY Zenon DEF ThreadTo
  <2>2. \A q \in Proc \ {p} : db'[q] = db[q] /\ (q \in shared' <=> q \in shared)
    BY Zenon DEF DbTo
  <2>3. \A q \in Proc : Unusable(q) => Unusable(q)'
    BY Zenon DEF Unusable, Newer
  <2>4. QED
    BY Zenon, <2>1, <2>2, <2>3, OthersStep
<1>9. \A u \in Thread : Gone(u) => Gone(u)'
  BY Zenon DEF Gone, ThreadTo
<1>10. ThreadInv(t)'
  BY Zenon DEF ThreadInv, ThreadTo, DbTo, FieldTypes, BootPcs, RecreatePcs, ReadPcs
<1>11. StageInv(t)'
  BY Zenon DEF StageInv, ThreadTo, DbTo, RecreatePcs
<1>12. RetryInv(t)'
  <2>1. my'[t].pc = "idle" /\ my'[t].second = FALSE /\ my'[t].bad = Absent /\ made' \in Nat
    BY Zenon DEF ThreadTo, FieldTypes
  <2>2. QED
    BY <2>1 DEF RetryInv, Gone
<1>13. DeleteInv(t)'
  BY Zenon DEF DeleteInv, Unusable, Newer, ThreadTo, DbTo
<1>14. ConnsInv(p)'
  BY Zenon DEF ConnsInv, DbTo
<1>15. GuardsInv(p)'
  <2>1. /\ db[p].readers = {} /\ db'[p].readers = {} /\ db'[p].writer = db[p].writer /\ epoch' = epoch
        /\ db'[p].epoch \in {epoch, db[p].epoch} /\ (p \in shared' => db'[p].epoch = epoch)
    BY Zenon DEF DbTo, GuardsInv
  <2>2. \A u \in Thread : InRun(u, RecreatePcs) => InRun(u, RecreatePcs)'
    BY Zenon DEF ThreadTo, RecreatePcs
  <2>3. QED
    BY ONLY Zenon, <1>0, <1>1, <1>2, <2>1, <2>2, GuardsKept DEF p
<1>16. ASSUME NEW u \in Thread, ProcOf[u] = p, u # t PROVE ThreadOK(u)'
  <2>1. /\ ThreadInv(u) /\ StageInv(u) /\ RetryInv(u) /\ DeleteInv(u)
        /\ my'[u] = my[u]
    BY Zenon, <1>16 DEF SqliteInv, ThreadOK, ThreadTo
  <2>2. my[u].pc \notin {"op", "check", "setup"}
    BY Zenon, <1>16, <2>1 DEF ThreadInv, StageInv, FieldTypes, ReadPcs, BootPcs,
       RecreatePcs
  <2>3. ThreadInv(u)'
    BY ZenonT(60), <1>16, <2>1, <2>2 DEF ThreadInv, DbTo, BootPcs, RecreatePcs,
       ReadPcs
  <2>4. StageInv(u)'
    BY ZenonT(60), <1>16, <2>1, <2>2 DEF StageInv, DbTo, RecreatePcs
  <2>5. RetryInv(u)'
    BY <1>16, <2>1, <2>2, <1>9 DEF RetryInv, DbTo
  <2>6. DeleteInv(u)'
    BY Zenon, <1>16, <2>1, <2>2 DEF DeleteInv, Unusable, Newer, ThreadTo, DbTo
  <2>7. QED
    BY Zenon, <2>3, <2>4, <2>5, <2>6 DEF ThreadOK
<1>17. QED
  BY ONLY Zenon, <1>6, <1>7, <1>8, <1>10, <1>11, <1>12, <1>13, <1>14, <1>15,
     <1>16 DEF
     SqliteInv, ThreadOK, DbOK

(* The connection that lingered closes. *)
LEMMA LingerEndsStep ==
    ASSUME SqliteInv, NEW p \in Proc, LingerEnds(p)
    PROVE  SqliteInv'
<1>0. TypeOK /\ FieldTypes
  BY Zenon, FieldTypesHold DEF SqliteInv
<1>1. /\ p \in Proc /\ LocksInv /\ FileInv /\ ConnsInv(p) /\ GuardsInv(p)
  BY Zenon, <1>0 DEF SqliteInv, ThreadOK, DbOK, FieldTypes
<1>2. /\ db[p].linger /\ db[p].open /\ ~db[p].pool
  BY Zenon, <1>0, <1>1 DEF LingerEnds, LocksInv, ThreadInv, StageInv, ConnsInv,
     GuardsInv,
     FieldTypes, BootPcs, DeletePcs, RecreatePcs, ReadPcs
<1>4. DbTo(p, db[p].open, db[p].pool, {}, FALSE, db[p].epoch, db[p].generation,
                 db[p].recreated, db[p].readers, db[p].writer, db[p].wrote)
  BY <1>0, <1>1, LingerEndEffect, Zenon DEF LingerEnds
<1>5. /\ UNCHANGED my /\ shared' = shared \ {p}
      /\ UNCHANGED <<file, made, epoch, boot, excl, damages, faults>>
  BY Zenon DEF LingerEnds, dbVars, lockVars, budgets
<1> USE <1>0, <1>1, <1>2, <1>4, <1>5
<1>6. TypeOK'
  BY Zenon DEF TypeOK, DbTo
<1>7. LocksInv'
  BY Zenon DEF LocksInv, FieldTypes, BootPcs, DeletePcs
<1>8. /\ FileInv' /\ \A u \in Thread : ProcOf[u] # p => ThreadOK(u)'
      /\ \A q \in Proc \ {p} : DbOK(q)'
  <2>1. /\ \A u \in Thread : ProcOf[u] # p => my'[u] = my[u]
        /\ \A u \in Thread : my[u].pc \in {"create", "bump"} => my'[u].pc = my[u].pc
        /\ \A u \in Thread : ProcOf[u] = p =>
              my'[u].bad = my[u].bad \/ my'[u].bad = Absent \/ shared # {}
    BY Zenon
  <2>2. \A q \in Proc \ {p} : db'[q] = db[q] /\ (q \in shared' <=> q \in shared)
    BY Zenon DEF DbTo
  <2>3. \A q \in Proc : Unusable(q) => Unusable(q)'
    BY Zenon DEF Unusable, Newer
  <2>4. QED
    BY Zenon, <2>1, <2>2, <2>3, OthersStep
<1>9. \A u \in Thread : Gone(u) => Gone(u)'
  BY Zenon DEF Gone
<1>10. ConnsInv(p)'
  BY Zenon DEF ConnsInv, DbTo
<1>11. GuardsInv(p)'
  BY Zenon DEF GuardsInv, DbTo, FieldTypes, RecreatePcs, ReadPcs
<1>12. ASSUME NEW u \in Thread, ProcOf[u] = p PROVE ThreadOK(u)'
  <2>1. /\ ThreadInv(u) /\ StageInv(u) /\ RetryInv(u) /\ DeleteInv(u)
        /\ my'[u] = my[u]
    BY Zenon, <1>12 DEF SqliteInv, ThreadOK
  <2>2. my[u].pc \notin {"op", "check", "setup"}
    BY Zenon, <1>12, <2>1 DEF ThreadInv, StageInv, FieldTypes, ReadPcs, BootPcs,
       RecreatePcs
  <2>3. ThreadInv(u)'
    BY Zenon, <1>12, <2>1, <2>2 DEF ThreadInv, DbTo, BootPcs, RecreatePcs, ReadPcs
  <2>4. StageInv(u)'
    BY Zenon, <1>12, <2>1, <2>2 DEF StageInv, DbTo, RecreatePcs
  <2>5. RetryInv(u)'
    BY Zenon, <1>12, <2>1, <2>2, <1>9 DEF RetryInv, DbTo
  <2>6. DeleteInv(u)'
    BY Zenon, <1>12, <2>1, <2>2 DEF DeleteInv, Unusable, Newer, DbTo
  <2>7. QED
    BY Zenon, <2>3, <2>4, <2>5, <2>6 DEF ThreadOK
<1>13. QED
  BY ONLY Zenon, <1>6, <1>7, <1>8, <1>10, <1>11, <1>12 DEF SqliteInv, ThreadOK, DbOK

(* open is done. *)
LEMMA SetUpOpenStep ==
    ASSUME SqliteInv, NEW t \in Thread, SetUp(t), my[t].mode = "open"
    PROVE  SqliteInv'
<1> DEFINE p == ProcOf[t]
<1>0. TypeOK /\ FieldTypes
  BY Zenon, FieldTypesHold DEF SqliteInv
<1>1. /\ p \in Proc /\ LocksInv /\ FileInv /\ ConnsInv(p) /\ GuardsInv(p)
      /\ ThreadInv(t) /\ StageInv(t) /\ RetryInv(t) /\ DeleteInv(t)
  BY Zenon, <1>0 DEF SqliteInv, ThreadOK, DbOK, FieldTypes
<1>2. /\ my[t].pc = "setup" /\ boot = t /\ excl = None /\ made # 0 /\ p \in shared
      /\ db[p].pool /\ file.inc # Absent /\ db[p].readers = {} /\ my[t].mode = "open"
      /\ ~db[p].open /\ ~db[p].linger
  BY Zenon, <1>0, <1>1 DEF SetUp, LocksInv, ThreadInv, StageInv, ConnsInv,
     GuardsInv,
     FieldTypes, BootPcs, DeletePcs, RecreatePcs, ReadPcs
<1>b.
      PICK k \in Nat : k = IF my[t].via = "reset" THEN db[p].generation + 1 ELSE db[p].generation
  BY <1>0, <1>1, <1>2 DEF FieldTypes
<1>3. ThreadTo(t, "idle", "run", "enable", FALSE, 0, Absent, Absent)
  BY <1>0, IdleEffect, Zenon DEF SetUp
<1>4. DbTo(p, TRUE, db[p].pool, db[p].conns \cup {file.inc}, db[p].linger, db[p].epoch, k,
                 db[p].recreated, db[p].readers, None, db[p].wrote)
  BY ZenonT(60), <1>0, <1>1, SetUpEffect, <1>2, <1>b DEF SetUp, FieldTypes
<1>a. /\ file' \in [inc : Nat, gen : 0..MaxGen, damage : Damage] /\ file'.inc = file.inc
      /\ file'.damage = file.damage /\ file'.gen >= file.gen
  BY <1>0, <1>2 DEF SetUp, TypeOK
<1>5. /\ boot' = None /\ file' \in [inc : Nat, gen : 0..MaxGen, damage : Damage]
      /\ file'.inc = file.inc /\ file'.damage = file.damage /\ file'.gen >= file.gen
      /\ UNCHANGED <<made, epoch, excl, shared, damages, faults>>
  BY Zenon, <1>a DEF SetUp, dbVars, lockVars, budgets
<1> USE <1>0, <1>1, <1>2, <1>3, <1>4, <1>5
<1>6. TypeOK'
  BY Zenon DEF TypeOK, ThreadTo, DbTo
<1>7. LocksInv'
  BY Zenon DEF LocksInv, ThreadTo, FieldTypes, BootPcs, DeletePcs
<1>8. /\ FileInv' /\ \A u \in Thread : ProcOf[u] # p => ThreadOK(u)'
      /\ \A q \in Proc \ {p} : DbOK(q)'
  <2>1. /\ \A u \in Thread : ProcOf[u] # p => my'[u] = my[u]
        /\ \A u \in Thread : my[u].pc \in {"create", "bump"} => my'[u].pc = my[u].pc
        /\ \A u \in Thread : ProcOf[u] = p =>
              my'[u].bad = my[u].bad \/ my'[u].bad = Absent \/ shared # {}
    BY Zenon DEF ThreadTo
  <2>2. \A q \in Proc \ {p} : db'[q] = db[q] /\ (q \in shared' <=> q \in shared)
    BY Zenon DEF DbTo
  <2>3. \A q \in Proc : Unusable(q) => Unusable(q)'
    BY DEF Unusable, Newer, FieldTypes
  <2>4. QED
    BY Zenon, <2>1, <2>2, <2>3, OthersStep
<1>9. \A u \in Thread : Gone(u) => Gone(u)'
  BY Zenon DEF Gone, ThreadTo
<1>10. ThreadInv(t)'
  BY Zenon DEF ThreadInv, ThreadTo, DbTo, FieldTypes, BootPcs, RecreatePcs, ReadPcs
<1>11. StageInv(t)'
  BY ZenonT(60) DEF StageInv, ThreadTo, DbTo, RecreatePcs
<1>12. RetryInv(t)'
  <2>1. my'[t].pc = "idle" /\ my'[t].second = FALSE /\ my'[t].bad = Absent /\ made' \in Nat
    BY Zenon DEF ThreadTo, FieldTypes
  <2>2. QED
    BY <2>1 DEF RetryInv, Gone
<1>13. DeleteInv(t)'
  BY Zenon DEF DeleteInv, Unusable, Newer, ThreadTo, DbTo
<1>14. ConnsInv(p)'
  BY Zenon DEF ConnsInv, DbTo
<1>15. GuardsInv(p)'
  BY Zenon DEF GuardsInv, ThreadTo, DbTo, FieldTypes, RecreatePcs, ReadPcs
<1>16. ASSUME NEW u \in Thread, ProcOf[u] = p, u # t PROVE ThreadOK(u)'
  <2>1. /\ ThreadInv(u) /\ StageInv(u) /\ RetryInv(u) /\ DeleteInv(u)
        /\ my'[u] = my[u]
    BY Zenon, <1>16 DEF SqliteInv, ThreadOK, ThreadTo
  <2>2. /\ my[u].pc \in {"idle", "boot", "read", "recreate"}
        /\ my[t].mode = "open" => my[u].pc \in {"idle", "boot"}
    BY Zenon, <1>16, <2>1, AloneInProcess DEF BootPcs
  <2>3. my[u].pc \in {"read", "recreate"} => db'[ProcOf[u]].open
    BY Zenon, <1>16, <2>1, <2>2 DEF ThreadInv, DbTo
  <2>4. ThreadInv(u)' /\ StageInv(u)'
    BY ONLY ZenonT(60), <1>16, <2>1, <2>2, <2>3, WaitsOn
  <2>5. RetryInv(u)'
    BY <1>16, <2>1, <2>2, <1>9 DEF RetryInv, DbTo
  <2>6. DeleteInv(u)'
    BY ZenonT(60), <1>16, <2>1, <2>2 DEF DeleteInv, Unusable, Newer, ThreadTo, DbTo
  <2>7. QED
    BY Zenon, <2>4, <2>5, <2>6 DEF ThreadOK
<1>17. QED
  BY ONLY ZenonT(60), <1>6, <1>7, <1>8, <1>10, <1>11, <1>12, <1>13, <1>14, <1>15,
     <1>16 DEF
     SqliteInv, ThreadOK, DbOK

(* A recreate is done: the operation runs again. *)
LEMMA SetUpRunStep ==
    ASSUME SqliteInv, NEW t \in Thread, SetUp(t), my[t].mode = "run"
    PROVE  SqliteInv'
<1> DEFINE p == ProcOf[t]
<1>0. TypeOK /\ FieldTypes
  BY Zenon, FieldTypesHold DEF SqliteInv
<1>1. /\ p \in Proc /\ LocksInv /\ FileInv /\ ConnsInv(p) /\ GuardsInv(p)
      /\ ThreadInv(t) /\ StageInv(t) /\ RetryInv(t) /\ DeleteInv(t)
  BY Zenon, <1>0 DEF SqliteInv, ThreadOK, DbOK, FieldTypes
<1>2. /\ my[t].pc = "setup" /\ boot = t /\ excl = None /\ made # 0 /\ p \in shared
      /\ db[p].pool /\ file.inc # Absent /\ db[p].readers = {} /\ my[t].mode = "run"
      /\ db[p].open /\ db[p].recreated /\ ~db[p].linger /\ my[t].via = "reset"
  BY Zenon, <1>0, <1>1 DEF SetUp, LocksInv, ThreadInv, StageInv, ConnsInv,
     GuardsInv,
     FieldTypes, BootPcs, DeletePcs, RecreatePcs, ReadPcs
<1>b. PICK k \in Nat : k = db[p].generation + 1
  BY <1>0, <1>1, <1>2 DEF FieldTypes
<1>3. ThreadTo(t, "read", my[t].mode, my[t].via, TRUE, my[t].seen, my[t].inc, my[t].bad)
  BY <1>0, AgainEffect, Zenon DEF SetUp
<1>4. DbTo(p, TRUE, db[p].pool, db[p].conns \cup {file.inc}, db[p].linger, db[p].epoch, k,
                 db[p].recreated, db[p].readers, None, db[p].wrote)
  BY <1>0, <1>1, SetUpEffect, <1>2, <1>b, Zenon DEF SetUp, FieldTypes
<1>a. /\ file' \in [inc : Nat, gen : 0..MaxGen, damage : Damage] /\ file'.inc = file.inc
      /\ file'.damage = file.damage /\ file'.gen >= file.gen
  BY <1>0, <1>2 DEF SetUp, TypeOK
<1>5. /\ boot' = None /\ file' \in [inc : Nat, gen : 0..MaxGen, damage : Damage]
      /\ file'.inc = file.inc /\ file'.damage = file.damage /\ file'.gen >= file.gen
      /\ UNCHANGED <<made, epoch, excl, shared, damages, faults>>
  BY Zenon, <1>a DEF SetUp, dbVars, lockVars, budgets
<1> USE <1>0, <1>1, <1>2, <1>3, <1>4, <1>5
<1>6. TypeOK'
  BY Zenon DEF TypeOK, ThreadTo, DbTo
<1>7. LocksInv'
  BY Zenon DEF LocksInv, ThreadTo, FieldTypes, BootPcs, DeletePcs
<1>8. /\ FileInv' /\ \A u \in Thread : ProcOf[u] # p => ThreadOK(u)'
      /\ \A q \in Proc \ {p} : DbOK(q)'
  <2>1. /\ \A u \in Thread : ProcOf[u] # p => my'[u] = my[u]
        /\ \A u \in Thread : my[u].pc \in {"create", "bump"} => my'[u].pc = my[u].pc
        /\ \A u \in Thread : ProcOf[u] = p =>
              my'[u].bad = my[u].bad \/ my'[u].bad = Absent \/ shared # {}
    BY Zenon DEF ThreadTo
  <2>2. \A q \in Proc \ {p} : db'[q] = db[q] /\ (q \in shared' <=> q \in shared)
    BY ZenonT(60) DEF DbTo
  <2>3. \A q \in Proc : Unusable(q) => Unusable(q)'
    BY SMTT(60) DEF Unusable, Newer, FieldTypes
  <2>4. QED
    BY Zenon, <2>1, <2>2, <2>3, OthersStep
<1>9. \A u \in Thread : Gone(u) => Gone(u)'
  BY DEF Gone, ThreadTo
<1>10. ThreadInv(t)'
  BY Zenon DEF ThreadInv, ThreadTo, DbTo, FieldTypes, BootPcs, RecreatePcs, ReadPcs
<1>11. StageInv(t)'
  BY Zenon DEF StageInv, ThreadTo, DbTo, RecreatePcs
<1>12. RetryInv(t)'
  BY Zenon, <1>9 DEF RetryInv, ThreadTo, DbTo, FieldTypes
<1>13. DeleteInv(t)'
  BY Zenon DEF DeleteInv, Unusable, Newer, ThreadTo, DbTo
<1>14. ConnsInv(p)'
  BY Zenon DEF ConnsInv, DbTo
<1>15. GuardsInv(p)'
  BY Zenon DEF GuardsInv, ThreadTo, DbTo, FieldTypes, RecreatePcs, ReadPcs
<1>16. ASSUME NEW u \in Thread, ProcOf[u] = p, u # t PROVE ThreadOK(u)'
  <2>1. /\ ThreadInv(u) /\ StageInv(u) /\ RetryInv(u) /\ DeleteInv(u)
        /\ my'[u] = my[u]
    BY Zenon, <1>16 DEF SqliteInv, ThreadOK, ThreadTo
  <2>2. /\ my[u].pc \in {"idle", "boot", "read", "recreate"}
        /\ my[t].mode = "open" => my[u].pc \in {"idle", "boot"}
    BY Zenon, <1>16, <2>1, AloneInProcess DEF BootPcs
  <2>3. my[u].pc \in {"read", "recreate"} => db'[ProcOf[u]].open
    BY Zenon, <1>16, <2>1, <2>2 DEF ThreadInv, DbTo
  <2>4. ThreadInv(u)' /\ StageInv(u)'
    BY ONLY Zenon, <1>16, <2>1, <2>2, <2>3, WaitsOn
  <2>5. RetryInv(u)'
    BY Zenon, <1>16, <2>1, <2>2, <1>9 DEF RetryInv, DbTo
  <2>6. DeleteInv(u)'
    BY Zenon, <1>16, <2>1, <2>2 DEF DeleteInv, Unusable, Newer, ThreadTo, DbTo
  <2>7. QED
    BY Zenon, <2>4, <2>5, <2>6 DEF ThreadOK
<1>17. QED
  BY ONLY Zenon, <1>6, <1>7, <1>8, <1>10, <1>11, <1>12, <1>13, <1>14, <1>15,
     <1>16 DEF
     SqliteInv, ThreadOK, DbOK

(* open ends in an error. *)
LEMMA OpenFailsStep ==
    ASSUME SqliteInv, NEW t \in Thread, my[t].pc \in BootPcs, my[t].mode = "open", NEW k
           \in BOOLEAN, k => my[t].pc = "setup", GiveUp(t, k), UNCHANGED <<dbVars,
           damages>>, faults' \in 0..MaxFaults, faults' >= faults, my[t].pc \in
           {"create", "bump"} => faults' # 0
    PROVE  SqliteInv'
<1> DEFINE p == ProcOf[t]
<1>0. TypeOK /\ FieldTypes
  BY Zenon, FieldTypesHold DEF SqliteInv
<1>1. /\ p \in Proc /\ LocksInv /\ FileInv /\ ConnsInv(p) /\ GuardsInv(p)
      /\ ThreadInv(t) /\ StageInv(t) /\ RetryInv(t) /\ DeleteInv(t)
  BY Zenon, <1>0 DEF SqliteInv, ThreadOK, DbOK, FieldTypes
<1>2. /\ my[t].pc \in BootPcs /\ my[t].mode = "open" /\ boot = t
      /\ (excl = None \/ excl = p)
  BY Zenon, <1>0, <1>1 DEF LocksInv, ThreadInv, StageInv, ConnsInv, GuardsInv,
     FieldTypes,
     BootPcs, DeletePcs, RecreatePcs, ReadPcs
<1>3. ThreadTo(t, "idle", "run", "enable", FALSE, 0, Absent, Absent)
  BY <1>0, IdleEffect, Zenon DEF GiveUp
<1>4. DbTo(p, FALSE, FALSE, {}, FALSE, 0, 0, FALSE, {}, None, db[p].wrote)
  BY <1>0, <1>1, NoDbEffect, <1>2, Zenon DEF GiveUp, FieldTypes
<1>5. /\ boot' = None /\ excl' = None /\ shared' = shared \ {p}
      /\ faults' \in 0..MaxFaults /\ faults' >= faults
      /\ (my[t].pc \in {"create", "bump"} => faults' # 0)
      /\ UNCHANGED <<file, made, epoch, damages>>
  BY Zenon, <1>2 DEF GiveUp, dbVars
<1> USE <1>0, <1>1, <1>2, <1>3, <1>4, <1>5
<1>6. TypeOK'
  BY Zenon DEF TypeOK, ThreadTo, DbTo
<1>7. LocksInv'
  <2>1. \A u \in Thread : my'[u].pc \notin BootPcs
    BY Zenon DEF LocksInv, ThreadTo, BootPcs
  <2>2. QED
    BY Zenon, <2>1 DEF LocksInv, BootPcs, DeletePcs
<1>8. /\ FileInv' /\ \A u \in Thread : ProcOf[u] # p => ThreadOK(u)'
      /\ \A q \in Proc \ {p} : DbOK(q)'
  <2>1. /\ \A u \in Thread : ProcOf[u] # p => my'[u] = my[u]
        /\ faults' = 0 => \A u \in Thread : my[u].pc \in {"create", "bump"} => my'[u].pc = my[u].pc
        /\ \A u \in Thread : ProcOf[u] = p =>
              my'[u].bad = my[u].bad \/ my'[u].bad = Absent \/ shared # {}
    BY Zenon DEF ThreadTo
  <2>2. \A q \in Proc \ {p} : db'[q] = db[q] /\ (q \in shared' <=> q \in shared)
    BY Zenon DEF DbTo
  <2>3. \A q \in Proc : Unusable(q) => Unusable(q)'
    BY Zenon DEF Unusable, Newer
  <2>4. faults' = 0 => faults = 0
    BY SMT DEF FieldTypes
  <2>5. QED
    BY Zenon, <2>1, <2>2, <2>3, <2>4, OthersStep
<1>9. \A u \in Thread : Gone(u) => Gone(u)'
  BY Zenon DEF Gone, ThreadTo
<1>10. ThreadInv(t)'
  BY Zenon DEF ThreadInv, ThreadTo, DbTo, FieldTypes, BootPcs, RecreatePcs, ReadPcs
<1>11. StageInv(t)'
  BY Zenon DEF StageInv, ThreadTo, DbTo, RecreatePcs
<1>12. RetryInv(t)'
  <2>1. my'[t].pc = "idle" /\ my'[t].second = FALSE /\ my'[t].bad = Absent /\ made' \in Nat
    BY Zenon DEF ThreadTo, FieldTypes
  <2>2. QED
    BY <2>1 DEF RetryInv, Gone
<1>13. DeleteInv(t)'
  BY Zenon DEF DeleteInv, Unusable, Newer, ThreadTo, DbTo
<1>14. ConnsInv(p)'
  BY ZenonT(60) DEF ConnsInv, DbTo
<1>15. GuardsInv(p)'
  BY DEF GuardsInv, DbTo, FieldTypes
<1>16. ASSUME NEW u \in Thread, ProcOf[u] = p, u # t PROVE ThreadOK(u)'
  <2>1. /\ ThreadInv(u) /\ StageInv(u) /\ RetryInv(u) /\ DeleteInv(u)
        /\ my'[u] = my[u]
    BY Zenon, <1>16 DEF SqliteInv, ThreadOK, ThreadTo
  <2>2. /\ my[u].pc \in {"idle", "boot", "read", "recreate"}
        /\ my[t].mode = "open" => my[u].pc \in {"idle", "boot"}
    BY Zenon, <1>16, <2>1, AloneInProcess DEF BootPcs
  <2>3. my[u].pc \in {"read", "recreate"} => db'[ProcOf[u]].open
    BY Zenon, <1>16, <2>1, <2>2 DEF ThreadInv, DbTo
  <2>4. ThreadInv(u)' /\ StageInv(u)'
    BY ONLY Zenon, <1>16, <2>1, <2>2, <2>3, WaitsOn
  <2>5. RetryInv(u)'
    BY Zenon, <1>16, <2>1, <2>2, <1>9 DEF RetryInv, DbTo, Gone, ThreadInv
  <2>6. DeleteInv(u)'
    BY ZenonT(60), <1>16, <2>1, <2>2 DEF DeleteInv, Unusable, Newer, ThreadTo, DbTo
  <2>7. QED
    BY Zenon, <2>4, <2>5, <2>6 DEF ThreadOK
<1>17. QED
  BY ONLY Zenon, <1>6, <1>7, <1>8, <1>10, <1>11, <1>12, <1>13, <1>14, <1>15,
     <1>16 DEF
     SqliteInv, ThreadOK, DbOK

(* A recreate ends in an error. *)
LEMMA RecreateFailsStep ==
    ASSUME SqliteInv, NEW t \in Thread, my[t].pc \in BootPcs, my[t].mode = "run", NEW k
           \in BOOLEAN, k => my[t].pc = "setup", GiveUp(t, k), UNCHANGED <<dbVars,
           damages>>, faults' \in 0..MaxFaults, faults' >= faults, my[t].pc \in
           {"create", "bump"} => faults' # 0
    PROVE  SqliteInv'
<1> DEFINE p == ProcOf[t]
<1>0. TypeOK /\ FieldTypes
  BY Zenon, FieldTypesHold DEF SqliteInv
<1>1. /\ p \in Proc /\ LocksInv /\ FileInv /\ ConnsInv(p) /\ GuardsInv(p)
      /\ ThreadInv(t) /\ StageInv(t) /\ RetryInv(t) /\ DeleteInv(t)
  BY Zenon, <1>0 DEF SqliteInv, ThreadOK, DbOK, FieldTypes
<1>2. /\ my[t].pc \in BootPcs /\ my[t].mode = "run" /\ boot = t
      /\ (excl = None \/ excl = p) /\ db[p].open /\ db[p].recreated /\ ~db[p].linger
      /\ db[p].readers = {} /\ (k => db[p].pool) /\ made # 0
  BY ZenonT(60), <1>0, <1>1 DEF LocksInv, ThreadInv, StageInv, ConnsInv,
     GuardsInv, FieldTypes,
     BootPcs, DeletePcs, RecreatePcs, ReadPcs
<1>3. ThreadTo(t, "idle", "run", "enable", FALSE, 0, Absent, Absent)
  BY <1>0, IdleEffect, Zenon DEF GiveUp
<1>4. DbTo(p, db[p].open, k, IF k THEN db[p].conns ELSE {}, db[p].linger, db[p].epoch,
                 db[p].generation, db[p].recreated, db[p].readers, None, db[p].wrote)
  BY ZenonT(60), <1>0, <1>1, GiveUpEffect, <1>2 DEF GiveUp, FieldTypes
<1>5. /\ boot' = None /\ excl' = None /\ shared' = (IF k THEN shared ELSE shared \ {p})
      /\ faults' \in 0..MaxFaults /\ faults' >= faults
      /\ (my[t].pc \in {"create", "bump"} => faults' # 0)
      /\ UNCHANGED <<file, made, epoch, damages>>
  BY Zenon, <1>2 DEF GiveUp, dbVars
<1> USE <1>0, <1>1, <1>2, <1>3, <1>4, <1>5
<1>6. TypeOK'
  BY Zenon DEF TypeOK, ThreadTo, DbTo
<1>7. LocksInv'
  <2>1. \A u \in Thread : my'[u].pc \notin BootPcs
    BY Zenon DEF LocksInv, ThreadTo, BootPcs
  <2>2. QED
    BY Zenon, <2>1 DEF LocksInv, BootPcs, DeletePcs
<1>8. /\ FileInv' /\ \A u \in Thread : ProcOf[u] # p => ThreadOK(u)'
      /\ \A q \in Proc \ {p} : DbOK(q)'
  <2>1. /\ \A u \in Thread : ProcOf[u] # p => my'[u] = my[u]
        /\ faults' = 0 => \A u \in Thread : my[u].pc \in {"create", "bump"} => my'[u].pc = my[u].pc
        /\ \A u \in Thread : ProcOf[u] = p =>
              my'[u].bad = my[u].bad \/ my'[u].bad = Absent \/ shared # {}
    BY Zenon DEF ThreadTo
  <2>2. \A q \in Proc \ {p} : db'[q] = db[q] /\ (q \in shared' <=> q \in shared)
    BY Zenon DEF DbTo
  <2>3. \A q \in Proc : Unusable(q) => Unusable(q)'
    BY ZenonT(60) DEF Unusable, Newer
  <2>4. faults' = 0 => faults = 0
    BY SMT DEF FieldTypes
  <2>5. QED
    BY Zenon, <2>1, <2>2, <2>3, <2>4, OthersStep
<1>9. \A u \in Thread : Gone(u) => Gone(u)'
  BY Zenon DEF Gone, ThreadTo
<1>10. ThreadInv(t)'
  BY Zenon DEF ThreadInv, ThreadTo, DbTo, FieldTypes, BootPcs, RecreatePcs, ReadPcs
<1>11. StageInv(t)'
  BY ZenonT(60) DEF StageInv, ThreadTo, DbTo, RecreatePcs
<1>12. RetryInv(t)'
  <2>1. my'[t].pc = "idle" /\ my'[t].second = FALSE /\ my'[t].bad = Absent /\ made' \in Nat
    BY Zenon DEF ThreadTo, FieldTypes
  <2>2. QED
    BY <2>1 DEF RetryInv, Gone
<1>13. DeleteInv(t)'
  BY Zenon DEF DeleteInv, Unusable, Newer, ThreadTo, DbTo
<1>14. ConnsInv(p)'
  BY Zenon DEF ConnsInv, DbTo
<1>15. GuardsInv(p)'
  BY Zenon DEF GuardsInv, ThreadTo, DbTo, FieldTypes, RecreatePcs, ReadPcs
<1>16. ASSUME NEW u \in Thread, ProcOf[u] = p, u # t PROVE ThreadOK(u)'
  <2>1. /\ ThreadInv(u) /\ StageInv(u) /\ RetryInv(u) /\ DeleteInv(u)
        /\ my'[u] = my[u]
    BY Zenon, <1>16 DEF SqliteInv, ThreadOK, ThreadTo
  <2>2. /\ my[u].pc \in {"idle", "boot", "read", "recreate"}
        /\ my[t].mode = "open" => my[u].pc \in {"idle", "boot"}
    BY Zenon, <1>16, <2>1, AloneInProcess DEF BootPcs
  <2>3. my[u].pc \in {"read", "recreate"} => db'[ProcOf[u]].open
    BY Zenon, <1>16, <2>1, <2>2 DEF ThreadInv, DbTo
  <2>4. ThreadInv(u)' /\ StageInv(u)'
    BY ONLY Zenon, <1>16, <2>1, <2>2, <2>3, WaitsOn
  <2>5. RetryInv(u)'
    BY ZenonT(60), <1>16, <2>1, <2>2, <1>9 DEF RetryInv, DbTo
  <2>6. DeleteInv(u)'
    BY Zenon, <1>16, <2>1, <2>2 DEF DeleteInv, Unusable, Newer, ThreadTo, DbTo
  <2>7. QED
    BY Zenon, <2>4, <2>5, <2>6 DEF ThreadOK
<1>17. QED
  BY ONLY Zenon, <1>6, <1>7, <1>8, <1>10, <1>11, <1>12, <1>13, <1>14, <1>15,
     <1>16 DEF
     SqliteInv, ThreadOK, DbOK

(* The file is damaged. *)
LEMMA DamageFileStep ==
    ASSUME SqliteInv, NEW d \in {"deep", "header"}, DamageFile(d)
    PROVE  SqliteInv'
<1>0. TypeOK /\ FieldTypes
  BY Zenon, FieldTypesHold DEF SqliteInv
<1>1. /\ file' \in [inc : Nat, gen : 0..MaxGen, damage : Damage]
      /\ file'.inc = file.inc /\ file'.gen = file.gen /\ file'.damage # "none"
      /\ damages' \in 0..MaxDamage
      /\ UNCHANGED <<made, epoch, boot, excl, shared, db, my, faults>>
  BY <1>0 DEF DamageFile, TypeOK, Damage, lockVars
<1>2. TypeOK'
  BY Zenon, <1>0, <1>1 DEF TypeOK
<1>3. LocksInv' /\ FileInv'
  BY Zenon, <1>1 DEF SqliteInv, LocksInv, FileInv
<1>4. \A u \in Thread : Gone(u) => Gone(u)'
  BY Zenon, <1>1 DEF Gone
<1>5. ASSUME NEW u \in Thread PROVE ThreadOK(u)'
  <2>1. ThreadInv(u) /\ StageInv(u) /\ RetryInv(u)
    BY Zenon DEF SqliteInv, ThreadOK
  <2>2. ThreadInv(u)' /\ StageInv(u)'
    BY <1>1, <2>1 DEF ThreadInv, StageInv
  <2>3. RetryInv(u)'
    BY Zenon, <1>1, <1>4, <2>1 DEF RetryInv
  <2>4. DeleteInv(u)'
    BY Zenon, <1>1 DEF DeleteInv, Unusable
  <2>5. QED
    BY Zenon, <2>2, <2>3, <2>4 DEF ThreadOK
<1>6. ASSUME NEW p \in Proc PROVE DbOK(p)'
  <2>1. ConnsInv(p) /\ GuardsInv(p)
    BY Zenon DEF SqliteInv, DbOK
  <2>2. QED
    BY Zenon, <1>1, <2>1 DEF DbOK, ConnsInv, GuardsInv
<1>7. QED
  BY Zenon, <1>2, <1>3, <1>5, <1>6 DEF SqliteInv

(* A process exits or is killed. *)
LEMMA ForgetStep ==
    ASSUME SqliteInv, NEW p \in Proc, Forget(p), UNCHANGED <<dbVars, damages>>,
           faults' \in 0..MaxFaults, faults' >= faults,
           faults' # 0 \/ \A t \in Thread : ProcOf[t] = p => At(t, "idle")
    PROVE  SqliteInv'
<1>0. TypeOK /\ FieldTypes
  BY Zenon, FieldTypesHold DEF SqliteInv
<1>1. /\ my' \in [Thread -> ThreadRecord] /\ \A u \in Thread : ProcOf[u] # p => my'[u] = my[u]
      /\ \A u \in Thread : ProcOf[u] = p =>
            /\ my'[u].pc = "idle" /\ my'[u].mode = "run" /\ my'[u].via = "enable"
            /\ my'[u].second = FALSE /\ my'[u].seen = 0 /\ my'[u].inc = Absent
            /\ my'[u].bad = Absent
  BY Zenon, <1>0, IdleRecord DEF Forget, TypeOK
<1>2. DbTo(p, FALSE, FALSE, {}, FALSE, 0, 0, FALSE, {}, None, {})
  <2>1. /\ NoDb \in DbRecord /\ NoDb.open = FALSE /\ NoDb.pool = FALSE /\ NoDb.conns = {}
        /\ NoDb.linger = FALSE /\ NoDb.epoch = 0 /\ NoDb.generation = 0
        /\ NoDb.recreated = FALSE /\ NoDb.readers = {} /\ NoDb.writer = None /\ NoDb.wrote = {}
    BY Zenon DEF NoDb, DbRecord
  <2>2. db' \in [Proc -> DbRecord] /\ db'[p] = NoDb /\ \A q \in Proc \ {p} : db'[q] = db[q]
    BY Zenon, <1>0, <2>1 DEF Forget, TypeOK
  <2>3. QED
    BY Zenon, <2>1, <2>2 DEF DbTo
<1>3. /\ boot' = (IF boot # None /\ ProcOf[boot] = p THEN None ELSE boot)
      /\ excl' = (IF excl = p THEN None ELSE excl) /\ shared' = shared \ {p}
      /\ UNCHANGED <<file, made, epoch, damages>>
  BY Zenon DEF Forget, dbVars
<1>4. TypeOK'
  BY ZenonT(60), <1>0, <1>1, <1>2, <1>3 DEF TypeOK, DbTo
<1>5. LocksInv'
  BY <1>0, <1>1, <1>3 DEF SqliteInv, LocksInv, FieldTypes, BootPcs, DeletePcs
<1>6. /\ FileInv' /\ \A u \in Thread : ProcOf[u] # p => ThreadOK(u)'
      /\ \A q \in Proc \ {p} : DbOK(q)'
  <2>1. \A q \in Proc \ {p} : db'[q] = db[q] /\ (q \in shared' <=> q \in shared)
    BY Zenon, <1>2, <1>3 DEF DbTo
  <2>2. \A q \in Proc : Unusable(q) => Unusable(q)'
    BY Zenon, <1>3 DEF Unusable, Newer
  <2>3. faults' = 0 => /\ faults = 0
                       /\ \A u \in Thread : my[u].pc \in {"create", "bump"} =>
                             my'[u].pc = my[u].pc
    BY <1>0, <1>1 DEF FieldTypes
  <2>4. QED
    BY Zenon, <1>0, <1>1, <1>3, <2>1, <2>2, <2>3, OthersStep
<1>7. ASSUME NEW u \in Thread, ProcOf[u] = p PROVE ThreadOK(u)'
  <2>1. ThreadInv(u)' /\ StageInv(u)'
    BY Zenon, <1>1, <1>7 DEF ThreadInv, StageInv, BootPcs, RecreatePcs, ReadPcs
  <2>2. made' \in Nat /\ my'[u].pc = "idle" /\ my'[u].second = FALSE /\ my'[u].bad = Absent
    BY Zenon, <1>0, <1>1, <1>3, <1>7 DEF FieldTypes
  <2>3. RetryInv(u)' /\ DeleteInv(u)'
    BY <2>2 DEF RetryInv, DeleteInv, Gone
  <2>4. QED
    BY Zenon, <2>1, <2>3 DEF ThreadOK
<1>8. DbOK(p)'
  <2>1. ConnsInv(p)'
    BY Zenon, <1>2 DEF ConnsInv, DbTo
  <2>2. GuardsInv(p)'
    BY <1>0, <1>2, <1>3 DEF GuardsInv, DbTo, FieldTypes
  <2>3. QED
    BY Zenon, <2>1, <2>2 DEF DbOK
<1>9. QED
  BY Zenon, <1>4, <1>5, <1>6, <1>7, <1>8 DEF SqliteInv

(* A step that changes nothing. *)
LEMMA Unchanged ==
    ASSUME SqliteInv, UNCHANGED vars
    PROVE  SqliteInv'
<1>1. UNCHANGED <<file, made, epoch, boot, excl, shared, db, my, damages, faults>>
  BY Zenon DEF vars, dbVars, lockVars, budgets
<1>2. TypeOK' /\ LocksInv' /\ FileInv'
  BY Zenon, <1>1 DEF SqliteInv, TypeOK, LocksInv, FileInv
<1>3. ASSUME NEW u \in Thread PROVE ThreadOK(u)'
  <2>1. \A v \in Thread : Gone(v)' <=> Gone(v)
    BY Zenon, <1>1 DEF Gone
  <2>2. ThreadInv(u) /\ StageInv(u) /\ RetryInv(u) /\ DeleteInv(u)
    BY ZenonT(60) DEF SqliteInv, ThreadOK
  <2>3. ThreadInv(u)' /\ StageInv(u)'
    BY <1>1, <2>2 DEF ThreadInv, StageInv
  <2>4. RetryInv(u)'
    BY Zenon, <1>1, <2>1, <2>2 DEF RetryInv
  <2>5. DeleteInv(u)'
    BY Zenon, <1>1, <2>2 DEF DeleteInv, Unusable, Newer
  <2>6. QED
    BY Zenon, <2>3, <2>4, <2>5 DEF ThreadOK
<1>4. ASSUME NEW p \in Proc PROVE DbOK(p)'
  <2>1. ConnsInv(p) /\ GuardsInv(p)
    BY Zenon DEF SqliteInv, DbOK
  <2>2. QED
    BY Zenon, <1>1, <2>1 DEF DbOK, ConnsInv, GuardsInv
<1>5. QED
  BY Zenon, <1>2, <1>3, <1>4 DEF SqliteInv

-----------------------------------------------------------------------------
(* Every step *)

(* A call that holds the bootstrap lock ends in an error. *)
LEMMA GiveUpStep ==
    ASSUME SqliteInv, NEW t \in Thread, my[t].pc \in BootPcs,
           NEW k \in BOOLEAN, k => my[t].pc = "setup", GiveUp(t, k), UNCHANGED <<dbVars, damages>>,
           \/ /\ UNCHANGED faults
              /\ my[t].pc \notin {"create", "bump"}
           \/ /\ faults < MaxFaults
              /\ faults' = faults + 1
    PROVE  SqliteInv'
<1>1. TypeOK /\ FieldTypes
  BY Zenon, FieldTypesHold DEF SqliteInv
<1>2. /\ my[t].mode \in {"open", "run"} /\ faults' \in 0..MaxFaults /\ faults' >= faults
      /\ my[t].pc \in {"create", "bump"} => faults' # 0
  BY <1>1 DEF TypeOK, FieldTypes
<1>3. QED
  BY Zenon, <1>2, OpenFailsStep, RecreateFailsStep

(* The steps of open, enable_wal, recreate_files and set_up. *)
LEMMA OpenStepKeeps ==
    ASSUME SqliteInv, NEW t \in Thread, OpenStep(t)
    PROVE  SqliteInv'
<1>1. TypeOK /\ FieldTypes /\ ThreadInv(t)
  BY Zenon, FieldTypesHold DEF SqliteInv, ThreadOK
<1>2. CASE OpenLocked(t)
  BY Zenon, <1>2, OpenSharesStep, OpenLocksStep
<1>3. CASE EnableWal(t)
  <2>1. my[t].pc \in BootPcs /\ my[t].pc \notin {"create", "bump"}
    BY Zenon, <1>3 DEF EnableWal, At, BootPcs
  <2>2. CASE ~WalFails(ProcOf[t])
    BY Zenon, <1>3, <2>2, EnableCreatesStep, EnableJoinsStep
  <2>3. CASE WalFails(ProcOf[t]) /\ file.damage = "header" /\ shared = {}
    BY Zenon, <1>3, <2>3, EnableDeletesStep
  <2>4. CASE WalFails(ProcOf[t]) /\ ~(file.damage = "header" /\ shared = {})
    <3>1. GiveUp(t, FALSE) /\ UNCHANGED <<dbVars, damages, faults>>
      BY Zenon, <1>3, <2>4 DEF EnableWal, budgets
    <3>2. QED
      BY Zenon, <2>1, <3>1, GiveUpStep
  <2>5. QED
    BY Zenon, <2>2, <2>3, <2>4
<1>4. CASE DeleteFiles(t)
  <2>1. At(t, "delete") /\ my[t].pc \in BootPcs /\ my[t].pc \notin {"create", "bump"}
    BY Zenon, <1>4 DEF DeleteFiles, At, BootPcs
  <2>2. CASE GiveUp(t, FALSE) /\ UNCHANGED <<dbVars, budgets>>
    <3>1. UNCHANGED <<dbVars, damages, faults>>
      BY Zenon, <2>2 DEF budgets
    <3>2. QED
      BY Zenon, <2>1, <2>2, <3>1, GiveUpStep
  <2>3. CASE /\ file' = [file EXCEPT !.inc = Absent] /\ GoTo(t, "create")
             /\ UNCHANGED <<made, epoch, lockVars, db, budgets>>
    BY Zenon, <2>1, <2>3, DeleteStep
  <2>4. QED
    BY Zenon, <1>4, <2>2, <2>3 DEF DeleteFiles
<1>5. CASE CreateFile(t)
  BY Zenon, <1>5, CreateStep
<1>6. CASE BumpEpoch(t)
  BY Zenon, <1>6, BumpStep
<1>7. CASE Share(t)
  BY Zenon, <1>1, <1>7, ShareEnableStep, ShareResetStep DEF FieldTypes
<1>8. CASE CheckGeneration(t)
  <2>1. my[t].pc \in BootPcs /\ my[t].pc \notin {"create", "bump"}
    BY Zenon, <1>8 DEF CheckGeneration, At, BootPcs
  <2>2. CASE ~WalFails(ProcOf[t])
    BY Zenon, <1>8, <2>2, CheckCreatesStep, CheckStep
  <2>3. CASE WalFails(ProcOf[t])
    <3>1. GiveUp(t, FALSE) /\ UNCHANGED <<dbVars, damages, faults>>
      BY Zenon, <1>8, <2>3 DEF CheckGeneration, budgets
    <3>2. QED
      BY Zenon, <2>1, <3>1, GiveUpStep
  <2>4. QED
    BY Zenon, <2>2, <2>3
<1>9. CASE SetUp(t)
  BY Zenon, <1>1, <1>9, SetUpOpenStep, SetUpRunStep DEF FieldTypes
<1>10. CASE SetUpFails(t)
  <2>1. /\ At(t, "setup") /\ my[t].pc = "setup" /\ my[t].pc \in BootPcs
        /\ my[t].pc \notin {"create", "bump"}
    BY Zenon, <1>10 DEF SetUpFails, At, BootPcs
  <2>2. CASE GiveUp(t, TRUE) /\ UNCHANGED <<dbVars, budgets>>
    <3>1. UNCHANGED <<dbVars, damages, faults>>
      BY Zenon, <2>2 DEF budgets
    <3>2. QED
      BY Zenon, <2>1, <2>2, <3>1, GiveUpStep
  <2>3. CASE ~GiveUp(t, TRUE)
    <3>1. /\ file.damage # "none" /\ my[t].via = "enable"
          /\ db' = [db EXCEPT ![ProcOf[t]] = [@ EXCEPT !.recreated = TRUE, !.pool = FALSE]]
          /\ shared' = shared \ {ProcOf[t]}
          /\ my' = [my EXCEPT ![t] = [@ EXCEPT !.pc = "reset", !.via = "reset"]]
          /\ UNCHANGED <<boot, excl, dbVars, budgets>>
      BY <1>10, <2>3, Zenon DEF SetUpFails
    <3>2. QED
      BY Zenon, <2>1, <3>1, SetUpResetsStep
  <2>4. QED
    BY Zenon, <1>10, <2>2, <2>3 DEF SetUpFails
<1>11. QED
  BY Zenon, <1>2, <1>3, <1>4, <1>5, <1>6, <1>7, <1>8, <1>9, <1>10 DEF OpenStep

(* The steps of run, run_locked, recreate and reset. *)
LEMMA RunStepKeeps ==
    ASSUME SqliteInv, NEW t \in Thread, RunStep(t)
    PROVE  SqliteInv'
<1> DEFINE p == ProcOf[t]
<1>1. CASE ReadGuard(t)
  BY Zenon, <1>1, ReadGuardStep
<1>2. CASE TakeLock(t)
  BY Zenon, <1>2, TakeLockStep
<1>3. CASE Checkout(t)
  <2>1. At(t, "checkout") /\ my[t].pc \in ReadPcs
    BY Zenon, <1>3 DEF Checkout, At, ReadPcs
  <2>2. CASE /\ db[p].pool
             /\ \E c \in db[p].conns \cup {file.inc} :
                  /\ db' = [db EXCEPT ![p].conns = @ \cup {c}]
                  /\ my' = [my EXCEPT ![t] = [@ EXCEPT !.pc = "op", !.inc = c]]
             /\ UNCHANGED <<lockVars, dbVars, budgets>>
    BY Zenon, <2>1, <2>2, CheckoutStep
  <2>3. CASE /\ db' = [db EXCEPT ![p].readers = @ \ {t}]
             /\ my' = [my EXCEPT ![t] = Idle]
             /\ EndAttempt(t)
             /\ UNCHANGED <<dbVars, budgets>>
    BY Zenon, <2>1, <2>3, AttemptEndsStep
  <2>4. QED
    BY <1>3, <2>2, <2>3, Zenon DEF Checkout
<1>4. CASE OpDone(t)
  <2>1. /\ At(t, "op") /\ my' = [my EXCEPT ![t] = Idle] /\ EndAttempt(t)
        /\ UNCHANGED <<dbVars, budgets>>
    BY <1>4, Zenon DEF OpDone
  <2>2. my[t].pc \in ReadPcs
    BY Zenon, <2>1 DEF At, ReadPcs
  <2>3. CASE db' = [db EXCEPT ![p].readers = @ \ {t}]
    BY Zenon, <2>1, <2>2, <2>3, AttemptEndsStep
  <2>4. CASE db' = [db EXCEPT ![p] = [@ EXCEPT !.readers = db[p].readers \ {t},
                                               !.wrote = db[p].wrote \cup {my[t].inc}]]
    BY Zenon, <2>1, <2>4, OpWritesStep
  <2>5. QED
    BY <1>4, <2>3, <2>4, Zenon DEF OpDone
<1>5. CASE OpCorrupt(t)
  <2>1. CASE my[t].second
    <3>1. /\ At(t, "op") /\ db' = [db EXCEPT ![p].readers = @ \ {t}]
          /\ my' = [my EXCEPT ![t] = Idle]
          /\ EndAttempt(t) /\ UNCHANGED <<dbVars, budgets>>
      BY Zenon, <1>5, <2>1 DEF OpCorrupt
    <3>2. my[t].pc \in ReadPcs
      BY Zenon, <3>1 DEF At, ReadPcs
    <3>3. QED
      BY Zenon, <3>1, <3>2, AttemptEndsStep
  <2>2. CASE ~my[t].second
    BY Zenon, <1>5, <2>2, OpCorruptStep
  <2>3. QED
    BY Zenon, <2>1, <2>2
<1>6. CASE Recreate(t)
  <2>1. CASE db[p].generation # my[t].seen
    BY Zenon, <1>6, <2>1, RecreateAgainStep
  <2>2. CASE db[p].generation = my[t].seen /\ db[p].recreated
    BY Zenon, <1>6, <2>2, RecreateNoStep
  <2>3. CASE db[p].generation = my[t].seen /\ ~db[p].recreated
    <3>1. /\ At(t, "recreate") /\ db[p].writer = None /\ db[p].readers = {}
          /\ UNCHANGED <<boot, excl, dbVars, budgets>>
      BY <1>6, <2>3, Zenon DEF Recreate
    <3>2. CASE /\ db' = [db EXCEPT ![p] = [[db[p] EXCEPT !.recreated = TRUE, !.pool = FALSE]
                                            EXCEPT !.conns = {}, !.writer = t]]
               /\ shared' = shared \ {p}
               /\ my' = [my EXCEPT ![t] = [@ EXCEPT !.pc = "rboot", !.via = "reset"]]
      BY Zenon, <2>3, <3>1, <3>2, RecreateClosesStep
    <3>3. CASE /\ db' = [db EXCEPT ![p] = [[db[p] EXCEPT !.recreated = TRUE, !.pool = FALSE]
                                            EXCEPT !.linger = TRUE]]
               /\ my' = [my EXCEPT ![t] = Idle] /\ UNCHANGED shared
      BY Zenon, <2>3, <3>1, <3>3, RecreateLingersStep
    <3>4. QED
      BY <1>6, <2>3, <3>2, <3>3, Zenon DEF Recreate
  <2>4. QED
    BY Zenon, <2>1, <2>2, <2>3
<1>7. CASE RecreateLock(t)
  BY Zenon, <1>7, RecreateLockStep
<1>8. CASE Reset(t)
  <2>1. /\ At(t, "reset") /\ my[t].pc \in BootPcs /\ my[t].pc \notin {"create", "bump"}
        /\ UNCHANGED <<dbVars, budgets>> /\ UNCHANGED <<dbVars, damages, faults>>
    BY Zenon, <1>8 DEF Reset, At, BootPcs, budgets
  <2>2. CASE epoch # db[p].epoch
    BY Zenon, <1>8, <2>2, ResetSharesStep
  <2>3. CASE /\ epoch = db[p].epoch /\ shared = {} /\ excl' = p /\ GoTo(t, "delete")
             /\ UNCHANGED <<boot, shared, db>>
    BY Zenon, <2>1, <2>3, ResetDeletesStep
  <2>4. CASE GiveUp(t, FALSE)
    BY Zenon, <2>1, <2>4, GiveUpStep
  <2>5. CASE /\ my[t].mode = "run" /\ my[t].tries < MaxTries /\ boot' = None
             /\ my' = [my EXCEPT ![t] = [@ EXCEPT !.pc = "rboot", !.tries = my[t].tries + 1]]
             /\ UNCHANGED <<excl, shared, db>>
    BY Zenon, <2>1, <2>5, ResetRetriesStep
  <2>6. QED
    BY Zenon, <1>8, <2>2, <2>3, <2>4, <2>5 DEF Reset
<1>9. QED
  BY Zenon, <1>1, <1>2, <1>3, <1>4, <1>5, <1>6, <1>7, <1>8 DEF RunStep

(* The invariant holds initially.                                          *)
LEMMA InitHolds == Init => SqliteInv
<1> SUFFICES ASSUME Init PROVE SqliteInv
  BY Zenon
<1>1. NoDb \in DbRecord
  BY Zenon DEF NoDb, DbRecord
<1>2. TypeOK
  BY <1>1, IdleRecord DEF Init, TypeOK, Damage
<1>3. /\ file.inc = Absent /\ file.damage = "none" /\ made = 0 /\ epoch = 0
      /\ boot = None /\ excl = None /\ shared = {} /\ faults = 0
  BY Zenon DEF Init
<1>4. ASSUME NEW t \in Thread PROVE ThreadOK(t)
  <2>1. /\ my[t].pc = "idle" /\ my[t].mode = "run" /\ my[t].via = "enable"
        /\ my[t].second = FALSE /\ my[t].bad = Absent
    BY Zenon, IdleRecord DEF Init
  <2>2. ThreadInv(t) /\ StageInv(t)
    BY Zenon, <2>1 DEF ThreadInv, StageInv, BootPcs, RecreatePcs, ReadPcs
  <2>3. RetryInv(t) /\ DeleteInv(t)
    BY SMTT(60), <1>3, <2>1 DEF RetryInv, DeleteInv, Gone
  <2>4. QED
    BY Zenon, <2>2, <2>3 DEF ThreadOK
<1>5. ASSUME NEW p \in Proc PROVE DbOK(p)
  <2>1. /\ db[p].open = FALSE /\ db[p].pool = FALSE /\ db[p].conns = {}
        /\ db[p].linger = FALSE /\ db[p].epoch = 0 /\ db[p].readers = {}
        /\ db[p].writer = None
    BY Zenon DEF Init, NoDb
  <2>2. QED
    BY <1>3, <2>1 DEF DbOK, ConnsInv, GuardsInv
<1>6. LocksInv
  <2>1. \A t \in Thread : my[t].pc = "idle"
    BY Zenon, IdleRecord DEF Init
  <2>2. QED
    BY Zenon, <1>3, <2>1 DEF LocksInv, BootPcs, DeletePcs
<1>7. FileInv
  BY <1>3 DEF FileInv
<1>8. QED
  BY Zenon, <1>2, <1>4, <1>5, <1>6, <1>7 DEF SqliteInv

(* Every step keeps it.                                                    *)
LEMMA NextKeeps == SqliteInv /\ [Next]_vars => SqliteInv'
<1> SUFFICES ASSUME SqliteInv, [Next]_vars PROVE SqliteInv'
  BY Zenon
<1>1. TypeOK /\ FieldTypes
  BY Zenon, FieldTypesHold DEF SqliteInv
<1>2. ASSUME NEW t \in Thread, OpenBegin(t) PROVE SqliteInv'
  BY Zenon, <1>2, OpenBeginStep
<1>3. ASSUME NEW t \in Thread, RunBegin(t) PROVE SqliteInv'
  BY Zenon, <1>3, RunBeginStep
<1>4. ASSUME NEW t \in Thread, OpenStep(t) PROVE SqliteInv'
  BY Zenon, <1>4, OpenStepKeeps
<1>5. ASSUME NEW t \in Thread, RunStep(t) PROVE SqliteInv'
  BY Zenon, <1>5, RunStepKeeps
<1>6. ASSUME NEW t \in Thread, RecreateFails(t) PROVE SqliteInv'
  <2>1. my[t].pc \in BootPcs
    BY Zenon, <1>6 DEF RecreateFails, BootPcs
  <2>2. GiveUp(t, FALSE) /\ UNCHANGED <<dbVars, damages>> /\ faults < MaxFaults
        /\ faults' = faults + 1
    BY <1>6, Zenon DEF RecreateFails
  <2>3. QED
    BY Zenon, <2>1, <2>2, GiveUpStep
<1>7. ASSUME NEW t \in Thread, SetUpBusy(t) PROVE SqliteInv'
  <2>1. my[t].pc \in BootPcs /\ my[t].pc = "setup"
    BY Zenon, <1>7 DEF SetUpBusy, At, BootPcs
  <2>2. GiveUp(t, TRUE) /\ UNCHANGED <<dbVars, damages>> /\ faults < MaxFaults
        /\ faults' = faults + 1
    BY <1>7, Zenon DEF SetUpBusy
  <2>3. QED
    BY Zenon, <2>1, <2>2, GiveUpStep
<1>8. ASSUME NEW t \in Thread, LockTimeout(t) PROVE SqliteInv'
  BY Zenon, <1>8, LockTimeoutStep
<1>9. ASSUME NEW p \in Proc, LingerEnds(p) PROVE SqliteInv'
  BY Zenon, <1>9, LingerEndsStep
<1>10. ASSUME NEW p \in Proc, Exit(p) PROVE SqliteInv'
  <2>1. /\ Forget(p) /\ UNCHANGED <<dbVars, damages>> /\ faults' = faults
        /\ \A t \in Thread : ProcOf[t] = p => At(t, "idle")
    BY Zenon, <1>10 DEF Exit, budgets
  <2>2. faults' \in 0..MaxFaults /\ faults' >= faults
    BY <1>1, <2>1 DEF TypeOK
  <2>3. QED
    BY Zenon, <2>1, <2>2, ForgetStep
<1>11. ASSUME NEW p \in Proc, Kill(p) PROVE SqliteInv'
  <2>1. Forget(p) /\ UNCHANGED <<dbVars, damages>>
    BY Zenon, <1>11 DEF Kill
  <2>2. faults' \in 0..MaxFaults /\ faults' >= faults /\ faults' # 0
    BY <1>1, <1>11 DEF Kill, TypeOK
  <2>3. QED
    BY Zenon, <2>1, <2>2, ForgetStep
<1>12. ASSUME NEW d \in {"deep", "header"}, DamageFile(d) PROVE SqliteInv'
  BY Zenon, <1>12, DamageFileStep
<1>13. CASE UNCHANGED vars
  BY Zenon, <1>13, Unchanged
<1>14. QED
  BY Zenon, <1>2, <1>3, <1>4, <1>5, <1>6, <1>7, <1>8, <1>9, <1>10, <1>11, <1>12,
     <1>13 DEF Next

(* What changes which file is at the path. *)
LEMMA FileChange ==
    ASSUME SqliteInv, Next
    PROVE  \/ file'.inc = file.inc \/ file.inc = Absent
           \/ \E t \in Thread : /\ At(t, "delete")
                                /\ ~(/\ file.inc # Absent /\ file.damage # "header"
                                     /\ Newer(ProcOf[t]))
<1>1. TypeOK
  BY Zenon DEF SqliteInv
<1>2. ASSUME NEW t \in Thread, OpenStep(t), ~DeleteFiles(t)
      PROVE  file'.inc = file.inc \/ file.inc = Absent
  <2>1. CASE OpenLocked(t) \/ BumpEpoch(t) \/ Share(t)
    BY Zenon, <2>1 DEF OpenLocked, BumpEpoch, Share, dbVars
  <2>2. CASE EnableWal(t)
    BY Zenon, <2>2 DEF EnableWal, OpenPath, dbVars
  <2>3. CASE CheckGeneration(t) \/ SetUpFails(t)
    BY Zenon, <2>3 DEF CheckGeneration, SetUpFails, OpenPath, dbVars
  <2>4. CASE SetUp(t)
    BY Zenon, <1>1, <2>4 DEF SetUp, TypeOK
  <2>5. CASE CreateFile(t)
    BY Zenon, <2>5 DEF SqliteInv, ThreadOK, StageInv, CreateFile
  <2>6. QED
    BY Zenon, <1>2, <2>1, <2>2, <2>3, <2>4, <2>5 DEF OpenStep
<1>3. ASSUME NEW t \in Thread, DeleteFiles(t)
      PROVE  \/ file'.inc = file.inc
             \/ /\ At(t, "delete")
                /\ ~(/\ file.inc # Absent /\ file.damage # "header" /\ Newer(ProcOf[t]))
  BY Zenon, <1>3 DEF DeleteFiles, dbVars
<1>4. ASSUME NEW t \in Thread, RunStep(t) PROVE file' = file
  BY Zenon, <1>4 DEF RunStep, ReadGuard, TakeLock, Checkout, OpDone, OpCorrupt,
     Recreate,
     RecreateLock, Reset, dbVars
<1>5. ASSUME NEW t \in Thread,
             \/ OpenBegin(t) \/ RunBegin(t) \/ RecreateFails(t) \/ SetUpBusy(t)
             \/ LockTimeout(t)
      PROVE  file' = file
  BY Zenon, <1>5 DEF OpenBegin, RunBegin, RecreateFails, SetUpBusy, LockTimeout,
     dbVars
<1>6. ASSUME NEW p \in Proc, LingerEnds(p) \/ Exit(p) \/ Kill(p) PROVE file' = file
  BY Zenon, <1>6 DEF LingerEnds, Exit, Kill, dbVars
<1>7. ASSUME NEW d \in {"deep", "header"}, DamageFile(d) PROVE file'.inc = file.inc
  BY Zenon, <1>1, <1>7 DEF DamageFile, TypeOK
<1>8. QED
  BY Zenon, <1>2, <1>3, <1>4, <1>5, <1>6, <1>7 DEF Next

-----------------------------------------------------------------------------
(* Theorems *)

(***************************************************************************)
(* The invariant of the protocol of open, run, recreate and reset holds in *)
(* every state, whoever is killed and whatever fails (sqlite.rs).          *)
(***************************************************************************)
THEOREM Invariant == Spec => []SqliteInv
<1>1. QED
  BY InitHolds, NextKeeps, PTL DEF Spec

(***************************************************************************)
(* No process has a connection to a file that was deleted or replaced, and *)
(* whoever deletes it is alone with it (enable_wal, reset).                *)
(***************************************************************************)
THEOREM FileSharedAlways == Spec => []FileShared
<1>1. SqliteInv => FileShared
  <2> SUFFICES ASSUME SqliteInv PROVE FileShared
    BY Zenon
  <2>1. ASSUME NEW p \in Proc PROVE db[p].conns \subseteq {file.inc}
    BY Zenon DEF SqliteInv, DbOK, ConnsInv
  <2>2. ASSUME excl # None
        PROVE  shared = {} /\ boot # None /\ ProcOf[boot] = excl
    BY Zenon, <2>2, FieldTypesHold DEF SqliteInv, LocksInv, FieldTypes
  <2>3. ASSUME excl # None, NEW p \in Proc PROVE ~db[p].pool
    BY Zenon, <2>2, <2>3 DEF SqliteInv, DbOK, ConnsInv
  <2>4. QED
    BY Zenon, <2>1, <2>2, <2>3 DEF FileShared, ConnectionsCurrent, DeletedAlone
<1>2. QED
  BY <1>1, Invariant, PTL

(***************************************************************************)
(* An operation that runs a second time runs on another file than the one  *)
(* its first attempt failed on (run, recreate).                            *)
(***************************************************************************)
THEOREM RetryOnNewFileAlways == Spec => []RetryOnNewFile
<1>1. SqliteInv => RetryOnNewFile
  <2> SUFFICES ASSUME SqliteInv, NEW t \in Thread, At(t, "op"), my[t].second
               PROVE  my[t].inc # my[t].bad
    BY Zenon DEF RetryOnNewFile
  <2>1. /\ StageInv(t) /\ RetryInv(t) /\ ConnsInv(ProcOf[t]) /\ ProcOf[t] \in Proc
    BY Zenon, FieldTypesHold DEF SqliteInv, ThreadOK, DbOK, FieldTypes
  <2>2. my[t].inc = file.inc /\ file.inc # Absent
    BY Zenon, <2>1 DEF StageInv, ConnsInv, At, DbOf
  <2>3. QED
    BY Zenon, <2>1, <2>2 DEF RetryInv, Gone
<1>2. QED
  BY <1>1, Invariant, PTL

(***************************************************************************)
(* While nothing fails, only a damaged file is ever deleted, and a         *)
(* readable file of a newer raeva is never deleted by an older one         *)
(* (recreate_files).                                                       *)
(***************************************************************************)
THEOREM FilesKeptAlways == Spec => FilesKept
<1>1. SqliteInv /\ [Next]_vars => [SoundKept /\ NewerKept]_vars
  <2> SUFFICES ASSUME SqliteInv, Next PROVE SoundKept /\ NewerKept
    BY Zenon
  <2>1. CASE file'.inc = file.inc
    BY Zenon, <2>1 DEF SoundKept, NewerKept
  <2>2. CASE \E t \in Thread : /\ At(t, "delete")
                               /\ ~(/\ file.inc # Absent /\ file.damage # "header"
                                    /\ Newer(ProcOf[t]))
    <3>1. PICK t \in Thread : /\ At(t, "delete")
                              /\ ~(/\ file.inc # Absent /\ file.damage # "header"
                                   /\ Newer(ProcOf[t]))
      BY Zenon, <2>2
    <3>2. /\ LocksInv /\ DeleteInv(t) /\ FieldTypes /\ ProcOf[t] \in Proc
          /\ excl = ProcOf[t]
      BY Zenon, <3>1, FieldTypesHold DEF SqliteInv, ThreadOK, LocksInv, DeletePcs,
         At, FieldTypes
    <3>3. SoundKept
      BY Zenon, <3>1, <3>2 DEF SoundKept, DeleteInv, Unusable
    <3>4. NewerKept
      BY <3>1, <3>2 DEF NewerKept, Newer, FieldTypes
    <3>5. QED
      BY Zenon, <3>3, <3>4
  <2>3. CASE file.inc = Absent
    BY Zenon, <2>3 DEF SoundKept, NewerKept
  <2>4. QED
    BY Zenon, <2>1, <2>2, <2>3, FileChange
<1>2. QED
  BY <1>1, Invariant, PTL DEF Spec, FilesKept

(***************************************************************************)
(* Operations wait for the bootstrap lock with the read guard in hand, and *)
(* a recreate for both; still some thread that is in a call can always go  *)
(* on, without a timeout (run_locked, recreate).                           *)
(***************************************************************************)
THEOREM NeverDeadlocked == Spec => []NoDeadlock
<1>1. SqliteInv => NoDeadlock
  <2> SUFFICES ASSUME SqliteInv, \A t \in Thread : my[t].pc = "idle" \/ Blocked(t)
               PROVE  \A t \in Thread : my[t].pc = "idle"
    BY Zenon DEF NoDeadlock, At
  <2>1. FieldTypes /\ LocksInv
    BY Zenon, FieldTypesHold DEF SqliteInv
  <2>2. \A t \in Thread : my[t].pc \in {"idle", "boot", "lock", "rboot", "read", "recreate"}
    BY Zenon DEF Blocked, At
  <2>3. boot = None
    BY Zenon, <2>1, <2>2 DEF LocksInv, FieldTypes, BootPcs
  <2>4. \A t \in Thread : my[t].pc \in {"idle", "read", "recreate"}
    BY Zenon, <2>2, <2>3 DEF Blocked, At
  <2>5. ASSUME NEW p \in Proc PROVE db[p].writer = None /\ db[p].readers = {}
    <3>1. GuardsInv(p) /\ db[p].readers \subseteq Thread /\ db[p].writer \in Thread \cup {None}
      BY Zenon, <2>1 DEF SqliteInv, DbOK, FieldTypes
    <3>2. QED
      BY Zenon, <2>4, <3>1 DEF GuardsInv, ReadPcs, RecreatePcs, InRun
  <2>6. QED
    BY Zenon, <2>1, <2>3, <2>5 DEF Blocked, At, FieldTypes
<1>2. QED
  BY <1>1, Invariant, PTL
=============================================================================

------------------------- MODULE LockfileSyncProofs -------------------------
(***************************************************************************)
(* `raeva sync` for any number of runs, platforms, JDKs, configurations,   *)
(* models, edits and published builds: what the lock claims of its entries *)
(* holds, what is carried forward merges, and, where all runs share a      *)
(* cache directory, a lock that is written loses nothing of the one before *)
(* and a run that reports success leaves a lock that is current.           *)
(***************************************************************************)
EXTENDS LockfileSync, TLAPS

-----------------------------------------------------------------------------
(* The inductive invariant *)

(* All runs take the same guard. *)
OneCache == \A p, q \in Proc : CacheOf[p] = CacheOf[q]

(* The JDKs a configuration has its platforms resolved for. *)
JdksFor(conf) == IF JdksOf[conf] = {} THEN {NoJdk} ELSE JdksOf[conf]

(* A set of targets has each of its platforms with all of these JDKs. *)
Complete(targets, conf) ==
    \A t \in targets :
        /\ t.jdk \in JdksFor(conf)
        /\ \A j \in JdksFor(conf) : \E u \in targets : u.os = t.os /\ u.jdk = j

PinsAgree(entries) == \A e, f \in entries : ~ConflictingPin(e, f)

(* The entries of a platform were resolved together. *)
OsUniform(entries) ==
    \A e, f \in entries : e.target.os = f.target.os => e.sys = f.sys /\ e.model = f.model

(* What every raeva.lock satisfies. *)
LockOK(l) ==
    /\ l.kind # "lock" => l.entries = {}
    /\ l.kind = "lock" =>
          /\ l.conf \in Conf /\ l.names = TargetsOf(l.entries)
          /\ Complete(l.names, l.conf)
    /\ \A e \in l.entries : e.conf = l.conf
    /\ PinsAgree(l.entries) /\ OsUniform(l.entries)

AfterRead == {"discover", "reuse", "resolve", "download", "merge", "write", "written",
              "accepted"}
AfterDiscover == AfterRead \ {"discover"}

(* What a run knows of the lock it read, and of what it is to resolve. *)
ReadInv(r) ==
    /\ r.pc # "idle" => r.conf \in Conf
    /\ r.pc \in {"discover", "write", "written"} => r.mode # "frozen"
    /\ r.pc \in AfterRead =>
          /\ LockOK(r.prev) /\ r.prev.kind # "newer"
          /\ Complete(r.targets, r.conf) /\ r.targets # {}
          /\ r.mode # "frozen" /\ r.oses = {} => OsOf(r.prev.names) \subseteq OsOf(r.targets)
          /\ r.mode = "frozen" => /\ r.prev.kind = "lock" /\ r.prev.conf = r.conf
                                  /\ r.targets \subseteq r.prev.names

(* The models it found are those of its targets, and for a frozen run of   *)
(* all that the lock records; that one resolves all of them or finds that  *)
(* no model changed.                                                       *)
ModelInv(r) ==
    r.pc \in AfterDiscover =>
        /\ \A t \in r.targets : r.models[t.os] \in Model
        /\ r.mode = "frozen" =>
              /\ \A t \in r.prev.names : r.models[t.os] \in Model
              /\ r.targets = r.prev.names \/ ModelsMatch(r.prev.entries, r.models)

(* What it resolved is about all its targets and nothing else. *)
FreshInv(r) ==
    r.pc = "merge" \/ (r.pc = "download" /\ r.mode # "frozen") =>
        /\ TargetsOf(r.new) = r.targets
        /\ \A e \in r.new : e.conf = r.conf /\ e.model = r.models[e.target.os]
        /\ \A e, f \in r.new : e.sys = f.sys
        /\ r.mode = "plain" => ~Repinned(r.prev.entries, r.new)

(* What it is about to write is a lock, but for pins that disagree. *)
MergedInv(r) ==
    r.pc \in {"write", "written"} =>
        /\ r.targets \subseteq TargetsOf(r.new)
        /\ \A e \in r.new : e.conf = r.conf
        /\ Complete(TargetsOf(r.new), r.conf) /\ OsUniform(r.new)
        /\ PinsAgree({e \in r.new : e.target \in r.targets}) => PinsAgree(r.new)
        /\ r.mode = "plain" => ~Repinned(r.prev.entries, r.new)

(* A frozen run that goes on after the comparison found nothing changed. *)
FrozenInv(r) ==
    r.mode = "frozen" /\ r.pc \in {"download", "accepted"} =>
        \A e \in r.prev.entries : Graph[e.model] = Graph[r.models[e.target.os]]

(* While nobody edits the project, a run has what is on disk. *)
QuietInv(r, pj) ==
    r.quiet /\ r.pc # "idle" =>
        /\ r.conf = pj.conf
        /\ r.pc \in AfterDiscover => \A t \in r.targets : r.models[t.os] = pj.model[t.os]
        /\ r.pc = "merge" \/ (r.pc = "download" /\ r.mode # "frozen") =>
              \A e \in r.new : e.sys = pj.sys
        /\ r.pc \in {"write", "written"} =>
              \A e \in r.new : e.sys = pj.sys /\ e.model = pj.model[e.target.os]
        /\ r.pc = "write" =>
              \A e \in r.prev.entries :
                 \/ e.target \in TargetsOf(r.new) \/ r.prev.conf # r.conf
                 \/ e.sys # pj.sys \/ e.model # pj.model[e.target.os]
                 \/ \E f \in r.new : ConflictingPin(e, f)

(* Where all runs take the same guard, raeva.lock is the one that a run    *)
(* read, until it writes its own.                                          *)
DiskInv(r, l) ==
    /\ r.pc \in AfterRead \ {"written"} => l = r.prev
    /\ r.pc = "written" => l = LockOf(r.conf, r.new)

RunInv(r, pj) ==
    /\ ReadInv(r) /\ ModelInv(r) /\ FreshInv(r) /\ MergedInv(r) /\ FrozenInv(r)
    /\ QuietInv(r, pj)

SyncInv ==
    /\ TypeOK
    /\ LockOK(lockfile)
    /\ \A p \in Proc : RunInv(run[p], project)
    /\ OneCache => \A p \in Proc : DiskInv(run[p], lockfile)

-----------------------------------------------------------------------------
(* Targets, locks and the steps of a run *)

(* A target's JDK is current exactly when the configuration asks for it.   *)
LEMMA JdksCurrent ==
    ASSUME NEW conf \in Conf, NEW t \in Target
    PROVE  CurrentJdk(t, conf) <=> t.jdk \in JdksFor(conf)
BY ZenonT(60), LockfileSyncAssumption DEF CurrentJdk, JdksFor, Target

(* A target is its platform and its JDK.                                   *)
LEMMA TargetByParts ==
    ASSUME NEW t \in Target, NEW u \in Target, t.os = u.os, t.jdk = u.jdk
    PROVE  t = u
BY DEF Target

(* The fields of what is read where there is no usable lock.               *)
LEMMA NoLockFields ==
    ASSUME NEW kind \in Kinds, NEW names \in SUBSET Target
    PROVE  /\ NoLock(kind, names) \in LockRecord /\ NoLock(kind, names).kind = kind
           /\ NoLock(kind, names).entries = {} /\ NoLock(kind, names).names = names
BY Zenon DEF NoLock, LockRecord

(* The fields of a lock with the given entries.                            *)
LEMMA LockOfFields ==
    ASSUME NEW conf \in Conf, NEW entries \in SUBSET Entry
    PROVE  /\ LockOf(conf, entries) \in LockRecord /\ LockOf(conf, entries).kind = "lock"
           /\ LockOf(conf, entries).conf = conf /\ LockOf(conf, entries).entries = entries
           /\ LockOf(conf, entries).names = TargetsOf(entries)
<1>1. TargetsOf(entries) \in SUBSET Target
  BY Zenon DEF TargetsOf, Entry
<1>2. QED
  BY Zenon, <1>1 DEF LockOf, LockRecord, Kinds

(* The record of a process that runs no sync. *)
LEMMA IdleRecord ==
    /\ Idle \in RunRecord /\ Idle.pc = "idle" /\ Idle.mode = "plain" /\ Idle.oses = {}
    /\ Idle.conf = None /\ Idle.quiet = FALSE /\ Idle.targets = {} /\ Idle.new = {}
    /\ Idle.prev = NoLock("missing", {}) /\ Idle.models = [o \in Os |-> None]
<1>1. NoLock("missing", {}) \in LockRecord
  BY Zenon, NoLockFields DEF Kinds
<1>2. [o \in Os |-> None] \in [Os -> Model \cup {None}]
  BY Zenon
<1>3. QED
  BY Zenon, <1>1, <1>2 DEF Idle, RunRecord, Pcs, Modes

(* A step of a run changes that run alone, and not the project.            *)
LEMMA StepEffect ==
    ASSUME TypeOK, NEW p \in Proc, NEW r \in RunRecord, Step(p, r)
    PROVE  /\ run' \in [Proc -> RunRecord] /\ run'[p] = r
           /\ \A q \in Proc \ {p} : run'[q] = run[q]
           /\ UNCHANGED <<project, remote, edits, gits>>
BY Zenon DEF TypeOK, Step, World

(* A step of one run keeps SyncInv when its own record does and the guard  *)
(* and the lock stay.                                                      *)
LEMMA LocalStep ==
    ASSUME SyncInv, NEW p \in Proc, NEW r \in RunRecord, Step(p, r),
           UNCHANGED <<lockfile, guard>>,
           r.pc \in {"idle", "guard"} <=> run[p].pc \in {"idle", "guard"},
           RunInv(r, project), OneCache => DiskInv(r, lockfile)
    PROVE  SyncInv'
<1>1. /\ run' \in [Proc -> RunRecord] /\ run'[p] = r
      /\ \A q \in Proc \ {p} : run'[q] = run[q]
      /\ UNCHANGED <<project, remote>>
  BY Zenon, StepEffect DEF SyncInv
<1>2. \A q \in Proc : Inside(q)' <=> guard'[CacheOf[q]] = q
  BY Zenon, <1>1 DEF SyncInv, TypeOK, Inside
<1>3. TypeOK'
  BY Zenon, <1>1, <1>2 DEF SyncInv, TypeOK
<1>4. \A q \in Proc : RunInv(run'[q], project')
  BY Zenon, <1>1 DEF SyncInv
<1>5. OneCache => \A q \in Proc : DiskInv(run'[q], lockfile')
  BY Zenon, <1>1 DEF SyncInv
<1>6. QED
  BY Zenon, <1>3, <1>4, <1>5 DEF SyncInv

(* The record of a run, and the project. *)
LEMMA Read ==
    ASSUME SyncInv, NEW p \in Proc
    PROVE  /\ run[p] \in RunRecord /\ RunInv(run[p], project) /\ LockOK(lockfile)
           /\ lockfile \in LockRecord /\ (OneCache => DiskInv(run[p], lockfile))
           /\ project.conf \in Conf /\ project.model \in [Os -> Model \cup {None}]
           /\ project.sys \in {0, 1}
BY Zenon DEF SyncInv, TypeOK

(* Start keeps the invariant.                                              *)
LEMMA StartStep ==
    ASSUME SyncInv, NEW p \in Proc, Start(p)
    PROVE  SyncInv'
<1>1. PICK mode \in Modes, oses \in SUBSET Os :
          Step(p, [Idle EXCEPT !.pc = "guard", !.mode = mode, !.oses = oses,
                               !.conf = project.conf, !.quiet = TRUE])
  BY Zenon DEF Start
<1>2. PICK r : r = [Idle EXCEPT !.pc = "guard", !.mode = mode, !.oses = oses,
                                !.conf = project.conf, !.quiet = TRUE]
  BY Zenon
<1>3. r \in RunRecord /\ r.pc = "guard" /\ r.conf = project.conf
  BY Zenon, <1>2, IdleRecord, Read DEF RunRecord, Pcs
<1>4. RunInv(r, project)
  BY Zenon, <1>3, Read DEF RunInv, ReadInv, ModelInv, FreshInv, MergedInv,
     FrozenInv, QuietInv,
     AfterRead, AfterDiscover
<1>5. OneCache => DiskInv(r, lockfile)
  BY Zenon, <1>3 DEF DiskInv, AfterRead
<1>6. QED
  BY Zenon, <1>1, <1>2, <1>3, <1>4, <1>5, LocalStep DEF Start, At

(* AcquireGuard keeps the invariant.                                       *)
LEMMA AcquireGuardStep ==
    ASSUME SyncInv, NEW p \in Proc, AcquireGuard(p)
    PROVE  SyncInv'
<1>1. PICK m : m = run[p] /\ m \in RunRecord /\ m.pc = "guard" /\ RunInv(m, project)
  BY Zenon, Read DEF AcquireGuard, At
<1>2. PICK r : r = [m EXCEPT !.pc = "read"]
  BY Zenon
<1>3. /\ r \in RunRecord /\ r.pc = "read" /\ r.conf = m.conf /\ r.quiet = m.quiet
  BY Zenon, <1>1, <1>2 DEF RunRecord, Pcs
<1>4. RunInv(r, project)
  BY Zenon, <1>1, <1>3 DEF RunInv, ReadInv, ModelInv, FreshInv, MergedInv,
     FrozenInv, QuietInv,
     AfterRead, AfterDiscover
<1>5. DiskInv(r, lockfile)
  BY Zenon, <1>3 DEF DiskInv, AfterRead
<1>6. /\ run' \in [Proc -> RunRecord] /\ run'[p] = r
      /\ \A q \in Proc \ {p} : run'[q] = run[q]
      /\ UNCHANGED <<project, remote, lockfile>>
  BY ZenonT(60), <1>1, <1>2, <1>3, StepEffect DEF SyncInv, AcquireGuard
<1>7. /\ guard' \in [CacheDir -> Proc \cup {None}] /\ guard'[CacheOf[p]] = p
      /\ \A d \in CacheDir \ {CacheOf[p]} : guard'[d] = guard[d]
      /\ guard[CacheOf[p]] = None
  BY ZenonT(60), LockfileSyncAssumption DEF SyncInv, TypeOK, AcquireGuard
<1>8. ASSUME NEW q \in Proc PROVE Inside(q)' <=> guard'[CacheOf[q]] = q
  <2>1. CASE q = p
    BY Zenon, <1>3, <1>6, <1>7, <2>1 DEF Inside
  <2>2. CASE q # p
    <3>1. Inside(q)' <=> Inside(q)
      BY Zenon, <1>6, <2>2 DEF Inside
    <3>2. guard'[CacheOf[q]] = q <=> guard[CacheOf[q]] = q
      BY Zenon, <1>7, <2>2, LockfileSyncAssumption
    <3>3. QED
      BY Zenon, <3>1, <3>2 DEF SyncInv, TypeOK
  <2>3. QED
    BY Zenon, <2>1, <2>2
<1>9. TypeOK'
  BY Zenon, <1>6, <1>7, <1>8 DEF SyncInv, TypeOK
<1>10. QED
  BY Zenon, <1>4, <1>5, <1>6, <1>9 DEF SyncInv

(* What a lock that may be read records is complete. *)
LEMMA ResolvedComplete ==
    ASSUME NEW targets, NEW oses \in SUBSET Os, NEW names \in SUBSET Target, NEW conf \in Conf,
           targets = ResolvePlatforms(oses, names, conf)
    PROVE  /\ targets \in SUBSET Target /\ Complete(targets, conf) /\ targets # {}
           /\ oses = {} => OsOf(names) \subseteq OsOf(targets)
           /\ OsOf(targets) \subseteq (IF oses # {} THEN oses ELSE OsOf(names) \cup {Host})
<1>1. PICK requested : requested = IF oses # {} THEN oses
                                   ELSE IF names # {} THEN OsOf(names) ELSE {Host}
  BY Zenon
<1>2. requested \subseteq Os
  BY ZenonT(60), <1>1, LockfileSyncAssumption DEF OsOf, Target
<1>3. JdksFor(conf) \subseteq Jdk \cup {NoJdk} /\ JdksFor(conf) # {}
  BY Zenon, LockfileSyncAssumption DEF JdksFor
<1>4. targets = [os : requested, jdk : JdksFor(conf)]
  BY Zenon, <1>1 DEF ResolvePlatforms, JdksFor
<1>5. targets \in SUBSET Target
  BY Zenon, <1>2, <1>3, <1>4 DEF Target
<1>6. Complete(targets, conf)
  <2>1. SUFFICES ASSUME NEW t \in targets
                 PROVE  /\ t.jdk \in JdksFor(conf)
                        /\ \A j \in JdksFor(conf) : \E u \in targets : u.os = t.os /\ u.jdk = j
    BY Zenon DEF Complete
  <2>2. t.jdk \in JdksFor(conf) /\ t.os \in requested
    BY Zenon, <1>4
  <2>3. ASSUME NEW j \in JdksFor(conf) PROVE \E u \in targets : u.os = t.os /\ u.jdk = j
    <3>1. [os |-> t.os, jdk |-> j] \in targets
      BY Zenon, <1>4, <2>2
    <3>2. QED
      BY Zenon, <3>1
  <2>4. QED
    BY Zenon, <2>2, <2>3
<1>7. OsOf(targets) = requested
  <2>1. PICK j : j \in JdksFor(conf)
    BY Zenon, <1>3
  <2>2. ASSUME NEW o \in requested PROVE o \in OsOf(targets)
    <3>1. [os |-> o, jdk |-> j] \in targets /\ [os |-> o, jdk |-> j].os = o
      BY Zenon, <1>4, <2>1
    <3>2. QED
      BY Zenon, <3>1 DEF OsOf
  <2>3. ASSUME NEW o \in OsOf(targets) PROVE o \in requested
    BY Zenon, <1>4 DEF OsOf
  <2>4. QED
    BY Zenon, <2>2, <2>3
<1>8. oses = {} => OsOf(names) \subseteq OsOf(targets)
  BY Zenon, <1>1, <1>7 DEF OsOf
<1>9. targets # {}
  BY SMTT(60), <1>1, <1>7, LockfileSyncAssumption DEF OsOf
<1>10. QED
  BY Zenon, <1>1, <1>5, <1>6, <1>7, <1>8, <1>9

(* ReadLock keeps the invariant.                                           *)
LEMMA ReadLockStep ==
    ASSUME SyncInv, NEW p \in Proc, ReadLock(p)
    PROVE  SyncInv'
<1>1. PICK m : m = run[p] /\ m \in RunRecord /\ m.pc = "read" /\ m.mode # "frozen"
               /\ RunInv(m, project)
  BY Zenon, Read DEF ReadLock, At
<1>2. /\ m.conf \in Conf /\ m.oses \in SUBSET Os /\ lockfile \in LockRecord
      /\ lockfile.names \in SUBSET Target
  BY Zenon, <1>1, Read DEF RunInv, ReadInv, RunRecord, LockRecord
<1>3. PICK targets : targets = ResolvePlatforms(m.oses, lockfile.names, m.conf)
  BY Zenon
<1>4. /\ targets \in SUBSET Target /\ Complete(targets, m.conf) /\ targets # {}
      /\ m.oses = {} => OsOf(lockfile.names) \subseteq OsOf(targets)
  <2>1. PICK oses \in SUBSET Os, names \in SUBSET Target, conf \in Conf :
            oses = m.oses /\ names = lockfile.names /\ conf = m.conf
    BY Zenon, <1>2
  <2>2. targets = ResolvePlatforms(oses, names, conf)
    BY Zenon, <1>3, <2>1
  <2>3. /\ targets \in SUBSET Target /\ Complete(targets, conf) /\ targets # {}
        /\ oses = {} => OsOf(names) \subseteq OsOf(targets)
    BY ZenonT(60), <2>2, ResolvedComplete
  <2>4. QED
    BY Zenon, <2>1, <2>3
<1>5. PICK r : r = [m EXCEPT !.pc = "discover", !.prev = lockfile, !.targets = targets]
  BY Zenon
<1>6. /\ r \in RunRecord /\ r.pc = "discover" /\ r.conf = m.conf /\ r.quiet = m.quiet
      /\ r.mode = m.mode /\ r.oses = m.oses /\ r.prev = lockfile /\ r.targets = targets
  BY Zenon, <1>1, <1>2, <1>4, <1>5 DEF RunRecord, Pcs
<1>7. LockOK(lockfile) /\ lockfile.kind # "newer"
  BY Zenon, Read DEF ReadLock
<1>8. ReadInv(r)
  BY Zenon, <1>1, <1>2, <1>4, <1>6, <1>7 DEF ReadInv, AfterRead
<1>9. RunInv(r, project)
  BY Zenon, <1>1, <1>6, <1>8 DEF RunInv, ModelInv, FreshInv, MergedInv, FrozenInv,
     QuietInv,
     AfterDiscover
<1>10. DiskInv(r, lockfile)
  BY Zenon, <1>6 DEF DiskInv
<1>11. Step(p, r) /\ UNCHANGED <<lockfile, guard>>
  BY Zenon, <1>1, <1>3, <1>5 DEF ReadLock
<1>12. QED
  BY Zenon, <1>1, <1>6, <1>9, <1>10, <1>11, LocalStep

(* Discovery finds a model where there is one. *)
LEMMA DiscoveredModels ==
    ASSUME TypeOK, NEW targets \in SUBSET Target, Discoverable(targets)
    PROVE  /\ Discovered(targets) \in [Os -> Model \cup {None}]
           /\ \A t \in targets : /\ Discovered(targets)[t.os] = project.model[t.os]
                                 /\ Discovered(targets)[t.os] \in Model
<1>1. project.model \in [Os -> Model \cup {None}]
  BY Zenon DEF TypeOK
<1>2. \A t \in targets : t.os \in Os /\ t.os \in OsOf(targets)
  BY Zenon DEF Target, OsOf
<1>3. QED
  BY Zenon, <1>1, <1>2 DEF Discovered, Discoverable

(* Discover keeps the invariant.                                           *)
LEMMA DiscoverStep ==
    ASSUME SyncInv, NEW p \in Proc, Discover(p)
    PROVE  SyncInv'
<1>1. PICK m : m = run[p] /\ m \in RunRecord /\ m.pc = "discover" /\ RunInv(m, project)
               /\ (OneCache => DiskInv(m, lockfile))
  BY Zenon, Read DEF Discover, At
<1>2. PICK models : models = Discovered(m.targets)
  BY Zenon
<1>3. /\ models \in [Os -> Model \cup {None}]
      /\ \A t \in m.targets : models[t.os] = project.model[t.os] /\ models[t.os] \in Model
  BY Zenon, <1>1, <1>2, DiscoveredModels DEF Discover, SyncInv, RunRecord
<1>4. PICK l \in {"reuse", "resolve"} :
          l = IF m.mode = "plain" /\ m.prev.kind = "lock" THEN "reuse" ELSE "resolve"
  BY Zenon
<1>5. PICK r : r = [m EXCEPT !.pc = l, !.models = models]
  BY Zenon
<1>6. /\ r \in RunRecord /\ r.pc = l /\ r.conf = m.conf /\ r.quiet = m.quiet
      /\ r.mode = m.mode /\ r.oses = m.oses /\ r.prev = m.prev /\ r.targets = m.targets
      /\ r.models = models
  BY Zenon, <1>1, <1>3, <1>4, <1>5 DEF RunRecord, Pcs
<1>7. ReadInv(r)
  BY Zenon, <1>1, <1>4, <1>6 DEF RunInv, ReadInv, AfterRead
<1>8. r.mode # "frozen"
  BY Zenon, <1>1, <1>6 DEF RunInv, ReadInv
<1>9. RunInv(r, project)
  BY ZenonT(60), <1>1, <1>3, <1>4, <1>6, <1>7, <1>8 DEF RunInv, ModelInv, FreshInv,
     MergedInv, FrozenInv,
     QuietInv
<1>10. OneCache => DiskInv(r, lockfile)
  BY Zenon, <1>1, <1>4, <1>6 DEF DiskInv, AfterRead
<1>11. Step(p, r) /\ UNCHANGED <<lockfile, guard>>
  BY Zenon, <1>1, <1>2, <1>4, <1>5 DEF Discover
<1>12. QED
  BY Zenon, <1>1, <1>4, <1>6, <1>9, <1>10, <1>11, LocalStep

(* CheckFrozenLocal keeps the invariant.                                   *)
LEMMA CheckFrozenLocalStep ==
    ASSUME SyncInv, NEW p \in Proc, CheckFrozenLocal(p)
    PROVE  SyncInv'
<1>1. PICK m : m = run[p] /\ m \in RunRecord /\ m.pc = "read" /\ m.mode = "frozen"
               /\ RunInv(m, project)
  BY Zenon, Read DEF CheckFrozenLocal, At
<1>2. /\ m.conf \in Conf /\ m.oses \in SUBSET Os /\ lockfile \in LockRecord
      /\ lockfile.names \in SUBSET Target
  BY Zenon, <1>1, Read DEF RunInv, ReadInv, RunRecord, LockRecord
<1>3. PICK platforms : platforms = ResolvePlatforms(m.oses, lockfile.names, m.conf)
  BY Zenon
<1>4. platforms \in SUBSET Target /\ Complete(platforms, m.conf) /\ platforms # {}
  <2>1. PICK oses \in SUBSET Os, names \in SUBSET Target, conf \in Conf :
            oses = m.oses /\ names = lockfile.names /\ conf = m.conf
    BY Zenon, <1>2
  <2>2. platforms = ResolvePlatforms(oses, names, conf)
    BY Zenon, <1>3, <2>1
  <2>3. platforms \in SUBSET Target /\ Complete(platforms, conf) /\ platforms # {}
    BY ZenonT(60), <2>2, ResolvedComplete
  <2>4. QED
    BY Zenon, <2>1, <2>3
<1>5. /\ lockfile.kind = "lock" /\ lockfile.conf = m.conf /\ Discoverable(lockfile.names)
      /\ platforms \subseteq lockfile.names
  BY Zenon, <1>1, <1>3 DEF CheckFrozenLocal
<1>6. PICK models : models = Discovered(lockfile.names)
  BY Zenon
<1>7. /\ models \in [Os -> Model \cup {None}]
      /\ \A t \in lockfile.names : models[t.os] = project.model[t.os] /\ models[t.os] \in Model
  BY Zenon, <1>2, <1>5, <1>6, DiscoveredModels DEF SyncInv
<1>8. PICK l, targets :
          /\ l = (IF ModelsMatch(lockfile.entries, models) THEN "reuse" ELSE "resolve")
          /\ targets = (IF ModelsMatch(lockfile.entries, models)
                        THEN platforms ELSE lockfile.names)
  BY Zenon
<1>9. /\ l \in {"reuse", "resolve"} /\ targets \in SUBSET Target /\ targets \subseteq lockfile.names
      /\ targets = lockfile.names \/ ModelsMatch(lockfile.entries, models)
  BY Zenon, <1>2, <1>4, <1>5, <1>8
<1>10. LockOK(lockfile)
  BY Zenon, Read
<1>11. Complete(targets, m.conf) /\ targets # {}
  BY Zenon, <1>4, <1>5, <1>8, <1>10 DEF LockOK
<1>12. PICK r : r = [m EXCEPT !.pc = l, !.prev = lockfile, !.models = models, !.targets = targets]
  BY Zenon
<1>13. /\ r \in RunRecord /\ r.pc = l /\ r.conf = m.conf /\ r.quiet = m.quiet
       /\ r.mode = "frozen" /\ r.oses = m.oses /\ r.prev = lockfile /\ r.targets = targets
       /\ r.models = models
  BY Zenon, <1>1, <1>2, <1>7, <1>9, <1>12 DEF RunRecord, Pcs
<1>14. ReadInv(r)
  BY Zenon, <1>2, <1>5, <1>9, <1>10, <1>11, <1>13 DEF ReadInv
<1>15. ModelInv(r)
  BY Zenon, <1>7, <1>9, <1>13 DEF ModelInv
<1>16. QuietInv(r, project)
  BY Zenon, <1>1, <1>7, <1>9, <1>13 DEF RunInv, QuietInv
<1>17. RunInv(r, project)
  BY Zenon, <1>9, <1>13, <1>14, <1>15, <1>16 DEF RunInv, FreshInv, MergedInv,
     FrozenInv
<1>18. DiskInv(r, lockfile)
  BY Zenon, <1>9, <1>13 DEF DiskInv
<1>19. Step(p, r) /\ UNCHANGED <<lockfile, guard>>
  BY Zenon, <1>1, <1>3, <1>6, <1>8, <1>12 DEF CheckFrozenLocal
<1>20. QED
  BY Zenon, <1>1, <1>9, <1>13, <1>17, <1>18, <1>19, LocalStep

(* A frozen run that finds the models of its lock unchanged finds the      *)
(* graphs unchanged.                                                       *)
LEMMA MatchingGraphs ==
    ASSUME NEW r \in RunRecord, ReadInv(r), ModelInv(r), r.pc \in AfterDiscover,
           r.mode = "frozen", ModelsMatch(r.prev.entries, r.models)
    PROVE  \A e \in r.prev.entries : Graph[e.model] = Graph[r.models[e.target.os]]
<1>1. SUFFICES ASSUME NEW e \in r.prev.entries PROVE r.models[e.target.os] = e.model
  BY Zenon
<1>2. r.prev.names = TargetsOf(r.prev.entries)
  BY Zenon DEF ReadInv, LockOK, AfterDiscover
<1>3. e.target \in r.prev.names
  BY Zenon, <1>2 DEF TargetsOf
<1>4. r.models[e.target.os] \in Model
  BY Zenon, <1>3 DEF ModelInv
<1>5. QED
  BY Zenon, <1>4, LockfileSyncAssumption DEF ModelsMatch

(* Reuse keeps the invariant.                                              *)
LEMMA ReuseStep ==
    ASSUME SyncInv, NEW p \in Proc, Reuse(p)
    PROVE  SyncInv'
<1>1. PICK m : m = run[p] /\ m \in RunRecord /\ m.pc = "reuse" /\ RunInv(m, project)
               /\ (OneCache => DiskInv(m, lockfile)) /\ ModelsMatch(m.prev.entries, m.models)
  BY Zenon, Read DEF Reuse, At
<1>2. PICK r : r = [m EXCEPT !.pc = "accepted"]
  BY Zenon
<1>3. /\ r \in RunRecord /\ r.pc = "accepted" /\ r.conf = m.conf /\ r.quiet = m.quiet
      /\ r.mode = m.mode /\ r.oses = m.oses /\ r.prev = m.prev /\ r.targets = m.targets
      /\ r.models = m.models
  BY Zenon, <1>1, <1>2 DEF RunRecord, Pcs
<1>4. ReadInv(r)
  BY Zenon, <1>1, <1>3 DEF RunInv, ReadInv, AfterRead
<1>5. ModelInv(r)
  BY Zenon, <1>1, <1>3 DEF RunInv, ModelInv, AfterDiscover, AfterRead
<1>6. FrozenInv(r)
  BY ZenonT(60), <1>1, <1>3, <1>4, <1>5, MatchingGraphs DEF FrozenInv, AfterDiscover,
     AfterRead
<1>7. RunInv(r, project)
  BY <1>1, <1>3, <1>4, <1>5, <1>6 DEF RunInv, FreshInv, MergedInv, QuietInv,
     AfterDiscover,
     AfterRead
<1>8. OneCache => DiskInv(r, lockfile)
  BY Zenon, <1>1, <1>3 DEF DiskInv, AfterRead
<1>9. Step(p, r) /\ UNCHANGED <<lockfile, guard>>
  BY Zenon, <1>1, <1>2 DEF Reuse
<1>10. QED
  BY Zenon, <1>1, <1>3, <1>7, <1>8, <1>9, LocalStep

(* ReuseMiss keeps the invariant.                                          *)
LEMMA ReuseMissStep ==
    ASSUME SyncInv, NEW p \in Proc, ReuseMiss(p)
    PROVE  SyncInv'
<1>1. PICK m : m = run[p] /\ m \in RunRecord /\ m.pc = "reuse" /\ RunInv(m, project)
               /\ (OneCache => DiskInv(m, lockfile))
  BY Zenon, Read DEF ReuseMiss, At
<1>2. PICK r : r = [m EXCEPT !.pc = "resolve"]
  BY Zenon
<1>3. /\ r \in RunRecord /\ r.pc = "resolve" /\ r.conf = m.conf /\ r.quiet = m.quiet
      /\ r.mode = m.mode /\ r.oses = m.oses /\ r.prev = m.prev /\ r.targets = m.targets
      /\ r.models = m.models
  BY Zenon, <1>1, <1>2 DEF RunRecord, Pcs
<1>4. ReadInv(r)
  BY ZenonT(60), <1>1, <1>3 DEF RunInv, ReadInv, AfterRead
<1>5. ModelInv(r)
  BY ZenonT(60), <1>1, <1>3 DEF RunInv, ModelInv, AfterDiscover, AfterRead
<1>6. RunInv(r, project)
  BY <1>1, <1>3, <1>4, <1>5 DEF RunInv, FreshInv, MergedInv, FrozenInv, QuietInv,
     AfterDiscover, AfterRead
<1>7. OneCache => DiskInv(r, lockfile)
  BY Zenon, <1>1, <1>3 DEF DiskInv, AfterRead
<1>8. Step(p, r) /\ UNCHANGED <<lockfile, guard>>
  BY Zenon, <1>1, <1>2 DEF ReuseMiss
<1>9. QED
  BY Zenon, <1>1, <1>3, <1>6, <1>7, <1>8, LocalStep

(* What a run may resolve its targets to. *)
LEMMA BuildsInRange ==
    ASSUME SyncInv, NEW p \in Proc
    PROVE  /\ Builds(p) \subseteq 1..MaxSnap /\ 1..remote.rel \subseteq 1..MaxRel
<1>1. remote.snap \in 1..MaxSnap /\ remote.rel \in 1..MaxRel
  BY Zenon DEF SyncInv, TypeOK
<1>2. run[p].prev.entries \subseteq Entry
  BY Zenon, Read DEF RunRecord, LockRecord
<1>3. {e.snap : e \in run[p].prev.entries} \subseteq 1..MaxSnap
  BY Zenon, <1>2 DEF Entry
<1>4. 1..remote.snap \subseteq 1..MaxSnap /\ 1..remote.rel \subseteq 1..MaxRel
  BY SMT, <1>1, LockfileSyncAssumption
<1>5. QED
  BY Zenon, <1>3, <1>4 DEF Builds

(* What a resolution gives: an entry per target, under the run's           *)
(* configuration, with the pins that it had to keep.                       *)
LEMMA FreshEntries ==
    ASSUME SyncInv, NEW p \in Proc, run[p].pc = "resolve",
           NEW snap \in [run[p].targets -> Builds(p)],
           NEW rel \in [run[p].targets -> 1..remote.rel]
    PROVE  /\ Fresh(p, snap, rel) \in SUBSET Entry
           /\ TargetsOf(Fresh(p, snap, rel)) = run[p].targets
           /\ \A e \in Fresh(p, snap, rel) :
                 /\ e.conf = run[p].conf /\ e.sys = project.sys
                 /\ e.model = run[p].models[e.target.os] /\ e.target \in run[p].targets
<1>1. PICK m : m = run[p] /\ m \in RunRecord /\ m.pc = "resolve" /\ RunInv(m, project)
  BY Zenon, Read
<1>2. /\ m.conf \in Conf /\ m.targets \in SUBSET Target /\ project.sys \in {0, 1}
      /\ \A t \in m.targets : m.models[t.os] \in Model
  BY Zenon, <1>1, Read DEF RunInv, ReadInv, ModelInv, RunRecord, AfterDiscover,
     AfterRead
<1>3. \A t \in m.targets : snap[t] \in 1..MaxSnap /\ rel[t] \in 1..MaxRel
  BY Zenon, <1>1, BuildsInRange
<1>4. Fresh(p, snap, rel) =
        {[target |-> t, model |-> m.models[t.os], conf |-> m.conf, sys |-> project.sys,
          snap |-> snap[t], rel |-> rel[t]] : t \in m.targets}
  BY Zenon, <1>1 DEF Fresh
<1>5. Fresh(p, snap, rel) \in SUBSET Entry
  BY <1>2, <1>3, <1>4 DEF Entry
<1>6. \A e \in Fresh(p, snap, rel) :
         /\ e.conf = m.conf /\ e.sys = project.sys
         /\ e.model = m.models[e.target.os] /\ e.target \in m.targets
  BY <1>4
<1>7. ASSUME NEW t \in m.targets PROVE t \in TargetsOf(Fresh(p, snap, rel))
  <2>1. PICK e : e = [target |-> t, model |-> m.models[t.os], conf |-> m.conf,
                      sys |-> project.sys, snap |-> snap[t], rel |-> rel[t]]
    BY Zenon
  <2>2. e \in Fresh(p, snap, rel) /\ e.target = t
    BY Zenon, <1>4, <2>1
  <2>3. QED
    BY Zenon, <2>2 DEF TargetsOf
<1>8. TargetsOf(Fresh(p, snap, rel)) = m.targets
  BY ZenonT(60), <1>6, <1>7 DEF TargetsOf
<1>9. QED
  BY Zenon, <1>1, <1>5, <1>6, <1>8

(* Resolve keeps the invariant.                                            *)
LEMMA ResolveStep ==
    ASSUME SyncInv, NEW p \in Proc, Resolve(p)
    PROVE  SyncInv'
<1>1. PICK m : m = run[p] /\ m \in RunRecord /\ m.pc = "resolve" /\ RunInv(m, project)
               /\ (OneCache => DiskInv(m, lockfile))
  BY Zenon, Read DEF Resolve, At
<1>2. PICK snap \in [run[p].targets -> Builds(p)], rel \in [run[p].targets -> 1..remote.rel] :
          /\ run[p].mode = "update" \/ ~Repinned(run[p].prev.entries, Fresh(p, snap, rel))
          /\ Step(p, [run[p] EXCEPT
                 !.new = Fresh(p, snap, rel),
                 !.pc = IF run[p].mode = "frozen" THEN "merge" ELSE "download"])
  BY Zenon DEF Resolve
<1>3. PICK fresh : fresh = Fresh(p, snap, rel)
  BY Zenon
<1>4. /\ fresh \in SUBSET Entry /\ TargetsOf(fresh) = m.targets
      /\ \A e \in fresh : /\ e.conf = m.conf /\ e.sys = project.sys
                          /\ e.model = m.models[e.target.os] /\ e.target \in m.targets
  BY ZenonT(60), <1>1, <1>3, FreshEntries
<1>5. m.mode = "plain" => ~Repinned(m.prev.entries, fresh)
  BY Zenon, <1>1, <1>2, <1>3
<1>6. PICK l \in {"merge", "download"} :
          l = IF m.mode = "frozen" THEN "merge" ELSE "download"
  BY Zenon
<1>7. PICK r : r = [m EXCEPT !.new = fresh, !.pc = l]
  BY Zenon
<1>8. /\ r \in RunRecord /\ r.pc = l /\ r.conf = m.conf /\ r.quiet = m.quiet
      /\ r.mode = m.mode /\ r.oses = m.oses /\ r.prev = m.prev /\ r.targets = m.targets
      /\ r.models = m.models /\ r.new = fresh
  BY Zenon, <1>1, <1>4, <1>6, <1>7 DEF RunRecord, Pcs
<1>9. ReadInv(r)
  BY ZenonT(60), <1>1, <1>6, <1>8 DEF RunInv, ReadInv, AfterRead
<1>10. ModelInv(r)
  BY Zenon, <1>1, <1>6, <1>8 DEF RunInv, ModelInv, AfterDiscover, AfterRead
<1>11. FreshInv(r)
  BY ZenonT(60), <1>4, <1>5, <1>8 DEF FreshInv
<1>12. QuietInv(r, project)
  BY <1>1, <1>4, <1>6, <1>8 DEF RunInv, QuietInv, AfterDiscover, AfterRead
<1>13. RunInv(r, project)
  BY Zenon, <1>6, <1>8, <1>9, <1>10, <1>11, <1>12 DEF RunInv, MergedInv, FrozenInv
<1>14. OneCache => DiskInv(r, lockfile)
  BY Zenon, <1>1, <1>6, <1>8 DEF DiskInv, AfterRead
<1>15. Step(p, r) /\ UNCHANGED <<lockfile, guard>>
  BY Zenon, <1>1, <1>2, <1>3, <1>6, <1>7 DEF Resolve
<1>16. QED
  BY Zenon, <1>1, <1>6, <1>8, <1>13, <1>14, <1>15, LocalStep

(* Download keeps the invariant.                                           *)
LEMMA DownloadStep ==
    ASSUME SyncInv, NEW p \in Proc, Download(p)
    PROVE  SyncInv'
<1>1. PICK m : m = run[p] /\ m \in RunRecord /\ m.pc = "download" /\ RunInv(m, project)
               /\ (OneCache => DiskInv(m, lockfile))
  BY Zenon, Read DEF Download, At
<1>2. PICK l \in {"accepted", "merge"} :
          l = IF m.mode = "frozen" THEN "accepted" ELSE "merge"
  BY Zenon
<1>3. PICK r : r = [m EXCEPT !.pc = l]
  BY Zenon
<1>4. /\ r \in RunRecord /\ r.pc = l /\ r.conf = m.conf /\ r.quiet = m.quiet
      /\ r.mode = m.mode /\ r.oses = m.oses /\ r.prev = m.prev /\ r.targets = m.targets
      /\ r.models = m.models /\ r.new = m.new
  BY Zenon, <1>1, <1>2, <1>3 DEF RunRecord, Pcs
<1>5. ReadInv(r)
  BY ZenonT(60), <1>1, <1>2, <1>4 DEF RunInv, ReadInv, AfterRead
<1>6. ModelInv(r)
  BY Zenon, <1>1, <1>2, <1>4 DEF RunInv, ModelInv, AfterDiscover, AfterRead
<1>7. FreshInv(r) /\ MergedInv(r) /\ FrozenInv(r)
  BY SMTT(60), <1>1, <1>2, <1>4 DEF RunInv, FreshInv, MergedInv, FrozenInv
<1>8. QuietInv(r, project)
  BY <1>1, <1>2, <1>4 DEF RunInv, QuietInv, AfterDiscover, AfterRead
<1>9. RunInv(r, project)
  BY Zenon, <1>5, <1>6, <1>7, <1>8 DEF RunInv
<1>10. OneCache => DiskInv(r, lockfile)
  BY Zenon, <1>1, <1>2, <1>4 DEF DiskInv, AfterRead
<1>11. Step(p, r) /\ UNCHANGED <<lockfile, guard>>
  BY Zenon, <1>1, <1>2, <1>3 DEF Download
<1>12. QED
  BY Zenon, <1>1, <1>2, <1>4, <1>9, <1>10, <1>11, LocalStep

-----------------------------------------------------------------------------
(* What merge_previous keeps *)

(* A run that has resolved, its lock and what it keeps of it. *)
Merging(m, kept) ==
    /\ m \in RunRecord /\ m.pc = "merge" /\ RunInv(m, project)
    /\ kept = PreservePlatforms(m.prev, m.new, m.conf)

(* What a run knows when it merges.                                        *)
LEMMA MergingFacts ==
    ASSUME NEW m, NEW kept, Merging(m, kept)
    PROVE  /\ m.conf \in Conf /\ m.new \in SUBSET Entry /\ m.prev.entries \in SUBSET Entry
           /\ kept \subseteq m.prev.entries /\ TargetsOf(m.new) = m.targets
           /\ LockOK(m.prev) /\ Complete(m.targets, m.conf) /\ m.targets \in SUBSET Target
           /\ \A e \in m.new : e.conf = m.conf /\ e.model = m.models[e.target.os]
           /\ \A e, f \in m.new : e.sys = f.sys
           /\ m.mode = "plain" => ~Repinned(m.prev.entries, m.new)
BY Zenon DEF Merging, RunInv, ReadInv, FreshInv, RunRecord, LockRecord, AfterRead,
   PreservePlatforms, Preservation

(* An entry that is carried forward is current and conflicts with nothing  *)
(* new.                                                                    *)
LEMMA KeptFacts ==
    ASSUME NEW m, NEW kept, Merging(m, kept), NEW e \in kept
    PROVE  /\ e \in m.prev.entries /\ e.target \notin m.targets /\ e.conf = m.conf
           /\ m.prev.conf = m.conf /\ \A f \in m.new : ~ConflictingPin(e, f)
           /\ e.sys = project.sys /\ e.model = project.model[e.target.os]
<1>1. TargetsOf(m.new) = m.targets /\ LockOK(m.prev)
  BY Zenon, MergingFacts
<1>2. kept = PreservePlatforms(m.prev, m.new, m.conf)
  BY Zenon DEF Merging
<1>3. QED
  BY Zenon, <1>1, <1>2 DEF PreservePlatforms, Preservation, LockOK

(* All JDKs of a recorded platform are of the configuration of the lock. *)
LEMMA RecordedJdk ==
    ASSUME NEW m, NEW kept, Merging(m, kept), NEW e \in m.prev.entries,
           m.prev.conf = m.conf
    PROVE  /\ e.target \in Target /\ e.target.jdk \in JdksFor(m.conf)
           /\ CurrentJdk(e.target, m.conf)
           /\ \A j \in JdksFor(m.conf) :
                 \E g \in m.prev.entries : g.target.os = e.target.os /\ g.target.jdk = j
<1>1. m.conf \in Conf /\ m.prev.entries \in SUBSET Entry /\ LockOK(m.prev)
  BY Zenon, MergingFacts
<1>2. e.target \in Target
  BY Zenon, <1>1 DEF Entry
<1>3. m.prev.names = TargetsOf(m.prev.entries) /\ Complete(m.prev.names, m.prev.conf)
  BY Zenon, <1>1 DEF LockOK
<1>4. e.target \in m.prev.names
  BY Zenon, <1>3 DEF TargetsOf
<1>5. e.target.jdk \in JdksFor(m.conf)
  BY Zenon, <1>3, <1>4 DEF Complete
<1>6. ASSUME NEW j \in JdksFor(m.conf)
      PROVE  \E g \in m.prev.entries : g.target.os = e.target.os /\ g.target.jdk = j
  <2>1. PICK u \in m.prev.names : u.os = e.target.os /\ u.jdk = j
    BY ZenonT(60), <1>3, <1>4 DEF Complete
  <2>2. PICK g \in m.prev.entries : g.target = u
    BY Zenon, <1>3 DEF TargetsOf
  <2>3. QED
    BY Zenon, <2>1, <2>2
<1>7. CurrentJdk(e.target, m.conf)
  BY Zenon, <1>1, <1>2, <1>5, JdksCurrent
<1>8. QED
  BY Zenon, <1>2, <1>5, <1>6, <1>7

(* No platform has a JDK kept and another one resolved. *)
LEMMA KeptOs ==
    ASSUME NEW m, NEW kept, Merging(m, kept), NEW e \in kept, NEW f \in m.new
    PROVE  e.target.os # f.target.os
<1>1. SUFFICES ASSUME e.target.os = f.target.os PROVE FALSE
  BY Zenon
<1>2. e \in m.prev.entries /\ e.target \notin m.targets /\ m.prev.conf = m.conf
  BY Zenon, KeptFacts
<1>3. e.target \in Target /\ e.target.jdk \in JdksFor(m.conf)
  BY Zenon, <1>2, RecordedJdk
<1>4. f.target \in m.targets /\ Complete(m.targets, m.conf) /\ m.targets \in SUBSET Target
  BY Zenon, MergingFacts DEF TargetsOf
<1>5. PICK u \in m.targets : u.os = f.target.os /\ u.jdk = e.target.jdk
  BY Zenon, <1>3, <1>4 DEF Complete
<1>6. u = e.target
  BY Zenon, <1>1, <1>3, <1>4, <1>5, TargetByParts
<1>7. QED
  BY Zenon, <1>2, <1>5, <1>6

(* A recorded platform that the rules allow is kept, with all its JDKs. *)
LEMMA KeptAll ==
    ASSUME NEW m, NEW kept, Merging(m, kept), NEW e \in m.prev.entries,
           e.target \notin m.targets, m.prev.conf = m.conf,
           e.sys = project.sys, e.model = project.model[e.target.os],
           \A f \in m.new : ~ConflictingPin(e, f)
    PROVE  e \in kept
<1>1. TargetsOf(m.new) = m.targets
  BY Zenon, MergingFacts
<1>2. CurrentJdk(e.target, m.conf)
  BY Zenon, RecordedJdk
<1>3. kept = PreservePlatforms(m.prev, m.new, m.conf)
  BY Zenon DEF Merging
<1>4. QED
  BY Zenon, <1>1, <1>2, <1>3 DEF PreservePlatforms, Preservation

(* The merged lock has every JDK of each platform it names.                *)
LEMMA MergedComplete ==
    ASSUME NEW m, NEW kept, Merging(m, kept)
    PROVE  Complete(TargetsOf(m.new \cup kept), m.conf)
<1>1. PICK all : all = TargetsOf(m.new \cup kept)
  BY Zenon
<1>2. /\ TargetsOf(m.new) = m.targets /\ Complete(m.targets, m.conf)
      /\ m.targets \subseteq all /\ \A e \in kept : e.target \in all
  <2>1. TargetsOf(m.new) = m.targets /\ Complete(m.targets, m.conf)
    BY Zenon, MergingFacts
  <2>2. m.targets \subseteq all /\ \A e \in kept : e.target \in all
    BY Zenon, <1>1, <2>1 DEF TargetsOf
  <2>3. QED
    BY Zenon, <2>1, <2>2
<1>3. SUFFICES ASSUME NEW t \in all
               PROVE  /\ t.jdk \in JdksFor(m.conf)
                      /\ \A j \in JdksFor(m.conf) : \E u \in all : u.os = t.os /\ u.jdk = j
  BY ZenonT(60), <1>1 DEF Complete
<1>4. CASE t \in m.targets
  BY Zenon, <1>2, <1>4 DEF Complete
<1>5. CASE t \notin m.targets
  <2>1. PICK e \in kept : e.target = t
    BY Zenon, <1>1, <1>2, <1>5 DEF TargetsOf
  <2>2. /\ e \in m.prev.entries /\ m.prev.conf = m.conf
        /\ \A f \in m.new : ~ConflictingPin(e, f)
        /\ e.sys = project.sys /\ e.model = project.model[e.target.os]
    BY Zenon, KeptFacts
  <2>3. /\ t.jdk \in JdksFor(m.conf)
        /\ \A j \in JdksFor(m.conf) :
              \E g \in m.prev.entries : g.target.os = e.target.os /\ g.target.jdk = j
    BY Zenon, <2>1, <2>2, RecordedJdk
  <2>4. ASSUME NEW j \in JdksFor(m.conf) PROVE \E u \in all : u.os = t.os /\ u.jdk = j
    <3>1. PICK g \in m.prev.entries : g.target.os = t.os /\ g.target.jdk = j
      BY Zenon, <2>1, <2>3
    <3>2. PinsAgree(m.prev.entries) /\ OsUniform(m.prev.entries)
      BY Zenon, MergingFacts DEF LockOK
    <3>3. g.sys = e.sys /\ g.model = e.model /\ g.target.os = e.target.os
      BY Zenon, <2>1, <2>2, <3>1, <3>2 DEF OsUniform
    <3>4. g.snap = e.snap /\ g.rel = e.rel
      BY Zenon, <2>2, <3>2 DEF PinsAgree, ConflictingPin
    <3>5. \A f \in m.new : ~ConflictingPin(g, f)
      BY Zenon, <2>2, <3>4 DEF ConflictingPin
    <3>6. g.target \in m.targets \/ g \in kept
      BY Zenon, <2>2, <3>3, <3>5, KeptAll
    <3>7. g.target \in all
      BY Zenon, <1>2, <3>6
    <3>8. QED
      BY Zenon, <3>1, <3>7
  <2>5. QED
    BY Zenon, <2>3, <2>4
<1>6. QED
  BY Zenon, <1>4, <1>5

(* The entries of a platform agree on the model.                           *)
LEMMA MergedUniform ==
    ASSUME NEW m, NEW kept, Merging(m, kept)
    PROVE  OsUniform(m.new \cup kept)
<1>1. SUFFICES ASSUME NEW e \in m.new \cup kept, NEW f \in m.new \cup kept,
                      e.target.os = f.target.os
               PROVE  e.sys = f.sys /\ e.model = f.model
  BY Zenon DEF OsUniform
<1>2. CASE e \in m.new /\ f \in m.new
  <2>1. /\ e.sys = f.sys
        /\ e.model = m.models[e.target.os] /\ f.model = m.models[f.target.os]
    BY Zenon, <1>2, MergingFacts
  <2>2. QED
    BY Zenon, <1>1, <2>1
<1>3. CASE e \in kept /\ f \in kept
  <2>1. /\ e.sys = project.sys /\ e.model = project.model[e.target.os]
        /\ f.sys = project.sys /\ f.model = project.model[f.target.os]
    BY ZenonT(60), <1>3, KeptFacts
  <2>2. QED
    BY Zenon, <1>1, <2>1
<1>4. CASE (e \in kept /\ f \in m.new) \/ (e \in m.new /\ f \in kept)
  BY Zenon, <1>1, <1>4, KeptOs
<1>5. QED
  BY Zenon, <1>2, <1>3, <1>4

(* The merged pins agree when those of the run's own targets do.           *)
LEMMA MergedPins ==
    ASSUME NEW m, NEW kept, Merging(m, kept),
           PinsAgree({e \in m.new \cup kept : e.target \in m.targets})
    PROVE  PinsAgree(m.new \cup kept)
<1>1. \A e \in m.new : e.target \in m.targets
  BY Zenon, MergingFacts DEF TargetsOf
<1>2. PinsAgree(m.new)
  BY Zenon, <1>1 DEF PinsAgree
<1>3. PinsAgree(m.prev.entries)
  BY Zenon, MergingFacts DEF LockOK
<1>4. \A e \in kept, f \in m.new : ~ConflictingPin(e, f) /\ ~ConflictingPin(f, e)
  <2>1. SUFFICES ASSUME NEW e \in kept, NEW f \in m.new
                 PROVE  ~ConflictingPin(e, f) /\ ~ConflictingPin(f, e)
    BY Zenon
  <2>2. ~ConflictingPin(e, f)
    BY Zenon, KeptFacts
  <2>3. QED
    BY Zenon, <2>2 DEF ConflictingPin
<1>5. \A e \in kept : e \in m.prev.entries
  BY Zenon, KeptFacts
<1>6. QED
  BY Zenon, <1>2, <1>3, <1>4, <1>5 DEF PinsAgree

(* A plain sync pins no release to other bytes.                            *)
LEMMA MergedReleases ==
    ASSUME NEW m, NEW kept, Merging(m, kept), m.mode = "plain"
    PROVE  ~Repinned(m.prev.entries, m.new \cup kept)
<1>1. ~Repinned(m.prev.entries, m.new) /\ PinsAgree(m.prev.entries)
  BY Zenon, MergingFacts DEF LockOK
<1>2. \A e \in kept : e \in m.prev.entries
  BY Zenon, KeptFacts
<1>3. QED
  BY Zenon, <1>1, <1>2 DEF Repinned, PinsAgree, ConflictingPin

(* A lock that resolving again gives has the graphs of the models found. *)
LEMMA NoDriftGraphs ==
    ASSUME NEW m, NEW kept, Merging(m, kept), m.mode = "frozen",
           NoDrift(m.prev, m.new \cup kept, m.conf)
    PROVE  \A e \in m.prev.entries : Graph[e.model] = Graph[m.models[e.target.os]]
<1>1. /\ m \in RunRecord /\ ReadInv(m) /\ ModelInv(m) /\ m.pc \in AfterDiscover
  BY Zenon DEF Merging, RunInv, AfterDiscover, AfterRead
<1>2. CASE ModelsMatch(m.prev.entries, m.models)
  BY Zenon, <1>1, <1>2, MatchingGraphs
<1>3. CASE m.targets = m.prev.names
  <2>1. SUFFICES ASSUME NEW e \in m.prev.entries
                 PROVE  Graph[e.model] = Graph[m.models[e.target.os]]
    BY Zenon
  <2>2. <<e.target, Graph[e.model], e.sys, e.snap, e.rel>> \in Pins(m.new \cup kept)
    BY Zenon DEF NoDrift, Pins
  <2>3. PICK f \in m.new \cup kept : <<e.target, Graph[e.model], e.sys, e.snap, e.rel>> =
                                     <<f.target, Graph[f.model], f.sys, f.snap, f.rel>>
    BY Zenon, <2>2 DEF Pins
  <2>4. f.target = e.target /\ Graph[f.model] = Graph[e.model]
    BY Zenon, <2>3
  <2>5. e.target \in m.prev.names
    BY Zenon, <1>1 DEF ReadInv, LockOK, TargetsOf, AfterDiscover
  <2>6. f \in m.new
    BY Zenon, <1>3, <2>4, <2>5, KeptFacts
  <2>7. f.model = m.models[f.target.os]
    BY Zenon, <2>6, MergingFacts
  <2>8. QED
    BY Zenon, <2>4, <2>7
<1>4. QED
  BY Zenon, <1>1, <1>2, <1>3 DEF ModelInv

(* What no edit disturbed is of the project on disk. *)
LEMMA MergedQuiet ==
    ASSUME NEW m, NEW kept, NEW new, Merging(m, kept), m.quiet, new = m.new \cup kept
    PROVE  /\ m.conf = project.conf
           /\ \A t \in m.targets : m.models[t.os] = project.model[t.os]
           /\ \A e \in new : e.sys = project.sys /\ e.model = project.model[e.target.os]
           /\ \A e \in m.prev.entries :
                 \/ e.target \in TargetsOf(new) \/ m.prev.conf # m.conf
                 \/ e.sys # project.sys \/ e.model # project.model[e.target.os]
                 \/ \E f \in new : ConflictingPin(e, f)
<1>1. /\ m.conf = project.conf
      /\ \A t \in m.targets : m.models[t.os] = project.model[t.os]
      /\ \A e \in m.new : e.sys = project.sys
  BY Zenon DEF Merging, RunInv, QuietInv, AfterDiscover, AfterRead
<1>2. \A e \in m.new : e.target \in m.targets /\ e.model = m.models[e.target.os]
  BY Zenon, MergingFacts DEF TargetsOf
<1>3. \A e \in m.new \cup kept : e.sys = project.sys /\ e.model = project.model[e.target.os]
  BY ZenonT(60), <1>1, <1>2, KeptFacts
<1>4. m.targets \subseteq TargetsOf(new)
  <2>1. m.targets = TargetsOf(m.new)
    BY Zenon, MergingFacts
  <2>2. QED
    BY Zenon, <2>1 DEF TargetsOf
<1>5. \A e \in kept : e.target \in TargetsOf(new)
  BY Zenon DEF TargetsOf
<1>6. ASSUME NEW e \in m.prev.entries, e.target \notin TargetsOf(new),
             m.prev.conf = m.conf, e.sys = project.sys, e.model = project.model[e.target.os],
             \A f \in new : ~ConflictingPin(e, f)
      PROVE  FALSE
  BY Zenon, <1>4, <1>5, <1>6, KeptAll
<1>7. QED
  BY Zenon, <1>1, <1>3, <1>6

(* Merge keeps the invariant.                                              *)
LEMMA MergeStep ==
    ASSUME SyncInv, NEW p \in Proc, Merge(p)
    PROVE  SyncInv'
<1>1. PICK m : m = run[p] /\ m \in RunRecord /\ m.pc = "merge" /\ RunInv(m, project)
               /\ (OneCache => DiskInv(m, lockfile))
  BY Zenon, Read DEF Merge, At
<1>2. PICK kept : kept = PreservePlatforms(m.prev, m.new, m.conf)
  BY Zenon
<1>3. Merging(m, kept)
  BY Zenon, <1>1, <1>2 DEF Merging
<1>4. PICK new : new = m.new \cup kept
  BY Zenon
<1>5. new \in SUBSET Entry /\ m.targets \subseteq TargetsOf(new)
  BY <1>3, <1>4, MergingFacts DEF TargetsOf
<1>6. PICK l \in {"download", "write"} :
          l = IF m.mode = "frozen" THEN "download" ELSE "write"
  BY Zenon
<1>7. PICK r : r = [m EXCEPT !.new = new, !.pc = l]
  BY Zenon
<1>8. /\ r \in RunRecord /\ r.pc = l /\ r.conf = m.conf /\ r.quiet = m.quiet
      /\ r.mode = m.mode /\ r.oses = m.oses /\ r.prev = m.prev /\ r.targets = m.targets
      /\ r.models = m.models /\ r.new = new
  BY Zenon, <1>1, <1>5, <1>6, <1>7 DEF RunRecord, Pcs
<1>9. /\ m.mode = "frozen" => NoDrift(m.prev, new, m.conf)
      /\ Step(p, r) /\ UNCHANGED <<lockfile, guard>>
  BY Zenon, <1>1, <1>2, <1>4, <1>6, <1>7 DEF Merge
<1>10. ReadInv(r)
  BY Zenon, <1>1, <1>6, <1>8 DEF RunInv, ReadInv, AfterRead
<1>11. ModelInv(r)
  BY Zenon, <1>1, <1>6, <1>8 DEF RunInv, ModelInv, AfterDiscover, AfterRead
<1>12. FrozenInv(r)
  <2>1. m.mode = "frozen" =>
            \A e \in m.prev.entries : Graph[e.model] = Graph[m.models[e.target.os]]
    BY Zenon, <1>3, <1>4, <1>9, NoDriftGraphs
  <2>2. QED
    BY Zenon, <1>8, <2>1 DEF FrozenInv
<1>13. MergedInv(r)
  <2>1. \A e \in new : e.conf = m.conf
    <3>1. \A e \in m.new : e.conf = m.conf
      BY Zenon, <1>3, MergingFacts
    <3>2. \A e \in kept : e.conf = m.conf
      BY <1>3, KeptFacts
    <3>3. QED
      BY Zenon, <1>4, <3>1, <3>2
  <2>2. Complete(TargetsOf(new), m.conf) /\ OsUniform(new)
    BY Zenon, <1>3, <1>4, MergedComplete, MergedUniform
  <2>3. PinsAgree({e \in new : e.target \in m.targets}) => PinsAgree(new)
    BY Zenon, <1>3, <1>4, MergedPins
  <2>4. m.mode = "plain" => ~Repinned(m.prev.entries, new)
    BY Zenon, <1>3, <1>4, MergedReleases
  <2>5. QED
    BY Zenon, <1>5, <1>8, <2>1, <2>2, <2>3, <2>4 DEF MergedInv
<1>14. QuietInv(r, project)
  <2>1. SUFFICES ASSUME m.quiet PROVE QuietInv(r, project)
    BY Zenon, <1>8 DEF QuietInv
  <2>2. /\ m.conf = project.conf
        /\ \A t \in m.targets : m.models[t.os] = project.model[t.os]
        /\ \A e \in new : e.sys = project.sys /\ e.model = project.model[e.target.os]
        /\ \A e \in m.prev.entries :
              \/ e.target \in TargetsOf(new) \/ m.prev.conf # m.conf
              \/ e.sys # project.sys \/ e.model # project.model[e.target.os]
              \/ \E f \in new : ConflictingPin(e, f)
    BY SMTT(60), <1>3, <1>4, <2>1, MergedQuiet
  <2>3. QED
    BY Zenon, <1>8, <2>2 DEF QuietInv
<1>15. FreshInv(r)
  BY Zenon, <1>6, <1>8 DEF FreshInv
<1>16. RunInv(r, project)
  BY Zenon, <1>10, <1>11, <1>12, <1>13, <1>14, <1>15 DEF RunInv
<1>17. OneCache => DiskInv(r, lockfile)
  BY Zenon, <1>1, <1>6, <1>8 DEF DiskInv, AfterRead
<1>18. QED
  BY Zenon, <1>1, <1>6, <1>8, <1>9, <1>16, <1>17, LocalStep

-----------------------------------------------------------------------------
(* Writing the lock, and the end of a run *)

(* Where all runs take the same guard, one at most is past it. *)
LEMMA OneInside ==
    ASSUME SyncInv, OneCache, NEW p \in Proc, NEW q \in Proc, Inside(p), Inside(q)
    PROVE  p = q
BY Zenon DEF SyncInv, TypeOK, OneCache

(* Write keeps the invariant.                                              *)
LEMMA WriteStep ==
    ASSUME SyncInv, NEW p \in Proc, Write(p)
    PROVE  SyncInv'
<1>1. PICK m : m = run[p] /\ m \in RunRecord /\ m.pc = "write" /\ RunInv(m, project)
               /\ Valid(m.new) /\ lockfile' = LockOf(m.conf, m.new)
  BY Zenon, Read DEF Write, At
<1>2. PICK r : r = [m EXCEPT !.pc = "written"]
  BY Zenon
<1>3. /\ r \in RunRecord /\ r.pc = "written" /\ r.conf = m.conf /\ r.quiet = m.quiet
      /\ r.mode = m.mode /\ r.oses = m.oses /\ r.prev = m.prev /\ r.targets = m.targets
      /\ r.models = m.models /\ r.new = m.new
  BY Zenon, <1>1, <1>2 DEF RunRecord, Pcs
<1>4. /\ run' \in [Proc -> RunRecord] /\ run'[p] = r
      /\ \A q \in Proc \ {p} : run'[q] = run[q]
      /\ UNCHANGED <<project, remote, guard>>
  BY Zenon, <1>1, <1>2, <1>3, StepEffect DEF SyncInv, Write
<1>5. /\ m.conf \in Conf /\ m.new \in SUBSET Entry /\ MergedInv(m)
  BY Zenon, <1>1 DEF RunInv, ReadInv, RunRecord
<1>6. PICK l : l = LockOf(m.conf, m.new)
  BY Zenon
<1>7. /\ l \in LockRecord /\ l.kind = "lock" /\ l.conf = m.conf /\ l.entries = m.new
      /\ l.names = TargetsOf(m.new)
  BY ZenonT(60), <1>5, <1>6, LockOfFields
<1>8. PinsAgree(m.new)
  BY Zenon, <1>1 DEF Valid, PinsAgree
<1>9. /\ \A e \in m.new : e.conf = m.conf
      /\ Complete(TargetsOf(m.new), m.conf) /\ OsUniform(m.new)
  BY Zenon, <1>1, <1>5 DEF MergedInv
<1>10. LockOK(l)
  BY Zenon, <1>5, <1>7, <1>8, <1>9 DEF LockOK
<1>11. lockfile' = l
  BY Zenon, <1>1, <1>6
<1>12. \A q \in Proc : Inside(q)' <=> guard'[CacheOf[q]] = q
  BY <1>1, <1>3, <1>4 DEF SyncInv, TypeOK, Inside
<1>13. TypeOK'
  BY Zenon, <1>4, <1>7, <1>11, <1>12 DEF SyncInv, TypeOK
<1>14. RunInv(r, project)
  <2>1. ReadInv(r)
    BY Zenon, <1>1, <1>3 DEF RunInv, ReadInv, AfterRead
  <2>2. ModelInv(r)
    BY Zenon, <1>1, <1>3 DEF RunInv, ModelInv, AfterDiscover, AfterRead
  <2>3. FreshInv(r) /\ FrozenInv(r)
    BY Zenon, <1>3 DEF FreshInv, FrozenInv
  <2>4. MergedInv(r)
    BY Zenon, <1>1, <1>3, <1>5 DEF MergedInv
  <2>5. QuietInv(r, project)
    BY <1>1, <1>3 DEF RunInv, QuietInv, AfterDiscover, AfterRead
  <2>6. QED
    BY Zenon, <2>1, <2>2, <2>3, <2>4, <2>5 DEF RunInv
<1>15. \A q \in Proc : RunInv(run'[q], project')
  BY Zenon, <1>4, <1>14 DEF SyncInv
<1>16. ASSUME OneCache, NEW q \in Proc PROVE DiskInv(run'[q], lockfile')
  <2>1. CASE q = p
    BY Zenon, <1>3, <1>4, <1>6, <1>11, <2>1 DEF DiskInv
  <2>2. CASE q # p
    <3>1. ~Inside(q)
      BY Zenon, <1>1, <1>16, <2>2, OneInside DEF Inside
    <3>2. QED
      BY Zenon, <1>4, <2>2, <3>1 DEF DiskInv, Inside, AfterRead
  <2>3. QED
    BY Zenon, <2>1, <2>2
<1>17. QED
  BY Zenon, <1>10, <1>11, <1>13, <1>15, <1>16 DEF SyncInv

(* The end of a run, or its failure, keeps the invariant.                  *)
LEMMA EndStep ==
    ASSUME SyncInv, NEW p \in Proc, End(p)
    PROVE  SyncInv'
<1>1. Idle \in RunRecord /\ Idle.pc = "idle"
  BY Zenon, IdleRecord
<1>2. /\ run' \in [Proc -> RunRecord] /\ run'[p] = Idle
      /\ \A q \in Proc \ {p} : run'[q] = run[q]
      /\ UNCHANGED <<project, remote, lockfile>>
  BY Zenon, <1>1, StepEffect DEF SyncInv, End
<1>3. /\ guard' = [d \in CacheDir |-> IF guard[d] = p THEN None ELSE guard[d]]
      /\ guard \in [CacheDir -> Proc \cup {None}]
  BY Zenon DEF SyncInv, TypeOK, End
<1>4. guard' \in [CacheDir -> Proc \cup {None}]
  BY Zenon, <1>3
<1>5. ASSUME NEW q \in Proc PROVE Inside(q)' <=> guard'[CacheOf[q]] = q
  <2>1. guard'[CacheOf[q]] = (IF guard[CacheOf[q]] = p THEN None ELSE guard[CacheOf[q]])
    BY Zenon, <1>3, LockfileSyncAssumption
  <2>2. Inside(q) <=> guard[CacheOf[q]] = q
    BY Zenon DEF SyncInv, TypeOK
  <2>3. CASE q = p
    BY Zenon, <1>1, <1>2, <2>1, <2>3, LockfileSyncAssumption DEF Inside
  <2>4. CASE q # p
    <3>1. Inside(q)' <=> Inside(q)
      BY Zenon, <1>2, <2>4 DEF Inside
    <3>2. guard'[CacheOf[q]] = q <=> guard[CacheOf[q]] = q
      BY Zenon, <2>1, <2>4, LockfileSyncAssumption
    <3>3. QED
      BY Zenon, <2>2, <3>1, <3>2
  <2>5. QED
    BY Zenon, <2>3, <2>4
<1>6. TypeOK'
  BY Zenon, <1>2, <1>4, <1>5 DEF SyncInv, TypeOK
<1>7. RunInv(Idle, project) /\ DiskInv(Idle, lockfile)
  BY Zenon, <1>1 DEF RunInv, ReadInv, ModelInv, FreshInv, MergedInv, FrozenInv,
     QuietInv, DiskInv,
     AfterRead, AfterDiscover
<1>8. \A q \in Proc : RunInv(run'[q], project')
  BY Zenon, <1>2, <1>7 DEF SyncInv
<1>9. OneCache => \A q \in Proc : DiskInv(run'[q], lockfile')
  BY Zenon, <1>2, <1>7 DEF SyncInv
<1>10. QED
  BY Zenon, <1>2, <1>6, <1>8, <1>9 DEF SyncInv

-----------------------------------------------------------------------------
(* The user, git and the repositories *)

(* An edit of the project keeps the invariant: no run stays quiet.         *)
LEMMA EditStep ==
    ASSUME SyncInv, NEW new, Edit(new),
           new \in [conf : Conf, model : [Os -> Model \cup {None}], sys : {0, 1}]
    PROVE  SyncInv'
<1>1. run' = [p \in Proc |-> [run[p] EXCEPT !.quiet = FALSE]]
  BY Zenon DEF Edit
<1>2. project' = new /\ UNCHANGED <<lockfile, guard, remote>>
  BY Zenon DEF Edit
<1>3. ASSUME NEW p \in Proc
      PROVE  /\ run'[p] \in RunRecord /\ run'[p].pc = run[p].pc /\ ~run'[p].quiet
             /\ RunInv(run'[p], new) /\ (OneCache => DiskInv(run'[p], lockfile))
  <2>1. PICK m : m = run[p] /\ m \in RunRecord /\ RunInv(m, project)
                 /\ (OneCache => DiskInv(m, lockfile))
    BY Zenon, Read
  <2>2. PICK r : r = [m EXCEPT !.quiet = FALSE]
    BY Zenon
  <2>3. /\ r \in RunRecord /\ r.pc = m.pc /\ r.conf = m.conf /\ r.quiet = FALSE
        /\ r.mode = m.mode /\ r.oses = m.oses /\ r.prev = m.prev /\ r.targets = m.targets
        /\ r.models = m.models /\ r.new = m.new
    BY Zenon, <2>1, <2>2 DEF RunRecord
  <2>4. /\ ReadInv(r) /\ ModelInv(r)
    BY ZenonT(60), <2>1, <2>3 DEF RunInv, ReadInv, ModelInv
  <2>5. FreshInv(r) /\ MergedInv(r) /\ FrozenInv(r)
    BY SMTT(60), <2>1, <2>3 DEF RunInv, FreshInv, MergedInv, FrozenInv
  <2>6. QuietInv(r, new)
    BY Zenon, <2>3 DEF QuietInv
  <2>7. RunInv(r, new)
    BY Zenon, <2>4, <2>5, <2>6 DEF RunInv
  <2>8. OneCache => DiskInv(r, lockfile)
    BY Zenon, <2>1, <2>3 DEF DiskInv
  <2>9. run'[p] = r
    BY Zenon, <1>1, <2>1, <2>2
  <2>10. QED
    BY Zenon, <2>1, <2>3, <2>7, <2>8, <2>9
<1>4. run' \in [Proc -> RunRecord]
  BY Zenon, <1>1, <1>3
<1>5. \A p \in Proc : Inside(p)' <=> guard'[CacheOf[p]] = p
  BY Zenon, <1>2, <1>3 DEF SyncInv, TypeOK, Inside
<1>6. TypeOK'
  BY Zenon, <1>2, <1>4, <1>5 DEF SyncInv, TypeOK
<1>7. QED
  BY Zenon, <1>2, <1>3, <1>6 DEF SyncInv

(* So do the edits of a POM, of the configuration and of a system file.    *)
LEMMA EditSteps ==
    ASSUME SyncInv, (\E o \in Os : EditModel(o)) \/ EditConf \/ EditSystemFile
    PROVE  SyncInv'
<1>1. project \in [conf : Conf, model : [Os -> Model \cup {None}], sys : {0, 1}]
  BY Zenon DEF SyncInv, TypeOK
<1>2. ASSUME NEW o \in Os, EditModel(o) PROVE SyncInv'
  <2>1. PICK m \in Model \cup {None} : Edit([project EXCEPT !.model[o] = m])
    BY Zenon, <1>2 DEF EditModel
  <2>2. PICK new : new = [project EXCEPT !.model[o] = m]
    BY Zenon
  <2>3. new \in [conf : Conf, model : [Os -> Model \cup {None}], sys : {0, 1}]
    BY Zenon, <1>1, <2>2
  <2>4. QED
    BY Zenon, <2>1, <2>2, <2>3, EditStep
<1>3. ASSUME EditConf PROVE SyncInv'
  <2>1. PICK c \in Conf : Edit([project EXCEPT !.conf = c])
    BY Zenon, <1>3 DEF EditConf
  <2>2. PICK new : new = [project EXCEPT !.conf = c]
    BY Zenon
  <2>3. new \in [conf : Conf, model : [Os -> Model \cup {None}], sys : {0, 1}]
    BY Zenon, <1>1, <2>2
  <2>4. QED
    BY Zenon, <2>1, <2>2, <2>3, EditStep
<1>4. ASSUME EditSystemFile PROVE SyncInv'
  <2>1. PICK new : new = [project EXCEPT !.sys = 1 - @]
    BY Zenon
  <2>2. new \in [conf : Conf, model : [Os -> Model \cup {None}], sys : {0, 1}]
    BY <1>1, <2>1
  <2>3. Edit(new)
    BY Zenon, <1>4, <2>1 DEF EditSystemFile
  <2>4. QED
    BY Zenon, <2>2, <2>3, EditStep
<1>5. QED
  BY Zenon, <1>2, <1>3, <1>4

(* Publishing a build or a release keeps the invariant.                    *)
LEMMA PublishStep ==
    ASSUME SyncInv, PublishSnapshot \/ PublishRelease
    PROVE  SyncInv'
<1>1. UNCHANGED <<lockfile, guard, run, project>>
  BY Zenon DEF PublishSnapshot, PublishRelease
<1>2. remote \in [snap : 1..MaxSnap, rel : 1..MaxRel]
  BY Zenon DEF SyncInv, TypeOK
<1>3. remote' \in [snap : 1..MaxSnap, rel : 1..MaxRel]
  BY <1>2, LockfileSyncAssumption DEF PublishSnapshot, PublishRelease
<1>4. \A p \in Proc : Inside(p)' <=> guard'[CacheOf[p]] = p
  BY Zenon, <1>1 DEF SyncInv, TypeOK, Inside
<1>5. TypeOK'
  BY Zenon, <1>1, <1>3, <1>4 DEF SyncInv, TypeOK
<1>6. QED
  BY Zenon, <1>1, <1>5 DEF SyncInv

(* A lock that git leaves keeps the invariant.                             *)
LEMMA GitStep ==
    ASSUME SyncInv, Git
    PROVE  SyncInv'
<1>1. UNCHANGED <<guard, run, project, remote>>
  BY Zenon DEF Git
<1>2. PICK kind \in {"unreadable", "newer"}, names \in SUBSET Target :
          lockfile' = NoLock(kind, names)
  <2>1. CASE lockfile' = NoLock("newer", {})
    BY Zenon, <2>1
  <2>2. CASE \E theirs \in SUBSET Os :
                lockfile' = NoLock("unreadable", Conflicted(lockfile.names, theirs))
    <3>1. PICK theirs \in SUBSET Os :
              lockfile' = NoLock("unreadable", Conflicted(lockfile.names, theirs))
      BY Zenon, <2>2
    <3>2. lockfile.names \in SUBSET Target
      BY Zenon DEF SyncInv, TypeOK, LockRecord
    <3>3. Conflicted(lockfile.names, theirs) \in SUBSET Target
      BY <3>2 DEF Target, Conflicted
    <3>4. QED
      BY Zenon, <3>1, <3>3
  <2>3. QED
    BY Zenon, <2>1, <2>2 DEF Git
<1>3. PICK l : l = NoLock(kind, names)
  BY Zenon
<1>4. /\ l \in LockRecord /\ l.kind = kind /\ l.entries = {} /\ l.names = names
  BY <1>3, NoLockFields DEF Kinds
<1>5. LockOK(l)
  BY Zenon, <1>4 DEF LockOK, PinsAgree, OsUniform
<1>6. \A p \in Proc : Inside(p)' <=> guard'[CacheOf[p]] = p
  BY Zenon, <1>1 DEF SyncInv, TypeOK, Inside
<1>7. TypeOK'
  BY Zenon, <1>1, <1>2, <1>3, <1>4, <1>6 DEF SyncInv, TypeOK
<1>8. ASSUME NEW p \in Proc PROVE DiskInv(run'[p], lockfile')
  <2>1. guard[CacheOf[p]] # p
    BY Zenon, LockfileSyncAssumption DEF Git
  <2>2. ~Inside(p)
    BY Zenon, <2>1 DEF SyncInv, TypeOK
  <2>3. QED
    BY Zenon, <1>1, <2>2 DEF DiskInv, Inside, AfterRead
<1>9. QED
  BY Zenon, <1>1, <1>2, <1>3, <1>5, <1>7, <1>8 DEF SyncInv

-----------------------------------------------------------------------------
(* The theorems *)

(* The invariant holds initially.                                          *)
LEMMA InitHolds == Init => SyncInv
<1>1. SUFFICES ASSUME Init PROVE SyncInv
  BY Zenon
<1>2. Idle \in RunRecord /\ Idle.pc = "idle"
  BY Zenon, IdleRecord
<1>3. /\ lockfile \in LockRecord /\ lockfile.kind = "missing" /\ lockfile.entries = {}
  BY Zenon, <1>1, NoLockFields DEF Init, Kinds
<1>4. LockOK(lockfile)
  BY Zenon, <1>3 DEF LockOK, PinsAgree, OsUniform
<1>5. \A p \in Proc : run[p] = Idle
  BY Zenon, <1>1 DEF Init
<1>6. RunInv(Idle, project) /\ DiskInv(Idle, lockfile)
  BY Zenon, <1>2 DEF RunInv, ReadInv, ModelInv, FreshInv, MergedInv, FrozenInv,
     QuietInv, DiskInv,
     AfterRead, AfterDiscover
<1>7. run \in [Proc -> RunRecord] /\ guard \in [CacheDir -> Proc \cup {None}]
  BY Zenon, <1>1, <1>2 DEF Init
<1>8. project \in [conf : Conf, model : [Os -> Model \cup {None}], sys : {0, 1}]
  BY <1>1, LockfileSyncAssumption DEF Init
<1>9. remote \in [snap : 1..MaxSnap, rel : 1..MaxRel]
  BY <1>1, LockfileSyncAssumption DEF Init
<1>10. \A p \in Proc : Inside(p) <=> guard[CacheOf[p]] = p
  BY Zenon, <1>1, <1>2, <1>5, LockfileSyncAssumption DEF Init, Inside
<1>11. TypeOK
  BY Zenon, <1>3, <1>7, <1>8, <1>9, <1>10 DEF TypeOK
<1>12. QED
  BY Zenon, <1>4, <1>5, <1>6, <1>11 DEF SyncInv

(* Every step keeps it.                                                    *)
LEMMA NextKeeps == SyncInv /\ [Next]_vars => SyncInv'
<1>1. SUFFICES ASSUME SyncInv, [Next]_vars PROVE SyncInv'
  BY Zenon
<1>2. ASSUME NEW p \in Proc, SyncStep(p) PROVE SyncInv'
  BY Zenon, <1>1, <1>2, StartStep, AcquireGuardStep, ReadLockStep, DiscoverStep,
     CheckFrozenLocalStep, ReuseStep, ReuseMissStep, ResolveStep, DownloadStep, MergeStep,
     WriteStep, EndStep DEF SyncStep, Finish, Abort
<1>3. CASE UNCHANGED vars
  <2>1. UNCHANGED <<lockfile, guard, run, project, remote>>
    BY Zenon, <1>3 DEF vars
  <2>2. TypeOK'
    BY Zenon, <1>1, <2>1 DEF SyncInv, TypeOK, Inside
  <2>3. QED
    BY Zenon, <1>1, <2>1, <2>2 DEF SyncInv
<1>4. QED
  BY Zenon, <1>1, <1>2, <1>3, EditSteps, PublishStep, GitStep DEF Next

(* SyncInv holds of every state that a behavior of LockfileSync reaches.   *)
THEOREM Invariant == Spec => []SyncInv
BY InitHolds, NextKeeps, PTL DEF Spec

(* A lock never claims a configuration that one of its entries was not     *)
(* resolved under (merge.rs, preservation), whatever the runs, the edits   *)
(* and git do.                                                             *)
THEOREM ConfHonestAlways == Spec => []ConfHonest
<1>1. SyncInv => ConfHonest
  BY Zenon DEF SyncInv, LockOK, ConfHonest
<1>2. QED
  BY <1>1, Invariant, PTL

(* What preservation carries forward never makes a lock that validate      *)
(* refuses out of one that it would accept.                                *)
THEOREM MergeValidAlways == Spec => []MergeValid
<1>1. SyncInv => MergeValid
  <2>1. SUFFICES ASSUME SyncInv, NEW p \in Proc, At(p, "write"),
                        Valid({e \in run[p].new : e.target \in run[p].targets})
                 PROVE  Valid(run[p].new)
    BY Zenon DEF MergeValid
  <2>2. PICK m : m = run[p] /\ m \in RunRecord /\ m.pc = "write" /\ RunInv(m, project)
    BY Zenon, <2>1, Read DEF At
  <2>3. m.conf \in Conf /\ MergedInv(m)
    BY Zenon, <2>2 DEF RunInv, ReadInv
  <2>4. PinsAgree(m.new)
    <3>1. PinsAgree({e \in m.new : e.target \in m.targets})
      BY Zenon, <2>1, <2>2 DEF Valid, PinsAgree
    <3>2. QED
      BY Zenon, <2>2, <2>3, <3>1 DEF MergedInv
  <2>5. \A e \in m.new : e.target.jdk \in JdksFor(m.conf)
    BY <2>2, <2>3 DEF MergedInv, Complete, TargetsOf
  <2>6. \A e, f \in m.new : e.target.jdk = NoJdk <=> f.target.jdk = NoJdk
    BY Zenon, <2>3, <2>5, LockfileSyncAssumption DEF JdksFor
  <2>7. QED
    BY Zenon, <2>2, <2>4, <2>6 DEF Valid, PinsAgree
<1>2. QED
  BY <1>1, Invariant, PTL

(* Only Write turns a run that is to write into one that has written. *)
LEMMA WriterWrites ==
    ASSUME SyncInv, [Next]_vars, NEW p \in Proc, Writes(p)
    PROVE  Write(p)
<1>1. run \in [Proc -> RunRecord] /\ run[p].pc = "write" /\ run'[p].pc = "written"
  BY Zenon DEF SyncInv, TypeOK, Writes
<1>2. ASSUME NEW q \in Proc, SyncStep(q) PROVE Write(p)
  <2>1. CASE q # p
    <3>1. \E r : Step(q, r)
      BY Zenon, <1>2 DEF SyncStep, Start, AcquireGuard, ReadLock, Discover,
         CheckFrozenLocal,
         Reuse, ReuseMiss, Resolve, Download, Merge, Write, Finish, Abort, End
    <3>2. run'[p] = run[p]
      BY Zenon, <1>1, <2>1, <3>1 DEF Step
    <3>3. QED
      BY Zenon, <1>1, <3>2
  <2>2. CASE q = p
    <3>1. Write(p) \/ Abort(p)
      BY Zenon, <1>1, <1>2, <2>2 DEF SyncStep, Start, AcquireGuard, ReadLock,
         Discover,
         CheckFrozenLocal, Reuse, ReuseMiss, Resolve, Download, Merge, Finish, At
    <3>2. ~Abort(p)
      BY Zenon, <1>1, IdleRecord DEF Abort, End, Step
    <3>3. QED
      BY Zenon, <3>1, <3>2
  <2>3. QED
    BY Zenon, <2>1, <2>2
<1>3. ASSUME NEW new, Edit(new) PROVE FALSE
  <2>1. run' = [q \in Proc |-> [run[q] EXCEPT !.quiet = FALSE]]
    BY Zenon, <1>3 DEF Edit
  <2>2. run'[p].pc = run[p].pc
    BY Zenon, <1>1, <2>1 DEF RunRecord
  <2>3. QED
    BY Zenon, <1>1, <2>2
<1>4. CASE UNCHANGED run
  BY Zenon, <1>1, <1>4
<1>5. QED
  BY Zenon, <1>2, <1>3, <1>4 DEF Next, EditModel, EditConf, EditSystemFile,
     PublishSnapshot,
     PublishRelease, Git, vars

(* What a write keeps of the lock it replaces, where all runs take the     *)
(* same guard.                                                             *)
LEMMA WriteKeeps ==
    ASSUME SyncInv, OneCache, NEW p \in Proc, Write(p)
    PROVE  /\ lockfile.kind = "lock" /\ run[p].quiet =>
                 \A e \in lockfile.entries :
                    \/ e.target \in lockfile'.names
                    \/ lockfile.conf # run[p].conf
                    \/ e.sys # project.sys
                    \/ e.model # project.model[e.target.os]
                    \/ \E f \in lockfile'.entries : ConflictingPin(e, f)
           /\ run[p].mode = "plain" => ~Repinned(lockfile.entries, lockfile'.entries)
           /\ lockfile.kind # "newer"
           /\ lockfile.kind = "unreadable" /\ run[p].oses = {} =>
                 OsOf(lockfile.names) \subseteq OsOf(lockfile'.names)
<1>1. PICK m : m = run[p] /\ m \in RunRecord /\ m.pc = "write" /\ RunInv(m, project)
               /\ DiskInv(m, lockfile) /\ lockfile' = LockOf(m.conf, m.new)
  BY Zenon, Read DEF Write, At
<1>2. lockfile = m.prev
  BY Zenon, <1>1 DEF DiskInv, AfterRead
<1>3. m.conf \in Conf /\ m.new \in SUBSET Entry
  BY Zenon, <1>1 DEF RunInv, ReadInv, RunRecord
<1>4. lockfile'.entries = m.new /\ lockfile'.names = TargetsOf(m.new)
  BY ZenonT(60), <1>1, <1>3, LockOfFields
<1>5. m.quiet => \A e \in m.prev.entries :
                    \/ e.target \in TargetsOf(m.new) \/ m.prev.conf # m.conf
                    \/ e.sys # project.sys \/ e.model # project.model[e.target.os]
                    \/ \E f \in m.new : ConflictingPin(e, f)
  BY Zenon, <1>1 DEF RunInv, QuietInv
<1>6. /\ m.mode = "plain" => ~Repinned(m.prev.entries, m.new)
      /\ m.targets \subseteq TargetsOf(m.new)
  BY Zenon, <1>1 DEF RunInv, MergedInv
<1>7. /\ m.prev.kind # "newer"
      /\ m.oses = {} => OsOf(m.prev.names) \subseteq OsOf(m.targets)
  BY Zenon, <1>1 DEF RunInv, ReadInv, AfterRead
<1>8. OsOf(m.targets) \subseteq OsOf(TargetsOf(m.new))
  BY Zenon, <1>6 DEF OsOf
<1>9. /\ run[p].quiet = m.quiet /\ run[p].mode = m.mode /\ run[p].oses = m.oses
      /\ run[p].conf = m.conf
  BY Zenon, <1>1
<1>10. m.oses = {} => OsOf(m.prev.names) \subseteq OsOf(TargetsOf(m.new))
  BY Zenon, <1>7, <1>8
<1>11. QED
  BY Zenon, <1>2, <1>4, <1>5, <1>6, <1>7, <1>9, <1>10

(* Where all runs take the same guard, a sync that writes raeva.lock drops *)
(* no platform of the lock it replaces but for a reason that               *)
(* preserve_platforms gives, pins no release to other bytes unless it is   *)
(* an --update, keeps the platforms that unreadable text names and         *)
(* replaces no lock of a newer raeva, however many other runs there are.   *)
THEOREM LockKeptAlways ==
    ASSUME OneCache
    PROVE  Spec => LockKept
<1>1. SyncInv /\ [Next]_vars => [PlatformsKept /\ ReleasesPinned /\ UnusableKept]_vars
  <2>1. SUFFICES ASSUME SyncInv, [Next]_vars
                 PROVE  PlatformsKept /\ ReleasesPinned /\ UnusableKept
    BY Zenon
  <2>2. \A p \in Proc : Writes(p) => Write(p)
    BY Zenon, <2>1, WriterWrites
  <2>3. PlatformsKept
    BY Zenon, <2>1, <2>2, WriteKeeps DEF PlatformsKept
  <2>4. ReleasesPinned
    BY Zenon, <2>1, <2>2, WriteKeeps DEF ReleasesPinned
  <2>5. UnusableKept
    BY Zenon, <2>1, <2>2, WriteKeeps DEF UnusableKept
  <2>6. QED
    BY Zenon, <2>3, <2>4, <2>5
<1>2. QED
  BY <1>1, Invariant, PTL DEF Spec, LockKept

(* Where all runs take the same guard, a frozen run that reports success   *)
(* leaves the raeva.lock it checked, with the graphs of the models it      *)
(* found, and a lock just written by a sync that no edit disturbed is one  *)
(* that `sync --frozen` accepts without resolving.                         *)
THEOREM LockCurrentAlways ==
    ASSUME OneCache
    PROVE  Spec => []LockCurrent
<1>1. SyncInv => FrozenReportsDisk
  <2>1. SUFFICES ASSUME SyncInv, NEW p \in Proc, At(p, "accepted"), run[p].mode = "frozen"
                 PROVE  /\ lockfile = run[p].prev /\ lockfile.conf = run[p].conf
                        /\ \A e \in lockfile.entries :
                              Graph[e.model] = Graph[run[p].models[e.target.os]]
    BY Zenon DEF FrozenReportsDisk
  <2>2. PICK m : m = run[p] /\ m.pc = "accepted" /\ m.mode = "frozen" /\ RunInv(m, project)
                 /\ DiskInv(m, lockfile)
    BY Zenon, <2>1, Read DEF At
  <2>3. lockfile = m.prev
    BY Zenon, <2>2 DEF DiskInv, AfterRead
  <2>4. m.prev.conf = m.conf
    BY Zenon, <2>2 DEF RunInv, ReadInv, AfterRead
  <2>5. \A e \in m.prev.entries : Graph[e.model] = Graph[m.models[e.target.os]]
    BY Zenon, <2>2 DEF RunInv, FrozenInv
  <2>6. QED
    BY Zenon, <2>2, <2>3, <2>4, <2>5
<1>2. SyncInv => SyncThenFrozen
  <2>1. SUFFICES ASSUME SyncInv, NEW p \in Proc, At(p, "written"), run[p].quiet
                 PROVE  /\ lockfile.conf = project.conf
                        /\ ~SystemFileDrift(lockfile.entries)
                        /\ Discoverable(lockfile.names)
                        /\ ModelsMatch(lockfile.entries, project.model)
                        /\ ResolvePlatforms(OsOf(lockfile.names), {}, project.conf)
                              \subseteq lockfile.names
    BY Zenon DEF SyncThenFrozen
  <2>2. PICK m : m = run[p] /\ m \in RunRecord /\ m.pc = "written" /\ m.quiet
                 /\ RunInv(m, project) /\ DiskInv(m, lockfile)
    BY Zenon, <2>1, Read DEF At
  <2>3. /\ m.conf \in Conf /\ m.new \in SUBSET Entry /\ m.targets # {}
    BY Zenon, <2>2 DEF RunInv, ReadInv, RunRecord, AfterRead
  <2>4. /\ lockfile.conf = m.conf /\ lockfile.entries = m.new
        /\ lockfile.names = TargetsOf(m.new)
    BY <2>2, <2>3, LockOfFields DEF DiskInv
  <2>5. /\ m.conf = project.conf
        /\ \A e \in m.new : e.sys = project.sys /\ e.model = project.model[e.target.os]
    BY Zenon, <2>2 DEF RunInv, QuietInv
  <2>6. m.targets \subseteq TargetsOf(m.new) /\ Complete(TargetsOf(m.new), m.conf)
    BY Zenon, <2>2 DEF RunInv, MergedInv
  <2>7. ~SystemFileDrift(lockfile.entries) /\ ModelsMatch(lockfile.entries, project.model)
    BY Zenon, <2>4, <2>5 DEF SystemFileDrift, ModelsMatch
  <2>8. \A e \in m.new : e.model \in Model
    BY Zenon, <2>3 DEF Entry
  <2>9. Discoverable(lockfile.names)
    BY <2>4, <2>5, <2>8, LockfileSyncAssumption DEF Discoverable, TargetsOf
  <2>10. ASSUME NEW t \in ResolvePlatforms(OsOf(lockfile.names), {}, project.conf)
         PROVE  t \in lockfile.names
    <3>1. OsOf(lockfile.names) # {}
      BY Zenon, <2>3, <2>4, <2>6 DEF OsOf
    <3>2. t \in [os : OsOf(lockfile.names), jdk : JdksFor(m.conf)]
      BY Zenon, <2>5, <3>1 DEF ResolvePlatforms, JdksFor
    <3>3. PICK u \in lockfile.names : u.os = t.os
      BY Zenon, <3>2 DEF OsOf
    <3>4. PICK v \in lockfile.names : v.os = t.os /\ v.jdk = t.jdk
      <4>1. t.jdk \in JdksFor(m.conf)
        BY Zenon, <3>2
      <4>2. Complete(lockfile.names, m.conf)
        BY Zenon, <2>4, <2>6
      <4>3. PICK v \in lockfile.names : v.os = u.os /\ v.jdk = t.jdk
        BY Zenon, <4>1, <4>2 DEF Complete
      <4>4. QED
        BY Zenon, <3>3, <4>3
    <3>5. lockfile.names \subseteq Target
      BY Zenon, <2>1 DEF SyncInv, TypeOK, LockRecord
    <3>6. t = v
      <4>1. t = [os |-> t.os, jdk |-> t.jdk]
        BY Zenon, <3>2
      <4>2. v = [os |-> v.os, jdk |-> v.jdk]
        BY Zenon, <3>5 DEF Target
      <4>3. QED
        BY Zenon, <3>4, <4>1, <4>2
    <3>7. QED
      BY Zenon, <3>4, <3>6
  <2>11. QED
    BY Zenon, <2>4, <2>5, <2>7, <2>9, <2>10
<1>3. QED
  BY <1>1, <1>2, Invariant, PTL DEF LockCurrent
=============================================================================

---------------------------- MODULE LockfileSync ----------------------------
(***************************************************************************)
(* `raeva sync` (raeva/src/commands/sync, rv-lock/src/{guard,merge}.rs):   *)
(* runs that read raeva.lock, resolve the project for some platforms, keep *)
(* what the old lock has for the others and write the new one, under the   *)
(* lockfile guard of their cache directory.                                *)
(*   - A target is a platform with a JDK of `[lock] jdks`, or with none.   *)
(*   - A lock is the configuration it claims and an entry per target: the  *)
(*     model and the system file it was resolved from, and its pins, which *)
(*     are a graph, a SNAPSHOT build and the bytes of a release.           *)
(*   - The configuration is loaded when a run starts, before the guard.    *)
(* A run whose next step is not enabled has met an early return: it fails, *)
(* as it may at any step of which a download or a file is part (Abort).    *)
(***************************************************************************)
EXTENDS Naturals, FiniteSets

CONSTANTS
    Proc,
    CacheDir, CacheOf,   \* the cache directory of each process
    Os, Host,            \* the platforms, and the one this machine is
    Jdk, NoJdk, HostJdk,
    Conf, JdksOf,        \* configurations, and the JDKs each one lists
    Model, Graph,        \* reactor models, and what each one resolves to
    FirstModel,          \* the model that the project starts with
    None,
    MaxSnap,             \* bound: SNAPSHOT builds published
    MaxRel,              \* bound: times a release is published
    MaxEdits,            \* bound: edits of the project and uses of git
    MaxGit               \* bound: times git leaves another raeva.lock

ASSUME LockfileSyncAssumption ==
    /\ CacheOf \in [Proc -> CacheDir] /\ None \notin Proc
    /\ Host \in Os /\ NoJdk \notin Jdk
    /\ JdksOf \in [Conf -> SUBSET Jdk]
    /\ DOMAIN Graph = Model /\ FirstModel \in Model
    /\ None \notin Model /\ None \notin Conf
    /\ MaxSnap \in Nat \ {0} /\ MaxRel \in Nat \ {0}
    /\ MaxEdits \in Nat /\ MaxGit \in Nat

VARIABLES
    lockfile,   \* raeva.lock
    guard,      \* the holder of each cache directory's lockfile guard
    run,        \* each process's run of sync
    project,    \* the configuration, models and system file on disk
    remote,     \* the newest SNAPSHOT build and release bytes served
    edits, gits

vars == <<lockfile, guard, run, project, remote, edits, gits>>

Target == [os : Os, jdk : Jdk \cup {NoJdk}]
Entry == [target : Target, model : Model, conf : Conf, sys : {0, 1},
          snap : 1..MaxSnap, rel : 1..MaxRel]
TargetsOf(entries) == {e.target : e \in entries}
OsOf(targets) == {t.os : t \in targets}

(* raeva.lock as read_lockfile_at tells it apart: absent, readable, of a   *)
(* newer raeva, or unusable text that names some targets.                  *)
Kinds == {"missing", "lock", "newer", "unreadable"}
NoLock(kind, names) ==
    [kind |-> kind, conf |-> None, entries |-> {}, names |-> names]
LockOf(conf, entries) ==
    [kind |-> "lock", conf |-> conf, entries |-> entries,
     names |-> TargetsOf(entries)]

Modes == {"plain", "update", "frozen"}
Idle == [pc |-> "idle", mode |-> "plain", oses |-> {}, conf |-> None,
         prev |-> NoLock("missing", {}), targets |-> {},
         models |-> [o \in Os |-> None], new |-> {}, quiet |-> FALSE]

Init ==
    /\ lockfile = NoLock("missing", {})
    /\ guard = [d \in CacheDir |-> None]
    /\ run = [p \in Proc |-> Idle]
    /\ project \in [conf : Conf, model : [Os -> {FirstModel}], sys : {0}]
    /\ remote = [snap |-> 1, rel |-> 1]
    /\ edits = 0 /\ gits = 0

---------------------------------------------------------------------------
(* What the steps decide, as functions of what they read.                  *)

(* The targets of a run: --platforms, else the recorded platforms, else    *)
(* this machine's, each with every JDK of the configuration.               *)
ResolvePlatforms(oses, recorded, conf) ==
    LET requested == IF oses # {} THEN oses
                     ELSE IF recorded # {} THEN OsOf(recorded) ELSE {Host}
        jdks == IF JdksOf[conf] = {} THEN {NoJdk} ELSE JdksOf[conf]
    IN  [os : requested, jdk : jdks]

(* The models discovery finds; None where the POMs cannot be read.         *)
Discovered(targets) ==
    [o \in Os |-> IF o \in OsOf(targets) THEN project.model[o] ELSE None]
Discoverable(targets) == \A t \in targets : project.model[t.os] # None

SystemFileDrift(entries) == \E e \in entries : e.sys # project.sys
ModelsMatch(entries, models) ==
    \A e \in entries : models[e.target.os] \in {None, e.model}

(* A release file pinned to other bytes than before.                       *)
Repinned(previous, fresh) ==
    \E e \in previous, f \in fresh : e.rel # f.rel
ConflictingPin(e, f) == e.snap # f.snap \/ e.rel # f.rel

CurrentJdk(t, conf) ==
    IF t.jdk = NoJdk THEN JdksOf[conf] = {} ELSE t.jdk \in JdksOf[conf]

(* Mutant: the configuration is not compared. *)
PreservationReconfigured(previous, fresh, conf) ==
    {e \in previous.entries :
        /\ e.target \notin TargetsOf(fresh)
        /\ \A f \in fresh : ~ConflictingPin(e, f)}

(* Mutant: the pins are not compared. *)
PreservationConflicting(previous, fresh, conf) ==
    {e \in previous.entries :
        /\ e.target \notin TargetsOf(fresh)
        /\ previous.conf = conf}

(* The entries of `previous` that nothing in the two locks forbids a run   *)
(* under `conf`, which resolved `fresh`, to carry forward.                 *)
Preservation(previous, fresh, conf) ==
    {e \in previous.entries :
        /\ e.target \notin TargetsOf(fresh)
        /\ previous.conf = conf
        /\ \A f \in fresh : ~ConflictingPin(e, f)}

(* Mutant: the model on disk is not compared. *)
PreservePlatformsStale(previous, fresh, conf) ==
    {e \in Preservation(previous, fresh, conf) : e.sys = project.sys}

(* Those of them that still describe the project on disk.                  *)
PreservePlatforms(previous, fresh, conf) ==
    {e \in Preservation(previous, fresh, conf) :
        /\ \/ CurrentJdk(e.target, conf)
           \/ e.target.os \notin OsOf(TargetsOf(fresh))
        /\ e.sys = project.sys
        /\ project.model[e.target.os] = e.model}

(* What a lockfile must satisfy to be written.                             *)
Valid(entries) ==
    /\ \A e, f \in entries : ~ConflictingPin(e, f)
    /\ \A e, f \in entries : e.target.jdk = NoJdk <=> f.target.jdk = NoJdk

(* What a resolution pins.                                                 *)
Pins(entries) == {<<e.target, Graph[e.model], e.sys, e.snap, e.rel>> :
                     e \in entries}

(* Resolving again gave what the lock has; models are not compared.        *)
NoDrift(lock, entries, conf) ==
    lock.conf = conf /\ Pins(lock.entries) = Pins(entries)

---------------------------------------------------------------------------
(* The steps of a run.                                                     *)

At(p, pc) == run[p].pc = pc
World == <<project, remote, edits, gits>>
Step(p, fields) ==
    /\ run' = [run EXCEPT ![p] = fields]
    /\ UNCHANGED World

Start(p) ==
    /\ At(p, "idle")
    /\ \E mode \in Modes, oses \in SUBSET Os :
          Step(p, [Idle EXCEPT !.pc = "guard", !.mode = mode, !.oses = oses,
                               !.conf = project.conf, !.quiet = TRUE])
    /\ UNCHANGED <<lockfile, guard>>

AcquireGuard(p) ==
    /\ At(p, "guard")
    /\ guard[CacheOf[p]] = None
    /\ Step(p, [run[p] EXCEPT !.pc = "read"])
    /\ guard' = [guard EXCEPT ![CacheOf[p]] = p]
    /\ UNCHANGED lockfile

(* The lock under the guard. One of a newer raeva is an error; text that   *)
(* cannot be used gives its targets' names and no entry.                   *)
ReadLock(p) ==
    /\ At(p, "read") /\ run[p].mode # "frozen"
    /\ lockfile.kind # "newer"
    /\ LET targets == ResolvePlatforms(run[p].oses, lockfile.names, run[p].conf)
       IN  Step(p, [run[p] EXCEPT !.pc = "discover", !.prev = lockfile,
                                  !.targets = targets])
    /\ UNCHANGED <<lockfile, guard>>

Discover(p) ==
    /\ At(p, "discover")
    /\ Discoverable(run[p].targets)
    /\ LET reusable == run[p].mode = "plain" /\ run[p].prev.kind = "lock"
       IN  Step(p, [run[p] EXCEPT !.pc = IF reusable THEN "reuse" ELSE "resolve",
                                  !.models = Discovered(run[p].targets)])
    /\ UNCHANGED <<lockfile, guard>>

(* check_frozen_local: models are discovered for every recorded target,    *)
(* and a changed one has them all resolved.                                *)
CheckFrozenLocal(p) ==
    /\ At(p, "read") /\ run[p].mode = "frozen"
    /\ lockfile.kind = "lock"
    /\ run[p].oses = {} => Host \in OsOf(lockfile.names)
    /\ lockfile.conf = run[p].conf
    /\ ~SystemFileDrift(lockfile.entries)
    /\ JdksOf[run[p].conf] # {} => HostJdk \in JdksOf[run[p].conf]
    /\ Discoverable(lockfile.names)
    /\ LET targets == ResolvePlatforms(run[p].oses, lockfile.names, run[p].conf)
           models == Discovered(lockfile.names)
           match == ModelsMatch(lockfile.entries, models)
       IN  /\ targets \subseteq lockfile.names
           /\ Step(p, [run[p] EXCEPT
                  !.pc = IF match THEN "reuse" ELSE "resolve",
                  !.prev = lockfile, !.models = models,
                  !.targets = IF match THEN targets ELSE lockfile.names])
    /\ UNCHANGED <<lockfile, guard>>

(* The lock is current and its artifacts are restored.                     *)
Reuse(p) ==
    /\ At(p, "reuse")
    /\ run[p].prev.conf = run[p].conf
    /\ run[p].targets \subseteq run[p].prev.names
    /\ ~SystemFileDrift(run[p].prev.entries)
    /\ ModelsMatch(run[p].prev.entries, run[p].models)
    /\ Step(p, [run[p] EXCEPT !.pc = "accepted"])
    /\ UNCHANGED <<lockfile, guard>>

(* The lock is not current, or a SNAPSHOT is due for a refresh, or an      *)
(* origin is one that nothing declares any more.                           *)
ReuseMiss(p) ==
    /\ At(p, "reuse")
    /\ Step(p, [run[p] EXCEPT !.pc = "resolve"])
    /\ UNCHANGED <<lockfile, guard>>

(* A frozen run resolves to the builds its lock pins; another one to any   *)
(* that the metadata cache or the repository has.                          *)
Builds(p) ==
    IF run[p].mode = "frozen" THEN {e.snap : e \in run[p].prev.entries}
    ELSE 1..remote.snap

Fresh(p, snap, rel) ==
    {[target |-> t, model |-> run[p].models[t.os], conf |-> run[p].conf,
      sys |-> project.sys, snap |-> snap[t], rel |-> rel[t]] :
        t \in run[p].targets}

(* Mutant: other bytes are not refused. *)
ResolveRepins(p) ==
    /\ At(p, "resolve")
    /\ \E snap \in [run[p].targets -> Builds(p)],
          rel \in [run[p].targets -> 1..remote.rel] :
          Step(p, [run[p] EXCEPT
              !.new = Fresh(p, snap, rel),
              !.pc = IF run[p].mode = "frozen" THEN "merge" ELSE "download"])
    /\ UNCHANGED <<lockfile, guard>>

(* Resolve every target and refuse other bytes for a locked release.       *)
Resolve(p) ==
    /\ At(p, "resolve")
    /\ \E snap \in [run[p].targets -> Builds(p)],
          rel \in [run[p].targets -> 1..remote.rel] :
          LET fresh == Fresh(p, snap, rel) IN
          /\ \/ run[p].mode = "update"
             \/ ~Repinned(run[p].prev.entries, fresh)
          /\ Step(p, [run[p] EXCEPT
                 !.new = fresh,
                 !.pc = IF run[p].mode = "frozen" THEN "merge" ELSE "download"])
    /\ UNCHANGED <<lockfile, guard>>

Download(p) ==
    /\ At(p, "download")
    /\ Step(p, [run[p] EXCEPT
           !.pc = IF run[p].mode = "frozen" THEN "accepted" ELSE "merge"])
    /\ UNCHANGED <<lockfile, guard>>

(* merge_previous, and for a frozen run the comparison with its lock.      *)
Merge(p) ==
    /\ At(p, "merge")
    /\ LET kept == PreservePlatforms(run[p].prev, run[p].new, run[p].conf)
           new == run[p].new \cup kept
       IN  /\ run[p].mode = "frozen" => NoDrift(run[p].prev, new, run[p].conf)
           /\ Step(p, [run[p] EXCEPT
                  !.new = new,
                  !.pc = IF run[p].mode = "frozen" THEN "download" ELSE "write"])
    /\ UNCHANGED <<lockfile, guard>>

Write(p) ==
    /\ At(p, "write")
    /\ Valid(run[p].new)
    /\ lockfile' = LockOf(run[p].conf, run[p].new)
    /\ Step(p, [run[p] EXCEPT !.pc = "written"])
    /\ UNCHANGED guard

(* The end of a run drops the guard, and so does the end of its process.   *)
End(p) ==
    /\ Step(p, Idle)
    /\ guard' = [d \in CacheDir |-> IF guard[d] = p THEN None ELSE guard[d]]
    /\ UNCHANGED lockfile
Finish(p) == run[p].pc \in {"accepted", "written"} /\ End(p)
Abort(p) == run[p].pc \notin {"idle", "accepted", "written"} /\ End(p)

---------------------------------------------------------------------------
(* The user, git and the repositories.                                     *)

Edit(new) ==
    /\ edits < MaxEdits
    /\ new # project
    /\ project' = new
    /\ edits' = edits + 1
    /\ run' = [p \in Proc |-> [run[p] EXCEPT !.quiet = FALSE]]
    /\ UNCHANGED <<lockfile, guard, remote, gits>>

EditModel(o) == \E m \in Model \cup {None} :
                    Edit([project EXCEPT !.model[o] = m])
EditConf == \E c \in Conf : Edit([project EXCEPT !.conf = c])
EditSystemFile == Edit([project EXCEPT !.sys = 1 - @])

PublishSnapshot ==
    /\ remote.snap < MaxSnap
    /\ remote' = [remote EXCEPT !.snap = @ + 1]
    /\ UNCHANGED <<lockfile, guard, run, project, edits, gits>>
PublishRelease ==
    /\ remote.rel < MaxRel
    /\ remote' = [remote EXCEPT !.rel = @ + 1]
    /\ UNCHANGED <<lockfile, guard, run, project, edits, gits>>

(* The targets named by the text of a merge conflict: those of both sides. *)
Conflicted(ours, theirs) ==
    ours \cup {[t EXCEPT !.os = o] : t \in ours, o \in theirs}

(* A merge conflict, or a lock that a newer raeva wrote. Nobody does this  *)
(* while a sync of the project runs.                                       *)
Git ==
    /\ edits < MaxEdits /\ gits < MaxGit
    /\ \A d \in CacheDir : guard[d] = None
    /\ \/ /\ lockfile.kind = "lock"
          /\ \E theirs \in SUBSET Os :
                lockfile' = NoLock("unreadable", Conflicted(lockfile.names, theirs))
       \/ lockfile' = NoLock("newer", {})
    /\ edits' = edits + 1 /\ gits' = gits + 1
    /\ UNCHANGED <<guard, run, project, remote>>

SyncStep(p) ==
    \/ Start(p) \/ AcquireGuard(p) \/ ReadLock(p) \/ Discover(p)
    \/ CheckFrozenLocal(p) \/ Reuse(p) \/ ReuseMiss(p) \/ Resolve(p)
    \/ Download(p) \/ Merge(p) \/ Write(p) \/ Finish(p) \/ Abort(p)

Next ==
    \/ \E p \in Proc : SyncStep(p)
    \/ \E o \in Os : EditModel(o)
    \/ EditConf \/ EditSystemFile
    \/ PublishSnapshot \/ PublishRelease
    \/ Git

Spec == Init /\ [][Next]_vars

---------------------------------------------------------------------------
(* Properties.                                                             *)

Pcs == {"idle", "guard", "read", "discover", "reuse", "resolve", "download",
        "merge", "write", "written", "accepted"}
Inside(p) == run[p].pc \notin {"idle", "guard"}

LockRecord == [kind : Kinds, conf : Conf \cup {None}, entries : SUBSET Entry,
               names : SUBSET Target]
RunRecord == [pc : Pcs, mode : Modes, oses : SUBSET Os, conf : Conf \cup {None},
              prev : LockRecord, targets : SUBSET Target,
              models : [Os -> Model \cup {None}], new : SUBSET Entry, quiet : BOOLEAN]

(* Types, and a process past the guard is the one that holds it.           *)
TypeOK ==
    /\ lockfile \in LockRecord
    /\ guard \in [CacheDir -> Proc \cup {None}]
    /\ run \in [Proc -> RunRecord]
    /\ \A p \in Proc : Inside(p) <=> guard[CacheOf[p]] = p
    /\ project \in [conf : Conf, model : [Os -> Model \cup {None}], sys : {0, 1}]
    /\ remote \in [snap : 1..MaxSnap, rel : 1..MaxRel]

Writes(p) == run[p].pc = "write" /\ run'[p].pc = "written"

(* A sync that no edit of the project disturbed drops a platform of the    *)
(* lock it replaces only for a reason preserve_platforms gives: another    *)
(* configuration, a changed model or system file, or a pin that conflicts  *)
(* with what it resolved. No concurrent sync's platform is lost            *)
(* (sync/mod.rs, the comment on the guard).                                *)
PlatformsKept ==
    \A p \in Proc : Writes(p) /\ lockfile.kind = "lock" /\ run[p].quiet =>
        \A e \in lockfile.entries :
           \/ e.target \in lockfile'.names
           \/ lockfile.conf # run[p].conf
           \/ e.sys # project.sys
           \/ e.model # project.model[e.target.os]
           \/ \E f \in lockfile'.entries : ConflictingPin(e, f)

(* Every entry was resolved under the configuration the lock claims for    *)
(* all of them (merge.rs, preservation).                                   *)
ConfHonest == \A e \in lockfile.entries : e.conf = lockfile.conf

(* What a run carries forward never makes the lock one it may not write:   *)
(* preservation's rules imply validate's (rv-lock merge.rs and lock.rs).   *)
MergeValid ==
    \A p \in Proc :
        At(p, "write") /\ Valid({e \in run[p].new : e.target \in run[p].targets})
            => Valid(run[p].new)

(* Only `sync --update` replaces a lock with one that pins other bytes for *)
(* a release (download.rs, check_repinned).                                *)
ReleasesPinned ==
    \A p \in Proc : Writes(p) /\ run[p].mode = "plain" =>
        ~Repinned(lockfile.entries, lockfile'.entries)

(* When a frozen run reports success, raeva.lock still is the lock it      *)
(* checked, and every platform it records, selected or not, has the graph  *)
(* that the models the run discovered resolve to.                          *)
FrozenReportsDisk ==
    \A p \in Proc : At(p, "accepted") /\ run[p].mode = "frozen" =>
        /\ lockfile = run[p].prev
        /\ lockfile.conf = run[p].conf
        /\ \A e \in lockfile.entries :
              Graph[e.model] = Graph[run[p].models[e.target.os]]

(* A lock just written by a sync that no edit disturbed is current for     *)
(* every platform it records: `sync --frozen` accepts it without resolving *)
(* and a second sync does not rewrite it.                                  *)
SyncThenFrozen ==
    \A p \in Proc : At(p, "written") /\ run[p].quiet =>
        /\ lockfile.conf = project.conf
        /\ ~SystemFileDrift(lockfile.entries)
        /\ Discoverable(lockfile.names)
        /\ ModelsMatch(lockfile.entries, project.model)
        /\ ResolvePlatforms(OsOf(lockfile.names), {}, project.conf)
              \subseteq lockfile.names

(* A sync without --platforms that replaces a raeva.lock it cannot read    *)
(* keeps the platforms the text names, and none replaces the lock of a     *)
(* newer raeva (sync/mod.rs, the match on on_disk).                        *)
UnusableKept ==
    \A p \in Proc : Writes(p) =>
        /\ lockfile.kind # "newer"
        /\ lockfile.kind = "unreadable" /\ run[p].oses = {} =>
              OsOf(lockfile.names) \subseteq OsOf(lockfile'.names)

(* What a sync that writes raeva.lock keeps of the one it replaces.        *)
LockKept == [][PlatformsKept /\ ReleasesPinned /\ UnusableKept]_vars

(* A run that reports success leaves a lock that is current.               *)
LockCurrent == FrozenReportsDisk /\ SyncThenFrozen
=============================================================================

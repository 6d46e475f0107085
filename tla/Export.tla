-------------------------------- MODULE Export --------------------------------
(***************************************************************************)
(* Exports into one Maven local repository (rv-export export.rs,           *)
(* metadata.rs, link.rs): what an export-m2 process does once its queue is *)
(* planned.  An export takes its turn at the destination lock, places its  *)
(* files with several blocking writers at once, and, when every file is in *)
(* place, writes the version lists, the snapshot listings and the          *)
(* _remote.repositories markers.  An interrupt drops the export's future   *)
(* while its blocking writers run on; a kill ends them; a power loss also  *)
(* loses what was never synced.  Maven, which takes no turn, writes into   *)
(* the repository at any time.                                             *)
(***************************************************************************)
EXTENDS Integers, FiniteSets

CONSTANTS
    Job,            \* the jobs: one ExportOptions and one planned queue per export
    Start,          \* what the local repository holds before
    Parallelism,    \* export_parallelism
    MaxFaults,      \* interrupts, kills, power losses, write failures, writes by Maven
    Nothing         \* no digest, no list

VARIABLES
    job,        \* export -> its job
    exp,        \* export -> [pc, todo, result]
    writer,     \* export -> file -> the blocking writer of its unit
    file,       \* path -> [kind, bytes]
    sidecar,    \* path -> [sha256, sha1]
    store,      \* blob -> the bytes its file in the store holds
    lists,      \* repository id -> the versions its maven-metadata lists
    builds,     \* repository id -> file key -> the build its listing names
    markers,    \* the <<path, id>> lines of _remote.repositories
    faults,     \* faults left
    touched,    \* export -> paths whose bytes Maven wrote since the export's writer looked
    lost,       \* paths a power loss hit
    split       \* export -> the <<path, .sha256>> beside which it found another's .sha1

exportVars == <<job, exp, writer, file, sidecar, store, lists, builds, markers,
                faults, touched, lost, split>>

Exports == DOMAIN exp
Paths == DOMAIN file
Ids == DOMAIN lists

Absent == [kind |-> "absent", bytes |-> Nothing]

\* The units of a job (ExportUnit): path -> [blob, ids, replace].
Units(e) == DOMAIN job[e].units
Blob(e, p) == job[e].units[p].blob

\* options.overwrite |= replace.
MayReplace(e, p) == job[e].overwrite \/ job[e].units[p].replace

Idle == [pc |-> "queued", absent |-> FALSE, staged |-> Absent, sha1 |-> Nothing]

-----------------------------------------------------------------------------
(* The destination lock                                                    *)

Writing(w) == w.pc \notin {"queued", "exported", "skipped", "failed", "dead"}

\* Mutant: only the export's own future holds the turn.
HoldsTurnItself(e) == exp[e].pc \in {"writing", "listing"}

\* Every blocking writer keeps the Arc of the lock file.
HoldsTurn(e) ==
    \/ exp[e].pc = "writing"
    \/ exp[e].todo # <<>>
    \/ \E p \in Units(e) : Writing(writer[e][p])

\* lock_destination: a dry run takes no turn and writes nothing.
TakeTurn(e) ==
    /\ exp[e].pc = "waiting"
    /\ \A o \in Exports : ~HoldsTurn(o)
    /\ exp' = [exp EXCEPT ![e].pc = "writing"]
    /\ touched' = [touched EXCEPT ![e] = {}]
    /\ split' = [split EXCEPT ![e] =
         {<<p, sidecar[p].sha256>> : p \in {q \in Paths : sidecar[q].sha1 \notin {Nothing, sidecar[q].sha256}}}]
    /\ UNCHANGED <<job, writer, file, sidecar, store, lists, builds, markers, faults, lost>>

\* A holder that keeps the lock past EXPORT_LOCK_TIMEOUT fails this export.
TurnTimedOut(e) ==
    /\ exp[e].pc = "waiting"
    /\ \E o \in Exports : HoldsTurn(o)
    /\ exp' = [exp EXCEPT ![e].pc = "failed", ![e].result = "timed out"]
    /\ UNCHANGED <<job, writer, file, sidecar, store, lists, builds, markers, faults,
                   touched, lost, split>>

DryRun(e) ==
    /\ exp[e].pc = "waiting"
    /\ job[e].dry
    /\ exp' = [exp EXCEPT ![e].pc = IF \E p \in Units(e) : store[Blob(e, p)] = Nothing
                                    THEN "failed" ELSE "dry",
                          ![e].result = IF \E p \in Units(e) : store[Blob(e, p)] = Nothing
                                        THEN "missing blob" ELSE "ok"]
    /\ UNCHANGED <<job, writer, file, sidecar, store, lists, builds, markers, faults,
                   touched, lost, split>>

-----------------------------------------------------------------------------
(* One file: export_artifact_blocking                                      *)

\* existing_file: what the destination holds.  A hard link to the store's file,
\* or a symbolic link to it, is "shared"; a file with another name, or a link
\* that leads elsewhere, is "foreign".
Existing(e, p) ==
    LET here == file[p] IN
    CASE here.kind = "absent" -> "absent"
      [] here.kind = "dangling" -> "replace"
      [] here.kind = "dir" -> "differs"
      [] here.kind = "shared" /\ here.bytes = Blob(e, p) ->
            IF job[e].link = "copy" THEN "replace"
            ELSE IF store[Blob(e, p)] = Blob(e, p) THEN "uptodate" ELSE "corrupt"
      [] OTHER ->
            IF (IF here.kind = "shared" THEN store[here.bytes] ELSE here.bytes) # Blob(e, p)
            THEN "differs"
            ELSE IF here.kind \in {"shared", "foreign"} THEN "replace" ELSE "uptodate"

\* exported_sha1, which spares hashing a file linked to an intact blob: where
\* the .sha256 on disk names the blob, any digest the .sha1 on disk holds is
\* taken for the file's.  Every other path hashes.
Sha1Of(e, p) ==
    IF file[p] = [kind |-> "shared", bytes |-> Blob(e, p)] /\ sidecar[p].sha256 = Blob(e, p)
          /\ sidecar[p].sha1 # Nothing
    THEN sidecar[p].sha1 ELSE Blob(e, p)

SetWriter(e, p, pc) == writer' = [writer EXCEPT ![e][p].pc = pc]

StartWriter(e, p) ==
    /\ exp[e].pc = "writing"
    /\ writer[e][p].pc = "queued"
    /\ Cardinality({q \in Units(e) : Writing(writer[e][q])}) < Parallelism
    /\ SetWriter(e, p, IF store[Blob(e, p)] = Nothing THEN "failed" ELSE "look")
    /\ touched' = [touched EXCEPT ![e] = @ \ {p}]
    /\ UNCHANGED <<job, exp, file, sidecar, store, lists, builds, markers, faults, lost, split>>

\* settle_existing: where the writer goes on from what it found.
Settle(e, p, existing) ==
    CASE existing = "uptodate" -> "fix256"
      [] existing = "corrupt" -> "failed"
      [] existing = "differs" /\ ~MayReplace(e, p) -> "failed"
      [] OTHER -> "stage"

\* The first look also hashes the blob it goes on to place (verify_and_hash).
Look(e, p) ==
    LET existing == Existing(e, p)
        next == Settle(e, p, existing)
    IN  /\ writer[e][p].pc = "look"
        /\ writer' = [writer EXCEPT
             ![e][p].pc = IF next = "stage" /\ store[Blob(e, p)] # Blob(e, p) THEN "failed" ELSE next,
             ![e][p].absent = existing = "absent",
             ![e][p].sha1 = IF next = "fix256" THEN Sha1Of(e, p) ELSE Blob(e, p)]
        /\ touched' = [touched EXCEPT ![e] = @ \ {p}]
        /\ UNCHANGED <<job, exp, file, sidecar, store, lists, builds, markers, faults, lost, split>>

\* link_with_fallback into a temporary name beside the destination: a link
\* where the volume allows one, else a copy.  A vanished blob fails the unit.
Stage(e, p) ==
    /\ writer[e][p].pc = "stage"
    /\ IF store[Blob(e, p)] = Nothing
       THEN SetWriter(e, p, "failed")
       ELSE \E linked \in {job[e].link # "copy", FALSE} :
              writer' = [writer EXCEPT
                ![e][p].pc = IF writer[e][p].absent THEN "relook" ELSE "sha256",
                ![e][p].staged = IF linked THEN [kind |-> "shared", bytes |-> Blob(e, p)]
                                 ELSE [kind |-> "plain", bytes |-> store[Blob(e, p)]]]
    /\ UNCHANGED <<job, exp, file, sidecar, store, lists, builds, markers, faults, touched, lost, split>>

\* A file that appeared while the link was staged is judged like one before.
Relook(e, p) ==
    LET next == Settle(e, p, Existing(e, p)) IN
    /\ writer[e][p].pc = "relook"
    /\ writer' = [writer EXCEPT ![e][p].pc = IF next = "stage" THEN "sha256" ELSE next,
                               ![e][p].sha1 = IF next = "fix256" THEN Sha1Of(e, p) ELSE @]
    /\ touched' = IF store[Blob(e, p)] = Blob(e, p) THEN [touched EXCEPT ![e] = @ \ {p}]
                  ELSE touched
    /\ UNCHANGED <<job, exp, file, sidecar, store, lists, builds, markers, faults, lost, split>>

\* ensure_sidecars repairs, or a new file's sidecars are published: first the
\* .sha256, then the .sha1.
WriteSidecar(e, p) ==
    /\ \/ /\ writer[e][p].pc \in {"fix256", "sha256"}
          /\ sidecar' = [sidecar EXCEPT ![p].sha256 = Blob(e, p)]
          /\ SetWriter(e, p, IF writer[e][p].pc = "fix256" THEN "fix1" ELSE "sha1")
       \/ /\ writer[e][p].pc \in {"fix1", "sha1"}
          /\ sidecar' = [sidecar EXCEPT ![p].sha1 = writer[e][p].sha1]
          /\ SetWriter(e, p, IF writer[e][p].pc = "fix1" THEN "skipped" ELSE "publish")
    /\ UNCHANGED <<job, exp, file, store, lists, builds, markers, faults, touched, lost, split>>

\* rename over the destination; a directory is only cleared away by an
\* overwriting export, and stops another one.
Publish(e, p) ==
    /\ writer[e][p].pc = "publish"
    /\ IF file[p].kind = "dir" /\ ~MayReplace(e, p)
       THEN SetWriter(e, p, "failed") /\ UNCHANGED file
       ELSE /\ SetWriter(e, p, "exported")
            /\ file' = [file EXCEPT ![p] = writer[e][p].staged]
    /\ UNCHANGED <<job, exp, sidecar, store, lists, builds, markers, faults, touched, lost, split>>

WriterStep(e, p) ==
    \/ Look(e, p) \/ Stage(e, p) \/ Relook(e, p) \/ WriteSidecar(e, p) \/ Publish(e, p)

-----------------------------------------------------------------------------
(* The listings and the markers: write_metadata_blocking, write_all        *)

\* Every unit has run, and none failed.
AllPlaced(e) == \A p \in Units(e) : writer[e][p].pc \in {"exported", "skipped"}

\* The ids whose listings name something of the job.
Listed(e) == {id \in Ids : job[e].lists[id] # {}}
ListedBuilds(e) == {id \in Ids : DOMAIN job[e].builds[id] # {}}

\* empty_list_ids: query ids and local, none in the shared repository.
EmptyIds(e) == IF job[e].shared THEN {} ELSE job[e].query \cup {"local"}

\* The file keys any listing of the job names, or the base POM it reads.
ExportedKeys(e) ==
    UNION {DOMAIN job[e].builds[id] : id \in Ids} \cup (IF job[e].pomBase THEN {"pom"} ELSE {})

\* merge_snapshot_entries: an earlier run's entries stay for other files of the
\* builds this export names.
MergedBuilds(e, id) ==
    LET ours == job[e].builds[id]
        old == IF builds[id] = Nothing THEN << >> ELSE builds[id]
        kept == {k \in DOMAIN old \ ExportedKeys(e) : \E o \in DOMAIN ours : ours[o] = old[k]}
    IN  [k \in DOMAIN ours \cup kept |-> IF k \in DOMAIN ours THEN ours[k] ELSE old[k]]

\* write_snapshot_metadata_blocking for each id with a build, then, in the main
\* pass into a repository of its own, remove_version_metadata and
\* write_empty_lists.  A version read by its plain -SNAPSHOT file loses the
\* listings of earlier runs.
WriteBuilds(e) ==
    builds' = [id \in Ids |->
        IF id \in ListedBuilds(e) THEN MergedBuilds(e, id)
        ELSE IF job[e].shared THEN builds[id]
        ELSE IF ListedBuilds(e) # {}
             THEN IF ~job[e].main THEN builds[id]
                  ELSE IF id \in EmptyIds(e) THEN << >> ELSE Nothing
        ELSE IF ~job[e].plain THEN builds[id]
        ELSE IF id \in EmptyIds(e) THEN IF job[e].main THEN << >> ELSE builds[id]
        ELSE Nothing]

\* write_artifact_metadata_blocking: only for an artifact the job lists.
WriteLists(e) ==
    lists' = IF Listed(e) = {} THEN lists
             ELSE [id \in Ids |->
                IF id \in Listed(e)
                THEN job[e].lists[id] \cup (IF job[e].shared /\ lists[id] # Nothing THEN lists[id] ELSE {})
                ELSE IF job[e].shared THEN lists[id]
                ELSE IF id \in EmptyIds(e) THEN {}
                ELSE Nothing]

\* RemoteRepositoriesAccumulator::write_all merges with the lines on disk.
WriteMarkers(e) ==
    markers' = markers \cup {m \in Units(e) \X Ids : m[2] \in job[e].units[m[1]].ids}

Collect(e) ==
    /\ exp[e].pc = "writing"
    /\ \A p \in Units(e) : writer[e][p].pc \in {"exported", "skipped", "failed"}
    /\ exp' = IF AllPlaced(e)
              THEN [exp EXCEPT ![e].pc = "listing", ![e].todo = <<"builds", "lists", "markers">>]
              ELSE [exp EXCEPT ![e].pc = "failed", ![e].result = "failed unit"]
    /\ UNCHANGED <<job, writer, file, sidecar, store, lists, builds, markers, faults,
                   touched, lost, split>>

\* One part of the blocking hop.  It runs on when the future has been dropped.
ListingStep(e) ==
    /\ exp[e].todo # <<>>
    /\ LET part == exp[e].todo[1] IN
         /\ IF part = "builds" THEN WriteBuilds(e) ELSE UNCHANGED builds
         /\ IF part = "lists" THEN WriteLists(e) ELSE UNCHANGED lists
         /\ IF part = "markers" THEN WriteMarkers(e) ELSE UNCHANGED markers
         /\ exp' = [exp EXCEPT
              ![e].todo = CASE part = "builds" -> <<"lists", "markers">>
                            [] part = "lists" -> <<"markers">>
                            [] OTHER -> <<>>,
              ![e].pc = IF part = "markers" /\ exp[e].pc = "listing" THEN "done" ELSE @,
              ![e].result = IF part = "markers" /\ exp[e].pc = "listing" THEN "ok" ELSE @]
    /\ UNCHANGED <<job, writer, file, sidecar, store, faults, touched, lost, split>>

-----------------------------------------------------------------------------
(* Faults and Maven                                                        *)

\* An interrupt drops the future: no unit starts any more, started ones run on.
Interrupt(e) ==
    /\ faults > 0
    /\ exp[e].pc \in {"waiting", "writing", "listing"}
    /\ exp' = [exp EXCEPT ![e].pc = "dropped", ![e].result = "interrupted"]
    /\ faults' = faults - 1
    /\ UNCHANGED <<job, writer, file, sidecar, store, lists, builds, markers, touched, lost, split>>

Dead(e) ==
    [p \in Units(e) |-> IF Writing(writer[e][p]) THEN [writer[e][p] EXCEPT !.pc = "dead"]
                        ELSE writer[e][p]]

\* The process ends, its blocking writers with it: the operating system drops
\* the lock.
KillExport(e) ==
    /\ faults > 0
    /\ HoldsTurn(e)
    /\ exp' = [exp EXCEPT ![e].pc = "killed", ![e].result = "killed", ![e].todo = <<>>]
    /\ writer' = [writer EXCEPT ![e] = Dead(e)]
    /\ faults' = faults - 1
    /\ UNCHANGED <<job, file, sidecar, store, lists, builds, markers, touched, lost, split>>

\* Nothing is synced: what was written may be torn or lost.
PowerLoss(p) ==
    /\ faults > 0
    /\ \E e \in Exports : HoldsTurn(e) \/ exp[e].pc = "done"
    /\ exp' = [e \in Exports |-> IF HoldsTurn(e)
                                 THEN [exp[e] EXCEPT !.pc = "killed", !.result = "killed", !.todo = <<>>]
                                 ELSE exp[e]]
    /\ writer' = [e \in Exports |-> Dead(e)]
    /\ file' = [file EXCEPT ![p] = IF @.kind = "plain" THEN [@ EXCEPT !.bytes = "torn"] ELSE @]
    /\ \E gone256, gone1 \in BOOLEAN :
         sidecar' = [sidecar EXCEPT ![p] = [sha256 |-> IF gone256 THEN Nothing ELSE @.sha256,
                                            sha1 |-> IF gone1 THEN Nothing ELSE @.sha1]]
    /\ markers' \in {markers, {}}
    /\ lost' = lost \cup {p}
    /\ faults' = faults - 1
    /\ UNCHANGED <<job, store, lists, builds, touched, split>>

\* A full disk, a refused rename: the writer fails and drops its temporary file.
WriteFails(e, p) ==
    /\ faults > 0
    /\ Writing(writer[e][p])
    /\ SetWriter(e, p, "failed")
    /\ faults' = faults - 1
    /\ UNCHANGED <<job, exp, file, sidecar, store, lists, builds, markers, touched, lost, split>>

\* The paths a write through a link to the store's file changes, and those
\* whose blob it is.
Linked(e, p) == {q \in Paths : file[q] = file[p]} \cup {q \in Units(e) : Blob(e, q) = file[p].bytes}

\* Maven downloads a file anew (with its .sha1, never a .sha256), or a plugin
\* rewrites one in place: through a link it is the store's file that changes.
MavenWrites(p) ==
    /\ faults > 0
    /\ faults' = faults - 1
    /\ \/ /\ file' = [file EXCEPT ![p] = [kind |-> "plain", bytes |-> "other"]]
          /\ sidecar' = [sidecar EXCEPT ![p] = [sha256 |-> Nothing, sha1 |-> "other"]]
          /\ touched' = [e \in Exports |-> touched[e] \cup {p}]
          /\ UNCHANGED store
       \/ /\ file[p].kind = "shared"
          /\ store' = [store EXCEPT ![file[p].bytes] = "other"]
          /\ touched' = [e \in Exports |-> touched[e] \cup Linked(e, p)]
          /\ UNCHANGED <<file, sidecar>>
    /\ UNCHANGED <<job, exp, writer, lists, builds, markers, lost, split>>

-----------------------------------------------------------------------------

ExportInit ==
    \E jobs \in Job, start \in Start :
        /\ job = jobs
        /\ exp = [e \in DOMAIN jobs |-> [pc |-> "waiting", todo |-> <<>>, result |-> Nothing]]
        /\ writer = [e \in DOMAIN jobs |-> [p \in DOMAIN jobs[e].units |-> Idle]]
        /\ file = start.file /\ sidecar = start.sidecar /\ store = start.store
        /\ lists = start.lists /\ builds = start.builds /\ markers = start.markers
        /\ faults = MaxFaults
        /\ touched = [e \in DOMAIN jobs |-> {}] /\ split = touched /\ lost = {}

ExportStep(e) ==
    \/ IF job[e].dry THEN DryRun(e) ELSE TakeTurn(e) \/ TurnTimedOut(e)
    \/ \E p \in Units(e) : StartWriter(e, p) \/ WriterStep(e, p)
    \/ Collect(e) \/ ListingStep(e)

ExportNext ==
    \/ \E e \in Exports : ExportStep(e) \/ Interrupt(e) \/ KillExport(e)
    \/ \E e \in Exports : \E p \in Units(e) : WriteFails(e, p)
    \/ \E p \in Paths : PowerLoss(p) \/ MavenWrites(p)

-----------------------------------------------------------------------------
(* Properties                                                              *)

Content(p) == IF file[p].kind = "shared" THEN store[file[p].bytes] ELSE file[p].bytes

\* What an export that reports success leaves (export.rs 503-893), where Maven
\* wrote nothing since its writers looked: every file holds the bytes of its
\* blob under its sidecars and its markers, whatever earlier, interrupted or
\* concurrent exports left there.  The exception is a .sha1 of other bytes that
\* an export stopped between its two sidecars left beside the .sha256 of this
\* blob: exported_sha1 (2482-2492) trusts it, for ever, against "Repairs missing
\* or stale sidecars" (2691-2692).  In a repository of its own no listing names a
\* version or a build beyond the locked ones, so `mvn -o` resolves what
\* raeva.lock pins; and in the shared one each listing still names what it did.
ExportedAsLocked ==
    \A e \in Exports : (exp[e].pc # "done" /\ exp'[e].pc = "done") =>
        /\ \A p \in Units(e) : p \notin touched[e] =>
              /\ Content(p) = Blob(e, p)
              /\ file[p].kind # "foreign"
              /\ sidecar[p].sha256 = Blob(e, p)
              /\ sidecar[p].sha1 = Blob(e, p) \/ <<p, Blob(e, p)>> \in split[e]
              /\ \A id \in job[e].units[p].ids : <<p, id>> \in markers'
        /\ (~job[e].shared /\ job[e].main) =>
              /\ Listed(e) # {} => \A id \in Ids : lists[id] # Nothing => lists[id] = job[e].lists[id]
              /\ (ListedBuilds(e) # {} \/ job[e].plain) =>
                    \A id \in Ids : builds[id] # Nothing =>
                        \A k \in DOMAIN builds[id] :
                            \E i \in Ids : \E o \in DOMAIN job[e].builds[i] :
                                builds[id][k] = job[e].builds[i][o]

\* Exports to one local repository take turns and each judges the files it finds
\* (export.rs 776-786): without --overwrite, no step of an export, a writer
\* running on after an interrupt included, replaces a file of other bytes that it
\* could have seen, and no marker or, in the shared repository, version goes.
OthersKept ==
    /\ \A e \in Exports : \A p \in Units(e) :
          (writer[e][p].pc = "publish" /\ writer'[e][p].pc = "exported" /\ p \notin touched[e])
          => MayReplace(e, p) \/ Existing(e, p) \in {"absent", "replace"}
    /\ faults' = faults => markers \subseteq markers'
    /\ (\A e \in Exports : job[e].shared) =>
          \A id \in Ids : lists[id] # Nothing => lists[id] \subseteq lists'[id]

\* "Publish the sidecars before the artifact, so a crash never leaves a new
\* artifact visible without its checksums next to it" (export.rs 2602-2603): a
\* step of an export that changes a file is its turn's holder's, and finds both
\* sidecars naming the bytes it puts there, where Maven wrote nothing since.
ChecksumsFirst ==
    \A p \in Paths : (faults' = faults /\ file'[p] # file[p]) =>
        \E e \in Exports :
            /\ HoldsTurn(e) /\ p \in Units(e)
            /\ p \notin touched[e] =>
                 /\ Content(p)' = Blob(e, p)
                 /\ sidecar[p] = [sha256 |-> Blob(e, p), sha1 |-> Blob(e, p)]

\* At every moment, kills, interrupts and failures included, a file an export
\* published has both its sidecars; they name its bytes where no other export has
\* the path.
PublishedWithChecksums ==
    \A e \in Exports : \A p \in Units(e) \ (touched[e] \cup lost) :
        writer[e][p].pc = "exported" =>
           /\ sidecar[p].sha256 # Nothing /\ sidecar[p].sha1 # Nothing
           /\ (\A o \in Exports \ {e} : p \notin Units(o))
              => sidecar[p] = [sha256 |-> Blob(e, p), sha1 |-> Blob(e, p)]

\* Every step of every export, of its writers and of a kill keeps the above.
ExportsHold ==
    [][ExportedAsLocked /\ OthersKept /\ ChecksumsFirst /\ PublishedWithChecksums']_exportVars

\* Every export ends: it finishes, fails, times out at the lock, or is stopped.
\* No writer that an interrupt left behind holds the repository for ever.
ExportsEnd ==
    \A e \in 1..2 : <>(e \in Exports => exp[e].pc \in {"done", "dry", "failed", "dropped", "killed"}
                                        /\ ~HoldsTurn(e))
===============================================================================

------------------------------- MODULE Restore -------------------------------
(***************************************************************************)
(* The restore of a lockfile's pinned files into the store, as             *)
(* rv-repo/src/restore.rs runs it: the rows and their POMs, concurrently   *)
(* and deduplicated by key; the support POMs beside them or after them;    *)
(* the search of the repositories a context may ask; the loop that         *)
(* recovers rows whose files another search stored; the index rows and the *)
(* cached POMs an offline resolution reads later; and the second pass      *)
(* after a damaged index was recreated.                                    *)
(*                                                                         *)
(* A repository is one model value, its URL and its id in one.  A context  *)
(* reaches it at its own URL or through a mirror (Via).                    *)
(***************************************************************************)
EXTENDS Naturals, Sequences, SequencesExt, FiniteSets

CONSTANTS
    Lock,         \* the lockfiles, contexts and stores to start from
    Concurrency,  \* fetch_concurrency
    NoBlob, NoFile

VARIABLES
    lock,      \* the lockfile, the contexts, the answers, the first store
    disk,      \* the content store: absent, intact or corrupt, by blob
    index,     \* the blob each coordinate is indexed under
    served,    \* the index's record of which repository served which bytes
    origins,   \* the origins the index records for offline resolution
    cached,    \* the POMs the metadata cache holds, by repository
    dedup,     \* FetchDedupMap: the cell of each file, 0 when there is none
    cells,     \* every OnceCell made: empty, busy or full
    task,      \* the restore of each file, POM and support POM
    result,    \* DownloadResult of each row and of each support POM
    pass,      \* where restore_pass is, and what the run met
    queue      \* the POMs still to be cached for their routes

restoreVars == <<lock, disk, index, served, origins, cached, dedup, cells,
                 task, result, pass, queue>>

Rows == DOMAIN lock.rows
Supports == DOMAIN lock.support
FileOf(i) == <<"file", i>>
PomOf(i) == <<"pom", i>>
SupportOf(j) == <<"support", j>>
Tasks == {FileOf(i) : i \in Rows} \cup {PomOf(i) : i \in Rows}
            \cup {SupportOf(j) : j \in Supports}

\* What a task restores: its key, its pin, whether the pin is a SHA-256, and
\* its owners, each a context and the origin recorded for it there.
Wanted(t) ==
    LET r == lock.rows[t[2]]
        Owned(from) == [n \in DOMAIN from |-> [ctx |-> r.ctx, repo |-> from[n]]]
    IN CASE t[1] = "file" -> [key |-> r.file, pin |-> r.pin, sha256 |-> r.sha256,
                              owners |-> Owned(r.from)]
         [] t[1] = "pom" -> [key |-> r.pom, pin |-> r.pomPin, sha256 |-> TRUE,
                             owners |-> Owned(r.pomFrom)]
         [] OTHER -> [sha256 |-> TRUE] @@ lock.support[t[2]]

Recorded(t) == {o.repo : o \in ToSet(Wanted(t).owners)}
HasPom(i) == lock.rows[i].pom # NoFile
IsPom(key) == key \in lock.poms

-----------------------------------------------------------------------------
(* Which repositories a context may ask                                    *)

Once(s) == FoldLeft(LAMBDA done, o : IF o \in ToSet(done) THEN done
                                     ELSE Append(done, o), <<>>, s)

\* Configured, then trusted, repositories, one per id and URL; plain HTTP
\* that only a POM declares is blocked.
Known(c) == ToSet(lock.ctx[c].config) \cup (ToSet(lock.ctx[c].trusted) \ lock.ctx[c].blocked)
UniqueRepositories(c, Kept) ==
    Once(SelectSeq(lock.ctx[c].config \o lock.ctx[c].trusted,
                   LAMBDA o : o \in Known(c) /\ o \in Kept))

\* LockRepositorySelector::select: what a recorded origin names now.
Select(c, origin) ==
    CASE origin \in lock.ctx[c].ambiguous -> "ambiguous"
      [] origin \in Known(c) \ lock.ctx[c].ambiguous -> "declared"
      [] OTHER -> "undeclared"

\* The URL a context's client asks for a repository.
Via(c, o) == IF o \in lock.ctx[c].mirrored THEN "mirror" ELSE "own"

\* pinned_candidates: the recorded repository, then for a SHA-256 pin every
\* other one whose policy allows the version; none when the recorded origin
\* is not declared now.
PinnedCandidates(c, origin, sha256) ==
    CASE Select(c, origin) = "declared" ->
            <<origin>> \o (IF sha256
                           THEN UniqueRepositories(c, Known(c) \ ({origin} \cup lock.ctx[c].disabled))
                           ELSE <<>>)
      [] OTHER -> <<>>

\* The requests of fetch_pinned in order; an ambiguous origin is an error
\* when its turn comes.
Asks(t) ==
    LET w == Wanted(t)
        Of(o) == IF Select(o.ctx, o.repo) = "ambiguous"
                 THEN <<[ctx |-> o.ctx, repo |-> "ambiguous", recorded |-> TRUE]>>
                 ELSE LET c == PinnedCandidates(o.ctx, o.repo, w.sha256)
                      IN [n \in DOMAIN c |-> [ctx |-> o.ctx, repo |-> c[n], recorded |-> n = 1]]
    IN FlattenSeq([n \in DOMAIN w.owners |-> Of(w.owners[n])])

Declared(t) == Asks(t) # <<>>

-----------------------------------------------------------------------------
(* Whether the store's copy stands in                                      *)

\* pinned_files: every origin any row of the lock records for a file.
LockWide(key, pin) ==
    UNION {Recorded(t) : t \in {u \in Tasks :
              Wanted(u).key = key /\ Wanted(u).pin = pin}}

\* admits: bytes that a recorded repository served directly, or through the
\* route this context has to it, or that a repository the search would ask
\* served at the endpoint it uses.
Admits(t, records) ==
    LET w == Wanted(t)
        recorded == LockWide(w.key, w.pin)
    IN \E s \in records, o \in ToSet(w.owners) :
          /\ s.key = w.key /\ s.blob = w.pin
          /\ \/ s.via = "own" /\ s.repo \in recorded
             \/ /\ s.repo \in (Known(o.ctx) \cap recorded)
                               \cup ToSet(PinnedCandidates(o.ctx, o.repo, w.sha256))
                /\ s.via = Via(o.ctx, s.repo)

\* Mutant: a blob that is there is taken as it is.
StoredThere(t) ==
    LET w == Wanted(t)
    IN /\ w.sha256 \/ index[w.key] = w.pin
       /\ disk[w.pin] # "absent"
       /\ Admits(t, served)

\* stored_intact: the blob the pin names, or for a SHA-1 pin the indexed one,
\* hashes to the pin and is admitted.
StoredIntact(t) ==
    LET w == Wanted(t)
    IN /\ w.sha256 \/ index[w.key] = w.pin
       /\ disk[w.pin] = "intact"
       /\ Admits(t, served)

\* all_stored, over the files whose origins Include accepts.
AllStored(c, Include(_)) ==
    \A t \in Tasks :
        /\ Wanted(t).key # NoFile
        /\ \E o \in ToSet(Wanted(t).owners) : o.ctx = c /\ Include(o.repo)
        => StoredIntact(t)

\* restore_needs_discovery: a file is missing that no declaration names.
RestoreNeedsDiscovery ==
    \E c \in DOMAIN lock.ctx : ~AllStored(c, LAMBDA o : Select(c, o) = "undeclared")

RestoreComplete(c) == AllStored(c, LAMBDA o : TRUE)

\* count_missing: the files the store lacks, and those of them whose bytes it
\* holds from a repository no row or context allows.  Each is a stat.
CountMissing ==
    LET files == {t \in Tasks : Wanted(t).key # NoFile}
        present(t) == disk[Wanted(t).pin] # "absent"
                        /\ (Wanted(t).sha256 \/ index[Wanted(t).key] # NoBlob)
        key(t) == <<Wanted(t).key, Wanted(t).pin>>
        admitted(t) == present(t) /\ \E u \in files : key(u) = key(t) /\ Admits(u, served)
    IN [missing |-> Cardinality({key(t) : t \in {u \in files : ~admitted(u)}}),
        unserved |-> Cardinality({key(t) : t \in {u \in files : present(u) /\ ~admitted(u)}}),
        total |-> Cardinality({key(t) : t \in files})]

-----------------------------------------------------------------------------
(* One pass                                                                *)

Fresh == [pc |-> "idle", cell |-> 0, todo |-> <<>>, recorded |-> "none",
          failure |-> "none", refusal |-> "none", heard |-> {}, searches |-> 0, seeded |-> 0]

\* How many restores each blob serves.
Uses(b) == Cardinality({t \in Tasks : t[1] # "support" /\ Wanted(t).key # NoFile
                                        /\ Wanted(t).sha256 /\ Wanted(t).pin = b})
             + Cardinality({j \in Supports : lock.support[j].pin = b})

UnknownBlob == \E i \in Rows : ~lock.rows[i].sha256

\* A row's POM downloads beside its artifact only when the POM serves nothing
\* else, is not the artifact itself and no SNAPSHOT build hangs on it.
Alongside(i) ==
    /\ ~UnknownBlob
    /\ HasPom(i) /\ Uses(lock.rows[i].pomPin) = 1
    /\ lock.rows[i].file # lock.rows[i].pom
    /\ ~lock.rows[i].snapshot

\* The support POMs that wait for the packages.
Later(j) ==
    \/ UnknownBlob
    \/ disk[lock.support[j].pin] # "absent"
    \/ Uses(lock.support[j].pin) > 1
    \/ lock.support[j].snapshot

NewPass(n) ==
    [n |-> n, phase |-> "run", split |-> FALSE, later |-> {}, asked |-> {},
     fetchPom |-> FALSE, at |-> 1, busy |-> FALSE, recovered |-> FALSE]

RestoreInit ==
    /\ lock \in Lock
    /\ disk = lock.disk /\ index = lock.index /\ served = lock.served
    /\ origins = {} /\ cached = {}
    /\ dedup = [f \in DOMAIN lock.index |-> 0] /\ cells = <<>>
    /\ task = [t \in Tasks |-> Fresh]
    /\ result = [t \in Tasks |-> "none"]
    /\ pass = NewPass(1) @@ [recreated |-> 0, removed |-> {}, before |-> 0]
    /\ queue = <<>>

Set(t, r) == [task EXCEPT ![t] = r @@ @]

\* ensure_package_artifacts, after its file: its POM begins, unless it began
\* beside the file; without one the row ends as the file did.
AfterFile(t, r, tasks) ==
    LET i == t[2] IN
    IF t[1] = "file" /\ r = "ok" /\ HasPom(i) /\ tasks[PomOf(i)].pc = "idle"
    THEN [tasks EXCEPT ![PomOf(i)].pc = "check"]
    ELSE tasks

\* The end of a restore.  The failing caller of restore_once frees the cell
\* for a caller that waits in it and drops the key's entry.
Finish(t, r, fields) ==
    /\ task' = AfterFile(t, r, Set(t, [pc |-> "done"] @@ fields))
    /\ result' = [result EXCEPT ![t] = r]
    /\ pass' = IF t[1] = "file" /\ r = "ok" /\ HasPom(t[2]) /\ pass.phase = "run"
               THEN [pass EXCEPT !.asked = @ \cup {t[2]}] ELSE pass
    /\ IF task[t].cell = 0 THEN UNCHANGED <<dedup, cells>>
       ELSE /\ cells' = [cells EXCEPT ![task[t].cell] =
                            IF r = "ok" THEN "full" ELSE "empty"]
            /\ dedup' = IF r = "ok" THEN dedup
                        ELSE [dedup EXCEPT ![Wanted(t).key] = 0]

RowBusy(i) ==
    \/ task[FileOf(i)].pc \notin {"idle", "done"}
    \/ task[PomOf(i)].pc \notin {"idle", "done"}
RowBegun(i) == task[FileOf(i)].pc # "idle"
SupportBusy(j) == task[SupportOf(j)].pc \notin {"idle", "done"}

\* in_order: the rows begin in order, Concurrency at a time.
BeginRow(i) ==
    /\ pass.phase = "run"
    /\ ~RowBegun(i) /\ \A k \in 1..(i - 1) : RowBegun(k)
    /\ Cardinality({k \in Rows : RowBusy(k)}) < Concurrency
    /\ task' = Set(FileOf(i), [pc |-> "check"])
    /\ UNCHANGED <<lock, disk, index, served, origins, cached, dedup, cells,
                   result, pass, queue>>

\* The support POMs the store lacks are told apart once, while rows restore.
Split ==
    /\ pass.phase = "run" /\ ~pass.split
    /\ pass' = [pass EXCEPT !.split = TRUE, !.later = {j \in Supports : Later(j)}]
    /\ UNCHANGED <<lock, disk, index, served, origins, cached, dedup, cells,
                   task, result, queue>>

BeginSupport(j) ==
    /\ IF pass.phase = "run" THEN pass.split /\ j \notin pass.later
       ELSE pass.phase = "later" /\ j \in pass.later
    /\ task[SupportOf(j)].pc = "idle"
    /\ Cardinality({k \in Supports : SupportBusy(k)}) < Concurrency
    /\ task' = Set(SupportOf(j), [pc |-> "check"])
    /\ UNCHANGED <<lock, disk, index, served, origins, cached, dedup, cells,
                   result, pass, queue>>

\* A row whose file must be downloaded starts its POM beside it.
Beside(t, tasks) ==
    LET i == t[2] IN
    IF t[1] = "file" /\ pass.phase = "run" /\ Alongside(i)
    THEN [tasks EXCEPT ![PomOf(i)].pc = "check"]
    ELSE tasks

Asking(t) ==
    IF t[1] = "file" /\ pass.phase = "run" /\ Alongside(t[2])
    THEN [pass EXCEPT !.asked = @ \cup {t[2]}] ELSE pass

\* Where a file that must be downloaded goes: a row's key to its cell, a
\* support POM straight to the search.
ToSearch(t) ==
    task' = Beside(t, IF t[1] = "support"
                      THEN Set(t, [pc |-> "ask", todo |-> Asks(t), searches |-> 1])
                      ELSE Set(t, [pc |-> "join"]))

\* needs_download with verify_pin: the stored copy is hashed and must be
\* admitted; a SHA-256 pin that the index does not name yet is adopted.
NeedsDownload(t) ==
    /\ task[t].pc = "check"
    /\ IF ~StoredIntact(t)
       THEN /\ ToSearch(t) /\ pass' = Asking(t)
            /\ UNCHANGED <<result, dedup, cells>>
       ELSE IF Wanted(t).sha256 /\ index[Wanted(t).key] # Wanted(t).pin
       THEN /\ task' = Set(t, [pc |-> "adopt"])
            /\ UNCHANGED <<result, dedup, cells, pass>>
       ELSE IF t[1] = "support"
       THEN /\ task' = Set(t, [pc |-> "seed"])
            /\ UNCHANGED <<result, dedup, cells, pass>>
       ELSE Finish(t, "ok", <<>>)
    /\ UNCHANGED <<lock, disk, index, served, origins, cached, queue>>

\* adopt_pinned_blob points the key at the blob, then looks once more whether
\* the blob is there.
AdoptPinnedBlob(t) ==
    /\ task[t].pc = "adopt"
    /\ index' = [index EXCEPT ![Wanted(t).key] = Wanted(t).pin]
    /\ task' = Set(t, [pc |-> "adopted"])
    /\ UNCHANGED <<lock, disk, served, origins, cached, dedup, cells, result,
                   pass, queue>>

Adopted(t) ==
    /\ task[t].pc = "adopted"
    /\ IF disk[Wanted(t).pin] = "absent"
       THEN /\ ToSearch(t) /\ pass' = Asking(t)
            /\ UNCHANGED <<result, dedup, cells>>
       ELSE IF t[1] = "support"
       THEN /\ task' = Set(t, [pc |-> "seed"])
            /\ UNCHANGED <<result, dedup, cells, pass>>
       ELSE Finish(t, "ok", <<>>)
    /\ UNCHANGED <<lock, disk, index, served, origins, cached, queue>>

-----------------------------------------------------------------------------
(* The search                                                              *)

\* restore_once: the key's cell, made when the map has none.
RestoreOnce(t) ==
    /\ task[t].pc = "join"
    /\ LET key == Wanted(t).key IN
       IF dedup[key] # 0
       THEN /\ task' = Set(t, [pc |-> "cell", cell |-> dedup[key]])
            /\ UNCHANGED <<dedup, cells>>
       ELSE /\ cells' = Append(cells, "empty")
            /\ dedup' = [dedup EXCEPT ![key] = Len(cells) + 1]
            /\ task' = Set(t, [pc |-> "cell", cell |-> Len(cells) + 1])
    /\ UNCHANGED <<lock, disk, index, served, origins, cached, result, pass, queue>>

\* get_or_try_init: a full cell answers; an empty one is filled by this
\* caller's own search; a busy one is waited for.
CellTurn(t) ==
    /\ task[t].pc = "cell"
    /\ \/ /\ cells[task[t].cell] = "full"
          /\ Finish(t, "ok", <<>>)
       \/ /\ cells[task[t].cell] = "empty"
          /\ cells' = [cells EXCEPT ![task[t].cell] = "busy"]
          /\ task' = Set(t, [pc |-> "ask", todo |-> Asks(t),
                             searches |-> task[t].searches + 1])
          /\ UNCHANGED <<dedup, result, pass>>
    /\ UNCHANGED <<lock, disk, index, served, origins, cached, queue>>

\* The class of one download's answer, checked against the pin.
ArtifactOutcome(pin, a) ==
    IF a = pin THEN "ok" ELSE IF a \in DOMAIN disk \cup {"sidecar"} THEN "mismatch" ELSE a

\* fetch_from: a POM goes through the client's POM read first.  An error that
\* is neither a miss nor transient asks once more as a file, and only other
\* or pinned bytes replace the first error.
FetchFrom(key, pin, a, b) ==
    IF ~IsPom(key) \/ a \in DOMAIN disk \/ a \in {"missing", "transient"}
    THEN ArtifactOutcome(pin, a)
    ELSE IF ArtifactOutcome(pin, b) \in {"ok", "mismatch"} THEN ArtifactOutcome(pin, b)
    ELSE ArtifactOutcome(pin, a)

EndsSearch == {"mismatch", "nochecksum", "transient"}

\* PinnedSearch::keep: one recorded origin's miss gives way to another's
\* refusal; of the others a refusal is kept apart from a failure.
Keep(s, recorded, err) ==
    CASE recorded /\ (s.recorded = "none" \/ (s.recorded = "missing" /\ err # "missing")) ->
            [s EXCEPT !.recorded = err]
      [] ~recorded /\ err = "refused" -> [s EXCEPT !.refusal = err]
      [] ~recorded /\ err # "refused" /\ (err # "missing" \/ s.failure = "none") ->
            [s EXCEPT !.failure = err]
      [] OTHER -> s

\* PinnedSearch::finish: the recorded origin's answer, then a failure, then
\* the origin being undeclared, then the refusal or the miss.
FinishSearch(s, declared) ==
    IF s.recorded # "none" THEN s.recorded
    ELSE IF s.failure \notin {"none", "missing"} THEN s.failure
    ELSE IF ~declared THEN "undeclared"
    ELSE IF s.refusal # "none" THEN s.refusal
    ELSE "missing"

\* The bytes of a search that succeeds are stored, indexed and recorded as
\* served; those of a POM read are in the metadata cache too.
Store(w, c, repo, read) ==
    /\ disk' = [disk EXCEPT ![w.pin] = "intact"]
    /\ index' = [index EXCEPT ![w.key] = w.pin]
    /\ served' = served \cup {[key |-> w.key, blob |-> w.pin, repo |-> repo,
                               via |-> Via(c, repo)]}
    /\ cached' = IF read THEN cached \cup {<<w.key, w.pin, repo>>} ELSE cached

\* One request of fetch_pinned and what follows from its answer.
Answered(t, a, b) ==
    LET w == Wanted(t)
        s == task[t]
        ask == Head(s.todo)
        out == FetchFrom(w.key, w.pin, a, b)
        heard == s.heard \cup {out}
        next == [todo |-> Tail(s.todo), heard |-> heard]
    IN /\ CASE out = "ok" /\ t[1] = "support" ->
                 /\ Store(w, ask.ctx, ask.repo, IsPom(w.key) /\ a = w.pin)
                 /\ task' = Set(t, [pc |-> "seed", heard |-> heard])
                 /\ UNCHANGED <<dedup, cells, result, pass>>
            [] out = "ok" /\ t[1] # "support" ->
                 /\ Store(w, ask.ctx, ask.repo, IsPom(w.key) /\ a = w.pin)
                 /\ Finish(t, "ok", [heard |-> heard])
            [] out \in EndsSearch ->
                 /\ Finish(t, out, [heard |-> heard])
                 /\ UNCHANGED <<disk, index, served, cached>>
            [] OTHER ->
                 /\ task' = [task EXCEPT ![t] = next @@ Keep(s, ask.recorded, out)]
                 /\ UNCHANGED <<disk, index, served, cached, dedup, cells, result, pass>>
       /\ UNCHANGED <<lock, origins, queue>>

FetchPinned(t) ==
    /\ task[t].pc = "ask" /\ task[t].todo # <<>> /\ Head(task[t].todo).repo # "ambiguous"
    /\ LET key == Wanted(t).key
           answers == lock.answers[key][Head(task[t].todo).repo]
       IN \E a, b \in answers : (IsPom(key) \/ a = b) /\ Answered(t, a, b)

\* The search is out of repositories, or meets an ambiguous origin.
SearchEnds(t) ==
    /\ task[t].pc = "ask"
    /\ IF task[t].todo = <<>> THEN TRUE ELSE Head(task[t].todo).repo = "ambiguous"
    /\ LET end == FinishSearch(task[t], Declared(t)) IN
       Finish(t, CASE task[t].todo # <<>> -> "ambiguous"
                   [] task[t].todo = <<>> /\ t[1] = "support" /\ end = "undeclared" -> "missing"
                   [] OTHER -> end, <<>>)
    /\ UNCHANGED <<lock, disk, index, served, origins, cached, queue>>

-----------------------------------------------------------------------------
(* What an offline resolution reads                                        *)

\* cache_route_pom: the stored copy is cached for a route that served it; a
\* repository whose mirror served it is left; another is asked for its own.
CacheRoutePom(c, key, blob, repo, a) ==
    LET rows == {s \in served : s.key = key /\ s.blob = blob /\ s.repo = repo}
        own == [key |-> key, blob |-> blob, repo |-> repo, via |-> Via(c, repo)]
    IN CASE <<key, blob, repo>> \in cached -> UNCHANGED <<cached, served>>
         [] <<key, blob, repo>> \notin cached /\ own \in rows ->
                /\ cached' = cached \cup {<<key, blob, repo>>} /\ UNCHANGED served
         [] <<key, blob, repo>> \notin cached /\ own \notin rows /\ (rows # {} \/ a # blob) ->
                UNCHANGED <<cached, served>>
         [] OTHER -> /\ cached' = cached \cup {<<key, blob, repo>>}
                     /\ served' = served \cup {own}

\* restore_support_pom, once its bytes are stored: cached for each owner
\* whose origin is declared, one after the other.
SeedSupport(t) ==
    LET w == Wanted(t)
        n == task[t].seeded + 1
        o == w.owners[n]
    IN /\ task[t].pc = "seed"
       /\ IF n > Len(w.owners)
          THEN Finish(t, "ok", <<>>) /\ UNCHANGED <<cached, served>>
          ELSE /\ IF Select(o.ctx, o.repo) = "declared"
                  THEN \E a \in lock.answers[w.key][o.repo] :
                          CacheRoutePom(o.ctx, w.key, w.pin, o.repo, a)
                  ELSE UNCHANGED <<cached, served>>
               /\ task' = Set(t, [seeded |-> n])
               /\ UNCHANGED <<dedup, cells, result, pass>>
       /\ UNCHANGED <<lock, disk, index, origins, queue>>

-----------------------------------------------------------------------------
(* After the searches                                                      *)

RowResult(i) == IF result[FileOf(i)] # "ok" THEN result[FileOf(i)]
                ELSE IF HasPom(i) THEN result[PomOf(i)] ELSE "ok"

AllIdle == \A t \in Tasks : task[t].pc \in {"idle", "done"}

\* The packages and the support POMs beside them are done, then the others.
PhaseEnds ==
    /\ AllIdle
    /\ \/ /\ pass.phase = "run" /\ pass.split /\ \A i \in Rows : RowBegun(i)
          /\ \A j \in Supports \ pass.later : task[SupportOf(j)].pc = "done"
          /\ pass' = [pass EXCEPT !.phase = "later"]
       \/ /\ pass.phase = "later"
          /\ \A j \in pass.later : task[SupportOf(j)].pc = "done"
          /\ pass' = [pass EXCEPT !.phase = "recover"]
    /\ UNCHANGED <<lock, disk, index, served, origins, cached, dedup, cells,
                   task, result, queue>>

\* Mutant: another round as long as a row is left.
NextRowForEver(p) ==
    CASE p.at < Len(lock.rows) -> [p EXCEPT !.at = @ + 1]
      [] p.at >= Len(lock.rows) /\ ~p.fetchPom -> [p EXCEPT !.at = 1, !.fetchPom = TRUE]
      [] p.at >= Len(lock.rows) /\ p.fetchPom /\ \E i \in Rows : RowResult(i) # "ok" ->
            [p EXCEPT !.at = 1, !.fetchPom = FALSE]
      [] OTHER -> [p EXCEPT !.at = 1, !.phase = "support"]

\* The next row of the recovery loop: the rows in order, first those whose
\* POM is stored, then those that may ask for it, until no row recovers.
NextRow(p) ==
    CASE p.at < Len(lock.rows) -> [p EXCEPT !.at = @ + 1]
      [] p.at >= Len(lock.rows) /\ ~p.fetchPom -> [p EXCEPT !.at = 1, !.fetchPom = TRUE]
      [] p.at >= Len(lock.rows) /\ p.fetchPom /\ p.recovered ->
            [p EXCEPT !.at = 1, !.fetchPom = FALSE, !.recovered = FALSE]
      [] OTHER -> [p EXCEPT !.at = 1, !.phase = "support"]

\* Whether a failed row is tried again: its file is stored now, and its POM
\* is too, or has not been asked for yet.
Recoverable(i, fetchPom, asked) ==
    /\ RowResult(i) # "ok"
    /\ StoredIntact(FileOf(i))
    /\ (HasPom(i) => StoredIntact(PomOf(i))) # fetchPom
    /\ fetchPom => i \notin asked

Again(t) == [Fresh EXCEPT !.pc = "check", !.searches = task[t].searches]

RecoverRow ==
    LET i == pass.at IN
    /\ pass.phase = "recover" /\ ~pass.busy
    /\ IF i \in Rows /\ Recoverable(i, pass.fetchPom, pass.asked)
       THEN /\ task' = [task EXCEPT ![FileOf(i)] = Again(FileOf(i)),
                                    ![PomOf(i)] = [Again(PomOf(i)) EXCEPT !.pc = "idle"]]
            /\ pass' = [pass EXCEPT !.busy = TRUE,
                          !.asked = IF pass.fetchPom THEN @ \cup {i} ELSE @]
       ELSE pass' = NextRow(pass) /\ UNCHANGED task
    /\ UNCHANGED <<lock, disk, index, served, origins, cached, dedup, cells,
                   result, queue>>

RowRecovered ==
    /\ pass.phase = "recover" /\ pass.busy /\ AllIdle
    /\ pass' = NextRow([pass EXCEPT !.busy = FALSE,
                         !.recovered = @ \/ RowResult(pass.at) = "ok"])
    /\ UNCHANGED <<lock, disk, index, served, origins, cached, dedup, cells,
                   task, result, queue>>

\* The support POMs whose bytes another restore stored, one after the other.
RecoverSupport ==
    LET j == pass.at
        t == SupportOf(j)
    IN /\ pass.phase = "support" /\ AllIdle
       /\ IF j \in Supports /\ ~pass.busy /\ result[t] # "ok" /\ StoredIntact(t)
          THEN task' = [task EXCEPT ![t] = Again(t)] /\ pass' = [pass EXCEPT !.busy = TRUE]
          ELSE /\ UNCHANGED task
               /\ pass' = [pass EXCEPT !.busy = FALSE, !.at = @ + 1,
                             !.phase = IF j >= Len(lock.support) THEN "index" ELSE @]
       /\ UNCHANGED <<lock, disk, index, served, origins, cached, dedup, cells,
                      result, queue>>

\* index_files with declared_route: each file of a row that is restored,
\* under each of its origins that is declared now.
IndexFiles(i) ==
    LET Files(t) == LET w == Wanted(t) IN
            IF w.key = NoFile \/ ~w.sha256 THEN {}
            ELSE {[key |-> w.key, blob |-> w.pin, repo |-> o.repo, ctx |-> o.ctx] :
                    o \in {x \in ToSet(w.owners) : Select(x.ctx, x.repo) = "declared"}}
    IN Files(FileOf(i)) \cup Files(PomOf(i))

\* index_for_platforms: the origins go into the index in one write; the POMs
\* that are not cached for their routes follow.
IndexForPlatforms ==
    LET rows == UNION {IndexFiles(i) : i \in {k \in Rows : RowResult(k) = "ok"}}
    IN /\ pass.phase = "index"
       /\ origins' = origins \cup rows
       /\ queue' = SetToSeq({r \in rows : IsPom(r.key)})
       /\ pass' = [pass EXCEPT !.phase = "seed"]
       /\ UNCHANGED <<lock, disk, index, served, cached, dedup, cells, task, result>>

SeedRow ==
    /\ pass.phase = "seed" /\ queue # <<>>
    /\ LET r == Head(queue) IN
       \E a \in lock.answers[r.key][r.repo] :
           CacheRoutePom(r.ctx, r.key, r.blob, r.repo, a)
    /\ queue' = Tail(queue)
    /\ UNCHANGED <<lock, disk, index, origins, dedup, cells, task, result, pass>>

\* ensure_artifacts: one more pass when the index or the metadata cache was
\* recreated during the first.
EndPass ==
    /\ pass.phase = "seed" /\ queue = <<>>
    /\ IF pass.n = 1 /\ pass.recreated # pass.before
       THEN /\ pass' = NewPass(2) @@ pass
            /\ task' = [t \in Tasks |-> Fresh]
            /\ result' = [t \in Tasks |-> "none"]
            /\ dedup' = [f \in DOMAIN dedup |-> 0] /\ cells' = <<>>
       ELSE /\ pass' = [pass EXCEPT !.phase = "done"]
            /\ UNCHANGED <<task, result, dedup, cells>>
    /\ UNCHANGED <<lock, disk, index, served, origins, cached, queue>>

-----------------------------------------------------------------------------
(* The surroundings                                                        *)

\* Another process removes a blob it takes for corrupt.
OtherRemoves(b) ==
    /\ lock.removal /\ pass.removed = {} /\ pass.phase # "done"
    /\ disk[b] # "absent"
    /\ disk' = [disk EXCEPT ![b] = "absent"]
    /\ pass' = [pass EXCEPT !.removed = {b}]
    /\ UNCHANGED <<lock, index, served, origins, cached, dedup, cells, task,
                   result, queue>>

\* A damaged index is recreated, empty, during the first pass.
Recreate ==
    /\ lock.recreate /\ pass.recreated = 0 /\ pass.n = 1 /\ pass.phase # "done"
    /\ index' = [f \in DOMAIN index |-> NoBlob]
    /\ served' = {} /\ origins' = {}
    /\ pass' = [pass EXCEPT !.recreated = 1]
    /\ UNCHANGED <<lock, disk, cached, dedup, cells, task, result, queue>>

TaskStep(t) ==
    \/ NeedsDownload(t)
    \/ AdoptPinnedBlob(t)
    \/ Adopted(t)
    \/ RestoreOnce(t)
    \/ CellTurn(t)
    \/ FetchPinned(t)
    \/ SearchEnds(t)
    \/ SeedSupport(t)

PassStep ==
    \/ \E i \in Rows : BeginRow(i)
    \/ Split
    \/ \E j \in Supports : BeginSupport(j)
    \/ PhaseEnds
    \/ RecoverRow
    \/ RowRecovered
    \/ RecoverSupport
    \/ IndexForPlatforms
    \/ SeedRow
    \/ EndPass

RestoreNext ==
    \/ \E t \in Tasks : Wanted(t).key # NoFile /\ TaskStep(t)
    \/ PassStep
    \/ \E b \in DOMAIN disk : OtherRemoves(b)
    \/ Recreate

\* The executor polls every ready task, and the client's timeouts end every
\* request.
RestoreFairness ==
    WF_restoreVars((\E t \in Tasks : Wanted(t).key # NoFile /\ TaskStep(t)) \/ PassStep)

-----------------------------------------------------------------------------

RestoreTypeOK ==
    /\ \A b \in DOMAIN disk : disk[b] \in {"absent", "intact", "corrupt"}
    /\ \A f \in DOMAIN index : index[f] \in DOMAIN disk \cup {NoBlob}
    /\ \A t \in Tasks : task[t].pc \in {"idle", "check", "adopt", "adopted", "join", "cell",
                                          "ask", "seed", "done"}
    /\ \A n \in DOMAIN cells : cells[n] \in {"empty", "busy", "full"}
    /\ \A f \in DOMAIN dedup : dedup[f] \in 0..Len(cells)
    /\ pass.phase \in {"run", "later", "recover", "support", "index", "seed", "done"}

\* A restore that reports success left the pinned bytes intact in the store,
\* recorded as served by a repository that some row recording the file
\* admits, whichever caller of restore_once downloaded them
\* (restore.rs 1075-1143).
RestoredBytes ==
    pass.phase = "done" =>
        \A t \in Tasks : result[t] = "ok" /\ Wanted(t).pin \notin pass.removed =>
            /\ disk[Wanted(t).pin] = "intact"
            /\ \E u \in Tasks : /\ Wanted(u).key = Wanted(t).key
                               /\ Wanted(u).pin = Wanted(t).pin /\ Admits(u, served)

\* "A repository that serves other bytes ends the search": no search
\* succeeds past a repository that answered other bytes, bytes without their
\* checksum, or a transient failure (restore.rs 648-657).
OtherBytesEndSearch ==
    \A t \in Tasks : result[t] = "ok" =>
        task[t].heard \cap {"mismatch", "nochecksum", "transient"} = {}

\* When the recovery loop is over, no row is reported as failed whose file
\* and POM the store holds intact from a repository it admits, and no
\* support POM either (restore.rs 271-327).
NothingLeftToRecover ==
    pass.phase = "index" /\ pass.removed = {} /\ pass.recreated = 0 =>
        /\ \A i \in Rows : StoredIntact(FileOf(i)) /\ (HasPom(i) => StoredIntact(PomOf(i)))
                            => RowResult(i) = "ok"
        /\ \A j \in Supports : StoredIntact(SupportOf(j)) => result[SupportOf(j)] = "ok"

\* No row searches the repositories twice for the same file in one pass,
\* whatever the recovery loop tries again (restore.rs 271-311).
SearchedOnce ==
    pass.removed = {} /\ pass.recreated = 0 => \A t \in Tasks : task[t].searches <= 1

\* A POM is cached as a repository's answer only when that repository served
\* those bytes, directly or through its mirror (restore.rs 550-589).
CachedFromOwnRoute ==
    pass.recreated = 0 =>
        \A c \in cached : \E s \in served : <<s.key, s.blob, s.repo>> = c

\* Every row reported as restored is indexed under each origin it records
\* that is declared now, also when the index was recreated, empty, during
\* the run (restore.rs 88-97, 1306-1374).
OfflineReady ==
    pass.phase = "done" =>
        \A i \in Rows : RowResult(i) = "ok" => IndexFiles(i) \subseteq origins

\* When everything is restored through one context, the checks other
\* commands run agree: nothing is missing and no discovery is needed
\* (restore.rs 837-961).
RestoredIsComplete ==
    /\ pass.phase = "done" /\ pass.removed = {} /\ Len(lock.ctx) = 1
    /\ \A i \in Rows : RowResult(i) = "ok"
    /\ \A j \in Supports : result[SupportOf(j)] = "ok"
    => /\ RestoreComplete(1)
       /\ CountMissing.missing = 0
       /\ ~RestoreNeedsDiscovery

\* The restore ends: no caller waits for ever in a cell and the recovery
\* loop stops.
RestoreEnds == <>(pass.phase = "done")

\* What a restore that ends has left, and how it got there.
RestoreSound ==
    /\ RestoredBytes /\ OtherBytesEndSearch /\ NothingLeftToRecover /\ SearchedOnce
    /\ CachedFromOwnRoute /\ OfflineReady /\ RestoredIsComplete
=============================================================================

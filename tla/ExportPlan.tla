------------------------------ MODULE ExportPlan ------------------------------
(***************************************************************************)
(* What export-m2 is about to write (rv-export plan.rs and the queueing    *)
(* half of export.rs): the files of a raeva.lock, their companion POMs and *)
(* the support POMs around them, each with the blob its pin names and the  *)
(* repository ids its marker names; the version lists and snapshot         *)
(* listings beside them; and the check that no two of these files are one  *)
(* on the destination volume.                                              *)
(***************************************************************************)
EXTENDS Integers, FiniteSets, SequencesExt

CONSTANTS
    NoBlob,     \* no digest, no parent, no such entry
    NoId,       \* a repository without an id
    FoldedBy,   \* rule -> name -> the name a volume that folds by that rule keeps
    ListSums    \* the extensions of the checksums Maven may save for a list

-----------------------------------------------------------------------------
(* Versions. A release has build -1, the -SNAPSHOT version build 0 and a   *)
(* timestamped version its build.                                          *)

Release(n) == [n |-> n, build |-> -1]
Snapshot(n, build) == [n |-> n, build |-> build]
IsPlain(v) == v.build = 0
IsTimestamped(v) == v.build > 0
IsSnapshot(v) == v.build >= 0
Base(v) == IF IsTimestamped(v) THEN [v EXCEPT !.build = 0] ELSE v
Newer(v, w) == \/ v.n > w.n
               \/ v.n = w.n /\ v.build = -1 /\ w.build # -1
               \/ v.n = w.n /\ v.build > w.build /\ w.build # -1

Key(ga, v, kind) == [ga |-> ga, v |-> v, kind |-> kind]
Resolved(v, build) == IF build > 0 /\ IsPlain(v) THEN [v EXCEPT !.build = build] ELSE v
FileVersion(row) == Resolved(row.v, row.build)
FileKey(row) == Key(row.ga, FileVersion(row), row.kind)
PomBuild(row) == IF row.pomBase THEN 0 ELSE IF row.pomBuild > 0 THEN row.pomBuild ELSE row.build
PomVersion(row) == Resolved(row.v, PomBuild(row))
PomKey(row) == Key(row.ga, PomVersion(row), "pom")
PomOrigins(row) == IF row.pomFrom = {} THEN row.from ELSE row.pomFrom
Origins(row) == row.from \cup row.pomFrom
\* A -SNAPSHOT request that resolved to a build.
AsksForBuild(row) == row.build > 0 /\ IsPlain(row.v)

-----------------------------------------------------------------------------
(* The plan of a lock                                                      *)

\* BTreeMap order: a timestamped version spells before SNAPSHOT.
KeyRank(key) == <<key.ga.rank, key.v.n, IF key.v.build = 0 THEN 9 ELSE key.v.build, key.kind>>
KindRank == [jar |-> 1, pom |-> 2, sources |-> 3]
Before(a, b) ==
    LET r == KeyRank(FileKey(a))
        s == KeyRank(FileKey(b))
    IN \/ r[1] < s[1]
       \/ r[1] = s[1] /\ r[2] < s[2]
       \/ r[1] = s[1] /\ r[2] = s[2] /\ r[3] < s[3]
       \/ r[1] = s[1] /\ r[2] = s[2] /\ r[3] = s[3] /\ KindRank[r[4]] < KindRank[s[4]]

Rows(lock) == FoldLeft(LAMBDA rows, p : rows \o p.rows, <<>>, lock.platforms)
Firsts(rows) == {rows[i] : i \in {j \in DOMAIN rows : \A k \in 1..(j - 1) : FileKey(rows[k]) # FileKey(rows[j])}}

\* One row per file, with the origins of every platform's row for it.
ExternalArtifacts(rows) ==
    SetToSortSeq({[row EXCEPT !.from = row.from \cup UNION {Origins(other) : other \in
                                         {o \in ToSet(rows) : o # row /\ FileKey(o) = FileKey(row)}}] :
                     row \in Firsts(rows)}, Before)

PomDigests(rows) == {<<PomKey(row), row.pom>> : row \in {r \in ToSet(rows) : r.pom # NoBlob}}
PomPinsAgree(rows) == \A p, q \in PomDigests(rows) : p[1] = q[1] => p[2] = q[2]
Pinned(digests, key) ==
    IF \E p \in digests : p[1] = key THEN (CHOOSE p \in digests : p[1] = key)[2] ELSE NoBlob
PinnedPomOrigins(rows, key) ==
    UNION {PomOrigins(row) : row \in {r \in ToSet(rows) : r.pom # NoBlob /\ PomKey(r) = key}}

\* The repositories at an origin: the configured ones and, under other ids,
\* those the lock records. One without an id stands in for none of them.
IdsAt(config, lock, origin) ==
    LET configured == {repo.id : repo \in {r \in config.repos : r.origin = origin}}
        recorded == lock.ids[origin]
    IN (IF configured \ {NoId} # {} \/ recorded # {} THEN configured \ {NoId} ELSE configured) \cup recorded
Mirrored(config, id) == IF config.mirror[id].id # NoId THEN config.mirror[id].id ELSE id
MarkerIds(config, lock, origin) == {Mirrored(config, id) : id \in IdsAt(config, lock, origin)} \ {NoId}
RepoIdsFor(ids, row) == UNION {IF ids[o] = {} THEN {"central"} ELSE ids[o] : o \in Origins(row)}
QueryIds(config, lock, ids) ==
    UNION {ids[o] \cup lock.ids[o] : o \in DOMAIN ids}
      \cup {repo.id : repo \in config.repos} \cup {config.mirror[id].id : id \in DOMAIN config.mirror}
      \cup {"central", "local"}

SupportCoords(lock) == UNION {{<<pin.ga, pin.v>> : pin \in lock.platforms[i].support} : i \in DOMAIN lock.platforms}
\* The first platform's pin stands for all of them; each origin is admitted.
SupportPin(lock, ids, coord) ==
    LET has(i) == \E pin \in lock.platforms[i].support : <<pin.ga, pin.v>> = coord
        first == CHOOSE i \in DOMAIN lock.platforms : has(i) /\ \A j \in 1..(i - 1) : ~has(j)
        pin == CHOOSE p \in lock.platforms[first].support : <<p.ga, p.v>> = coord
    IN [ga |-> pin.ga, v |-> pin.v, blob |-> pin.blob, ids |-> ids[pin.from],
        file |-> Resolved(pin.v, pin.build), built |-> pin.build > 0,
        from |-> UNION {{p.from : p \in {q \in lock.platforms[i].support : <<q.ga, q.v>> = coord}} :
                           i \in DOMAIN lock.platforms}]

\* Trusted: the configured repositories and those the project's POMs declare.
Trusted(config) == config.repos \cup UNION {config.project[p] : p \in DOMAIN config.project}
Endpoints(config, origin) ==
    {IF config.mirror[repo.id].at # NoBlob THEN config.mirror[repo.id].at ELSE origin :
       repo \in {r \in Trusted(config) : r.origin = origin}}

FromLock(lock, config) ==
    LET rows == Rows(lock)
        ids == [o \in DOMAIN lock.ids |-> MarkerIds(config, lock, o)]
    IN [rows |-> rows, items |-> ExternalArtifacts(rows), digests |-> PomDigests(rows), ids |-> ids,
        query |-> QueryIds(config, lock, ids), support |-> {SupportPin(lock, ids, c) : c \in SupportCoords(lock)},
        declared |-> {repo.origin : repo \in Trusted(config)},
        endpoints |-> [o \in DOMAIN lock.ids |-> Endpoints(config, o)]]

ServedFor(plan, recorded, fallback, served) ==
    \E s \in served :
       /\ s.origin \in recorded \/ (fallback /\ s.origin \in plan.declared)
       /\ s.endpoint = s.origin \/ s.endpoint \in plan.endpoints[s.origin]

ServedBy(store, key, blob) == {s \in store.served : s.key = key /\ s.blob = blob}
Admits(plan, store, row, blob) ==
    ServedFor(plan, row.from, row.alg = "sha256", ServedBy(store, FileKey(row), blob))
AdmitsPom(plan, store, key, blob) ==
    ServedFor(plan, PinnedPomOrigins(plan.rows, key), TRUE, ServedBy(store, key, blob))
AdmitsSupportPom(plan, store, pin) ==
    ServedFor(plan, pin.from, TRUE, ServedBy(store, Key(pin.ga, pin.file, "pom"), pin.blob))

-----------------------------------------------------------------------------
(* Sources and javadocs. They have no pin, so one is fetched only from a   *)
(* repository declared for the platform that recorded the row's origin.    *)

ClassifierCandidates(lock) ==
    FlattenSeq([i \in DOMAIN lock.platforms |->
       LET rows == SelectSeq(lock.platforms[i].rows, LAMBDA row : row.kind = "jar")
       IN [j \in DOMAIN rows |-> [platform |-> i, coord |-> <<rows[j].ga, FileVersion(rows[j])>>, url |-> rows[j].url]]])

Authorize(config, done, candidate) ==
    IF \E a \in done.authorized : a.coord = candidate.coord THEN done
    ELSE IF \E repo \in config.repos \cup config.project[candidate.platform] : repo.origin = candidate.url
    THEN [authorized |-> done.authorized \cup {candidate}, refused |-> done.refused \ {candidate.coord}]
    ELSE [done EXCEPT !.refused = @ \cup {candidate.coord}]
AuthorizeClassifiers(config, lock) ==
    FoldLeft(LAMBDA done, c : Authorize(config, done, c), [authorized |-> {}, refused |-> {}], ClassifierCandidates(lock))

-----------------------------------------------------------------------------
(* The queue                                                               *)

EmptyQueue == [units |-> <<>>, seen |-> {}, nodes |-> 0, error |-> ""]
Fails(queue, error) == [queue EXCEPT !.error = error]
Unit(key, blob, source, ids, recorded, replace) ==
    [key |-> key, blob |-> blob, source |-> source, ids |-> ids, recorded |-> recorded, replace |-> replace]
Held(queue, key) == {i \in DOMAIN queue.units : queue.units[i].key = key}
Guessed(unit) == unit.source = "companion" /\ ~unit.recorded

MergedUnit(previous, unit) ==
    IF unit.recorded /\ Guessed(previous) THEN [previous EXCEPT !.ids = unit.ids, !.recorded = TRUE]
    ELSE IF previous.recorded /\ Guessed(unit) THEN previous
    ELSE [previous EXCEPT !.ids = previous.ids \cup unit.ids, !.recorded = previous.recorded \/ unit.recorded]

\* Mutant: the first pin of a file is taken for all of them.
PushFirst(queue, unit) ==
    IF queue.error # "" THEN queue
    ELSE IF Held(queue, unit.key) = {} THEN [queue EXCEPT !.units = Append(queue.units, unit)]
    ELSE [queue EXCEPT !.units = [i \in DOMAIN queue.units |->
            IF i \in Held(queue, unit.key) THEN MergedUnit(queue.units[i], unit) ELSE queue.units[i]]]

Push(queue, unit) ==
    IF queue.error # "" THEN queue
    ELSE IF Held(queue, unit.key) = {} THEN [queue EXCEPT !.units = Append(queue.units, unit)]
    ELSE IF \E i \in Held(queue, unit.key) : queue.units[i].blob # unit.blob THEN Fails(queue, "conflicting sources")
    ELSE [queue EXCEPT !.units = [i \in DOMAIN queue.units |->
            IF i \in Held(queue, unit.key) THEN MergedUnit(queue.units[i], unit) ELSE queue.units[i]]]

\* The literal parent of a stored POM. Damaged bytes have none.
ParentOf(store, blob) == IF blob \in store.sound THEN store.parent[blob] ELSE NoBlob
Refs(parent) == IF parent = NoBlob THEN <<>> ELSE <<parent>>

\* The pin of the very version, or the newest one in a range.
SupportPomFor(plan, ref) ==
    LET exact == {p \in plan.support : p.ga = ref.ga /\ ref.range = {} /\ p.v = ref.v}
        within == {p \in plan.support : p.ga = ref.ga /\ p.v \in ref.range}
    IN IF exact # {} THEN exact ELSE {p \in within : \A q \in within : ~Newer(q.v, p.v)}

\* Of the builds of a SNAPSHOT the lock records, unless it pins that
\* SNAPSHOT itself, the latest is what a request for it reads.
IsLatestSupportBuild(plan, ga, v) ==
    /\ IsTimestamped(v)
    /\ \A p \in plan.support : p.ga = ga /\ Base(p.v) = Base(v) => IsTimestamped(p.v) /\ p.v.build <= v.build

SupportUnits(plan, queue, pin) ==
    LET at(v, ids, replace) == Unit(Key(pin.ga, v, "pom"), pin.blob, "support", ids, TRUE, replace)
        plain == IsLatestSupportBuild(plan, pin.ga, pin.v) /\ <<pin.ga, Base(pin.v)>> \notin queue.seen
    IN IF pin.built
       THEN Push(Push([queue EXCEPT !.seen = @ \cup {<<pin.ga, pin.file>>}], at(pin.file, pin.ids, FALSE)),
                 at(pin.v, {}, TRUE))
       ELSE IF plain
       THEN Push(Push([queue EXCEPT !.seen = @ \cup {<<pin.ga, Base(pin.v)>>}], at(pin.v, pin.ids, FALSE)),
                 at(Base(pin.v), pin.ids, TRUE))
       ELSE Push(queue, at(pin.v, pin.ids, IsPlain(pin.v)))

RECURSIVE SupportClosure(_, _, _, _, _)
SupportClosure(plan, store, reactor, queue, refs) ==
    IF refs = <<>> \/ queue.error # "" THEN queue
    ELSE LET found == SupportPomFor(plan, Head(refs))
             pin == CHOOSE p \in found : TRUE
             node == [queue EXCEPT !.seen = @ \cup {<<pin.ga, pin.v>>}, !.nodes = @ + 1]
         IN IF found = {}
            THEN IF <<Head(refs).ga, Head(refs).v>> \in reactor.modules
                 THEN SupportClosure(plan, store, reactor, queue, Tail(refs))
                 ELSE Fails(queue, "unpinned POM")
            ELSE IF <<pin.ga, pin.v>> \in queue.seen
            THEN SupportClosure(plan, store, reactor, queue, Tail(refs))
            ELSE IF node.nodes > reactor.limit THEN Fails(node, "closure too large")
            ELSE IF pin.blob \notin store.present \/ ~AdmitsSupportPom(plan, store, pin) THEN Fails(node, "missing POM")
            ELSE SupportClosure(plan, store, reactor, SupportUnits(plan, node, pin),
                                Tail(refs) \o Refs(ParentOf(store, pin.blob)))

-----------------------------------------------------------------------------
(* The rows                                                                *)

\* An indexed blob may be another project's.
Indexed(store, key) == {e[2] : e \in {i \in store.index : i[1] = key}} \cap store.present
PinHolds(store, row, blob) ==
    \/ row.alg = "none"
    \/ row.alg = "sha256" /\ row.pin = blob
    \/ row.alg = "sha1" /\ row.pin = blob /\ blob \in store.sound

BlobIdForPackage(plan, store, row) ==
    LET indexed == {b \in Indexed(store, FileKey(row)) : Admits(plan, store, row, b)}
    IN IF row.alg = "sha256" /\ row.pin \in store.present /\ Admits(plan, store, row, row.pin)
       THEN [blob |-> row.pin, error |-> ""]
       ELSE IF indexed = {}
       THEN [blob |-> NoBlob, error |-> IF row.alg = "sha1" THEN "unsupported checksum" ELSE "missing blob"]
       ELSE LET blob == CHOOSE b \in indexed : TRUE
            IN [blob |-> blob, error |-> IF PinHolds(store, row, blob) THEN "" ELSE "pin mismatch"]

\* None for a row no repository has a POM for.
CompanionPomBlob(plan, store, key) ==
    LET pinned == Pinned(plan.digests, key)
    IN [blob |-> pinned,
        error |-> IF pinned = NoBlob \/ (pinned \in store.present /\ AdmitsPom(plan, store, key, pinned))
                  THEN "" ELSE "missing POM"]

Companion(row, ids, blob) ==
    Unit(PomKey(row), blob, "companion", ids, FALSE, IsPlain(FileVersion(row)) \/ row.pomBase)

QueueCompanion(plan, store, reactor, queue, row, ids) ==
    LET coord == <<row.ga, PomVersion(row)>>
        pinned == Pinned(plan.digests, PomKey(row))
        found == CompanionPomBlob(plan, store, PomKey(row))
    IN IF Held(queue, PomKey(row)) # {}
       THEN IF pinned = NoBlob THEN queue ELSE Push(queue, Companion(row, ids, pinned))
       ELSE IF coord \in queue.seen THEN queue
       ELSE IF found.error # "" THEN Fails(queue, found.error)
       ELSE IF found.blob = NoBlob THEN queue
       ELSE Push(SupportClosure(plan, store, reactor, [queue EXCEPT !.seen = @ \cup {coord}],
                                Refs(ParentOf(store, found.blob))),
                 Companion(row, ids, found.blob))

QueuePomRow(plan, store, reactor, queue, row, blob) ==
    LET pinned == Pinned(plan.digests, PomKey(row))
    IN IF pinned # NoBlob /\ pinned # blob THEN Fails(queue, "conflicting pin")
       ELSE SupportClosure(plan, store, reactor, [queue EXCEPT !.seen = @ \cup {<<row.ga, PomVersion(row)>>}],
                           Refs(ParentOf(store, blob)))

QueueRow(plan, store, reactor, queue, row) ==
    LET found == BlobIdForPackage(plan, store, row)
        ids == RepoIdsFor(plan.ids, row)
        around == IF row.kind # "pom" THEN QueueCompanion(plan, store, reactor, queue, row, ids)
                  ELSE QueuePomRow(plan, store, reactor, queue, row, found.blob)
    IN IF queue.error # "" THEN queue
       ELSE IF found.error # "" THEN Fails(queue, found.error)
       ELSE Push(around, Unit(FileKey(row), found.blob, "package", ids, FALSE, IsPlain(FileVersion(row))))

\* Maven 3.9 leaves a plain copy, without a marker, beside each build a
\* -SNAPSHOT request resolved to.
QueuePlainCopies(items, queue) ==
    LET asked == UNION {{<<row.ga, FileVersion(row)>>, <<row.ga, PomVersion(row)>>} :
                           row \in {r \in ToSet(items) : AsksForBuild(r)}}
        copies == SelectSeq(queue.units, LAMBDA u : <<u.key.ga, u.key.v>> \in asked)
    IN FoldLeft(LAMBDA q, u : Push(q, Unit([u.key EXCEPT !.v = Base(u.key.v)], u.blob, u.source, {}, FALSE, TRUE)),
               queue, copies)

SeedRefs(plan) ==
    SetToSeq({[ga |-> p.ga, v |-> p.v, range |-> {}] : p \in plan.support})

ExportQueue(plan, store, reactor, items) ==
    LET seeded == SupportClosure(plan, store, reactor, EmptyQueue, SeedRefs(plan))
        own == FoldLeft(LAMBDA q, pom : IF pom.local THEN q ELSE SupportClosure(plan, store, reactor, q, Refs(pom.parent)),
                        seeded, reactor.poms)
        rows == FoldLeft(LAMBDA q, row : QueueRow(plan, store, reactor, q, row), own, items)
    IN IF ~PomPinsAgree(plan.rows) THEN Fails(EmptyQueue, "conflicting POM pins")
       ELSE IF rows.error # "" THEN rows ELSE QueuePlainCopies(items, rows)

-----------------------------------------------------------------------------
(* Version lists and snapshot listings                                     *)

Entry(ga, v, id, kind) == [ga |-> ga, base |-> Base(v), id |-> id, kind |-> kind, v |-> v]
SameEntry(a, b) == a.ga = b.ga /\ a.base = b.base /\ a.id = b.id /\ a.kind = b.kind
PushEntries(entries, added) == {e \in entries : \A a \in added : ~SameEntry(e, a)} \cup added

\* A support POM is listed like a dependency: a range may name it.
SupportMetadata(plan, versionLists) ==
    LET listed(pin) == pin.built \/ IsLatestSupportBuild(plan, pin.ga, pin.file)
    IN [lists |-> IF versionLists THEN UNION {{<<p.ga, id, Base(p.v)>> : id \in p.ids} : p \in plan.support} ELSE {},
        builds |-> UNION {{Entry(p.ga, p.file, id, "pom") : id \in p.ids} : p \in {q \in plan.support : listed(q)}},
        stamped |-> UNION {{<<p.ga, Base(p.file), id>> : id \in p.ids} : p \in {q \in plan.support : listed(q)}},
        plain |-> IF versionLists THEN {<<p.ga, p.v>> : p \in {q \in plan.support : IsPlain(q.file)}} ELSE {}]

AccumulateMetadata(plan, versionLists, meta, row) ==
    LET ids == RepoIdsFor(plan.ids, row)
        base == Base(FileVersion(row))
        file == {Entry(row.ga, FileVersion(row), id, row.kind) : id \in ids}
        pom == IF row.kind = "pom" \/ row.pomBase THEN {}
               ELSE {[Entry(row.ga, PomVersion(row), id, "pom") EXCEPT !.base = base] : id \in ids}
        snapshot == IsSnapshot(FileVersion(row))
    IN [lists |-> IF versionLists THEN meta.lists \cup {<<row.ga, id, base>> : id \in ids} ELSE meta.lists,
        builds |-> IF snapshot THEN PushEntries(PushEntries(meta.builds, file), pom) ELSE meta.builds,
        stamped |-> IF IsTimestamped(FileVersion(row)) THEN meta.stamped \cup {<<row.ga, base, id>> : id \in ids}
                    ELSE meta.stamped,
        plain |-> IF IsPlain(FileVersion(row)) THEN meta.plain \cup {<<row.ga, base>>} ELSE meta.plain]

Metadata(plan, items, versionLists) ==
    FoldLeft(LAMBDA meta, row : AccumulateMetadata(plan, versionLists, meta, row), SupportMetadata(plan, versionLists), items)

-----------------------------------------------------------------------------
(* Destinations. A path is a sequence of names, a name a sequence of parts. *)

\* One part, which an artifact id can spell.
VersionName(v) == CASE v.build = -1 -> ToString(v.n)
                    [] v.build = 0 -> ToString(v.n) \o "-SNAPSHOT"
                    [] OTHER -> ToString(v.n) \o "-b" \o ToString(v.build)
GroupPath(ga) == [i \in DOMAIN ga.group |-> <<ga.group[i]>>]
ArtifactDir(ga) == Append(GroupPath(ga), <<ga.name>>)
VersionDir(ga, v) == Append(ArtifactDir(ga), <<VersionName(Base(v))>>)
Extension(kind) == IF kind = "jar.sha1" THEN <<"jar", "sha1">> ELSE <<kind>>
ArtifactRelativePath(key) ==
    Append(VersionDir(key.ga, key.v), <<key.ga.name, VersionName(key.v)>> \o Extension(key.kind))
WithSuffix(path, suffix) == [path EXCEPT ![Len(path)] = Append(@, suffix)]
Parent(path) == SubSeq(path, 1, Len(path) - 1)

Folded(rule, part) == IF part \in DOMAIN FoldedBy[rule] THEN FoldedBy[rule][part] ELSE part
Names(path, folds) ==
    IF folds THEN {[i \in DOMAIN path |-> [j \in DOMAIN path[i] |-> Folded(rule, path[i][j])]] : rule \in DOMAIN FoldedBy}
    ELSE {path}

File(path, owner, depth) == [path |-> path, owner |-> owner, depth |-> depth, metadata |-> FALSE]
UnitFiles(key, ids) ==
    LET path == ArtifactRelativePath(key)
        depth == Len(key.ga.group)
    IN <<File(path, <<"file", key, "">>, depth), File(WithSuffix(path, "sha1"), <<"sum", key, "sha1">>, depth),
         File(WithSuffix(path, "sha256"), <<"sum", key, "sha256">>, depth)>>
       \o IF ids = {} THEN <<>>
          ELSE <<File(Append(Parent(path), <<"_remote.repositories">>), <<"markers", Parent(path), "">>, depth)>>

\* The list that a repository id has for a coordinate <<ga>> or <<ga, v>>,
\* which owns it: two coordinates may have one directory. Replacing a list
\* removes every checksum Maven saved for it.
ListFiles(dir, coordinate, id, populated) ==
    LET path == Append(dir, <<"maven-metadata", id, "xml">>)
        owner == IF populated THEN "metadata" ELSE "empty metadata"
        depth == Len(coordinate[1].group)
    IN <<[File(path, <<owner, coordinate, id>>, depth) EXCEPT !.metadata = TRUE]>>
       \o [i \in DOMAIN ListSums |-> File(WithSuffix(path, ListSums[i]), <<owner \o " sum", coordinate, <<id, i>> >>, depth)]

\* Of two ids that fold to one name, a populated list wins over an empty
\* one, and the first empty one over the next.
EmptyIds(listed, empty, folds) ==
    LET name(id) == IF folds THEN Folded("lower", id) ELSE id
        order == SetToSeq(empty)
    IN {order[i] : i \in {j \in DOMAIN order : /\ \A id \in listed : name(id) # name(order[j])
                                              /\ \A k \in 1..(j - 1) : name(order[k]) # name(order[j])}}
MetadataLists(dir, coordinate, listed, empty, folds) ==
    FlattenSeq([i \in 1..Cardinality(listed) |-> ListFiles(dir, coordinate, SetToSeq(listed)[i], TRUE)])
    \o LET ids == EmptyIds(listed, empty, folds)
       IN FlattenSeq([i \in 1..Cardinality(ids) |-> ListFiles(dir, coordinate, SetToSeq(ids)[i], FALSE)])

\* The version directories with a listing to write or to clean.
ListedVersions(meta, shared) ==
    {<<s[1], s[2]>> : s \in meta.stamped} \cup (IF shared THEN {} ELSE meta.plain)
ListingIds(meta, at) == {s[3] : s \in {t \in meta.stamped : t[1] = at[1] /\ t[2] = at[2]}}

PlannedFiles(destination, folds) ==
    LET d == destination
        gas == SetToSeq({l[1] : l \in d.meta.lists})
        versions == SetToSeq(ListedVersions(d.meta, d.shared))
        empty == IF d.shared THEN {} ELSE d.query
    IN FlattenSeq([i \in DOMAIN d.units |-> UnitFiles(d.units[i].key, d.units[i].ids)])
       \o FlattenSeq([i \in DOMAIN gas |->
            MetadataLists(ArtifactDir(gas[i]), <<gas[i]>>, {l[2] : l \in {m \in d.meta.lists : m[1] = gas[i]}}, empty, folds)])
       \o FlattenSeq([i \in DOMAIN versions |->
            MetadataLists(VersionDir(versions[i][1], versions[i][2]), versions[i], ListingIds(d.meta, versions[i]),
                          IF d.replaces THEN empty ELSE {}, folds)])

\* Directories an export removes the other metadata lists of.
Cleaned(destination) ==
    LET d == destination
    IN IF d.shared THEN {}
       ELSE {ArtifactDir(l[1]) : l \in d.meta.lists}
            \cup {VersionDir(at[1], at[2]) : at \in {v \in ListedVersions(d.meta, FALSE) :
                                                        d.replaces \/ ListingIds(d.meta, v) = {}}}

NoClaims == [claims |-> <<>>, index |-> {}, error |-> FALSE]

Claim(path, owner, directory, group) == [path |-> path, owner |-> owner, directory |-> directory, group |-> group]

\* Directories of a group may be spelled in several ways on a folding volume.
Compatible(first, claim) ==
    IF first.directory /\ claim.directory THEN first.path = claim.path \/ first.group \/ claim.group
    ELSE ~first.directory /\ ~claim.directory /\ first.owner = claim.owner

TakeClaim(paths, claim, names) ==
    LET matched == {e[2] : e \in {i \in paths.index : i[1] \in names}}
        at == IF matched = {} THEN Len(paths.claims) + 1 ELSE Min(matched)
        index == paths.index \cup {<<name, at>> : name \in {n \in names : \A e \in paths.index : e[1] # n}}
    IN IF \E i \in matched : ~Compatible(paths.claims[i], claim)
       THEN [paths EXCEPT !.error = TRUE]
       ELSE [paths EXCEPT !.index = index,
               !.claims = IF matched = {} THEN Append(@, claim)
                          ELSE [i \in DOMAIN @ |-> IF i \in matched /\ claim.directory /\ ~claim.group THEN claim ELSE @[i]]]

FileClaims(file) ==
    [n \in 1..Len(file.path) |-> Claim(SubSeq(file.path, 1, n), IF n < Len(file.path) THEN <<>> ELSE file.owner,
                                      n < Len(file.path), n <= file.depth)]
RECURSIVE TakeClaims(_, _, _)
TakeClaims(paths, claims, folds) ==
    IF claims = <<>> \/ paths.error THEN paths
    ELSE TakeClaims(IF Head(claims) \in ToSet(paths.claims) THEN paths
                    ELSE TakeClaim(paths, Head(claims), Names(Head(claims).path, folds)),
                    Tail(claims), folds)

WithoutSum(name) == IF Last(name) \in {"sha1", "sha256"} \cup ToSet(ListSums) THEN Front(name) ELSE name
IsListName(name) == Len(name) >= 2 /\ Head(name) = "maven-metadata" /\ Last(name) = "xml"

\* A file this export would write and then clean away.
CleanedAway(files, cleaned, folds) ==
    LET lists == UNION {Names(f.path, folds) : f \in {g \in ToSet(files) : g.metadata}}
        dirs == UNION {Names(dir, folds) : dir \in cleaned}
    IN {f \in ToSet(files) :
          /\ Names(Parent(f.path), folds) \cap dirs # {}
          /\ IsListName(WithoutSum(Last(f.path)))
          /\ Names(Append(Parent(f.path), WithoutSum(Last(f.path))), folds) \cap lists = {}}

PlannedDestinations(destination, folds) ==
    LET files == PlannedFiles(destination, folds)
    IN /\ ~TakeClaims(NoClaims, FlattenSeq([i \in DOMAIN files |-> FileClaims(files[i])]), folds).error
       /\ CleanedAway(files, Cleaned(destination), folds) = {}

\* The check without folding, then the folding one, which counts on a volume
\* that folds.
DestinationsAccepted(destination, volumeFolds) ==
    PlannedDestinations(destination, FALSE) /\ (volumeFolds => PlannedDestinations(destination, TRUE))

-----------------------------------------------------------------------------
(* Properties                                                              *)

\* The whole plan of a lock, as export-m2 makes it before it writes.
ExportPlan(in) ==
    LET plan == FromLock(in.lock, in.config)
    IN [plan |-> plan, queue |-> ExportQueue(plan, in.store, in.reactor, plan.items),
        meta |-> Metadata(plan, plan.items, TRUE), classifiers |-> AuthorizeClassifiers(in.config, in.lock)]

UnitAt(queue, key) == queue.units[CHOOSE i \in Held(queue, key) : TRUE]
Holds(queue, key, blob) == Held(queue, key) # {} /\ UnitAt(queue, key).blob = blob

\* A plan that is accepted exports every row of the lock, its companion POM
\* and every support POM, each with the bytes its pin names, and the parent of
\* each POM it exports unless the reactor has it (export.rs:503-770: a partial
\* closure would look like success and fail in mvn -o).
PlanComplete(in, out) ==
    out.queue.error = "" =>
       /\ \A row \in ToSet(out.plan.rows) :
            /\ Held(out.queue, FileKey(row)) # {}
            /\ row.alg = "sha256" => Holds(out.queue, FileKey(row), row.pin)
            /\ row.pom # NoBlob => Holds(out.queue, PomKey(row), row.pom)
            /\ AsksForBuild(row) => Holds(out.queue, Key(row.ga, row.v, row.kind), UnitAt(out.queue, FileKey(row)).blob)
       /\ \A pin \in out.plan.support : /\ Holds(out.queue, Key(pin.ga, pin.file, "pom"), pin.blob)
                                       /\ Holds(out.queue, Key(pin.ga, pin.v, "pom"), pin.blob)
       /\ \A i \in DOMAIN out.queue.units :
            LET unit == out.queue.units[i]
                parent == ParentOf(in.store, unit.blob)
            IN unit.key.kind = "pom" /\ parent # NoBlob =>
                  \/ <<parent.ga, parent.v>> \in in.reactor.modules
                  \/ \E p \in out.plan.support : /\ p.ga = parent.ga /\ (p.v = parent.v \/ p.v \in parent.range)
                                                /\ Held(out.queue, Key(p.ga, p.v, "pom")) # {}

\* Every file of an accepted plan holds bytes that a repository the project
\* trusts, or the file's own pin records, served for that file: directly or
\* through a mirror the configuration names (plan.rs:123-172). Sources and
\* javadocs are fetched for a jar unless no platform that has it declares the
\* repository its row names (plan.rs:335-396).
PlanFromOwnRepositories(in, out) ==
    /\ \A c \in ToSet(ClassifierCandidates(in.lock)) :
          LET declares(d) == \E r \in in.config.repos \cup in.config.project[d.platform] : r.origin = d.url
              same == {d \in ToSet(ClassifierCandidates(in.lock)) : d.coord = c.coord}
          IN /\ c.coord \in out.classifiers.refused <=> \A d \in same : ~declares(d)
             /\ \A a \in out.classifiers.authorized : a \in same => declares(a)
    /\ out.queue.error = "" =>
       \A i \in DOMAIN out.queue.units :
          \E s \in in.store.served :
             /\ s.blob = out.queue.units[i].blob
             /\ s.key.ga = out.queue.units[i].key.ga
             /\ Base(s.key.v) = Base(out.queue.units[i].key.v)
             /\ \/ s.origin = s.endpoint
                \/ \E r \in Trusted(in.config) :
                      r.origin = s.origin /\ in.config.mirror[r.id].at = s.endpoint
             /\ \/ \E r \in Trusted(in.config) : r.origin = s.origin
                \/ \E row \in ToSet(out.plan.rows) : row.ga = s.key.ga /\ Base(row.v) = Base(s.key.v) /\ s.origin \in Origins(row)
                \/ \E pin \in out.plan.support : pin.ga = s.key.ga /\ Base(pin.v) = Base(s.key.v) /\ s.origin \in pin.from

\* A marker id of an exported row has a version list with the row's version,
\* a build that one of the listings names is a file of the export, and the
\* marker of a support POM names the repository its pin records, never one
\* guessed from a package beside it (export.rs:284-339, 895-990: mvn -o reads
\* the list of the repository it would fetch the file from).
ListedWhereMarked(in, out) ==
    out.queue.error = "" =>
       /\ \A row \in ToSet(out.plan.rows) : \A id \in UnitAt(out.queue, FileKey(row)).ids :
             <<row.ga, id, Base(FileVersion(row))>> \in out.meta.lists
       /\ \A e \in out.meta.builds :
             \/ e.kind = "pom" /\ Pinned(out.plan.digests, Key(e.ga, e.v, "pom")) = NoBlob
             \/ Held(out.queue, Key(e.ga, e.v, e.kind)) # {}
       /\ \A pin \in out.plan.support :
             \/ UnitAt(out.queue, Key(pin.ga, pin.file, "pom")).ids = pin.ids
             \/ \E row \in ToSet(out.plan.rows) : FileKey(row) = Key(pin.ga, pin.file, "pom")

\* Files of an accepted export that the volume keeps under one name are one
\* file, the version list of an artifact is never the snapshot listing of
\* another whose version directory its id spells, no file lies where another's directory is, artifact directories the
\* volume keeps as one are spelled alike, and no file of the export is cleaned
\* away by it (export.rs:1893-2234).
DestinationsApart(in, accepted) ==
    accepted =>
       LET files == ToSet(PlannedFiles(in.destination, in.folds))
           one(p, q) == Names(p, in.folds) \cap Names(q, in.folds) # {}
           meta == in.destination.meta
       IN /\ \A l \in meta.lists, s \in meta.stamped :
                ~one(Append(ArtifactDir(l[1]), <<l[2]>>), Append(VersionDir(s[1], s[2]), <<s[3]>>))
          /\ \A f, g \in files : one(f.path, g.path) => f.path = g.path /\ f.owner = g.owner
          /\ \A f, g \in files : \A n \in 1..(Len(g.path) - 1) : ~one(f.path, SubSeq(g.path, 1, n))
          /\ \A f, g \in files : \A n \in (f.depth + 1)..(Len(f.path) - 1) :
                n \in (g.depth + 1)..(Len(g.path) - 1) /\ one(SubSeq(f.path, 1, n), SubSeq(g.path, 1, n))
                => SubSeq(f.path, 1, n) = SubSeq(g.path, 1, n)
          /\ CleanedAway(PlannedFiles(in.destination, in.folds), Cleaned(in.destination), in.folds) = {}
=============================================================================

---------------------------- MODULE VersionChoice -----------------------------
(***************************************************************************)
(* Which version a requirement selects from what several repositories list *)
(* (rv-resolver/src/resolver/backend.rs, utils.rs; rv-repo/src/metadata.rs,*)
(* repository.rs, client/models.rs): a range, LATEST and RELEASE from the  *)
(* version listings, a SNAPSHOT from the metadata of its builds and the    *)
(* builds raeva.lock pins, and the error a search ends with.               *)
(*                                                                         *)
(* A version is its spelling, its rank in Maven's order (Versions.tla),    *)
(* the bucket Java's HashMap puts the spelling in, and whether it is a     *)
(* snapshot. Times are naturals, 0 when absent.                            *)
(***************************************************************************)
EXTENDS Naturals, Sequences, SequencesExt, FiniteSets

CONSTANTS Queries       \* the requests and what the repositories answer

VARIABLES
    query,      \* the request
    choice      \* its answer, once there is one

choiceVars == <<query, choice>>

NoChoice == <<>>
Failed(error) == [ok |-> FALSE, error |-> error]
Chosen(value) == [ok |-> TRUE, value |-> value]

\* Answers that are no metadata: missing, refused (401, 403), broken (a failed
\* transfer), offline (not cached), invalid (unusable metadata), retried (a
\* transient failure) and fatal (the configuration refuses it).

\* remember_search_error
Remember(last, kind) ==
    IF kind = "missing" THEN last
    ELSE IF last = "missing" \/ kind # "refused" \/ last = "refused" THEN kind ELSE last

-----------------------------------------------------------------------------
(* Version listings                                                        *)

\* Repository::version_listing: which kinds the listing of a repository reads.
ListsSnapshots(repo, withSnapshots) == withSnapshots /\ repo.snapshots
Lists(repo, withSnapshots) == repo.releases \/ ListsSnapshots(repo, withSnapshots)
ListingRefused(repo, withSnapshots) ==
    \/ repo.releases /\ repo.sumReleases = "unsupported"
    \/ ListsSnapshots(repo, withSnapshots) /\ repo.sumSnapshots = "unsupported"

\* allows_version, allows_listed_version
Allows(repo, version) == IF version.snapshot THEN repo.snapshots ELSE repo.releases

\* Only the first failure is kept, unless it is a refusal.
FirstError(kinds) ==
    FoldLeft(LAMBDA first, kind : IF first \in {"missing", "refused"} THEN Remember(first, kind) ELSE first,
             "missing", kinds)

\* listed_metadata: the repositories that answered, in order. One that a
\* retried request failed on, or that its configuration refuses, fails it.
ListedMetadata(repos, withSnapshots, found) ==
    LET read == SelectSeq(repos, LAMBDA r : Lists(r, withSnapshots))
        hits == SelectSeq(read, LAMBDA r : r.answer.kind = "metadata")
        kinds == [i \in DOMAIN read |-> read[i].answer.kind]
        fails == SelectSeq(kinds, LAMBDA k : k \in {"fatal", "retried"})
        misses == SelectSeq(kinds, LAMBDA k : k # "metadata")
    IN IF \E i \in DOMAIN read : ListingRefused(read[i], withSnapshots) THEN Failed("fatal")
       ELSE IF fails # <<>> THEN Failed(fails[1])
       ELSE IF hits = <<>> /\ ~found THEN Failed(FirstError(misses))
       ELSE Chosen(hits)

\* sort_as_maven_lists: spellings that compare equal follow the buckets, and
\* in a bucket the order they were listed in.
SortAsMavenLists(s) ==
    LET Before(i, j) == \/ s[i].rank < s[j].rank
                        \/ s[i].rank = s[j].rank /\ \/ s[i].bucket < s[j].bucket
                                                    \/ s[i].bucket = s[j].bucket /\ i < j
        order == SetToSortSeq(DOMAIN s, Before)
    IN [i \in DOMAIN s |-> s[order[i]]]

\* Each spelling once, the first listed.
OnceEach(s) ==
    FoldLeft(LAMBDA kept, v : IF \E i \in DOMAIN kept : kept[i].text = v.text THEN kept ELSE Append(kept, v), <<>>, s)

\* Each candidate is gated on the repository that listed it.
Gated(repo) == SelectSeq(repo.answer.versions, LAMBDA v : Allows(repo, v))

\* resolve_versions_internal
MatchingVersions(q, hits) ==
    LET listed == OnceEach(FoldLeft(LAMBDA s, r : s \o Gated(r), q.workspace, hits))
        matching == SelectSeq(listed, LAMBDA v : v.rank \in q.range)
    IN IF matching = <<>> THEN Failed("no version") ELSE Chosen(SortAsMavenLists(matching))
ResolveVersions(q) ==
    LET hits == ListedMetadata(q.repos, TRUE, q.workspace # <<>>)
    IN IF ~hits.ok THEN hits ELSE MatchingVersions(q, hits.value)

\* Iterator::max: the last of the highest ones.
Highest(s) ==
    LET best(i) == \A j \in DOMAIN s : s[j].rank < s[i].rank \/ (s[j].rank = s[i].rank /\ j <= i)
    IN IF s = <<>> THEN <<>> ELSE <<s[CHOOSE i \in DOMAIN s : best(i)]>>

\* A listed version replaces only a lower one.
Raised(best, v) == IF best = <<>> \/ (best # <<>> /\ best[1].rank < v.rank) THEN <<v>> ELSE best

\* parent_range_version: the reactor's modules count where they are known, and
\* a listing nobody answers is none.
ParentRangeVersion(q) ==
    LET hits == ListedMetadata(q.repos, TRUE, TRUE)
        matching(s) == SelectSeq(s, LAMBDA v : v.rank \in q.range)
        own == Highest(matching(IF q.reactor THEN q.workspace ELSE <<>>))
        best == FoldLeft(LAMBDA b, r : FoldLeft(Raised, b, matching(Gated(r))), own, hits.value)
    IN IF ~hits.ok THEN hits ELSE IF best = <<>> THEN Failed("no version") ELSE Chosen(best)

-----------------------------------------------------------------------------
(* LATEST and RELEASE                                                      *)

Admits(token, version) == token = "LATEST" \/ ~version.snapshot

\* The repositories whose marker is eligible, each gated by its own policy.
Marking(hits, token, marker) ==
    SelectSeq(hits, LAMBDA r : r.answer[marker] # <<>>
                               /\ Admits(token, r.answer[marker][1]) /\ Allows(r, r.answer[marker][1]))

\* The marker of the newest metadata, the first on a tie.
NewestMarker(hits, token, marker) ==
    LET marking == Marking(hits, token, marker)
        Newer(i, j) == marking[i].answer.updated > marking[j].answer.updated
    IN IF marking = <<>> THEN <<>>
       ELSE marking[CHOOSE i \in DOMAIN marking :
                      \A j \in DOMAIN marking : ~Newer(j, i) /\ (j < i => Newer(i, j))].answer[marker]

MarkedVersion(hits, token) ==
    IF token = "LATEST" /\ NewestMarker(hits, token, "latest") # <<>> THEN NewestMarker(hits, token, "latest")
    ELSE NewestMarker(hits, token, "release")

\* resolve_dynamic_version_internal: a reactor module stands in for the local
\* repository, when no repository marks a version.
ResolveDynamic(q) ==
    LET workspace == SelectSeq(q.workspace, LAMBDA v : Admits(q.token, v))
        hits == ListedMetadata(q.repos, q.token = "LATEST", workspace # <<>>)
        marked == MarkedVersion(hits.value, q.token)
    IN IF ~hits.ok THEN hits
       ELSE IF marked # <<>> THEN Chosen(marked)
       ELSE IF workspace # <<>> THEN Chosen(Highest(workspace))
       ELSE Failed("no version")

-----------------------------------------------------------------------------
(* SNAPSHOT builds                                                         *)

Newer(time, kept) == time > kept

\* snapshot_entry_for: the entry of the file with the greatest time, the
\* first on a tie.
EntryFor(metadata, file) ==
    LET entries == SelectSeq(metadata.entries, LAMBDA e : e.file = file)
        Best(i) == \A j \in DOMAIN entries : /\ ~Newer(entries[j].updated, entries[i].updated)
                                             /\ j < i => Newer(entries[i].updated, entries[j].updated)
    IN IF entries = <<>> THEN <<>> ELSE <<entries[CHOOSE i \in DOMAIN entries : Best(i)]>>

\* snapshot_candidate: a <snapshot> counts only without <snapshotVersions>.
CandidateOf(metadata, entry) ==
    IF entry # <<>> THEN "specific"
    ELSE IF metadata.entries = <<>> /\ metadata.snapshot # <<>> THEN "generic" ELSE "absent"

\* snapshot_version_for: a <snapshot> without a usable build, and a file the
\* entries omit, is the base version; metadata without one is invalid.
VersionFor(metadata, entry) ==
    IF entry # <<>> THEN entry[1].value
    ELSE IF CandidateOf(metadata, entry) = "generic" /\ metadata.snapshot[1] # "unusable" THEN metadata.snapshot[1]
    ELSE IF metadata.base THEN "base" ELSE "invalid"

Resolution(version, candidate, updated) ==
    [kind |-> "resolution", version |-> version, candidate |-> candidate, updated |-> updated]

\* Offline and in a frozen check a pinned build stands, where this repository
\* served it; q.plain are the repositories with a pinned base file cached.
PinsStand(q, repo) == (q.offline /\ ~repo.local) \/ q.frozen

\* The pins of raeva.lock, newest first, that this repository served: the
\* lock records it for the file, or its POM is cached.
ServedPins(q, repo) ==
    IF PinsStand(q, repo)
    THEN SelectSeq(Reverse(q.pins), LAMBDA p : p.file = q.file /\ repo.id \in p.origins \cup p.cached)
    ELSE <<>>

\* resolve_snapshot_version_routed
SnapshotIn(q, repo) ==
    LET pins == ServedPins(q, repo)
        Read(entry) ==
            IF VersionFor(repo.answer, entry) = "invalid" THEN [kind |-> "invalid"]
            ELSE Resolution(VersionFor(repo.answer, entry), CandidateOf(repo.answer, entry),
                            IF entry # <<>> THEN entry[1].updated ELSE repo.answer.updated)
    IN IF pins # <<>> THEN Resolution(pins[1].build, "pinned", 0)
       ELSE IF repo.id \in q.plain /\ PinsStand(q, repo) THEN Resolution("base", "pinned", 0)
       ELSE IF repo.answer.kind = "missing" /\ repo.local THEN Resolution("base", "absent", 0)
       ELSE IF repo.answer.kind # "metadata" THEN repo.answer
       ELSE Read(EntryFor(repo.answer, q.file))

\* The first candidate of its kind with the greatest time.
NewestOf(found, candidate) ==
    LET own == SelectSeq(found, LAMBDA f : f.is.candidate = candidate)
        Best(i) == \A j \in DOMAIN own : /\ ~Newer(own[j].is.updated, own[i].is.updated)
                                         /\ j < i => Newer(own[i].is.updated, own[j].is.updated)
    IN IF own = <<>> THEN <<>> ELSE <<own[CHOOSE i \in DOMAIN own : Best(i)]>>

\* A <snapshot> build wins only when it is newer and of another repository.
BestOf(specific, generic) ==
    IF specific = <<>> THEN generic
    ELSE IF /\ generic # <<>>
            /\ Newer(generic[1].is.updated, specific[1].is.updated)
            /\ generic[1].repo # specific[1].repo
    THEN generic ELSE specific

\* The first repository that has the pinned build, pinned or named.
FirstServing(found, version) ==
    SelectSeq(found, LAMBDA f : f.is.candidate # "absent" /\ f.is.version = version)[1]

Build(found) == [repo |-> IF found.is.candidate = "absent" THEN "" ELSE found.repo, version |-> found.is.version]

\* newest_snapshot over what every repository answered
NewestSnapshot(repos, answers) ==
    LET resolved(i) == answers[i].kind = "resolution"
        found == FoldLeft(LAMBDA s, i : IF resolved(i) THEN Append(s, [repo |-> repos[i].id, is |-> answers[i]]) ELSE s,
                          <<>>, [i \in DOMAIN answers |-> i])
        kinds == [i \in DOMAIN answers |-> answers[i].kind]
        pinned == SelectSeq(found, LAMBDA f : f.is.candidate = "pinned")
        best == BestOf(NewestOf(found, "specific"), NewestOf(found, "generic"))
        base == SelectSeq(found, LAMBDA f : f.is.candidate = "absent")
    IN IF Contains(kinds, "retried") THEN Failed("retried")
       ELSE IF pinned # <<>> THEN Chosen(Build(FirstServing(found, pinned[1].is.version)))
       ELSE IF best \o base # <<>> THEN Chosen(Build((best \o base)[1]))
       ELSE IF \E i \in DOMAIN kinds : kinds[i] \in {"fatal", "invalid"}
            THEN Failed(SelectSeq(kinds, LAMBDA k : k \in {"fatal", "invalid"})[1])
       ELSE Chosen([repo |-> "", version |-> "base"])

\* resolve_snapshot_version_internal; filter_repos_for_version
ResolveSnapshot(q) ==
    LET eligible == SelectSeq(q.repos, LAMBDA r : r.snapshots)
    IN IF q.module THEN Chosen([repo |-> "", version |-> "base"])
       ELSE IF eligible = <<>> THEN Failed("no snapshot repository")
       ELSE NewestSnapshot(eligible, [i \in DOMAIN eligible |-> SnapshotIn(q, eligible[i])])

-----------------------------------------------------------------------------
ChoiceInit == query \in Queries /\ choice = NoChoice

Choose ==
    /\ choice = NoChoice
    /\ choice' = << CASE query.kind = "range" -> ResolveVersions(query)
                      [] query.kind = "parent" -> ParentRangeVersion(query)
                      [] query.kind = "marker" -> ResolveDynamic(query)
                      [] query.kind = "snapshot" -> ResolveSnapshot(query) >>
    /\ UNCHANGED query

-----------------------------------------------------------------------------
(* Properties                                                              *)

Answered == choice # NoChoice /\ choice[1].ok
Value == choice[1].value
AnsweredBy(repos) == {r \in ToSet(repos) : r.answer.kind = "metadata"}

\* A range lists every spelling an answering repository of the right policy or
\* a reactor module has in it, once, in Maven's order, and nothing else.
RangeListing ==
    LET allowed == ToSet(query.workspace)
                     \cup UNION {{v \in ToSet(r.answer.versions) : Allows(r, v)} :
                                    r \in {x \in AnsweredBy(query.repos) : Lists(x, TRUE)}}
    IN /\ {v.text : v \in ToSet(Value)} = {v.text : v \in {x \in allowed : x.rank \in query.range}}
       /\ \A i, j \in DOMAIN Value : i < j => Value[i].text # Value[j].text /\ Value[i].rank <= Value[j].rank

\* A parent range takes a highest version, of the reactor where it counts and
\* has one as high.
HighestParent ==
    LET own == {v \in ToSet(query.workspace) : query.reactor /\ v.rank \in query.range}
        listed == UNION {{v \in ToSet(r.answer.versions) : Allows(r, v) /\ v.rank \in query.range} :
                            r \in {x \in AnsweredBy(query.repos) : Lists(x, TRUE)}}
    IN /\ \A v \in own \cup listed : v.rank <= Value[1].rank
       /\ Value[1] \in IF \E v \in own : v.rank = Value[1].rank THEN own ELSE listed

\* LATEST and RELEASE take a marker of a repository whose own policy allows
\* it, and no repository updated later marks another eligible one.
MarkerOfNewest ==
    LET marker(r, m) == IF r.answer[m] = <<>> THEN <<>>
                        ELSE IF Admits(query.token, r.answer[m][1]) /\ Allows(r, r.answer[m][1]) THEN r.answer[m]
                        ELSE <<>>
        read == {r \in AnsweredBy(query.repos) : Lists(r, query.token = "LATEST")}
        latest == {r \in read : query.token = "LATEST" /\ marker(r, "latest") # <<>>}
        release == {r \in read : marker(r, "release") # <<>>}
        Newest(rs, m) == \E r \in rs : marker(r, m) = Value /\ \A x \in rs : x.answer.updated <= r.answer.updated
    IN IF latest # {} THEN Newest(latest, "latest")
       ELSE IF release # {} THEN Newest(release, "release")
       ELSE Value[1] \in ToSet(query.workspace)

\* A build raeva.lock pins, and a repository has served, stands; else no
\* repository names a newer build, and one its <snapshot> names stands only
\* over older ones that entries of the file name.
NewestBuild ==
    LET eligible == {r \in ToSet(query.repos) : r.snapshots}
        answer(r) == SnapshotIn(query, r)
        resolved == {r \in eligible : answer(r).kind = "resolution"}
        of(candidate) == {r \in resolved : answer(r).candidate = candidate}
        chosen == CHOOSE r \in resolved : r.id = Value.repo
    IN IF query.module THEN Value.version = "base"
       ELSE IF of("pinned") # {} THEN Value.version \in {answer(r).version : r \in of("pinned")}
       ELSE IF of("specific") \cup of("generic") = {} THEN Value = [repo |-> "", version |-> "base"]
       ELSE /\ Value.version = answer(chosen).version
            /\ \A r \in of("specific") : answer(r).updated <= answer(chosen).updated
            /\ \A r \in of("generic") : answer(r).updated <= answer(chosen).updated
            /\ answer(chosen).candidate = "generic" /\ of("specific") # {} =>
                   \A r \in of("specific") : answer(r).updated < answer(chosen).updated

\* A version is chosen from all the repositories Maven would read: a listing
\* passes over none that a retried request failed on or that its configuration
\* refuses (backend.rs 1670-1680), and a SNAPSHOT over none that a retried
\* request failed on; one whose configuration refuses its builds stands aside
\* for another's (backend.rs 1962-1973). The choice is the one above.
VersionChoicesSound ==
    Answered =>
        /\ query.kind # "snapshot" =>
             \A r \in ToSet(query.repos) :
                Lists(r, query.kind # "marker" \/ query.token = "LATEST") => r.answer.kind \notin {"retried", "fatal"}
        /\ query.kind = "snapshot" /\ ~query.module =>
             \A r \in ToSet(query.repos) : r.snapshots => SnapshotIn(query, r).kind # "retried"
        /\ CASE query.kind = "range" -> RangeListing
             [] query.kind = "parent" -> HighestParent
             [] query.kind = "marker" -> MarkerOfNewest
             [] query.kind = "snapshot" -> NewestBuild
=============================================================================

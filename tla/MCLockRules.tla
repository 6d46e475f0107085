------------------------------ MODULE MCLockRules ------------------------------
(***************************************************************************)
(* What a raeva.lock means and what export-m2 plans from one, each         *)
(* evaluated on every input of a small set.                                *)
(***************************************************************************)
EXTENDS LockFile, LockTrust, LockDrift, TLC

VARIABLES in, out
vars == <<in, out>>

-----------------------------------------------------------------------------
(* Locks to export                                                         *)

Ga(rank, name) == [group |-> <<"g">>, name |-> name, rank |-> rank]
Lib == Ga(2, "lib")
Par == Ga(1, "par")
Top == Ga(3, "top")

Jar == [ga |-> Lib, v |-> Release(1), kind |-> "jar", build |-> 0, pomBuild |-> 0, pomBase |-> FALSE,
        alg |-> "sha256", pin |-> 1, pom |-> 2, url |-> "c", from |-> {"c"}, pomFrom |-> {}]
JarSnapshot == [Jar EXCEPT !.v = Snapshot(1, 0), !.build = 1]
RowSets ==
    {<<Jar>>, <<[Jar EXCEPT !.alg = "sha1"]>>, <<[Jar EXCEPT !.pom = NoBlob]>>, <<[Jar EXCEPT !.pomFrom = {"p"}]>>,
     <<Jar, [Jar EXCEPT !.kind = "sources", !.pin = 5, !.from = {"p"}]>>,
     <<[Jar EXCEPT !.kind = "pom", !.pin = 2]>>, <<JarSnapshot>>, <<[JarSnapshot EXCEPT !.pomBuild = 2]>>,
     <<[JarSnapshot EXCEPT !.pomBase = TRUE]>>, <<[JarSnapshot EXCEPT !.build = 0]>>,
     <<[Jar EXCEPT !.v = Snapshot(1, 1)], [JarSnapshot EXCEPT !.kind = "sources", !.pin = 5, !.build = 2]>>}
Support(ga, v, build, blob) == [ga |-> ga, v |-> v, build |-> build, blob |-> blob, from |-> "c"]
SupportSets ==
    {{}, {Support(Par, Release(1), 0, 3)}, {Support(Par, Release(1), 0, 3), Support(Par, Release(2), 0, 4)},
     {Support(Par, Snapshot(1, 0), 1, 3)}, {Support(Par, Snapshot(1, 1), 0, 3), Support(Par, Snapshot(1, 2), 0, 4)},
     {Support(Par, Snapshot(1, 0), 0, 3), Support(Par, Snapshot(1, 1), 0, 4)},
     {Support(Lib, Release(1), 0, 2)}, {Support(Lib, Release(1), 0, 4)}}
Second(platform, from) ==
    [rows |-> [i \in DOMAIN platform.rows |-> [platform.rows[i] EXCEPT !.url = from, !.from = {from}]],
     support |-> {[p EXCEPT !.from = from] : p \in platform.support}]
Locks == {[platforms |-> IF o[1] = "c" THEN <<[rows |-> r, support |-> s]>>
                         ELSE <<[rows |-> r, support |-> s], Second([rows |-> r, support |-> s], o[1])>>,
           ids |-> [c |-> {"central"}, p |-> o[2]]] :
            r \in RowSets, s \in SupportSets, o \in {<<"c", {"pid"}>>, <<"p", {}>>, <<"p", {"pid"}>>}}
Configs == {[repos |-> {[id |-> "central", origin |-> "c"], [id |-> x, origin |-> x2]}, project |-> <<{}, IF m THEN {} ELSE {[id |-> "pid", origin |-> "p"]}>>,
             mirror |-> [id \in {"central", "pid", NoId} |-> IF id = "central" /\ m THEN [id |-> "mm", at |-> "m"] ELSE [id |-> NoId, at |-> NoBlob]]] :
              x \in {NoId}, x2 \in {"p"}, m \in BOOLEAN}
Ref(v, range) == [ga |-> Par, v |-> v, range |-> range]
Parents == {NoBlob, Ref(Release(1), {}), Ref(Snapshot(1, 0), {}), Ref(Release(9), {Release(1), Release(2), Snapshot(2, 0)}),
            [ga |-> Top, v |-> Release(1), range |-> {}]}
Keys == {Key(ga, v, k) : ga \in {Lib, Par}, v \in {Release(1), Release(2)} \cup {Snapshot(1, b) : b \in 0..2}, k \in {"jar", "pom", "sources"}}
StoreOf(parent, sound, index, origin, endpoint) ==
    [present |-> 1..5, sound |-> sound, parent |-> [b \in 1..5 |-> IF b = 2 THEN parent ELSE NoBlob], index |-> index,
     served |-> {[key |-> k, blob |-> b, origin |-> origin, endpoint |-> endpoint] : k \in Keys, b \in 1..5}]
Stores == {StoreOf(parent, 1..5, {<<FileKey(Jar), b>>}, "c", e) : parent \in Parents, b \in {1, 4}, e \in {"c", "m"}}
          \cup {StoreOf(NoBlob, 1..4, {}, o, o) : o \in {"p", "q"}}
ReactorPoms == {[poms |-> <<>>, modules |-> {}, limit |-> 9],
                [poms |-> <<[local |-> FALSE, parent |-> Ref(Release(1), {})]>>, modules |-> {<<Top, Release(1)>>}, limit |-> 1]}
PlanInputs == [kind : {"plan"}, lock : Locks, config : Configs, store : Stores, reactor : ReactorPoms]


-----------------------------------------------------------------------------
(* Destinations                                                            *)

\* Two rules a volume may fold by: one keeps "ss" and "sz" apart.
Folds == [lower |-> [X |-> "x", Central |-> "central"],
          fold |-> [X |-> "x", Central |-> "central", sz |-> "ss"]]
Named(group, name) == [group |-> group, name |-> name, rank |-> 0]
Gas == {Named(g, n) : g \in {<<"x">>, <<"X">>, <<"x", "x">>}, n \in {"x", "X", "1", "1-SNAPSHOT", "ss", "sz"}}
       \cup {Named(<<"x">>, "maven-metadata")}
Marked(key, ids) == [key |-> key, ids |-> ids]
DestinationKeys ==
    {Key(ga, v, "jar") : ga \in Gas, v \in {Release(1), Snapshot(1, 0), Snapshot(1, 1)}}
    \cup {Key(Named(<<"x">>, "x"), Release(1), k) : k \in {"jar.sha1", "pom"}}
    \cup {Key(Named(<<"x">>, "maven-metadata"), v, "xml") : v \in {Release(1), Snapshot(1, 0)}}
MetaOf(units, ids) ==
    [lists |-> {<<u.key.ga, id, Base(u.key.v)>> : u \in units, id \in ids}, builds |-> {},
     stamped |-> UNION {{<<u.key.ga, Base(u.key.v), id>> : id \in ids} : u \in {w \in units : IsTimestamped(w.key.v)}},
     plain |-> {<<u.key.ga, u.key.v>> : u \in {w \in units : IsPlain(w.key.v)}}]
Destination(keys, marks, ids, shared, replaces) ==
    LET units == {Marked(key, marks) : key \in keys}
    IN [units |-> SetToSeq(units), meta |-> MetaOf(units, ids), query |-> {"central", "Central"}, shared |-> shared,
        replaces |-> replaces]
Beside == {Key(Named(<<"x">>, "x"), v, "jar") : v \in {Release(1), Snapshot(1, 1)}}
          \cup {Key(Named(<<"x", "x">>, "ss"), Release(1), "jar"), Key(Named(<<"x">>, "maven-metadata"), Snapshot(1, 0), "jar")}
KeySets == {{j, k} : j \in Beside, k \in DestinationKeys}
Sums == <<"md5", "sha1">>
DestinationInputs ==
    {[kind |-> "destination", destination |-> Destination(keys, ids[1], ids[2], shared, ~shared), folds |-> folds] :
       keys \in KeySets, ids \in {<<{}, {}>>, <<{"central"}, {"Central"}>>}, shared \in BOOLEAN, folds \in BOOLEAN}

-----------------------------------------------------------------------------
(* Locks to validate and to merge                                          *)

FileEnds == [targz |-> "x.tar.gz", xtargz |-> "x.tar.gz"]
Row(v, kind, build, sums, pom) ==
    [ga |-> Lib, v |-> v, kind |-> kind, build |-> build, pomBuild |-> 0, pomBase |-> FALSE, sums |-> sums, pom |-> pom,
     url |-> "c", from |-> {"c"}, pomFrom |-> {}]
Sha(d) == {<<"sha256", d>>}
Snap(b, d, pom) == Row(Snapshot(1, 0), "jar", b, Sha(d), pom)
LockRows ==
    {<<>>} \cup {<<Row(Release(1), k, 0, s, pom)>> : k \in {"jar", "targz"}, pom \in {2, NoBlob},
                   s \in {Sha(1), Sha(5), {<<"sha1", 1>>}, Sha(1) \cup {<<"sha1", 1>>}, Sha(1) \cup {<<"sha1", 5>>}}}
    \cup {<<Row(v, "pom", b, Sha(2), p)>> : v \in {Release(1), Snapshot(1, 0)}, b \in {0, 1}, p \in {2, 5}}
    \cup {<<Snap(b, d, pom)>> : b \in 0..2, d \in {1, 5}, pom \in {2, 5}}
    \cup {<<[Snap(1, 1, 2) EXCEPT !.pomBuild = 2]>>, <<[Snap(1, 1, 5) EXCEPT !.pomBase = TRUE]>>,
          <<[Snap(1, 1, NoBlob) EXCEPT !.pomBase = TRUE]>>,
          <<Snap(1, 1, 2), Row(Snapshot(1, 1), "jar", 0, Sha(1), 2)>>,
          <<Snap(1, 1, 2), Row(Snapshot(1, 1), "jar", 0, Sha(5), 2)>>,
          <<Snap(1, 1, 2), Row(Snapshot(1, 0), "sources", 2, Sha(5), 2)>>,
          <<Row(Release(1), "xtargz", 0, Sha(5), 2), Row(Release(1), "jar", 0, Sha(1), 2)>>}
LockSupport ==
    {{}} \cup {{Support(Lib, Release(1), 0, d)} : d \in {2, 5}}
    \cup {{Support(Lib, Snapshot(1, 0), b, d)} : b \in 0..2, d \in {2, 5}}
    \cup {{Support(Lib, Snapshot(1, 0), 1, 2), Support(Lib, Snapshot(1, 1), 0, d)} : d \in {2, 5}}
Package(key, ws, sys) == [key |-> key, ws |-> ws, sys |-> sys, scope |-> IF sys = NoBlob THEN "compile" ELSE "system"]
AModule(path, rows, support) ==
    [path |-> path, gav |-> <<Top, Release(1)>>, packages |-> [i \in DOMAIN rows |-> Package(Coord(rows[i]), NoBlob, NoBlob)],
     edges |-> {}, support |-> {SupportCoord(pin) : pin \in support}]
OnPlatform(os, rows, support) ==
    [os |-> os, jdk |-> NoBlob, modules |-> <<AModule("a", rows, support)>>, rows |-> rows, support |-> support]
Contents == {<<r, {}>> : r \in LockRows} \cup {<<r, s>> : r \in {<<>>, <<Snap(1, 1, 2)>>, <<Snap(2, 1, 2)>>,
                 <<Row(Release(1), "jar", 0, Sha(1), NoBlob)>>}, s \in LockSupport}
LockInputs ==
    {[kind |-> "lock", fresh |-> <<OnPlatform("a", c[1], c[2])>>, previous |-> <<OnPlatform("b", d[1], d[2])>>] :
       c \in Contents, d \in Contents}
    \cup {[kind |-> "lock", fresh |-> <<OnPlatform("a", c[1], c[2]), OnPlatform("b", d[1], d[2])>>, previous |-> <<>>] :
             c \in Contents, d \in Contents}

-----------------------------------------------------------------------------
(* Reactors, repositories and hosts to lock                                *)

Pom(deps) == [version |-> 1, deps |-> deps, tests |-> <<>>, imports |-> {}, parent |-> FALSE, note |-> 0, managed |-> 0]
Test(on, os, dep) == [on |-> on, is |-> 1, os |-> os, dep |-> dep]
Chain == [a |-> Pom({"b"}), b |-> Pom({"c"}), c |-> Pom({"x"})]
Edits(s) ==
    {[s EXCEPT !.a.deps = {"x"}], [s EXCEPT !.b.deps = {"y"}], [s EXCEPT !.c.deps = {"y"}], [s EXCEPT !.c.version = 2],
     [s EXCEPT !.a.imports = {"c"}], [s EXCEPT !.c.managed = 1], [s EXCEPT !.a.parent = TRUE], [s EXCEPT !.b.note = 1],
     [s EXCEPT !.a.imports = {"r"}], [s EXCEPT !.b.tests = <<Test("p", EveryModule, "y")>>],
     [s EXCEPT !.b.tests = <<Test("env", EveryModule, "y"), Test("jdk", "t2", "x")>>],
     [s EXCEPT !.a.tests = <<Test("jdk", "t2", "y"), Test("p", "t1", "c")>>]}
External(deps, pin, tests) == [deps |-> deps, imports |-> {}, pin |-> pin, file |-> pin, tests |-> tests]
Upstream(x, y, r, pin) ==
    [x |-> External(x, pin, <<>>), y |-> External(y, 1, <<>>), r |-> External(r, pin, <<Test("p", EveryModule, "y"), Test("jdk", "t2", "x")>>),
     a |-> External({}, 1, <<>>), b |-> External({}, 1, <<>>), c |-> External({}, 1, <<>>)]
Upstreams == {Upstream({}, {}, {}, 1), Upstream({}, {}, {}, 2), Upstream({"y"}, {}, {"x"}, 2), Upstream({}, {"c"}, {"c"}, 1),
              [Upstream({}, {}, {}, 1) EXCEPT !.x.file = 2]}
World(define, settings, jvm, env, named, jdk, config) ==
    [define |-> define, settings |-> settings, jvm |-> jvm, env |-> env, named |-> named, jdk |-> jdk, config |-> config]
Worlds == {World(Unset, Unset, Unset, Unset, FALSE, 0, 1), World(1, Unset, Unset, Unset, FALSE, 0, 1),
           World(Unset, 1, Unset, Unset, TRUE, 0, 1), World(2, 1, Unset, 1, TRUE, 0, 1), World(Unset, Unset, 1, 2, TRUE, 1, 1),
           World(Unset, Unset, Unset, 1, FALSE, 1, 2)}
First == CHOOSE w \in Worlds : w.jdk = 0 /\ w.config = 1 /\ w.define = Unset /\ w.settings = Unset
Step(sources, upstream, world) == [sources |-> sources, upstream |-> upstream, world |-> world]
Plain == Upstream({}, {}, {}, 1)
SyncInput(first, second, sources, world) ==
    [kind |-> "sync", targets |-> {"t1"}, first |-> first, second |-> second, last |-> [sources |-> sources, world |-> world]]
Tested == {s \in Edits(Chain) : s.a.tests # <<>> \/ s.b.tests # <<>> \/ s.a.parent}
\* The world, the sources or upstream change between one sync and the next,
\* and the world or the sources before the lock is trusted; two branches
\* change the sources, upstream or the world.
AWorldChanges ==
    \E s \in Tested, u \in {Plain, Upstream({"y"}, {}, {"x"}, 2)}, w \in Worlds, v \in Worlds, z \in Worlds :
       in = SyncInput(Step(s, Plain, w), Step(s, u, v), s, z)
SourcesChange ==
    \E s \in {Chain} \cup Edits(Chain) : \E t \in {s} \cup Edits(s), z \in {s} \cup Edits(s), u \in Upstreams :
       in = SyncInput(Step(s, Plain, First), Step(t, u, First), z, First)
BranchesMerge ==
    \E s \in {Chain} \cup Tested, v \in {Plain, Upstream({}, {"c"}, {"c"}, 1)}, w \in {First, World(1, Unset, Unset, Unset, FALSE, 0, 1)} :
       \E t \in {s} \cup Edits(s), z \in {s} \cup Edits(s), u \in Upstreams :
          in = [kind |-> "merge", base |-> Step(s, Plain, First), ours |-> Step(t, u, First), theirs |-> Step(z, v, w)]

-----------------------------------------------------------------------------
(* Origins in two checkouts, fresh resolutions, locks to write             *)

\* /l and /m are links to the checkouts /p and /q, /p/k one out of the first.
Links == (<<"l">> :> <<"p">>) @@ (<<"m">> :> <<"q">>) @@ (<<"p", "k">> :> <<"x">>)
Checkouts == {[root |-> <<"p">>, given |-> <<"p">>], [root |-> <<"p">>, given |-> <<"l">>]}
Moved == {[root |-> <<"q">>, given |-> <<"q">>], [root |-> <<"q">>, given |-> <<"m">>], [root |-> <<"p">>, given |-> <<"l">>]}
Declaration(base, path) == [base |-> base, path |-> path]
Declarations == {Declaration("project", <<n>>) : n \in {"r", "k", "b:d"}}
    \cup {Declaration("file", <<"p", "r">>), Declaration("file", <<"l", "r">>), Declaration("file", <<"l", "k">>),
          Declaration("file", <<"x">>), Declaration("http", <<"h">>)}
UrlOf(d, checkout, slash) ==
    IF d.base = "project" THEN Location("file", checkout.root \o d.path, slash) ELSE Location(d.base, d.path, slash)
Policy(id, url, ttl, enabled, unresolved) ==
    [id |-> id, url |-> url, ttl |-> ttl, enabled |-> enabled, unresolved |-> unresolved, admitted |-> TRUE]
OriginInputs ==
    {[kind |-> "origin", checkout |-> c, later |-> m, from |-> d, now |-> now, age |-> age, ttls |-> ttls] :
       c \in Checkouts, m \in Moved, d \in Declarations, now \in {<<e>> : e \in Declarations} \cup {<<e, f>> : e, f \in Declarations},
       age \in {2}, ttls \in {<<1, 3>>, <<3, 1>>, <<3, 3>>}}
FilesWith(bytes) == [path \in {<<"p", "r">>, <<"q", "r">>, <<"x">>} |-> bytes]
OriginOutcome(i) ==
    LET before == ForRoot(i.checkout.given)
        now == ForRoot(i.later.given)
        recorded == RecordedOrigin(before, UrlOf(i.from, i.checkout, FALSE))
        urls == [k \in DOMAIN i.now |-> UrlOf(i.now[k], i.later, TRUE)]
        own == [k \in DOMAIN urls |-> Policy(k, urls[k], i.ttls[k], TRUE, FALSE)]
        system == RecordSystemFile(i.checkout.given, UrlOf(i.from, i.checkout, FALSE).path, FilesWith(1))
    IN [recorded |-> recorded, system |-> system,
        systemDrift |-> system # NoValue /\ SystemFileDrift(i.later.given, system, FilesWith(i.ttls[2])),
        undeclared |-> UndeclaredOrigin(now, {recorded}, {}, Range(urls)) # {},
        selected |-> SelectOrigin(now, recorded, urls),
        alias |-> OriginAlias(now, Range(urls)),
        due |-> LockRequiresSnapshotRefresh([files |-> {[coord |-> 1, url |-> recorded, snapshot |-> TRUE]}, support |-> {}],
                    <<[coords |-> {1}, declared |-> <<>>]>>, own, <<>>, now, i.age, 9)]

ReactorPackage(gav, module) == [gav |-> gav, module |-> module]
ReactorLock(va, vb, package, range, x) ==
    [ModuleA |-> [gav |-> <<"A", va>>, packages |-> package \cup {x}, edges |-> package \X {x}, ranges |-> range],
     ModuleB |-> [gav |-> <<"B", vb>>, packages |-> {x}, edges |-> {}, ranges |-> {}]]
ReactorLocks == {ReactorLock(va, vb, p, r, x) : va, vb \in {"1", "2"},
                   p \in {{}} \cup {{ReactorPackage(<<"B", v>>, "ModuleB")} : v \in {"1", "2"}},
                   r \in {{}} \cup {{[model |-> <<g, v>>, picks |-> 1]} : g \in {"A", "B"}, v \in {"1", "2"}},
                   x \in {ReactorPackage(<<"B", "1">>, NoValue), ReactorPackage(<<"B", "2">>, NoValue)}}
\* A resolution names a module of the reactor at its own version.
ResolvedLocks == {m \in ReactorLocks : \A p \in m.ModuleA.packages : p.module # NoValue => p.gav = m.ModuleB.gav}
PinRow(url, build, pin) == [url |-> url, others |-> {}, poms |-> {}, build |-> build, pomBuild |-> build, pom |-> 1, pin |-> pin]
PinRows == {PinRow(u, b, p) : u \in {"c", "d"}, b \in {"release", "b1"}, p \in {NoValue, 1, 2}}
ALock(modules, row, pom, host, config) ==
    [platforms |-> [t |-> [modules |-> modules, artifacts |-> [j |-> row], support |-> [s |-> pom], profiles |-> NoValue]],
     host |-> host, config |-> config, ids |-> {}]
OneRow == PinRow("c", "release", 1)
NoHost == [c \in {} |-> TRUE]
Hosts == {NoHost, [os |-> TRUE], [os |-> FALSE], [jdk |-> TRUE]}
ARef == CHOOSE m \in ReactorLocks : TRUE
DriftInputs ==
    {[kind |-> "drift", disk |-> ALock(m, OneRow, OneRow, NoHost, 1), fresh |-> ALock(n, OneRow, OneRow, NoHost, 1), declared |-> {}] : m \in ReactorLocks, n \in ResolvedLocks}
    \cup {[kind |-> "drift", disk |-> ALock(ARef, r, OneRow, NoHost, 1), fresh |-> ALock(ARef, s, OneRow, NoHost, 1), declared |-> d] :
            r, s \in PinRows, d \in {{}, {"c"}, {"d"}}}
    \cup {[kind |-> "drift", disk |-> ALock(ARef, OneRow, r, NoHost, 1), fresh |-> ALock(ARef, OneRow, s, NoHost, 1), declared |-> d] :
            r, s \in {q \in PinRows : q.pin # NoValue}, d \in {{}, {"c"}, {"d"}}}
    \cup {[kind |-> "drift", disk |-> ALock(ARef, OneRow, OneRow, h, 1), fresh |-> ALock(ARef, OneRow, OneRow, k, c), declared |-> {}] : h, k \in Hosts, c \in 1..2}

Line(direct, scope, module, path) ==
    [coord |-> "g:a:1", kind |-> "jar", direct |-> direct, scope |-> scope, module |-> module, path |-> path, sha |-> path]
Lines == {Line(d, s, m, p) : d \in {"", "compile", "test"}, s \in {"compile", "test"}, m, p \in {"", "f"}}
GraphEdge(scope, optional) == [from |-> 0, to |-> 1, scope |-> scope, optional |-> optional]
WrittenEntry(packages, edges, names) ==
    [files |-> 1, modules |-> [m |-> [packages |-> packages, edges |-> edges]],
     inputs |-> [names |-> names[1], host |-> NoValue, poms |-> [m |-> [graph |-> 1, names |-> names[2]], n |-> [graph |-> 1, names |-> {}]]]]
WrittenEntries == {WrittenEntry(<<l>>, <<GraphEdge(s, o)>>, n) : l \in Lines, s \in {"", "test"}, o \in BOOLEAN, n \in {<<{}, {"x"}>>}}
           \cup {WrittenEntry(<<>>, <<>>, n) : n \in {<<{}, {}>>, <<{"x"}, {"y"}>>}} 
CodecInputs == {[kind |-> "codec", lock |-> [t1 |-> e, t2 |-> f]] : e, f \in WrittenEntries}

-----------------------------------------------------------------------------

Evaluate(i) ==
    CASE i.kind = "plan" -> ExportPlan(i)
      [] i.kind = "lock" -> LockOutcome(i)
      [] i.kind = "destination" -> DestinationsAccepted(i.destination, i.folds)
      [] i.kind = "sync" -> Synced(i)
      [] i.kind = "merge" -> MergedBranches(i)
      [] i.kind = "origin" -> OriginOutcome(i)
      [] i.kind = "drift" -> [drift |-> ResolutionDrift(i.disk, i.fresh, i.declared), adopted |-> AdoptModuleVersions(i.disk, i.fresh)]
      [] i.kind = "codec" -> [back |-> Decode(Encode(i.lock))]

Init ==
    /\ \/ in \in PlanInputs \/ in \in DestinationInputs \/ in \in LockInputs
       \/ in \in OriginInputs \/ in \in DriftInputs \/ in \in CodecInputs
       \/ AWorldChanges \/ SourcesChange \/ BranchesMerge
    /\ out = NoBlob
Compute == out = NoBlob /\ out' = Evaluate(in) /\ UNCHANGED in
Done == out # NoBlob /\ UNCHANGED vars
Next == Compute \/ Done
Spec == Init /\ [][Next]_vars

Computed(kind) == out # NoBlob /\ in.kind = kind

\* The files a plan writes are the locked ones with the parents Maven reads
\* beside them, each from a repository its row names (export/plan.rs 284-339).
PlanSound == Computed("plan") => PlanComplete(in, out) /\ PlanFromOwnRepositories(in, out)

\* A file that carries an id's marker has its version in that id's list, so
\* an offline Maven that reads the list of the repository it would ask finds
\* the file; and a build that a listing names is a file of the export.
Listed == Computed("plan") => ListedWhereMarked(in, out)

\* No two files of an accepted destination are one file on a volume that
\* folds names (check_destinations).
Apart == Computed("destination") => DestinationsApart(in, out)

\* A lock that validate and the merge accept pins one content for every path
\* of a local repository, over its platforms and row kinds (lock.rs 745-898).
LockedFiles == Computed("lock") => OneFilePerPath(in, out)

\* A partial sync keeps exactly the previous platforms that the merged lock
\* stays valid with, one at a time (merge.rs 108-193).
KeptPlatforms == Computed("lock") => KeptIffValid(in, out)

\* A graph that the frozen check accepts is what resolving now would give:
\* after two syncs with any change of sources, host or configuration between
\* them, and after Git merged two branches' locks line by line.
TrustedGraphs ==
    /\ Computed("sync") =>
         OnlyTrusted(out.second, in.last.sources, in.last.world, {in.first.upstream, in.second.upstream})
    /\ (Computed("merge") /\ ~Conflicting(out.sources)) =>
         OnlyTrusted(out.lock, out.sources, in.theirs.world, {in.base.upstream, in.ours.upstream, in.theirs.upstream})

\* The lock a sync has just written is frozen-valid for what it read, the
\* platforms and modules it kept from the previous lock included.
SyncedIsFrozen == Computed("sync") => AcceptedAsWritten(in, out)

\* Where an origin recorded in a checkout lies when read in another.
Place(recorded, checkout) ==
    IF IsProjectRelativeOrigin(recorded) THEN Location("file", checkout.root \o recorded.path, TRUE) ELSE recorded
Relocatable(d) == d.base = "http" \/ d = Declaration("file", <<"x">>) \/ (d.base = "project" /\ Range(d.path) \subseteq Portable)

\* A lock reused without resolving still stands for what it was locked from,
\* in a moved checkout or one reached through a link: an origin it accepts is
\* a declaration of the directory recorded, relative to this checkout; a
\* declaration still made is accepted; no snapshot repository's interval has
\* passed; a system file has the recorded bytes (lock_origin.rs 160-380,
\* drift.rs 102-344, system.rs 93-148).
ReusedLockStands ==
    Computed("origin") =>
      /\ OriginIdentity(Place(out.recorded, in.checkout)) = OriginIdentity(UrlOf(in.from, in.checkout, TRUE))
      /\ ~out.undeclared => /\ out.selected.is = "declared"
                            /\ OriginIdentity(out.selected.url) = OriginIdentity(Place(out.recorded, in.later))
      /\ (in.from \in Range(in.now) /\ Relocatable(in.from) /\ ~out.alias) => ~out.undeclared
      /\ ~out.due => \A k \in DOMAIN in.now : in.age < in.ttls[k]
      /\ (out.system # NoValue /\ ~out.systemDrift) =>
            LET file == ResolvedDirectory(in.later.root \o out.system.path)
            IN IsPrefix(in.later.root, file) /\ FilesWith(in.ttls[2])[file] = FilesWith(1)[<<"p">> \o out.system.path]

SamePins(l, r, declared) ==
    \A c \in DOMAIN l \cup DOMAIN r :
       /\ l[c].pin = r[c].pin /\ l[c].build = r[c].build
       /\ l[c].url = r[c].url \/ (l[c].build = "release" /\ l[c].url \in declared /\ l[c].pin # NoValue)

\* When a fresh resolution shows no drift, the lock with the reactor's new
\* versions adopted names the fresh modules, graph and ranges, and pins the
\* same builds; a row may name another repository only when a declared one
\* serves the same release (drift.rs 134-204, 346-604).
AdoptedIsFresh ==
    (Computed("drift") /\ ~out.drift) =>
      \A t \in DOMAIN in.fresh.platforms :
        /\ out.adopted[t] = in.fresh.platforms[t].modules
        /\ SamePins(in.disk.platforms[t].artifacts, in.fresh.platforms[t].artifacts, in.declared)
        /\ SamePins(in.disk.platforms[t].support, in.fresh.platforms[t].support, in.declared)

\* A written lock is read back as it was: targets that share a graph get it
\* with their own inputs, and no omitted column changes its meaning
\* (codec.rs 277-408, 713-965).
LocksReadBack == Computed("codec") => out.back = in.lock

\* What an export plans is what was locked, listed where Maven finds it and
\* apart from every other file.
ExportsPlanned == PlanSound /\ Listed /\ Apart

\* A graph that is accepted without resolving is the one that resolving
\* gives, and a sync's own lock is accepted.
GraphsTrusted == TrustedGraphs /\ SyncedIsFrozen

\* A lock that is merged, reused, moved, adopted, written and read still
\* stands for what was resolved.
LocksStand == LockedFiles /\ KeptPlatforms /\ ReusedLockStands /\ AdoptedIsFresh /\ LocksReadBack
=============================================================================

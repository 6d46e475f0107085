------------------------------- MODULE LockTrust -------------------------------
(***************************************************************************)
(* When raeva may trust a graph of raeva.lock without resolving again. A   *)
(* lock records, per target, a digest of each local POM in its context, a  *)
(* digest of each module's graph and the names of what the resolution      *)
(* read, and one hash of the configuration with the values of those names  *)
(* (rv-lock inputs.rs, lock.rs, ambient.rs; raeva lock_inputs/mod.rs;      *)
(* rv-resolver workspace.rs, lock.rs). `sync` of some targets keeps the    *)
(* others (raeva sync/merge.rs), and Git merges locks line by line. A hash *)
(* is modelled by the value it is taken of.                                *)
(***************************************************************************)
EXTENDS Naturals, FiniteSets, Sequences

CONSTANTS
    Unset,          \* a property or variable without a value
    NoList,         \* a target that lists none of its own: it read all the lock lists
    NoLock,         \* no lock, or one that Git could not merge
    Conflict,       \* a line two branches changed differently
    EveryModule,    \* a record that covers the whole reactor
    AllTargets,     \* the targets a lock can have
    MaxHostConditions,
    CommonReaders

-----------------------------------------------------------------------------
(* Inputs from outside the project. A world holds the value a -D gives the *)
(* property "p", the active settings profiles and .mvn/jvm.config give it, *)
(* whether any settings profile names it, the variable E, the JDK and the  *)
(* rest of the configuration.                                              *)

AmbientName(kind, name) == [kind |-> kind, name |-> name, spec |-> 0, holds |-> FALSE]
HostCondition(kind, spec) == [kind |-> kind, name |-> "", spec |-> spec, holds |-> FALSE]
UserProperty(name) == AmbientName("user", name)
SettingsProperty(name) == AmbientName("settings", name)
EnvName(name) == AmbientName("env", name)
JavaVersion == AmbientName("value", "java.version")
IsPropertyName(input) == input.kind \in {"user", "settings", "env"}
HostInputs(ambient) == {i \in ambient : ~IsPropertyName(i)}

PropertyValue(world) ==
    IF world.define # Unset THEN world.define
    ELSE IF world.settings # Unset THEN world.settings ELSE world.jvm
ConditionHolds(kind, spec, world) == IF kind = "jdk" THEN world.jdk >= spec ELSE world.env = spec
CurrentValue(input, world) ==
    CASE input.kind = "user" -> IF input.name # "p" THEN Unset
                                ELSE IF world.define # Unset THEN <<"value", world.define>>
                                ELSE IF world.jvm # Unset THEN <<"jvm", world.jvm>> ELSE Unset
      [] input.kind = "settings" -> IF input.name = "p" THEN world.settings ELSE Unset
      [] input.kind = "env" -> world.env
      [] input.kind = "value" -> world.jdk
      [] OTHER -> ConditionHolds(input.kind, input.spec, world)

\* A -D hides what settings.xml gives a name; otherwise it is covered,
\* listed or not.
Defined(input, world) == input.name = "p" /\ world.define # Unset
Companions(ambient, world) ==
    {SettingsProperty(i.name) : i \in {j \in ambient : j.kind = "user" /\ ~Defined(j, world)}}

\* Mutant: a settings.xml value counts only where the lock lists it.
ConfigHashListed(ambient, world) ==
    <<world.config, {v \in {<<i, CurrentValue(i, world)>> : i \in ambient} : v[2] # Unset \/ ~IsPropertyName(v[1])}>>

ConfigHash(ambient, world) ==
    <<world.config, {v \in {<<i, CurrentValue(i, world)>> : i \in ambient \cup Companions(ambient, world)} :
                       v[2] # Unset \/ ~IsPropertyName(v[1])}>>

-----------------------------------------------------------------------------
(* Profile conditions. A POM's tests are tried in turn up to the first     *)
(* that fails on the target; each that holds adds a dependency. A read is  *)
(* what a build reports, before the lock's limits.                         *)

TestHolds(test, world) ==
    IF test.on = "p" THEN PropertyValue(world) = test.is ELSE ConditionHolds(test.on, test.is, world)
TestsFor(pom, target) == SelectSeq(pom.tests, LAMBDA t : t.os \in {target, EveryModule})
TriedCount(tests, world) ==
    Cardinality({i \in DOMAIN tests : \A j \in 1..(i - 1) : TestHolds(tests[j], world)})
Tried(tests, world) == {tests[i] : i \in 1..TriedCount(tests, world)}
ReadsOf(test, world) ==
    CASE test.on = "p" -> {UserProperty("p")} \cup
                          IF world.named /\ world.define = Unset THEN {SettingsProperty("p")} ELSE {}
      [] test.on = "env" -> {UserProperty("env.E"), HostCondition("env=", test.is)}
      [] OTHER -> {HostCondition("jdk", test.is)}
PomReads(pom, world, target) == UNION {ReadsOf(t, world) : t \in Tried(TestsFor(pom, target), world)}
IsCondition(read) == read.kind \in {"jdk", "env="}

\* Past the limit a condition is recorded as the value it tests.
AmbientInput(read, world, within) ==
    IF ~IsCondition(read) THEN read
    ELSE IF within THEN [read EXCEPT !.holds = ConditionHolds(read.kind, read.spec, world)]
    ELSE IF read.kind = "jdk" THEN JavaVersion ELSE EnvName("E")
Within(reads) == Cardinality({r \in reads : IsCondition(r)}) <= MaxHostConditions
Recorded(reads, world, within) == {AmbientInput(r, world, within) : r \in reads}

\* The names among a graph's reads, a condition as the variable it tests.
ReadNames(reads) ==
    {r \in reads : IsPropertyName(r)} \cup {EnvName("E") : r \in {s \in reads : s.kind = "env="}}

-----------------------------------------------------------------------------
(* The reactor. `sources` maps a module's path to its POM: version, the    *)
(* dependencies and BOM imports it names, its tests, what it manages,      *)
(* whether its parent is in a repository, and bytes no model reads. A      *)
(* dependency names version 1; one that no module has is read upstream.    *)

InReactor(sources, name) == name \in DOMAIN sources /\ sources[name].version = 1
ActiveTests(pom, world, target) == {t \in Tried(TestsFor(pom, target), world) : TestHolds(t, world)}
LocalDeps(pom, world, target) == pom.deps \cup {t.dep : t \in ActiveTests(pom, world, target)}

\* What discovery reads of a module, and what its build adds from a parent.
Descriptor(pom, world, target) ==
    [version |-> pom.version, deps |-> LocalDeps(pom, world, target), imports |-> pom.imports, managed |-> pom.managed]
Hidden(sources, m) == sources[m].parent \/ \E i \in sources[m].imports : ~InReactor(sources, i)
NamedModules(sources, m, world, target) ==
    {i \in sources[m].imports : InReactor(sources, i)}
    \cup ((LocalDeps(sources[m], world, target) \cap DOMAIN sources) \ {m})

Grow(from, next) == from \cup UNION {next[n] : n \in from}
RECURSIVE Closure(_, _, _)
Closure(from, next, fuel) == IF fuel = 0 THEN from ELSE Closure(Grow(from, next), next, fuel - 1)

Covers(sources, named, m) ==
    IF Hidden(sources, m) THEN EveryModule
    ELSE LET reached == Closure(named[m], named, Cardinality(DOMAIN sources))
         IN IF \E n \in reached : Hidden(sources, n) THEN EveryModule ELSE reached

ContextOf(descriptors, covers, m) ==
    <<descriptors[m], [n \in (IF covers = EveryModule THEN DOMAIN descriptors ELSE covers) |-> descriptors[n]],
      covers = EveryModule>>
ModuleRecord(pom, active, context) == [pom |-> pom, active |-> active, context |-> context, reactor |-> NoList]

ModelWith(sources, descriptors, covers, active) ==
    [versions |-> [m \in DOMAIN sources |-> sources[m].version], covers |-> covers, profiles |-> UNION {active[m] : m \in DOMAIN active},
     records |-> [m \in DOMAIN sources |-> ModuleRecord(sources[m], active[m], ContextOf(descriptors, covers[m], m))]]
Discovered(sources, named, world, target) ==
    ModelWith(sources, [m \in DOMAIN sources |-> Descriptor(sources[m], world, target)],
              [m \in DOMAIN sources |-> Covers(sources, named, m)],
              [m \in DOMAIN sources |-> ActiveTests(sources[m], world, target)])
DiscoverReactorModel(sources, world, target) ==
    Discovered(sources, [m \in DOMAIN sources |-> NamedModules(sources, m, world, target)], world, target)
DiscoveryReads(sources, world, target) == UNION {PomReads(sources[m], world, target) : m \in DOMAIN sources}
WholeRecords(model) ==
    [m \in DOMAIN model.records |-> [model.records[m] EXCEPT !.reactor = <<model.profiles, model.records>>]]

-----------------------------------------------------------------------------
(* A resolution, as far as its graphs depend on the inputs. `upstream`     *)
(* maps an external name to its dependencies, imports, tests, the digest   *)
(* `pin` of its POM and the digest `file` of its artifact.                 *)

BuildDeps(sources, upstream, m, world, target) ==
    LocalDeps(sources[m], world, target) \cup (IF sources[m].parent THEN LocalDeps(upstream["r"], world, target) ELSE {})
Below(sources, upstream, world, target) ==
    [n \in DOMAIN upstream \cup DOMAIN sources |->
       IF InReactor(sources, n) THEN BuildDeps(sources, upstream, n, world, target) ELSE upstream[n].deps]
ImportsOf(sources, upstream) ==
    [n \in DOMAIN upstream \cup DOMAIN sources |->
       IF InReactor(sources, n) THEN sources[n].imports ELSE upstream[n].imports]
Reached(sources, upstream, below, m, world, target) ==
    Closure(BuildDeps(sources, upstream, m, world, target), below, Cardinality(DOMAIN below))
Models(sources, nodes, m) == {m} \cup {n \in nodes : InReactor(sources, n)}
Managed(sources, imports, models) ==
    {<<n, sources[n].managed>> :
       n \in {k \in Closure(UNION {sources[n].imports : n \in models}, imports, Cardinality(DOMAIN imports)) :
                InReactor(sources, k)}}
SupportPoms(sources, imports, models) ==
    {n \in Closure(UNION {sources[n].imports : n \in models}, imports, Cardinality(DOMAIN imports)) :
       ~InReactor(sources, n)}
    \cup (IF \E n \in models : sources[n].parent THEN {"r"} ELSE {})
RowOf(sources, imports, nodes, models) ==
    [local |-> {n \in nodes : InReactor(sources, n)}, external |-> {n \in nodes : ~InReactor(sources, n)},
     managed |-> Managed(sources, imports, models), support |-> SupportPoms(sources, imports, models)]
GraphOf(sources, upstream, m, world, target) ==
    LET nodes == Reached(sources, upstream, Below(sources, upstream, world, target), m, world, target)
    IN RowOf(sources, ImportsOf(sources, upstream), nodes, Models(sources, nodes, m))
GraphReads(sources, upstream, row, m, world, target) ==
    UNION {PomReads(sources[n], world, target)
             \cup (IF sources[n].parent THEN PomReads(upstream["r"], world, target) ELSE {}) : n \in {m} \cup row.local}

\* A reactor module that is read below an external POM.
ReactorThroughDependencies(sources, upstream, rows) ==
    \E m \in DOMAIN rows : \E x \in rows[m].external : \E n \in upstream[x].deps : InReactor(sources, n)
PomPins(names, upstream) == [x \in names |-> upstream[x].pin]
ArtifactPins(names, upstream) == [x \in names |-> [pom |-> upstream[x].pin, file |-> upstream[x].file]]
RepoIds(rows) == {<<"central", "c">>} \cup {<<"y", "p">> : m \in {n \in DOMAIN rows : "y" \in rows[n].external}}

-----------------------------------------------------------------------------
(* Locks                                                                   *)

TargetReads(entry, ids, ambient) ==
    [ids |-> IF entry.ids = NoList THEN ids ELSE entry.ids,
     host |-> IF entry.host = NoList THEN HostInputs(ambient) ELSE entry.host]
ReadsIn(lock, target) == TargetReads(lock.platforms[target], lock.ids, lock.ambient)

PinnedFor(names, pins) == [x \in names |-> IF x \in DOMAIN pins THEN pins[x] ELSE Unset]

PinnedPoms(entry) == [x \in DOMAIN entry.artifacts |-> entry.artifacts[x].pom]

\* Of an artifact's pins the digest covers its POM's alone.
GraphDigest(entry, config, reads, m) ==
    <<config, entry.records[m], entry.versions, entry.rows[m], PinnedFor(entry.rows[m].support, entry.support),
      entry.names, entry.own[m], reads, PinnedFor(entry.rows[m].external, PinnedPoms(entry))>>
GraphDigests(entry, config, reads) == [m \in DOMAIN entry.rows |-> GraphDigest(entry, config, reads, m)]
Canonical(lock) ==
    [lock EXCEPT !.platforms = [t \in DOMAIN lock.platforms |->
       [lock.platforms[t] EXCEPT !.graphs = GraphDigests(lock.platforms[t], lock.config, ReadsIn(lock, t))]]]

EntryNames(entry) == entry.names \cup UNION {entry.own[m] : m \in DOMAIN entry.own}
Agreed(pins, support, row) == row.external \subseteq DOMAIN pins /\ row.support \subseteq DOMAIN support
GraphsMatch(lock, entry, reads) ==
    /\ EntryNames(entry) \subseteq lock.ambient
    /\ DOMAIN entry.support \subseteq UNION {entry.rows[m].support : m \in DOMAIN entry.rows}
    /\ entry.graphs = GraphDigests(entry, lock.config, reads)

SetTargetReads(lock, reads) ==
    LET ids == UNION {reads[t].ids : t \in DOMAIN reads}
        host == UNION {reads[t].host : t \in DOMAIN reads}
    IN [lock EXCEPT !.ids = ids, !.ambient = {i \in @ : IsPropertyName(i)} \cup host,
          !.platforms = [t \in DOMAIN @ |->
             [@[t] EXCEPT !.ids = IF reads[t].ids = ids THEN NoList ELSE reads[t].ids,
                          !.host = IF reads[t].host = host THEN NoList ELSE reads[t].host]]]
CheckTargetReads(lock) ==
    \A t \in DOMAIN lock.platforms :
       /\ lock.platforms[t].ids = NoList \/ lock.platforms[t].ids \subseteq lock.ids
       /\ lock.platforms[t].host = NoList \/ lock.platforms[t].host \subseteq HostInputs(lock.ambient)
CheckReadUnions(lock) ==
    /\ lock.ids = UNION {ReadsIn(lock, t).ids : t \in DOMAIN lock.platforms}
    /\ HostInputs(lock.ambient) = UNION {ReadsIn(lock, t).host : t \in DOMAIN lock.platforms}
CheckRows(lock) ==
    \A t \in DOMAIN lock.platforms : \A m \in DOMAIN lock.platforms[t].rows :
       Agreed(lock.platforms[t].artifacts, lock.platforms[t].support, lock.platforms[t].rows[m])
Check(lock) == CheckTargetReads(lock) /\ CheckReadUnions(lock) /\ CheckRows(lock)

-----------------------------------------------------------------------------
(* sync: what a run resolved, bound to what it read, then joined with the  *)
(* targets of the previous lock it may keep                                *)

EntryFor(model, records, rows, upstream, names) ==
    [versions |-> model.versions, records |-> records, profiles |-> model.profiles, rows |-> rows,
     names |-> {}, own |-> names, graphs |-> {}, ids |-> RepoIds(rows), host |-> {},
     artifacts |-> ArtifactPins(UNION {rows[m].external : m \in DOMAIN rows}, upstream),
     support |-> PomPins(UNION {rows[m].support : m \in DOMAIN rows}, upstream)]
AssembledFrom(sources, upstream, world, target, model, rows) ==
    EntryFor(model, IF ReactorThroughDependencies(sources, upstream, rows) THEN WholeRecords(model) ELSE model.records,
             rows, upstream, [m \in DOMAIN rows |-> ReadNames(GraphReads(sources, upstream, rows[m], m, world, target))])
Assembled(sources, upstream, world, target) ==
    AssembledFrom(sources, upstream, world, target, DiscoverReactorModel(sources, world, target),
                  [m \in DOMAIN sources |-> GraphOf(sources, upstream, m, world, target)])
BuildReads(sources, upstream, world, target) ==
    UNION {GraphReads(sources, upstream, GraphOf(sources, upstream, m, world, target), m, world, target) : m \in DOMAIN sources}
RunReads(sources, upstream, world, target) ==
    DiscoveryReads(sources, world, target) \cup BuildReads(sources, upstream, world, target)

\* A condition no target claims counts for each; with one target, all do.
BoundHost(reads, world, within, consulted) ==
    LET own == [t \in DOMAIN reads |->
                  IF Cardinality(DOMAIN reads) = 1 THEN {} ELSE HostInputs(Recorded(reads[t], world, within))]
    IN [t \in DOMAIN reads |-> own[t] \cup (HostInputs(consulted) \ UNION {own[u] : u \in DOMAIN own})]

Readers(entry, name) == Cardinality({m \in DOMAIN entry.own : name \in entry.own[m]})
CommonNames(entry, consulted) ==
    {n \in EntryNames(entry) \cap consulted :
       Readers(entry, n) >= CommonReaders /\ 2 * Readers(entry, n) > Cardinality(DOMAIN entry.rows)}
BindModuleReads(entry, consulted, claimed) ==
    LET common == CommonNames(entry, consulted)
    IN [entry EXCEPT !.names = common \cup {n \in consulted : IsPropertyName(n) /\ n \notin claimed},
                     !.own = [m \in DOMAIN @ |-> (@[m] \cap consulted) \ common]]

FreshLock(entries, consulted, host) ==
    SetTargetReads(
      [config |-> NoLock, ids |-> {}, ambient |-> {},
       platforms |-> [t \in DOMAIN entries |->
          BindModuleReads(entries[t], consulted, consulted \cap UNION {EntryNames(entries[u]) : u \in DOMAIN entries})]],
      [t \in DOMAIN entries |-> [ids |-> entries[t].ids, host |-> host[t]]])
Fresh(entries, reads, world, within, consulted) ==
    FreshLock(entries, consulted, BoundHost(reads, world, within, consulted))

\* Whether the records of the lock cover the whole reactor.
Differing(entry, records) ==
    Cardinality({m \in DOMAIN entry.records : m \notin DOMAIN records \/ entry.records[m] # records[m]})
WholeReactorIn(model, entry) == Differing(entry, WholeRecords(model)) < Differing(entry, model.records)

Covered(model, whole, entry, m) ==
    /\ {n \in entry.rows[m].external \cap DOMAIN model.versions : model.versions[n] = 1} = {}
    /\ whole \/ (IF model.covers[m] = EveryModule THEN TRUE ELSE entry.rows[m].local \subseteq model.covers[m] \cup {m})
ModelsMatch(model, whole, entry) ==
    /\ entry.records = IF whole THEN WholeRecords(model) ELSE model.records
    /\ entry.profiles = model.profiles /\ entry.versions = model.versions
Matches(model, lock, target) ==
    /\ GraphsMatch(lock, lock.platforms[target], ReadsIn(lock, target))
    /\ ModelsMatch(model, WholeReactorIn(model, lock.platforms[target]), lock.platforms[target])
    /\ {n \in DOMAIN lock.platforms[target].support \cap DOMAIN model.versions : model.versions[n] = 1} = {}
    /\ \A m \in DOMAIN lock.platforms[target].rows :
         Covered(model, WholeReactorIn(model, lock.platforms[target]), lock.platforms[target], m)
TrustedFor(lock, sources, world, target) == Matches(DiscoverReactorModel(sources, world, target), lock, target)
Frozen(lock, sources, world) ==
    /\ \A t \in DOMAIN lock.platforms : TrustedFor(lock, sources, world, t)
    /\ lock.config = ConfigHash(lock.ambient, world)

PinsOf(entry) ==
    {<<x, "pom", PinnedPoms(entry)[x]>> : x \in DOMAIN entry.artifacts}
    \cup {<<x, "file", entry.artifacts[x].file>> : x \in DOMAIN entry.artifacts}
    \cup {<<x, "pom", entry.support[x]>> : x \in DOMAIN entry.support}
Disagree(entry, other) == \E p \in PinsOf(entry), q \in PinsOf(other) : p[1] = q[1] /\ p[2] = q[2] /\ p[3] # q[3]
Preserved(fresh, previous, sources, world) ==
    {t \in DOMAIN previous.platforms \ DOMAIN fresh.platforms :
       /\ previous.config = ConfigHash(previous.ambient, world)
       /\ \A u \in DOMAIN fresh.platforms : ~Disagree(previous.platforms[t], fresh.platforms[u])
       /\ TrustedFor(previous, sources, world, t)}
CarryForward(fresh, previous, kept) ==
    SetTargetReads(
      [fresh EXCEPT !.platforms = [t \in DOMAIN fresh.platforms \cup kept |->
         IF t \in kept THEN previous.platforms[t] ELSE fresh.platforms[t]]],
      [t \in DOMAIN fresh.platforms \cup kept |-> IF t \in kept THEN ReadsIn(previous, t) ELSE ReadsIn(fresh, t)])

KeptNames(previous, kept) ==
    {n \in previous.ambient : IsPropertyName(n) /\ \E t \in kept : n \in EntryNames(previous.platforms[t])}

Written(lock, ambient, world) == Canonical([lock EXCEPT !.ambient = ambient, !.config = ConfigHash(ambient, world)])
Joined(fresh, previous, kept, consulted, world) ==
    LET lock == CarryForward(fresh, previous, kept)
    IN Written(lock, KeptNames(previous, kept) \cup {i \in consulted : IsPropertyName(i)} \cup HostInputs(lock.ambient), world)
MergePrevious(fresh, previous, sources, consulted, world) ==
    IF previous = NoLock THEN Written(fresh, {i \in consulted : IsPropertyName(i)} \cup HostInputs(fresh.ambient), world)
    ELSE Joined(fresh, previous, Preserved(fresh, previous, sources, world), consulted, world)
SyncWith(previous, sources, upstream, world, reads, within) ==
    MergePrevious(Fresh([t \in DOMAIN reads |-> Assembled(sources, upstream, world, t)], reads, world, within,
                        Recorded(UNION {reads[t] : t \in DOMAIN reads}, world, within)),
                  previous, sources, Recorded(UNION {reads[t] : t \in DOMAIN reads}, world, within), world)
SyncReads(previous, sources, upstream, world, reads) ==
    SyncWith(previous, sources, upstream, world, reads, Within(UNION {reads[t] : t \in DOMAIN reads}))
Sync(previous, targets, sources, upstream, world) ==
    SyncReads(previous, sources, upstream, world, [t \in targets |-> RunReads(sources, upstream, world, t)])

-----------------------------------------------------------------------------
(* Git merges two branches line by line against their base (external): a   *)
(* line one branch changed is taken from it, one both changed differently  *)
(* is a conflict. A list holds one name a line.                            *)

ThreeWay(base, ours, theirs) ==
    IF ours = theirs THEN ours ELSE IF base = ours THEN theirs ELSE IF base = theirs THEN ours ELSE Conflict
LineAt(map, key) == IF key \in DOMAIN map THEN map[key] ELSE NoLock
MergeLines(base, ours, theirs) ==
    LET keys == DOMAIN base \cup DOMAIN ours \cup DOMAIN theirs
        merged == [k \in keys |-> ThreeWay(LineAt(base, k), LineAt(ours, k), LineAt(theirs, k))]
    IN [k \in {n \in keys : merged[n] # NoLock} |-> merged[k]]
MergeSets(base, ours, theirs) == (ours \cap theirs) \cup (ours \ base) \cup (theirs \ base)
MergeList(base, ours, theirs) ==
    IF NoList \in {base, ours, theirs} THEN ThreeWay(base, ours, theirs) ELSE MergeSets(base, ours, theirs)
MergeEntries(base, ours, theirs) ==
    [versions |-> MergeLines(base.versions, ours.versions, theirs.versions),
     records |-> MergeLines(base.records, ours.records, theirs.records),
     profiles |-> MergeSets(base.profiles, ours.profiles, theirs.profiles),
     rows |-> MergeLines(base.rows, ours.rows, theirs.rows),
     names |-> MergeSets(base.names, ours.names, theirs.names),
     own |-> [m \in DOMAIN base.own |-> MergeSets(base.own[m], ours.own[m], theirs.own[m])],
     graphs |-> MergeLines(base.graphs, ours.graphs, theirs.graphs),
     ids |-> MergeList(base.ids, ours.ids, theirs.ids), host |-> MergeList(base.host, ours.host, theirs.host),
     artifacts |-> MergeLines(base.artifacts, ours.artifacts, theirs.artifacts),
     support |-> MergeLines(base.support, ours.support, theirs.support)]
Conflicting(map) == \E k \in DOMAIN map : map[k] = Conflict
EntryConflicts(entry) ==
    \/ Conflict \in {entry.ids, entry.host}
    \/ \E lines \in {"versions", "records", "rows", "graphs", "artifacts", "support"} : Conflicting(entry[lines])
MergedLock(base, ours, theirs) ==
    [config |-> ThreeWay(base.config, ours.config, theirs.config), ids |-> MergeSets(base.ids, ours.ids, theirs.ids),
     ambient |-> MergeSets(base.ambient, ours.ambient, theirs.ambient),
     platforms |-> [t \in DOMAIN base.platforms |->
        MergeEntries(base.platforms[t], ours.platforms[t], theirs.platforms[t])]]
Mergeable(lock) == lock.config # Conflict /\ \A t \in DOMAIN lock.platforms : ~EntryConflicts(lock.platforms[t])
GitMerge(base, ours, theirs) ==
    IF DOMAIN base.platforms = DOMAIN ours.platforms /\ DOMAIN base.platforms = DOMAIN theirs.platforms
    THEN LET merged == MergedLock(base, ours, theirs) IN IF Mergeable(merged) THEN merged ELSE NoLock
    ELSE NoLock

-----------------------------------------------------------------------------
(* What an accepted lock says                                              *)

SyncStep(previous, targets, step) == Sync(previous, targets, step.sources, step.upstream, step.world)
SyncedFrom(first, i) == [first |-> first, second |-> SyncStep(first, i.targets, i.second)]
Synced(i) == SyncedFrom(SyncStep(NoLock, AllTargets, i.first), i)
MergedFrom(base, i) ==
    [lock |-> GitMerge(base, SyncStep(base, AllTargets, i.ours), SyncStep(base, AllTargets, i.theirs)),
     sources |-> MergeLines(i.base.sources, i.ours.sources, i.theirs.sources)]
MergedBranches(i) == MergedFrom(SyncStep(NoLock, AllTargets, i.base), i)

Accepts(lock, sources, world) == IF lock = NoLock THEN FALSE ELSE Check(lock) /\ Frozen(lock, sources, world)
GraphHolds(entry, m, graph, upstream) ==
    /\ entry.rows[m] = graph
    /\ PinnedFor(graph.external, PinnedPoms(entry)) = PomPins(graph.external, upstream)
    /\ PinnedFor(graph.support, entry.support) = PomPins(graph.support, upstream)

\* A lock that `sync --frozen` accepts holds, for every target and module,
\* the graph and the POM pins a resolution of the present sources under the
\* present configuration gives against one state of the repositories that a
\* sync saw: never one from before an edit of a module it reaches, another
\* value of something a POM read, or two branches' resolutions mixed. The
\* artifact files are pinned as some sync saw them: of these, two branches'
\* may mix, since no digest covers them (inputs.rs 405-454).
OnlyTrusted(lock, sources, world, upstreams) ==
    Accepts(lock, sources, world) =>
       \A t \in DOMAIN lock.platforms : \A m \in DOMAIN lock.platforms[t].rows :
          /\ \E u \in upstreams : GraphHolds(lock.platforms[t], m, GraphOf(sources, u, m, world, t), u)
          /\ \A x \in lock.platforms[t].rows[m].external : \E u \in upstreams :
                lock.platforms[t].artifacts[x] = ArtifactPins({x}, u)[x]

\* A lock a sync has just written is accepted as it stands, also where it
\* keeps a target of the previous lock, which keeps what it read.
AcceptedAsWritten(i, result) ==
    /\ Accepts(result.first, i.first.sources, i.first.world)
    /\ Accepts(result.second, i.second.sources, i.second.world)
    /\ \A t \in DOMAIN result.second.platforms \ i.targets : ReadsIn(result.second, t) = ReadsIn(result.first, t)
===============================================================================

------------------------------- MODULE LockDrift -------------------------------
(***************************************************************************)
(* raeva.lock read back (rv-lock codec.rs), how it spells a repository     *)
(* origin (lock_origin.rs), and whether a fresh resolution still agrees    *)
(* with it (drift.rs, system.rs; raeva sync/drift.rs, sync/resolve.rs).    *)
(***************************************************************************)
EXTENDS Integers, FiniteSets, Sequences, SequencesExt

CONSTANTS
    NoValue,        \* None
    Portable,       \* directory names a project-relative origin may hold
    LinkTo          \* directory -> the directory a link there names, itself otherwise

-----------------------------------------------------------------------------
(* Origins. A URL is its scheme and path; a token is a project-relative    *)
(* origin, ./a/b/.                                                         *)

Location(scheme, path, slash) == [scheme |-> scheme, path |-> path, slash |-> slash]
NormalizeRepoUrl(url) == [url EXCEPT !.slash = TRUE]
IsProjectRelativeOrigin(origin) == origin.scheme = "token"
RecordedKey(origin) == IF IsProjectRelativeOrigin(origin) THEN origin ELSE NormalizeRepoUrl(origin)

\* A path with every link on it followed, the first one first.
LinkPrefixes(path) == {n \in 0..Len(path) : SubSeq(path, 1, n) \in DOMAIN LinkTo}
RECURSIVE ResolvedDirectory(_)
ResolvedDirectory(path) ==
    IF LinkPrefixes(path) = {} THEN path
    ELSE LET n == CHOOSE k \in LinkPrefixes(path) : \A j \in LinkPrefixes(path) : k <= j
         IN ResolvedDirectory(LinkTo[SubSeq(path, 1, n)] \o SubSeq(path, n + 1, Len(path)))
OriginIdentity(url) ==
    IF url.scheme = "file" THEN Location("file", ResolvedDirectory(url.path), TRUE) ELSE NormalizeRepoUrl(url)

ForRoot(root) == <<ResolvedDirectory(root), root>>

TokensOf(roots, path) ==
    {i \in DOMAIN roots : IsPrefix(roots[i], path) /\ Range(SubSeq(path, Len(roots[i]) + 1, Len(path))) \subseteq Portable}
ProjectRelative(roots, url) ==
    IF TokensOf(roots, url.path) = {} THEN NoValue
    ELSE LET i == CHOOSE j \in TokensOf(roots, url.path) : \A k \in TokensOf(roots, url.path) : j <= k
         IN Location("token", SubSeq(url.path, Len(roots[i]) + 1, Len(url.path)), TRUE)
DeclaredKey(roots, url) ==
    CASE url.scheme = "http" -> NormalizeRepoUrl(url)
      [] url.scheme = "file" -> LET token == ProjectRelative(roots, url)
                                IN IF token = NoValue THEN NormalizeRepoUrl(url) ELSE token
      [] OTHER -> NoValue
RecordedOrigin(roots, url) ==
    IF url.scheme = "file" /\ ProjectRelative(roots, url) # NoValue THEN ProjectRelative(roots, url) ELSE url
OriginMatches(roots, recorded, url) == DeclaredKey(roots, url) = RecordedKey(recorded)

SelectOrigin(roots, recorded, declarations) ==
    LET named == SelectSeq(declarations, LAMBDA url : OriginMatches(roots, recorded, url))
    IN IF named = <<>> THEN [is |-> "undeclared", url |-> NoValue]
       ELSE IF \E url \in Range(named) : OriginIdentity(url) # OriginIdentity(named[1])
            THEN [is |-> "ambiguous", url |-> NoValue] ELSE [is |-> "declared", url |-> named[1]]
OriginAlias(roots, urls) ==
    \E url, other \in urls :
       /\ DeclaredKey(roots, url) # NoValue /\ IsProjectRelativeOrigin(DeclaredKey(roots, url))
       /\ DeclaredKey(roots, url) = DeclaredKey(roots, other) /\ OriginIdentity(url) # OriginIdentity(other)

\* The origins that neither the configuration nor the local POMs declare.
UndeclaredOrigin(roots, origins, configured, declared) ==
    {o \in origins :
       LET named == {OriginIdentity(url) : url \in {u \in configured \cup declared : OriginMatches(roots, o, u)}}
       IN named = {} \/ (IsProjectRelativeOrigin(o) /\ Cardinality(named) > 1)}

\* A system-scoped file, by its place under the lock's directory with links
\* followed, and its bytes. Nothing outside the directory is recorded.
RecordSystemFile(root, path, files) ==
    LET top == ResolvedDirectory(root)
        file == ResolvedDirectory(path)
        rest == SubSeq(file, Len(top) + 1, Len(file))
    IN IF file \notin DOMAIN files \/ ~IsPrefix(top, file) \/ rest = <<>> \/ ~(Range(rest) \subseteq Portable)
       THEN NoValue ELSE [path |-> rest, bytes |-> files[file]]
SystemFileDrift(root, recorded, files) == RecordSystemFile(root, root \o recorded.path, files) # recorded

-----------------------------------------------------------------------------
(* When a locked SNAPSHOT is looked up again                               *)

\* The first repository of each id holds it, a refused one too; of those the
\* admitted ones that serve snapshots, or whose policy is an expression.
HoldsId(repos, i) == \A j \in 1..(i - 1) : repos[j].id # repos[i].id
SnapshotPolicies(own, declared, defaults) ==
    LET repos == own \o declared \o defaults
    IN {[url |-> repos[i].url, ttl |-> IF repos[i].unresolved THEN 0 ELSE repos[i].ttl] :
          i \in {k \in DOMAIN repos : HoldsId(repos, k) /\ repos[k].admitted /\ (repos[k].enabled \/ repos[k].unresolved)}}
LeastOf(ttls, default) == IF ttls = {} THEN default ELSE CHOOSE t \in ttls : \A u \in ttls : t <= u

Interval(roots, file, default, policies) ==
    LET ttls == {p.ttl : p \in {q \in policies : DeclaredKey(roots, q.url) # NoValue}}
    IN IF file.url = NoValue THEN default
       ELSE IF \E p \in policies : OriginMatches(roots, file.url, p.url) THEN LeastOf(ttls, default)
       ELSE LeastOf(ttls \cup {default}, default)
SnapshotRefreshDue(files, roots, age, default, policies) ==
    \E f \in files : f.snapshot /\ age >= Interval(roots, f, default, policies)
\* modules: path -> the files its packages name and the repositories its
\* model declares; the whole lock when no model was read.
LockRequiresSnapshotRefresh(lock, modules, own, defaults, roots, age, default) ==
    IF modules = <<>> THEN SnapshotRefreshDue(lock.files \cup lock.support, roots, age, default, SnapshotPolicies(own, <<>>, defaults))
    ELSE \E m \in Range(modules) :
           SnapshotRefreshDue({f \in lock.files : f.coord \in m.coords} \cup lock.support, roots, age, default,
                              SnapshotPolicies(own, m.declared, defaults))

-----------------------------------------------------------------------------
(* The lines of a graph, each package a line of columns                    *)

Columns(package) ==
    <<package.coord, package.kind, package.direct,
      IF package.scope = (IF package.direct = "" THEN "compile" ELSE package.direct) THEN "" ELSE package.scope,
      package.module, package.path, package.sha>>
LastColumn(columns) == CHOOSE i \in DOMAIN columns : columns[i] # "" /\ \A j \in (i + 1)..Len(columns) : columns[j] = ""

EncodePackage(package) == SubSeq(Columns(package), 1, LastColumn(Columns(package)))

Column(line, i) == IF i <= Len(line) THEN line[i] ELSE ""
DecodePackage(line) ==
    LET scope == IF Column(line, 3) = "" THEN "compile" ELSE Column(line, 3)
    IN IF Column(line, 1) = "" \/ Column(line, 2) = "" \/ Len(line) > 7 \/ Column(line, 4) = scope THEN NoValue
       ELSE [coord |-> line[1], kind |-> line[2], direct |-> Column(line, 3),
             scope |-> IF Column(line, 4) = "" THEN scope ELSE Column(line, 4),
             module |-> Column(line, 5), path |-> Column(line, 6), sha |-> Column(line, 7)]

EncodeEdge(edge) ==
    <<edge.from, edge.to>> \o (IF edge.scope = "" THEN <<>> ELSE <<edge.scope>>) \o (IF edge.optional THEN <<"optional">> ELSE <<>>)
DecodeEdge(line) ==
    LET rest == SubSeq(line, 3, Len(line))
        optional == rest # <<>> /\ Last(rest) = "optional"
        scopes == IF optional THEN Front(rest) ELSE rest
    IN IF Len(line) < 2 \/ Len(scopes) > 1 \/ "optional" \in Range(scopes) THEN NoValue
       ELSE [from |-> line[1], to |-> line[2], scope |-> IF scopes = <<>> THEN "" ELSE scopes[1], optional |-> optional]

\* A list of read names is left out when empty, and refused when empty.
NamesText(names) == IF names = {} THEN NoValue ELSE names
DecodeReadNames(text) == IF text = NoValue THEN {} ELSE text
EncodeInputs(inputs) ==
    [names |-> NamesText(inputs.names), host |-> inputs.host,
     poms |-> [p \in DOMAIN inputs.poms |-> [graph |-> inputs.poms[p].graph, names |-> NamesText(inputs.poms[p].names)]]]
DecodeInputs(text, modules) ==
    LET names == DecodeReadNames(text.names)
        poms == [p \in DOMAIN text.poms |-> [graph |-> text.poms[p].graph, names |-> DecodeReadNames(text.poms[p].names)]]
    IN IF \/ text.names = {}
          \/ \E p \in DOMAIN text.poms : text.poms[p].names = {} \/ (text.poms[p].names # NoValue /\ p \notin modules)
          \/ \E p \in DOMAIN poms : poms[p].names \cap names # {}
       THEN NoValue ELSE [names |-> names, poms |-> poms, host |-> text.host]

\* Targets with the same rows, modules and support POMs share a section; the
\* inputs of each target are its own.
GraphOfTarget(entry) == [files |-> entry.files, modules |-> entry.modules]
GraphText(graph) ==
    [files |-> graph.files,
     modules |-> [m \in DOMAIN graph.modules |->
        [packages |-> [i \in DOMAIN graph.modules[m].packages |-> EncodePackage(graph.modules[m].packages[i])],
         edges |-> [i \in DOMAIN graph.modules[m].edges |-> EncodeEdge(graph.modules[m].edges[i])]]]]
Encode(lock) ==
    [sections |-> {[targets |-> {t \in DOMAIN lock : GraphOfTarget(lock[t]) = graph}, graph |-> GraphText(graph)] :
                   graph \in {GraphOfTarget(lock[t]) : t \in DOMAIN lock}},
     inputs |-> [t \in DOMAIN lock |-> EncodeInputs(lock[t].inputs)]]

DecodeModule(text) ==
    [packages |-> [i \in DOMAIN text.packages |-> DecodePackage(text.packages[i])],
     edges |-> [i \in DOMAIN text.edges |-> DecodeEdge(text.edges[i])]]
DecodePlatform(graph) == [m \in DOMAIN graph.modules |-> DecodeModule(graph.modules[m])]
MalformedModule(module) == NoValue \in Range(module.packages) \/ NoValue \in Range(module.edges)
SectionOf(text, target) == CHOOSE s \in text.sections : target \in s.targets
Decode(text) ==
    IF \/ \E s \in text.sections : s.targets = {}
       \/ \E s, u \in text.sections : s # u /\ s.targets \cap u.targets # {}
       \/ UNION {s.targets : s \in text.sections} # DOMAIN text.inputs
       \/ \E s \in text.sections : \E m \in DOMAIN s.graph.modules : MalformedModule(DecodeModule(s.graph.modules[m]))
       \/ \E t \in DOMAIN text.inputs : DecodeInputs(text.inputs[t], DOMAIN SectionOf(text, t).graph.modules) = NoValue
    THEN NoValue
    ELSE [t \in DOMAIN text.inputs |->
            [files |-> SectionOf(text, t).graph.files, modules |-> DecodePlatform(SectionOf(text, t).graph),
             inputs |-> DecodeInputs(text.inputs[t], DOMAIN SectionOf(text, t).graph.modules)]]

-----------------------------------------------------------------------------
(* A lock against a fresh resolution. The canonical form sorts the lists   *)
(* of a lock, so they are sets here, and an edge names its two packages.   *)

ModuleVersions(modules) == [path \in DOMAIN modules |-> modules[path].gav[2]]
VersionIn(versions, path) == IF path \in DOMAIN versions THEN versions[path] ELSE ""

OwnPackage(package, own) ==
    package.module # NoValue /\ package.module \in DOMAIN own /\ own[package.module] = package.gav[2]
Renamed(package, own, versions) ==
    IF OwnPackage(package, own) THEN [package EXCEPT !.gav[2] = VersionIn(versions, package.module)] ELSE package
RenamedModel(model, module, path, own, versions) ==
    LET named == {p \in module.packages : OwnPackage(p, own) /\ p.gav = model}
    IN IF model = module.gav THEN <<model[1], VersionIn(versions, path)>>
       ELSE IF named # {} THEN <<model[1], VersionIn(versions, (CHOOSE p \in named : TRUE).module)>> ELSE model
WithModuleVersions(module, path, own, versions) ==
    [gav |-> <<module.gav[1], VersionIn(versions, path)>>,
     packages |-> {Renamed(p, own, versions) : p \in module.packages},
     edges |-> {<<Renamed(e[1], own, versions), Renamed(e[2], own, versions)>> : e \in module.edges},
     ranges |-> {[r EXCEPT !.model = RenamedModel(r.model, module, path, own, versions)] : r \in module.ranges}]
NoVersions == [path \in {} |-> ""]
ModuleDrift(lhs, rhs) ==
    \/ DOMAIN lhs # DOMAIN rhs
    \/ \E path \in DOMAIN lhs :
         /\ lhs[path] # rhs[path]
         /\ WithModuleVersions(lhs[path], path, ModuleVersions(lhs), NoVersions)
              # WithModuleVersions(rhs[path], path, ModuleVersions(rhs), NoVersions)

IsBuildOrSnapshot(row) == row.build # "release"

\* A row under another repository: no drift only for a release, from a
\* repository still declared, whose pins agree.
MovedOrigin(l, r, declared) ==
    /\ l.url # r.url
    /\ \/ l.url \notin declared \/ IsBuildOrSnapshot(l) \/ IsBuildOrSnapshot(r)
       \/ l.pin = NoValue \/ l.pin # r.pin
OriginDrifted(l, r, declared) == l.others # r.others \/ l.poms # r.poms \/ MovedOrigin(l, r, declared)
ArtifactDrift(lhs, rhs, declared) ==
    \/ DOMAIN lhs # DOMAIN rhs
    \/ \E coord \in DOMAIN lhs :
         \/ OriginDrifted(lhs[coord], rhs[coord], declared)
         \/ \E field \in {"build", "pomBuild", "pom", "pin"} : lhs[coord][field] # rhs[coord][field]
SupportPomDrift(lhs, rhs, declared) ==
    \/ DOMAIN lhs # DOMAIN rhs
    \/ \E coord \in DOMAIN lhs :
         \/ \E field \in {"pin", "build"} : lhs[coord][field] # rhs[coord][field]
         \/ lhs[coord].url # rhs[coord].url /\ (lhs[coord].url \notin declared \/ IsBuildOrSnapshot(lhs[coord]))

\* Conditions both record, with another outcome; or another configuration
\* under the same host inputs.
InputsDrifted(disk, fresh) ==
    \/ disk.host = fresh.host /\ disk.config # fresh.config
    \/ \E c \in DOMAIN disk.host \cap DOMAIN fresh.host : disk.host[c] # fresh.host[c]

ResolutionDrift(disk, fresh, declared) ==
    \/ InputsDrifted(disk, fresh) \/ disk.ids # fresh.ids \/ DOMAIN disk.platforms # DOMAIN fresh.platforms
    \/ \E t \in DOMAIN disk.platforms :
         \/ disk.platforms[t].profiles # NoValue /\ disk.platforms[t].profiles # fresh.platforms[t].profiles
         \/ ModuleDrift(disk.platforms[t].modules, fresh.platforms[t].modules)
         \/ ArtifactDrift(disk.platforms[t].artifacts, fresh.platforms[t].artifacts, declared)
         \/ SupportPomDrift(disk.platforms[t].support, fresh.platforms[t].support, declared)

AdoptModuleVersions(disk, fresh) ==
    [t \in DOMAIN disk.platforms |->
       IF t \notin DOMAIN fresh.platforms THEN disk.platforms[t].modules
       ELSE LET own == ModuleVersions(disk.platforms[t].modules)
                found == ModuleVersions(fresh.platforms[t].modules)
                versions == [p \in DOMAIN own \cup DOMAIN found |-> IF p \in DOMAIN found THEN found[p] ELSE own[p]]
            IN [p \in DOMAIN own |-> WithModuleVersions(disk.platforms[t].modules[p], p, own, versions)]]
===============================================================================

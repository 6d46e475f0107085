---------------------------- MODULE RepositoryList ----------------------------
(***************************************************************************)
(* The repositories a model build and the solver search                    *)
(* (rv-resolver/src/resolver/backend.rs, scope.rs, utils.rs): the shared   *)
(* list of a ModelService, which the configuration, the lineage of the     *)
(* root project, its effective model and the dependencies' POMs declare    *)
(* into; the list of one fetched POM's build; the contexts of the paths in *)
(* the graph; and the models that reactor modules keep for each other      *)
(* under the repositories they read (reactor_models.rs).                   *)
(*                                                                         *)
(* A repository is its id, its URL and its checksum policy; expr marks a   *)
(* declaration whose policy still holds an expression. What the policy of  *)
(* rv-repo refuses (Routing.tla) is a set of URLs.                         *)
(***************************************************************************)
EXTENDS Naturals, Sequences, SequencesExt, FiniteSets

CONSTANTS
    Projects,       \* configuration, lineage, interpolated policy of a root project;
                    \* `reads` bounds the changes its dependencies make
    DependencyRepos,\* what the POM of one dependency declares, as the model holds it
    DefaultUrls,    \* the URLs of default_repositories
    RefusedUrls     \* the URLs a declaration in a POM is refused for

VARIABLES
    project,    \* the project being resolved
    left,       \* the lineage still to be observed
    shared,     \* the shared list, of the root build and then of the solver
    built,      \* BuildRepos: the same lineage built as a fetched POM's
    contexts,   \* the repository contexts of the paths so far
    builds,     \* model builds under way: context, its text at the start, what was searched
    kept,       \* ReactorModels::models
    textOf,     \* model_contexts: each context's text, at a generation
    stage       \* lineage, effective, graph or done

listVars == <<project, left, shared, built, contexts, builds, kept, textOf, stage>>

RepoKey(r) == <<r.url, r.id>>
RepoKeys(s) == {RepoKey(s[i]) : i \in DOMAIN s}
Blocked(r) == ~r.configured /\ r.url \in RefusedUrls
IsDefault(r) == r.url \in DefaultUrls
OfDependency(how) == how \in {"Fetched", "Reactor"}

PolicyRank(p) == CASE p = "warn" -> 0 [] p = "fail" -> 1 [] OTHER -> 2

\* Declared::merge: a dependency's unsupported policy counts as fail.
MergedPolicy(mine, other, how) ==
    LET theirs == IF other.sum = "unsupported" /\ how = "Fetched" THEN "fail" ELSE other.sum
    IN IF PolicyRank(theirs) > PolicyRank(mine.sum) THEN [mine EXCEPT !.sum = theirs] ELSE mine

MergeOutside(r, outside) == FoldLeft(LAMBDA kept_, o : MergedPolicy(kept_, o.repo, o.how), r, outside)

EmptyList ==
    [entries |-> <<>>, end |-> 0, generation |-> 0, seen |-> {}, provisional |-> <<>>,
     lineage |-> {}, ids |-> {}, held |-> {}]

ProjectPart(l) == SubSeq(l.entries, 1, l.end)

\* `provisional` maps the key of an entry to the outside declarations that met it.
ProvisionalOf(l, key) == SelectSeq(l.provisional, LAMBDA p : p.key = key)
IsProvisional(l, key) == ProvisionalOf(l, key) # <<>>

\* effective: a provisional entry is what was declared outside the lineage, if anything.
EffectiveEntries(l, entries) ==
    LET kept_ == SelectSeq(entries, LAMBDA r : \/ ~IsProvisional(l, RepoKey(r))
                                               \/ ProvisionalOf(l, RepoKey(r))[1].outside # <<>>)
        Of(r) == IF ~IsProvisional(l, RepoKey(r)) THEN r
                 ELSE LET o == ProvisionalOf(l, RepoKey(r))[1].outside IN MergeOutside(o[1].repo, Tail(o))
    IN [i \in DOMAIN kept_ |-> Of(kept_[i])]

-----------------------------------------------------------------------------
(* append_repos                                                            *)

DropEntry(l, at) ==
    LET key == RepoKey(l.entries[at])
    IN [l EXCEPT !.entries = RemoveAt(@, at), !.end = @ - 1, !.seen = @ \ {key},
                 !.lineage = @ \ {key}, !.provisional = SelectSeq(@, LAMBDA p : p.key # key)]

\* What a refused declaration of the effective model retires: the entries its
\* own lineage added under the id.
Retire(l, r) ==
    LET at == {i \in 1..l.end : l.entries[i].id = r.id /\ RepoKey(l.entries[i]) \in l.lineage}
        keys == {RepoKey(l.entries[i]) : i \in at}
    IN [l EXCEPT !.entries = SelectSeq(@, LAMBDA x : RepoKey(x) \notin keys), !.end = @ - Cardinality(at),
                 !.seen = @ \ keys, !.lineage = @ \ keys,
                 !.provisional = SelectSeq(@, LAMBDA p : p.key \notin keys)]

\* hold_refused_ids: a refused declaration keeps its id from the parents' ones.
HoldId(l, r, how) ==
    IF r.id = "" THEN l
    ELSE [(IF how = "Effective" THEN Retire(l, r) ELSE l) EXCEPT !.ids = @ \cup {r.id}, !.held = @ \cup {r.id}]

\* The project part lists one repository per id: the entry that `r` replaces,
\* and 0 when it replaces none. A provisional declaration replaces no default.
Replaces(l, r, how) ==
    LET At(default) == {i \in 1..l.end : /\ l.entries[i].id = r.id
                                         /\ IsDefault(l.entries[i]) = default
                                         /\ default \/ l.entries[i].url # r.url}
        First(s) == CHOOSE i \in s : \A j \in s : i <= j
    IN CASE r.id = "" -> 0
         [] r.id # "" /\ ~IsDefault(r) /\ how # "Provisional" /\ At(TRUE) # {} -> First(At(TRUE))
         [] OTHER -> IF r.id # "" /\ At(FALSE) # {} THEN First(At(FALSE)) ELSE 0

\* The first declaration of an id stays, but for one a parent lookup added and
\* the effective model declares again.
Stands(l, r, how, at) ==
    at # 0 /\ ~IsDefault(l.entries[at]) /\ ~(how = "Effective" /\ RepoKey(l.entries[at]) \in l.lineage)

\* The project's repositories go before the defaults, a dependency's after all.
Insert(l, r, how) ==
    LET defaults == {i \in 1..l.end : ~IsDefault(r) /\ IsDefault(l.entries[i])}
        at == IF OfDependency(how) THEN Len(l.entries) + 1
              ELSE IF defaults = {} THEN l.end + 1
              ELSE CHOOSE i \in defaults : \A j \in defaults : i <= j
    IN [l EXCEPT !.entries = InsertAt(@, at, r), !.seen = @ \cup {RepoKey(r)},
                 !.end = IF OfDependency(how) THEN @ ELSE @ + 1,
                 !.lineage = IF how \in {"Lineage", "Provisional"} THEN @ \cup {RepoKey(r)} ELSE @,
                 !.provisional = IF how = "Provisional" THEN Append(@, [key |-> RepoKey(r), outside |-> <<>>])
                                 ELSE @]

\* A declaration of a listed repository: the effective model's replaces a
\* provisional entry and merges again what was declared outside meanwhile.
Rejoin(l, r, how) ==
    LET key == RepoKey(r)
        at == CHOOSE i \in DOMAIN l.entries : RepoKey(l.entries[i]) = key
    IN CASE how = "Provisional" -> l
         [] how = "Effective" /\ IsProvisional(l, key) ->
              [l EXCEPT !.entries[at] = MergeOutside(r, ProvisionalOf(l, key)[1].outside),
                        !.provisional = SelectSeq(@, LAMBDA p : p.key # key)]
         [] OTHER ->
              [l EXCEPT !.entries[at] = IF PolicyRank(r.sum) > 0 THEN MergedPolicy(@, r, how) ELSE @,
                        !.provisional =
                            [i \in DOMAIN @ |->
                               IF @[i].key = key /\ how \in {"Outside", "Fetched", "Reactor"}
                               THEN [@[i] EXCEPT !.outside = Append(@, [repo |-> r, how |-> how])]
                               ELSE @[i]]]

Listed(l, r, how) ==
    IF RepoKey(r) \notin l.seen THEN Insert(l, r, how)
    ELSE IF RepoKey(r) \in RepoKeys(l.entries) THEN Rejoin(l, r, how) ELSE l

Replacing(l, r, how, at) ==
    IF Stands(l, r, how, at) THEN l
    ELSE Listed(IF at = 0 THEN l ELSE DropEntry(l, at), r, how)

\* A dependency's repository under an id the project uses on another URL is
\* dropped: it would receive the credential configured for that id.
Taken(l, r, how) ==
    /\ r.id # ""
    /\ IF how = "Reactor" THEN \E i \in 1..l.end : l.entries[i].id = r.id ELSE r.id \in l.ids
    /\ RepoKey(r) \notin l.seen

AppendRepo(l, r, how) ==
    IF r.id # "" /\ r.id \in l.held /\ how \in {"Lineage", "Provisional"} THEN l
    ELSE IF OfDependency(how) THEN (IF Taken(l, r, how) THEN l ELSE Listed(l, r, how))
    ELSE LET own == [l EXCEPT !.held = IF how = "Effective" THEN @ \ {r.id} ELSE @,
                              !.ids = IF r.id # "" THEN @ \cup {r.id} ELSE @]
         IN Replacing(own, r, how, Replaces(own, r, how))

AppendRepos(l, repos, how) ==
    IF repos = <<>> THEN l
    ELSE [FoldLeft(LAMBDA x, r : AppendRepo(x, r, how), l, repos) EXCEPT !.generation = @ + 1]

\* append_root_repos: the refused ones hold their ids first.
AppendRootRepos(l, repos, how) ==
    LET refused == SelectSeq(repos, Blocked)
        holding == IF refused = <<>> THEN l
                   ELSE [FoldLeft(LAMBDA x, r : HoldId(x, r, how), l, refused) EXCEPT !.generation = @ + 1]
    IN AppendRepos(holding, SelectSeq(repos, LAMBDA r : ~Blocked(r)), how)

-----------------------------------------------------------------------------
(* The list of one build                                                   *)

\* BuildRepos::add: one repository per id; with `replace`, the new one goes last.
AddToBuild(b, r, replace) ==
    LET known == r.id \in b.ids
        repos == IF known /\ replace /\ r.id # "" THEN SelectSeq(b.repos, LAMBDA x : x.id # r.id) ELSE b.repos
    IN IF known /\ ~replace THEN b
       ELSE [ids |-> b.ids \cup {r.id},
             repos |-> IF \E i \in DOMAIN repos : repos[i].id = r.id THEN repos ELSE Append(repos, r)]

\* BuildRepos::hold
HoldInBuild(b, r, replace) ==
    IF r.id = "" THEN b
    ELSE [ids |-> b.ids \cup {r.id},
          repos |-> IF r.id \in b.ids /\ replace THEN SelectSeq(b.repos, LAMBDA x : x.id # r.id) ELSE b.repos]

\* ModelScope::observe for a transitive build.
ObserveInBuild(b, repos, replace) ==
    FoldLeft(LAMBDA x, r : HoldInBuild(x, r, replace),
             FoldLeft(LAMBDA x, r : AddToBuild(x, r, replace), b, SelectSeq(repos, LAMBDA r : ~Blocked(r))),
             SelectSeq(repos, Blocked))

-----------------------------------------------------------------------------
(* From the root build to the solver                                       *)

\* What the lineage reads of a declaration, and the effective model of it:
\* the nearest declaration of an id, its policy interpolated.
EffectiveModel(p) ==
    LET nearest == {i \in DOMAIN p.lineage : \A j \in 1..(i - 1) : p.lineage[j].id # p.lineage[i].id}
        Of(r) == IF r.expr THEN [r EXCEPT !.sum = p.interpolated, !.expr = FALSE] ELSE r
    IN FoldLeft(LAMBDA s, i : IF i \in nearest THEN Append(s, Of(p.lineage[i])) ELSE s, <<>>,
                [i \in DOMAIN p.lineage |-> i])

\* merge_repos: one entry per URL and id, the strictest policy kept.
MergeRepos(base, extra) ==
    LET Merge(s, r) ==
            IF RepoKey(r) \notin RepoKeys(s) THEN Append(s, r)
            ELSE [i \in DOMAIN s |-> IF RepoKey(s[i]) = RepoKey(r) THEN MergedPolicy(s[i], r, "Outside") ELSE s[i]]
    IN FoldLeft(Merge, <<>>, base \o extra)

\* effective_repos_snapshot
Observed(l) == EffectiveEntries(l, l.entries)

SolverList(p, observed) ==
    AppendRootRepos(EmptyList, MergeRepos(MergeRepos(p.config, EffectiveModel(p)), observed), "Outside")

ListInit ==
    /\ project \in Projects
    /\ left = project.lineage
    /\ shared = AppendRootRepos(EmptyList, project.config, "Outside")
    /\ built = [repos |-> <<>>, ids |-> {}]
    /\ contexts = {<<>>} /\ builds = {} /\ kept = {} /\ textOf = <<>>
    /\ stage = "lineage"

ObserveLineage ==
    /\ stage = "lineage" /\ left # <<>>
    /\ LET r == Head(left)
       IN /\ shared' = AppendRootRepos(shared, <<r>>, IF r.expr THEN "Provisional" ELSE "Lineage")
          /\ built' = ObserveInBuild(built, <<r>>, FALSE)
    /\ left' = Tail(left)
    /\ UNCHANGED <<project, contexts, builds, kept, textOf, stage>>

ObserveEffective ==
    /\ stage = "lineage" /\ left = <<>>
    /\ shared' = AppendRootRepos(shared, EffectiveModel(project), "Effective")
    /\ built' = ObserveInBuild(built, EffectiveModel(project), TRUE)
    /\ stage' = "effective"
    /\ UNCHANGED <<project, left, contexts, builds, kept, textOf>>

EnterGraph ==
    /\ stage = "effective"
    /\ shared' = SolverList(project, Observed(shared))
    /\ stage' = "graph"
    /\ UNCHANGED <<project, left, built, contexts, builds, kept, textOf>>

-----------------------------------------------------------------------------
(* The graph                                                               *)

\* resolution_repositories: of the repositories without an id, the first.
ResolutionRepos(repos) ==
    LET blanks == {i \in DOMAIN repos : repos[i].id = ""}
    IN FoldLeft(LAMBDA s, i : IF \E j \in blanks : i \in blanks /\ j < i THEN s ELSE Append(s, repos[i]), <<>>,
                [i \in DOMAIN repos |-> i])

Admissible(repos) == SelectSeq(ResolutionRepos(repos), LAMBDA r : ~Blocked(r))

\* Mutant: a context takes whatever the path declares.
UnshadowedContext(l, parent, admitted, how) ==
    FoldLeft(LAMBDA m, r : IF RepoKey(r) \in RepoKeys(ProjectPart(l)) \cup RepoKeys(m) THEN m ELSE Append(m, r),
             parent, admitted)

\* join_context, once the shared list is `l`: the entries of the project and
\* of the parent's path are not replaced.
JoinedContext(l, parent, admitted, how) ==
    LET root == ProjectPart(l)
        Shadowed(r) == \/ /\ r.id # ""
                          /\ IF how = "Reactor" THEN \E i \in DOMAIN root : root[i].id = r.id ELSE r.id \in l.ids
                       \/ RepoKey(r) \in RepoKeys(root)
        Join(m, r) ==
            IF Shadowed(r) THEN m
            ELSE IF \E i \in DOMAIN m : m[i].id = r.id
            THEN [i \in DOMAIN m |-> IF RepoKey(m[i]) = RepoKey(r) /\ PolicyRank(r.sum) > 0
                                     THEN MergedPolicy(m[i], r, how) ELSE m[i]]
            ELSE Append(m, r)
    IN FoldLeft(Join, parent, admitted)

\* parent_search_list
ParentSearchList(l, context, build) ==
    LET root == ProjectPart(l)
        BlockedId(r) == r.id # "" /\ \/ r.id \in l.ids
                                     \/ \E i \in DOMAIN context : context[i].id = r.id /\ context[i].url # r.url
        Extra(x, r) == IF BlockedId(r) \/ RepoKey(r) \in RepoKeys(root \o x) THEN x ELSE Append(x, r)
    IN root \o SelectSeq(FoldLeft(Extra, context, build), LAMBDA r : RepoKey(r) \notin RepoKeys(root))

\* model_context: everything a build reads of the repositories.
ContextText(l, context) == <<ProjectPart(l), context, l.provisional, l.ids>>

KnownText(context) == SelectSeq(textOf, LAMBDA t : t.context = context)
ModelContext(l, context) ==
    LET known == KnownText(context)
    IN IF known # <<>> /\ known[1].generation = l.generation THEN known[1].text ELSE ContextText(l, context)
Remembered(l, context) ==
    Append(SelectSeq(textOf, LAMBDA t : t.context # context),
           [context |-> context, generation |-> l.generation, text |-> ModelContext(l, context)])

\* A dependency's POM is read in the context of its path; the builds of one
\* level of the graph run beside each other.
StartBuild(context) ==
    /\ stage = "graph" /\ Cardinality(builds) < 2 /\ shared.generation < project.reads
    /\ \A b \in builds : b.context # context
    /\ builds' = builds \cup {[context |-> context, text |-> ModelContext(shared, context), searched |-> {}]}
    /\ textOf' = Remembered(shared, context)
    /\ UNCHANGED <<project, left, shared, built, contexts, kept, stage>>

\* The build looks for a parent or a BOM.
SearchInBuild(b) ==
    /\ builds' = (builds \ {b}) \cup {[b EXCEPT !.searched = @ \cup {ContextText(shared, b.context)}]}
    /\ builds' # builds
    /\ UNCHANGED <<project, left, shared, built, contexts, kept, textOf, stage>>

\* keep_reactor_model
KeepModel(b) ==
    IF ModelContext(shared, b.context) = b.text
    THEN kept \cup {[text |-> b.text, searched |-> b.searched]} ELSE kept

\* The model is kept, its repositories join the shared list (admit_dependency),
\* and the context of its own dependencies (extend_repo_context).
EndBuild(b, repos, how) ==
    /\ kept' = KeepModel(b)
    /\ shared' = AppendRepos(shared, Admissible(repos), how)
    /\ contexts' = contexts \cup {IF Admissible(repos) = <<>> THEN b.context
                                  ELSE JoinedContext(shared', b.context, Admissible(repos), how)}
    /\ textOf' = Remembered(shared, b.context)
    /\ builds' = builds \ {b}
    /\ UNCHANGED <<project, left, built, stage>>

ListNext ==
    \/ ObserveLineage
    \/ ObserveEffective
    \/ EnterGraph
    \/ \E c \in contexts : StartBuild(c)
    \/ \E b \in builds : SearchInBuild(b)
    \/ \E b \in builds, repos \in DependencyRepos, how \in {"Fetched", "Reactor"} : EndBuild(b, repos, how)

-----------------------------------------------------------------------------
(* Properties                                                              *)

OnePerId(s) == \A i, j \in DOMAIN s : s[i].id = s[j].id /\ s[i].id # "" => i = j

\* While the parents of the root project are looked up, the project's list is
\* searched as it stands (root_repos_snapshot): a declaration that still holds
\* an expression does not replace the default of its id, it goes before it and
\* before what a further parent replaces that default by.
OnePerIdButProvisional(l) ==
    \A i, j \in 1..l.end :
        i < j /\ l.entries[i].id = l.entries[j].id /\ l.entries[i].id # ""
          => IsProvisional(l, RepoKey(l.entries[i])) /\ ~IsProvisional(l, RepoKey(l.entries[j]))

\* The index that deduplicates is in step with the list (seen_repos). Every
\* list that a dependency's search reads, the project's, a path's and a parent
\* lookup's, names one repository per id: a second would receive the first
\* one's credential, mirror and policies, which are configured by id
\* (backend.rs 1335-1339). A parent lookup of the root project itself meets
\* two under one id only while the first waits to be interpolated
\* (backend.rs 1347-1350, 2479-2480).
SearchesOnePerId ==
    /\ shared.seen = RepoKeys(shared.entries) /\ shared.end <= Len(shared.entries)
    /\ OnePerId(EffectiveEntries(shared, ProjectPart(shared)))
    /\ IF stage = "lineage" THEN OnePerIdButProvisional(shared) ELSE OnePerId(ProjectPart(shared))
    /\ stage = "graph" =>
         \A c \in contexts :
            /\ OnePerId(ProjectPart(shared) \o c)
            /\ OnePerId(ParentSearchList(shared, c, built.repos))

\* What the parent lookups listed on the way leaves no trace: the solver
\* searches what the configuration and the effective model declare, and a
\* fetched POM's build ends with the admitted repositories of its own
\* (backend.rs 459-481, 1124-1155; scope.rs 643-738).
LineageLeavesNoTrace ==
    stage = "effective" =>
      /\ ToSet(ProjectPart(SolverList(project, Observed(shared)))) =
           ToSet(ProjectPart(SolverList(project, <<>>)))
      /\ ToSet(built.repos) = {r \in ToSet(EffectiveModel(project)) : ~Blocked(r)}

\* A model that another module takes over was built from the repositories it
\* is kept under, though the dependencies of the same level declare theirs
\* beside its build (backend.rs 696-745).
KeptModelsReadTheirContext == \A m \in kept : m.searched \subseteq {m.text}

\* The lists of repositories that are searched.
ListsSound == SearchesOnePerId /\ LineageLeavesNoTrace /\ KeptModelsReadTheirContext
=============================================================================

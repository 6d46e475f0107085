--------------------------------- MODULE Lineage ---------------------------------
(***************************************************************************)
(* A POM's parents, profiles and imported BOMs merged into one model:      *)
(* rv-maven-model/src/inheritance.rs, relevance.rs, dependency.rs and      *)
(* project/{bom,dep_management}.rs. Texts are those of Profiles. A chain   *)
(* holds the POM first, then its parents. A declaration is [key, version,  *)
(* scope, optional]; its key stands for group, artifact, type and          *)
(* classifier.                                                             *)
(***************************************************************************)
EXTENDS Profiles

CONSTANTS MaxParents,     \* MAX_PARENT_CHAIN_DEPTH
          MaxBomDepth,    \* MAX_BOM_DEPTH
          MaxFollowed     \* how deep FetchedValues::chose follows references

-----------------------------------------------------------------------------
(* Keyed lists                                                             *)

Keys(list) == {list[i].key : i \in 1..Len(list)}
At(list, key) == CHOOSE i \in 1..Len(list) : list[i].key = key

\* As an IndexMap inserts: in place of the entry with the key, else last.
Put(list, e) == IF e.key \in Keys(list) THEN [list EXCEPT ![At(list, e.key)] = e] ELSE Append(list, e)
PutNew(list, e) == IF e.key \in Keys(list) THEN list ELSE Append(list, e)
PutAll(list, entries) == FoldLeft(Put, list, entries)
PutAllNew(list, entries) == FoldLeft(PutNew, list, entries)
Keyed(list) == PutAll(<<>>, list)

MergeKeyed(target, sources) ==
    IF \A i \in 1..Len(sources) : sources[i] = <<>> THEN target
    ELSE PutAll(Keyed(target), FlattenSeq(sources))

MergeLevels(levels) == FoldLeft(LAMBDA merged, level : PutAllNew(merged, Keyed(level)), <<>>, levels)
MergeRepositories(dominant, recessive) == PutAllNew(Keyed(dominant), recessive)

\* The last profile's repositories first, the POM's own last.
InjectRepositories(own, active) ==
    IF \A i \in 1..Len(active) : active[i] = <<>> THEN own
    ELSE PutAllNew(<<>>, FlattenSeq([i \in 1..Len(active) |-> Keyed(active[Len(active) + 1 - i])]) \o own)

-----------------------------------------------------------------------------
(* The parent chain. `t` is the working tree and the repositories:         *)
(* t.files and t.repo map paths and coordinates to POMs, t.inside holds    *)
(* the paths within the boundary. A POM is [declares, parent, path], the   *)
(* path of its <relativePath>, None where the local lookup is skipped.     *)

AcceptLocalParent(t, pom) ==
    pom.path \in t.inside \cap DOMAIN t.files /\ t.files[pom.path].declares = pom.parent

AcceptedLimit == MaxParents

RECURSIVE AcceptedFrom(_, _, _, _)
AcceptedFrom(t, pom, chain, seen) ==
    IF Len(chain) = AcceptedLimit \/ pom.parent = None THEN chain
    ELSE IF ~AcceptLocalParent(t, pom) \/ pom.path \in seen THEN chain
    ELSE AcceptedFrom(t, t.files[pom.path], Append(chain, pom.path), seen \cup {pom.path})

AcceptedLocalParents(t, start) == AcceptedFrom(t, t.files[start], <<>>, {start})

RECURSIVE Walk(_, _, _, _, _)
Walk(t, inherit, pom, local, visited) ==
    LET ends(err) == [local |-> local, err |-> err]
    IN IF pom.parent = None THEN ends("")
       ELSE IF Cardinality(visited) = MaxParents THEN ends("too long")
       ELSE IF pom.parent \in visited THEN ends("cycle")
       ELSE IF AcceptLocalParent(t, pom)
            THEN Walk(t, inherit, t.files[pom.path], Append(local, pom.path), visited \cup {pom.parent})
       ELSE IF pom.parent \in DOMAIN t.repo
            THEN IF t.repo[pom.parent].declares # pom.parent THEN ends("mismatch")
                 ELSE Walk(t, inherit, t.repo[pom.parent], local, visited \cup {pom.parent})
       ELSE IF inherit THEN ends("") ELSE ends("not found")

\* The local files inheritance reads, and why it fails.
ParentChain(t, inherit, start) == Walk(t, inherit, t.files[start], <<>>, {})

-----------------------------------------------------------------------------
(* The effective model of a chain                                          *)

FirstSet(values) ==
    LET set == SelectSeq(values, LAMBDA v : v # NoText) IN IF set = <<>> THEN NoText ELSE set[1]
Column(chain, field) == [i \in 1..Len(chain) |-> chain[i][field]]
InheritedProps(chain) == FoldLeft(LAMBDA child, pom : child @@ pom.props, <<>>, chain)

\* The properties whose value a fetched POM chose: what it defines and no
\* POM below it that is the project's defines again.
FetchedKeys(chain) ==
    {k \in DOMAIN InheritedProps(chain) :
        LET at == {i \in 1..Len(chain) : k \in DOMAIN chain[i].props}
        IN chain[CHOOSE i \in at : \A j \in at : i <= j].fetched}

\* Whether a fetched POM set the field, by the first POM that sets it.
FieldFetched(chain, field) ==
    LET at == {i \in 1..Len(chain) : chain[i][field] # NoText}
    IN at # {} /\ chain[CHOOSE i \in at : \A j \in at : i <= j].fetched

\* The names of model fields: project.x ahead of the properties, x behind.
FieldOf == (<<"pg">> :> "group") @@ (<<"g">> :> "group") @@ (<<"pb">> :> "build")
AheadNames == {<<"pg">>, <<"pb">>}

ModelScope(chain, user) ==
    LET field(f) == FirstSet(Column(chain, f))
        set == {n \in DOMAIN FieldOf : field(FieldOf[n]) # NoText}
    IN [props |-> LiteralValues(user) @@ InheritedProps(chain), external |-> DOMAIN user,
        build |-> [n \in set \cap AheadNames |-> field(FieldOf[n])], builtin |-> <<>>, system |-> <<>>,
        fields |-> [n \in set \ AheadNames |-> [i \in 1..Len(field(FieldOf[n])) |-> field(FieldOf[n])[i].lit]]]

\* FetchedValues::chose: whether expanding the text takes such a value. What
\* it cannot follow counts as chosen.
RECURSIVE ChoseWithin(_, _, _, _)
ChoseWithin(chain, user, text, depth) ==
    IF depth > MaxFollowed THEN TRUE ELSE
    \E i \in {j \in 1..Len(text) : IsRef(text[j])} :
        LET key == text[i].ref
            name == [k \in 1..Len(key) |-> key[k].lit]
            props == InheritedProps(chain)
            fieldChose(f) == FieldFetched(chain, f) \/ ChoseWithin(chain, user, FirstSet(Column(chain, f)), depth + 1)
        IN IF \E k \in 1..Len(key) : IsRef(key[k]) THEN TRUE
           ELSE IF name \in AheadNames /\ FirstSet(Column(chain, FieldOf[name])) # NoText THEN fieldChose(FieldOf[name])
           ELSE IF name \in DOMAIN user THEN ChoseWithin(chain, user, Literal(user[name]), depth + 1)
           ELSE IF name \in FetchedKeys(chain) THEN TRUE
           ELSE IF name \in DOMAIN props THEN ChoseWithin(chain, user, props[name], depth + 1)
           ELSE IF name \in DOMAIN FieldOf \ AheadNames /\ FirstSet(Column(chain, FieldOf[name])) # NoText
                THEN fieldChose(FieldOf[name])
           ELSE FALSE

Chose(chain, user, text) ==
    (\E i \in 1..Len(chain) : chain[i].fetched) /\ ChoseWithin(chain, user, text, 0)

\* A project repository keeps the project's trust unless a fetched POM chose
\* part of its URL.
RepositoryTrusted(chain, user, url) == ~Chose(chain, user, url)
RepositoryUrl(chain, user, url) == Interpolate(url, ModelScope(chain, user))

-----------------------------------------------------------------------------
(* Dependency management: a declaration's missing fields are filled        *)

Fill(value, managed) == IF value = NoText THEN managed ELSE value

ApplyManaged(d, m) ==
    [d EXCEPT !.version = Fill(@, m.version), !.scope = Fill(@, m.scope),
              !.exclusions = IF @ = {} THEN m.exclusions ELSE @]

\* Entries whose keys meet only once expanded become one.
ManagedIndex(management) ==
    FoldLeft(LAMBDA index, m : IF m.key \in Keys(index)
                               THEN [index EXCEPT ![At(index, m.key)] = ApplyManaged(@, m)]
                               ELSE Append(index, m), <<>>, management)

Manage(d, index) == IF d.key \in Keys(index) THEN ApplyManaged(d, index[At(index, d.key)]) ELSE d

-----------------------------------------------------------------------------
(* Which profiles resolution can notice                                    *)

Mentions(text) == {i \in 1..Len(text) : IsRef(text[i])}
Computed(text) == \E i \in Mentions(text) : \E j \in 1..Len(text[i].ref) : IsRef(text[i].ref[j])
NamesIn(text) == {[j \in 1..Len(text[i].ref) |-> text[i].ref[j].lit] :
                     i \in {k \in Mentions(text) : \A j \in 1..Len(text[k].ref) : ~IsRef(text[k].ref[j])}}

Is(text, word) == text = <<Lit(word)>>
MayBeInvalid(d) == Is(d.scope, "system") \/ d.key = <<>>
LeftOut(d) ==
    /\ ~MayBeInvalid(d)
    /\ d.version \notin {NoText, <<>>}
    /\ Is(d.scope, "test") \/ Is(d.scope, "provided") \/ Is(d.optional, "true")

Contents(chain) == {chain[i] : i \in 1..Len(chain)} \cup {chain[i].profile : i \in 1..Len(chain)}
DeclaredIn(contents, field) == UNION {ToSet(c[field]) : c \in contents}

\* The declarations that reach resolution, and whether any may.
AllReach(chain, role) ==
    role = "project" \/ \E d \in DeclaredIn(Contents(chain), "deps") : ~LeftOut(d) /\ Mentions(d.key) # {}
ReachingKeys(chain) == {d.key : d \in {e \in DeclaredIn(Contents(chain), "deps") : ~LeftOut(e)}}


\* One that is left out counts where it can change one that is not.
Reaches(chain, role, d) ==
    AllReach(chain, role) \/ ~LeftOut(d) \/ Mentions(d.key) # {} \/ d.key \in ReachingKeys(chain)

Manages(chain, role, m) ==
    \/ role # "dependency" \/ AllReach(chain, role)
    \/ Is(m.scope, "import") \/ Mentions(m.scope) # {}
    \/ MayBeInvalid(m) \/ Mentions(m.key) # {} \/ m.key \in ReachingKeys(chain)

DeclarationTexts(d) == {d.key, d.version, d.scope, d.optional} \ {NoText}
ReadTexts(chain, role) ==
    UNION {DeclarationTexts(d) : d \in {e \in DeclaredIn(Contents(chain), "deps") : Reaches(chain, role, e)}}
    \cup UNION {DeclarationTexts(m) : m \in {e \in DeclaredIn(Contents(chain), "managed") : Manages(chain, role, e)}}
    \cup {r.url : r \in DeclaredIn(Contents(chain), "repos")}

\* The names resolution can read, through every definition of each.
DefinitionsOf(chain, name) == {c.props[name] : c \in {e \in Contents(chain) : name \in DOMAIN e.props}}
RECURSIVE Reached(_, _)
Reached(chain, texts) ==
    LET more == UNION {DefinitionsOf(chain, n) : n \in UNION {NamesIn(t) : t \in texts}}
    IN IF more \subseteq texts THEN texts ELSE Reached(chain, texts \cup more)

IsRelevant(chain, role, profile) ==
    LET texts == Reached(chain, ReadTexts(chain, role))
    IN \/ \E d \in ToSet(profile.deps) : Reaches(chain, role, d)
       \/ \E m \in ToSet(profile.managed) : Manages(chain, role, m)
       \/ profile.repos # <<>>
       \/ DOMAIN profile.props # {} /\ \E t \in texts : Computed(t)
       \/ DOMAIN profile.props \cap UNION {NamesIn(t) : t \in texts} # {}

Inject(pom, profile) ==
    [pom EXCEPT !.props = profile.props @@ @,
                !.deps = MergeKeyed(@, <<profile.deps>>),
                !.managed = MergeKeyed(@, <<profile.managed>>),
                !.repos = InjectRepositories(@, <<profile.repos>>)]

\* The merged model, expanded: what resolution is given. A dependency's POM
\* that is not valid gives no dependencies.
ResolutionView(chain, role) ==
    LET scope == [props |-> InheritedProps(chain), external |-> {}, build |-> <<>>, builtin |-> <<>>,
                  system |-> <<>>, fields |-> <<>>]
        value(text) == IF text = NoText THEN NoText ELSE Literal(Interpolate(text, scope).out)
        expand(d) == [d EXCEPT !.key = value(@), !.version = value(@), !.scope = value(@), !.optional = value(@)]
        merged(field) == MergeLevels(Column([i \in 1..Len(chain) |-> [chain[i] EXCEPT !.deps = Keyed(@)]], field))
        expanded(list) == [i \in 1..Len(list) |-> expand(list[i])]
        imports(managed) == SelectSeq(managed, LAMBDA m : Is(m.scope, "import"))
        index(managed) == ManagedIndex(SelectSeq(managed, LAMBDA m : ~Is(m.scope, "import")))
        manage(own, by) == [i \in 1..Len(own) |-> Manage(own[i], by)]
        valid(deps, managed) ==
                 /\ \A i \in 1..Len(deps) : deps[i].version \notin {NoText, <<>>} /\ ~MayBeInvalid(deps[i])
                 /\ \A i \in 1..Len(managed) : ~MayBeInvalid(managed[i])
        followed(deps) == SelectSeq(deps, LAMBDA d : ~Is(d.optional, "true") /\ ~Is(d.scope, "test") /\ ~Is(d.scope, "provided"))
        repos == LET own == FoldLeft(MergeRepositories, <<>>, Column(chain, "repos"))
                 IN [i \in 1..Len(own) |-> value(own[i].url)]
        view(deps, managed) ==
            IF role = "project" THEN [deps |-> deps, managed |-> managed, repos |-> repos, valid |-> TRUE]
            ELSE IF role = "import"
            THEN [deps |-> <<>>, managed |-> managed, repos |-> repos, valid |-> valid(deps, managed)]
            ELSE [deps |-> IF valid(deps, managed) THEN followed(deps) ELSE <<>>, managed |-> imports(managed),
                  repos |-> repos, valid |-> valid(deps, managed)]
        under(managed) == view(manage(expanded(merged("deps")), index(managed)), managed)
    IN under(expanded(merged("managed")))

-----------------------------------------------------------------------------
(* Imported BOMs. `boms` maps the BOMs that can be read to [own, imports,  *)
(* valid, logs]; `ctx` is the importer's properties. An import that is not *)
(* there cannot be looked up, Refused lacks a coordinate. A kept build is  *)
(* [ctx, mgmt, imports, height, logged].                                   *)

Refused == "refused"

RebuildsAlike(kept, ctx, stack, depth) ==
    kept.ctx = ctx /\ depth + kept.height < MaxBomDepth /\ kept.imports \cap stack = {}

\* A build that logged is kept only while it is the last.
KeepLast(builds, kept) == Append(SelectSeq(builds, LAMBDA other : ~other.logged), kept)

\* The last build if it fits, else the first other that fits and logged nothing.
ReuseImport(builds, Fits(_)) ==
    LET n == Len(builds)
        quiet == {i \in 1..n : ~builds[i].logged /\ Fits(builds[i])}
    IN IF n > 0 /\ Fits(builds[n]) THEN <<n>>
       ELSE IF quiet = {} THEN <<>>
       ELSE <<CHOOSE i \in quiet : \A j \in quiet : i <= j>>

MergeImports(locals, imports) == PutAllNew(Keyed(locals), FlattenSeq(imports))

\* An entry's version may be the importer's property.
OwnEntries(bom, ctx) ==
    [i \in 1..Len(bom.own) |-> [bom.own[i] EXCEPT !.version = IF @ = "u" THEN ctx ELSE @]]

RECURSIVE ResolveImports(_, _, _, _, _, _)
ResolveImports(boms, ctx, bom, stack, depth, cache) ==
    LET start == [cache |-> cache, seen |-> {}, reached |-> depth, mgmt |-> <<>>, logged |-> bom.logs,
                  invalid |-> FALSE, fatal |-> FALSE]
        add(acc, kept) ==
            [acc EXCEPT !.seen = @ \cup kept.imports, !.mgmt = Append(@, kept.mgmt),
                        !.logged = @ \/ kept.logged,
                        !.reached = IF depth + kept.height > @ THEN depth + kept.height ELSE @]
        build(acc, b) ==
            LET sub == ResolveImports(boms, ctx, boms[b], stack \cup {b}, depth + 1, acc.cache)
                kept == [ctx |-> ctx, mgmt |-> sub.mgmt, imports |-> sub.seen \cup {b},
                         height |-> sub.reached - depth, logged |-> sub.logged]
            IN IF sub.fatal THEN [acc EXCEPT !.fatal = TRUE, !.cache = sub.cache]
               ELSE IF sub.invalid THEN [acc EXCEPT !.invalid = TRUE, !.cache = sub.cache, !.logged = @ \/ sub.logged]
               ELSE [add(acc, kept) EXCEPT !.cache = [sub.cache EXCEPT ![b] = KeepLast(@, kept)]]
        step(acc, b) ==
            LET kept == IF b \in DOMAIN acc.cache THEN acc.cache[b] ELSE <<>>
                reused == ReuseImport(kept, LAMBDA k : RebuildsAlike(k, ctx, stack, depth))
            IN IF acc.fatal THEN acc
               ELSE IF b = Refused \/ b \in stack THEN [acc EXCEPT !.invalid = TRUE]
               ELSE IF reused # <<>>
                    THEN [add(acc, kept[reused[1]]) EXCEPT
                            !.cache = [@ EXCEPT ![b] = KeepLast(RemoveAt(@, reused[1]), kept[reused[1]])]]
               ELSE IF b \notin DOMAIN boms THEN [acc EXCEPT !.fatal = TRUE]
               ELSE build(acc, b)
        all == FoldLeft(step, start, bom.imports)
        own == OwnEntries(bom, ctx)
    IN IF depth >= MaxBomDepth THEN [start EXCEPT !.fatal = TRUE]
       ELSE [all EXCEPT !.mgmt = IF all.mgmt = <<>> THEN own ELSE MergeImports(own, all.mgmt),
                        !.invalid = @ \/ ~bom.valid]
=============================================================================

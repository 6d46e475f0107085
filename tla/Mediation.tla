---------------------------------- MODULE Mediation ----------------------------------
(***************************************************************************)
(* What a solver's walk has to give: what Maven's ConflictResolver gives   *)
(* from the whole tree of declarations; and small repositories to walk.    *)
(***************************************************************************)
EXTENDS Solver

-----------------------------------------------------------------------------
(* Repositories                                                            *)

At(key, version) == [key |-> key, version |-> version]
Dep(key, req) == [key |-> key, req |-> <<req>>, scope |-> "compile", optional |-> FALSE, excl |-> {}, managed |-> FALSE]
Soft(v) == [kind |-> "soft", vs |-> <<v>>]
Exact(v) == [kind |-> "exact", vs |-> <<v>>]
Ranged(vs) == [kind |-> "range", vs |-> vs]
On(key, v) == Dep(key, Soft(v))
Pom(deps) == [deps |-> deps, reloc |-> Nil, versions |-> <<>>]
Keys == <<"a", "b", "c", "d", "e">>
NoManagement == <<>>

\* The nearest declaration wins, and with a winner go its declarations.
\* Some of these groups lie on cycles.
Nearest ==
    [root : {<<On("a", 1), On("b", 1)>>, <<On("d", 1), On("a", 1)>>},
     pom : {At("a", 1) :> Pom(a1) @@ At("a", 2) :> Pom(a2) @@ At("b", 1) :> Pom(b1) @@ At("b", 2) :> Pom(b2)
            @@ At("c", 1) :> Pom(c1) @@ At("c", 2) :> Pom(c2) @@ At("d", 1) :> Pom(d1) @@ At("d", 2) :> Pom(<<On("a", 2)>>) :
              a1 \in {<<On("c", 2), On("b", 2)>>, <<On("b", 2)>>, <<On("d", 2), On("c", 1)>>},
              a2 \in {<<>>, <<On("c", 2)>>, <<On("d", 1)>>},
              b1 \in {<<On("c", 2)>>, <<On("a", 2)>>, <<On("d", 2)>>},
              b2 \in {<<>>, <<On("a", 2)>>, <<On("d", 1)>>},
              c1 \in {<<>>, <<On("a", 2)>>, <<On("d", 1)>>},
              c2 \in {<<>>, <<On("b", 2)>>},
              d1 \in {<<On("c", 1)>>, <<On("b", 1)>>, <<On("b", 2), On("a", 2)>>}},
     managed : {NoManagement}, fat : {{}}]

\* Constraints: a nearer version may be rejected, and a range's versions
\* bring declarations of their own.
Any12 == Ranged(<<1, 2>>)
Constrained ==
    [root : {<<On("a", 1), On("b", 1)>>, <<On("a", 1), Dep("c", Any12)>>, <<Dep("a", Any12), On("c", 1), On("b", 1)>>},
     pom : {At("a", 1) :> Pom(a1) @@ At("a", 2) :> Pom(a2) @@ At("b", 1) :> Pom(b1) @@ At("b", 2) :> Pom(<<>>)
            @@ At("c", 1) :> Pom(c1) @@ At("c", 2) :> Pom(c2) :
              a1 \in {<<>>, <<Dep("b", Exact(2))>>, <<Dep("b", Any12), On("c", 1)>>, <<Dep("c", Exact(1))>>, <<Dep("c", Exact(2))>>},
              a2 \in {<<>>, <<Dep("c", Exact(2))>>, <<On("b", 2)>>},
              b1 \in {<<>>, <<Dep("c", Exact(2))>>, <<Dep("c", Any12)>>, <<Dep("a", Exact(2))>>},
              c1 \in {<<>>, <<Dep("b", Exact(2))>>, <<Dep("a", Exact(1))>>},
              c2 \in {<<>>, <<Dep("b", Exact(1))>>, <<Dep("a", Any12)>>}},
     managed : {NoManagement}, fat : {{}, {"c"}}]

\* Scopes, exclusions and the root's management.
Scoped(dep, scope) == [dep EXCEPT !.scope = scope]
Excluding(dep, keys) == [dep EXCEPT !.excl = keys]
Managing(req, scope, excl) == [req |-> req, scope |-> scope, excl |-> excl]
Managed ==
    [root : {<<On("a", 1), On("b", 1)>>, <<Excluding(On("a", 1), {"c"}), Scoped(On("b", 1), "runtime")>>,
             <<Scoped(On("b", 1), "test"), On("a", 1)>>, <<Scoped(On("a", 1), "provided"), On("b", 2)>>},
     pom : {At("a", 1) :> Pom(a1) @@ At("b", 1) :> Pom(b1) @@ At("b", 2) :> Pom(<<On("c", 2)>>)
            @@ At("c", 1) :> Pom(c1) @@ At("c", 2) :> Pom(<<>>) @@ At("d", 1) :> Pom(<<>>) @@ At("d", 2) :> Pom(<<On("c", 1)>>) :
              a1 \in {<<On("c", 1)>>, <<Excluding(On("b", 2), {"c"}), On("c", 1)>>, <<Scoped(On("c", 1), "runtime"), On("d", 2)>>},
              b1 \in {<<On("c", 2)>>, <<Scoped(On("c", 2), "test")>>, <<Excluding(On("d", 1), {"c"}), Scoped(On("c", 2), "runtime")>>},
              c1 \in {<<>>, <<On("d", 1)>>, <<[On("d", 2) EXCEPT !.optional = TRUE]>>, <<On("d", 1), On("b", 2)>>}},
     managed : {NoManagement, "c" :> Managing(<<Soft(2)>>, Nil, {"d"}), "c" :> Managing(Nil, <<"test">>, {}),
                "d" :> Managing(<<Soft(2)>>, <<"runtime">>, {}) @@ "b" :> Managing(<<Exact(2)>>, Nil, {"c"})},
     fat : {{}, {"b"}}]

\* Relocations, onto keys that others declare, of single versions of a
\* range, and onto managed keys.
Moved(key, version) == [Pom(<<>>) EXCEPT !.reloc = <<At(key, version)>>]
Relocated ==
    [root : {<<On("a", 1), On("b", 1)>>, <<Dep("b", Any12), On("c", 1)>>, <<On("c", 1), Excluding(On("a", 1), {"d"})>>},
     pom : {At("a", 1) :> Pom(a1) @@ At("b", 1) :> b1 @@ At("b", 2) :> b2 @@ At("c", 1) :> c1 @@ At("c", 2) :> Pom(<<>>)
            @@ At("d", 1) :> d1 @@ At("d", 2) :> Pom(<<>>) :
              a1 \in {<<>>, <<On("d", 1)>>, <<On("b", 2), On("c", 1)>>, <<Dep("b", Any12)>>, <<Dep("d", Exact(1)), On("b", 2)>>},
              b1 \in {Pom(<<>>), Moved("d", 1), Moved("c", 2)},
              b2 \in {Pom(<<On("c", 1)>>), Moved("d", 2), Moved("a", 1)},
              c1 \in {Pom(<<On("d", 2)>>), Pom(<<On("a", 1), Dep("b", Any12)>>), Moved("d", 1)},
              d1 \in {Pom(<<>>), Pom(<<On("b", 1)>>), Moved("c", 2)}},
     managed : {NoManagement, "d" :> Managing(<<Soft(2)>>, Nil, {}), "d" :> Managing(<<Any12>>, <<"runtime">>, {}),
                "c" :> Managing(<<Soft(1)>>, Nil, {}) @@ "d" :> Managing(<<Exact(1)>>, Nil, {})},
     fat : {{}}]

\* Declarations that nest to the limit, or one level beyond it.
Nested ==
    [root : {<<On("a", 1)>>, <<On("a", 1), On("d", 2)>>, <<On("c", 2), On("a", 1)>>},
     pom : {At("a", 1) :> Pom(<<On("b", 1)>>) @@ At("b", 1) :> Pom(<<On("c", 1)>>) @@ At("c", 1) :> Pom(<<On("d", 1)>>)
            @@ At("c", 2) :> Pom(<<>>) @@ At("d", 1) :> Pom(d1) @@ At("d", 2) :> Pom(<<>>) @@ At("e", 1) :> Pom(e1) :
              d1 \in {<<>>, <<On("e", 1)>>}, e1 \in {<<>>, <<On("a", 1)>>, <<On("c", 2)>>}},
     managed : {NoManagement}, fat : {{}, {"e"}, {"c"}}]

Worlds == Nearest \cup Constrained \cup Managed \cup Relocated \cup Nested

CONSTANT MaxSteps   \* no walk of these repositories takes more
VARIABLE steps
mediationVars == <<world, walk, steps>>
MediationInit == world \in Worlds /\ walk = Start /\ steps = 0
MediationNext == Solve /\ steps' = steps + 1

-----------------------------------------------------------------------------
(* Maven's own result, from the tree of everything declared                *)

Place(t) == [coord |-> t.coord, order |-> t.order, path |-> t.path]
Ancestor(t, n) == [coord |-> t.path[n + 1], order |-> SubSeq(t.order, 1, n), path |-> SubSeq(t.path, 1, n + 1)]

\* Maven's FatArtifactTraverser enters no war, ear or rar.
Brings(c) == IF c.key \in world.fat THEN <<>> ELSE world.pom[c].deps

RECURSIVE TreeBelow(_, _, _, _)
TreeBelow(deps, path, order, excl) ==
    UNION {LET d == ApplyManaged([dep |-> deps[i], depth |-> Len(order) + 1]).dep
               req == Requirement([dep |-> deps[i], depth |-> Len(order) + 1])[1]
               below(c) == {[coord |-> c, path |-> Append(path, c), order |-> Append(order, i), hard |-> Hard(req)]}
                           \cup TreeBelow(Brings(c), Append(path, c), Append(order, i), excl \cup d.excl)
           IN IF d.key \in excl \/ OnPath(path, d.key) \/ (order # <<>> /\ ~FollowedTransitively(deps[i])) THEN {}
              ELSE UNION {below(At(d.key, v)) : v \in Range(req.vs)} : i \in 1..Len(deps)}
Tree == TreeBelow(world.root, <<RootCoord>>, <<>>, {})

DeclaredBelow(tree) ==
    UNION {{<<t.coord.key, d.key>> : d \in {x \in Range(Brings(t.coord)) : FollowedTransitively(x)}} : t \in tree}
RECURSIVE KeysBelow(_, _)
KeysBelow(below, keys) ==
    LET next == keys \cup {p[2] : p \in {q \in below : q[1] \in keys}} IN IF next = keys THEN keys ELSE KeysBelow(below, next)
Cyclic(below) == \E p \in below : p[1] \in KeysBelow(below, {p[2]})

\* Nearest first, the higher of two siblings, then depth first.
MavenNearer(t, u) ==
    LET m == Len(t.order) - 1  n == Len(u.order) - 1
    IN IF m # n THEN m < n
       ELSE IF SubSeq(t.order, 1, m) = SubSeq(u.order, 1, n) /\ t.coord.version # u.coord.version
       THEN t.coord.version > u.coord.version
       ELSE OrderLess(t.order, u.order)

\* Groups in topological order; where only cycles are left, the nearest
\* first. Members lie below the winners of the groups resolved so far.
RECURSIVE MavenWinners(_, _, _, _)
MavenWinners(tree, below, winners, left) ==
    LET ready == {k \in left : ~\E l \in left : l # k /\ <<l, k>> \in below}
        placed == {t \in tree : t.coord.key \in left}
        first == CHOOSE t \in placed : \A u \in placed :
                    Len(t.order) < Len(u.order) \/ (Len(t.order) = Len(u.order) /\ ~OrderLess(u.order, t.order))
        key == IF ready # {} THEN CHOOSE k \in ready : TRUE ELSE first.coord.key
        alive == {t \in tree : /\ t.coord.key = key
                               /\ \A n \in 1..(Len(t.order) - 1) : t.path[n + 1].key \in left \/ Ancestor(t, n) \in winners}
        accepted == {t \in alive : \A u \in alive : u.hard = Nil \/ Matches(u.hard[1], t.coord.version)}
        best == CHOOSE t \in accepted : \A u \in accepted : t = u \/ MavenNearer(t, u)
    IN IF left = {} THEN [conflict |-> FALSE, winners |-> winners]
       ELSE IF alive = {} THEN MavenWinners(tree, below, winners, left \ {key})
       ELSE IF accepted = {} THEN [conflict |-> TRUE]
       ELSE MavenWinners(tree, below, winners \cup {Place(best)}, left \ {key})

-----------------------------------------------------------------------------
(* Properties of the result                                                *)

Result == [nodes |-> walk.nodes, edges |-> walk.edges]
Selections == {walk.selected[key] : key \in DOMAIN walk.selected}
Relocates == \E c \in DOMAIN world.pom : world.pom[c].reloc # Nil
Constrains(tree) == \E t \in tree : t.hard # Nil

\* Reading the declarations one at a time, with winners that come and go,
\* selects what Maven's ConflictResolver selects from the whole tree of
\* declarations, and fails on a conflict where Maven does (solver/mod.rs
\* 391-549 and the shadows of 969-1454). Groups on a cycle are compared
\* where no declaration constrains: graph.rs 445-449 and the bound on
\* returning winners leave the others open.
AsMavenMediates ==
    ~Unfinished /\ ~Relocates /\ walk.error # "depth limit" =>
      LET tree == Tree
          below == DeclaredBelow(tree)
          maven == MavenWinners(tree, below, {}, {t.coord.key : t \in tree})
          \* A winner below a loser goes with it.
          final == {m.coord : m \in {w \in maven.winners : \A n \in 1..(Len(w.order) - 1) : Ancestor(w, n) \in maven.winners}}
      IN ~(Cyclic(below) /\ Constrains(tree)) =>
            /\ walk.done = ~maven.conflict
            /\ walk.done => final = {s.winner[1].coord : s \in Selections}

\* A module is refused for its depth only where its declarations really
\* nest that deep, however often its winners change (queue.rs 290-312).
RefusedOnlyTooDeep ==
    /\ walk.error = "depth limit" /\ ~Relocates => \E t \in Tree : Len(t.order) = MaxWalkDepth /\ Brings(t.coord) # <<>>
    /\ walk.error \notin {"queue limit", "declaration limit"}

\* Every group's winner is the nearest that its constraints accept, and
\* every candidate still has a declaration.
CandidatesCurrent(s) ==
    /\ Best(s) = s.winner /\ s.winner[1].loaded /\ walk.nodes[s.node].coord = s.winner[1].coord
    /\ s.node \in Reachable(Result)
    /\ \A c \in Range(s.cands) : c.item.shadow = Nil =>
          walk.generations[c.item.parent] = c.item.generation /\ c.item.parent \in Reachable(Result)

\* The edges out of a group's node: one for each declaration of the winner,
\* and no other.
DeclaredBy(s) ==
    LET deps == Brings(s.winner[1].coord)
    IN {i \in 1..Len(deps) : FollowedTransitively(deps[i]) /\ deps[i].key \notin Exclusions(s.winner[1])}
RelocationPairs == {<<c.key, world.pom[c].reloc[1].key>> : c \in {x \in DOMAIN world.pom : world.pom[x].reloc # Nil}}
Landings(key) == {Selection(walk, k).node : k \in {l \in KeysBelow(RelocationPairs, {key}) : Selected(walk, l)}}
EdgesOfWinner(s) ==
    LET winner == s.winner[1]
        deps == Brings(winner.coord)
        out == Range(OutOf(Result, s.node))
        runs(e, i) == e.edge.requested = deps[i].req /\ e.to \in Landings(deps[i].key)
    IN /\ \A e \in out : \E i \in 1..Len(deps) : runs(e, i)
       /\ ~Relocates => \A i \in DeclaredBy(s) :
             OnPath(Append(winner.item.path, winner.coord), deps[i].key) \/ \E e \in out : runs(e, i)

\* When the walk ends, nothing of a winner that lost is left: neither a
\* candidate nor an edge (solver/mod.rs 1047-1098, 1310-1355). Every edge
\* of a winner's declaration is there.
WinnersStand == walk.done => \A s \in Selections : CandidatesCurrent(s) /\ EdgesOfWinner(s)

\* Without management on the way, a relocation's source, its target and what
\* lies between are one group, so that the graph holds one of them
\* (solver/mod.rs 994-1029).
RelocationsShareGroup ==
    world.managed = NoManagement => \A key \in DOMAIN walk.selected : \A c \in Range(walk.selected[key].cands) :
       GroupOf(walk, c.item.dep.key) = key /\ GroupOf(walk, c.coord.key) = key

\* The walk ends: a winner that keeps coming back is cut off
\* (solver/mod.rs 1239-1254).
SolveEnds == steps <= MaxSteps

\* A scope is that of the first direct declaration, else the widest that
\* the parents give, and on a cycle one that some path gives (graph.rs
\* 436-632).
RECURSIVE Offered(_)
Offered(pairs) ==
    LET open(n) == n # Root /\ DirectScope(Result, n) = Nil
        next == pairs \cup UNION {{<<e.to, ScopeBelow(e.edge, p[2])>> : e \in {x \in Range(OutOf(Result, p[1])) : open(x.to)}} : p \in pairs}
    IN IF next = pairs THEN pairs ELSE Offered(next)
ScopesFromPaths ==
    walk.done =>
      LET direct == {n \in Reachable(Result) \ {Root} : DirectScope(Result, n) # Nil}
          links == {<<e.from, e.to>> : e \in {x \in Range(walk.edges) : x.from \in Reachable(Result)}}
          offers == Offered({<<Root, "compile">>} \cup {<<n, DirectScope(Result, n)[1]>> : n \in direct})
          parents(n) == {ScopeBelow(e.edge, walk.scopes[e.from]) :
                           e \in {x \in Range(Into(Result, n)) : x.from \in Reachable(Result)}}
      IN \A n \in Reachable(Result) \ {Root} :
            /\ <<n, walk.scopes[n]>> \in offers
            /\ n \in direct => \A e \in Range(OutOf(Result, Root)) : e.to = n =>
                  \E f \in Range(OutOf(Result, Root)) :
                     f.to = n /\ f.edge.declared <= e.edge.declared /\ f.edge.scope = walk.scopes[n]
            /\ n \notin direct /\ ~Cyclic(links) => /\ walk.scopes[n] \in parents(n)
                                                  /\ \A s \in parents(n) : Width[s] <= Width[walk.scopes[n]]

\* Mediation selects what Maven selects, refuses only what nests too deep, leaves nothing of a loser behind,
\* keeps relocated artifacts in one group, derives scopes that paths give,
\* and ends.
ResolutionSound ==
    /\ AsMavenMediates /\ RefusedOnlyTooDeep /\ WinnersStand /\ RelocationsShareGroup /\ ScopesFromPaths /\ SolveEnds
=============================================================================

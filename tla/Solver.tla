---------------------------------- MODULE Solver ----------------------------------
(***************************************************************************)
(* Mediation of a module's dependencies: rv-resolver/src/solver/           *)
(* {mod,queue,management,relocation}.rs. One step reads and mediates one   *)
(* queued declaration, or does one piece of the work that it left.         *)
(*                                                                         *)
(* world is what the repositories serve: pom maps a coordinate [key,       *)
(* version] to [deps, reloc, versions], the last its own managed versions; *)
(* managed maps the keys of the root's management to [req, scope, excl];   *)
(* fat holds the keys of type war, ear or rar. A key tells its type.       *)
(* A declaration is [key, req, scope, optional, excl, managed]. A          *)
(* requirement admits the versions req.vs, those of a range in the order   *)
(* the metadata lists; of kind "soft" it constrains nothing. An Option is  *)
(* a sequence of at most one element. System files, SNAPSHOT builds,       *)
(* reactor modules and repository contexts are left out.                   *)
(***************************************************************************)
EXTENDS Integers, Sequences, SequencesExt, FiniteSets, TLC

CONSTANTS KeyOrder,           \* the keys, in the order of their names
          MaxWinnerChanges,   \* MAX_WINNER_CHANGES
          MaxRelocations,     \* MAX_RELOCATIONS
          MaxManagedPasses,   \* MAX_RELOCATION_MANAGEMENT_PASSES
          MaxQueue,           \* MAX_QUEUE_SIZE
          MaxWalkDepth,       \* MAX_DEPTH
          MaxDeclarations     \* MAX_DECLARATIONS

VARIABLES world, walk

-----------------------------------------------------------------------------
(* The scopes of a mediated graph [nodes, edges]: rv-resolver/src/graph.rs. *)
(* Node 1 is the root; a node is [coord, scope, parent], parent an Option  *)
(* of the node whose declaration won; the edges [from, to, edge] are in    *)
(* the order in which they were added.                                     *)

Root == 1
Buckets == 16   \* of a Java HashSet with at most 12 elements

OutOf(g, n) == SelectSeq(g.edges, LAMBDA e : e.from = n)
Into(g, n) == SelectSeq(g.edges, LAMBDA e : e.to = n)

RECURSIVE ReachedFrom(_, _)
ReachedFrom(g, reached) ==
    LET next == reached \cup {e.to : e \in {x \in Range(g.edges) : x.from \in reached}}
    IN IF next = reached THEN reached ELSE ReachedFrom(g, next)
Reachable(g) == ReachedFrom(g, {Root})

\* Maven's JavaScopeDeriver.
ScopeBelow(edge, parent) ==
    IF edge.managed \/ edge.scope \in {"system", "test"} \/ parent = "compile" THEN edge.scope
    ELSE IF parent \in {"test", "runtime"} THEN parent ELSE "provided"

Width == [compile |-> 4, runtime |-> 3, provided |-> 2, test |-> 1, system |-> 0]

-----------------------------------------------------------------------------
(* Maven's ConflictMarker and ConflictIdSorter: the nodes in the order in  *)
(* which a depth-first walk finds them, their depths and what lies below.  *)

RECURSIVE PullUp(_, _, _)
PullUp(st, n, depth) ==
    IF depth >= st.depth[n] THEN st
    ELSE FoldLeft(LAMBDA s, child : PullUp(s, child, depth + 1), [st EXCEPT !.depth[n] = depth], st.children[n])

RECURSIVE Visit(_, _, _, _)
Visit(g, st, n, depth) ==
    LET Step(s, e) ==
            LET child == e.to
                found == IF child \in Range(s.order) THEN PullUp(s, child, depth)
                         ELSE [s EXCEPT !.order = Append(@, child), !.depth[child] = depth]
                linked == IF n = Root \/ child \in Range(found.children[n]) THEN found
                          ELSE [found EXCEPT !.children[n] = Append(@, child)]
            IN IF child \in s.visited THEN linked
               ELSE Visit(g, [linked EXCEPT !.visited = @ \cup {child}], child, depth + 1)
    IN FoldLeft(Step, st, OutOf(g, n))

\* The ids below an id, in the order of a hash set of their numbers.
Hashed(st, nodes) ==
    LET number(n) == CHOOSE i \in 1..Len(st.order) : st.order[i] = n
        hashed(a, b) == (number(a) - 1) % Buckets < (number(b) - 1) % Buckets
    IN [order |-> st.order, depth |-> st.depth,
        children |-> [n \in nodes |-> SortSeq(st.children[n], hashed)],
        inDegree |-> [n \in nodes |-> Cardinality({p \in nodes : n \in Range(st.children[p])})]]
ConflictOrder(g) ==
    LET nodes == 1..Len(g.nodes)
        start == [order |-> <<>>, visited |-> {Root}, children |-> [n \in nodes |-> <<>>],
                  depth |-> [n \in nodes |-> Len(g.nodes) + 1]]
    IN Hashed(Visit(g, start, Root, 1), nodes)

\* The cycles that a walk from each node in turn closes.
RECURSIVE Close(_, _, _, _)
Close(c, st, n, path) ==
    IF n \in Range(path)
    THEN [st EXCEPT !.cycles = @ \cup {{path[i] : i \in {j \in 1..Len(path) : \E k \in 1..j : path[k] = n}}}]
    ELSE IF n \in st.visited THEN st
    ELSE FoldLeft(LAMBDA s, child : Close(c, s, child, Append(path, n)),
                  [st EXCEPT !.visited = @ \cup {n}], c.children[n])
Cycles(c) == FoldLeft(LAMBDA st, n : Close(c, st, n, <<>>), [visited |-> {}, cycles |-> {}], c.order).cycles

-----------------------------------------------------------------------------
(* Picking scopes                                                          *)

Widest(offers, otherwise) ==
    IF offers \ {"system"} = {} THEN otherwise
    ELSE CHOOSE s \in offers \ {"system"} : \A t \in offers \ {"system"} : Width[t] <= Width[s]

\* Where a cycle is broken: depth first from the root, never past the node,
\* only through ancestors and the winning occurrence of a resolved one,
\* never to what an exclusion on the path names, and through a node again
\* only at a scope and exclusions that it has not had. at is [node, picked,
\* done, ancestors], st what was seen and offered.
RECURSIVE Gather(_, _, _, _, _, _, _)
Gather(g, at, st, from, scope, excluded, path) ==
    LET key(n) == g.nodes[n].coord.key
        gathered == {key(n) : n \in {at.node} \cup at.ancestors}
        Step(s, e) ==
            LET child == e.to
                below == ScopeBelow(e.edge, scope)
                winner == g.nodes[child].parent
                elsewhere == /\ child \in at.done /\ winner # <<>>
                             /\ \E x \in Range(g.edges) : x.from = winner[1] /\ x.to = child
                             /\ winner[1] # from
                next == IF child \in at.done /\ at.picked[child] # <<>> THEN at.picked[child][1] ELSE below
                names == excluded \cup (e.edge.excl \cap gathered)
                seen == <<child, next, names>>
            IN IF key(child) \in excluded THEN s
               ELSE IF child = at.node THEN [s EXCEPT !.offers = @ \cup {below}]
               ELSE IF elsewhere \/ child \notin at.ancestors \/ child \in path \/ seen \in s.seen THEN s
               ELSE Gather(g, at, [s EXCEPT !.seen = @ \cup {seen}], child, next, names, path \cup {child})
    IN FoldLeft(Step, st, OutOf(g, from))

PickScope(g, at, broken) ==
    LET into == {e \in Range(Into(g, at.node)) : at.picked[e.from] # <<>>}
        start == at.picked[Root][1]
        offers == IF broken THEN Gather(g, at, [seen |-> {}, offers |-> {}], Root, start, {}, {Root}).offers
                  ELSE {ScopeBelow(e.edge, at.picked[e.from][1]) : e \in into}
    IN Widest(offers, g.nodes[at.node].scope)

\* The scope of the node's first direct declaration.
DirectScope(g, n) ==
    LET direct == {e \in Range(OutOf(g, Root)) : e.to = n}
    IN IF direct = {} THEN <<>>
       ELSE LET first == CHOOSE e \in direct : \A f \in direct : e.edge.declared <= f.edge.declared
            IN <<ScopeBelow(first.edge, g.nodes[Root].scope)>>

\* The nodes in the order in which Maven resolves their groups. st is
\* [picked, done, ancestors, degree, ready, cycles].
RECURSIVE PickAll(_, _, _)
PickAll(g, c, st) ==
    LET top == Last(st.ready)
        n == top.node
        rest == [st EXCEPT !.ready = Front(@)]
        through == st.ancestors \cup UNION {cycle \in st.cycles : n \in cycle}
        at == [node |-> n, picked |-> st.picked, done |-> st.done, ancestors |-> through]
        picked == IF st.picked[n] # <<>> THEN st.picked[n] ELSE <<PickScope(g, at, top.broken)>>
        Lower(s, child) ==
            LET left == IF s.degree[child] = 0 THEN 0 ELSE s.degree[child] - 1
            IN [s EXCEPT !.degree[child] = left,
                         !.ready = IF left = 0 THEN Append(@, [node |-> child, broken |-> FALSE]) ELSE @]
        taken == FoldLeft(Lower, [rest EXCEPT !.picked[n] = picked, !.done = @ \cup {n}, !.ancestors = through \cup {n}],
                          c.children[n])
        left == SelectSeq(c.order, LAMBDA x : x \notin st.done)
        nearer(a, b) == c.depth[a] < c.depth[b] \/ (c.depth[a] = c.depth[b] /\ st.degree[a] < st.degree[b])
        nearest == left[CHOOSE i \in 1..Len(left) : /\ \A j \in 1..Len(left) : ~nearer(left[j], left[i])
                                                    /\ \A j \in 1..(i - 1) : nearer(left[i], left[j])]
    IN IF st.ready # <<>> THEN PickAll(g, c, IF n \in st.done THEN rest ELSE taken)
       ELSE IF left = <<>> THEN st.picked
       ELSE PickAll(g, c, [st EXCEPT !.cycles = Cycles(c), !.degree[nearest] = 0,
                                     !.ready = <<[node |-> nearest, broken |-> TRUE]>>])

PickScopes(g, c) ==
    LET start == SelectSeq(c.order, LAMBDA n : c.inDegree[n] = 0)
        direct == [n \in 1..Len(g.nodes) |-> IF n = Root THEN <<g.nodes[Root].scope>> ELSE DirectScope(g, n)]
    IN PickAll(g, c, [picked |-> direct, done |-> {Root}, ancestors |-> {}, degree |-> c.inDegree,
                      ready |-> [i \in 1..Len(start) |-> [node |-> start[i], broken |-> FALSE]], cycles |-> {}])

SelectScopes(g) ==
    LET chosen(picked) == [n \in 1..Len(g.nodes) |-> IF picked[n] = <<>> THEN g.nodes[n].scope ELSE picked[n][1]]
    IN chosen(PickScopes(g, ConflictOrder(g)))

-----------------------------------------------------------------------------
(* Walks                                                                   *)


KeyLess(a, b) == \E i, j \in 1..Len(KeyOrder) : i < j /\ KeyOrder[i] = a /\ KeyOrder[j] = b
RootCoord == [key |-> "root", version |-> 0]
Nil == <<>>
Put(f, k, v) == (k :> v) @@ f
Without(f, k) == [x \in DOMAIN f \ {k} |-> f[x]]
Get(f, k) == IF k \in DOMAIN f THEN f[k] ELSE <<>>
Holds(s, x) == \E i \in 1..Len(s) : s[i] = x
Fail(w, error) == IF w.error = "" THEN [w EXCEPT !.error = error] ELSE w

-----------------------------------------------------------------------------
(* Orders                                                                  *)

OrderLess(a, b) ==
    \/ Len(a) < Len(b) /\ SubSeq(b, 1, Len(a)) = a
    \/ \E i \in 1..Len(a) : i <= Len(b) /\ a[i] < b[i] /\ SubSeq(a, 1, i - 1) = SubSeq(b, 1, i - 1)

\* Breadth-first, then Maven's depth-first order within a depth.
ItemLess(i, j) ==
    IF i.depth # j.depth THEN i.depth < j.depth
    ELSE IF i.order # j.order THEN OrderLess(i.order, j.order)
    ELSE i.at < j.at

\* Mutant: siblings compare by declaration, not by version.
RankFirstDeclared(c, d) == ItemLess(c.item, d.item)

RankLess(c, d) ==
    LET i == c.item  j == d.item IN
    IF i.depth # j.depth THEN i.depth < j.depth
    ELSE IF Front(i.order) # Front(j.order) THEN OrderLess(Front(i.order), Front(j.order))
    ELSE IF c.coord.version # d.coord.version THEN c.coord.version > d.coord.version
    ELSE ItemLess(i, j)

\* The first least element, as min_by takes it.
First(s, Less(_, _)) ==
    s[CHOOSE i \in 1..Len(s) : /\ \A j \in 1..Len(s) : ~Less(s[j], s[i])
                              /\ \A j \in 1..(i - 1) : \E k \in 1..Len(s) : Less(s[k], s[j])]
SourceLess(c, d) == OrderLess(c.source, d.source)

-----------------------------------------------------------------------------
(* Declarations and management                                             *)

OnPath(path, key) == \E i \in 1..Len(path) : path[i].key = key
FollowedTransitively(d) == ~d.optional /\ d.scope \notin {"test", "provided"}
Hard(req) == IF req.kind = "soft" THEN Nil ELSE <<req>>
Matches(hard, version) == version \in Range(hard.vs)
Accepts(c, version) == c.hard = Nil \/ Matches(c.hard[1], version)
Same(c, d) == c.item.order = d.item.order /\ c.coord = d.coord
Exclusions(c) == c.item.excl \cup c.item.dep.excl

\* From depth 2 the root's management overrides the scope and the version;
\* its exclusions join at every depth.
Manage(m, d, depth) ==
    [d EXCEPT !.scope = IF depth > 1 /\ m.scope # Nil THEN m.scope[1] ELSE @,
              !.managed = @ \/ (depth > 1 /\ m.scope # Nil),
              !.excl = @ \cup m.excl]

ApplyManaged(item) ==
    IF item.dep.key \in DOMAIN world.managed
    THEN [item EXCEPT !.dep = Manage(world.managed[item.dep.key], @, item.depth)] ELSE item

Requirement(item) ==
    IF (item.depth > 1 \/ item.dep.req = Nil)
       /\ item.dep.key \in DOMAIN world.managed /\ world.managed[item.dep.key].req # Nil
    THEN world.managed[item.dep.key].req ELSE item.dep.req

-----------------------------------------------------------------------------
(* Descriptors                                                             *)

\* A relocation chain to its end, and the coordinates it passes.
RECURSIVE Chain(_)
Chain(seen) ==
    LET c == Last(seen) IN
    IF Len(seen) > MaxRelocations + 1 \/ Holds(Front(seen), c) THEN [error |-> "relocation cycle"]
    ELSE IF c \notin DOMAIN world.pom THEN [error |-> "not found"]
    ELSE IF world.pom[c].reloc \in {Nil, <<c>>} THEN [error |-> "", target |-> c, passed |-> Front(seen)]
    ELSE Chain(Append(seen, world.pom[c].reloc[1]))
FetchPom(coord) == Chain(<<coord>>)

Loaded(kind, c, alternatives, aliases) ==
    [kind |-> kind, cand |-> c, alternatives |-> alternatives, aliases |-> aliases]
FailedWith(error) == [kind |-> "failed", error |-> error]
KeysOf(coords) == [i \in 1..Len(coords) |-> coords[i].key]

\* A relocation's target is managed as a dependency of its own, and a
\* managed target may relocate again. c holds the declaration with the
\* management so far, f the descriptor found, previous the coordinate
\* before it, req the requirement of a managed version that stayed.
RECURSIVE Relocate(_, _, _, _, _, _)
Relocate(c, f, previous, aliases, inherited, pass) ==
    LET target == f.target
        item == c.item
        cand(d, hard) == [c EXCEPT !.item.dep = d, !.coord = target, !.hard = hard, !.loaded = TRUE,
                                   !.inherited = inherited]
        stays(d, hard) == Loaded("relocated", cand(d, hard), <<>>, aliases)
        unmanaged == [item.dep EXCEPT !.managed = FALSE]
    IN
    IF pass = MaxManagedPasses THEN FailedWith("relocation cycle")
    ELSE IF OnPath(item.path, target.key) THEN Loaded("cyclic", cand(item.dep, Nil), <<>>, aliases)
    ELSE IF target.key \in item.excl \/ (item.depth > 1 /\ ~FollowedTransitively(item.dep)) THEN [kind |-> "excluded"]
    ELSE IF target.key = previous.key THEN stays(item.dep, Nil)
    ELSE IF target.key \notin DOMAIN world.managed THEN stays(unmanaged, Nil)
    ELSE
    LET m == world.managed[target.key]
        d == Manage(m, unmanaged, item.depth)
        req == m.req[1]
        n == Len(req.vs)
        at(v) == [target EXCEPT !.version = v]
        lowest == FetchPom(at(req.vs[1]))
        \* The lowest version of a managed range that relocates ends the range.
        stops == lowest.target # at(req.vs[1]) /\ ~OnPath(item.path, lowest.target.key)
        managed == at(IF req.kind = "range" /\ stops THEN req.vs[1] ELSE req.vs[n])
        again == FetchPom(managed)
    IN
    IF item.depth <= 1 \/ m.req = Nil THEN stays(d, Nil)
    ELSE IF req.kind = "range" /\ lowest.error # "" THEN FailedWith(lowest.error)
    ELSE IF req.kind = "range" /\ ~stops THEN
        IF Len(c.source) >= MaxManagedPasses THEN FailedWith("relocation cycle")
        ELSE Loaded("relocated",
                    [c EXCEPT !.item.dep = d, !.coord = managed, !.hard = Hard(req), !.loaded = FALSE,
                              !.source = Append(@, n), !.inherited = aliases],
                    [i \in 1..(n - 1) |-> req.vs[i]], aliases)
    ELSE IF managed = target THEN stays(d, Hard(req))
    ELSE IF again.error # "" THEN FailedWith(again.error)
    ELSE IF again.target = managed
    THEN Loaded("relocated", [cand(d, Hard(req)) EXCEPT !.coord = managed], <<>>, aliases)
    ELSE Relocate([c EXCEPT !.item.dep = d], again, managed, KeysOf(again.passed), aliases, pass + 1)

LoadCandidate(c) ==
    LET f == FetchPom(c.coord) IN
    IF f.error # "" THEN FailedWith(f.error)
    ELSE IF f.target = c.coord THEN Loaded("ready", [c EXCEPT !.loaded = TRUE], <<>>, <<>>)
    ELSE Relocate(c, f, c.coord, KeysOf(f.passed), c.inherited, 0)

\* A range's versions from the lowest up, through the first that relocates,
\* is excluded or fails.
ThroughFirstStop(loads) ==
    LET stops == {i \in 1..Len(loads) : loads[i].kind \notin {"ready", "cyclic"}}
    IN IF stops = {} THEN loads ELSE SubSeq(loads, 1, CHOOSE i \in stops : \A j \in stops : i <= j)
LoadInOrder(probes) == ThroughFirstStop([i \in 1..Len(probes) |-> LoadCandidate(probes[i])])

\* What reading a queued declaration gives. A range is loaded as mediation
\* needs it.
ResolveItem(declared) ==
    LET item == ApplyManaged(declared)
        req == Requirement(item)[1]
        n == Len(req.vs)
        c == [item |-> item, coord |-> [key |-> item.dep.key, version |-> req.vs[n]], loaded |-> FALSE,
              hard |-> Hard(req), source |-> <<IF req.kind = "range" THEN n ELSE 1>>, inherited |-> <<>>]
    IN
    IF item.dep.key \in item.excl \/ (item.depth > 1 /\ ~FollowedTransitively(declared.dep)) THEN [kind |-> "excluded"]
    ELSE IF Requirement(item) = Nil THEN FailedWith("missing version")
    ELSE IF n = 0 THEN FailedWith("version not found")
    ELSE IF req.kind = "range" THEN Loaded("ready", c, [i \in 1..(n - 1) |-> req.vs[i]], <<>>)
    ELSE LoadCandidate(c)

-----------------------------------------------------------------------------
(* The walk. A group of keys is named by its root key in groups.           *)

\* Mediating a group again may load versions and so change other groups.
RECURSIVE Reconsider(_, _)

NewSelection(node, cands) ==
    [node |-> node, cands |-> cands, winner |-> Nil, path |-> Nil, scanned |-> {}, walked |-> {},
     checked |-> {}, conflict |-> Nil, winners |-> {}, changes |-> 0, settled |-> Nil]

RECURSIVE GroupOf(_, _)
GroupOf(w, key) == IF key \in DOMAIN w.groups THEN GroupOf(w, w.groups[key]) ELSE key

Selected(w, key) == GroupOf(w, key) \in DOMAIN w.selected
Selection(w, key) == w.selected[GroupOf(w, key)]

Instance(selection, origin) ==
    SelectSeq(selection.cands, LAMBDA c : c.item.shadow = Nil /\ c.item.at = origin.at /\ c.coord = origin.coord)

IsLive(w, item) ==
    IF item.shadow = Nil THEN w.generations[item.parent] = item.generation
    ELSE Selected(w, item.shadow[1].group) /\ Instance(Selection(w, item.shadow[1].group), item.shadow[1]) # Nil

HeldIn(w, key, c) == key \in DOMAIN w.selected /\ Holds(w.selected[key].cands, c)
MarkDirty(w, key) == IF Holds(w.dirty, key) THEN w ELSE [w EXCEPT !.dirty = Append(@, key)]

EdgeOf(item) ==
    [scope |-> item.dep.scope, managed |-> item.dep.managed, declared |-> IF item.depth = 1 THEN item.at ELSE 0,
     optional |-> item.dep.optional, excl |-> item.dep.excl, requested |-> item.dep.req]
AddEdge(w, from, to, edge) ==
    LET e == [from |-> from, to |-> to, edge |-> edge]
    IN IF Holds(w.edges, e) THEN w ELSE [w EXCEPT !.edges = Append(@, e)]
RetargetIncoming(w, dead, alive) ==
    FoldRight(LAMBDA e, v : AddEdge([v EXCEPT !.edges = SelectSeq(@, LAMBDA x : x # e)], e.from, alive, e.edge),
              SelectSeq(w.edges, LAMBDA e : e.to = dead), w)

PushQueue(w, item) ==
    IF Cardinality(w.queue) >= MaxQueue THEN Fail(w, "queue limit")
    ELSE IF item.depth > MaxWalkDepth THEN Fail(w, "depth limit")
    ELSE IF item.at >= MaxDeclarations THEN Fail(w, "declaration limit")
    ELSE [w EXCEPT !.queue = @ \cup {item}, !.nextAt = @ + 1]

\* What a war, ear or rar declares it carries inside.
Follows(c) == c.item.dep.key \notin world.fat

\* The i-th declaration of a loaded candidate as a queue item. One with no
\* version takes it from the candidate's own management.
Child(w, of, i, parent, generation, shadow) ==
    LET pom == world.pom[of.coord]
        d == pom.deps[i]
    IN [parent |-> parent, generation |-> generation,
        dep |-> IF d.req = Nil THEN [d EXCEPT !.req = Get(pom.versions, d.key)] ELSE d,
        depth |-> of.item.depth + 1, order |-> Append(of.item.order, i), at |-> w.nextAt,
        excl |-> Exclusions(of), path |-> Append(of.item.path, of.coord), shadow |-> shadow]

QueueChildren(w, of, parent, generation, shadow) ==
    IF ~Follows(of) THEN w
    ELSE FoldLeft(LAMBDA v, i : PushQueue(v, Child(v, of, i, parent, generation, shadow)),
                  w, [i \in 1..Len(world.pom[of.coord].deps) |-> i])
QueueShadow(w, of, i, origin) ==
    IF Follows(of) THEN PushQueue(w, Child(w, of, i, Root, 0, <<origin>>)) ELSE w

OriginOf(key, c) == [group |-> key, at |-> c.item.at, coord |-> c.coord]

\* Whether Maven mediates key before other where both are in one cycle.
MediatedBefore(w, key, other) ==
    LET items(k) == IF Selected(w, k) THEN {c.item : c \in Range(Selection(w, k).cands)} ELSE {}
        nearer(i, j) == i.depth < j.depth \/ (i.depth = j.depth /\ OrderLess(i.order, j.order))
    IN items(other) # {} /\ \E i \in items(key) : \A j \in items(other) : nearer(i, j)

BeneathOwnGroup(w, path, key) == \E i \in 1..Len(path) : GroupOf(w, path[i].key) = GroupOf(w, key)

-----------------------------------------------------------------------------
(* Shadows: what Maven gathers below a group's losers for the keys it      *)
(* mediates before the group.                                              *)

OnWinnerPath(selection, key) == selection.path # Nil /\ OnPath(selection.path[1], key)
WinnerIs(selection, c) == selection.winner # Nil /\ Same(selection.winner[1], c)

ShadowHolds(w, origin, target) ==
    /\ Selected(w, origin.group)
    /\ LET s == Selection(w, origin.group)
           instance == Instance(s, origin)
       IN /\ instance # Nil
          /\ WinnerIs(s, instance[1]) \/ (OnWinnerPath(s, target) /\ MediatedBefore(w, target, origin.group))

\* What a shadow declaration is: a candidate where Maven gathers it, a step
\* of a walk through keys that nothing selected, or nothing.
ShadowRole(w, origin, key, target) ==
    IF ~Selected(w, origin.group) \/ Instance(Selection(w, origin.group), origin) = Nil THEN "drop"
    ELSE LET s == Selection(w, origin.group)
             selected == key \in DOMAIN w.selected
         IN IF WinnerIs(s, Instance(s, origin)[1]) THEN IF selected THEN "candidate" ELSE "drop"
            ELSE IF OnWinnerPath(s, target) THEN
                 IF selected /\ MediatedBefore(w, key, origin.group) THEN "candidate" ELSE "drop"
            ELSE IF selected THEN "drop" ELSE "walk"

\* Drop the shadows that originate in the group and no longer hold.
RevalidateShadows(w, group) ==
    LET of(c, v) == c.item.shadow # Nil /\ GroupOf(v, c.item.shadow[1].group) = group
        Hold(v, key, cands) ==
            LET cut == IF cands = v.selected[key].cands THEN v
                       ELSE MarkDirty([v EXCEPT !.selected[key].cands = cands], key)
            IN IF \E c \in Range(cands) : of(c, v)
               THEN [cut EXCEPT !.shadows = Put(@, group, Append(Get(@, group), key))] ELSE cut
        Step(v, key) ==
            IF Holds(Get(v.shadows, group), key) \/ key \notin DOMAIN v.selected THEN v
            ELSE Hold(v, key, SelectSeq(v.selected[key].cands, LAMBDA c :
                                  of(c, v) => ShadowHolds(v, c.item.shadow[1], c.coord.key)))
    IN FoldLeft(LAMBDA v, k : Step(v, GroupOf(v, k)), [w EXCEPT !.shadows = Without(@, group)], Get(w.shadows, group))

\* What a node's winner declared goes: queued items by the generation,
\* candidates from their groups. Those on the new winner's path stay as
\* shadows of the former winner, where `convert` holds its origin and path.
RetireFrom(acc, key, mine(_), convert) ==
    LET w == acc.w
        converts == convert # Nil /\ MediatedBefore(w, key, convert[1].origin.group)
        kept == SelectSeq(w.selected[key].cands, LAMBDA c : mine(c) => converts /\ OnPath(convert[1].path, c.coord.key))
        converted == [i \in 1..Len(kept) |->
                        IF mine(kept[i]) THEN [kept[i] EXCEPT !.item.shadow = <<convert[1].origin>>] ELSE kept[i]]
        origin == GroupOf(w, convert[1].origin.group)
    IN [w |-> [w EXCEPT !.selected[key].cands = converted,
                        !.shadows = IF \E i \in 1..Len(kept) : mine(kept[i])
                                    THEN Put(@, origin, Append(Get(@, origin), key)) ELSE @],
        touched |-> Append(acc.touched, key)]

RetireNode(w, node, convert) ==
    LET mine(c) == c.item.shadow = Nil /\ c.item.parent = node /\ c.item.generation = w.generations[node]
        Step(acc, key) ==
            IF Holds(acc.touched, key) \/ key \notin DOMAIN acc.w.selected THEN acc
            ELSE IF ~\E c \in Range(acc.w.selected[key].cands) : mine(c) THEN acc
            ELSE RetireFrom(acc, key, mine, convert)
        start == [w EXCEPT !.generations[node] = w.nextGeneration, !.nextGeneration = @ + 1,
                           !.edges = SelectSeq(@, LAMBDA e : e.from # node), !.declared[node] = <<>>]
        revalidated(acc) == FoldLeft(LAMBDA v, key : MarkDirty(RevalidateShadows(v, key), key), acc.w, acc.touched)
    IN revalidated(FoldLeft(LAMBDA acc, k : Step(acc, GroupOf(acc.w, k)), [w |-> start, touched |-> <<>>], w.declared[node]))

DropGroup(w, key) ==
    LET node == w.selected[key].node
        gone == [w EXCEPT !.selected = Without(@, key), !.edges = SelectSeq(@, LAMBDA e : e.to # node)]
    IN RevalidateShadows(RetireNode(gone, node, Nil), key)

\* Merge the group of a relocation's target into its source's.
Union(w, source, target) ==
    LET into == GroupOf(w, source)
        from == GroupOf(w, target)
        moved == w.selected[from]
        shadows == IF from \in DOMAIN w.shadows
                   THEN Put(Without(w.shadows, from), into, Get(w.shadows, into) \o w.shadows[from]) ELSE w.shadows
        joined == [w EXCEPT !.groups = Put(@, from, into), !.shadows = shadows]
        without == [joined EXCEPT !.selected = Without(@, from)]
        both == [without EXCEPT !.selected[into].settled = Nil, !.selected[into].cands = @ \o moved.cands]
        apart(v) == MarkDirty([v EXCEPT !.selected[into].cands =
                                  SelectSeq(@, LAMBDA c : ~BeneathOwnGroup(v, c.item.path, into))], into)
        merged == IF into \in DOMAIN w.selected
                  THEN RetireNode(RetargetIncoming(both, moved.node, w.selected[into].node), moved.node, Nil)
                  ELSE [without EXCEPT !.selected = Put(@, into, moved)]
    IN IF into = from THEN w
       ELSE IF from \notin DOMAIN w.selected THEN joined
       ELSE apart(merged)

-----------------------------------------------------------------------------
(* Mediation                                                               *)

Constraints(s) == {c.hard[1] : c \in {d \in Range(s.cands) : d.hard # Nil}}

\* Maven's NearestVersionSelector.
Best(s) ==
    LET accepted == SelectSeq(s.cands, LAMBDA c : \A hard \in Constraints(s) : Matches(hard, c.coord.version))
    IN IF accepted = <<>> THEN Nil ELSE <<First(accepted, RankLess)>>

Settle(s) ==
    [s EXCEPT !.settled = IF s.winner = Nil THEN Nil ELSE <<SelectSeq(s.cands, LAMBDA c : RankLess(c, s.winner[1]))>>]
Rejects(nearer, hard) == \E c \in Range(nearer) : ~Matches(hard, c.coord.version)

\* One candidate of each group of cands: the one Less puts first, in the
\* order in which the groups come.
PerGroup(cands, Group(_), Less(_, _)) ==
    LET firsts == SetToSortSeq({i \in 1..Len(cands) : \A j \in 1..(i - 1) : Group(cands[j]) # Group(cands[i])}, <)
    IN [n \in 1..Len(firsts) |-> First(SelectSeq(cands, LAMBDA c : Group(c) = Group(cands[firsts[n]])), Less)]
Declaration(c) == c.item.at
AsListed(c, d) == FALSE

\* The unloaded highest candidate of each losing range that accepts best.
DirtyRanges(s, best) ==
    PerGroup(SelectSeq(s.cands, LAMBDA c :
                       /\ c.item.shadow = Nil /\ ~Same(c, best) /\ c.item.at # best.item.at
                       /\ c.hard # Nil /\ c.item.at \notin s.checked /\ ~c.loaded
                       /\ c.hard[1].kind = "range" /\ Matches(c.hard[1], best.coord.version)),
             Declaration, LAMBDA c, d : SourceLess(d, c))

\* The unloaded lowest candidates of the ranges that reject a candidate
\* nearer than best.
Unconfirmed(s, best) ==
    LET nearer == SelectSeq(s.cands, LAMBDA c : best = Nil \/ RankLess(c, best[1]))
        lowest == PerGroup(SelectSeq(s.cands, LAMBDA c : c.hard # Nil /\ Rejects(nearer, c.hard[1])),
                           LAMBDA c : <<c.item.at, c.hard[1]>>, SourceLess)
    IN SelectSeq(lowest, LAMBDA c : ~c.loaded)

NoteConflict(s) ==
    LET rejecting == {c \in Range(s.cands) : c.hard # Nil /\ (s.winner = Nil \/ ~Accepts(c, s.winner[1].coord.version))}
        culprit == IF rejecting = {} THEN s.cands[1]
                   ELSE CHOOSE c \in rejecting : \A d \in rejecting : d.item.at <= c.item.at
    IN [s EXCEPT !.conflict = <<culprit.item.dep.key>>]

\* Shadows of what the losers declare for keys on the winner's path.
ScanLosers(w, key, from) ==
    LET s == w.selected[key]
        losers == PerGroup(SelectSeq(SubSeq(s.cands, from + 1, Len(s.cands)), LAMBDA c :
                              /\ c.item.shadow = Nil /\ c.loaded /\ Follows(c)
                              /\ ~Same(c, s.winner[1]) /\ c.item.at \notin s.scanned),
                           Declaration, AsListed)
        gathered(c, d) ==
            /\ OnPath(s.path[1], d.key) /\ MediatedBefore(w, d.key, key)
            /\ ~OnPath(Append(c.item.path, c.coord), d.key)
            /\ FollowedTransitively(d) /\ d.key \notin Exclusions(c)
        Scan(v, c) ==
            LET deps == world.pom[c.coord].deps
            IN FoldLeft(LAMBDA u, i : QueueShadow(u, c, i, OriginOf(key, c)), v,
                        SetToSortSeq({i \in 1..Len(deps) : gathered(c, deps[i])}, <))
    IN IF key \notin DOMAIN w.selected THEN w
       ELSE IF s.winner = Nil \/ s.path = Nil THEN w
       ELSE FoldLeft(Scan, [w EXCEPT !.selected[key].scanned = @ \cup {c.item.at : c \in Range(losers)}], losers)

\* A declaration that ranks behind a settled winner which its constraint
\* accepts leaves the winner alone.
SettledBehind(s, cands) ==
    /\ s.winner # Nil /\ s.settled # Nil
    /\ \A c \in Range(cands) : RankLess(s.winner[1], c) /\ Accepts(c, s.winner[1].coord.version)

\* The unloaded lowest version of a range that rejects a nearer candidate.
LowestToConfirm(s, cands) ==
    LET rejecting == SelectSeq(cands, LAMBDA c : c.hard # Nil /\ Rejects(s.settled[1], c.hard[1]))
    IN IF rejecting = <<>> \/ First(rejecting, SourceLess).loaded THEN Nil ELSE <<First(rejecting, SourceLess)>>

NodeOf(c, parent) == [coord |-> c.coord, scope |-> c.item.dep.scope, parent |-> parent]
AddNode(w, key, cands) ==
    LET node == Len(w.generations) + 1
    IN [w EXCEPT !.generations = Append(@, w.nextGeneration), !.nextGeneration = @ + 1,
                 !.declared = Append(@, <<>>), !.nodes = Append(@, NodeOf(Last(cands), Nil)),
                 !.selected = Put(@, key, NewSelection(node, cands))]

\* The candidates of a resolution: a range's versions, the highest last.
CandidatesOf(r) ==
    LET c == r.cand
        n == Len(c.source)
    IN [i \in 1..Len(r.alternatives) |->
          [c EXCEPT !.coord.version = r.alternatives[i], !.source[n] = i, !.loaded = FALSE]] \o <<c>>

\* A declaration joins the group of its key, in the place of its own shadow.
Declare(w, key, cands, item) ==
    LET s == w.selected[key]
        kept == SelectSeq(s.cands, LAMBDA c : c.item.shadow = Nil \/ c.item.order # item.order)
        joined == IF key \in DOMAIN w.selected THEN [w EXCEPT !.selected[key].cands = kept \o cands]
                  ELSE AddNode(w, key, cands)
        v == [AddEdge(joined, item.parent, joined.selected[key].node, EdgeOf(item))
                 EXCEPT !.declared[item.parent] = Append(@, key)]
        behind == key \in DOMAIN w.selected /\ kept = s.cands /\ SettledBehind(s, cands)
        lowest == LowestToConfirm(s, cands)
    IN IF ~behind \/ Holds(w.dirty, key) THEN MarkDirty(v, key)
       ELSE IF lowest # Nil
       THEN [v EXCEPT !.confirm = Append(@, [key |-> key, cand |-> lowest[1], from |-> Len(s.cands)])]
       ELSE IF DirtyRanges(v.selected[key], s.winner[1]) # <<>> THEN MarkDirty(v, key)
       ELSE ScanLosers(v, key, Len(s.cands))

\* A shadow joins a group that nothing else selects it into.
DeclareShadow(w, key, cands, item) ==
    LET origin == GroupOf(w, item.shadow[1].group)
    IN IF key \notin DOMAIN w.selected \/ \E c \in Range(w.selected[key].cands) : c.item.order = item.order THEN w
       ELSE MarkDirty([w EXCEPT !.selected[key].cands = @ \o cands,
                                !.shadows = Put(@, origin, Append(Get(@, origin), key))], key)

\* A cycle is cut on the artifact before its relocation counts.
CutsCycle(r) == OnPath(r.cand.item.path, r.cand.coord.key)

AddToGroup(v, r) ==
    LET item == r.cand.item
        target == r.cand.coord.key
        key == GroupOf(v, target)
        cands == CandidatesOf(r)
        role == IF item.shadow = Nil THEN "candidate" ELSE ShadowRole(v, item.shadow[1], key, target)
        unscanned == IF Len(cands) > 1 /\ ~r.cand.loaded
                     THEN [v EXCEPT !.unscanned = Append(@, [key |-> key, cand |-> r.cand])] ELSE v
    IN
    IF CutsCycle(r) \/ BeneathOwnGroup(v, item.path, target) THEN
        IF item.shadow = Nil /\ Selected(v, target)
        THEN AddEdge(v, item.parent, Selection(v, target).node, EdgeOf(item)) ELSE v
    ELSE IF role = "drop" THEN v
    ELSE IF role = "walk" THEN
        IF r.cand.loaded THEN QueueChildren(v, r.cand, Root, 0, item.shadow)
        ELSE [v EXCEPT !.walkLoads = <<cands>> \o @]
    ELSE IF item.shadow = Nil THEN Declare(unscanned, key, cands, item)
    ELSE DeclareShadow(unscanned, key, cands, item)

AddResolution(w, r) ==
    AddToGroup(FoldLeft(LAMBDA u, alias : Union(u, alias, r.cand.coord.key), w,
                        IF CutsCycle(r) THEN r.cand.inherited ELSE r.aliases), r)

AddLoaded(w, load) ==
    IF load.kind = "excluded" THEN w
    ELSE IF load.kind = "failed" THEN Fail(w, load.error) ELSE AddResolution(w, load)

-----------------------------------------------------------------------------
(* Loading the versions of a range                                         *)

\* A relocation ends the declaration's versions from this one up.
ApplyLoad(w, key, c, load) ==
    LET s == w.selected[key]
        stops == load.kind # "cyclic"
        kept == SelectSeq(s.cands, LAMBDA d : d # c /\ (~stops \/ d.item.at # c.item.at \/ SourceLess(d, c)))
        v == [w EXCEPT !.selected[key].cands = kept]
        edge == [from |-> c.item.parent, to |-> s.node, edge |-> EdgeOf(c.item)]
        cut == IF c.item.shadow = Nil /\ ~\E d \in Range(kept) : d.item.at = c.item.at
               THEN [v EXCEPT !.edges = SelectSeq(@, LAMBDA e : e # edge)] ELSE v
    IN IF load.kind = "failed" THEN Fail(w, load.error)
       ELSE IF load.kind = "ready"
       THEN [w EXCEPT !.selected[key].cands = [i \in 1..Len(s.cands) |-> IF s.cands[i] = c THEN load.cand ELSE s.cands[i]]]
       ELSE AddLoaded(MarkDirty(RevalidateShadows(cut, key), key), load)

\* The walk after the probes it read, and the candidate that relocated.
ApplyLoads(w, k, probes, loads) ==
    LET Step(acc, i) ==
            LET key == GroupOf(acc.w, k)
            IN IF acc.relocated # Nil \/ acc.w.error # "" THEN acc
               ELSE IF ~HeldIn(acc.w, key, probes[i])
               THEN [acc EXCEPT !.w = IF i = Len(probes) THEN MarkDirty(@, key) ELSE @]
               ELSE [w |-> ApplyLoad(acc.w, key, probes[i], loads[i]),
                     relocated |-> IF loads[i].kind \in {"ready", "cyclic"} THEN Nil ELSE <<probes[i]>>]
        again(done) == IF done.relocated = Nil /\ Len(loads) < Len(probes)
                       THEN [done EXCEPT !.w = MarkDirty(@, GroupOf(@, k))] ELSE done
    IN again(FoldLeft(Step, [w |-> w, relocated |-> Nil], [i \in 1..Len(loads) |-> i]))

\* Maven reads a range from the lowest version up and stops at the first
\* that relocates.
LoadOne(w, k, c) ==
    LET lower == SelectSeq(w.selected[k].cands, LAMBDA d :
                      /\ d.item.at = c.item.at /\ ~d.loaded /\ Len(d.source) = Len(c.source)
                      /\ Front(d.source) = Front(c.source) /\ SourceLess(d, c))
        probes == SortSeq(lower, SourceLess) \o <<c>>
    IN ApplyLoads(w, k, probes, LoadInOrder(probes))

\* A relocation applies to the other declarations of the version too.
LoadAlike(one, key) ==
    LET group == GroupOf(one.w, key)
        others == IF one.relocated = Nil \/ group \notin DOMAIN one.w.selected THEN <<>>
                  ELSE SelectSeq(one.w.selected[group].cands, LAMBDA d : ~d.loaded /\ d.coord = one.relocated[1].coord)
    IN FoldLeft(LAMBDA v, d : IF v.error = "" /\ HeldIn(v, GroupOf(v, key), d) THEN LoadOne(v, GroupOf(v, key), d).w ELSE v,
                one.w, others)
Load(w, key, c) == LoadAlike(LoadOne(w, key, c), key)
LoadAll(w, key, cands) ==
    FoldLeft(LAMBDA v, c : IF v.error = "" /\ HeldIn(v, GroupOf(v, key), c) THEN Load(v, GroupOf(v, key), c) ELSE v, w, cands)

-----------------------------------------------------------------------------
(* Winners                                                                 *)

Diverged(changes) == changes > MaxWinnerChanges

\* The node takes the winner's coordinate and a new generation, and what
\* the winner declares is queued.
Commit(w, key, winner) ==
    LET s == w.selected[key]
        node == s.node
        place == <<winner.item.order, winner.coord>>
        changes == IF place \in s.winners THEN s.changes + 1 ELSE s.changes
        path == Append(winner.item.path, winner.coord)
        previous == IF s.winner = Nil \/ s.winner[1].item.shadow # Nil THEN Nil
                    ELSE Instance(s, [at |-> s.winner[1].item.at, coord |-> s.winner[1].coord])
        convert == IF previous = Nil THEN Nil ELSE <<[origin |-> OriginOf(key, previous[1]), path |-> path]>>
        v == [w EXCEPT !.selected[key] = [@ EXCEPT !.winner = <<winner>>, !.path = <<path>>, !.scanned = {},
                                                   !.walked = {}, !.checked = {}, !.winners = @ \cup {place},
                                                   !.changes = changes]]
        retired == [RetireNode(v, node, convert) EXCEPT !.nodes[node] =
                       NodeOf(winner, IF winner.item.shadow = Nil THEN <<winner.item.parent>> ELSE Nil)]
        children(u) == QueueChildren(u, winner, node, u.generations[node], Nil)
    IN IF Diverged(changes) THEN Fail(w, "diverged")
       ELSE children(RevalidateShadows(retired, key))

SettleGroup(w, key) == IF key \in DOMAIN w.selected THEN [w EXCEPT !.selected[key] = Settle(@)] ELSE w

\* The preferred version of a losing range that accepts the winner is read
\* all the same, and joins the group where it relocates.
ProbeDirty(w, k, dirty) ==
    LET Step(acc, c) ==
            LET key == GroupOf(acc.w, k)
                already == \E d \in Range(acc.w.selected[key].cands) : d.coord = c.coord /\ d.loaded
                load == LoadCandidate(c)
                checked == [acc EXCEPT !.w.selected[key].checked = @ \cup {c.item.at}]
            IN IF acc.w.error # "" \/ ~HeldIn(acc.w, key, c) THEN acc
               ELSE IF already THEN checked
               ELSE IF load.kind = "failed" THEN [acc EXCEPT !.w = Fail(@, load.error)]
               ELSE IF load.kind \in {"relocated", "cyclic"} THEN [w |-> Load(acc.w, key, c), relocated |-> TRUE]
               ELSE checked
    IN FoldLeft(Step, [w |-> w, relocated |-> FALSE], dirty)

\* Mediate a group again: the nearest candidate that every constraint
\* accepts wins, once the ranges that decide it are loaded.
Elect(probed, key, best) ==
    LET s == probed.w.selected[key]
        v == [probed.w EXCEPT !.selected[key].conflict = Nil]
    IN IF probed.relocated \/ probed.w.error # "" THEN Reconsider(probed.w, key)
       ELSE IF WinnerIs(s, best) THEN ScanLosers(SettleGroup([v EXCEPT !.selected[key].winner = <<best>>], key), key, 0)
       ELSE IF ~best.loaded THEN Reconsider(Load(v, key, best), key)
       ELSE ScanLosers(SettleGroup(Commit(v, key, best), key), key, 0)

ReconsiderGroup(w, key) ==
    LET s == w.selected[key]
        best == Best(s)
        unconfirmed == Unconfirmed(s, best)
    IN IF \A c \in Range(s.cands) : c.item.shadow # Nil THEN DropGroup(w, key)
       ELSE IF unconfirmed # <<>> THEN Reconsider(LoadAll(w, key, unconfirmed), key)
       ELSE IF best = Nil THEN [w EXCEPT !.selected[key] = NoteConflict(@)]
       ELSE Elect(ProbeDirty(w, key, DirtyRanges(s, best[1])), key, best[1])

Reconsider(w, k) ==
    LET key == GroupOf(w, k)
    IN IF w.error # "" \/ key \notin DOMAIN w.selected THEN w
       ELSE ReconsiderGroup([w EXCEPT !.selected[key].settled = Nil], key)

ConfirmOne(w, p) ==
    LET key == GroupOf(w, p.key)
        s == w.selected[key]
        at == {i \in (p.from + 1)..Len(s.cands) : s.cands[i] = p.cand}
        pending == key \in DOMAIN w.selected /\ ~Holds(w.dirty, key) /\ s.settled # Nil /\ at # {}
        load == LoadCandidate(p.cand)
    IN IF w.error # "" THEN w
       ELSE IF ~pending THEN MarkDirty(w, key)
       ELSE IF load.kind = "failed" THEN Fail(w, load.error)
       ELSE IF load.kind # "ready" THEN MarkDirty(w, key)
       ELSE ScanLosers([w EXCEPT !.selected[key].cands[CHOOSE i \in at : \A j \in at : i <= j] = load.cand], key, p.from)

\* Below what a loser with the winner's version declares and the winner's
\* path excludes, through keys that nothing selected.
WalkExcludedOf(w, key) ==
    LET s == w.selected[key]
        winner == s.winner[1]
        excluded == Exclusions(winner)
        losers == PerGroup(SelectSeq(s.cands, LAMBDA c :
                              /\ c.item.shadow = Nil /\ c.coord = winner.coord /\ Follows(c)
                              /\ ~Same(c, winner) /\ c.item.at \notin s.walked),
                           Declaration, AsListed)
        deps == world.pom[winner.coord].deps
        walked(v, c, d) ==
            /\ FollowedTransitively(d) /\ d.key \in excluded \ Exclusions(c)
            /\ ~OnPath(Append(c.item.path, c.coord), d.key) /\ ~Selected(v, d.key)
        Walk(v, c) ==
            FoldLeft(LAMBDA u, i : IF walked(u, c, deps[i]) THEN QueueShadow(u, c, i, OriginOf(key, c)) ELSE u,
                     v, [i \in 1..Len(deps) |-> i])
    IN IF s.winner = Nil THEN w
       ELSE IF excluded = {} THEN w
       ELSE FoldLeft(Walk, [w EXCEPT !.selected[key].walked = @ \cup {c.item.at : c \in Range(losers)}], losers)

WalkExcludedDependencies(w, keys) ==
    FoldLeft(LAMBDA v, key : IF key \in DOMAIN v.selected THEN WalkExcludedOf(v, key) ELSE v, w, keys)

-----------------------------------------------------------------------------
(* The solver                                                              *)

RootItem(i) ==
    [parent |-> Root, generation |-> 0, dep |-> world.root[i], depth |-> 1, order |-> <<i>>, at |-> i,
     excl |-> {}, path |-> <<RootCoord>>, shadow |-> Nil]

\* The root's own dependencies are checked before any of them is read.
Start ==
    LET none == [queue |-> {}, nextAt |-> 1, generations |-> <<0>>, nextGeneration |-> 1,
                 nodes |-> <<[coord |-> RootCoord, scope |-> "compile", parent |-> Nil]>>, edges |-> <<>>,
                 selected |-> <<>>, groups |-> <<>>, declared |-> <<<<>>>>, shadows |-> <<>>, dirty |-> <<>>,
                 walkLoads |-> <<>>, confirm |-> <<>>, unscanned |-> <<>>, done |-> FALSE, scopes |-> <<>>, error |-> ""]
        Queue(w, i) ==
            IF Requirement(RootItem(i)) = Nil THEN Fail(w, "missing version") ELSE PushQueue(w, RootItem(i))
    IN FoldLeft(Queue, none, [i \in 1..Len(world.root) |-> i])

Unfinished == ~walk.done /\ walk.error = ""
Settling == walk.unscanned # <<>> \/ walk.walkLoads # <<>> \/ walk.confirm # <<>> \/ walk.dirty # <<>>
NextItem == CHOOSE i \in walk.queue : \A j \in walk.queue : i = j \/ ItemLess(i, j)

\* A stale item is read too, and its result dropped.
TakeItem ==
    /\ Unfinished /\ ~Settling /\ walk.queue # {}
    /\ LET item == NextItem
           w == [walk EXCEPT !.queue = @ \ {item}]
       IN walk' = IF IsLive(w, item) THEN AddLoaded(w, ResolveItem(item)) ELSE w
    /\ UNCHANGED world

LoadUnscanned ==
    /\ Unfinished /\ walk.unscanned # <<>>
    /\ LET next == Head(walk.unscanned)
           w == [walk EXCEPT !.unscanned = Tail(@)]
           key == GroupOf(w, next.key)
       IN walk' = IF HeldIn(w, key, next.cand) THEN Load(w, key, next.cand) ELSE w
    /\ UNCHANGED world

LoadWalked ==
    /\ Unfinished /\ walk.unscanned = <<>> /\ walk.walkLoads # <<>>
    /\ walk' = FoldLeft(AddLoaded, [walk EXCEPT !.walkLoads = Tail(@)], LoadInOrder(Head(walk.walkLoads)))
    /\ UNCHANGED world

Confirm ==
    /\ Unfinished /\ walk.unscanned = <<>> /\ walk.walkLoads = <<>> /\ walk.confirm # <<>>
    /\ walk' = FoldLeft(ConfirmOne, [walk EXCEPT !.confirm = <<>>], walk.confirm)
    /\ UNCHANGED world

Mediate ==
    /\ Unfinished /\ walk.unscanned = <<>> /\ walk.walkLoads = <<>> /\ walk.confirm = <<>> /\ walk.dirty # <<>>
    /\ walk' = Reconsider([walk EXCEPT !.dirty = Tail(@)], Head(walk.dirty))
    /\ UNCHANGED world

\* The queue has drained: walk what the winners' paths exclude, else finish.
Drain ==
    /\ Unfinished /\ ~Settling /\ walk.queue = {}
    /\ LET w == WalkExcludedDependencies(walk, SetToSortSeq(DOMAIN walk.selected, KeyLess))
       IN walk' = IF w.queue # {} THEN w
                  ELSE IF \E key \in DOMAIN w.selected : w.selected[key].conflict # Nil
                  THEN Fail(w, "version conflict")
                  ELSE [w EXCEPT !.done = TRUE, !.scopes = SelectScopes([nodes |-> w.nodes, edges |-> w.edges])]
    /\ UNCHANGED world

Solve == TakeItem \/ LoadUnscanned \/ LoadWalked \/ Confirm \/ Mediate \/ Drain
=============================================================================

-------------------------------- MODULE Reactor --------------------------------
(***************************************************************************)
(* One pass over a reactor for one platform, as                            *)
(* rv-resolver/src/resolver/mod.rs runs it: the modules' graphs on tasks   *)
(* of their own, the checks of their own dependencies beside them, the     *)
(* artifacts populated in reactor order while later graphs still resolve,  *)
(* the downloads that resolver/prefetch.rs holds back until the checks     *)
(* pass or every graph is in, what each module logs, held and shown in     *)
(* reactor order (rv-maven-model/src/held.rs), the index rows written at   *)
(* the end, and the watchdog.                                              *)
(*                                                                         *)
(* A module's graph is what it ends with and the artifacts of its nodes.   *)
(* An artifact is a key and the repositories to ask for it in order.       *)
(***************************************************************************)
EXTENDS Naturals, Sequences, SequencesExt, FiniteSets

CONSTANTS
    Pass,           \* the reactors to resolve
    Modules_,       \* max_module_concurrency
    Permits,        \* artifact downloads hinted at a time
    Ticks           \* the watchdog's samples in a stall timeout

VARIABLES
    pass,       \* the reactor: modules, artifacts, what the store and the repositories hold
    downloads,  \* Prefetcher::downloads: Open, Held, Wanted (held, one wanted) or Dropped
    graph,      \* each module's graph task: waiting, running, ended, delivered
    failed,     \* graph_failed
    inbox,      \* graphs delivered and not yet received, in order
    checking,   \* the future that checks the modules' own dependencies
    resolving,  \* the future that drives the graphs
    fin,        \* the future that populates and completes
    hints,      \* the hinted downloads, by repository and key
    nodes,      \* the blob and the repository each node ends with
    blobs,      \* artifact_blobs: what this pass verified, by key and repository
    pending,    \* PendingRows
    fetched,    \* every download there was
    watch,      \* the watchdog, and the stall it reports
    result      \* what the pass returns

reactorVars == <<pass, downloads, graph, failed, inbox, checking, resolving, fin, hints,
                 nodes, blobs, pending, fetched, watch, result>>

Modules == DOMAIN pass.modules
Arts(m) == pass.modules[m].arts
Held(d) == d \in {"Held", "Wanted"}
None == <<>>

\* Maven fails a module on its own dependencies before it reads any.
GraphFails(m) == pass.modules[m].defect \/ pass.modules[m].broken

\* Every event resets the watchdog's clock.
Note == watch' = [watch EXCEPT !.moved = TRUE]

-----------------------------------------------------------------------------
(* Held downloads                                                          *)

\* release_artifacts: only the first release counts.
Released(d, start) == IF Held(d) THEN (IF start THEN "Open" ELSE "Dropped") ELSE d

\* may_download, before it waits.
Want(d) == IF d = "Held" THEN "Wanted" ELSE d

Hinted(a) == <<a.repos[1], a.key>>
Stored(repo, key) == {s \in pass.stored : s.repo = repo /\ s.key = key}

\* hint_artifact, for the artifacts the solver places: once for each
\* repository and path.
Hint(m) ==
    /\ graph[m] = "running" /\ ~pass.modules[m].defect
    /\ \E i \in DOMAIN Arts(m) :
          /\ Hinted(Arts(m)[i]) \notin DOMAIN hints
          /\ hints' = [h \in DOMAIN hints \cup {Hinted(Arts(m)[i])} |->
                          IF h \in DOMAIN hints THEN hints[h] ELSE "queued"]
    /\ UNCHANGED <<pass, downloads, graph, failed, inbox, checking, resolving, fin, nodes,
                   blobs, pending, fetched, watch, result>>

\* prefetch_artifact up to its wait: a permit, then nothing to do when the
\* store indexes the artifact from that repository.
HintStarts(h) ==
    /\ hints[h] = "queued"
    /\ Cardinality({g \in DOMAIN hints : hints[g] = "waiting"}) < Permits
    /\ IF Stored(h[1], h[2]) # {}
       THEN hints' = [hints EXCEPT ![h] = "done"] /\ UNCHANGED downloads
       ELSE hints' = [hints EXCEPT ![h] = "waiting"] /\ downloads' = Want(downloads)
    /\ UNCHANGED <<pass, graph, failed, inbox, checking, resolving, fin, nodes, blobs,
                   pending, fetched, watch, result>>

\* prefetch_artifact once that is decided.
HintEnds(h) ==
    /\ hints[h] = "waiting" /\ ~Held(downloads)
    /\ hints' = [hints EXCEPT ![h] = "done"]
    /\ fetched' = IF downloads = "Open" THEN fetched \cup {[by |-> "hint", repo |-> h[1], key |-> h[2]]}
                  ELSE fetched
    /\ UNCHANGED <<pass, downloads, graph, failed, inbox, checking, resolving, fin, nodes, blobs,
                   pending, watch, result>>

-----------------------------------------------------------------------------
(* The checks of the modules' own dependencies                             *)

\* The checks start once a download is wanted; a release ends them.
CheckWanted ==
    /\ checking.pc = "wait" /\ downloads # "Held"
    /\ checking' = [checking EXCEPT !.pc = IF downloads = "Wanted" THEN "run" ELSE "ended"]
    /\ UNCHANGED <<pass, downloads, graph, failed, inbox, resolving, fin, hints, nodes, blobs,
                   pending, fetched, watch, result>>

\* check_own_dependencies: the first check that fails ends them, and the
\* last that passes releases the downloads.  A check also fails where a
\* POM could not be fetched.
CheckEnds(m) ==
    /\ checking.pc = "run" /\ m \notin checking.passed
    /\ Cardinality({n \in Modules \ checking.passed : n < m}) < Modules_
    /\ LET passes == ~pass.modules[m].defect /\ ~pass.modules[m].unchecked
           all == checking.passed \cup {m} = Modules
       IN /\ checking' = [pc |-> IF passes /\ ~all THEN "run" ELSE "ended",
                          passed |-> IF passes THEN checking.passed \cup {m} ELSE checking.passed]
          /\ downloads' = IF passes /\ all THEN Released(downloads, TRUE) ELSE downloads
    /\ UNCHANGED <<pass, graph, failed, inbox, resolving, fin, hints, nodes, blobs, pending,
                   fetched, watch, result>>

ChecksReleased ==
    /\ checking.pc = "run" /\ ~Held(downloads)
    /\ checking' = [checking EXCEPT !.pc = "ended"]
    /\ UNCHANGED <<pass, downloads, graph, failed, inbox, resolving, fin, hints, nodes, blobs,
                   pending, fetched, watch, result>>

-----------------------------------------------------------------------------
(* The graphs                                                              *)

Running == {m \in Modules : graph[m] \in {"running", "ended"}}
Started == {m \in Modules : graph[m] # "waiting"}

\* The modules start in reactor order, a bounded number at once, until a
\* graph fails.
StartGraph(m) ==
    /\ resolving = "run" /\ graph[m] = "waiting" /\ ~failed
    /\ \A n \in Modules : n < m => graph[n] # "waiting"
    /\ Cardinality(Running) < Modules_
    /\ graph' = [graph EXCEPT ![m] = "running"] /\ Note
    /\ UNCHANGED <<pass, downloads, failed, inbox, checking, resolving, fin, hints, nodes, blobs,
                   pending, fetched, result>>

\* resolve_graph_internal returns.
GraphEnds(m) ==
    /\ graph[m] = "running"
    /\ graph' = [graph EXCEPT ![m] = "ended"]
    /\ failed' = (failed \/ GraphFails(m)) /\ Note
    /\ UNCHANGED <<pass, downloads, inbox, checking, resolving, fin, hints, nodes, blobs,
                   pending, fetched, result>>

\* Its result reaches the future that populates.
Deliver(m) ==
    /\ graph[m] = "ended"
    /\ graph' = [graph EXCEPT ![m] = "delivered"]
    /\ inbox' = Append(inbox, m)
    /\ UNCHANGED <<pass, downloads, failed, checking, resolving, fin, hints, nodes, blobs,
                   pending, fetched, watch, result>>

GraphsIn == resolving = "run" /\ Running = {} /\ (failed \/ Started = Modules)

\* Every graph is in: the downloads start, or are dropped after a failure.
AllGraphsIn ==
    /\ GraphsIn
    /\ resolving' = "ended"
    /\ downloads' = IF pass.prefetcher /\ Len(pass.modules) > 1 THEN Released(downloads, ~failed) ELSE downloads
    /\ UNCHANGED <<pass, graph, failed, inbox, checking, fin, hints, nodes, blobs, pending,
                   fetched, watch, result>>

-----------------------------------------------------------------------------
(* Artifacts                                                               *)

\* What a repository answers for a key: a blob, "missing", or a failure
\* that ends the search or lets it go on.
Answer(repo, key) == pass.answers[repo][key]
IsBlob(x) == x \notin {"missing", "refused", "down", "offline"}
GoesOn(x) == x \in {"missing", "refused", "offline"}

\* remember_search_error: other failures before refusals, whatever their
\* order; a missing file is none.
RememberSearchError(last, err) ==
    IF err = "missing" THEN last
    ELSE IF last = "missing" \/ err # "refused" \/ last = "refused" THEN err
    ELSE last

\* served_before: the intact blob the store holds as this repository served it.
ServedBefore(repo, key) == {s \in Stored(repo, key) : s.intact}

\* fetch_artifact_from_repos: the repositories in order; after the first,
\* what a remote one served before stands in for asking it, but for a
\* SNAPSHOT to be renewed.
FetchFrom(a) ==
    LET at(i) == IF i > 1 /\ ~a.renew /\ a.repos[i] \notin pass.local /\ ServedBefore(a.repos[i], a.key) # {}
                 THEN [blob |-> (CHOOSE s \in ServedBefore(a.repos[i], a.key) : TRUE).blob, asked |-> FALSE]
                 ELSE [blob |-> Answer(a.repos[i], a.key), asked |-> TRUE]
        stops == {i \in DOMAIN a.repos : ~GoesOn(at(i).blob)}
        last == IF stops = {} THEN Len(a.repos) ELSE CHOOSE i \in stops : \A j \in stops : i <= j
        error == FoldLeft(RememberSearchError, "missing", [i \in 1..last |-> at(i).blob])
    IN [blob |-> IF stops # {} THEN at(last).blob ELSE error, repo |-> a.repos[last],
        asked |-> {a.repos[i] : i \in {j \in 1..last : at(j).asked}}]

\* A blob this pass verified from the same repository.
Seen(a) == {b \in blobs : b.key = a.key /\ b.repo = a.repos[1]}

\* A pom-packaged dependency's artifact is the POM its graph was built from.
OwnPom(a) == a.pom /\ a.companion # "missing"

\* The first loop of populate_artifacts and the verification of what the
\* store has: a node is settled or its artifact is to be fetched.
Settled(a) ==
    CASE OwnPom(a) -> {[blob |-> a.companion, repo |-> a.repos[1]]}
      [] ~OwnPom(a) /\ Seen(a) # {} -> {[blob |-> b.blob, repo |-> a.repos[1]] : b \in Seen(a)}
      [] OTHER -> {[blob |-> s.blob, repo |-> a.repos[1]] : s \in {t \in Stored(a.repos[1], a.key) : t.intact /\ ~a.renew}}

ToFetch(m) == {i \in DOMAIN Arts(m) : Settled(Arts(m)[i]) = {}}
Verified(m) == {i \in DOMAIN Arts(m) : ~OwnPom(Arts(m)[i]) /\ Seen(Arts(m)[i]) = {}} \ ToFetch(m)

\* populate_artifacts up to its downloads.  A coordinate that keeps a
\* property fails it at once.
Populate ==
    /\ fin.pc = "populate" /\ fin.wait = "look"
    /\ LET m == fin.next
           settled == [i \in DOMAIN Arts(m) \ ToFetch(m) |-> CHOOSE s \in Settled(Arts(m)[i]) : TRUE]
       IN IF \E i \in DOMAIN Arts(m) : Arts(m)[i].undefined
          THEN /\ fin' = [fin EXCEPT !.pc = "drain", !.wait = "look", !.failure = <<m>>]
               /\ UNCHANGED <<downloads, nodes, blobs>>
          ELSE /\ nodes' = [nodes EXCEPT ![m] = settled]
               /\ blobs' = blobs \cup {[key |-> Arts(m)[i].key, repo |-> Arts(m)[i].repos[1],
                                        blob |-> settled[i].blob] : i \in Verified(m)}
               /\ IF ToFetch(m) = {}
                  THEN fin' = [fin EXCEPT !.pc = "drain", !.wait = "look", !.populated = Append(@, m)]
                       /\ UNCHANGED downloads
                  ELSE fin' = [fin EXCEPT !.wait = "fetch"]
                       /\ downloads' = IF pass.prefetcher THEN Want(downloads) ELSE downloads
    /\ Note
    /\ UNCHANGED <<pass, graph, failed, inbox, checking, resolving, hints, pending, fetched, result>>

\* The downloads of populate_artifacts, refused once a graph failed; what
\* succeeded is indexed even when others failed.
Fetch ==
    /\ fin.pc = "populate" /\ fin.wait = "fetch" /\ ~Held(downloads)
    /\ LET m == fin.next
           got == [i \in ToFetch(m) |-> FetchFrom(Arts(m)[i])]
           served == {i \in ToFetch(m) : IsBlob(got[i].blob)}
           row(i) == [key |-> Arts(m)[i].key, repo |-> got[i].repo, blob |-> got[i].blob]
       IN IF downloads = "Dropped"
          THEN /\ fin' = [fin EXCEPT !.pc = "drain", !.wait = "look", !.failure = <<m>>]
               /\ UNCHANGED <<nodes, blobs, pending, fetched>>
          ELSE /\ fin' = [fin EXCEPT !.pc = "drain", !.wait = "look",
                                     !.failure = IF served = ToFetch(m) THEN @ ELSE <<m>>,
                                     !.populated = IF served = ToFetch(m) THEN Append(@, m) ELSE @]
               /\ nodes' = [nodes EXCEPT ![m] =
                     [i \in DOMAIN @ \cup served |-> IF i \in DOMAIN @ THEN @[i]
                                                     ELSE [blob |-> got[i].blob, repo |-> got[i].repo]]]
               /\ blobs' = blobs \cup {row(i) : i \in served}
               /\ pending' = pending \cup {row(i) : i \in served}
               /\ fetched' = fetched \cup UNION {{[by |-> "pass", repo |-> r, key |-> Arts(m)[i].key] :
                                                   r \in got[i].asked} : i \in ToFetch(m)}
    /\ Note
    /\ UNCHANGED <<pass, downloads, graph, failed, inbox, checking, resolving, hints, result>>

-----------------------------------------------------------------------------
(* Finishing                                                               *)

Receive ==
    /\ fin.pc = "recv"
    /\ IF inbox # <<>>
       THEN inbox' = Tail(inbox) /\ fin' = [fin EXCEPT !.pc = "drain", !.ready = @ \cup {Head(inbox)}]
       ELSE resolving = "ended" /\ fin' = [fin EXCEPT !.pc = "drain", !.allIn = TRUE] /\ UNCHANGED inbox
    /\ UNCHANGED <<pass, downloads, graph, failed, checking, resolving, hints, nodes, blobs,
                   pending, fetched, watch, result>>

\* Mutant: a module is taken whether or not the ones before it are in.
TakeAny ==
    /\ fin.pc = "drain" /\ fin.ready # {}
    /\ LET m == CHOOSE x \in fin.ready : \A y \in fin.ready : x <= y
           clear == fin.graphFailure = None /\ fin.failure = None
           taken == [fin EXCEPT !.next = m, !.ready = @ \ {m}]
       IN fin' = CASE GraphFails(m) -> [taken EXCEPT !.graphFailure = IF @ = None THEN <<m>> ELSE @]
                   [] ~GraphFails(m) /\ clear /\ ~failed -> [taken EXCEPT !.pc = "populate"]
                   [] ~GraphFails(m) /\ clear /\ failed -> [taken EXCEPT !.unpopulated = Append(@, m)]
                   [] OTHER -> taken
    /\ Note
    /\ UNCHANGED <<pass, downloads, graph, failed, inbox, checking, resolving, hints, nodes, blobs,
                   pending, fetched, result>>

\* The next module in reactor order, once it and those before it are in: it
\* is populated unless something failed.
Take ==
    /\ fin.pc = "drain" /\ fin.next + 1 \in fin.ready
    /\ LET m == fin.next + 1
           clear == fin.graphFailure = None /\ fin.failure = None
           taken == [fin EXCEPT !.next = m, !.ready = @ \ {m}]
       IN fin' = CASE GraphFails(m) -> [taken EXCEPT !.graphFailure = IF @ = None THEN <<m>> ELSE @]
                   [] ~GraphFails(m) /\ clear /\ ~failed -> [taken EXCEPT !.pc = "populate"]
                   [] ~GraphFails(m) /\ clear /\ failed -> [taken EXCEPT !.unpopulated = Append(@, m)]
                   [] OTHER -> taken
    /\ Note
    /\ UNCHANGED <<pass, downloads, graph, failed, inbox, checking, resolving, hints, nodes, blobs,
                   pending, fetched, result>>

\* Mutant: the end of the graphs is waited for again.
DrainedForEver ==
    /\ fin.pc = "drain" /\ fin.next + 1 \notin fin.ready
    /\ fin' = [fin EXCEPT !.pc = "recv"]
    /\ UNCHANGED <<pass, downloads, graph, failed, inbox, checking, resolving, hints, nodes, blobs,
                   pending, fetched, watch, result>>

\* Nothing more is ready: wait, or, when all are in, complete the populated
\* modules in order (complete_resolution) up to the first that fails, whose
\* failure stands before one to populate.
Drained ==
    /\ fin.pc = "drain" /\ fin.next + 1 \notin fin.ready
    /\ LET bad == {i \in DOMAIN fin.populated : pass.modules[fin.populated[i]].incomplete}
           first == CHOOSE i \in bad : \A j \in bad : i <= j
       IN fin' = CASE ~fin.allIn -> [fin EXCEPT !.pc = "recv"]
                   [] fin.allIn /\ bad = {} -> [fin EXCEPT !.pc = "ended", !.completed = fin.populated]
                   [] OTHER -> [fin EXCEPT !.pc = "ended", !.completed = SubSeq(fin.populated, 1, first),
                                           !.failure = <<fin.populated[first]>>]
    /\ UNCHANGED <<pass, downloads, graph, failed, inbox, checking, resolving, hints, nodes, blobs,
                   pending, fetched, watch, result>>

\* What a module logged: while its graph was built, and after.
GraphLogs(s) == [i \in DOMAIN s |-> <<"graph", s[i]>>]
Logs(s) == FlattenSeq([i \in DOMAIN s |-> <<<<"graph", s[i]>>, <<"rest", s[i]>>>>])

\* The modules whose logs are held: those completed, up to the one that
\* failed, and the one that failed to populate.
HeldModules ==
    IF fin.failure # None /\ fin.failure[1] \notin ToSet(fin.completed)
    THEN Append(fin.completed, fin.failure[1]) ELSE fin.completed

Ended == [result EXCEPT !.ended = TRUE]
Joined == ~result.ended /\ watch.stalled = None /\ checking.pc = "ended" /\ resolving = "ended" /\ fin.pc = "ended"

\* The end of resolve_workspace_watched: a failed graph first; else the
\* support POMs are flushed, the logs shown, and the rows and then their
\* origins written, also when a module failed. Each of these may fail.
Finish ==
    /\ Joined
    /\ result' =
         CASE fin.graphFailure # None ->
                [Ended EXCEPT !.error = <<"graph", fin.graphFailure[1]>>,
                              !.shown = GraphLogs(HeldModules) \o GraphLogs(fin.unpopulated) \o GraphLogs(fin.graphFailure)]
           [] fin.graphFailure = None /\ pass.fault = "flush" -> [Ended EXCEPT !.error = <<"store", 0>>]
           [] OTHER ->
                [Ended EXCEPT !.shown = Logs(HeldModules),
                              !.rows = IF pass.fault = "rows" THEN {} ELSE pending,
                              !.origins = IF pass.fault = "" THEN pending ELSE {},
                              !.error = IF pass.fault # "" THEN <<"store", 0>>
                                        ELSE IF fin.failure = None THEN None ELSE <<"module", fin.failure[1]>>]
    /\ Note
    /\ UNCHANGED <<pass, downloads, graph, failed, inbox, checking, resolving, fin, hints, nodes,
                   blobs, pending, fetched>>

-----------------------------------------------------------------------------
(* The watchdog                                                            *)

\* watch_for_stall, at a sample: events since the last one clear the idle
\* time; enough idle samples are a stall.
Tick ==
    /\ pass.watched /\ ~result.ended /\ watch.stalled = None
    /\ watch' = [watch EXCEPT !.moved = FALSE, !.quiet = IF watch.moved THEN 0 ELSE @ + 1,
                              !.idle = IF watch.moved THEN 0 ELSE @ + 1,
                              !.stalled = IF ~watch.moved /\ watch.idle + 1 >= Ticks
                                          THEN <<[quiet |-> watch.quiet + 1, at |-> Running]>> ELSE None]
    /\ UNCHANGED <<pass, downloads, graph, failed, inbox, checking, resolving, fin, hints, nodes,
                   blobs, pending, fetched, result>>

-----------------------------------------------------------------------------

\* Nothing is started where the modules' models cannot be built
\* (with_effective_gavs).
ReactorInit ==
    /\ pass \in Pass
    /\ downloads = IF pass.prefetcher /\ Len(pass.modules) > 1 THEN "Held" ELSE "Open"
    /\ graph = [m \in Modules |-> "waiting"] /\ failed = FALSE /\ inbox = <<>>
    /\ checking = [pc |-> IF pass.prefetcher /\ Len(pass.modules) > 1 THEN "wait" ELSE "ended", passed |-> {}]
    /\ resolving = "run"
    /\ fin = [pc |-> "recv", next |-> 0, ready |-> {}, allIn |-> FALSE, wait |-> "look", populated |-> <<>>,
              completed |-> <<>>, unpopulated |-> <<>>, graphFailure |-> None, failure |-> None]
    /\ hints = <<>> /\ nodes = [m \in Modules |-> <<>>] /\ blobs = {} /\ pending = {} /\ fetched = {}
    /\ watch = [moved |-> TRUE, idle |-> 0, quiet |-> 0, stalled |-> None]
    /\ result = [ended |-> pass.fault = "models", error |-> IF pass.fault = "models" THEN <<"models", 0>> ELSE None,
                 shown |-> <<>>, rows |-> {}, origins |-> {}]

\* A stall, and the end, abandon what is still running.
Live == ~result.ended /\ watch.stalled = None

ReactorWork ==
    /\ Live
    /\ \/ \E m \in Modules : \/ pass.prefetcher /\ Hint(m)
                             \/ CheckEnds(m)
                             \/ StartGraph(m)
                             \/ GraphEnds(m)
                             \/ Deliver(m)
       \/ \E h \in DOMAIN hints : HintStarts(h) \/ HintEnds(h)
       \/ CheckWanted
       \/ ChecksReleased
       \/ AllGraphsIn
       \/ Receive
       \/ Take
       \/ Populate
       \/ Fetch
       \/ Drained
       \/ Finish

ReactorNext == ReactorWork \/ Tick

-----------------------------------------------------------------------------
(* Properties                                                              *)

Least(S) == CHOOSE m \in S : \A n \in S : m <= n

\* What each module does on its own, were it never stopped by another.
Broken == {m \in Modules : GraphFails(m)}
Unfetched(m) == \E i \in DOMAIN Arts(m) : Arts(m)[i].undefined
                   \/ (~OwnPom(Arts(m)[i]) /\ ~IsBlob(FetchFrom(Arts(m)[i]).blob)
                        /\ (Arts(m)[i].renew \/ {s \in Stored(Arts(m)[i].repos[1], Arts(m)[i].key) : s.intact} = {}))

\* The pass reports the same failure however its tasks interleave: the first
\* broken graph in reactor order, else a store that takes no rows, and else
\* the first module that fails to populate or to complete (mod.rs 597-602,
\* 776-848).  A refusal to
\* download, which only a failed graph causes, is never what is reported.
FirstFailureReported ==
    result.ended =>
      LET later == {m \in Modules : Unfetched(m) \/ pass.modules[m].incomplete}
      IN result.error = IF pass.fault = "models" THEN <<"models", 0>>
                        ELSE IF Broken # {} THEN <<"graph", Least(Broken)>>
                        ELSE IF pass.fault # "" THEN <<"store", 0>>
                        ELSE IF later # {} THEN <<"module", Least(later)>> ELSE None

\* In a reactor with a module whose own dependencies cannot be resolved,
\* nothing is downloaded, however far the others are; a graph that breaks
\* deeper down may come too late for that (mod.rs 586-594,
\* prefetch.rs 116-158, 354-365).
NothingFetchedForDefect == (\E m \in Modules : pass.modules[m].defect) /\ pass.prefetcher => fetched = {}

\* Logs appear in reactor order, none after the module that failed, each
\* module's graph before the rest, and nothing but graphs when one failed
\* (mod.rs 696-699, 808-839).
ShownInOrder ==
    result.ended =>
      LET s == result.shown
          rank(e) == 2 * e[2] + (IF e[1] = "rest" THEN 1 ELSE 0)
          named == IF result.error = None \/ result.error[2] = 0 THEN {} ELSE {result.error[2]}
      IN /\ \A i, j \in DOMAIN s : i < j => rank(s[i]) < rank(s[j])
         /\ \A i \in DOMAIN s : \A m \in named : s[i][2] <= m
         /\ named # {} => s # <<>> /\ Last(s)[2] \in named
         /\ Broken # {} => \A i \in DOMAIN s : s[i][1] = "graph"
         /\ result.error = None => ToSet(s) = {"graph", "rest"} \X Modules

\* Every node ends with the bytes of the repository it names: those it
\* serves, or those the store holds as it served them (mod.rs 1556-1609,
\* utils.rs 45-150).
NodesFromTheirRepository ==
    \A m \in Modules : \A i \in DOMAIN nodes[m] :
       LET a == Arts(m)[i]  n == nodes[m][i]
       IN n.blob \in {Answer(n.repo, a.key)} \cup {s.blob : s \in {t \in Stored(n.repo, a.key) : t.intact}}
                     \cup (IF a.pom THEN {a.companion} ELSE {})

\* A pass that no graph and no write fails writes a row and its origin for
\* everything it downloaded, also when a module failed, so that a rerun
\* reuses it; wherever a write fails, no origin is without its row
\* (mod.rs 694-696, 840-848, 1796-1808).
DownloadsIndexed ==
    result.ended =>
      /\ result.origins \subseteq result.rows
      /\ Broken = {} /\ pass.fault = "" =>
           \A f \in fetched : f.by = "pass" /\ IsBlob(Answer(f.repo, f.key)) =>
             \E r \in result.origins : r.repo = f.repo /\ r.key = f.key /\ r.blob = Answer(f.repo, f.key)

\* The watchdog reports a stall only after a whole timeout without an event,
\* though events and samples interleave (mod.rs 336-369).
StalledOnlyWhenIdle == watch.stalled # None => watch.stalled[1].quiet >= Ticks

\* What a pass reports, downloads, shows and records.
PassSound ==
    /\ FirstFailureReported /\ NothingFetchedForDefect /\ ShownInOrder /\ NodesFromTheirRepository
    /\ DownloadsIndexed /\ StalledOnlyWhenIdle

\* The pass ends: nobody waits for downloads that nobody will release
\* (mod.rs 621-631, 680-691, 804-805).
PassEnds == <>(~Live)
=============================================================================

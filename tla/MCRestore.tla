------------------------------- MODULE MCRestore -------------------------------
(***************************************************************************)
(* The restore of a lock's files (Restore), the routing of requests with   *)
(* their credentials (Routing), the connections they make (Transport) and  *)
(* the export of the files into a local Maven repository (Export), each    *)
(* started while the others are at rest.                                   *)
(***************************************************************************)
EXTENDS Restore, Transport, Routing, Export, TLC

-----------------------------------------------------------------------------
(* Locks                                                                   *)

Files == {"a", "b", "p", "q"}
Repos == {"r1", "r2", "r3"}

Row(name, pin, from, pom, pomPin, pomFrom) ==
    [file |-> name, pin |-> pin, sha256 |-> TRUE, from |-> from, pom |-> pom,
     pomPin |-> pomPin, pomFrom |-> pomFrom, snapshot |-> FALSE, ctx |-> 1]

Support(pin, owners) == [key |-> "q", pin |-> pin, owners |-> owners, snapshot |-> FALSE]
Owner(ctx, repo) == [ctx |-> ctx, repo |-> repo]

Context(config, trusted) ==
    [config |-> config, trusted |-> trusted, blocked |-> {}, disabled |-> {},
     ambiguous |-> {}, mirrored |-> {}]

\* What r1, r2 and r3 may answer for a file.
Serve(x, y, z) == [o \in Repos |-> CASE o = "r1" -> x [] o = "r2" -> y [] OTHER -> z]
Miss == {"missing"}

Answers(a, b, p, q) ==
    [f \in Files |-> CASE f = "a" -> a [] f = "b" -> b [] f = "p" -> p [] OTHER -> q]

Empty == [poms |-> {"p", "q"}, disk |-> [b \in {"A", "B", "P", "Q"} |-> "absent"],
          index |-> [f \in Files |-> NoBlob], served |-> {}, removal |-> FALSE, recreate |-> FALSE]

Served(key, blob, repo, via) == [key |-> key, blob |-> blob, repo |-> repo, via |-> via]

\* Two platforms record one file under different origins.
TwoPlatforms == Empty @@
    [rows |-> <<Row("a", "A", <<"r1">>, "p", "P", <<"r1">>),
                [Row("a", "A", <<"r2">>, "p", "P", <<"r2">>) EXCEPT !.ctx = 2]>>,
     support |-> <<Support("Q", <<Owner(1, "r1"), Owner(2, "r2")>>)>>,
     ctx |-> <<Context(<<"r1">>, <<"r3">>), Context(<<"r2">>, <<>>)>>,
     answers |-> Answers(Serve({"missing", "transient", "A"}, {"A", "B", "missing"}, {"A", "missing"}),
                         Serve(Miss, Miss, Miss),
                         Serve({"P", "missing"}, {"P", "refused"}, {"P"}),
                         Serve({"Q", "missing"}, {"Q", "sidecar"}, Miss))]

\* Three callers of one key: the last comes after the first failed, while the
\* second fills the first's cell.
ThreePlatforms == Empty @@
    [rows |-> [n \in 1..3 |-> [Row("a", "A", <<<<"r1", "r2", "r3">>[n]>>, NoFile, NoBlob, <<>>)
                               EXCEPT !.ctx = n]],
     support |-> <<>>,
     ctx |-> <<Context(<<"r1">>, <<>>), Context(<<"r2">>, <<>>), Context(<<"r3">>, <<>>)>>,
     answers |-> Answers(Serve({"missing", "A"}, {"missing", "transient", "A"}, {"A", "refused"}),
                         Serve(Miss, Miss, Miss), Serve(Miss, Miss, Miss), Serve(Miss, Miss, Miss))]

\* One row's POM is another row's file and a support POM's bytes.
SharedPom == Empty @@
    [rows |-> <<Row("a", "A", <<"r1", "r2">>, "p", "P", <<"r3">>),
                Row("p", "P", <<"r1">>, NoFile, NoBlob, <<>>)>>,
     support |-> <<Support("P", <<Owner(1, "r1")>>)>>,
     ctx |-> <<Context(<<"r1", "r2">>, <<"r2", "r3">>)>>,
     answers |-> Answers(Serve({"missing", "refused"}, {"A", "nochecksum"}, {"A", "missing"}),
                         Serve(Miss, Miss, Miss),
                         Serve({"P", "missing", "nochecksum"}, {"P", "Q", "missing"}, {"P", "transient"}),
                         Serve({"P", "missing"}, Miss, Miss))]

\* A store that holds some files: admitted, of another repository, corrupt.
Stocked ==
    [Empty @@
     [rows |-> <<Row("a", "A", <<"r1">>, "p", "P", <<"r1">>),
                 Row("b", "B", <<"r2">>, NoFile, NoBlob, <<>>)>>,
      support |-> <<Support("Q", <<Owner(1, "r1")>>)>>,
      ctx |-> <<[Context(<<"r1">>, <<"r2">>) EXCEPT !.mirrored = {"r1"}]>>,
      answers |-> Answers(Serve({"A", "missing"}, {"A"}, {"A", "missing"}),
                          Serve(Miss, {"B"}, {}),
                          Serve({"P"}, {"P"}, {"P"}), Serve({"Q"}, {"Q"}, Miss))]
     EXCEPT !.disk = [b \in {"A", "B", "P", "Q"} |-> IF b = "P" THEN "corrupt" ELSE "intact"],
            !.served = {Served("a", "A", "r1", "own"), Served("b", "B", "r3", "own"),
                        Served("p", "P", "r1", "mirror"), Served("q", "Q", "r1", "mirror")},
            !.index["b"] = "B"]

\* A SHA-1 pin, an ambiguous origin, a blocked one, a SNAPSHOT.
Odd ==
    [Empty @@
     [rows |-> <<[Row("a", "A", <<"r1">>, "p", "P", <<"r3">>) EXCEPT !.sha256 = FALSE],
                 [Row("b", "B", <<"r2", "r1">>, NoFile, NoBlob, <<>>) EXCEPT !.snapshot = TRUE]>>,
      support |-> <<[Support("Q", <<Owner(1, "r3")>>) EXCEPT !.snapshot = TRUE]>>,
      ctx |-> <<[Context(<<"r1">>, <<"r2", "r3">>) EXCEPT !.ambiguous = {"r2"}, !.blocked = {"r3"}]>>,
      answers |-> Answers(Serve({"A", "missing"}, {"A"}, {"A", "missing"}),
                          Serve(Miss, {"B"}, {"B"}),
                          Serve({"P"}, {"P"}, {"P"}), Serve({"Q"}, {"Q"}, {"Q"}))]
     EXCEPT !.index["a"] = "A", !.disk["A"] = "intact", !.served = {Served("a", "A", "r1", "own")}]

Locks ==
    {TwoPlatforms, ThreePlatforms, SharedPom, Stocked, [Stocked EXCEPT !.recreate = TRUE],
     [Stocked EXCEPT !.removal = TRUE], Odd,
     [Odd EXCEPT !.index["a"] = "B", !.rows[2].from = <<"r1", "r2">>,
                 !.ctx[1].blocked = {}, !.ctx[1].ambiguous = {}]}

NoRestore ==
    /\ lock = Empty @@ [rows |-> <<>>, support |-> <<>>, ctx |-> <<Context(<<>>, <<>>)>>,
                        answers |-> <<>>]
    /\ disk = lock.disk /\ index = lock.index /\ served = {}
    /\ origins = {} /\ cached = {}
    /\ dedup = [f \in Files |-> 0] /\ cells = <<>>
    /\ task = <<>> /\ result = <<>> /\ queue = <<>>
    /\ pass = [NewPass(1) EXCEPT !.phase = "done"] @@ [recreated |-> 0, removed |-> {}, before |-> 0]

-----------------------------------------------------------------------------
(* Networks                                                                *)

Url(scheme, host, port) == [scheme |-> scheme, host |-> host, port |-> port]
Nexus == Url("https", "nexus", 1)
Cdn == Url("https", "cdn", 1)
Literals == Url("https", "lit", 1)
Loopback == Url("https", "localhost", 1)
Address == Url("https", "address", 1)

Direct ==
    [urls |-> {Nexus, Url("https", "nexus", 2), Url("http", "nexus", 1), Cdn,
               Url("https", "gate", 2), Literals, Loopback, Address},
     configured |-> {Nexus, Url("http", "nexus", 1)}, literals |-> {"lit", "address"},
     private |-> {"nexus", "cdn", "gate", "lit", "localhost"}, public |-> {"cdn", "address"},
     loopback |-> {"localhost"}, proxies |-> <<>>,
     grants |-> {<<Cdn, TRUE>>, <<Url("https", "nexus", 2), FALSE>>}]

Proxy(protocol, bypass, environment) ==
    [protocol |-> protocol, bypass |-> bypass, environment |-> environment, host |-> "gate"]

Networks ==
    {Direct,
     [Direct EXCEPT !.proxies = <<Proxy("http", {"gate", "nexus"}, FALSE)>>],
     [Direct EXCEPT !.proxies = <<Proxy("http", {}, TRUE), Proxy("all", {"cdn", "gate"}, FALSE)>>,
                    !.configured = {Nexus, Loopback}],
     [Direct EXCEPT !.proxies = <<Proxy("http", {}, TRUE)>>,
                    !.grants = {<<Cdn, FALSE>>, <<Literals, TRUE>>}]}

NoConnection ==
    /\ net = [Direct EXCEPT !.grants = {}]
    /\ trustedHosts = ConfiguredHosts /\ trustedOrigins = net.configured /\ rootIssuers = {}
    /\ grant = [pc |-> "idle", left |-> {}]
    /\ send = [Unsent EXCEPT !.pc = "ended"]

-----------------------------------------------------------------------------
(* Setups                                                                  *)

Origin(scheme, host) == [scheme |-> scheme, host |-> host]
A == Origin("https", "a")
B == Origin("https", "b")
C == Origin("https", "c")
H == Origin("http", "h")
F == Origin("file", "f")

Repo(id, url) ==
    [id |-> id, url |-> url, provenance |-> "Configured", releases |-> "warn",
     snapshots |-> "warn", user |-> TRUE, secret |-> FALSE]

Mirror(id, url, of) ==
    [id |-> id, url |-> url, of |-> of, layout |-> TRUE, blocked |-> FALSE, user |-> TRUE]

Every == [kind |-> "*"]
ById(id) == [kind |-> "id", id |-> id]

Plain ==
    [repositories |-> <<Repo("x", A), [Repo("y", H) EXCEPT !.user = FALSE]>>, mirrors |-> <<>>,
     transitive |-> {B},
     auth |-> <<[id |-> "x", fields |-> {}], [id |-> "x", fields |-> {"token"}],
                [id |-> "y", fields |-> {"username", "password"}],
                [id |-> "m", fields |-> {"token"}], [id |-> NoId, fields |-> {"token"}]>>,
     declared |-> {<<Repo("x", A), "LocalPom">>, <<Repo("x", C), "RemoteParent">>,
                   <<Repo("w", C), "LocalPom">>, <<Repo("z", B), "RemoteParent">>,
                   <<[Repo("z", B) EXCEPT !.releases = "unsupported"], "Transitive">>,
                   <<[Repo("x", A) EXCEPT !.releases = "fail"], "LocalPom">>,
                   <<Repo("x", F), "RemoteParent">>, <<[Repo("w", A) EXCEPT !.secret = TRUE], "LocalPom">>,
                   <<Repo("w", Origin("http", "k")), "LocalPom">>}]

Few(mirrors) ==
    [Plain EXCEPT !.mirrors = mirrors,
                  !.declared = {<<Repo("y", A), "LocalPom">>, <<Repo("z", B), "RemoteParent">>}]

Entries == {Every, ById("x"), [kind |-> "not", id |-> "x"], [kind |-> "external"],
            [kind |-> "external:http"], ById("y")}

Patterns == UNION {[1..n -> Entries] : n \in 1..3}

Setups ==
    {Plain, [Plain EXCEPT !.mirrors = <<Mirror(NoId, A, <<Every>>)>>],
     [Plain EXCEPT !.mirrors = <<Mirror("m", B, <<Every>>), Mirror("x", A, <<ById("x")>>)>>],
     [Plain EXCEPT !.mirrors = <<[Mirror("m", B, <<[kind |-> "external"]>>) EXCEPT !.blocked = TRUE]>>],
     [Plain EXCEPT !.auth = <<[id |-> "x", fields |-> {"username"}]>>]}
    \cup {Few(<<Mirror(NoId, B, p)>>) : p \in Patterns}

NoRouting ==
    /\ setup = [repositories |-> <<>>, mirrors |-> <<>>, auth |-> <<>>, transitive |-> {},
                declared |-> {}]
    /\ named = {} /\ admitted = {} /\ sent = {}

-----------------------------------------------------------------------------
(* Exports                                                                 *)

ExportUnit(blob, ids) == [blob |-> blob, ids |-> ids, replace |-> FALSE]
NoLists == [id \in {"r", "s", "local"} |-> {}]
NoBuilds == [id \in {"r", "s", "local"} |-> << >>]

FirstExport ==
    [units |-> "f" :> ExportUnit("A", {"r"}) @@ "g" :> ExportUnit("B", {"r", "s"}), overwrite |-> FALSE, link |-> "copy",
     shared |-> FALSE, dry |-> FALSE, main |-> TRUE, plain |-> FALSE, pomBase |-> FALSE,
     query |-> {"r"}, lists |-> [NoLists EXCEPT !["r"] = {1}], builds |-> NoBuilds]

SecondExport ==
    [FirstExport EXCEPT !.units = "f" :> ExportUnit("A", {"s"}), !.link = "hardlink",
                   !.lists = [NoLists EXCEPT !["s"] = {2}], !.query = {"r", "s"},
                   !.builds = [NoBuilds EXCEPT !["s"] = "jar" :> 2]]

Overwriting == [SecondExport EXCEPT !.units = "f" :> ExportUnit("B", {"s"}), !.overwrite = TRUE, !.link = "copy"]

SharedJob(j) == [j EXCEPT !.shared = TRUE]

Jobs ==
    {<<FirstExport, SecondExport>>, <<FirstExport, Overwriting>>,
     <<SharedJob(FirstExport), SharedJob([SecondExport EXCEPT !.units = "f" :> ExportUnit("B", {"s"})])>>,
     <<[FirstExport EXCEPT !.dry = TRUE],
       [SecondExport EXCEPT !.plain = TRUE, !.pomBase = TRUE, !.lists = NoLists, !.builds = NoBuilds,
                     !.units["f"].replace = TRUE]>>,
     <<[SecondExport EXCEPT !.units = "f" :> ExportUnit("A", {"s"})
                                      @@ "g" :> [ExportUnit("A", {"s"}) EXCEPT !.replace = TRUE]]>>,
     <<SecondExport, SecondExport>>}

Unused ==
    [file |-> [p \in {"f", "g"} |-> Absent],
     sidecar |-> [p \in {"f", "g"} |-> [sha256 |-> Nothing, sha1 |-> Nothing]],
     store |-> [b \in {"A", "B"} |-> b],
     lists |-> [id \in {"r", "s", "local"} |-> Nothing],
     builds |-> [id \in {"r", "s", "local"} |-> Nothing], markers |-> {}]

Used ==
    [Unused EXCEPT !.file["g"] = [kind |-> "foreign", bytes |-> "B"],
                   !.lists["r"] = {1, 3}, !.lists["s"] = {3},
                   !.builds["r"] = "jar" :> 1 @@ "pom" :> 2,
                   !.builds["s"] = "jar" :> 1 @@ "pom" :> 2,
                   !.markers = {<<"f", "local">>}]

\* The third: an overwriting export was killed between its sidecars and the file.
Starts ==
    {Used,
     [Used EXCEPT !.file["f"] = [kind |-> "shared", bytes |-> "A"],
                  !.sidecar["f"] = [sha256 |-> "A", sha1 |-> "A"],
                  !.file["g"] = [kind |-> "dangling", bytes |-> Nothing]],
     [Used EXCEPT !.file["f"] = [kind |-> "shared", bytes |-> "A"],
                  !.sidecar["f"] = [sha256 |-> "B", sha1 |-> "B"]],
     [Unused EXCEPT !.file["f"] = [kind |-> "dir", bytes |-> Nothing], !.store["A"] = Nothing]}

NoExport ==
    /\ job = <<>> /\ exp = <<>> /\ writer = <<>> /\ touched = <<>> /\ split = <<>>
    /\ file = Unused.file /\ sidecar = Unused.sidecar /\ store = Unused.store
    /\ lists = Unused.lists /\ builds = Unused.builds /\ markers = {}
    /\ faults = 0 /\ lost = {}

-----------------------------------------------------------------------------

vars == <<restoreVars, transportVars, routingVars, exportVars>>

Init ==
    \/ RestoreInit /\ NoConnection /\ NoRouting /\ NoExport
    \/ TransportInit /\ NoRestore /\ NoRouting /\ NoExport
    \/ RoutingInit /\ NoRestore /\ NoConnection /\ NoExport
    \/ ExportInit /\ NoRestore /\ NoConnection /\ NoRouting

Ended ==
    /\ pass.phase = "done" /\ send.pc \in {"ended", "screened"}
    /\ \A e \in Exports : exp[e].pc \in {"done", "dry", "failed", "dropped", "killed"} /\ ~HoldsTurn(e)
    /\ UNCHANGED vars

Next ==
    \/ RestoreNext /\ UNCHANGED <<transportVars, routingVars, exportVars>>
    \/ TransportNext /\ UNCHANGED <<restoreVars, routingVars, exportVars>>
    \/ RoutingNext /\ UNCHANGED <<restoreVars, transportVars, exportVars>>
    \/ ExportNext /\ UNCHANGED <<restoreVars, transportVars, routingVars>>
    \/ Ended

Spec ==
    /\ Init /\ [][Next]_vars /\ RestoreFairness
    /\ \A e \in 1..2 : WF_exportVars(e \in Exports /\ ExportStep(e))

\* Every restore and every export ends.
WorkEnds == RestoreEnds /\ ExportsEnd
=============================================================================

------------------------------- MODULE MCReactor -------------------------------
(***************************************************************************)
(* A pass over a reactor (Reactor), the repositories a module's graph reads *)
(* (RepositoryList), the POMs it records (PomRecords), the versions it     *)
(* selects (VersionChoice) and its mediation (Mediation), each started     *)
(* while the others are at rest.                                           *)
(***************************************************************************)
EXTENDS Reactor, RepositoryList, PomRecords, VersionChoice, Mediation

-----------------------------------------------------------------------------
(* Reactors                                                                *)

Art(key, repos) ==
    [key |-> key, repos |-> repos, pom |-> FALSE, companion |-> "missing", undefined |-> FALSE, renew |-> FALSE]
Module(arts) == [arts |-> arts, defect |-> FALSE, unchecked |-> FALSE, broken |-> FALSE, incomplete |-> FALSE]
Holding(repo, key, blob, intact) == [repo |-> repo, key |-> key, blob |-> blob, intact |-> intact]
Serving(a1, b1, a2, b2) ==
    "r1" :> ("a" :> a1 @@ "b" :> b1) @@ "r2" :> ("a" :> a2 @@ "b" :> b2)
Of(modules, stored, answers) ==
    [modules |-> modules, stored |-> stored, answers |-> answers, local |-> {}, prefetcher |-> TRUE,
     fault |-> "", watched |-> FALSE]

OneA == <<Art("a", <<"r1", "r2">>)>>
OneB == <<Art("b", <<"r2">>)>>
OtherA == <<Art("a", <<"r2", "r1">>)>>

\* Three modules, each failing in its own way or not at all.
Faults == {"none", "defect", "broken", "unchecked", "incomplete"}
Faulty(module, fault) ==
    CASE fault = "defect" -> [module EXCEPT !.defect = TRUE]
      [] fault = "broken" -> [module EXCEPT !.broken = TRUE]
      [] fault = "unchecked" -> [module EXCEPT !.unchecked = TRUE]
      [] fault = "incomplete" -> [module EXCEPT !.incomplete = TRUE]
      [] OTHER -> module
Reactors ==
    {Of(<<Faulty(Module(OneA), f[1]), Faulty(Module(OtherA), f[2]), Faulty(Module(<<>>), f[3])>>, {},
        Serving("A1", "B1", "A2", "B2")) :
       f \in {<<"none", "none", "unchecked">>, <<"broken", "none", "none">>, <<"none", "defect", "broken">>,
              <<"incomplete", "incomplete", "none">>, <<"none", "incomplete", "broken">>}}

\* What the store holds and the repositories answer.
Stores ==
    {[Of(<<Module(OneA), Module(OtherA \o OneB)>>, x[1], Serving(x[2], "B1", x[3], x[4])) EXCEPT !.local = x[5]] :
       x \in {<<{Holding("r1", "a", "A1", FALSE)}, "A1", "A2", "B2", {}>>,
              <<{Holding("r2", "a", "A3", TRUE)}, "missing", "A2", "B2", {}>>,
              <<{Holding("r2", "a", "A3", TRUE)}, "missing", "A2", "B2", {"r2"}>>,
              <<{Holding("r1", "a", "A1", TRUE), Holding("r2", "b", "B2", FALSE)}, "down", "refused", "offline", {}>>,
              <<{Holding("r2", "b", "B3", TRUE)}, "refused", "missing", "missing", {}>>}}

Odd ==
    {[Of(<<Module(<<[Art("a", <<"r1">>) EXCEPT !.pom = TRUE, !.companion = "P"], Art("b", <<"r2", "r1">>)>>)>>,
         {}, Serving("A1", "B1", "A2", "missing")) EXCEPT !.watched = TRUE],
     [Of(<<Module(<<[Art("b", <<"r1">>) EXCEPT !.undefined = TRUE]>>), Module(OneA)>>, {},
         Serving("A1", "B1", "A2", "B2")) EXCEPT !.prefetcher = FALSE, !.watched = TRUE]}
    \cup {[Of(<<Module(<<[Art("a", <<"r1", "r2">>) EXCEPT !.renew = TRUE]>>), Module(<<>>)>>,
               {Holding(held, "a", "A3", TRUE)}, Serving(a, "B1", "A2", "missing")) EXCEPT !.fault = f] :
             held \in {"r1", "r2"}, a \in {"A4", "missing"}, f \in {"models", "flush", "rows", "origins", ""}}

Passes == Reactors \cup Stores \cup Odd

-----------------------------------------------------------------------------
(* Projects and their repositories                                         *)

Repo(id, url, sum, expr) == [id |-> id, url |-> url, sum |-> sum, expr |-> expr, configured |-> FALSE]
Conf(id, url, sum) == [Repo(id, url, sum, FALSE) EXCEPT !.configured = TRUE]
Central == Conf("central", "default", "warn")
LineageRepos ==
    {Repo("x", "u", "warn", FALSE), Repo("x", "u", "warn", TRUE), Repo("x", "v", "fail", FALSE),
     Repo("x", "bad", "warn", FALSE), Repo("central", "u", "warn", TRUE), Repo("central", "v", "fail", FALSE),
     Repo("", "v", "warn", FALSE)}
Configs == {<<Central>>, <<Conf("x", "u", "fail"), Central>>, <<Conf("y", "v", "warn"), Central>>}
Project(config, lineage, interpolated, reads) ==
    [config |-> config, lineage |-> lineage, interpolated |-> interpolated, reads |-> reads]
ListProjects ==
    {Project(c, l, i, 0) : c \in Configs, l \in UNION {[1..n -> LineageRepos] : n \in 1..3}, i \in {"warn", "fail"}}
    \cup {Project(<<Conf("x", "u", "fail"), Central>>,
                  <<Repo("w", "bad", "warn", FALSE), Repo("z", "v", "warn", TRUE)>>, "fail", 4)}
Dependencies ==
    {<<>>, <<Repo("x", "u", "unsupported", FALSE)>>, <<Repo("x", "w", "warn", FALSE)>>,
     <<Repo("w", "bad", "warn", FALSE), Repo("w", "v", "fail", FALSE)>>,
     <<Repo("", "v", "fail", FALSE), Repo("", "w", "warn", FALSE)>>,
     <<Repo("central", "default", "fail", FALSE)>>}

-----------------------------------------------------------------------------
(* Reactors that record the POMs they read                                 *)

SupportPom(key, blob, repo) == [key |-> key, blob |-> blob, repo |-> repo, route |-> repo]
Coordinate(gav, classifier) == [gav |-> gav, classifier |-> classifier]
Scene(modules, poms, reused, coords) ==
    [modules |-> modules, poms |-> poms, reused |-> reused, coords |-> coords, serves |-> <<>>, pomOf |-> <<>>,
     indexed |-> <<>>]
RecordScenes ==
    {[Scene(2, {SupportPom("p", "X", ""), SupportPom("p", "Y", "r")},
            {<<SupportPom("p", "X", "")>>, <<SupportPom("p", "Y", "r")>>,
             <<SupportPom("q", "Z", "r"), SupportPom("p", "X", "r")>>}, {}) EXCEPT !.indexed = x] :
        x \in {<<>>, <<[key |-> "p", value |-> "Y"]>>}}
    \cup {[Scene(1, {}, {}, {"g", "s"} \X {"", "tests"}) EXCEPT
              !.coords = {Coordinate(c[1], c[2]) : c \in @},
              !.serves = "c1" :> ("g" :> x[1] @@ "sp" :> "none") @@ "c2" :> ("g" :> x[2] @@ "sp" :> "X"),
              !.pomOf = "g" :> "g" @@ "s" :> "sp" @@ "sp" :> "sp"] : x \in {"none", "X"} \X {"X", "Y"}}

-----------------------------------------------------------------------------
(* Versions to select                                                      *)

V(text, rank, bucket, snapshot) == [text |-> text, rank |-> rank, bucket |-> bucket, snapshot |-> snapshot]
V1 == V("1", 1, 2, FALSE)
V10 == V("1.0", 1, 1, FALSE)
V2 == V("2-SNAPSHOT", 2, 1, TRUE)
V3 == V("3", 3, 3, FALSE)

\* A repository of policies releases and snapshots, and what it answers.
Answering(id, releases, snapshots, answer) ==
    [id |-> id, releases |-> releases, snapshots |-> snapshots, sumReleases |-> "warn",
     sumSnapshots |-> "warn", local |-> FALSE, answer |-> answer]
Fails(kind) == [kind |-> kind]
Listing(versions, release, latest, updated) ==
    [kind |-> "metadata", versions |-> versions, release |-> release, latest |-> latest, updated |-> updated]
Listings ==
    {Listing(<<V3, V1>>, <<V1>>, <<V3>>, 1), Listing(<<V10, V2>>, <<V3>>, <<V2>>, 2), Listing(<<V2>>, <<>>, <<V2>>, 0),
     Fails("missing"), Fails("refused"), Fails("broken"), Fails("invalid"), Fails("retried"), Fails("fatal")}
Listers == {Answering("r", TRUE, s, a) : s \in BOOLEAN, a \in Listings}
              \cup {[Answering("r", FALSE, TRUE, a) EXCEPT !.sumReleases = "unsupported"] : a \in Listings}
Named(s) == [i \in DOMAIN s |-> [s[i] EXCEPT !.id = <<"r1", "r2">>[i]]]

Builds(entries, snapshot, base, updated) ==
    [kind |-> "metadata", entries |-> entries, snapshot |-> snapshot, base |-> base, updated |-> updated]
Entry(file, value, updated) == [file |-> file, value |-> value, updated |-> updated]
BuildAnswers ==
    {Builds(<<Entry("jar", "b1", 1), Entry("jar", "b2", 2)>>, <<>>, TRUE, 1), Builds(<<Entry("jar", "b3", 2)>>, <<"b4">>, TRUE, 3),
     Builds(<<>>, <<"b5">>, TRUE, 2), Builds(<<>>, <<"b6">>, TRUE, 3), Builds(<<>>, <<"unusable">>, TRUE, 2),
     Builds(<<Entry("pom", "b7", 4)>>, <<"b7">>, TRUE, 4), Builds(<<>>, <<>>, FALSE, 1),
     Fails("missing"), Fails("refused"), Fails("retried"), Fails("fatal")}
Publishers == {Answering("r", FALSE, TRUE, a) : a \in BuildAnswers}
                \cup {[Answering("r", TRUE, TRUE, Fails("missing")) EXCEPT !.local = TRUE],
                      Answering("r", TRUE, FALSE, Fails("fatal"))}
Pin1 == [file |-> "jar", build |-> "b1", origins |-> {"r2"}, cached |-> {}]
Pin3 == [file |-> "jar", build |-> "b3", origins |-> {}, cached |-> {"r1"}]

ChoiceQueries ==
    {[kind |-> k, repos |-> Named(rs), workspace |-> w, range |-> {1, 2}, reactor |-> w # <<>>] :
        k \in {"range", "parent"}, rs \in UNION {[1..n -> Listers] : n \in 1..2}, w \in {<<>>, <<V1, V10>>}}
    \cup {[kind |-> "marker", token |-> t, repos |-> Named(rs), workspace |-> w] :
        t \in {"LATEST", "RELEASE"}, rs \in UNION {[1..n -> Listers] : n \in 1..2}, w \in {<<>>, <<V2, V1>>}}
    \cup {[kind |-> "snapshot", repos |-> Named(rs), file |-> "jar", pins |-> p, offline |-> o, frozen |-> FALSE,
           plain |-> x, module |-> FALSE] :
        rs \in UNION {[1..n -> Publishers] : n \in 1..2}, p \in {<<>>, <<Pin1>>, <<Pin3, Pin1>>}, o \in BOOLEAN,
        x \in {{}, {"r1"}}}

-----------------------------------------------------------------------------
(* At rest                                                                 *)

NoPass ==
    /\ pass = Of(<<>>, {}, <<>>) /\ downloads = "Open" /\ graph = <<>> /\ failed = FALSE /\ inbox = <<>>
    /\ checking = [pc |-> "ended", passed |-> {}] /\ resolving = "end" /\ fin = [pc |-> "end"]
    /\ hints = <<>> /\ nodes = <<>> /\ blobs = {} /\ pending = {} /\ fetched = {} /\ watch = [stalled |-> None]
    /\ result = [ended |-> TRUE, error |-> None, shown |-> <<>>, rows |-> {}, origins |-> {}]
NoList ==
    /\ project = Project(<<>>, <<>>, "warn", 0) /\ left = <<>> /\ shared = EmptyList
    /\ built = [repos |-> <<>>, ids |-> {}] /\ contexts = {} /\ builds = {} /\ kept = {} /\ textOf = <<>>
    /\ stage = "rest"
NoRecords ==
    /\ scene = Scene(0, {}, {}, {}) /\ service = <<>> /\ buffer = <<>> /\ split = FALSE /\ observed = <<>>
    /\ index = [rows |-> <<>>, blobs |-> {}, done |-> TRUE]
NoQuery == query = [kind |-> "none"] /\ choice = <<Failed("none")>>

NoWalk == world = [root |-> <<>>, pom |-> <<>>, managed |-> <<>>] /\ walk = [Start EXCEPT !.done = TRUE] /\ steps = 0

vars == <<reactorVars, listVars, recordVars, choiceVars, mediationVars>>

Init ==
    \/ ReactorInit /\ NoList /\ NoRecords /\ NoQuery /\ NoWalk
    \/ ListInit /\ NoPass /\ NoRecords /\ NoQuery /\ NoWalk
    \/ RecordInit /\ NoPass /\ NoList /\ NoQuery /\ NoWalk
    \/ ChoiceInit /\ NoPass /\ NoList /\ NoRecords /\ NoWalk
    \/ MediationInit /\ NoPass /\ NoList /\ NoRecords /\ NoQuery

Next ==
    \/ ReactorNext /\ UNCHANGED <<listVars, recordVars, choiceVars, mediationVars>>
    \/ ListNext /\ UNCHANGED <<reactorVars, recordVars, choiceVars, mediationVars>>
    \/ RecordNext /\ UNCHANGED <<reactorVars, listVars, choiceVars, mediationVars>>
    \/ Choose /\ UNCHANGED <<reactorVars, listVars, recordVars, mediationVars>>
    \/ MediationNext /\ UNCHANGED <<reactorVars, listVars, recordVars, choiceVars>>

Spec == Init /\ [][Next]_vars /\ WF_vars(ReactorWork /\ UNCHANGED <<listVars, recordVars, choiceVars, mediationVars>>)

\* What a module records of the POMs and the versions it read.
RecordsSound == RowsAsObserved /\ PinsAsRead /\ VersionChoicesSound
=============================================================================

------------------------------ MODULE MCMavenModel ------------------------------
(***************************************************************************)
(* The algorithms on Maven's own data, each evaluated on every input of a  *)
(* small set and compared with what it is to compute.                      *)
(***************************************************************************)
EXTENDS Lineage

VARIABLES in, out
vars == <<in, out>>

-----------------------------------------------------------------------------
(* Inputs                                                                  *)

Texts(symbols, n) == UNION {[1..k -> symbols] : k \in 1..n}

\* Two numbers or two words side by side would be one token.
Separated(text) ==
    \A i \in 1..(Len(text) - 1) :
       /\ ~(IsDigits(text[i]) /\ IsDigits(text[i + 1]))
       /\ ~({text[i], text[i + 1]} \subseteq (DOMAIN OtherWords \cup DOMAIN QualifierOf))

VersionTexts ==
    {t \in Texts({"0", "1", ".", "a", "rc"}, 3) : Separated(t)}
    \cup {t \in [1..5 -> {"0", "1", "-", "ga"}] :
            Separated(t) /\ t[2] = "-" /\ t[4] = "-" /\ t[1] # "-" /\ t[3] # "-" /\ t[5] # "-"}
FewVersionTexts ==
    {<<"0">>, <<"1">>, <<"1", ".", "0">>, <<"2">>, <<"10">>, <<"1", "-", "rc">>, <<"1", "a", "1">>,
     <<"1", "-", "ga">>, <<"1", "-", "sp">>, <<"1", "-", "x">>, <<"1", ".", "min">>, <<"1", ".", "max">>,
     <<"a">>, <<"ga">>, <<"x", "1">>, <<"1", "-", "snapshot">>, <<"1", "-", "1">>}
ReqTexts == {t \in Texts({"[", "(", "]", ")", ",", "1", "2", "1.*"}, 5) :
                \A i \in 1..(Len(t) - 1) :
                   /\ t[i] \in Punctuation \/ t[i + 1] \in Punctuation
                   /\ i > 1 => ~({t[i], t[i + 1]} \subseteq Opening)}
UnionTexts == {<<"[", "1", ",", "1", "]">> \o t : t \in {<<>>, <<",">>, <<",", "(", "2", ",", ")">>}}
              \cup {<<"[", a, ",", b, "]">> : a, b \in {"0", "1", "1.0", "alpha", "beta"}}
PinnedVersions == {<<v>> : v \in DOMAIN VersionText} \cup {<<"[", "1">>}
SnapshotVersions ==
    {SnapshotVersion(p, h, t) : p \in {"", "1.0"}, h \in BOOLEAN,
        t \in {WordTail("SNAPSHOT"), WordTail("snapshot"), WordTail("x")}
              \cup {StampTail(time, build) : time \in {1, 2}, build \in Builds}}
Segments == {"", "g", "1", "$"}
Components == Texts({"a", ".", "/", "+", " ", "^", "u"}, 4) \cup Texts({"a", "."}, 5) \cup {<<>>}
PurlFields == {"", " ", "p", "%"}
PurlCoords == {CoordOf(g, "p", v, p, c) : g \in PurlFields, v \in PurlFields,
                   p \in {"jar", "", "p", "%"}, c \in {None, "", "p", "%"}}

Name(symbol) == <<symbol>>
To(symbol) == Ref(<<Lit(symbol)>>)
PropertyTexts ==
    {<<>>, <<Lit("a")>>, <<Lit("x")>>, <<To("b")>>, <<To("a"), To("c")>>, <<To("c"), To("b")>>, <<Ref(<<To("c")>>)>>}
Scope(props, external, build) ==
    [props |-> props, external |-> external, build |-> build, builtin |-> (Name("p") :> <<"P">>),
     system |-> (Name("x") :> <<"X">>), fields |-> (Name("v") :> <<"V">>)]
PropertyMaps == [{Name("a"), Name("b"), Name("c")} -> PropertyTexts]
BuildTexts == {Name("d") :> <<Lit("t"), To("a")>>}
Interpolated == {<<To("a"), Lit("-"), To("b")>>, <<Ref(<<To("a")>>), To("b"), To("p")>>, <<To("d"), To("v"), To("x")>>}

\* Two machines differ in any of this. A user property may name another
\* property, hold a version or a path.
Worlds == [user : {<<>>, Name("u") :> <<"1">>, Name("u") :> <<"java">>, JavaVersion :> <<"2">>},
           settings : {<<>>, Name("s") :> <<"1">>}, system : {<<>>},
           java : {<<"1">>, <<"2">>}, env : {<<>>, "V" :> <<"1">>}, files : {{}, {<<"/", "1">>}}]
Request == [declared |-> Name("d") :> <<To("u")>>, allowed |-> {"V"}, settingsNames |-> {Name("s")}, os |-> <<"linux">>,
            targetJdk |-> Absent, base |-> Absent, active |-> {}, inactive |-> {}]
Requests == {Request, [Request EXCEPT !.base = <<"/">>, !.targetJdk = <<"1">>, !.inactive = {"p1"}],
             [Request EXCEPT !.base = <<"/">>, !.allowed = {}, !.active = {"p2"}]}
NoCondition == [os |-> NoText, exists |-> NoText, missing |-> NoText, jdk |-> NoText, name |-> NoText, value |-> NoText]
JdkTexts == {Literal(<<"1">>), Literal(<<"!", "1">>), Literal(<<"[", "1", ",", "2", ")">>), Literal(<<"(", "1">>),
             <<To("u")>>, <<To("s")>>, <<To("java")>>}
NameTexts == {Literal(<<"u">>), Literal(<<"env", "V">>), Literal(<<"!", "env", "V">>), Literal(<<"java">>), <<To("u")>>, <<Lit("!")>>,
              <<Ref(<<To("u")>>)>>, <<Ref(<<Lit("env"), Lit("V")>>)>>}
ValueTexts == {NoText, <<Lit("1")>>, <<To("s")>>, <<Ref(<<To("u")>>)>>}
PathTexts == {NoText, <<Lit("1")>>, <<Lit("/"), To("d")>>, <<Lit("/"), To("s")>>, <<Ref(<<Lit("env"), Lit("V")>>)>>}
Activations ==
    {[NoCondition EXCEPT !.jdk = j, !.os = o] : j \in JdkTexts, o \in {NoText, Literal(<<"linux">>), Literal(<<"!", "linux">>)}}
    \cup {[NoCondition EXCEPT !.name = n, !.value = v, !.jdk = j] :
             n \in NameTexts, v \in ValueTexts, j \in {NoText, Literal(<<"1">>)}}
    \cup {[NoCondition EXCEPT !.exists = e, !.missing = m] : e \in PathTexts, m \in PathTexts}
    \cup {[NoCondition EXCEPT !.exists = e, !.jdk = Literal(<<"2">>)] : e \in PathTexts}
Defaults(relevant) == [id |-> "p2", byDefault |-> TRUE, activation |-> NoCondition, relevant |-> relevant]
PomProfiles == {<<[id |-> "p1", byDefault |-> FALSE, activation |-> a, relevant |-> r], Defaults(~r)>> :
                   a \in Activations, r \in BOOLEAN}

\* Lists of repositories, an id written twice.
Entry(key, version) == [key |-> key, version |-> version]
Lists == UNION {[1..n -> {Entry("a", 1), Entry("a", 2), Entry("b", 3)}] : n \in 0..2}

\* A tree of POM files and a repository. Each names its parent and where it lies.
Pom(declares, parent, path) == [declares |-> declares, parent |-> parent, path |-> path]
Trees == {[files |-> ("m" :> m) @@ ("n" :> n) @@ ("o" :> o), repo |-> repo, inside |-> inside] :
             m \in {Pom("M", p, q) : p \in {None, "N", "O"}, q \in {None, "n", "o"}},
             n \in {Pom("N", p, q) : p \in {None, "O", "M"}, q \in {None, "m", "o"}},
             o \in {Pom(d, p, q) : d \in {"O", "N"}, p \in {None, "N", "R"}, q \in {"n", "m"}},
             repo \in {<<>>, ("N" :> Pom("N", "O", None)) @@ ("O" :> Pom("O", None, None)),
                       "R" :> Pom("N", None, None)},
             inside \in {{"m", "n", "o"}, {"m", "n"}}}

\* A POM of the project and its fetched parent; what the parent says varies.
FetchedTexts == {NoText, <<Lit("1")>>, <<Lit("2")>>, <<To("y")>>}
LocalPoms == [props : {<<>>, Name("x") :> <<Lit("l")>>, Name("x") :> <<To("y")>>, Name("x") :> <<To("pg")>>},
              group : {NoText, <<Lit("G")>>}, build : {NoText, <<To("x")>>}, fetched : {FALSE}]
FetchedPoms == [props : {<<>>} \cup {Name(n) :> t : n \in {"x", "y"}, t \in FetchedTexts \ {NoText}},
                group : FetchedTexts \ {<<To("y")>>}, build : FetchedTexts, fetched : {TRUE}]
Urls == {<<Lit("h")>>, <<To("x")>>, <<To("y"), To("pb")>>, <<To("g")>>, <<Ref(<<To("x")>>)>>}

\* Declarations of a dependency.
Decl(key, version, scope, optional) ==
    [key |-> key, version |-> version, scope |-> scope, optional |-> optional, exclusions |-> {}]
A1 == Decl(<<Lit("a")>>, <<Lit("1")>>, NoText, NoText)
Decls == {A1, [A1 EXCEPT !.scope = <<Lit("test")>>], [A1 EXCEPT !.version = NoText], [A1 EXCEPT !.optional = <<To("x")>>],
          [A1 EXCEPT !.version = <<To("x")>>, !.optional = <<Lit("true")>>], [A1 EXCEPT !.key = <<To("y")>>],
          [A1 EXCEPT !.key = <<Lit("b")>>, !.scope = <<Lit("test")>>], [A1 EXCEPT !.key = <<Lit("b")>>, !.scope = <<To("x")>>]}
Managed == {A1, [A1 EXCEPT !.version = <<To("y")>>, !.scope = <<Lit("test")>>], [A1 EXCEPT !.key = <<Lit("b")>>],
            [A1 EXCEPT !.key = <<Lit("c")>>, !.scope = <<Lit("import")>>], [A1 EXCEPT !.key = <<Lit("c")>>, !.scope = <<Lit("system")>>]}
AtMost1(set) == {<<>>} \cup {<<e>> : e \in set}
Property == {<<>>, Name("x") :> <<Lit("2")>>, Name("y") :> <<Lit("b")>>, Name("x") :> <<To("y")>>,
             Name("x") :> <<>>}
Content(props, deps, managed, repos) == [props |-> props, deps |-> deps, managed |-> managed, repos |-> repos]
Repository == [key |-> "r", url |-> <<Lit("h")>>]
ProfileContents ==
    {Content(p, <<>>, <<>>, r) : p \in Property, r \in {<<>>, <<Repository>>}}
    \cup {Content(<<>>, d, m, <<>>) : d \in AtMost1(Decls), m \in AtMost1(Managed)}
PomProperties == {<<>>, Name("x") :> <<>>, (Name("x") :> <<Lit("1")>>) @@ (Name("y") :> <<Lit("a")>>)}
PomContents ==
    {Content(p, d, m, <<>>) : p \in PomProperties, d \in AtMost1(Decls) \cup {<<e, A1>> : e \in Decls}, m \in AtMost1(Managed)}
    \cup {Content(p, <<>>, <<>>, <<[Repository EXCEPT !.url = <<To("y")>>]>>) : p \in PomProperties}
\* A declaration that is left out as written, and whose version expands to nothing.
HoldsEmptied(chain) ==
    \E d \in DeclaredIn({chain[i] : i \in 1..Len(chain)}, "deps") :
        /\ LeftOut(d)
        /\ Interpolate(d.version, [props |-> InheritedProps(chain), external |-> {}, build |-> <<>>, builtin |-> <<>>,
                                   system |-> <<>>, fields |-> <<>>]).out = <<>>
WithProfile(content, profile) == [profile |-> profile] @@ content

ManagedFields == [key : {"a"}, version : {NoText, <<Lit("1")>>}, scope : {NoText, <<Lit("2")>>}, exclusions : {{}, {"e"}}]
                 \cup [key : {"b"}, version : {<<Lit("3")>>}, scope : {NoText}, exclusions : {{"f"}}]

\* BOMs that import one another.
Bom(own, imports, valid, logs) == [own |-> own, imports |-> imports, valid |-> valid, logs |-> logs]
BomImports == {<<>>, <<"x">>, <<"y">>, <<"z">>, <<"z", "y">>, <<"x", "z">>, <<Refused, "x">>, <<"none">>}
BomSets == {("x" :> Bom(<<Entry("a", "u")>>, i, TRUE, l)) @@ ("y" :> Bom(<<Entry("a", "2"), Entry("b", "2")>>, j, v, FALSE))
              @@ ("z" :> Bom(<<Entry("b", "u")>>, k, TRUE, FALSE)) :
              i \in BomImports, j \in BomImports, k \in BomImports, l \in BOOLEAN, v \in BOOLEAN}
NothingKept == [b \in {"x", "y", "z", "none"} |-> <<>>]
Importer(imports) == Bom(<<Entry("c", "0")>>, imports, TRUE, FALSE)

Inputs ==
    \/ \E own \in Lists, ps \in [1..2 -> Lists] : in = [part |-> "repositories", own |-> own, profiles |-> ps]
    \/ \E t \in Trees, h \in BOOLEAN : in = [part |-> "parents", tree |-> t, inherit |-> h]
    \/ \E p \in LocalPoms, u \in Urls, v \in {<<>>, Name("x") :> <<"U">>} :
          in = [part |-> "trust", pom |-> p, url |-> u, user |-> v]
    \/ \E p \in PomContents, c \in ProfileContents, w \in {1, 2} :
          in = [part |-> "relevance", pom |-> p, profile |-> c, where |-> w]
    \/ \E b \in BomSets, f \in {<<"x">>, <<"z", "x">>}, s \in {<<"x">>, <<"y", "x">>}, c \in {"1", "2"} :
          in = [part |-> "imports", boms |-> b, first |-> f, second |-> s, ctxs |-> <<"1", c>>]
    \/ \E d \in ManagedFields, n \in 0..3 : \E e \in [1..n -> ManagedFields] :
          in = [part |-> "managed", dep |-> d, entries |-> e]
    \/ \E r \in Requests, p \in PomProfiles : in = [part |-> "profiles", request |-> r, profiles |-> p]
    \/ \E t \in Interpolated, m \in PropertyMaps, e \in SUBSET {Name("a"), Name("c")}, b \in BuildTexts :
          in = [part |-> "expand", text |-> t, scope |-> Scope(m, e, b)]
    \/ \E a, b \in VersionTexts : in = [part |-> "order", a |-> a, b |-> b]
    \/ \E s \in [1..3 -> FewVersionTexts] : in = [part |-> "sort", s |-> s]
    \/ \E t \in ReqTexts \cup UnionTexts : in = [part |-> "req", text |-> t]
    \/ \E v, f \in SnapshotVersions : in = [part |-> "stamp", version |-> v, file |-> f]
    \/ \E p \in Texts(Segments, 6) : in = [part |-> "coord", parts |-> p]
    \/ \E v \in Components : in = [part |-> "component", value |-> v]
    \/ \E c \in PurlCoords : in = [part |-> "purl", coord |-> c]

Result(i) ==
    CASE i.part = "order" -> [cmp |-> CmpText(i.a, i.b), back |-> CmpText(i.b, i.a),
                              hashes |-> <<Hash(ParseItems(i.a)), Hash(ParseItems(i.b))>>]
      [] i.part = "sort" -> [sorted |-> SortVersions(i.s)]
      [] i.part = "req" -> [req |-> ParseReq(i.text)]
      [] i.part = "stamp" -> [stamp |-> StampOfFile(i.version, i.file)]
      [] i.part = "coord" -> [coord |-> ParseCoord(i.parts), partial |-> ParsePartial(i.parts)]
      [] i.part = "component" -> [group |-> ValidComponent("group", i.value),
                                  version |-> ValidComponent("version", i.value)]
      [] i.part = "expand" -> [walk |-> Interpolate(i.text, i.scope)]
      [] i.part = "profiles" -> [w \in Worlds |-> SelectProfiles(i.request, w, i.profiles)]
      [] i.part = "repositories" -> [repos |-> InjectRepositories(i.own, i.profiles)]
      [] i.part = "parents" -> [chain |-> ParentChain(i.tree, i.inherit, "m"), accepted |-> AcceptedLocalParents(i.tree, "m")]
      [] i.part = "trust" -> [p \in FetchedPoms |-> [trusted |-> RepositoryTrusted(<<i.pom, p>>, i.user, i.url),
                                                    url |-> RepositoryUrl(<<i.pom, p>>, i.user, i.url)]]
      [] i.part = "relevance" ->
           LET empty == Content(<<>>, <<>>, <<>>, <<>>)
               parent == Content(Name("x") :> <<Lit("p")>>, <<[A1 EXCEPT !.optional = <<Lit("true")>>]>>, <<>>, <<>>)
               chain == IF i.where = 1 THEN <<WithProfile(i.pom, i.profile), WithProfile(parent, empty)>>
                        ELSE <<WithProfile(parent, empty), WithProfile(i.pom, i.profile)>>
               active == [chain EXCEPT ![i.where] = Inject(@, i.profile)]
           IN [role \in {"project", "dependency", "import"} |->
                 [relevant |-> IsRelevant(chain, role, i.profile),
                  emptied |-> HoldsEmptied(chain) \/ HoldsEmptied(active),
                  without |-> ResolutionView(chain, role), with |-> ResolutionView(active, role)]]
      [] i.part = "imports" ->
           LET one == ResolveImports(i.boms, i.ctxs[1], Importer(i.first), {}, 0, NothingKept)
           IN [kept |-> ResolveImports(i.boms, i.ctxs[2], Importer(i.second), {}, 0, one.cache),
               fresh |-> ResolveImports(i.boms, i.ctxs[2], Importer(i.second), {}, 0, NothingKept)]
      [] i.part = "managed" -> [dep |-> Manage(i.dep, ManagedIndex(i.entries))]
      [] i.part = "purl" -> [purl |-> MavenPurl(i.coord)]

Init == Inputs /\ out = <<>>
Evaluate == out = <<>> /\ out' = <<Result(in)>> /\ UNCHANGED in
Done == out # <<>> /\ UNCHANGED vars
Next == Evaluate \/ Done
Spec == Init /\ [][Next]_vars

Evaluated(part) == out # <<>> /\ in.part = part
Answer == out[1]

-----------------------------------------------------------------------------
(* Versions                                                                *)

(* Comparing two versions the other way round gives the opposite answer,   *)
(* and versions that compare equal hash alike (version.rs 136-179): what   *)
(* maps and sorts over versions rely on, although the order is not         *)
(* transitive.                                                             *)
OrderAndHashAgree ==
    Evaluated("order") =>
        /\ Answer.cmp = - Answer.back
        /\ Answer.cmp = 0 => Answer.hashes[1] = Answer.hashes[2]

(* Sorting keeps every version, orders any versions among which the order  *)
(* is transitive, and keeps equal ones in their order (version.rs 83-105). *)
SortIsStable ==
    Evaluated("sort") =>
        LET s == in.s
            t == Answer.sorted
            transitive == \A x, y, z \in ToSet(s) :
                            CmpText(x, y) <= 0 /\ CmpText(y, z) <= 0 => CmpText(x, z) <= 0
        IN \E p \in {f \in [1..3 -> 1..3] : IsInjective(f)} :
             /\ \A i \in 1..3 : t[i] = s[p[i]]
             /\ transitive => \A i, j \in 1..3 : i < j =>
                  \/ CmpText(t[i], t[j]) < 0
                  \/ CmpText(t[i], t[j]) = 0 /\ p[i] < p[j]

(* A requirement that parses is written so that it parses to itself again, *)
(* with the same variant (range.rs 109-129, 220-241).                      *)
RequirementRoundTrips ==
    Evaluated("req") /\ Answer.req # Error => ParseReq(DisplayReq(Answer.req)) = Answer.req

(* A hard pin, [x] or [x,y] with equal bounds, admits the version it names *)
(* (range.rs 87-108, 199-217) and, unless that equals 0, exactly the       *)
(* versions equal to it. 0 equals versions that do not equal each other,   *)
(* so a pin such as [0,alpha] or [alpha,0] admits only some of those, and  *)
(* nothing else.                                                           *)
HardPinAdmitsOne ==
    Evaluated("req") /\ Answer.req # Error /\ ExactVersion(Answer.req) # Unbounded =>
        LET pin == ExactVersion(Answer.req) IN
        /\ MatchesReq(Answer.req, pin)
        /\ \A v \in PinnedVersions :
              /\ MatchesReq(Answer.req, v) => Hash(ItemsOf(v)) = Hash(ItemsOf(pin))
              /\ ~IsZero(ItemsOf(pin)) => (MatchesReq(Answer.req, v) <=> CmpVersion(v, pin) = 0)

(* The stamp read from a file version rebuilds exactly that file version,  *)
(* whose base is the version it was resolved from wherever the file        *)
(* version still reads as a snapshot (snapshot.rs 124-134, 170-203).       *)
StampRebuildsFile ==
    Evaluated("stamp") /\ Answer.stamp # Error =>
        /\ ResolvedVersion(in.version, Answer.stamp) = in.file
        /\ IsSnapshotVersion(in.file) => SnapshotBase(in.file) = in.version

(* A coordinate and a partial one are written so that they parse to        *)
(* themselves, and a partial one matches the full one of its own text      *)
(* (coord.rs 57-70, 102-175).                                              *)
CoordinatesRoundTrip ==
    Evaluated("coord") =>
        /\ Answer.coord # Error => ParseCoord(DisplayCoord(Answer.coord)) = Answer.coord
        /\ Answer.partial # Error => ParsePartial(DisplayPartial(Answer.partial)) = Answer.partial
        /\ Answer.coord # Error => Answer.partial # Error /\ PartialMatches(Answer.partial, Answer.coord)

(* An accepted group names only proper directories, neither empty nor a    *)
(* way up, and every version a repository path may hold is one a reactor   *)
(* module may have (component.rs 128-229, layAnswer.rs 10-28).                *)
ComponentsStayInLayout ==
    Evaluated("component") =>
        /\ Answer.group => \A i \in 1..Len(GroupDirectories(in.value)) : GroupDirectories(in.value)[i] # <<>>
        /\ Answer.version => ValidReactorVersion(in.value)

(* The fast path for plain coordinates writes the package URL the encoder  *)
(* would (purl.rs 59-105).                                                 *)
PlainPurlIsCanonical ==
    Evaluated("purl") /\ Answer.purl # Error =>
        Answer.purl = EncodedPurl([in.coord EXCEPT !.packaging = KeptPackaging(@),
                                                !.classifier = IF @ = "" THEN None ELSE @])

-----------------------------------------------------------------------------
(* Interpolation                                                           *)

Walked == Answer.walk

(* Reusing the value of a property within one interpolation changes        *)
(* nothing: the text is the one that substituting every reference gives,   *)
(* and the interpolation is refused for a cycle exactly where substituting *)
(* would not end (properties.rs 83-108, 590-697).                          *)
InterpolationSubstitutes ==
    Evaluated("expand") =>
        LET meant == Substitute(in.text, in.scope, {})
        IN /\ Walked.err = "cycle" <=> ~meant.ok
           /\ Walked.err = "" => Walked.out = meant.value

(* A name kept as authored is one that is read whatever the values from    *)
(* outside are: an outside value never adds one (properties.rs 336-347,    *)
(* 553-573).                                                               *)
AuthoredNamesOnly ==
    Evaluated("expand") /\ Walked.err = "" =>
        LET blank == [in.scope EXCEPT !.props = [n \in DOMAIN @ |->
                         IF n \in in.scope.external THEN <<>> ELSE @[n]]]
            other == Interpolate(in.text, blank)
        IN other.err = "" => Walked.public \subseteq other.public

(* A name read and not kept as authored leaves the interpolation marked    *)
(* private, so that its recipe is recorded instead (properties.rs 413-445).*)
PrivateReadsMarked ==
    Evaluated("expand") /\ Walked.names # Walked.public => Walked.private

-----------------------------------------------------------------------------
(* Profiles                                                                *)

\* Two machines on which a set of reads came out alike.
Agree(w, v, inputs) == \A r \in inputs : Observed(in.request, w, r) = Observed(in.request, v, r)
RelevantProfiles == {i \in DOMAIN in.profiles : in.profiles[i].relevant}
ReadsOf(w) == UNION {Answer[w].reads[i] : i \in DOMAIN in.profiles}

(* What a model build counts as read decides which relevant profiles are   *)
(* active: on any machine where the recorded values and the outcomes of    *)
(* the recorded conditions are the same, the same ones are, although reads *)
(* behind the first condition that fails are dropped and texts with        *)
(* outside values are kept as expressions (activation.rs 446-506,          *)
(* project/profiles.rs 85-320, inheritance.rs 791-817).                    *)
RecordedReadsDecide ==
    Evaluated("profiles") =>
        \A w \in Worlds :
            LET counted == CountedReads(Answer[w], in.profiles)
            IN \A v \in Worlds :
                 Answer[w].ok /\ Answer[v].ok
                 /\ Answer[w].active \cap RelevantProfiles # Answer[v].active \cap RelevantProfiles
                    => ~Agree(w, v, counted)

(* A recorded condition is text of the POM alone: no user or settings      *)
(* property, environment variable or JDK version goes into it ("The text   *)
(* stays out of recorded conditions when it can contain those values",     *)
(* activation.rs 363-376).                                                 *)
ConditionsHoldNoOutsideValue ==
    Evaluated("profiles") =>
        \A w \in Worlds :
            LET bare == [w EXCEPT !.user = <<>>, !.settings = <<>>, !.system = <<>>, !.env = <<>>]
                written(text) == Expansion(in.request, bare, text).out
                a == in.profiles[1].activation
            IN \A r \in ReadsOf(w) :
                 /\ r.kind = "jdk" => r.name = written(a.jdk)
                 /\ r.kind = "property" => r.name = written(a.name) /\ r.value = written(a.value)
                 /\ r.kind = "file" => r.name \in {Align(in.request, written(t)) : t \in {a.exists, a.missing}}

\* The profiles listed as active that cannot change resolution.
ListedOnly(w) == ListedProfiles(Answer[w], in.profiles) \ RelevantProfiles
SameListedOn(worlds) ==
    \A w, v \in {x \in worlds : Answer[x].ok} :
        w.user = v.user /\ w.settings = v.settings => ListedOnly(w) = ListedOnly(v)

(* A profile that cannot change resolution is listed as active on every    *)
(* host or on none, given the same user and settings properties ("they are *)
(* the same on every host", inheritance.rs 783-785), where no condition's  *)
(* property name is made of an outside value: a host value that decides a  *)
(* profile is then among its reads (activation.rs 533-542).                *)
HostDecidesIsSound ==
    Evaluated("profiles") => SameListedOn({w \in Worlds : \A r \in ReadsOf(w) : r.kind = "userLookup" => r.fromHost})

-----------------------------------------------------------------------------
(* Lineage                                                                 *)

(* All active profiles' repositories put in at once are what Maven gets by *)
(* putting in one profile after another (inheritance.rs 905-938).          *)
RepositoriesAsOneByOne ==
    Evaluated("repositories") =>
        Answer.repos = FoldLeft(LAMBDA own, p : IF p = <<>> THEN own ELSE MergeRepositories(p, own), in.own, in.profiles)

(* Every local parent that inheritance reads is among the parents reported *)
(* as the lock's inputs (parent_resolver.rs 291-338: "no resolution result *)
(* can depend on a parent this walk did not report").                      *)
ParentsAllReported ==
    Evaluated("parents") /\ Answer.chain.err = "" => IsPrefix(Answer.chain.local, Answer.accepted)

(* A repository the project declares keeps its trust only if no POM that   *)
(* was downloaded chose any part of its URL: two such POMs under which it  *)
(* stays trusted give it one URL (inheritance.rs 445-619).                 *)
FetchedPomsChooseNoTrustedUrl ==
    Evaluated("trust") =>
        \A p, q \in {r \in FetchedPoms : Answer[r].trusted} : Answer[p].url.out = Answer[q].url.out

(* A profile that counts as irrelevant changes nothing that resolution is  *)
(* given, whatever the model is built for (relevance.rs 1-21, 207-238).    *)
(* The exception: left_out (449-467) looks at a version as written, so a   *)
(* profile that sets x to nothing, or is what gives x a value, goes        *)
(* unnoticed where a left-out declaration's version is ${x}; it decides    *)
(* whether the POM is valid, and changes nothing more.                     *)
IrrelevantProfilesChangeNothing ==
    Evaluated("relevance") =>
        \A role \in DOMAIN Answer : ~Answer[role].relevant =>
            \/ Answer[role].with = Answer[role].without
            \/ /\ Answer[role].emptied
               /\ Answer[role].with.valid # Answer[role].without.valid
               /\ \A field \in {"managed", "repos"} : Answer[role].with[field] = Answer[role].without[field]

(* An imported BOM that is kept for later importers is used only where     *)
(* building it again gives the same: the same management, or the same      *)
(* failure on a cycle or on too deep a nesting (project/bom.rs 69-85).     *)
KeptImportsAreTransparent ==
    Evaluated("imports") =>
        /\ Answer.kept.fatal = Answer.fresh.fatal
        /\ ~Answer.fresh.fatal => Answer.kept.invalid = Answer.fresh.invalid
        /\ ~Answer.fresh.fatal /\ ~Answer.fresh.invalid => Answer.kept.mgmt = Answer.fresh.mgmt

(* Managing a dependency through the index is applying every entry of its  *)
(* key in turn, as Maven does (project/dep_management.rs 192-275).         *)
IndexAppliesInTurn ==
    Evaluated("managed") =>
        Answer.dep = FoldLeft(LAMBDA d, m : IF m.key = d.key THEN ApplyManaged(d, m) ELSE d, in.dep, in.entries)

-----------------------------------------------------------------------------


(* Interpolation and activation: what they give, and what they record as   *)
(* having decided it.                                                      *)
ReadsDecide ==
    /\ InterpolationSubstitutes /\ AuthoredNamesOnly /\ PrivateReadsMarked
    /\ RecordedReadsDecide /\ ConditionsHoldNoOutsideValue /\ HostDecidesIsSound

=============================================================================

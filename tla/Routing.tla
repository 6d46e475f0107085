------------------------------- MODULE Routing -------------------------------
(***************************************************************************)
(* Where a repository's requests go and what credential they carry: the    *)
(* choice of a mirror (rv-repo/src/mirror.rs), the route                   *)
(* (routing.rs), the lookup of a credential (auth.rs), what a declared     *)
(* repository may do (policy.rs) and the merge of the policies of several  *)
(* declarations of one URL (repository.rs).                                *)
(*                                                                         *)
(* A project declares repositories one at a time; requests are routed in   *)
(* between.  A URL is its origin; an origin is a record of its scheme and  *)
(* its host.                                                               *)
(***************************************************************************)
EXTENDS Naturals, Sequences, SequencesExt, FiniteSets

CONSTANTS
    Setup,   \* the configurations to start from
    MaxSent, \* bound on the requests looked at together
    NoId     \* the id of a repository, mirror or credential without one

VARIABLES
    setup,     \* configuration: repositories, mirrors, credentials
    named,     \* NamedOrigins: origins a fetched POM's id credential may reach
    admitted,  \* the repositories the project uses so far
    sent       \* the requests made: their scope, endpoint and credential

routingVars == <<setup, named, admitted, sent>>

Http(o) == o.scheme \in {"http", "https"}
Local(o) == o.host = "localhost"

\* is_external_repo and is_external_http_repo.
External(o) == ~Local(o) /\ o.scheme # "file"
ExternalHttp(o) == o.scheme = "http" /\ ~Local(o)

-----------------------------------------------------------------------------
(* mirror.rs                                                               *)

\* match_pattern: the entries in order; the first that names the repository,
\* excluding it or not, decides, and a wildcard matches unless a later entry
\* excludes.
MatchPattern(repo, of) ==
    LET Step(seen, e) ==
            IF seen.decided THEN seen
            ELSE CASE e.kind = "not" /\ e.id = repo.id -> [decided |-> TRUE, matched |-> FALSE]
                   [] e.kind = "id" /\ e.id = repo.id -> [decided |-> TRUE, matched |-> TRUE]
                   [] \/ e.kind = "*"
                      \/ e.kind = "external" /\ External(repo.url)
                      \/ e.kind = "external:http" /\ ExternalHttp(repo.url) ->
                            [seen EXCEPT !.matched = TRUE]
                   [] OTHER -> seen
    IN FoldLeft(Step, [decided |-> FALSE, matched |-> FALSE], of).matched

\* matching_mirror: a mirror whose whole mirrorOf is the id wins; then the
\* first whose pattern matches; either must serve the default layout.
MatchingMirror(mirrors, repo) ==
    LET First(ok(_)) == {n \in DOMAIN mirrors : ok(mirrors[n]) /\ \A m \in 1..(n - 1) : ~ok(mirrors[m])}
        exact == First(LAMBDA m : m.layout /\ m.of = <<[kind |-> "id", id |-> repo.id]>>)
    IN IF exact # {} THEN exact
       ELSE First(LAMBDA m : m.layout /\ MatchPattern(repo, m.of))

\* resolve_mirror_impl: a mirror changes the endpoint, not the policies; it
\* takes the repository's id only without one of its own on the same origin.
ResolveMirror(repo) ==
    LET hit == MatchingMirror(setup.mirrors, repo) IN
    IF hit = {} THEN [endpoint |-> repo, blocked |-> FALSE, hostChanged |-> FALSE]
    ELSE LET m == setup.mirrors[CHOOSE n \in hit : TRUE]
             changed == m.url # repo.url
         IN [endpoint |-> [repo EXCEPT !.url = m.url,
                              !.id = IF m.id = NoId /\ ~changed THEN repo.id ELSE m.id],
             blocked |-> m.blocked, hostChanged |-> changed]

-----------------------------------------------------------------------------
(* routing.rs                                                              *)

\* ForeignMirrors: mirrors on an origin no configured repository shares.
ForeignMirrors ==
    {m.url : m \in ToSet(setup.mirrors)} \ {r.url : r \in ToSet(setup.repositories)}

\* Mutant: only the mirror chosen for the repository counts as foreign.
RouteByHost(repo) ==
    LET to == ResolveMirror(repo) IN
    [endpoint |-> to.endpoint, blocked |-> to.blocked, crossOrigin |-> to.hostChanged,
     scope |-> <<repo.url, to.endpoint.url, to.endpoint.id>>]

\* Router::route, with cache_scope_key.
Route(repo) ==
    LET to == ResolveMirror(repo) IN
    [endpoint |-> to.endpoint, blocked |-> to.blocked,
     crossOrigin |-> to.hostChanged \/ to.endpoint.url \in ForeignMirrors,
     scope |-> <<repo.url, to.endpoint.url, to.endpoint.id>>]

-----------------------------------------------------------------------------
(* auth.rs                                                                 *)

\* complete_scheme: a token, or a user with a password; anything else that
\* is filled in part is an error.
CompleteScheme(entry) ==
    IF "token" \in entry.fields \/ {"username", "password"} \subseteq entry.fields
    THEN [credential |-> entry] ELSE [error |-> "incomplete"]

\* withholds_id_credential: a fetched POM's repository on an origin nothing
\* of the user's or the project's own names.
WithholdsId(repo) ==
    repo.provenance = "FetchedPom" /\ ~(Http(repo.url) /\ repo.url \in named)

UserOrigins == {r.url : r \in {x \in ToSet(setup.repositories) : x.user}}
                 \cup {m.url : m \in {x \in ToSet(setup.mirrors) : x.user}}

\* withholds_default_credential: an origin the user's own files do not name.
WithholdsDefault(repo) == ~(Http(repo.url) /\ repo.url \in UserOrigins)

FirstEntry(Ok(_)) ==
    SelectSeq(setup.auth, Ok)

\* lookup_auth: the first filled entry with the repository's id, over the
\* files in order; then, unless the endpoint is a mirror on another origin
\* or not the user's, the first entry without an id.
LookupAuth(repo, hostChanged) ==
    LET byId == FirstEntry(LAMBDA e : repo.id # NoId /\ e.id = repo.id /\ e.fields # {})
        default == FirstEntry(LAMBDA e : e.id = NoId)
    IN CASE byId # <<>> /\ WithholdsId(repo) -> [none |-> TRUE]
         [] byId # <<>> /\ ~WithholdsId(repo) -> CompleteScheme(byId[1])
         [] byId = <<>> /\ (hostChanged \/ WithholdsDefault(repo) \/ default = <<>>) ->
                [none |-> TRUE]
         [] OTHER -> CompleteScheme(default[1])

-----------------------------------------------------------------------------
(* policy.rs and repository.rs                                             *)

\* http_repository_blocked: plain HTTP of a POM, unless the user configured
\* the URL or a mirror of it.
HttpBlocked(repo) ==
    /\ ExternalHttp(repo.url)
    /\ repo.url \notin {r.url : r \in ToSet(setup.repositories)}
    /\ MatchingMirror(setup.mirrors, repo) = {}

AllowsTransitive(o) == o \in setup.transitive

\* screen_with: which declarations are used, and with what provenance.
Screen(repo, from) ==
    LET r == [repo EXCEPT !.provenance = IF from = "LocalPom" THEN "LocalPom" ELSE "FetchedPom"]
        verdict ==
            CASE repo.secret -> "secret_urls"
              [] ~repo.secret /\ HttpBlocked(r) -> "blocked_http"
              [] ~repo.secret /\ ~HttpBlocked(r) /\
                   \/ from = "LocalPom"
                   \/ from = "RemoteParent" /\ Http(r.url)
                   \/ from = "Transitive" /\ AllowsTransitive(r.url) -> "admitted"
              [] OTHER -> "dropped"
    IN [repo |-> r, verdict |-> verdict]

Strictness(p) == CASE p \in {"warn", "ignore"} -> 0 [] p = "fail" -> 1 [] OTHER -> 2

\* merge_policies: the stricter wins; another declaration's unsupported
\* policy counts as fail where it may not refuse the repository.
MergePolicies(mine, theirs, keepUnsupported) ==
    LET Stricter(a, b) ==
            LET c == IF b = "unsupported" /\ ~keepUnsupported THEN "fail" ELSE b
            IN IF Strictness(c) > Strictness(a) THEN c ELSE a
    IN [mine EXCEPT !.releases = Stricter(mine.releases, theirs.releases),
                    !.snapshots = Stricter(mine.snapshots, theirs.snapshots)]

\* The declarations of one URL and id that the project uses are one; the
\* first is kept, with the strictest checksum policies.
Admit(repo, from) ==
    LET s == Screen(repo, from)
        same == {r \in admitted : r.url = s.repo.url /\ r.id = s.repo.id}
        merged(r) == MergePolicies(r, s.repo, from # "Transitive")
    IN /\ s.verdict = "admitted"
       /\ admitted' = IF same = {} THEN admitted \cup {s.repo}
                      ELSE (admitted \ same) \cup {merged(r) : r \in same}
       /\ named' = IF s.repo.provenance = "LocalPom" /\ Http(s.repo.url)
                   THEN named \cup {s.repo.url} ELSE named
       /\ UNCHANGED <<setup, sent>>

Refuse(repo, from) ==
    /\ Screen(repo, from).verdict # "admitted"
    /\ UNCHANGED routingVars

\* A request for an admitted repository: a blocked mirror refuses it.
SendRequest(repo) ==
    LET to == Route(repo)
        auth == LookupAuth(to.endpoint, to.crossOrigin)
    IN /\ repo \in admitted /\ Cardinality(sent) < MaxSent
       /\ ~to.blocked /\ "error" \notin DOMAIN auth
       /\ sent' = sent \cup {[repo |-> repo, to |-> to, auth |-> auth, named |-> named]}
       /\ UNCHANGED <<setup, named, admitted>>

RoutingInit ==
    /\ setup \in Setup
    /\ named = {o \in {r.url : r \in ToSet(setup.repositories)}
                        \cup {m.url : m \in ToSet(setup.mirrors)}
                        \cup UserOrigins \cup setup.transitive : Http(o)}
    /\ admitted = ToSet(setup.repositories)
    /\ sent = {}

RoutingNext ==
    \/ \E d \in setup.declared : Admit(d[1], d[2]) \/ Refuse(d[1], d[2])
    \/ \E r \in admitted : SendRequest(r)

-----------------------------------------------------------------------------

RoutingTypeOK ==
    /\ \A r \in admitted : /\ r.provenance \in {"Configured", "LocalPom", "FetchedPom"}
                           /\ Strictness(r.releases) \in 0..2
    /\ \A s \in sent : s.repo.url \in {r.url : r \in admitted}

Carries(s, id) == "credential" \in DOMAIN s.auth /\ s.auth.credential.id = id

\* A credential with an id goes where the user paired that id: to the
\* declared repository of that id on its own origin, or to a mirror that has
\* the id itself; and for a repository of a fetched POM only to an origin
\* the configuration or the project's own POMs name (mirror.rs 83-92,
\* auth.rs 390-425).
IdCredentialStaysPaired ==
    \A s \in sent : \A e \in ToSet(setup.auth) :
        e.id # NoId /\ Carries(s, e.id) =>
            /\ \/ s.repo.id = e.id /\ s.to.endpoint.url = s.repo.url
               \/ \E m \in ToSet(setup.mirrors) : m.id = e.id /\ m.url = s.to.endpoint.url
            /\ s.repo.provenance = "FetchedPom" => s.to.endpoint.url \in s.named

\* The credential without an id reaches only an origin that the user's own
\* files name, and never a mirror on another origin than the repository it
\* replaces, also when the repository's own URL is such a mirror's
\* (routing.rs 15-26, 158-172; auth.rs 427-455).
DefaultCredentialStaysHome ==
    \A s \in sent :
        Carries(s, NoId) =>
            /\ s.to.endpoint.url \in UserOrigins
            /\ s.to.endpoint.url = s.repo.url
            /\ \/ s.repo.url \in {r.url : r \in ToSet(setup.repositories)}
               \/ s.repo.url \notin {m.url : m \in ToSet(setup.mirrors)}

\* Two requests under one cache scope and the same named origins carry the
\* same credential, so a cached answer never stands in for one that another
\* credential would have got (routing.rs 27-32).
ScopeKeepsCredentialsApart ==
    \A s, t \in sent :
        s.to.scope = t.to.scope /\ s.named = t.named => s.auth = t.auth

\* match_pattern, entry by entry, agrees with Maven's rule: the first entry
\* naming the repository decides; without one, any wildcard that covers its
\* URL matches (mirror.rs 134-163).
MirrorPatternMeaning ==
    \A m \in ToSet(setup.mirrors), r \in admitted :
        LET naming == {n \in DOMAIN m.of : m.of[n].kind \in {"id", "not"} /\ m.of[n].id = r.id}
            covers(e) == \/ e.kind = "*"
                         \/ e.kind = "external" /\ External(r.url)
                         \/ e.kind = "external:http" /\ ExternalHttp(r.url)
        IN MatchPattern(r, m.of) =
              IF naming # {} THEN \E n \in naming : /\ \A k \in naming : n <= k
                                                   /\ m.of[n].kind = "id"
              ELSE \E e \in ToSet(m.of) : covers(e)

\* Which credential a routed request carries, and to which mirror it goes.
CredentialsStayHome ==
    IdCredentialStaysPaired /\ DefaultCredentialStaysHome /\ ScopeKeepsCredentialsApart /\ MirrorPatternMeaning
=============================================================================

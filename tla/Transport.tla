------------------------------ MODULE Transport ------------------------------
(***************************************************************************)
(* Which connections a repository request may make: the choice of an HTTP  *)
(* client by the request's origin (rv-repo/src/transport/mod.rs), the      *)
(* redirect policy and the address screen of each client                   *)
(* (transport/guard.rs) and the choice of a proxy (proxy.rs), while the    *)
(* grants a resolution makes (policy.rs, transport/mod.rs) arrive between  *)
(* a request's steps.                                                      *)
(*                                                                         *)
(* A URL is its origin: a scheme, a host and a port.  A host is a name,    *)
(* which a resolver turns into addresses when the connection is made, or   *)
(* an IP literal, which no resolver sees.                                  *)
(***************************************************************************)
EXTENDS Naturals, Sequences

CONSTANTS
    Network,          \* the configurations and networks to start from
    MaxRedirectHops,  \* MAX_REDIRECT_HOPS
    MaxChain          \* bound on the redirects a server sends

\* What is configured and what a resolution may grant are URLs a request may
\* name too.
ASSUME NetworkAssumption ==
    \A n \in Network : n.configured \subseteq n.urls /\ n.grants \subseteq n.urls \X BOOLEAN

VARIABLES
    net,             \* what is configured and what the network holds
    trustedHosts,    \* TrustedHosts: read by the runtime client's resolver
    trustedOrigins,  \* TrustedOrigins: decides which client a request uses
    rootIssuers,     \* RootRedirectClients: origins that may redirect once
    grant,           \* the grant being made
    send             \* the request: its client, its URLs so far, its end

transportVars == <<net, trustedHosts, trustedOrigins, rootIssuers, grant, send>>

Https(u) == u.scheme = "https"
Literal(u) == u.host \in net.literals
Here(s) == s.urls[Len(s.urls)]

-----------------------------------------------------------------------------
(* proxy.rs                                                                *)

\* Route::carries: the proxy's protocol selects the scheme, and neither
\* nonProxyHosts nor NO_PROXY sends the host direct.
ProxyCarries(p, scheme, u) ==
    /\ p.protocol \in {scheme, "all"}
    /\ u.host \notin p.bypass

\* Routes::select: the first proxy of the URL's scheme; for https without
\* one, the first http proxy that is not HTTP_PROXY.
SelectProxy(u) ==
    LET first(scheme, ok(_)) ==
            {n \in DOMAIN net.proxies :
                /\ ProxyCarries(net.proxies[n], scheme, u) /\ ok(net.proxies[n])
                /\ \A m \in 1..(n - 1) : ~(/\ ProxyCarries(net.proxies[m], scheme, u)
                                           /\ ok(net.proxies[m]))}
        own == first(u.scheme, LAMBDA p : TRUE)
    IN IF own # {} \/ ~Https(u) THEN own
       ELSE first("http", LAMBDA p : ~p.environment)

Carried(u) == SelectProxy(u) # {}
ProxyHosts == {net.proxies[n].host : n \in DOMAIN net.proxies}

-----------------------------------------------------------------------------
(* The frozen sets and the clients                                         *)

\* redirect_guard: repositories and mirrors are the origins a redirect may be
\* granted; their hosts and the proxies' are exempt from the address screen.
ConfiguredHosts == ProxyHosts \cup {u.host : u \in net.configured}

\* The hosts a client's resolver waves through, read when it resolves.
ExemptHosts(client) ==
    CASE client.kind = "configured" -> ConfiguredHosts
      [] client.kind = "root" -> ConfiguredHosts \cup {client.origin.host}
      [] client.kind = "runtime" -> trustedHosts
      [] client.kind = "screened" -> ProxyHosts
      [] OTHER -> {}

\* The clients whose redirect policy has an origin that may redirect.
Issuers(client) ==
    CASE client.kind = "configured" -> net.configured
      [] client.kind = "root" -> net.configured \cup {client.origin}
      [] OTHER -> {}

\* The origins a redirect of the client may name whatever their address.
RedirectOrigins(client) ==
    IF client.kind \in {"configured", "root"} THEN net.configured ELSE {}

\* The direct client has no proxies.
UsesProxy(client, u) == client.kind # "direct" /\ Carried(u)

LoopbackName(u) == Carried(u) /\ u.host \in net.loopback

\* ClientSet::client_for, past the root issuers: a private literal, or a
\* localhost name that a proxy would resolve, is refused when its origin is
\* not trusted; the origin then picks the client.
ClientFor(u) ==
    LET trusted == u \in trustedOrigins IN
    IF ~trusted /\ ((Literal(u) /\ u.host \in net.private) \/ LoopbackName(u)) THEN "refused"
    ELSE IF u \in net.configured THEN "configured"
    ELSE IF trusted THEN "runtime"
    ELSE IF u.host \in ProxyHosts /\ ~Carried(u) THEN "direct"
    ELSE "screened"

-----------------------------------------------------------------------------
(* The redirect policy                                                     *)

\* RedirectGuard::screen_target: a literal must be public or configured; a
\* name must be configured when a proxy would resolve it or when the resolver
\* would wave it through.
ScreenTarget(client, target) ==
    \/ target \in RedirectOrigins(client)
    \/ Literal(target) /\ target.host \notin net.private
    \/ /\ ~Literal(target) /\ ~UsesProxy(client, target)
       /\ target.host \notin ExemptHosts(client)

Crossed(urls) == \E n \in 1..(Len(urls) - 1) : urls[n] # urls[n + 1]

\* Mutant: every hop may cross from a trusted origin.
EvaluateEachHop(client, urls, target) ==
    LET issuer == urls[Len(urls)] IN
    /\ Len(urls) < MaxRedirectHops
    /\ \/ issuer = target
       \/ /\ issuer \in Issuers(client)
          /\ Https(issuer) /\ Https(target)
          /\ ScreenTarget(client, target)

\* RedirectGuard::evaluate: within the issuer's origin, or once across from a
\* trusted https origin to a screened https target.
Evaluate(client, urls, target) ==
    LET issuer == urls[Len(urls)] IN
    /\ Len(urls) < MaxRedirectHops
    /\ \/ issuer = target
       \/ /\ ~Crossed(urls)
          /\ issuer \in Issuers(client)
          /\ Https(issuer) /\ Https(target)
          /\ ScreenTarget(client, target)

-----------------------------------------------------------------------------
(* A request                                                               *)

Unsent == [pc |-> "idle", urls |-> <<>>, client |-> [kind |-> "none"],
           reached |-> {}, sawTrust |-> FALSE]

TransportInit ==
    /\ net \in Network
    /\ trustedHosts = ConfiguredHosts
    /\ trustedOrigins = net.configured
    /\ rootIssuers = {}
    /\ grant = [pc |-> "idle", left |-> net.grants]
    /\ send = Unsent

\* client_for looks for a root issuer's client first.
ChooseRoot(u) ==
    /\ send.pc = "idle"
    /\ send' = IF u \in rootIssuers
               THEN [send EXCEPT !.pc = "connect", !.urls = <<u>>,
                                 !.client = [kind |-> "root", origin |-> u]]
               ELSE [send EXCEPT !.pc = "choose", !.urls = <<u>>]
    /\ UNCHANGED <<net, trustedHosts, trustedOrigins, rootIssuers, grant>>

Choose ==
    LET kind == ClientFor(Here(send)) IN
    /\ send.pc = "choose"
    /\ send' = [send EXCEPT !.pc = IF kind = "refused" THEN "ended" ELSE "connect",
                            !.client = [kind |-> kind],
                            !.sawTrust = Here(send) \in trustedOrigins]
    /\ UNCHANGED <<net, trustedHosts, trustedOrigins, rootIssuers, grant>>

\* The connection: through the proxy's host, straight to a literal, or to
\* what the resolver lets through.  The resolver refuses the whole answer
\* when one address is private and the host is not exempt.
Connect ==
    LET u == Here(send)
        byProxy == UsesProxy(send.client, u)
        dialed == IF byProxy THEN {net.proxies[n].host : n \in SelectProxy(u)} ELSE {u.host}
    IN /\ send.pc = "connect"
       /\ \E host \in dialed, at \in {"public", "private"} :
            /\ at = "private" => host \in net.private
            /\ at = "public" => host \in net.public
            /\ IF /\ at = "private" /\ host \notin net.literals
                  /\ host \notin ExemptHosts(send.client)
               THEN send' = [send EXCEPT !.pc = "screened"]
               ELSE send' = [send EXCEPT !.pc = "connected",
                        !.reached = @ \cup {[url |-> u, at |-> at, proxied |-> byProxy]}]
       /\ UNCHANGED <<net, trustedHosts, trustedOrigins, rootIssuers, grant>>

\* The server redirects; the client's policy follows or refuses.
Redirect(target) ==
    /\ send.pc = "connected" /\ Len(send.urls) < MaxChain
    /\ send' = IF Evaluate(send.client, send.urls, target)
               THEN [send EXCEPT !.pc = "connect", !.urls = Append(@, target)]
               ELSE [send EXCEPT !.pc = "ended"]
    /\ UNCHANGED <<net, trustedHosts, trustedOrigins, rootIssuers, grant>>

Respond ==
    /\ send.pc = "connected"
    /\ send' = [send EXCEPT !.pc = "ended"]
    /\ UNCHANGED <<net, trustedHosts, trustedOrigins, rootIssuers, grant>>

-----------------------------------------------------------------------------
(* Grants, made while requests run                                         *)

\* RepositoryPolicy::grant begins: Grants::exempt adds the host first.
GrantHost(u, fetched) ==
    /\ grant.pc = "idle" /\ <<u, fetched>> \in grant.left
    /\ trustedHosts' = trustedHosts \cup {u.host}
    /\ grant' = [pc |-> "origin", url |-> u, fetched |-> fetched,
                 left |-> grant.left \ {<<u, fetched>>}]
    /\ UNCHANGED <<net, trustedOrigins, rootIssuers, send>>

GrantOrigin ==
    /\ grant.pc = "origin"
    /\ trustedOrigins' = trustedOrigins \cup {grant.url}
    /\ grant' = [grant EXCEPT !.pc = IF grant.fetched THEN "idle" ELSE "issuer"]
    /\ UNCHANGED <<net, trustedHosts, rootIssuers, send>>

\* A declaration of the project's own POMs may also redirect once.
AuthorizeIssuer ==
    /\ grant.pc = "issuer"
    /\ rootIssuers' = rootIssuers \cup {grant.url}
    /\ grant' = [grant EXCEPT !.pc = "idle"]
    /\ UNCHANGED <<net, trustedHosts, trustedOrigins, send>>

TransportNext ==
    \/ \E u \in net.urls : ChooseRoot(u) \/ Redirect(u)
    \/ Choose
    \/ Connect
    \/ Respond
    \/ \E g \in grant.left : GrantHost(g[1], g[2])
    \/ GrantOrigin
    \/ AuthorizeIssuer

TransportSpec == TransportInit /\ [][TransportNext]_transportVars

-----------------------------------------------------------------------------

TransportTypeOK ==
    /\ trustedOrigins \subseteq net.urls /\ rootIssuers \subseteq net.urls
    /\ send.pc \in {"idle", "choose", "connect", "connected", "screened", "ended"}
    /\ grant.pc \in {"idle", "origin", "issuer"}
    /\ send.client.kind \in {"none", "refused", "configured", "root", "runtime",
                             "screened", "direct"}

First == send.urls[1]

\* A direct connection to a private address is made only to a configured
\* origin or, for the request's own URL, to an origin granted by then: no
\* redirect reaches a private host the user did not configure, whatever
\* grants arrive between the policy's decision and the connection
\* (guard.rs 54-64, 92-108, 360-414; transport/mod.rs 182-236).
PrivateOnlyWhereNamed ==
    \A c \in send.reached :
        c.at = "private" /\ ~c.proxied =>
            \/ c.url \in net.configured
            \/ c.url = First /\ c.url \in trustedOrigins \cup rootIssuers

\* A proxy is handed the name of a redirect's cross-origin target only when
\* that origin is configured; an address it is handed is configured or public
\* (guard.rs 253-268, 360-394).
ProxiedRedirectsConfigured ==
    \A c \in send.reached :
        c.proxied /\ c.url # First =>
            c.url \in net.configured \/ (Literal(c.url) /\ c.url.host \notin net.private)

\* A request that saw its origin trusted is not refused by the address
\* screen of the client it got: the grant adds the host before the origin
\* (transport/mod.rs 339-364).
GrantHonoured ==
    send.pc = "screened" /\ Len(send.urls) = 1 /\ send.client.kind = "runtime" =>
        ~send.sawTrust

\* A chain of redirects leaves its first origin once at most, from https to
\* https, and only from an origin the user or the project's own POMs name
\* (guard.rs 284-358).
OneTrustedCrossing ==
    \A n \in 1..(Len(send.urls) - 1) :
        send.urls[n] # send.urls[n + 1] =>
            /\ send.urls[n] = First
            /\ First \in net.configured \cup rootIssuers
            /\ Https(send.urls[n]) /\ Https(send.urls[n + 1])
            /\ \A m \in (n + 1)..Len(send.urls) : send.urls[m] = send.urls[n + 1]

\* Where a request and the redirects it follows may lead.
ConnectionsTrusted == PrivateOnlyWhereNamed /\ ProxiedRedirectsConfigured /\ GrantHonoured /\ OneTrustedCrossing
=============================================================================

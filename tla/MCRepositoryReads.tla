--------------------------- MODULE MCRepositoryReads ---------------------------
(***************************************************************************)
(* The requests to one server (HttpRetry), the reads of one POM            *)
(* (ModelReads) and the fetches of one artifact (ArtifactReads).  The      *)
(* three share no state, so each starts while the calls of the other two   *)
(* have ended: their states add up and do not multiply.                    *)
(***************************************************************************)
EXTENDS HttpRetry, ModelReads, ArtifactReads, TLC

CONSTANTS r1, r2, r3, b1, b2

\* A read_pom call: whether it uses the POM or prefetches it, whether it
\* requires checksums, and the pin it gives or the lock has.
Read(use, require, given, pin) == [use |-> use, require |-> require, given |-> given, pin |-> pin]
Use == Read(TRUE, TRUE, FALSE, None)
Lenient == Read(TRUE, FALSE, FALSE, None)
Prefetch == Read(FALSE, TRUE, FALSE, None)
Locked(pin) == Read(TRUE, TRUE, FALSE, pin)
Given(pin) == Read(TRUE, TRUE, TRUE, pin)

Case(a, b, c) ==
    [who |-> (r1 :> a @@ r2 :> b @@ r3 :> c), active |-> Reader, fixed |-> TRUE, ttl |-> TRUE,
     offline |-> FALSE, update |-> FALSE, served |-> {}, cached |-> {}, origins |-> 0, damage |-> 0]

Pair(a, b) == [Case(a, b, b) EXCEPT !.active = {r1, r2}]

ModelCases ==
    {Case(Use, Use, Use),
     Case(Prefetch, Use, Use),
     [Pair(Lenient, Use) EXCEPT !.cached = {b2}],
     [Pair(Lenient, Locked(b1)) EXCEPT !.cached = {b2}],
     [Pair(Use, Locked(b1)) EXCEPT !.cached = {b2}],
     [Case(Use, Given(b1), Given(b1)) EXCEPT !.fixed = FALSE, !.ttl = FALSE],
     [Pair(Use, Prefetch) EXCEPT !.update = TRUE, !.fixed = FALSE, !.cached = {b1}],
     [Case(Use, Lenient, Prefetch) EXCEPT !.offline = TRUE, !.cached = {b1, b2}],
     [Pair(Use, Given(b1)) EXCEPT !.cached = {b1}, !.damage = 1],
     [Pair(Prefetch, Prefetch) EXCEPT !.who = (r1 :> Prefetch @@ r2 :> Read(FALSE, TRUE, TRUE, b1) @@ r3 :> Use)],
     [Pair(Use, Lenient) EXCEPT !.origins = 1],
     [Pair(Use, Locked(b1)) EXCEPT !.origins = 1, !.served = {r2}]}

Ask(prefetch, pin) == [prefetch |-> prefetch, pin |-> pin]

Plan(a, b, c, require, update, lockPin, alike) ==
    [asks |-> (r1 :> a @@ r2 :> b @@ r3 :> c), require |-> require, update |-> update,
     lockPin |-> lockPin, alike |-> alike]

Plain == Ask(FALSE, NoBlob)

ArtifactPlans ==
    {Plan(Ask(TRUE, NoBlob), Plain, Plain, q, FALSE, NoBlob, TRUE) : q \in BOOLEAN}
    \cup {Plan(Plain, Ask(FALSE, b1), Plain, q, u, l, FALSE) :
             q \in BOOLEAN, u \in BOOLEAN, l \in {NoBlob, b1}}

RequestsEnded == \A r \in Request : req[r].at \in {"ok", "failed"}
ReadsEnded == \A r \in Reader : Done(r)
FetchesEnded == \A t \in Task : task[t].at = "done"

NoRequests ==
    /\ cooldown = [until |-> 0, unresolvable |-> FALSE]
    /\ req = [r \in Request |-> [Fresh EXCEPT !.at = "ok"]]

NoReads ==
    /\ env = [Case(Use, Use, Use) EXCEPT !.active = {}]
    /\ row = None /\ misses = None /\ named = 0 /\ generation = 0
    /\ memo = [k \in Keys |-> None] /\ held = memo /\ inflight = memo
    /\ cell = [r \in Reader |-> [state |-> "unused", bytes |-> None, how |-> None]]
    /\ kept = [g \in 0..MaxGeneration |-> None]
    /\ rd = [r \in Reader |-> [Idle EXCEPT !.at = "done"]]
    /\ stats = [downloads |-> [k \in Keys |-> 0], emitted |-> [k \in Keys |-> 0],
                trouble |-> FALSE, damage |-> 0]

NoFetches ==
    /\ plan = Plan(Plain, Plain, Plain, FALSE, FALSE, NoBlob, TRUE)
    /\ prefetched = [state |-> "taken", blob |-> NoBlob, probe |-> "unasked"]
    /\ fetched = [state |-> "empty", blob |-> NoBlob, verified |-> FALSE]
    /\ absent = TRUE /\ store = {} /\ index = {}
    /\ task = [t \in Task |-> [NewTask EXCEPT !.at = "done", !.result = "NotFound"]]
    /\ asked = [downloads |-> 0, trouble |-> TRUE]

vars == <<retryVars, modelVars, artifactVars>>

Init ==
    \/ RetryInit /\ NoReads /\ NoFetches
    \/ ModelInit /\ NoRequests /\ NoFetches
    \/ ArtifactInit /\ NoRequests /\ NoReads

Ended == RequestsEnded /\ ReadsEnded /\ FetchesEnded /\ UNCHANGED vars

Next ==
    \/ RetryNext /\ UNCHANGED <<modelVars, artifactVars>>
    \/ ModelNext /\ UNCHANGED <<retryVars, artifactVars>>
    \/ ArtifactNext /\ UNCHANGED <<retryVars, modelVars>>
    \/ Ended

Spec == Init /\ [][Next]_vars /\ RetryFairness /\ ModelFairness /\ ArtifactFairness

TypeOK == RetryTypeOK /\ ModelTypeOK /\ ArtifactTypeOK

(* Where nothing goes wrong and all ask for the same, one download serves  *)
(* every reader and every fetch (metadata_cache.rs, prefetch.rs).          *)
DownloadsShared == SharedDownload /\ OneDownload

(* Every request, every read and every fetch ends.                         *)
ReadsEnd == RequestEnds /\ ReadEnds /\ CallEnds
=============================================================================

----------------------------- MODULE HttpRetry -----------------------------
(***************************************************************************)
(* rv-http/src/retry.rs, transient.rs and the request half of              *)
(* rv-repo/src/fetch.rs and error.rs: how the answer to one attempt is     *)
(* classified, and the one retry rule, run by the concurrent requests to   *)
(* one server that share its Cooldown.                                     *)
(*                                                                         *)
(* Times are whole units and count down: `until` is how long the cooldown  *)
(* still holds requests back, `sleep` how long a request still sleeps.     *)
(***************************************************************************)
EXTENDS Integers, FiniteSets

CONSTANTS
    Request,        \* the requests to the server
    Retries,        \* RetryPolicy::retries
    Timeout,        \* the timeout of one attempt
    Slack,          \* the five seconds RetryPolicy::new adds
    MinDelay,       \* the first backoff
    MaxDelay,       \* the longest backoff
    Step,           \* the five seconds a busy answer waits per retry
    MaxBusyWait,    \* MAX_BUSY_WAIT
    RetryAfter      \* the Retry-After values a busy server sends, 0 for none

ASSUME RetryAssumption ==
    /\ {Retries, Timeout, Slack} \subseteq Nat
    /\ {MinDelay, MaxDelay, Step, MaxBusyWait} \subseteq Nat \ {0}
    /\ RetryAfter \subseteq Nat

VARIABLES
    cooldown,       \* the Cooldown of the server's origin
    req             \* each request's loop in retry::run

retryVars == <<cooldown, req>>

-----------------------------------------------------------------------------
(* What one attempt can meet, and the RepoError it becomes. *)

(* Statuses by what the code tells apart; 429 stands for 502, 503 and 504. *)
Statuses == {"200", "401", "404", "407", "429", "500"}

(* Failures that reach the client as a reqwest::Error. *)
Transports == {"redirect", "downgrade", "tunnel407", "tunnel", "timeout", "broken",
               "lookup", "unreachable", "tls"}

Answers == Statuses \cup Transports \cup {"tooLarge", "stalled"}

(* transport_is_retryable, with transport_is_transient and                 *)
(* transport_is_unreachable: a timeout, a broken body or a connection that *)
(* failed otherwise than by TLS, an unreachable host or a refused tunnel.  *)
TransportIsRetryable(a) == a \in {"timeout", "broken"}

(* request_error: a rejected redirect, then the proxy's refusals, then     *)
(* what the transport says of itself.                                      *)
RequestError(a) ==
    CASE a = "redirect"   -> [kind |-> "permanent", error |-> "RedirectRejected"]
      [] a = "downgrade"  -> [kind |-> "permanent", error |-> "HttpsDowngrade"]
      [] a = "tunnel407"  -> [kind |-> "permanent", error |-> "ProxyRefused"]
      [] a = "tunnel"     -> [kind |-> "permanent", error |-> "ProxyTunnelRefused"]
      [] TransportIsRetryable(a) -> [kind |-> "transient", error |-> "HttpTransient"]
      [] a = "lookup"     -> [kind |-> "unresolved", error |-> "HttpUnreachable"]
      [] a = "unreachable" -> [kind |-> "permanent", error |-> "HttpUnreachable"]
      [] a \in {"tls"} -> [kind |-> "permanent", error |-> "HttpRefused"]

(* classify_response_status_with_headers. *)
ClassifyStatus(status) ==
    CASE status = "200" -> [kind |-> "ok", error |-> "none"]
      [] status = "404" -> [kind |-> "permanent", error |-> "NotFound"]
      [] status = "401" -> [kind |-> "permanent", error |-> "Unauthorized"]
      [] status = "407" -> [kind |-> "permanent", error |-> "ProxyRefused"]
      [] status = "429" -> [kind |-> "busy", error |-> "StatusBusy"]
      [] status = "500" -> [kind |-> "permanent", error |-> "StatusServer"]

(* One attempt of fetch_bounded or fetch_artifact_staged: the headers, the *)
(* status, then the body.  Headers that do not come in time and a body     *)
(* that stalls or crawls are transfer failures, worth a retry.             *)
Outcome(a) ==
    CASE a \in Statuses   -> ClassifyStatus(a)
      [] a \in Transports -> RequestError(a)
      [] a = "tooLarge"   -> [kind |-> "permanent", error |-> "TooLarge"]
      [] a = "stalled"    -> [kind |-> "transient", error |-> "Transfer"]

RetryErrors == {Outcome(a).error : a \in Answers} \ {"none"}

(* The failures a client raises before or after the request itself. *)
LocalErrors == {"Offline", "BlockedMirror", "ChecksumMismatch", "MissingChecksum",
                "VersionKindDisabled", "Store", "Io", "Untrusted", "Ambiguous"}

Errors == RetryErrors \cup LocalErrors

(* RepoError::is_transient, of the cause behind a Retried. *)
IsTransient(e) == e \in {"HttpTransient", "Transfer", "StatusBusy"}

(* RepoError::status_code: 404 for any not-found error. *)
StatusCode(e) ==
    CASE e = "NotFound"     -> 404
      [] e = "Unauthorized" -> 401
      [] e = "ProxyRefused" -> 407
      [] e = "StatusBusy"   -> 429
      [] e = "StatusServer" -> 500
      [] OTHER              -> 0

(* RepoError::moves_to_next_repository. *)
MovesToNextRepository(e) ==
    /\ ~IsTransient(e)
    /\ e \in {"RedirectRejected", "HttpUnreachable", "HttpRefused", "Io", "TooLarge",
              "Unauthorized", "ProxyRefused", "StatusServer", "BlockedMirror"}

(* RepositoryFallback::failed: the failures worth a warning when another   *)
(* repository serves the file.  HttpRefused holds the failed handshakes.   *)
FallbackRemembered(e) ==
    \/ StatusCode(e) = 401
    \/ e \in {"HttpUnreachable", "HttpRefused"}
    \/ StatusCode(e) \in 500..599 /\ ~IsTransient(e)

-----------------------------------------------------------------------------
(* retry::run. *)

Max2(a, b) == IF a > b THEN a ELSE b

Min2(a, b) == IF a < b THEN a ELSE b

(* RetryPolicy::new. *)
Budget == Timeout * (Retries + 1) + Slack

(* The waits ExponentialBuilder (backon, external) gives for the n-th      *)
(* backoff: it doubles up to MaxDelay, and the jitter at most doubles it.  *)
Backoff(n) ==
    LET delay == Min2(MinDelay * 2^n, MaxDelay) IN delay .. 2 * delay

(* The waits after the busy answer of retry number n + 1: the step and up  *)
(* to half of it again, at least what the server asked, at most the cap.   *)
BusyWait(n, after) ==
    LET step == Step * (n + 1)
    IN  {Min2(Max2(w, after), MaxBusyWait) : w \in step .. step + step \div 2}

Fresh == [at |-> "start", sleep |-> 0, held |-> 0, retries |-> 0, waited |-> 0,
          backoffs |-> 0, unresolved |-> FALSE]

RetryInit ==
    /\ cooldown = [until |-> 0, unresolvable |-> FALSE]
    /\ req = [r \in Request |-> Fresh]

Put(r, fields) == req' = [req EXCEPT ![r] = fields]

(* Mutant: the last busy answer sets the end of the cooldown. *)
HoldForLast(wait) == [cooldown EXCEPT !.until = wait]

(* Cooldown::hold: a later end stands. *)
HoldFor(wait) == [cooldown EXCEPT !.until = Max2(@, wait)]

(* The inner loop: sleep while the cooldown holds the origin and the budget *)
(* allows, then attempt.                                                   *)
Start(r) ==
    LET held == Min2(cooldown.until, Budget - req[r].waited) IN
    /\ req[r].at = "start"
    /\ Put(r, IF held = 0 THEN [req[r] EXCEPT !.at = "attempt"]
              ELSE [req[r] EXCEPT !.at = "held", !.sleep = held, !.held = held])
    /\ UNCHANGED cooldown

HeldEnds(r) ==
    /\ req[r].at = "held"
    /\ req[r].sleep = 0
    /\ Put(r, [req[r] EXCEPT !.at = "start", !.waited = @ + req[r].held, !.held = 0])
    /\ UNCHANGED cooldown

(* Mutant: a retry is not counted. *)
SleepEndsUncounted(r) ==
    /\ req[r].at = "sleeping"
    /\ req[r].sleep = 0
    /\ Put(r, [req[r] EXCEPT !.at = "start", !.waited = 0, !.backoffs = 0])
    /\ UNCHANGED cooldown

SleepEnds(r) ==
    /\ req[r].at = "sleeping"
    /\ req[r].sleep = 0
    /\ Put(r, [req[r] EXCEPT !.at = "start", !.retries = @ + 1])
    /\ UNCHANGED cooldown

(* The end of the loop body: whether and how long to wait.  `next` is the  *)
(* request after the answer, `cool` the cooldown after it, `waits` the     *)
(* waits the rule may choose, `busy` whether the answer was a busy one.    *)
WaitOrEnd(r, next, cool, waits, busy) ==
    IF next.retries >= Retries
    THEN Put(r, [next EXCEPT !.at = "failed"]) /\ cooldown' = cool
    ELSE \E wait \in waits :
            IF next.waited + wait > Budget
            THEN Put(r, [next EXCEPT !.at = "failed"]) /\ cooldown' = cool
            ELSE /\ Put(r, [next EXCEPT !.at = "sleeping", !.sleep = wait,
                                        !.waited = @ + wait])
                 /\ cooldown' = IF busy
                                THEN [cool EXCEPT !.until = HoldFor(wait).until]
                                ELSE cool

(* Cooldown::unresolvable after an answer. *)
Unresolvable(r, failed) == failed /\ (cooldown.unresolvable \/ req[r].unresolved)

(* The answer to an attempt.  Any answer but a failed lookup got past the  *)
(* lookup; the second failed lookup in a row marks the origin unresolvable *)
(* and ends the request.                                                   *)
Answered(r, a, after) ==
    LET o      == Outcome(a)
        failed == o.kind = "unresolved"
        cool   == [cooldown EXCEPT !.unresolvable = Unresolvable(r, failed)]
        next   == [req[r] EXCEPT !.unresolved = failed]
        end(at) == Put(r, [next EXCEPT !.at = at]) /\ cooldown' = cool
    IN
    /\ req[r].at = "attempt"
    /\ CASE o.kind = "ok"        -> end("ok")
         [] o.kind = "permanent" -> end("failed")
         [] o.kind \in {"transient", "unresolved"} ->
                IF failed /\ cool.unresolvable THEN end("failed")
                ELSE WaitOrEnd(r, [next EXCEPT !.backoffs = @ + 1], cool,
                               Backoff(req[r].backoffs), FALSE)
         [] o.kind = "busy" ->
                IF req[r].retries < Retries /\ after > MaxBusyWait THEN end("failed")
                ELSE WaitOrEnd(r, next, cool, BusyWait(req[r].retries, after), TRUE)

(* Time passes for every sleeper and for the cooldown. *)
Tick ==
    /\ cooldown.until > 0 \/ \E r \in Request : req[r].sleep > 0
    /\ cooldown' = [cooldown EXCEPT !.until = IF @ > 0 THEN @ - 1 ELSE 0]
    /\ req' = [r \in Request |-> [req[r] EXCEPT !.sleep = IF @ > 0 THEN @ - 1 ELSE 0]]

RetryStep(r) ==
    \/ Start(r)
    \/ HeldEnds(r)
    \/ SleepEnds(r)
    \/ \E a \in Answers : \E after \in (IF a = "429" THEN RetryAfter ELSE {0}) :
          Answered(r, a, after)

RetryNext == Tick \/ \E r \in Request : RetryStep(r)

RetrySpec == RetryInit /\ [][RetryNext]_retryVars

(* The runtime goes on with some request, or time passes. *)
RetryFairness == WF_retryVars(RetryNext)

RetryTypeOK ==
    /\ cooldown \in [until : 0..MaxBusyWait, unresolvable : BOOLEAN]
    /\ \A r \in Request :
          /\ req[r].at \in {"start", "held", "attempt", "sleeping", "ok", "failed"}
          /\ req[r].retries \in 0..Retries
          /\ req[r].unresolved \in BOOLEAN

-----------------------------------------------------------------------------
(* Properties. *)

(* What a request has waited, its own backoffs and the waits that other    *)
(* requests' busy answers put on it, never passes its budget.              *)
BudgetKept ==
    \A r \in Request : req[r].waited + req[r].held <= Budget

(* A busy answer never brings the end of the cooldown forward: only time   *)
(* shortens it, whatever order two busy answers come in.                   *)
HoldNeverShortened == cooldown'.until >= cooldown.until \/ Tick

(* A request that starts an attempt while the origin is held back has no   *)
(* budget left to wait: no busy window is ignored by a request that could  *)
(* still wait it out.                                                      *)
BusyWindowRespected ==
    \A r \in Request :
        (req[r].at = "start" /\ req'[r].at = "attempt" /\ cooldown.until > 0)
            => req[r].waited = Budget

(* A failed lookup is waited for only when it is the request's first in a  *)
(* row and the origin is not known to be dead: no request of the server    *)
(* starts such a wait until one gets past the lookup again.                *)
DeadHostNotWaitedFor ==
    \A r \in Request :
        (req[r].at = "attempt" /\ req'[r].at = "sleeping" /\ req'[r].unresolved)
            => ~cooldown.unresolvable /\ ~req[r].unresolved

(* The retry rule (retry.rs, send_with_retry and Cooldowns): every step    *)
(* keeps the budget of every request, the cooldown of the origin and the   *)
(* verdict on a dead host.                                                 *)
RetryRuleKept ==
    [][BudgetKept' /\ HoldNeverShortened /\ BusyWindowRespected /\ DeadHostNotWaitedFor]_retryVars

(* Every request ends, whatever the server answers and however often other *)
(* requests' busy answers hold it back.                                    *)
RequestEnds == <>(\A r \in Request : req[r].at \in {"ok", "failed"})
=============================================================================

------------------------ MODULE RepositoryReadsProofs ------------------------
(***************************************************************************)
(* The retry rule of HttpRetry, for any number of requests, any policy and *)
(* any Retry-After a server sends; the fetches of an artifact of           *)
(* ArtifactReads, for any number of calls, any bytes served and whatever   *)
(* each call asks; and the connections of Transport, for any network, any  *)
(* grants and any chain of redirects.                                      *)
(***************************************************************************)
EXTENDS HttpRetry, ArtifactReads, Transport, TLAPS

(***************************************************************************)
(* HttpRetry                                                               *)
(***************************************************************************)
Loop == [at : {"start", "held", "attempt", "sleeping", "ok", "failed"},
         sleep : Int, held : Int, retries : 0..Retries, waited : Int,
         backoffs : Nat, unresolved : BOOLEAN]

(* What is held is counted as waited only when the sleep ends, so the      *)
(* budget has to speak of both; a request that sleeps has a retry left.    *)
RetryInv ==
    /\ cooldown \in [until : 0..MaxBusyWait, unresolvable : BOOLEAN]
    /\ req \in [Request -> Loop]
    /\ \A r \in Request :
          /\ req[r].waited + req[r].held <= Budget
          /\ req[r].at # "held" => req[r].held = 0
          /\ req[r].at = "sleeping" => req[r].retries < Retries

-----------------------------------------------------------------------------
(* The waits. *)

(* Min2 and Max2 are the smaller and the larger of two integers. *)
LEMMA MinMax ==
    ASSUME NEW a \in Int, NEW b \in Int
    PROVE  /\ Min2(a, b) \in Int /\ Min2(a, b) <= a /\ Min2(a, b) <= b
           /\ Min2(a, b) \in {a, b}
           /\ Max2(a, b) \in Int /\ Max2(a, b) >= a /\ Max2(a, b) >= b
           /\ Max2(a, b) \in {a, b}
BY DEF Min2, Max2

(* The budget of a request (RetryPolicy::new) is a length of time. *)
LEMMA BudgetType == Budget \in Nat
BY RetryAssumption DEF Budget

(* A backoff is a length of time. *)
LEMMA BackoffType ==
    ASSUME NEW n \in Nat, NEW w \in Backoff(n)
    PROVE  w \in Int
BY DEF Backoff

(* The wait after a busy answer is at most MAX_BUSY_WAIT, whatever the     *)
(* server asked.                                                           *)
LEMMA BusyWaitBounded ==
    ASSUME NEW n \in Nat, NEW after \in Nat, NEW w \in BusyWait(n, after)
    PROVE  w \in 0..MaxBusyWait
<1>1. PICK v \in Step * (n + 1) .. Step * (n + 1) + (Step * (n + 1)) \div 2 :
         w = Min2(Max2(v, after), MaxBusyWait)
  BY DEF BusyWait
<1>2. v \in Int /\ Max2(v, after) \in Nat
  BY <1>1, MinMax, RetryAssumption DEF Max2
<1>3. QED
  BY <1>1, <1>2, RetryAssumption DEF Min2

-----------------------------------------------------------------------------
(* The steps. *)

(* Every answer has a kind. *)
LEMMA OutcomeKinds ==
    ASSUME NEW a \in Answers
    PROVE  Outcome(a).kind \in {"ok", "permanent", "transient", "unresolved", "busy"}
BY DEF Answers, Statuses, Transports, Outcome, ClassifyStatus, RequestError,
       TransportIsRetryable

(* What a step may make of one request. *)
Sound(f) ==
    /\ f \in Loop
    /\ f.waited + f.held <= Budget
    /\ f.at # "held" => f.held = 0
    /\ f.at = "sleeping" => f.retries < Retries

(* A step of one request leaves the others alone. *)
LEMMA PutStep ==
    ASSUME RetryInv, NEW r \in Request, NEW f, Sound(f), Put(r, f),
           cooldown' \in [until : 0..MaxBusyWait, unresolvable : BOOLEAN]
    PROVE  RetryInv' /\ req'[r] = f /\ \A q \in Request \ {r} : req'[q] = req[q]
<1>1. /\ req' \in [Request -> Loop] /\ req'[r] = f
      /\ \A q \in Request \ {r} : req'[q] = req[q]
  BY DEF RetryInv, Sound, Put
<1>2. ASSUME NEW q \in Request PROVE Sound(req'[q])
  BY <1>1 DEF RetryInv, Sound
<1>3. QED
  BY <1>1, <1>2 DEF RetryInv, Sound

(* The end of the loop body leaves a request that failed, or one that      *)
(* sleeps within its budget and with a retry left.                         *)
LEMMA WaitOrEndStep ==
    ASSUME RetryInv, NEW r \in Request, NEW next \in Loop, NEW dead \in BOOLEAN,
           NEW waits \in SUBSET Int, NEW busy \in BOOLEAN,
           busy => waits \subseteq 0..MaxBusyWait,
           next.waited <= Budget, next.held = 0,
           WaitOrEnd(r, next, [cooldown EXCEPT !.unresolvable = dead], waits, busy)
    PROVE  /\ RetryInv'
           /\ cooldown'.until >= cooldown.until
           /\ req'[r].at \in {"failed", "sleeping"} /\ req'[r].unresolved = next.unresolved
           /\ \A q \in Request \ {r} : req'[q] = req[q]
<1> USE BudgetType, RetryAssumption
<1> DEFINE cool == [cooldown EXCEPT !.unresolvable = dead]
           slept(wait) == [next EXCEPT !.at = "sleeping", !.sleep = wait, !.waited = @ + wait]
           Good == /\ RetryInv'
                   /\ cooldown'.until >= cooldown.until
                   /\ req'[r].at \in {"failed", "sleeping"}
                   /\ req'[r].unresolved = next.unresolved
                   /\ \A q \in Request \ {r} : req'[q] = req[q]
<1>1. ASSUME Put(r, [next EXCEPT !.at = "failed"]), cooldown' = cool
      PROVE  Good
  <2>1. Sound([next EXCEPT !.at = "failed"])
    BY DEF Sound, Loop
  <2>2. /\ cooldown' \in [until : 0..MaxBusyWait, unresolvable : BOOLEAN]
        /\ cooldown'.until >= cooldown.until
    BY <1>1 DEF RetryInv
  <2>3. /\ RetryInv' /\ req'[r] = [next EXCEPT !.at = "failed"]
        /\ \A q \in Request \ {r} : req'[q] = req[q]
    BY <1>1, <2>1, <2>2, PutStep
  <2>4. QED
    BY <2>2, <2>3 DEF Loop
<1>2. ASSUME next.retries < Retries, NEW wait \in waits, next.waited + wait <= Budget,
             Put(r, slept(wait)),
             cooldown' = IF busy THEN [cool EXCEPT !.until = HoldFor(wait).until] ELSE cool
      PROVE  Good
  <2>0. wait \in Int /\ (busy => wait \in 0..MaxBusyWait)
    OBVIOUS
  <2>1. Sound(slept(wait))
    <3>1. slept(wait) \in Loop
      <4>1. next.waited + wait \in Int
        BY <2>0 DEF Loop
      <4>2. ASSUME NEW w \in Int
            PROVE  [next EXCEPT !.at = "sleeping", !.sleep = wait, !.waited = w] \in Loop
        BY Zenon, <2>0 DEF Loop
      <4>3. QED
        BY Zenon, <4>1, <4>2
    <3>2. /\ slept(wait).waited = next.waited + wait /\ slept(wait).held = 0
          /\ slept(wait).at = "sleeping" /\ slept(wait).retries = next.retries
      BY DEF Loop
    <3>3. QED
      BY SMTT(60), <1>2, <2>0, <3>1, <3>2 DEF Sound, Loop
  <2>2. /\ cooldown' \in [until : 0..MaxBusyWait, unresolvable : BOOLEAN]
        /\ cooldown'.until >= cooldown.until
    <3>1. CASE busy
      <4>1. HoldFor(wait).until = Max2(cooldown.until, wait)
        BY DEF RetryInv, HoldFor
      <4>2. /\ Max2(cooldown.until, wait) \in 0..MaxBusyWait
            /\ Max2(cooldown.until, wait) >= cooldown.until
        BY <2>0, <3>1 DEF RetryInv, Max2
      <4>3. QED
        BY Zenon, <1>2, <3>1, <4>1, <4>2 DEF RetryInv
    <3>2. CASE ~busy
      BY <1>2, <3>2 DEF RetryInv
    <3>3. QED
      BY <3>1, <3>2
  <2>3. /\ RetryInv' /\ req'[r] = slept(wait)
        /\ \A q \in Request \ {r} : req'[q] = req[q]
    BY SMTT(60), <1>2, <2>1, <2>2, PutStep
  <2>4. QED
    BY <2>2, <2>3 DEF Loop
<1>3. CASE next.retries >= Retries
  BY Zenon, <1>1, <1>3 DEF WaitOrEnd
<1>4. CASE ~(next.retries >= Retries)
  <2>1. PICK wait \in waits :
           IF next.waited + wait > Budget
           THEN Put(r, [next EXCEPT !.at = "failed"]) /\ cooldown' = cool
           ELSE /\ Put(r, slept(wait))
                /\ cooldown' = IF busy THEN [cool EXCEPT !.until = HoldFor(wait).until]
                               ELSE cool
    BY Zenon, <1>4 DEF WaitOrEnd
  <2>2. CASE next.waited + wait > Budget
    BY SMTT(60), <1>1, <2>1, <2>2
  <2>3. CASE ~(next.waited + wait > Budget)
    <3>1. next.retries < Retries /\ next.waited + wait <= Budget
      BY <1>4, <2>3 DEF Loop
    <3>2. QED
      BY Zenon, <1>2, <2>1, <2>3, <3>1
  <2>4. QED
    BY SMTT(60), <2>2, <2>3
<1>5. QED
  BY <1>3, <1>4

(* What a step does to the cooldown and to a dead host, besides RetryInv. *)
StepSound == HoldNeverShortened /\ BusyWindowRespected /\ DeadHostNotWaitedFor

(* Sleeping behind the cooldown (the inner loop of retry::run). *)
LEMMA StartStep ==
    ASSUME RetryInv, NEW r \in Request, Start(r)
    PROVE  RetryInv' /\ StepSound
<1> USE BudgetType, RetryAssumption
<1> DEFINE held == Min2(cooldown.until, Budget - req[r].waited)
           next == IF held = 0 THEN [req[r] EXCEPT !.at = "attempt"]
                   ELSE [req[r] EXCEPT !.at = "held", !.sleep = held, !.held = held]
<1>1. /\ req[r] \in Loop /\ req[r].at = "start" /\ req[r].held = 0
      /\ req[r].waited \in Int /\ req[r].waited <= Budget
  BY DEF RetryInv, Start, Loop
<1>2. /\ held \in Int /\ req[r].waited + held <= Budget
      /\ held = 0 /\ cooldown.until > 0 => req[r].waited = Budget
  BY <1>1 DEF Min2, RetryInv
<1>3. Sound(next)
  <2> HIDE DEF held
  <2>1. CASE held = 0
    BY <1>1, <2>1 DEF Sound, Loop
  <2>2. CASE held # 0
    <3>1. next = [req[r] EXCEPT !.at = "held", !.sleep = held, !.held = held]
      BY <2>2
    <3> HIDE DEF next
    <3>2. PICK m : m = req[r] /\ m \in Loop
      BY Zenon, <1>1
    <3>3. next = [m EXCEPT !.at = "held", !.sleep = held, !.held = held]
      BY Zenon, <3>1, <3>2
    <3>4. next \in Loop
      BY Zenon, <1>2, <3>2, <3>3 DEF Loop
    <3>5. next.at = "held" /\ next.held = held /\ next.waited = req[r].waited
      BY <3>2, <3>3 DEF Loop
    <3>6. QED
      BY <1>1, <1>2, <3>4, <3>5 DEF Sound
  <2>3. QED
    BY <2>1, <2>2
<1>4. /\ RetryInv' /\ req'[r] = next /\ \A q \in Request \ {r} : req'[q] = req[q]
  <2>1. Put(r, next) /\ cooldown' = cooldown
    BY DEF Start
  <2>2. QED
    BY <1>3, <2>1, PutStep DEF RetryInv
<1>5. HoldNeverShortened
  BY DEF HoldNeverShortened, Start, RetryInv
<1>6. BusyWindowRespected
  <2>1. next.at = "attempt" => held = 0
    BY <1>1 DEF Loop
  <2>2. QED
    BY Zenon, <1>2, <1>4, <2>1 DEF BusyWindowRespected
<1>7. DeadHostNotWaitedFor
  BY <1>1, <1>4 DEF DeadHostNotWaitedFor
<1>8. QED
  BY <1>4, <1>5, <1>6, <1>7 DEF StepSound

(* A request whose sleep behind the cooldown is over. *)
LEMMA HeldLoop ==
    ASSUME NEW f \in Loop, NEW w \in Int, NEW h \in Int
    PROVE  [f EXCEPT !.at = "start", !.waited = w, !.held = h] \in Loop
BY Zenon DEF Loop

(* The end of a sleep. *)
LEMMA SleepStep ==
    ASSUME RetryInv, NEW r \in Request, HeldEnds(r) \/ SleepEnds(r)
    PROVE  RetryInv' /\ StepSound
<1> USE BudgetType, RetryAssumption
<1>1. /\ req[r] \in Loop /\ req[r].held \in Int /\ req[r].waited \in Int
      /\ req[r].waited + req[r].held <= Budget
      /\ req[r].retries \in 0..Retries
      /\ req[r].at = "sleeping" => req[r].retries < Retries /\ req[r].held = 0
  BY DEF RetryInv, Loop
<1>2. PICK next : Put(r, next) /\ Sound(next) /\ next.at = "start"
  <2>1. CASE HeldEnds(r)
    <3> DEFINE w == req[r].waited + req[r].held
               next == [req[r] EXCEPT !.at = "start", !.waited = w, !.held = 0]
    <3>1. Put(r, next)
      BY <2>1 DEF HeldEnds
    <3>2. w \in Int /\ w <= Budget
      BY <1>1
    <3> HIDE DEF w
    <3>3. next \in Loop
      <4>1. 0 \in Int
        OBVIOUS
      <4>2. QED
        BY <1>1, <3>2, <4>1, HeldLoop, Zenon
    <3>4. next.waited = w /\ next.held = 0 /\ next.at = "start"
      BY <1>1 DEF Loop
    <3>5. Sound(next)
      BY <3>2, <3>3, <3>4 DEF Sound
    <3>6. QED
      BY Zenon, <3>1, <3>4, <3>5
  <2>2. CASE SleepEnds(r)
    <3> DEFINE n == req[r].retries + 1
               next == [req[r] EXCEPT !.at = "start", !.retries = n]
    <3>1. Put(r, next)
      BY <2>2 DEF SleepEnds
    <3>2. n \in 0..Retries /\ req[r].held = 0
      BY <1>1, <2>2 DEF SleepEnds
    <3> HIDE DEF n
    <3>3. Sound(next) /\ next.at = "start"
      BY Zenon, <1>1, <3>2 DEF Sound, Loop
    <3>4. QED
      BY Zenon, <3>1, <3>3
  <2>3. QED
    BY <2>1, <2>2
<1>3. cooldown' = cooldown /\ req[r].at \in {"held", "sleeping"}
  BY DEF HeldEnds, SleepEnds
<1>4. RetryInv' /\ req'[r] = next /\ \A q \in Request \ {r} : req'[q] = req[q]
  BY <1>2, <1>3, PutStep DEF RetryInv
<1>5. QED
  BY <1>2, <1>3, <1>4
  DEF StepSound, HoldNeverShortened, BusyWindowRespected, DeadHostNotWaitedFor, RetryInv

(* The answer to an attempt: an end, or a wait that WaitOrEnd chooses.     *)
LEMMA AnsweredStep ==
    ASSUME RetryInv, NEW r \in Request, NEW a \in Answers,
           NEW after \in Nat, Answered(r, a, after)
    PROVE  RetryInv' /\ StepSound
<1> USE BudgetType, RetryAssumption
<1> DEFINE failed == Outcome(a).kind = "unresolved"
           dead == Unresolvable(r, failed)
           cool == [cooldown EXCEPT !.unresolvable = dead]
           next == [req[r] EXCEPT !.unresolved = failed]
           end(at) == Put(r, [next EXCEPT !.at = at]) /\ cooldown' = cool
           Good == /\ RetryInv' /\ cooldown'.until >= cooldown.until
                   /\ req'[r].at \in {"ok", "failed", "sleeping"}
                   /\ req'[r].at = "sleeping" /\ req'[r].unresolved => failed /\ ~dead
                   /\ \A q \in Request \ {r} : req'[q] = req[q]
<1>0. failed \in BOOLEAN /\ dead \in BOOLEAN
  BY DEF Unresolvable, RetryInv, Loop
<1>1. /\ req[r] \in Loop /\ req[r].at = "attempt" /\ req[r].held = 0
      /\ req[r].waited \in Int /\ req[r].waited <= Budget
      /\ req[r].retries \in Nat /\ req[r].backoffs \in Nat
  BY DEF RetryInv, Answered, Loop
<1>2. cool.unresolvable = dead
  BY DEF RetryInv
<1> DEFINE backedOff == [next EXCEPT !.backoffs = @ + 1]
<1>3. /\ next \in Loop /\ next.held = 0 /\ next.waited = req[r].waited
      /\ next.unresolved = failed /\ next.backoffs = req[r].backoffs
  BY Zenon, <1>0, <1>1 DEF Loop
<1>4. /\ backedOff \in Loop /\ backedOff.held = 0 /\ backedOff.waited = req[r].waited
      /\ backedOff.unresolved = failed
  <2> HIDE DEF next
  <2>1. next.backoffs + 1 \in Nat
    BY <1>1, <1>3
  <2>2. QED
    BY <1>3, <2>1 DEF Loop
<1>5. ASSUME NEW at \in {"ok", "failed"}, end(at) PROVE Good
  <2> HIDE DEF next, failed, dead
  <2>1. Sound([next EXCEPT !.at = at]) /\ [next EXCEPT !.at = at].at = at
    BY <1>1, <1>3 DEF Sound, Loop
  <2>2. /\ cooldown' \in [until : 0..MaxBusyWait, unresolvable : BOOLEAN]
        /\ cooldown'.until >= cooldown.until
    BY <1>0, <1>5 DEF RetryInv
  <2>3. QED
    BY Zenon, <1>5, <2>1, <2>2, PutStep
<1>6. ASSUME ~(failed /\ dead),
             WaitOrEnd(r, backedOff, cool, Backoff(req[r].backoffs), FALSE)
      PROVE  Good
  <2> HIDE DEF backedOff, failed, dead
  <2>1. Backoff(req[r].backoffs) \in SUBSET Int
    BY <1>1, BackoffType
  <2>2. QED
    BY Zenon, <1>0, <1>1, <1>4, <1>6, <2>1, WaitOrEndStep
<1>7. ASSUME ~failed, WaitOrEnd(r, next, cool, BusyWait(req[r].retries, after), TRUE)
      PROVE  Good
  <2> HIDE DEF next, failed, dead
  <2>1. BusyWait(req[r].retries, after) \in SUBSET Int
        /\ BusyWait(req[r].retries, after) \subseteq 0..MaxBusyWait
    BY <1>1, BusyWaitBounded
  <2>2. QED
    BY Zenon, <1>0, <1>1, <1>3, <1>7, <2>1, WaitOrEndStep
<1>8. Good
  <2>1. Outcome(a).kind \in {"ok", "permanent", "transient", "unresolved", "busy"}
    BY OutcomeKinds
  <2> HIDE DEF Good, end
  <2>2. CASE Outcome(a).kind \in {"ok", "permanent"}
    BY Zenon, <1>5, <2>2 DEF Answered, end
  <2>3. CASE Outcome(a).kind = "transient"
    BY <1>6, <2>3 DEF Answered
  <2>4. CASE failed /\ dead
    <3>1. end("failed")
      BY <1>2, <2>4 DEF Answered, end
    <3>2. QED
      BY <1>5, <3>1
  <2>5. CASE failed /\ ~dead
    <3>1. WaitOrEnd(r, backedOff, cool, Backoff(req[r].backoffs), FALSE)
      BY Zenon, <1>2, <2>5 DEF Answered
    <3>2. QED
      BY <1>6, <2>5, <3>1
  <2>6. CASE Outcome(a).kind = "busy"
    BY Zenon, <1>5, <1>7, <2>6 DEF Answered, end
  <2>7. QED
    BY <2>1, <2>2, <2>3, <2>4, <2>5, <2>6
<1>9. failed /\ ~dead => ~cooldown.unresolvable /\ ~req[r].unresolved
  BY DEF Unresolvable
<1>10. QED
  <2> HIDE DEF failed, dead
  <2>1. HoldNeverShortened
    BY <1>8 DEF HoldNeverShortened
  <2>2. BusyWindowRespected
    BY <1>1, <1>8 DEF BusyWindowRespected
  <2>3. DeadHostNotWaitedFor
    BY <1>8, <1>9 DEF DeadHostNotWaitedFor
  <2>4. QED
    BY <1>8, <2>1, <2>2, <2>3 DEF StepSound

(* Time passes. *)
LEMMA TickStep ==
    ASSUME RetryInv, Tick
    PROVE  RetryInv' /\ StepSound
<1>1. cooldown' \in [until : 0..MaxBusyWait, unresolvable : BOOLEAN]
  BY RetryAssumption DEF RetryInv, Tick
<1>2. ASSUME NEW r \in Request
      PROVE  /\ Sound(req'[r]) /\ req'[r].at = req[r].at
  <2> DEFINE s == IF req[r].sleep > 0 THEN req[r].sleep - 1 ELSE 0
  <2>1. req'[r] = [req[r] EXCEPT !.sleep = s] /\ req[r] \in Loop
    BY DEF Tick, RetryInv
  <2>2. s \in Int
    BY <2>1 DEF Loop
  <2> HIDE DEF s
  <2>3. /\ req'[r] \in Loop /\ req'[r].at = req[r].at
        /\ req'[r].waited = req[r].waited /\ req'[r].held = req[r].held
        /\ req'[r].retries = req[r].retries
    BY <2>1, <2>2 DEF Loop
  <2>4. QED
    BY <2>3 DEF RetryInv, Sound
<1>3. req' \in [Request -> Loop]
  <2>1. req' = [r \in Request |-> req'[r]]
    BY DEF Tick
  <2>2. QED
    BY <1>2, <2>1 DEF Sound
<1>4. QED
  BY <1>1, <1>2, <1>3 DEF RetryInv, Sound, StepSound, HoldNeverShortened,
     BusyWindowRespected, DeadHostNotWaitedFor

-----------------------------------------------------------------------------
(* The rule. *)

(* Every step keeps the invariant and the rule. *)
LEMMA RetryStepSound ==
    ASSUME RetryInv, RetryNext
    PROVE  RetryInv' /\ StepSound
<1>1. ASSUME NEW r \in Request, NEW a \in Answers,
             NEW after \in (IF a = "429" THEN RetryAfter ELSE {0}), Answered(r, a, after)
      PROVE  RetryInv' /\ StepSound
  <2>1. after \in Nat
    BY RetryAssumption
  <2>2. QED
    BY <1>1, <2>1, AnsweredStep
<1>2. QED
  BY <1>1, StartStep, SleepStep, TickStep DEF RetryNext, RetryStep

(* The invariant holds throughout. *)
THEOREM RetryInvariant == RetrySpec => []RetryInv
<1>1. RetryInit => RetryInv
  <2> SUFFICES ASSUME RetryInit PROVE RetryInv
    OBVIOUS
  <2>1. \A r \in Request : req[r] = Fresh
    BY DEF RetryInit
  <2>2. Fresh \in Loop /\ Fresh.held = 0 /\ Fresh.waited = 0 /\ Fresh.at = "start"
    BY RetryAssumption DEF Fresh, Loop
  <2>3. QED
    BY <2>1, <2>2, BudgetType, RetryAssumption DEF RetryInit, RetryInv
<1>2. RetryInv /\ [RetryNext]_retryVars => RetryInv'
  <2> SUFFICES ASSUME RetryInv, [RetryNext]_retryVars PROVE RetryInv'
    OBVIOUS
  <2>1. CASE RetryNext
    BY <2>1, RetryStepSound
  <2>2. CASE UNCHANGED retryVars
    BY <2>2 DEF retryVars, RetryInv
  <2>3. QED
    BY <2>1, <2>2
<1>3. QED
  BY <1>1, <1>2, PTL DEF RetrySpec

(* However many requests share the server, whatever the policy and whatever *)
(* the server answers: what a request waits stays within its budget, a busy *)
(* answer never shortens the cooldown, no request with budget left attempts *)
(* during it, and a host that two lookups in a row did not find is not      *)
(* waited for (retry.rs, run and Cooldown).                                 *)
THEOREM RetryRule == RetrySpec => RetryRuleKept
<1>1. RetryInv /\ RetryInv' /\ [RetryNext]_retryVars
        => [BudgetKept' /\ HoldNeverShortened /\ BusyWindowRespected
              /\ DeadHostNotWaitedFor]_retryVars
  BY RetryStepSound DEF RetryInv, BudgetKept, StepSound
<1>2. QED
  BY <1>1, RetryInvariant, PTL DEF RetrySpec, RetryRuleKept

(***************************************************************************)
(* ArtifactReads                                                           *)
(***************************************************************************)
ArtifactSpec == ArtifactInit /\ [][ArtifactNext]_artifactVars

-----------------------------------------------------------------------------
(* The inductive invariant *)

Outcomes == {"match", "mismatch", "none", "failed", "transient", "gated", "unasked"}
Fetching == {"cell", "joined", "take", "request", "check"}

Results == {"none", "ok", "prefetched", "NotFound", "Failed", "SidecarError",
            "MissingChecksum", "ChecksumMismatch"}

TaskRecord ==
    [at : {"start", "later", "done"} \cup Fetching, blob : Blob \cup {NoBlob},
     probe : Outcomes, owner : BOOLEAN, verified : BOOLEAN, result : Results]

PrefetchRecord == [state : {"empty", "busy", "ready", "taken"},
                   blob : Blob \cup {NoBlob}, probe : Outcomes]
FetchRecord == [state : {"empty", "busy", "done"}, blob : Blob \cup {NoBlob},
                verified : BOOLEAN]

(* A call has a result once it is done; only a prefetch downloads for      *)
(* later and only a fetch does the rest, so that whoever stores a blob is  *)
(* a fetch that accepts it.                                                *)
TaskInv(t) ==
    /\ task[t].result = "ok" => task[t].at = "done"
    /\ task[t].at \in Fetching => ~Wants(t).prefetch

ArtifactInv ==
    /\ plan \in Plans
    /\ task \in [Task -> TaskRecord]
    /\ prefetched \in PrefetchRecord /\ fetched \in FetchRecord
    /\ \A t \in Task : TaskInv(t)
    /\ FetchesSound

-----------------------------------------------------------------------------
(* What the sidecars come to *)

(* A checksum request that was made has an answer.                         *)
LEMMA ProbeOutcomes == Probes \subseteq Outcomes \ {"unasked"}
<1>1. SUFFICES ASSUME NEW answers \in [1..3 -> SidecarAnswers]
               PROVE  ProbeResult(answers) \in Outcomes \ {"unasked"}
  BY DEF Probes
<1>2. PICK first : first = {i \in 1..3 : /\ answers[i] \in {"match", "mismatch", "gated"}
                                         /\ \A j \in 1..(i - 1) :
                                               ~(answers[j] \in {"match", "mismatch", "gated"})}
  BY Zenon
<1>3. CASE first = {}
  BY <1>2, <1>3 DEF ProbeResult, Outcomes
<1>4. CASE first # {}
  <2>1. PICK k : k = CHOOSE i \in first : TRUE
    OBVIOUS
  <2>2. k \in first
    BY <1>4, <2>1
  <2>3. answers[k] \in {"match", "mismatch", "gated"}
    BY <1>2, <2>2
  <2>4. QED
    BY <1>2, <1>4, <2>1, <2>3 DEF ProbeResult, Outcomes
<1>5. QED
  BY <1>3, <1>4

(* What a fetch accepts of the bytes it has. *)
Accepts(t, blob, verified) ==
    IF RequiredBlob(t) # NoBlob THEN blob = RequiredBlob(t)
    ELSE verified \/ ~plan.require \/ blob = plan.lockPin

(* Bytes judged ok are ones the task's pin or checksum accepts.            *)
LEMMA VerdictAccepts ==
    ASSUME NEW t, NEW blob, NEW probe \in Outcomes, Verdict(t, blob, probe) = "ok"
    PROVE  Accepts(t, blob, probe = "match")
<1>1. /\ probe \notin {"transient", "failed", "gated", "mismatch"}
      /\ RequiredBlob(t) # NoBlob => RequiredBlob(t) = blob
  BY DEF Verdict
<1>2. ASSUME RequiredBlob(t) = NoBlob, plan.require, blob # plan.lockPin
      PROVE  probe \notin {"none", "unasked"}
  BY <1>1, <1>2 DEF Verdict
<1>3. QED
  BY <1>1, <1>2 DEF Accepts, Outcomes

-----------------------------------------------------------------------------
(* The steps *)

(* A step of one call keeps the invariant when what it becomes does, and   *)
(* only a fetch that accepts its bytes adds to the store.                  *)
LEMMA TaskStep ==
    ASSUME ArtifactInv, NEW t \in Task, NEW r \in TaskRecord, Becomes(t, r),
           plan' = plan, task[t].at # "done",
           r.result = "ok" => r.at = "done" /\ Accepts(t, r.blob, r.verified),
           r.at \in Fetching => ~Wants(t).prefetch,
           prefetched' \in PrefetchRecord, fetched' \in FetchRecord,
           index' \subseteq store',
           store' = store \/ (r.result = "ok" /\ ~Wants(t).prefetch)
    PROVE  ArtifactInv'
<1>1. /\ task' \in [Task -> TaskRecord] /\ task'[t] = r
      /\ \A u \in Task \ {t} : task'[u] = task[u]
  BY DEF ArtifactInv, Becomes
<1>2. \A u \in Task : Wants(u)' = Wants(u)
  BY DEF Wants
<1>3. \A u \in Task : RequiredBlob(u)' = RequiredBlob(u)
  BY DEF RequiredBlob, Wants
<1>4. task[t].result # "ok"
  BY DEF ArtifactInv, TaskInv
<1>5. ASSUME NEW u \in Task PROVE TaskInv(u)'
  <2>1. CASE u = t
    BY <1>1, <1>2, <2>1 DEF TaskInv
  <2>2. CASE u # t
    BY Zenon, <1>1, <1>2, <2>2 DEF ArtifactInv, TaskInv
  <2>3. QED
    BY Zenon, <2>1, <2>2
<1>6. FetchAccepts'
  <2>1. \A u \in Task : task[u].result = "ok" => Accepts(u, task[u].blob, task[u].verified)
    BY Zenon DEF ArtifactInv, FetchesSound, FetchAccepts, Accepts
  <2>2. \A u \in Task : task'[u].result = "ok" =>
                           Accepts(u, task'[u].blob, task'[u].verified)
    BY Zenon, <1>1, <2>1
  <2>3. QED
    BY Zenon, <1>3, <2>2 DEF FetchAccepts, Accepts
<1>7. PrefetchStoresNothing'
  <2>1. ASSUME \A u \in Task : ~Wants(u)'.prefetch => task'[u].result # "ok"
        PROVE  store' = {}
    <3>1. store' = store
      BY Zenon, <1>1, <1>2, <2>1
    <3>2. \A u \in Task : ~Wants(u).prefetch => task[u].result # "ok"
      BY Zenon, <1>1, <1>2, <1>4, <2>1
    <3>3. QED
      BY Zenon, <3>1, <3>2 DEF ArtifactInv, FetchesSound, PrefetchStoresNothing
  <2>2. QED
    BY Zenon, <2>1 DEF PrefetchStoresNothing
<1>8. QED
  BY Zenon, <1>1, <1>5, <1>6, <1>7 DEF ArtifactInv, FetchesSound

(* Types of one call's record. *)
LEMMA TaskFields ==
    ASSUME ArtifactInv, NEW t \in Task
    PROVE  /\ task[t] \in TaskRecord /\ TaskInv(t)
           /\ plan.lockPin \in Blob \cup {NoBlob} /\ plan.require \in BOOLEAN
           /\ Wants(t).prefetch \in BOOLEAN
<1>1. plan \in [asks : [Task -> [prefetch : BOOLEAN, pin : Blob \cup {NoBlob}]],
                require : BOOLEAN, update : BOOLEAN, lockPin : Blob \cup {NoBlob},
                alike : BOOLEAN]
  BY ArtifactAssumption DEF ArtifactInv
<1>2. QED
  BY <1>1 DEF ArtifactInv, Wants

(* The steps of a prefetch keep the invariant.                             *)
LEMMA PrefetchSteps ==
    ASSUME ArtifactInv, NEW t \in Task,
           \/ PrefetchStart(t)
           \/ \E blob \in Blob, probe \in Probes : PrefetchArrives(t, blob, probe)
           \/ \E missing \in BOOLEAN : PrefetchFails(t, missing)
    PROVE  ArtifactInv'
<1>1. PICK m : m = task[t] /\ m \in TaskRecord /\ TaskInv(t)
  BY Zenon, TaskFields
<1>2. /\ m.at \in {"start", "later"} /\ UNCHANGED <<plan, fetched, store, index>>
  BY <1>1 DEF PrefetchStart, PrefetchArrives, PrefetchFails
<1>3. PICK r \in {[m EXCEPT !.at = "done", !.result = "prefetched"], [m EXCEPT !.at = "later"]} :
          Becomes(t, r)
  BY <1>1 DEF PrefetchStart, PrefetchArrives, PrefetchFails, Ends
<1>4. r \in TaskRecord /\ r.at \notin Fetching
  <2>1. ASSUME r = [m EXCEPT !.at = "done", !.result = "prefetched"]
        PROVE  r \in TaskRecord /\ r.at = "done"
    BY Zenon, <1>1, <2>1 DEF TaskRecord, Results
  <2>2. ASSUME r = [m EXCEPT !.at = "later"] PROVE r \in TaskRecord /\ r.at = "later"
    BY <1>1, <2>2 DEF TaskRecord
  <2>3. r \in TaskRecord /\ r.at \in {"done", "later"}
    BY Zenon, <1>3, <2>1, <2>2
  <2>4. QED
    BY <2>3 DEF Fetching
<1>5. r.result # "ok"
  <2>1. m.result # "ok"
    BY <1>1, <1>2 DEF TaskInv
  <2>2. QED
    BY Zenon, <1>1, <1>3, <2>1 DEF TaskRecord
<1>6. prefetched' \in PrefetchRecord
  <2>1. CASE PrefetchStart(t)
    BY <2>1 DEF PrefetchStart, ArtifactInv, PrefetchRecord
  <2>2. CASE \E blob \in Blob, probe \in Probes : PrefetchArrives(t, blob, probe)
    BY <2>2, ProbeOutcomes DEF PrefetchArrives, Outcomes, PrefetchRecord
  <2>3. CASE \E missing \in BOOLEAN : PrefetchFails(t, missing)
    BY <2>3 DEF PrefetchFails, ArtifactInv, PrefetchRecord
  <2>4. QED
    BY Zenon, <2>1, <2>2, <2>3
<1>7. index' \subseteq store' /\ fetched' \in FetchRecord
  BY <1>2 DEF ArtifactInv, FetchesSound, PrefetchStoresNothing
<1>8. QED
  BY <1>1, <1>2, <1>3, <1>4, <1>5, <1>6, <1>7, TaskStep

(* Starting a fetch and joining one in flight keep the invariant.          *)
LEMMA JoinSteps ==
    ASSUME ArtifactInv, NEW t \in Task, FetchStart(t) \/ JoinFetch(t)
    PROVE  ArtifactInv'
<1>1. PICK m : m = task[t] /\ m \in TaskRecord /\ TaskInv(t)
  BY Zenon, TaskFields
<1>2. /\ m.at \in {"start", "cell"} /\ ~Wants(t).prefetch
      /\ UNCHANGED <<plan, prefetched, store, index>>
  BY <1>1 DEF FetchStart, JoinFetch, TaskInv, Fetching
<1>3. m.result # "ok"
  BY <1>1, <1>2 DEF TaskInv
<1>4. fetched \in FetchRecord /\ fetched' \in FetchRecord
  BY DEF ArtifactInv, FetchStart, JoinFetch, FetchRecord
<1>5. PICK r \in {[m EXCEPT !.at = "done", !.result = "NotFound"], [m EXCEPT !.at = "cell"],
                  [m EXCEPT !.at = "take", !.owner = TRUE],
                  [m EXCEPT !.at = "joined", !.blob = fetched.blob,
                            !.verified = fetched.verified]} : Becomes(t, r)
  BY <1>1 DEF FetchStart, JoinFetch, Ends
<1>6. r \in TaskRecord /\ r.result # "ok"
  <2>1. ASSUME r = [m EXCEPT !.at = "done", !.result = "NotFound"]
        PROVE  r \in TaskRecord /\ r.result # "ok"
    BY Zenon, <1>1, <2>1 DEF TaskRecord, Results
  <2>2. ASSUME r = [m EXCEPT !.at = "cell"] PROVE r \in TaskRecord /\ r.result # "ok"
    BY <1>1, <1>3, <2>2 DEF TaskRecord, Fetching
  <2>3. ASSUME r = [m EXCEPT !.at = "take", !.owner = TRUE]
        PROVE  r \in TaskRecord /\ r.result # "ok"
    BY Zenon, <1>1, <1>3, <2>3 DEF TaskRecord, Fetching
  <2>4. ASSUME r = [m EXCEPT !.at = "joined", !.blob = fetched.blob,
                             !.verified = fetched.verified]
        PROVE  r \in TaskRecord /\ r.result # "ok"
    <3>1. fetched.blob \in Blob \cup {NoBlob} /\ fetched.verified \in BOOLEAN
      BY <1>4 DEF FetchRecord
    <3>2. QED
      BY Zenon, <1>1, <1>3, <2>4, <3>1 DEF TaskRecord, Fetching
  <2>5. QED
    BY Zenon, <1>5, <2>1, <2>2, <2>3, <2>4
<1>7. index' \subseteq store' /\ prefetched' \in PrefetchRecord
  BY <1>2 DEF ArtifactInv, FetchesSound, PrefetchStoresNothing
<1>8. QED
  BY <1>1, <1>2, <1>4, <1>5, <1>6, <1>7, TaskStep

(* Judging the bytes of a fetch that was joined keeps the invariant.       *)
LEMMA AcceptJoinedStep ==
    ASSUME ArtifactInv, NEW t \in Task, AcceptJoined(t)
    PROVE  ArtifactInv'
<1>1. PICK m : m = task[t] /\ m \in TaskRecord /\ TaskInv(t)
  BY Zenon, TaskFields
<1>2. /\ m.at = "joined" /\ ~Wants(t).prefetch
      /\ UNCHANGED <<plan, prefetched, fetched, store>>
  BY <1>1 DEF AcceptJoined, TaskInv, Fetching
<1>3. m.result # "ok"
  BY <1>1, <1>2 DEF TaskInv
<1>4. prefetched' \in PrefetchRecord /\ fetched' \in FetchRecord /\ index \subseteq store
  BY <1>2 DEF ArtifactInv, FetchesSound, PrefetchStoresNothing
<1>5. CASE /\ Accepts(t, m.blob, m.verified) /\ m.blob \in store
           /\ index' = index \cup {m.blob} /\ Ends(t, "ok")
  <2>1. PICK r : r = [m EXCEPT !.at = "done", !.result = "ok"]
    OBVIOUS
  <2>2. /\ r \in TaskRecord /\ r.at = "done" /\ r.blob = m.blob /\ r.verified = m.verified
    BY Zenon, <1>1, <2>1 DEF TaskRecord, Results
  <2>3. Becomes(t, r) /\ index' \subseteq store' /\ r.at \notin Fetching
    BY <1>1, <1>2, <1>4, <1>5, <2>1, <2>2 DEF Ends, Fetching
  <2>4. QED
    BY <1>1, <1>2, <1>4, <1>5, <2>2, <2>3, TaskStep
<1>6. CASE Becomes(t, [m EXCEPT !.at = "take"]) /\ UNCHANGED index
  <2>1. PICK r : r = [m EXCEPT !.at = "take"]
    BY Zenon
  <2>2. r \in TaskRecord /\ r.result # "ok"
    BY <1>1, <1>3, <2>1 DEF TaskRecord, Fetching
  <2>3. Becomes(t, r) /\ index' \subseteq store'
    BY <1>2, <1>4, <1>6, <2>1
  <2>4. QED
    BY <1>1, <1>2, <1>4, <2>2, <2>3, TaskStep
<1>7. QED
  BY <1>1, <1>5, <1>6 DEF AcceptJoined, Accepts

(* The cell that a failed fetch frees has its type.                        *)
LEMMA FreesType ==
    ASSUME ArtifactInv, NEW t \in Task
    PROVE  fetched \in FetchRecord /\ Frees(t) \in FetchRecord
BY SMTT(60) DEF ArtifactInv, Frees, FetchRecord

(* Taking a prefetched copy and downloading keep the invariant.            *)
LEMMA DownloadSteps ==
    ASSUME ArtifactInv, NEW t \in Task,
           \/ TakePrefetched(t)
           \/ \E blob \in Blob, probe \in Probes : Downloads(t, blob, probe)
           \/ \E missing \in BOOLEAN : DownloadFails(t, missing)
    PROVE  ArtifactInv'
<1>1. PICK m : m = task[t] /\ m \in TaskRecord /\ TaskInv(t)
  BY Zenon, TaskFields
<1>2. /\ m.at \in {"take", "request"} /\ ~Wants(t).prefetch /\ UNCHANGED <<plan, store, index>>
  BY Zenon, <1>1 DEF TakePrefetched, Downloads, DownloadFails, TaskInv, Fetching
<1>3. m.result # "ok"
  BY SMTT(60), <1>1, <1>2 DEF TaskInv
<1>4. prefetched \in PrefetchRecord /\ prefetched' \in PrefetchRecord
  BY ZenonT(60) DEF ArtifactInv, TakePrefetched, Downloads, DownloadFails, PrefetchRecord
<1>5. fetched' \in FetchRecord
  BY Zenon, FreesType DEF TakePrefetched, Downloads, DownloadFails
<1>6. \E r \in TaskRecord : Becomes(t, r) /\ r.result # "ok"
  <2>1. CASE TakePrefetched(t)
    <3>1. PICK r \in {[m EXCEPT !.at = "done", !.result = "NotFound"],
                      [m EXCEPT !.at = "request"],
                      [m EXCEPT !.at = "check", !.blob = prefetched.blob,
                                !.probe = prefetched.probe]} : Becomes(t, r)
      BY <1>1, <2>1 DEF TakePrefetched, Ends
    <3>2. r \in TaskRecord /\ r.result # "ok"
      BY ZenonT(60), <1>1, <1>3, <1>4, <3>1 DEF TaskRecord, Fetching, Results, PrefetchRecord
    <3>3. QED
      BY Zenon, <3>1, <3>2
  <2>2. ASSUME NEW blob \in Blob, NEW probe \in Probes, Downloads(t, blob, probe)
        PROVE  \E r \in TaskRecord : Becomes(t, r) /\ r.result # "ok"
    <3>1. PICK answer \in Outcomes :
              answer = IF SkipPin(t) # NoBlob THEN "unasked" ELSE probe
      BY ProbeOutcomes DEF Outcomes
    <3>2. PICK r : r = [m EXCEPT !.at = "check", !.blob = blob, !.probe = answer]
      OBVIOUS
    <3>3. r \in TaskRecord /\ r.result # "ok"
      BY Zenon, <1>1, <1>3, <3>2 DEF TaskRecord, Fetching
    <3>4. Becomes(t, r)
      BY Zenon, <1>1, <2>2, <3>1, <3>2 DEF Downloads
    <3>5. QED
      BY Zenon, <3>3, <3>4
  <2>3. CASE \E missing \in BOOLEAN : DownloadFails(t, missing)
    <3>1. PICK r \in {[m EXCEPT !.at = "done", !.result = "NotFound"],
                      [m EXCEPT !.at = "done", !.result = "Failed"]} : Becomes(t, r)
      BY Zenon, <1>1, <2>3 DEF DownloadFails, Ends
    <3>2. r \in TaskRecord /\ r.result # "ok"
      BY ZenonT(60), <1>1, <3>1 DEF TaskRecord, Results
    <3>3. QED
      BY Zenon, <3>1, <3>2
  <2>4. QED
    BY Zenon, <2>1, <2>2, <2>3
<1>7. index' \subseteq store'
  BY <1>2 DEF ArtifactInv, FetchesSound, PrefetchStoresNothing
<1>8. QED
  BY <1>1, <1>2, <1>4, <1>5, <1>6, <1>7, TaskStep

(* publish_artifact keeps the invariant.                                   *)
LEMMA PublishStep ==
    ASSUME ArtifactInv, NEW t \in Task, NEW late \in Probes, Publish(t, late)
    PROVE  ArtifactInv'
<1>1. PICK m : m = task[t] /\ m \in TaskRecord /\ TaskInv(t)
  BY Zenon, TaskFields
<1>2. m.at = "check" /\ ~Wants(t).prefetch /\ UNCHANGED <<plan, prefetched>>
  BY <1>1 DEF Publish, TaskInv, Fetching
<1>3. m.result # "ok"
  BY <1>1, <1>2 DEF TaskInv
<1>4. PICK probe \in Outcomes :
          probe = IF m.probe # "unasked" THEN m.probe
                  ELSE IF RequiredBlob(t) # NoBlob
                          \/ (plan.lockPin # NoBlob /\ m.blob = plan.lockPin)
                       THEN "unasked" ELSE late
  BY <1>1, ProbeOutcomes DEF TaskRecord, Outcomes
<1>5. PICK verdict \in Results : verdict = Verdict(t, m.blob, probe)
  BY DEF Verdict, Results
<1>6. prefetched' \in PrefetchRecord /\ index \subseteq store
  BY <1>2 DEF ArtifactInv, FetchesSound, PrefetchStoresNothing
<1>7. CASE verdict = "ok"
  <2>1. PICK r : r = [m EXCEPT !.at = "done", !.result = "ok", !.verified = probe = "match"]
    OBVIOUS
  <2>2. /\ r \in TaskRecord /\ r.at = "done" /\ r.result = "ok" /\ r.blob = m.blob
        /\ r.verified = (probe = "match") /\ m.blob \in Blob \cup {NoBlob}
    BY Zenon, <1>1, <2>1 DEF TaskRecord, Results
  <2>3. /\ Becomes(t, r) /\ store' = store \cup {m.blob} /\ index' = index \cup {m.blob}
        /\ fetched' = IF m.owner THEN [state |-> "done", blob |-> m.blob,
                                       verified |-> probe = "match"]
                      ELSE fetched
    BY SMTT(60), <1>1, <1>4, <1>5, <1>7, <2>1 DEF Publish
  <2>4. fetched' \in FetchRecord
    BY <2>2, <2>3, FreesType DEF FetchRecord
  <2>5. Accepts(t, r.blob, r.verified)
    BY ZenonT(60), <1>5, <1>7, <2>2, VerdictAccepts
  <2>6. index' \subseteq store' /\ r.at \notin Fetching
    BY <1>6, <2>2, <2>3 DEF Fetching
  <2>7. QED
    BY <1>1, <1>2, <1>6, <2>2, <2>3, <2>4, <2>5, <2>6, TaskStep
<1>8. CASE verdict # "ok"
  <2>1. PICK r : r = [m EXCEPT !.at = "done", !.result = verdict]
    OBVIOUS
  <2>2. r \in TaskRecord /\ r.at = "done" /\ r.result = verdict
    BY Zenon, <1>1, <1>5, <2>1 DEF TaskRecord
  <2>3. Becomes(t, r) /\ fetched' = Frees(t) /\ UNCHANGED <<store, index>>
    BY <1>1, <1>4, <1>5, <1>8, <2>1 DEF Publish, Ends
  <2>4. fetched' \in FetchRecord /\ index' \subseteq store' /\ r.at \notin Fetching
    BY <1>6, <2>2, <2>3, FreesType DEF Fetching
  <2>5. QED
    BY <1>1, <1>2, <1>6, <1>8, <2>2, <2>3, <2>4, TaskStep
<1>9. QED
  BY Zenon, <1>7, <1>8

(* A collection of the store keeps the invariant.                          *)
LEMMA CollectStep ==
    ASSUME ArtifactInv, NEW blob \in Blob, Collect(blob)
    PROVE  ArtifactInv'
<1>1. /\ UNCHANGED <<plan, prefetched, fetched, task>>
      /\ store' = store \ {blob} /\ index' = index \ {blob}
  BY SMTT(60) DEF Collect
<1>2. \A u \in Task : Wants(u)' = Wants(u) /\ RequiredBlob(u)' = RequiredBlob(u)
  BY <1>1 DEF Wants, RequiredBlob
<1>3. \A u \in Task : TaskInv(u)'
  BY Zenon, <1>1, <1>2 DEF ArtifactInv, TaskInv
<1>4. FetchAccepts'
  BY Zenon, <1>1, <1>2 DEF ArtifactInv, FetchesSound, FetchAccepts
<1>5. PrefetchStoresNothing'
  <2>1. ASSUME \A u \in Task : ~Wants(u).prefetch => task[u].result # "ok" PROVE store = {}
    BY Zenon, <2>1 DEF ArtifactInv, FetchesSound, PrefetchStoresNothing
  <2>2. index \subseteq store
    BY Zenon DEF ArtifactInv, FetchesSound, PrefetchStoresNothing
  <2>3. QED
    BY Zenon, <1>1, <1>2, <2>1, <2>2 DEF PrefetchStoresNothing
<1>6. QED
  BY Zenon, <1>1, <1>3, <1>4, <1>5 DEF ArtifactInv, FetchesSound

(* The invariant holds initially.                                          *)
LEMMA ArtifactInitInv == ArtifactInit => ArtifactInv
<1>1. SUFFICES ASSUME ArtifactInit PROVE ArtifactInv
  OBVIOUS
<1>2. NewTask \in TaskRecord
  BY DEF NewTask, TaskRecord, Outcomes, Results
<1>3. task = [t \in Task |-> NewTask] /\ store = {} /\ index = {} /\ plan \in Plans
  BY <1>1 DEF ArtifactInit
<1>4. \A t \in Task : task[t].result = "none" /\ task[t].at = "start"
  BY <1>3 DEF NewTask
<1>5. prefetched \in PrefetchRecord /\ fetched \in FetchRecord
  BY SMTT(60), <1>1 DEF ArtifactInit, PrefetchRecord, FetchRecord, Outcomes
<1>6. FetchesSound
  BY SMTT(60), <1>3, <1>4 DEF FetchesSound, FetchAccepts, PrefetchStoresNothing
<1>7. \A t \in Task : TaskInv(t)
  BY <1>4 DEF TaskInv, Fetching
<1>8. task \in [Task -> TaskRecord]
  BY <1>2, <1>3
<1>9. QED
  BY Zenon, <1>3, <1>5, <1>6, <1>7, <1>8 DEF ArtifactInv

(* Every step keeps it.                                                    *)
LEMMA ArtifactStepInv == ArtifactInv /\ [ArtifactNext]_artifactVars => ArtifactInv'
<1>1. SUFFICES ASSUME ArtifactInv, [ArtifactNext]_artifactVars PROVE ArtifactInv'
  OBVIOUS
<1>2. ASSUME NEW t \in Task, ArtifactStep(t) PROVE ArtifactInv'
  <2>1. CASE \/ PrefetchStart(t)
             \/ \E blob \in Blob, probe \in Probes : PrefetchArrives(t, blob, probe)
             \/ \E missing \in BOOLEAN : PrefetchFails(t, missing)
    BY Zenon, <1>1, <2>1, PrefetchSteps
  <2>2. CASE FetchStart(t) \/ JoinFetch(t)
    BY Zenon, <1>1, <2>2, JoinSteps
  <2>3. CASE AcceptJoined(t)
    BY Zenon, <1>1, <2>3, AcceptJoinedStep
  <2>4. CASE \/ TakePrefetched(t)
             \/ \E blob \in Blob, probe \in Probes : Downloads(t, blob, probe)
             \/ \E missing \in BOOLEAN : DownloadFails(t, missing)
    BY Zenon, <1>1, <2>4, DownloadSteps
  <2>5. CASE \E late \in Probes : Publish(t, late)
    BY Zenon, <1>1, <2>5, PublishStep
  <2>6. QED
    BY Zenon, <1>2, <2>1, <2>2, <2>3, <2>4, <2>5 DEF ArtifactStep
<1>3. ASSUME NEW blob \in Blob, Collect(blob) PROVE ArtifactInv'
  BY Zenon, <1>1, <1>3, CollectStep
<1>4. CASE UNCHANGED artifactVars
  <2>1. UNCHANGED <<plan, prefetched, fetched, store, index, task>>
    BY <1>4 DEF artifactVars
  <2>2. \A u \in Task : Wants(u)' = Wants(u) /\ RequiredBlob(u)' = RequiredBlob(u)
    BY <2>1 DEF Wants, RequiredBlob
  <2>3. QED
    BY Zenon, <1>1, <2>1, <2>2
       DEF ArtifactInv, TaskInv, FetchesSound, FetchAccepts, PrefetchStoresNothing
<1>5. QED
  BY Zenon, <1>1, <1>2, <1>3, <1>4 DEF ArtifactNext

(* Whatever the repository serves and however prefetches, fetches and      *)
(* collections of the store interleave, a fetch returns only bytes its own *)
(* pin or checksum accepts, nothing a prefetch downloaded is stored before *)
(* a fetch accepts a file, and the index names only stored blobs           *)
(* (fetch_artifact_once and publish_artifact).                             *)
THEOREM FetchesAlwaysSound == ArtifactSpec => []FetchesSound
<1>1. ArtifactInv => FetchesSound
  BY Zenon DEF ArtifactInv
<1>2. QED
  BY ArtifactInitInv, ArtifactStepInv, <1>1, PTL DEF ArtifactSpec

(***************************************************************************)
(* Transport                                                               *)
(***************************************************************************)

Kinds == {"none", "refused", "configured", "root", "runtime", "screened", "direct"}
Chosen == {"connect", "connected", "screened"}
ClientRecord == [kind : Kinds] \cup [kind : {"root"}, origin : net.urls]
Reached == [url : net.urls, at : {"public", "private"}, proxied : BOOLEAN]
SendRecord == [pc : {"idle", "choose", "ended"} \cup Chosen, urls : Seq(net.urls),
               client : ClientRecord, reached : SUBSET Reached, sawTrust : BOOLEAN]
GrantRecord == [pc : {"idle"}, left : SUBSET net.grants]
               \cup [pc : {"idle", "origin", "issuer"}, url : net.urls, fetched : BOOLEAN,
                     left : SUBSET net.grants]

(* A host is exempt before its origin is trusted, and an origin is trusted *)
(* before it may redirect, at each step of a grant.                        *)
TrustInv ==
    /\ net \in Network
    /\ grant \in GrantRecord
    /\ trustedOrigins \subseteq net.urls
    /\ net.configured \subseteq trustedOrigins
    /\ ConfiguredHosts \subseteq trustedHosts
    /\ \A u \in trustedOrigins : u.host \in trustedHosts
    /\ rootIssuers \subseteq trustedOrigins
    /\ grant.pc # "idle" => grant.url \in net.urls /\ grant.url.host \in trustedHosts
    /\ grant.pc = "issuer" => grant.url \in trustedOrigins

(* What the choice of a client established of the request's own URL: it    *)
(* stays true, as the trusted sets only grow.                              *)
ClientInv ==
    /\ send.pc = "choose" => Len(send.urls) = 1 /\ send.reached = {}
    /\ send.pc # "idle" => send.urls # <<>>
    /\ send.pc = "idle" => send = Unsent
    /\ send.pc \in Chosen => send.client.kind \notin {"none", "refused"}
    /\ send.client.kind = "configured" => First \in net.configured
    /\ send.client.kind = "root" => send.client.origin = First /\ First \in rootIssuers
    /\ send.client.kind = "runtime" => First \in trustedOrigins
    /\ send.client.kind \in {"screened", "direct"} =>
          ~(Literal(First) /\ First.host \in net.private)
    /\ send.client.kind = "screened" => ~(First.host \in ProxyHosts /\ ~Carried(First))

(* What ScreenTarget says of a target when the client may redirect: the    *)
(* sets it reads are frozen, so the connection made later finds it still.  *)
Passed(u) ==
    \/ u \in net.configured
    \/ Literal(u) /\ u.host \notin net.private
    \/ /\ ~Literal(u) /\ ~Carried(u) /\ u.host \notin ConfiguredHosts
       /\ send.client.kind = "root" => u.host # send.client.origin.host

(* A chain that left its first origin stays where it went.                 *)
ChainInv ==
    /\ \A m, n \in 1..Len(send.urls) :
          m <= n /\ send.urls[m] # First => send.urls[n] = send.urls[m]
    /\ send.urls # <<>> /\ Here(send) # First => Crossed(send.urls)
    /\ \A n \in 1..Len(send.urls) :
          send.urls[n] # First =>
             /\ send.client.kind \in {"configured", "root"}
             /\ Https(First) /\ Https(send.urls[n])
             /\ Passed(send.urls[n])

ReachedInv == PrivateOnlyWhereNamed /\ ProxiedRedirectsConfigured /\ GrantHonoured

TransportInv == TrustInv /\ send \in SendRecord /\ ClientInv /\ ChainInv /\ ReachedInv

-----------------------------------------------------------------------------
(* The configuration does not change, and with it the proxies.             *)
LEMMA NetFixed ==
    ASSUME UNCHANGED net
    PROVE  /\ ProxyHosts' = ProxyHosts /\ ConfiguredHosts' = ConfiguredHosts
           /\ \A u : Literal(u)' <=> Literal(u)
           /\ \A u : Carried(u)' <=> Carried(u)
<1>1. ProxyHosts' = ProxyHosts
  BY DEF ProxyHosts
<1>2. ConfiguredHosts' = ConfiguredHosts
  BY <1>1 DEF ConfiguredHosts
<1>3. \A u : Literal(u)' <=> Literal(u)
  BY DEF Literal
<1>4. \A u : Carried(u)' <=> Carried(u)
  BY DEF Carried, SelectProxy, ProxyCarries, Https
<1>5. QED
  BY <1>1, <1>2, <1>3, <1>4

(* A chosen proxy is one of the configured ones.                           *)
LEMMA SelectedConfigured ==
    ASSUME NEW u
    PROVE  /\ {net.proxies[n].host : n \in SelectProxy(u)} \subseteq ProxyHosts
           /\ ProxyHosts \subseteq ConfiguredHosts
<1>1. SelectProxy(u) \subseteq DOMAIN net.proxies
  BY DEF SelectProxy
<1>2. QED
  BY <1>1 DEF ProxyHosts, ConfiguredHosts

(* A chain of URLs starts and grows with URLs.                             *)
LEMMA UrlSequences ==
    ASSUME NEW S, NEW x \in S, NEW s \in Seq(S)
    PROVE  <<x>> \in Seq(S) /\ Append(s, x) \in Seq(S)
OBVIOUS

(* No URL of a network is left out of what a request may name.             *)
LEMMA ConfiguredUrls ==
    ASSUME net \in Network
    PROVE  net.configured \subseteq net.urls /\ net.grants \subseteq net.urls \X BOOLEAN
BY NetworkAssumption

(* The invariant holds before any request is sent.                         *)
LEMMA TransportInitInv == TransportInit => TransportInv
<1>1. SUFFICES ASSUME TransportInit PROVE TransportInv
  OBVIOUS
<1>2. /\ net \in Network /\ trustedHosts = ConfiguredHosts /\ trustedOrigins = net.configured
      /\ rootIssuers = {} /\ grant = [pc |-> "idle", left |-> net.grants] /\ send = Unsent
  BY <1>1 DEF TransportInit
<1>3. \A u \in net.configured : u.host \in ConfiguredHosts
  BY DEF ConfiguredHosts
<1>4. TrustInv
  BY <1>2, <1>3, ConfiguredUrls DEF TrustInv, GrantRecord
<1>5. /\ send.pc = "idle" /\ send.urls = <<>> /\ send.client = [kind |-> "none"]
      /\ send.reached = {} /\ send.sawTrust = FALSE /\ send.client.kind = "none"
  BY <1>2 DEF Unsent
<1>6. send \in SendRecord
  <2>1. send.urls \in Seq(net.urls)
    BY <1>5
  <2>2. send.client \in ClientRecord
    BY <1>5 DEF ClientRecord, Kinds
  <2>3. QED
    BY <1>2, <2>1, <2>2 DEF SendRecord, Unsent, Chosen
<1>7. ClientInv
  BY <1>2, <1>5 DEF ClientInv, Chosen
<1>8. ChainInv
  BY <1>5 DEF ChainInv
<1>9. ReachedInv
  BY <1>5 DEF ReachedInv, PrivateOnlyWhereNamed, ProxiedRedirectsConfigured, GrantHonoured
<1>10. QED
  BY <1>4, <1>6, <1>7, <1>8, <1>9 DEF TransportInv

-----------------------------------------------------------------------------
(* Grants                                                                  *)

(* A step that leaves the request alone and takes no trust back keeps what *)
(* the request relies on.                                                  *)
LEMMA RequestUntouched ==
    ASSUME TransportInv, UNCHANGED <<net, send>>, TrustInv',
           trustedOrigins \subseteq trustedOrigins', rootIssuers \subseteq rootIssuers'
    PROVE  TransportInv'
<1>1. TrustInv /\ send \in SendRecord /\ ClientInv /\ ChainInv /\ ReachedInv
  BY DEF TransportInv
<1>2. First' = First /\ net' = net /\ send' = send
  BY DEF First
<1>3. (send \in SendRecord)'
  BY <1>1, <1>2 DEF SendRecord, ClientRecord, Reached
<1>4. ClientInv'
  BY <1>1, <1>2, NetFixed DEF ClientInv, Unsent
<1>5. \A u : Passed(u) => Passed(u)'
  BY <1>2, NetFixed DEF Passed
<1>6. ChainInv'
  BY <1>1, <1>2, <1>5 DEF ChainInv, Here, Crossed, Https
<1>7. ReachedInv'
  BY <1>1, <1>2, NetFixed
     DEF ReachedInv, PrivateOnlyWhereNamed, ProxiedRedirectsConfigured, GrantHonoured
<1>8. QED
  BY <1>3, <1>4, <1>6, <1>7 DEF TransportInv

(* A grant marks the host before the origin, and the origin before it may  *)
(* redirect.                                                               *)
LEMMA GrantSteps ==
    ASSUME TransportInv,
           (\E g \in grant.left : GrantHost(g[1], g[2])) \/ GrantOrigin \/ AuthorizeIssuer
    PROVE  TransportInv'
<1>1. TrustInv
  BY DEF TransportInv
<1>2. UNCHANGED <<net, send>> /\ ConfiguredHosts' = ConfiguredHosts
  <2>1. UNCHANGED <<net, send>>
    BY DEF GrantHost, GrantOrigin, AuthorizeIssuer
  <2>2. QED
    BY <2>1, NetFixed
<1>3. grant.left \subseteq net.grants /\ net.grants \subseteq net.urls \X BOOLEAN
  BY <1>1, ConfiguredUrls DEF TrustInv, GrantRecord
<1>4. ASSUME NEW g \in grant.left, GrantHost(g[1], g[2])
      PROVE  /\ TrustInv'
             /\ trustedOrigins \subseteq trustedOrigins' /\ rootIssuers \subseteq rootIssuers'
  <2>1. g[1] \in net.urls /\ g[2] \in BOOLEAN
    BY <1>3
  <2>2. /\ trustedHosts' = trustedHosts \cup {g[1].host}
        /\ trustedOrigins' = trustedOrigins /\ rootIssuers' = rootIssuers
        /\ grant' = [pc |-> "origin", url |-> g[1], fetched |-> g[2],
                     left |-> grant.left \ {<<g[1], g[2]>>}]
    BY <1>4 DEF GrantHost
  <2>3. grant' \in GrantRecord'
    BY <1>2, <1>3, <2>1, <2>2 DEF GrantRecord
  <2>4. grant'.pc = "origin" /\ grant'.url = g[1]
    BY <2>2
  <2>5. QED
    BY <1>1, <1>2, <2>1, <2>2, <2>3, <2>4 DEF TrustInv
<1>5. ASSUME GrantOrigin
      PROVE  /\ TrustInv'
             /\ trustedOrigins \subseteq trustedOrigins' /\ rootIssuers \subseteq rootIssuers'
  <2>1. /\ grant.pc = "origin" /\ trustedOrigins' = trustedOrigins \cup {grant.url}
        /\ trustedHosts' = trustedHosts /\ rootIssuers' = rootIssuers
        /\ grant' = [grant EXCEPT !.pc = IF grant.fetched THEN "idle" ELSE "issuer"]
    BY <1>5 DEF GrantOrigin
  <2>2. /\ grant \in [pc : {"idle", "origin", "issuer"}, url : net.urls, fetched : BOOLEAN,
                      left : SUBSET net.grants]
        /\ grant.url \in net.urls /\ grant.url.host \in trustedHosts
    BY <1>1, <2>1 DEF TrustInv, GrantRecord
  <2>3. grant' \in GrantRecord' /\ grant'.url = grant.url
    BY <1>2, <2>1, <2>2 DEF GrantRecord
  <2>4. QED
    BY <1>1, <1>2, <2>1, <2>2, <2>3 DEF TrustInv
<1>6. ASSUME AuthorizeIssuer
      PROVE  /\ TrustInv'
             /\ trustedOrigins \subseteq trustedOrigins' /\ rootIssuers \subseteq rootIssuers'
  <2>1. /\ grant.pc = "issuer" /\ rootIssuers' = rootIssuers \cup {grant.url}
        /\ trustedHosts' = trustedHosts /\ trustedOrigins' = trustedOrigins
        /\ grant' = [grant EXCEPT !.pc = "idle"]
    BY <1>6 DEF AuthorizeIssuer
  <2>2. /\ grant \in [pc : {"idle", "origin", "issuer"}, url : net.urls, fetched : BOOLEAN,
                      left : SUBSET net.grants]
        /\ grant.url \in trustedOrigins
    BY <1>1, <2>1 DEF TrustInv, GrantRecord
  <2>3. grant' \in GrantRecord' /\ grant'.pc = "idle"
    BY <1>2, <2>1, <2>2 DEF GrantRecord
  <2>4. QED
    BY <1>1, <1>2, <2>1, <2>2, <2>3 DEF TrustInv
<1>7. QED
  BY <1>2, <1>4, <1>5, <1>6, RequestUntouched

-----------------------------------------------------------------------------
(* Requests                                                                *)

(* A step of the request changes no grant.                                 *)
LEMMA TrustUntouched ==
    ASSUME TransportInv, UNCHANGED <<net, trustedHosts, trustedOrigins, rootIssuers, grant>>
    PROVE  TrustInv'
<1>1. TrustInv /\ ConfiguredHosts' = ConfiguredHosts
  BY NetFixed DEF TransportInv
<1>2. QED
  BY <1>1 DEF TrustInv, GrantRecord

(* A chain of one URL has crossed nothing.                                 *)
LEMMA OneUrl ==
    ASSUME send' \in SendRecord', Len(send'.urls) = 1
    PROVE  ChainInv'
<1>1. 1..Len(send'.urls) = {1} /\ Here(send)' = First'
  BY DEF Here, First
<1>2. QED
  BY <1>1 DEF ChainInv, First

(* client_for looks for a root issuer first.                               *)
LEMMA ChooseRootStep ==
    ASSUME TransportInv, NEW u \in net.urls, ChooseRoot(u)
    PROVE  TransportInv'
<1>1. /\ UNCHANGED <<net, trustedHosts, trustedOrigins, rootIssuers, grant>>
      /\ send.pc = "idle"
      /\ send' = IF u \in rootIssuers
                 THEN [send EXCEPT !.pc = "connect", !.urls = <<u>>,
                                   !.client = [kind |-> "root", origin |-> u]]
                 ELSE [send EXCEPT !.pc = "choose", !.urls = <<u>>]
  BY DEF ChooseRoot
<1>2. TrustInv' /\ ClientInv /\ send \in SendRecord
  BY <1>1, TrustUntouched DEF TransportInv
<1>3. send = Unsent
  BY <1>1, <1>2 DEF ClientInv
<1>4. /\ send'.urls = <<u>> /\ send'.reached = {}
      /\ \/ /\ u \in rootIssuers /\ send'.pc = "connect"
            /\ send'.client = [kind |-> "root", origin |-> u]
         \/ send'.pc = "choose" /\ send'.client = [kind |-> "none"]
  BY <1>1, <1>3 DEF Unsent
<1>5. send' \in SendRecord'
  <2>1. <<u>> \in Seq(net.urls)
    BY <1>2, UrlSequences DEF SendRecord
  <2>2. [kind |-> "root", origin |-> u] \in ClientRecord
    BY DEF ClientRecord
  <2>3. send' \in SendRecord
    BY <1>1, <1>2, <2>1, <2>2 DEF SendRecord, Chosen
  <2>4. QED
    BY <1>1, <2>3 DEF SendRecord, ClientRecord, Reached
<1>6. First' = u /\ Len(send'.urls) = 1 /\ send'.urls # <<>>
  BY <1>4 DEF First
<1>7. ClientInv'
  <2>1. CASE /\ u \in rootIssuers /\ send'.pc = "connect"
             /\ send'.client = [kind |-> "root", origin |-> u]
    <3>1. send'.client.kind = "root" /\ send'.client.origin = u
      BY <2>1
    <3>2. QED
      BY <1>1, <1>6, <2>1, <3>1 DEF ClientInv, Chosen
  <2>2. CASE send'.pc = "choose" /\ send'.client = [kind |-> "none"]
    <3>1. send'.client.kind = "none"
      BY <2>2
    <3>2. QED
      BY <1>4, <1>6, <2>2, <3>1 DEF ClientInv, Chosen
  <2>3. QED
    BY <1>4, <2>1, <2>2
<1>8. ChainInv'
  BY <1>5, <1>6, OneUrl
<1>9. ReachedInv'
  <2>1. send'.pc # "screened"
    BY <1>4
  <2>2. QED
    BY <1>4, <2>1 DEF ReachedInv, PrivateOnlyWhereNamed, ProxiedRedirectsConfigured, GrantHonoured
<1>10. QED
  BY <1>2, <1>5, <1>7, <1>8, <1>9 DEF TransportInv

(* The choice of a client for a request.                                   *)
LEMMA ChooseStep ==
    ASSUME TransportInv, Choose
    PROVE  TransportInv'
<1> DEFINE kind == ClientFor(Here(send))
<1>1. /\ UNCHANGED <<net, trustedHosts, trustedOrigins, rootIssuers, grant>>
      /\ send.pc = "choose"
      /\ send' = [send EXCEPT !.pc = IF kind = "refused" THEN "ended" ELSE "connect",
                              !.client = [kind |-> kind],
                              !.sawTrust = Here(send) \in trustedOrigins]
  BY DEF Choose
<1>2. TrustInv /\ TrustInv' /\ ClientInv /\ send \in SendRecord
  BY <1>1, TrustUntouched DEF TransportInv
<1>3. Len(send.urls) = 1 /\ send.reached = {} /\ send.urls # <<>> /\ Here(send) = First
  BY <1>1, <1>2 DEF ClientInv, Here, First
<1>4. /\ kind \in {"refused", "configured", "runtime", "screened", "direct"}
      /\ kind = "configured" => First \in net.configured
      /\ kind = "runtime" => First \in trustedOrigins
      /\ kind \in {"screened", "direct"} => ~(Literal(First) /\ First.host \in net.private)
      /\ kind = "screened" => ~(First.host \in ProxyHosts /\ ~Carried(First))
  BY <1>2, <1>3 DEF ClientFor, TrustInv
<1> HIDE DEF kind
<1>5. send' \in SendRecord'
  <2>1. [kind |-> kind] \in ClientRecord /\ (Here(send) \in trustedOrigins) \in BOOLEAN
    BY <1>4 DEF ClientRecord, Kinds
  <2>2. (IF kind = "refused" THEN "ended" ELSE "connect") \in {"idle", "choose", "ended"} \cup Chosen
    BY DEF Chosen
  <2>3. send' \in SendRecord
    BY <1>1, <1>2, <2>1, <2>2 DEF SendRecord
  <2>4. QED
    BY <1>1, <2>3 DEF SendRecord, ClientRecord, Reached
<1>6. /\ send'.urls = send.urls /\ send'.reached = {} /\ send'.client = [kind |-> kind]
      /\ send'.pc = IF kind = "refused" THEN "ended" ELSE "connect"
  BY <1>1, <1>2, <1>3 DEF SendRecord
<1>7. First' = First /\ send'.client.kind = kind
  BY <1>6 DEF First
<1>8. ClientInv'
  BY <1>1, <1>3, <1>4, <1>6, <1>7, NetFixed DEF ClientInv, Chosen
<1>9. ChainInv'
  BY <1>3, <1>5, <1>6, OneUrl
<1>10. ReachedInv'
  <2>1. send'.pc # "screened"
    BY <1>6
  <2>2. QED
    BY <1>6, <2>1 DEF ReachedInv, PrivateOnlyWhereNamed, ProxiedRedirectsConfigured, GrantHonoured
<1>11. QED
  BY <1>2, <1>5, <1>8, <1>9, <1>10 DEF TransportInv

(* A step that keeps the request's client and its URLs keeps the chain.    *)
LEMMA ChainUntouched ==
    ASSUME TransportInv, UNCHANGED net, send'.urls = send.urls, send'.client = send.client
    PROVE  ChainInv'
<1>1. ChainInv /\ First' = First /\ (Here(send)' = Here(send))
  BY DEF TransportInv, First, Here
<1>2. \A u : Passed(u) => Passed(u)'
  BY NetFixed DEF Passed
<1>3. Crossed(send.urls)' <=> Crossed(send.urls)
  BY DEF Crossed
<1>4. QED
  BY <1>1, <1>2, <1>3 DEF ChainInv, Https

(* And, once a client is chosen, what the choice established.              *)
LEMMA ClientUntouched ==
    ASSUME TransportInv, UNCHANGED <<net, trustedHosts, trustedOrigins, rootIssuers, grant>>,
           send.pc \in Chosen, send'.pc \in Chosen \cup {"ended"}, send'.urls # <<>>,
           First' = First, send'.client = send.client
    PROVE  ClientInv'
<1>1. ClientInv
  BY DEF TransportInv
<1>2. QED
  BY <1>1, NetFixed DEF ClientInv, Chosen

(* A direct connection that the address screen let pass to a private host  *)
(* goes where the user, or a grant, said.                                  *)
LEMMA PrivateNamed ==
    ASSUME TransportInv, send.pc = "connect", Here(send).host \in net.private,
           ~UsesProxy(send.client, Here(send)),
           Literal(Here(send)) \/ Here(send).host \in ExemptHosts(send.client)
    PROVE  \/ Here(send) \in net.configured
           \/ Here(send) = First /\ Here(send) \in trustedOrigins \cup rootIssuers
<1> DEFINE u == Here(send)
<1>1. /\ ClientInv /\ ChainInv /\ send.urls # <<>> /\ send.urls \in Seq(net.urls)
      /\ send.client \in ClientRecord
  BY DEF TransportInv, ClientInv, SendRecord
<1>2. send.client.kind \in {"configured", "root", "runtime", "screened", "direct"}
  BY <1>1 DEF ClientInv, ClientRecord, Kinds, Chosen
<1>3. Len(send.urls) \in 1..Len(send.urls)
  BY <1>1
<1>4. send.client.kind # "direct" => ~Carried(u)
  BY DEF UsesProxy
<1>5. CASE u = First
  <2>1. CASE send.client.kind = "configured"
    BY <1>1, <1>5, <2>1 DEF ClientInv
  <2>2. CASE send.client.kind = "root"
    BY <1>1, <1>5, <2>2 DEF ClientInv
  <2>3. CASE send.client.kind = "runtime"
    BY <1>1, <1>5, <2>3 DEF ClientInv
  <2>4. CASE send.client.kind = "screened"
    <3>1. ExemptHosts(send.client) = ProxyHosts
      BY <2>4 DEF ExemptHosts
    <3>2. QED
      BY <1>1, <1>4, <1>5, <2>4, <3>1 DEF ClientInv
  <2>5. CASE send.client.kind = "direct"
    <3>1. ExemptHosts(send.client) = {}
      BY <2>5 DEF ExemptHosts
    <3>2. QED
      BY <1>1, <1>5, <2>5, <3>1 DEF ClientInv
  <2>6. QED
    BY <1>2, <2>1, <2>2, <2>3, <2>4, <2>5
<1>6. CASE u # First
  <2>1. send.client.kind \in {"configured", "root"} /\ Passed(u)
    BY <1>1, <1>3, <1>6 DEF ChainInv, Here
  <2>2. ExemptHosts(send.client) \subseteq ConfiguredHosts
            \cup (IF send.client.kind = "root" THEN {send.client.origin.host} ELSE {})
    BY <2>1 DEF ExemptHosts
  <2>3. QED
    BY <2>1, <2>2 DEF Passed
<1>7. QED
  BY <1>5, <1>6

(* A connection reaches only what its client may reach.                    *)
LEMMA ConnectStep ==
    ASSUME TransportInv, Connect
    PROVE  TransportInv'
<1> DEFINE u == Here(send)
           byProxy == UsesProxy(send.client, u)
           dialed == IF byProxy THEN {net.proxies[n].host : n \in SelectProxy(u)} ELSE {u.host}
<1>1. /\ UNCHANGED <<net, trustedHosts, trustedOrigins, rootIssuers, grant>>
      /\ send.pc = "connect"
  BY DEF Connect
<1>2. PICK host \in dialed, at \in {"public", "private"} :
        /\ at = "private" => host \in net.private
        /\ IF /\ at = "private" /\ host \notin net.literals
              /\ host \notin ExemptHosts(send.client)
           THEN send' = [send EXCEPT !.pc = "screened"]
           ELSE send' = [send EXCEPT !.pc = "connected",
                    !.reached = @ \cup {[url |-> u, at |-> at, proxied |-> byProxy]}]
  BY DEF Connect
<1>3. TrustInv /\ TrustInv' /\ send \in SendRecord /\ ClientInv /\ ChainInv /\ ReachedInv
  BY <1>1, TrustUntouched DEF TransportInv
<1>4. send.urls \in Seq(net.urls) /\ send.urls # <<>> /\ send.reached \in SUBSET Reached
  BY <1>1, <1>3 DEF SendRecord, ClientInv
<1>5. u \in net.urls /\ Len(send.urls) \in 1..Len(send.urls)
  BY <1>4 DEF Here
<1>6. byProxy \in BOOLEAN
  BY DEF UsesProxy
<1>7. [url |-> u, at |-> at, proxied |-> byProxy] \in Reached
  BY <1>5, <1>6 DEF Reached
<1> DEFINE new == [url |-> u, at |-> at, proxied |-> byProxy]
<1>8. /\ send'.urls = send.urls /\ send'.client = send.client
      /\ send'.pc \in {"screened", "connected"}
      /\ send' \in SendRecord
  <2>1. CASE send' = [send EXCEPT !.pc = "screened"]
    BY <1>3, <2>1 DEF SendRecord, Chosen
  <2>2. CASE send' = [send EXCEPT !.pc = "connected", !.reached = @ \cup {new}]
    <3>1. send.reached \cup {new} \in SUBSET Reached
      BY <1>4, <1>7
    <3>2. QED
      BY <1>3, <2>2, <3>1 DEF SendRecord, Chosen
  <2>3. QED
    BY <1>2, <2>1, <2>2
<1>9. send' \in SendRecord' /\ First' = First
  BY <1>1, <1>8 DEF SendRecord, ClientRecord, Reached, First
<1>10. ClientInv' /\ ChainInv'
  BY <1>1, <1>4, <1>8, <1>9, ClientUntouched, ChainUntouched DEF Chosen
<1>11. CASE /\ at = "private" /\ host \notin net.literals
            /\ host \notin ExemptHosts(send.client)
  <2>1. send' = [send EXCEPT !.pc = "screened"]
    BY <1>2, <1>11
  <2>2. send'.reached = send.reached /\ send'.pc = "screened"
    BY <1>3, <2>1 DEF SendRecord
  <2>3. PrivateOnlyWhereNamed' /\ ProxiedRedirectsConfigured'
    BY <1>1, <1>3, <1>9, <2>2, NetFixed
       DEF ReachedInv, PrivateOnlyWhereNamed, ProxiedRedirectsConfigured
  <2>4. ~(Len(send.urls) = 1 /\ send.client.kind = "runtime")
    <3>1. SUFFICES ASSUME Len(send.urls) = 1, send.client.kind = "runtime" PROVE FALSE
      OBVIOUS
    <3>2. u = First /\ First \in trustedOrigins
      BY <1>3, <3>1 DEF Here, First, ClientInv
    <3>3. First.host \in trustedHosts /\ ProxyHosts \subseteq trustedHosts
      BY <1>3, <3>2, SelectedConfigured DEF TrustInv
    <3>4. dialed \subseteq trustedHosts
      BY <3>2, <3>3, SelectedConfigured
    <3>5. ExemptHosts(send.client) = trustedHosts
      BY <3>1 DEF ExemptHosts
    <3>6. QED
      BY <1>2, <1>11, <3>4, <3>5
  <2>5. GrantHonoured'
    BY <1>8, <2>4 DEF GrantHonoured
  <2>6. QED
    BY <1>3, <1>9, <1>10, <2>3, <2>5 DEF TransportInv, ReachedInv
<1>12. CASE ~(/\ at = "private" /\ host \notin net.literals
              /\ host \notin ExemptHosts(send.client))
  <2>1. send' = [send EXCEPT !.pc = "connected", !.reached = @ \cup {new}]
    BY <1>2, <1>12
  <2>2. send'.reached = send.reached \cup {new} /\ send'.pc = "connected"
    BY <1>3, <2>1 DEF SendRecord
  <2>3. GrantHonoured'
    BY <2>2 DEF GrantHonoured
  <2>4. new.url = u /\ new.at = at /\ new.proxied = byProxy
    OBVIOUS
  <2>5. at = "private" /\ ~byProxy => \/ u \in net.configured
                                      \/ u = First /\ u \in trustedOrigins \cup rootIssuers
    <3>1. SUFFICES ASSUME at = "private", ~byProxy
                   PROVE  \/ u \in net.configured
                          \/ u = First /\ u \in trustedOrigins \cup rootIssuers
      OBVIOUS
    <3>2. host = u.host /\ u.host \in net.private
      BY <1>2, <3>1
    <3>3. Literal(u) \/ u.host \in ExemptHosts(send.client)
      BY <1>12, <3>1, <3>2 DEF Literal
    <3>4. QED
      BY <1>1, <3>1, <3>2, <3>3, PrivateNamed
  <2>6. byProxy /\ u # First => u \in net.configured \/ (Literal(u) /\ u.host \notin net.private)
    <3>1. SUFFICES ASSUME byProxy, u # First
                   PROVE  u \in net.configured \/ (Literal(u) /\ u.host \notin net.private)
      OBVIOUS
    <3>2. Passed(u)
      BY <1>3, <1>5, <3>1 DEF ChainInv, Here
    <3>3. QED
      BY <3>1, <3>2 DEF Passed, UsesProxy
  <2> HIDE DEF u, byProxy, dialed, new
  <2>7. PrivateOnlyWhereNamed'
    BY <1>1, <1>3, <1>9, <2>2, <2>4, <2>5 DEF ReachedInv, PrivateOnlyWhereNamed
  <2>8. ProxiedRedirectsConfigured'
    BY <1>1, <1>3, <1>9, <2>2, <2>4, <2>6, NetFixed DEF ReachedInv, ProxiedRedirectsConfigured
  <2>9. QED
    BY <1>3, <1>9, <1>10, <2>3, <2>7, <2>8 DEF TransportInv, ReachedInv
<1>13. QED
  BY <1>11, <1>12

(* A redirect that is followed stays in the chain's first origin, stays    *)
(* where the chain went, or leaves the first origin from a trusted issuer. *)
LEMMA FollowedChain ==
    ASSUME TransportInv, UNCHANGED net, NEW u \in net.urls,
           send.pc = "connected", Evaluate(send.client, send.urls, u),
           send'.urls = Append(send.urls, u), send'.client = send.client
    PROVE  ChainInv' /\ First' = First /\ send'.urls # <<>>
<1> DEFINE k == Len(send.urls)
<1>1. /\ ClientInv /\ ChainInv /\ send.urls # <<>> /\ send.urls \in Seq(net.urls)
      /\ send.client \in ClientRecord
  BY DEF TransportInv, ClientInv, SendRecord
<1>2. k \in Nat /\ k >= 1
  BY <1>1
<1>3. /\ Len(send'.urls) = k + 1 /\ send'.urls[k + 1] = u
      /\ \A n \in 1..k : send'.urls[n] = send.urls[n]
  BY <1>1
<1>4. First' = First /\ Here(send)' = u /\ Here(send) = send.urls[k] /\ send'.urls # <<>>
  BY <1>2, <1>3 DEF First, Here
<1>5. \/ send.urls[k] = u
      \/ /\ ~Crossed(send.urls) /\ send.urls[k] \in Issuers(send.client)
         /\ Https(send.urls[k]) /\ Https(u) /\ ScreenTarget(send.client, u)
  BY DEF Evaluate
<1>6. send.urls[k] # u => send.urls[k] = First
  BY <1>1, <1>4, <1>5 DEF ChainInv
<1>7. \A n \in 1..(k + 1) : n \in 1..k \/ n = k + 1
  BY <1>2
<1>8. \A n \in 1..k : send.urls[n] # First => send.urls[k] = send.urls[n] /\ u = send.urls[n]
  BY <1>1, <1>2, <1>6 DEF ChainInv
<1>9. \A m, n \in 1..(k + 1) :
         m <= n /\ send'.urls[m] # First => send'.urls[n] = send'.urls[m]
  <2>1. SUFFICES ASSUME NEW m \in 1..(k + 1), NEW n \in 1..(k + 1), m <= n, send'.urls[m] # First
                 PROVE  send'.urls[n] = send'.urls[m]
    OBVIOUS
  <2>2. CASE n \in 1..k
    <3>1. m \in 1..k
      BY <1>2, <2>1, <2>2
    <3>2. QED
      BY <1>1, <1>3, <2>1, <2>2, <3>1 DEF ChainInv
  <2>3. CASE n = k + 1
    BY <1>3, <1>7, <1>8, <2>1, <2>3
  <2>4. QED
    BY <1>7, <2>2, <2>3
<1>10. u # First => Crossed(send.urls)'
  <2>1. SUFFICES ASSUME u # First PROVE \E n \in 1..k : send'.urls[n] # send'.urls[n + 1]
    BY <1>2, <1>3 DEF Crossed
  <2>2. CASE send.urls[k] = u
    <3>1. Crossed(send.urls)
      BY <1>1, <1>4, <2>1, <2>2 DEF ChainInv
    <3>2. PICK n \in 1..(k - 1) : send.urls[n] # send.urls[n + 1]
      BY <3>1 DEF Crossed
    <3>3. n \in 1..k /\ n + 1 \in 1..k
      BY <1>2, <3>2
    <3>4. QED
      BY <1>3, <3>2, <3>3
  <2>3. CASE send.urls[k] # u
    BY <1>2, <1>3, <2>3
  <2>4. QED
    BY <2>2, <2>3
<1>11. \A v : Passed(v) => Passed(v)'
  BY NetFixed DEF Passed
<1>12. u # First => /\ send.client.kind \in {"configured", "root"}
                    /\ Https(First) /\ Https(u) /\ Passed(u)
  <2>1. CASE send.urls[k] = u
    BY <1>1, <1>2, <2>1 DEF ChainInv
  <2>2. CASE send.urls[k] # u
    <3>1. send.client.kind \in {"configured", "root"}
      BY <1>5, <2>2 DEF Issuers
    <3>2. Https(First) /\ Https(u) /\ ScreenTarget(send.client, u)
      BY <1>5, <1>6, <2>2
    <3>3. Passed(u)
      BY <3>1, <3>2 DEF ScreenTarget, Passed, RedirectOrigins, UsesProxy, ExemptHosts
    <3>4. QED
      BY <3>1, <3>2, <3>3
  <2>3. QED
    BY <2>1, <2>2
<1>13. \A n \in 1..(k + 1) :
         send'.urls[n] # First => /\ send.client.kind \in {"configured", "root"}
                                  /\ Https(First) /\ Https(send'.urls[n])
                                  /\ Passed(send'.urls[n])
  BY <1>1, <1>3, <1>7, <1>12 DEF ChainInv
<1>14. QED
  BY <1>3, <1>4, <1>9, <1>10, <1>11, <1>13 DEF ChainInv, Https

(* A redirect, which the client's policy follows or refuses                *)
(* (RedirectGuard::evaluate).                                              *)
LEMMA RedirectStep ==
    ASSUME TransportInv, NEW u \in net.urls, Redirect(u)
    PROVE  TransportInv'
<1>1. /\ UNCHANGED <<net, trustedHosts, trustedOrigins, rootIssuers, grant>>
      /\ send.pc = "connected"
      /\ send' = IF Evaluate(send.client, send.urls, u)
                 THEN [send EXCEPT !.pc = "connect", !.urls = Append(@, u)]
                 ELSE [send EXCEPT !.pc = "ended"]
  BY DEF Redirect
<1>2. TrustInv' /\ send \in SendRecord /\ ClientInv /\ ReachedInv
  BY <1>1, TrustUntouched DEF TransportInv
<1>3. send.urls \in Seq(net.urls) /\ send.urls # <<>>
  BY <1>1, <1>2 DEF SendRecord, ClientInv
<1>4. /\ send' \in SendRecord /\ send'.client = send.client /\ send'.reached = send.reached
      /\ send'.pc \in {"connect", "ended"}
  <2>1. Append(send.urls, u) \in Seq(net.urls)
    BY <1>3, UrlSequences
  <2>2. QED
    BY <1>1, <1>2, <2>1 DEF SendRecord, Chosen
<1>5. send' \in SendRecord'
  BY <1>1, <1>4 DEF SendRecord, ClientRecord, Reached
<1>6. ChainInv' /\ First' = First /\ send'.urls # <<>>
  <2>1. CASE Evaluate(send.client, send.urls, u)
    <3>1. send'.urls = Append(send.urls, u)
      BY <1>1, <1>2, <2>1 DEF SendRecord
    <3>2. QED
      BY <1>1, <1>4, <2>1, <3>1, FollowedChain
  <2>2. CASE ~Evaluate(send.client, send.urls, u)
    <3>1. send'.urls = send.urls
      BY <1>1, <1>2, <2>2 DEF SendRecord
    <3>2. QED
      BY <1>1, <1>3, <1>4, <3>1, ChainUntouched DEF First
  <2>3. QED
    BY <2>1, <2>2
<1>7. ClientInv'
  BY <1>1, <1>4, <1>6, ClientUntouched DEF Chosen
<1>8. ReachedInv'
  BY <1>1, <1>2, <1>4, <1>6, NetFixed
     DEF ReachedInv, PrivateOnlyWhereNamed, ProxiedRedirectsConfigured, GrantHonoured
<1>9. QED
  BY <1>2, <1>5, <1>6, <1>7, <1>8 DEF TransportInv

(* An answer ends the request.                                             *)
LEMMA RespondStep ==
    ASSUME TransportInv, Respond
    PROVE  TransportInv'
<1>1. /\ UNCHANGED <<net, trustedHosts, trustedOrigins, rootIssuers, grant>>
      /\ send.pc = "connected" /\ send' = [send EXCEPT !.pc = "ended"]
  BY DEF Respond
<1>2. TrustInv' /\ send \in SendRecord /\ ClientInv /\ ReachedInv
  BY <1>1, TrustUntouched DEF TransportInv
<1>3. /\ send' \in SendRecord /\ send'.client = send.client /\ send'.urls = send.urls
      /\ send'.reached = send.reached /\ send'.pc = "ended" /\ send.urls # <<>>
  BY <1>1, <1>2 DEF SendRecord, Chosen, ClientInv
<1>4. send' \in SendRecord' /\ First' = First
  BY <1>1, <1>3 DEF SendRecord, ClientRecord, Reached, First
<1>5. ClientInv' /\ ChainInv'
  BY <1>1, <1>3, <1>4, ClientUntouched, ChainUntouched DEF Chosen
<1>6. ReachedInv'
  BY <1>1, <1>2, <1>3, <1>4, NetFixed
     DEF ReachedInv, PrivateOnlyWhereNamed, ProxiedRedirectsConfigured, GrantHonoured
<1>7. QED
  BY <1>2, <1>4, <1>5, <1>6 DEF TransportInv

(* Every step keeps it.                                                    *)
LEMMA TransportStepInv == TransportInv /\ [TransportNext]_transportVars => TransportInv'
<1>1. SUFFICES ASSUME TransportInv, [TransportNext]_transportVars PROVE TransportInv'
  OBVIOUS
<1>2. ASSUME NEW u \in net.urls, ChooseRoot(u) PROVE TransportInv'
  BY Zenon, <1>1, <1>2, ChooseRootStep
<1>3. ASSUME NEW u \in net.urls, Redirect(u) PROVE TransportInv'
  BY Zenon, <1>1, <1>3, RedirectStep
<1>4. CASE Choose
  BY Zenon, <1>1, <1>4, ChooseStep
<1>5. CASE Connect
  BY Zenon, <1>1, <1>5, ConnectStep
<1>6. CASE Respond
  BY Zenon, <1>1, <1>6, RespondStep
<1>7. CASE (\E g \in grant.left : GrantHost(g[1], g[2])) \/ GrantOrigin \/ AuthorizeIssuer
  BY Zenon, <1>1, <1>7, GrantSteps
<1>8. CASE UNCHANGED transportVars
  <2>1. UNCHANGED <<net, trustedHosts, trustedOrigins, rootIssuers, grant, send>>
    BY <1>8 DEF transportVars
  <2>2. TrustInv'
    BY <1>1, <2>1, TrustUntouched
  <2>3. QED
    BY <1>1, <2>1, <2>2, RequestUntouched
<1>9. QED
  BY Zenon, <1>1, <1>2, <1>3, <1>4, <1>5, <1>6, <1>7, <1>8 DEF TransportNext

(* A chain leaves its first origin once, from an origin that may redirect. *)
LEMMA CrossingTrusted == TransportInv => OneTrustedCrossing
<1>1. SUFFICES ASSUME TransportInv,
                      NEW n \in 1..(Len(send.urls) - 1), send.urls[n] # send.urls[n + 1]
               PROVE  /\ send.urls[n] = First
                      /\ First \in net.configured \cup rootIssuers
                      /\ Https(send.urls[n]) /\ Https(send.urls[n + 1])
                      /\ \A m \in (n + 1)..Len(send.urls) : send.urls[m] = send.urls[n + 1]
  BY DEF OneTrustedCrossing
<1>2. ClientInv /\ ChainInv /\ send.urls \in Seq(net.urls)
  BY <1>1 DEF TransportInv, SendRecord
<1>3. n \in 1..Len(send.urls) /\ n + 1 \in 1..Len(send.urls) /\ n <= n + 1
  BY <1>1, <1>2
<1>4. send.urls[n] = First
  BY <1>1, <1>2, <1>3 DEF ChainInv
<1>5. send.client.kind \in {"configured", "root"} /\ Https(First) /\ Https(send.urls[n + 1])
  BY <1>1, <1>2, <1>3, <1>4 DEF ChainInv
<1>6. First \in net.configured \cup rootIssuers
  BY <1>2, <1>5 DEF ClientInv
<1>7. \A m \in (n + 1)..Len(send.urls) : m \in 1..Len(send.urls) /\ n + 1 <= m
  BY <1>2, <1>3
<1>8. \A m \in (n + 1)..Len(send.urls) : send.urls[m] = send.urls[n + 1]
  BY <1>1, <1>2, <1>3, <1>4, <1>7 DEF ChainInv
<1>9. QED
  BY <1>4, <1>5, <1>6, <1>8

(* Whatever grants arrive between a request's steps, whatever the network  *)
(* holds and however long the chain of redirects: a private address is     *)
(* dialed only where the user or a grant named it, a proxy is handed no    *)
(* redirect's name the user did not configure, a request that saw its      *)
(* origin trusted is not screened, and a chain leaves its first origin     *)
(* once, from an origin trusted to redirect (ClientSet::client_for,        *)
(* RedirectGuard::evaluate and screen_target, GlobalOnlyResolver,          *)
(* RepositoryPolicy::grant).                                               *)
THEOREM ConnectionsAlwaysTrusted == TransportSpec => []ConnectionsTrusted
<1>1. TransportInv => ConnectionsTrusted
  BY CrossingTrusted DEF TransportInv, ReachedInv, ConnectionsTrusted
<1>2. QED
  BY TransportInitInv, TransportStepInv, <1>1, PTL DEF TransportSpec
==============================================================================

---------------------------- MODULE ArtifactReads ----------------------------
(***************************************************************************)
(* rv-repo/src/client/artifacts.rs, with probe_checksum of requests.rs and *)
(* publish_artifact of fetch.rs: concurrent prefetches and fetches of one  *)
(* artifact of one remote repository into the store.                       *)
(*                                                                         *)
(* A blob stands for a file's bytes and their SHA-256, and every pin is a  *)
(* SHA-256.  The store's own locking is BlobStore's subject: here a blob   *)
(* is published, indexed or collected in one step.                         *)
(***************************************************************************)
EXTENDS Naturals, FiniteSets

CONSTANTS
    Task,           \* the concurrent prefetch_artifact and fetch_artifact calls
    Blob,           \* the bytes the repository may serve
    Plans,          \* what each task asks, and the client's flags, by scenario
    NoBlob

ASSUME ArtifactAssumption ==
    /\ NoBlob \notin Blob
    /\ Plans \subseteq [asks : [Task -> [prefetch : BOOLEAN, pin : Blob \cup {NoBlob}]],
                       require : BOOLEAN, update : BOOLEAN, lockPin : Blob \cup {NoBlob},
                       alike : BOOLEAN]

VARIABLES
    plan,           \* the scenario
    prefetched,     \* the ArtifactPrefetches cell of the file
    fetched,        \* the ArtifactFetches cell of the file
    absent,         \* whether absent_paths records a miss for the file
    store,          \* the blobs in the store
    index,          \* the blobs the artifact index names for the file
    task,           \* each call
    asked           \* downloads so far, and whether one failed

artifactVars == <<plan, prefetched, fetched, absent, store, index, task, asked>>

-----------------------------------------------------------------------------
(* probe_checksum: the sidecars are asked in order of preference, and a    *)
(* sidecar that is absent, refused or holds no digest moves on.            *)

Algorithms == <<"sha256", "sha1", "md5">>

(* What a sidecar request may answer.  "gated" is a failure every probe    *)
(* meets alike: a proxy's refusal, a credential that cannot be set up, a   *)
(* rejected certificate.                                                   *)
SidecarAnswers == {"match", "mismatch", "absent", "nodigest", "gated", "failed", "transient"}

(* checksum_outcome over the three answers: the digest of the first usable *)
(* sidecar; else the failure to report, a retried one before any other.    *)
(* The answers come in the order of preference, even when the `.sha1`      *)
(* request was started early.                                              *)
ProbeResult(answers) ==
    LET decides(i) == answers[i] \in {"match", "mismatch", "gated"}
        first      == {i \in 1..3 : decides(i) /\ \A j \in 1..(i - 1) : ~decides(j)}
        upTo       == IF first = {} THEN 1..3 ELSE 1..((CHOOSE i \in first : TRUE) - 1)
        failed     == \E i \in upTo : answers[i] = "failed"
        transient  == \E i \in upTo : answers[i] = "transient"
    IN  IF first = {}
        THEN IF transient THEN "transient" ELSE IF failed THEN "failed" ELSE "none"
        ELSE LET answer == answers[CHOOSE i \in first : TRUE]
             IN  IF answer # "gated" THEN answer
                 ELSE IF transient THEN "transient" ELSE "gated"

Probes == {ProbeResult(answers) : answers \in [1..3 -> SidecarAnswers]}

-----------------------------------------------------------------------------

Wants(t) == plan.asks[t]

(* release_lock_pin, and required_pin: the caller's pin, or the one the    *)
(* lock records in a run that does not update.                             *)
RequiredBlob(t) ==
    IF Wants(t).pin # NoBlob THEN Wants(t).pin
    ELSE IF plan.update THEN NoBlob ELSE plan.lockPin

(* The pin that lets a download skip its sidecar. *)
SkipPin(t) == IF Wants(t).pin # NoBlob THEN Wants(t).pin ELSE plan.lockPin

(* download_artifact's verdict on staged bytes; `probe` is the sidecar's   *)
(* answer, "unasked" when it was not asked.  A pin that decides the bytes  *)
(* makes a missing sidecar no matter; a sidecar that was read is checked   *)
(* all the same.                                                           *)
Verdict(t, blob, probe) ==
    LET pinned == RequiredBlob(t) # NoBlob \/ (blob = plan.lockPin /\ plan.lockPin # NoBlob)
    IN  IF probe \in {"transient", "failed", "gated"} THEN "SidecarError"
        ELSE IF probe \in {"none", "unasked"} /\ ~pinned /\ plan.require THEN "MissingChecksum"
        ELSE IF probe = "mismatch" \/ RequiredBlob(t) \notin {NoBlob, blob}
        THEN "ChecksumMismatch"
        ELSE "ok"

NewTask == [at |-> "start", blob |-> NoBlob, probe |-> "unasked", owner |-> FALSE,
            verified |-> FALSE, result |-> "none"]

ArtifactInit ==
    /\ plan \in Plans
    /\ prefetched = [state |-> "empty", blob |-> NoBlob, probe |-> "unasked"]
    /\ fetched = [state |-> "empty", blob |-> NoBlob, verified |-> FALSE]
    /\ absent = FALSE
    /\ store = {}
    /\ index = {}
    /\ task = [t \in Task |-> NewTask]
    /\ asked = [downloads |-> 0, trouble |-> FALSE]

Becomes(t, fields) == task' = [task EXCEPT ![t] = fields]

Ends(t, result) == Becomes(t, [task[t] EXCEPT !.at = "done", !.result = result])

-----------------------------------------------------------------------------
(* prefetch_artifact and download_for_later. *)

PrefetchStart(t) ==
    /\ Wants(t).prefetch /\ task[t].at = "start"
    /\ IF absent \/ prefetched.state \in {"ready", "taken"}
       THEN Ends(t, "prefetched") /\ UNCHANGED prefetched
       ELSE /\ prefetched.state = "empty"
            /\ prefetched' = [prefetched EXCEPT !.state = "busy"]
            /\ Becomes(t, [task[t] EXCEPT !.at = "later"])
    /\ UNCHANGED <<plan, fetched, absent, store, index, asked>>

(* The bytes and the sidecar's answer wait; a pin of the lock makes the    *)
(* sidecar unneeded.  A 404 is remembered, any failure leaves nothing.     *)
PrefetchArrives(t, blob, probe) ==
    /\ task[t].at = "later"
    /\ prefetched' = [state |-> "ready", blob |-> blob,
                      probe |-> IF plan.lockPin # NoBlob THEN "unasked" ELSE probe]
    /\ asked' = [asked EXCEPT !.downloads = @ + 1]
    /\ Ends(t, "prefetched")
    /\ UNCHANGED <<plan, fetched, absent, store, index>>

PrefetchFails(t, missing) ==
    /\ task[t].at = "later"
    /\ prefetched' = [prefetched EXCEPT !.state = "taken"]
    /\ absent' = (absent \/ missing)
    /\ asked' = [asked EXCEPT !.trouble = TRUE]
    /\ Ends(t, "prefetched")
    /\ UNCHANGED <<plan, fetched, store, index>>

-----------------------------------------------------------------------------
(* fetch_artifact_attempt and fetch_artifact_once. *)

FetchStart(t) ==
    /\ ~Wants(t).prefetch /\ task[t].at = "start"
    /\ IF absent THEN Ends(t, "NotFound") ELSE Becomes(t, [task[t] EXCEPT !.at = "cell"])
    /\ UNCHANGED <<plan, prefetched, fetched, absent, store, index, asked>>

JoinFetch(t) ==
    /\ task[t].at = "cell"
    /\ \/ /\ fetched.state = "empty"
          /\ fetched' = [fetched EXCEPT !.state = "busy"]
          /\ Becomes(t, [task[t] EXCEPT !.at = "take", !.owner = TRUE])
       \/ /\ fetched.state = "done"
          /\ Becomes(t, [task[t] EXCEPT !.at = "joined", !.blob = fetched.blob,
                                    !.verified = fetched.verified])
          /\ UNCHANGED fetched
    /\ UNCHANGED <<plan, prefetched, absent, store, index, asked>>

(* Mutant: another fetch's blob stands whatever this fetch requires. *)
AcceptAny(t) ==
    LET blob == task[t].blob IN
    /\ task[t].at = "joined"
    /\ IF blob \in store
       THEN /\ index' = index \cup {blob}
            /\ Ends(t, "ok")
       ELSE /\ Becomes(t, [task[t] EXCEPT !.at = "take"])
            /\ UNCHANGED index
    /\ UNCHANGED <<plan, prefetched, fetched, absent, store, asked>>

(* Another fetch's blob stands only when this fetch's own checks accept it *)
(* and the store still has it; its index row is written with it.           *)
AcceptJoined(t) ==
    LET blob     == task[t].blob
        accepted == IF RequiredBlob(t) # NoBlob THEN blob = RequiredBlob(t)
                    ELSE \/ task[t].verified
                         \/ ~plan.require
                         \/ plan.lockPin # NoBlob /\ blob = plan.lockPin
    IN
    /\ task[t].at = "joined"
    /\ IF accepted /\ blob \in store
       THEN /\ index' = index \cup {blob}
            /\ Ends(t, "ok")
       ELSE /\ Becomes(t, [task[t] EXCEPT !.at = "take"])
            /\ UNCHANGED index
    /\ UNCHANGED <<plan, prefetched, fetched, absent, store, asked>>

Frees(t) == IF task[t].owner THEN [fetched EXCEPT !.state = "empty"] ELSE fetched

(* take_prefetched_artifact: waits for a prefetch under way, and claims    *)
(* the file when there was none.  A prefetch that met a 404 answers.       *)
TakePrefetched(t) ==
    /\ task[t].at = "take"
    /\ prefetched.state # "busy"
    /\ prefetched' = [prefetched EXCEPT !.state = "taken"]
    /\ IF prefetched.state = "ready"
       THEN /\ Becomes(t, [task[t] EXCEPT !.at = "check", !.blob = prefetched.blob,
                                      !.probe = prefetched.probe])
            /\ UNCHANGED fetched
       ELSE IF absent
       THEN Ends(t, "NotFound") /\ fetched' = Frees(t)
       ELSE Becomes(t, [task[t] EXCEPT !.at = "request"]) /\ UNCHANGED fetched
    /\ UNCHANGED <<plan, absent, store, index, asked>>

Downloads(t, blob, probe) ==
    /\ task[t].at = "request"
    /\ Becomes(t, [task[t] EXCEPT !.at = "check", !.blob = blob,
                              !.probe = IF SkipPin(t) # NoBlob THEN "unasked" ELSE probe])
    /\ asked' = [asked EXCEPT !.downloads = @ + 1]
    /\ UNCHANGED <<plan, prefetched, fetched, absent, store, index>>

DownloadFails(t, missing) ==
    /\ task[t].at = "request"
    /\ absent' = (absent \/ missing)
    /\ asked' = [asked EXCEPT !.trouble = TRUE]
    /\ Ends(t, IF missing THEN "NotFound" ELSE "Failed")
    /\ fetched' = Frees(t)
    /\ UNCHANGED <<plan, prefetched, store, index>>

(* A sidecar that no pin made unneeded is asked for now, once the bytes    *)
(* turned out not to match the lock's pin.  Then publish_artifact checks   *)
(* and stores the bytes with their index row.                              *)
Publish(t, late) ==
    LET pinned  == RequiredBlob(t) # NoBlob
                   \/ (plan.lockPin # NoBlob /\ task[t].blob = plan.lockPin)
        probe   == IF task[t].probe # "unasked" THEN task[t].probe
                   ELSE IF pinned THEN "unasked" ELSE late
        verdict == Verdict(t, task[t].blob, probe)
    IN
    /\ task[t].at = "check"
    /\ IF verdict = "ok"
       THEN /\ store' = store \cup {task[t].blob}
            /\ index' = index \cup {task[t].blob}
            /\ Becomes(t, [task[t] EXCEPT !.at = "done", !.result = "ok",
                                      !.verified = probe = "match"])
            /\ fetched' = IF task[t].owner
                          THEN [state |-> "done", blob |-> task[t].blob,
                                verified |-> probe = "match"]
                          ELSE fetched
            /\ UNCHANGED asked
       ELSE /\ Ends(t, verdict)
            /\ fetched' = Frees(t)
            /\ asked' = [asked EXCEPT !.trouble = TRUE]
            /\ UNCHANGED <<store, index>>
    /\ UNCHANGED <<plan, prefetched, absent>>

(* The store drops a blob and its rows between two steps. *)
Collect(blob) ==
    /\ blob \in store
    /\ store' = store \ {blob}
    /\ index' = index \ {blob}
    /\ asked' = [asked EXCEPT !.trouble = TRUE]
    /\ UNCHANGED <<plan, prefetched, fetched, absent, task>>

ArtifactStep(t) ==
    \/ PrefetchStart(t) \/ FetchStart(t) \/ JoinFetch(t) \/ AcceptJoined(t) \/ TakePrefetched(t)
    \/ \E blob \in Blob, probe \in Probes : PrefetchArrives(t, blob, probe)
    \/ \E blob \in Blob, probe \in Probes : Downloads(t, blob, probe)
    \/ \E missing \in BOOLEAN : PrefetchFails(t, missing)
    \/ \E missing \in BOOLEAN : DownloadFails(t, missing)
    \/ \E late \in Probes : Publish(t, late)

ArtifactNext ==
    \/ \E t \in Task : ArtifactStep(t)
    \/ \E blob \in Blob : Collect(blob)

(* The runtime goes on with some call that can. *)
ArtifactFairness == WF_artifactVars(\E t \in Task : ArtifactStep(t))

ArtifactTypeOK ==
    /\ store \subseteq Blob
    /\ index \subseteq Blob
    /\ absent \in BOOLEAN
    /\ \A t \in Task : task[t].blob \in Blob \cup {NoBlob}

-----------------------------------------------------------------------------
(* Properties. *)

(* A fetch returns only bytes its own checks accept, whoever downloaded    *)
(* them: its required pin, else a checksum file, the lock's pin, or a run  *)
(* that accepts files without one.                                         *)
FetchAccepts ==
    \A t \in Task : task[t].result = "ok" =>
        IF RequiredBlob(t) # NoBlob THEN task[t].blob = RequiredBlob(t)
        ELSE \/ task[t].verified
             \/ ~plan.require
             \/ task[t].blob = plan.lockPin

(* Bytes a prefetch downloaded reach neither the store nor the index       *)
(* before a fetch of the file has accepted them, and the index never names *)
(* a blob the store has not.                                               *)
PrefetchStoresNothing ==
    /\ (\A t \in Task : ~Wants(t).prefetch => task[t].result # "ok") => store = {}
    /\ index \subseteq store

(* Without a failure or a collected blob, one download serves every task,  *)
(* a late prefetch included, when every fetch accepts the same bytes.      *)
OneDownload ==
    (~asked.trouble /\ plan.alike) => asked.downloads <= 1

(* Every call ends: none waits for ever on a prefetch or a fetch that      *)
(* failed.                                                                 *)
CallEnds == <>(\A t \in Task : task[t].at = "done")

(* What a fetch of an artifact returns and stores, whoever downloaded it.  *)
FetchesSound == FetchAccepts /\ PrefetchStoresNothing
=============================================================================

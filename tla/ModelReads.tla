----------------------------- MODULE ModelReads -----------------------------
(***************************************************************************)
(* rv-repo/src/client/models.rs: concurrent reads of one POM from one      *)
(* remote repository, with the metadata cache row of                       *)
(* rv-store/src/metadata_cache.rs, the in-memory memo, the prefetched      *)
(* copies held back, the in-flight downloads and the remembered misses.    *)
(*                                                                         *)
(* Bytes stand for a file's contents and their digest.  `how` records      *)
(* beside them what accepted them, which the code keeps only in part: the  *)
(* row keeps `checked`.                                                    *)
(***************************************************************************)
EXTENDS Naturals, FiniteSets

CONSTANTS
    Reader,         \* the concurrent read_pom calls
    Bytes,          \* file contents a repository may serve
    Settings,       \* what each reader asks and the client's flags, by scenario
    HeldMax,        \* MAX_HELD_BYTES, in files
    MaxGeneration,  \* the most new credential origins of a scenario
    None

(* A reader's call: whether it uses the POM or prefetches it, whether it   *)
(* requires checksums, and the pin it gives or the lock has.               *)
Call == [use : BOOLEAN, require : BOOLEAN, given : BOOLEAN, pin : Bytes \cup {None}]

ASSUME ModelAssumption ==
    /\ MaxGeneration \in Nat
    /\ None \notin Bytes /\ None \notin Reader
    /\ Settings \subseteq [who : [Reader -> Call], active : SUBSET Reader, fixed : BOOLEAN,
                          ttl : BOOLEAN, offline : BOOLEAN, update : BOOLEAN,
                          served : SUBSET Reader, cached : SUBSET Bytes, origins : 0..MaxGeneration, damage : Nat]

VARIABLES
    env,            \* the scenario: the active readers, what they read, the client's flags
    row,            \* the cache row of the path
    memo,           \* PomMemo, by flight key
    held,           \* HeldPoms, by flight key
    inflight,       \* PomInflight: flight key to cell
    cell,           \* the OnceCells, named after the reader that made one
    misses,         \* absent_paths of the path
    kept,           \* the miss rows of the cache, by credential
    named,          \* the named origins, by count: what credential a lookup finds
    generation,     \* NamedOrigins::generation, counted after the origin is added
    rd,             \* each reader's call
    stats           \* downloads, failures and emitted warnings so far

modelVars == <<env, row, memo, held, inflight, cell, misses, kept, named, generation, rd, stats>>

Who(r) == env.who[r]

(* flight_key: the checksum requirement and the pin are part of it. *)
Key(r) == <<Who(r).require, Who(r).given, Who(r).pin>>

Keys == {Key(r) : r \in Reader}

(* release_lock_pin: the lock's pin of a file whose content is fixed, in a *)
(* run that does not update.                                               *)
ReleaseLockPin(r) ==
    IF ~Who(r).given /\ env.fixed /\ ~env.update THEN Who(r).pin ELSE None

RequiredPin(r) == IF Who(r).given THEN Who(r).pin ELSE ReleaseLockPin(r)

-----------------------------------------------------------------------------
(* The cache row. *)

NewRow(bytes, how, forever) ==
    [content |-> bytes, digest |-> bytes, how |-> how, forever |-> forever,
     checked |-> how = "Verified", stale |-> FALSE, fresh |-> TRUE]

(* MetadataCache::get: a row whose bytes do not match their digest is      *)
(* dropped and reads as none.                                              *)
Intact(entry) == entry.content = entry.digest

(* renew_before: under --update a mutable row of an earlier run is fetched *)
(* again.                                                                  *)
Renewed(entry) == env.update /\ ~env.fixed /\ ~env.offline /\ ~entry.fresh

(* cache_get_entry: what a reader makes of the row. *)
RowAnswer(r, entry) ==
    LET pin       == Who(r).pin
        unchecked == Who(r).require /\ ~entry.checked /\ pin = None
    IN  IF entry = None THEN "none"
        ELSE IF ~Intact(entry) THEN "damaged"
        ELSE IF pin # None /\ pin # entry.content THEN "none"
        ELSE IF Renewed(entry) THEN "none"
        ELSE IF env.offline /\ unchecked THEN "error"
        ELSE IF unchecked \/ (~env.offline /\ entry.stale) THEN "none"
        ELSE "use"

-----------------------------------------------------------------------------
(* fetch_with_checksums: what the bytes and the sidecar of one download    *)
(* come to.  A POM that differs from its sidecar is never accepted.        *)

Sidecars == {"match", "mismatch", "absent", "error"}

(* What can accept bytes: their checksum file, the pin, or nothing where   *)
(* no checksum is required.                                                *)
Hows == {"Verified", "Pinned", "Missing"}

(* Mutant: bytes other than the pin's are left to the sidecar. *)
CheckedPinAdvisory(r, bytes, sidecar) ==
    IF Who(r).pin = bytes THEN "Pinned"
    ELSE IF sidecar = "error" THEN "SidecarError"
    ELSE IF sidecar = "mismatch" THEN "ChecksumMismatch"
    ELSE IF sidecar = "match" THEN "Verified"
    ELSE IF Who(r).require THEN "MissingChecksum"
    ELSE "Missing"

Checked(r, bytes, sidecar) ==
    IF Who(r).pin = bytes THEN "Pinned"
    ELSE IF RequiredPin(r) # None THEN "ChecksumMismatch"
    ELSE IF sidecar = "error" THEN "SidecarError"
    ELSE IF sidecar = "mismatch" THEN "ChecksumMismatch"
    ELSE IF sidecar = "match" THEN "Verified"
    ELSE IF Who(r).require THEN "MissingChecksum"
    ELSE "Missing"

(* Miss::of: the answers the same request gets again.  A busy answer is    *)
(* remembered for the run and not kept in the cache.                       *)
MissAnswers == {"NotFound", "Refused", "Busy"}

KeptAnswers == {"NotFound", "Refused"}

-----------------------------------------------------------------------------

Idle == [at |-> "memo", bytes |-> None, how |-> None, cell |-> None, seen |-> None,
         gen |-> 0, authGen |-> 0, cred |-> 0, forever |-> FALSE, adopted |-> None]

ModelInit ==
    /\ env \in Settings
    /\ \/ row = None
       \/ \E b \in env.cached, how \in {"Verified", "Missing"} :
              row = [NewRow(b, how, env.fixed /\ how = "Verified") EXCEPT !.fresh = FALSE]
    /\ memo = [k \in Keys |-> None]
    /\ held = [k \in Keys |-> None]
    /\ inflight = [k \in Keys |-> None]
    /\ cell = [r \in Reader |-> [state |-> "unused", bytes |-> None, how |-> None]]
    /\ misses = None
    /\ kept = [g \in 0..MaxGeneration |-> None]
    /\ named = 0
    /\ generation = 0
    /\ rd = [r \in Reader |-> IF r \in env.active THEN Idle ELSE [Idle EXCEPT !.at = "done"]]
    /\ stats = [downloads |-> [k \in Keys |-> 0], emitted |-> [k \in Keys |-> 0],
                trouble |-> FALSE, damage |-> 0]

Go(r, at) == rd' = [rd EXCEPT ![r].at = at]

(* The read returns, with bytes or without. *)
Return(r, bytes, how) ==
    rd' = [rd EXCEPT ![r] = [Idle EXCEPT !.at = "done", !.bytes = bytes, !.how = how]]

Got(r, bytes, how, at) ==
    rd' = [rd EXCEPT ![r] = [@ EXCEPT !.at = at, !.bytes = bytes, !.how = how, !.seen = None]]

(* The initializer of the reader's cell succeeds, or fails. *)
Fills(r, bytes, how) ==
    cell' = [cell EXCEPT ![rd[r].cell] = [state |-> "done", bytes |-> bytes, how |-> how]]

Fails(r) ==
    /\ rd' = [rd EXCEPT ![r].at = "leave"]
    /\ cell' = [cell EXCEPT ![rd[r].cell].state = "empty"]

(* prefetch_pom asks nothing offline and once the held POMs fill their     *)
(* budget; a memoized copy answers any read.                               *)
ReadMemo(r) ==
    /\ rd[r].at = "memo"
    /\ IF ~Who(r).use /\ (env.offline \/ Cardinality({k \in Keys : held[k] # None}) >= HeldMax)
       THEN Return(r, None, None)
       ELSE IF env.fixed /\ memo[Key(r)] # None
       THEN Return(r, memo[Key(r)].bytes, memo[Key(r)].how)
       ELSE Go(r, "get")
    /\ UNCHANGED <<env, row, memo, held, inflight, cell, misses, kept, named, generation, stats>>

(* The first look at the cache, outside the cell: "get", and the second,   *)
(* in it: "get2".                                                          *)
After(at) == IF at \in {"get", "drop"} THEN "held" ELSE "held2"

ReadRow(r) ==
    LET first  == rd[r].at = "get"
        answer == RowAnswer(r, row)
    IN
    /\ rd[r].at \in {"get", "get2"}
    /\ CASE answer = "damaged" ->
              /\ rd' = [rd EXCEPT ![r].seen = row.content,
                                  ![r].at = IF first THEN "drop" ELSE "drop2"]
              /\ UNCHANGED <<memo, cell>>
         [] answer = "none" ->
              Go(r, After(rd[r].at)) /\ UNCHANGED <<memo, cell>>
         [] answer = "error" /\ first ->
              Return(r, None, None) /\ UNCHANGED <<memo, cell>>
         [] answer = "error" /\ ~first ->
              Fails(r) /\ UNCHANGED memo
         [] answer = "use" /\ first ->
              /\ Return(r, row.content, row.how)
              /\ memo' = IF env.fixed /\ row.forever /\ memo[Key(r)] = None
                         THEN [memo EXCEPT ![Key(r)] = [bytes |-> row.content, how |-> row.how]]
                         ELSE memo
              /\ UNCHANGED cell
         [] answer = "use" /\ ~first ->
              /\ Got(r, row.content, row.how, "leave")
              /\ Fills(r, row.content, row.how)
              /\ UNCHANGED memo
    /\ UNCHANGED <<env, row, held, inflight, misses, kept, named, generation, stats>>

(* Mutant: the row is deleted by its key alone. *)
DropRowByKey(r) ==
    /\ rd[r].at \in {"drop", "drop2"}
    /\ row' = None
    /\ rd' = [rd EXCEPT ![r].at = After(@), ![r].seen = None]
    /\ UNCHANGED <<env, memo, held, inflight, cell, misses, kept, named, generation, stats>>

(* The damaged row is deleted only while it still holds the bytes read. *)
DropRow(r) ==
    /\ rd[r].at \in {"drop", "drop2"}
    /\ row' = IF row # None /\ row.content = rd[r].seen THEN None ELSE row
    /\ rd' = [rd EXCEPT ![r].at = After(@), ![r].seen = None]
    /\ UNCHANGED <<env, memo, held, inflight, cell, misses, kept, named, generation, stats>>

(* A copy a prefetch holds: a read that uses it adopts it. *)
ReadHeld(r) ==
    /\ rd[r].at = "held"
    /\ IF held[Key(r)] = None THEN Go(r, "join")
       ELSE IF Who(r).use THEN Got(r, held[Key(r)].bytes, held[Key(r)].how, "adopt")
       ELSE Return(r, held[Key(r)].bytes, held[Key(r)].how)
    /\ UNCHANGED <<env, row, memo, held, inflight, cell, misses, kept, named, generation, stats>>

(* The cell of the flight key, shared by every read in flight. *)
Join(r) ==
    /\ rd[r].at = "join"
    /\ LET c == IF inflight[Key(r)] = None THEN r ELSE inflight[Key(r)] IN
       /\ inflight' = [inflight EXCEPT ![Key(r)] = c]
       /\ cell' = IF c = r THEN [cell EXCEPT ![r].state = "empty"] ELSE cell
       /\ rd' = [rd EXCEPT ![r].at = "wait", ![r].cell = c]
    /\ UNCHANGED <<env, row, memo, held, misses, kept, named, generation, stats>>

(* Mutant: the cell's initializer asks without a second look. *)
WaitAndAsk(r) ==
    LET c == rd[r].cell IN
    /\ rd[r].at = "wait"
    /\ \/ /\ cell[c].state = "done"
          /\ Got(r, cell[c].bytes, cell[c].how, "leave")
          /\ UNCHANGED cell
       \/ /\ cell[c].state = "empty"
          /\ cell' = [cell EXCEPT ![c].state = "busy"]
          /\ Go(r, "auth")
    /\ UNCHANGED <<env, row, memo, held, inflight, misses, kept, named, generation, stats>>

(* get_or_try_init: one caller initializes; when it fails, the next waiter *)
(* of the same cell does.                                                  *)
Wait(r) ==
    LET c == rd[r].cell IN
    /\ rd[r].at = "wait"
    /\ \/ /\ cell[c].state = "done"
          /\ Got(r, cell[c].bytes, cell[c].how, "leave")
          /\ UNCHANGED cell
       \/ /\ cell[c].state = "empty"
          /\ cell' = [cell EXCEPT ![c].state = "busy"]
          /\ Go(r, "get2")
    /\ UNCHANGED <<env, row, memo, held, inflight, misses, kept, named, generation, stats>>

ReadHeldAgain(r) ==
    /\ rd[r].at = "held2"
    /\ IF held[Key(r)] = None THEN Go(r, "auth") /\ UNCHANGED cell
       ELSE /\ Got(r, held[Key(r)].bytes, held[Key(r)].how, "leave")
            /\ Fills(r, held[Key(r)].bytes, held[Key(r)].how)
    /\ UNCHANGED <<env, row, memo, held, inflight, misses, kept, named, generation, stats>>

(* fetch_model_bytes takes the generation before the route's auth() takes  *)
(* its own and looks the credential up: three reads a change may fall      *)
(* between.                                                                *)
TakeGeneration(r) ==
    /\ rd[r].at = "auth"
    /\ rd' = [rd EXCEPT ![r].gen = generation, ![r].at = "auth2"]
    /\ UNCHANGED <<env, row, memo, held, inflight, cell, misses, kept, named, generation, stats>>

(* Route::auth, up to its own read of the generation. *)
RouteGeneration(r) ==
    /\ rd[r].at = "auth2"
    /\ rd' = [rd EXCEPT ![r].authGen = generation, ![r].at = "auth3"]
    /\ UNCHANGED <<env, row, memo, held, inflight, cell, misses, kept, named, generation, stats>>

Credential(r) ==
    /\ rd[r].at = "auth3"
    /\ rd' = [rd EXCEPT ![r].cred = named, ![r].at = "miss"]
    /\ UNCHANGED <<env, row, memo, held, inflight, cell, misses, kept, named, generation, stats>>

(* record_miss: under the earlier of the two generations taken. *)
RecordMiss(r, what) ==
    misses' = IF what \in MissAnswers
              THEN [what |-> what, cred |-> rd[r].cred,
                    gen |-> IF rd[r].authGen < rd[r].gen THEN rd[r].authGen ELSE rd[r].gen]
              ELSE misses

(* recorded_miss of the current generation, then the miss row kept for the *)
(* credential sent, unless the run updates or raeva.lock records the       *)
(* repository as serving the file to this reader.  Offline has no          *)
(* miss_key, and a kept row still stands.                                  *)
ReadMiss(r) ==
    /\ rd[r].at = "miss"
    /\ IF ~env.offline /\ (IF misses = None THEN FALSE ELSE misses.gen = generation)
       THEN Fails(r) /\ UNCHANGED misses
       ELSE IF r \notin env.served /\ ~env.update /\ kept[rd[r].cred] # None
       THEN Fails(r) /\ (IF env.offline THEN UNCHANGED misses
                         ELSE RecordMiss(r, kept[rd[r].cred]))
       ELSE Go(r, "fetch") /\ UNCHANGED <<cell, misses>>
    /\ UNCHANGED <<env, row, memo, held, inflight, kept, named, generation, stats>>

(* The request failed: a miss is remembered, and kept for later runs when  *)
(* the update policy keeps a file at all.                                  *)
FetchFails(r, what) ==
    /\ rd[r].at = "fetch"
    /\ env.offline => what = "Offline"
    /\ Fails(r)
    /\ stats' = [stats EXCEPT !.trouble = TRUE]
    /\ IF env.offline THEN UNCHANGED <<misses, kept>>
       ELSE /\ RecordMiss(r, what)
            /\ kept' = IF what \in KeptAnswers /\ env.ttl
                       THEN [kept EXCEPT ![rd[r].cred] = what] ELSE kept
    /\ UNCHANGED <<env, row, memo, held, inflight, named, generation>>

(* The bytes arrived.  A read that uses them logs their warnings and goes  *)
(* on to cache them; a prefetch holds them with their warnings.            *)
FetchArrives(r, bytes, sidecar) ==
    LET how     == Checked(r, bytes, sidecar)
        forever == env.fixed /\ how \in {"Verified", "Pinned"}
        counted(logged) == [stats EXCEPT !.downloads[Key(r)] = @ + 1, !.emitted[Key(r)] = @ + logged]
    IN
    /\ rd[r].at = "fetch"
    /\ ~env.offline
    /\ \/ /\ how \notin Hows
          /\ Fails(r)
          /\ stats' = [stats EXCEPT !.trouble = TRUE]
          /\ UNCHANGED held
       \/ /\ how \in Hows /\ Who(r).use
          /\ rd' = [rd EXCEPT ![r] = [@ EXCEPT !.at = "store", !.bytes = bytes, !.how = how,
                                               !.forever = forever]]
          /\ stats' = counted(1)
          /\ UNCHANGED <<held, cell>>
       \/ /\ how \in Hows /\ ~Who(r).use
          /\ Got(r, bytes, how, "leave")
          /\ held' = [held EXCEPT ![Key(r)] = [bytes |-> bytes, how |-> how,
                                               forever |-> forever, warnings |-> TRUE]]
          /\ Fills(r, bytes, how)
          /\ stats' = counted(0)
    /\ UNCHANGED <<env, row, memo, inflight, misses, kept, named, generation>>

(* cache_pom: the row, and the memo for a copy that never expires and that *)
(* a read under the same pin would take from the row.  The write may fail. *)
CachePom(r, bytes, how, forever) ==
    IF ReleaseLockPin(r) # None /\ how # "Pinned"
    THEN UNCHANGED <<row, memo, stats>>
    ELSE \/ /\ stats' = [stats EXCEPT !.trouble = TRUE]
            /\ UNCHANGED <<row, memo>>
         \/ /\ row' = [NewRow(bytes, how, forever) EXCEPT !.stale = ~forever /\ ~env.ttl]
            /\ memo' = IF /\ forever /\ memo[Key(r)] = None
                          /\ (Who(r).given \/ Who(r).pin = None) \/ how = "Pinned"
                       THEN [memo EXCEPT ![Key(r)] = [bytes |-> bytes, how |-> how]]
                       ELSE memo
            /\ UNCHANGED stats

StoreFetched(r) ==
    /\ rd[r].at = "store"
    /\ CachePom(r, rd[r].bytes, rd[r].how, rd[r].forever)
    /\ Fills(r, rd[r].bytes, rd[r].how)
    /\ Go(r, "leave")
    /\ UNCHANGED <<env, held, inflight, misses, kept, named, generation>>

(* The map forgets the key, whichever cell it names by now. *)
Leave(r) ==
    /\ rd[r].at = "leave"
    /\ inflight' = [inflight EXCEPT ![Key(r)] = None]
    /\ IF Who(r).use /\ rd[r].bytes # None THEN Go(r, "adopt")
       ELSE Return(r, rd[r].bytes, rd[r].how)
    /\ UNCHANGED <<env, row, memo, held, cell, misses, kept, named, generation, stats>>

(* adopt_held_pom: one read takes the warnings and logs them, caches the   *)
(* held copy, and only then lets go of it.                                 *)
Adopt(r) ==
    LET h == held[Key(r)] IN
    /\ rd[r].at = "adopt"
    /\ IF h # None /\ h.warnings
       THEN /\ held' = [held EXCEPT ![Key(r)].warnings = FALSE]
            /\ stats' = [stats EXCEPT !.emitted[Key(r)] = @ + 1]
            /\ rd' = [rd EXCEPT ![r].at = "keep", ![r].adopted = h]
       ELSE Return(r, rd[r].bytes, rd[r].how) /\ UNCHANGED <<held, stats>>
    /\ UNCHANGED <<env, row, memo, inflight, cell, misses, kept, named, generation>>

KeepAdopted(r) ==
    LET h == rd[r].adopted IN
    /\ rd[r].at = "keep"
    /\ CachePom(r, h.bytes, h.how, h.forever)
    /\ Go(r, "remove")
    /\ UNCHANGED <<env, held, inflight, cell, misses, kept, named, generation>>

RemoveHeld(r) ==
    /\ rd[r].at = "remove"
    /\ held' = [held EXCEPT ![Key(r)] = None]
    /\ Return(r, rd[r].bytes, rd[r].how)
    /\ UNCHANGED <<env, row, memo, inflight, cell, misses, kept, named, generation, stats>>

-----------------------------------------------------------------------------
(* What happens around the readers. *)

(* A row of a mutable or unchecked file ages out. *)
Expire ==
    /\ row # None /\ ~row.forever /\ ~row.stale
    /\ row' = [row EXCEPT !.stale = TRUE]
    /\ stats' = [stats EXCEPT !.trouble = TRUE]
    /\ UNCHANGED <<env, memo, held, inflight, cell, misses, kept, named, generation, rd>>

(* A bit flips in the row's bytes. *)
Damage ==
    /\ row # None /\ Intact(row)
    /\ stats.damage < env.damage
    /\ stats' = [stats EXCEPT !.damage = @ + 1, !.trouble = TRUE]
    /\ row' = [row EXCEPT !.content = None]
    /\ UNCHANGED <<env, memo, held, inflight, cell, misses, kept, named, generation, rd>>

(* A project POM names a new origin, where a credential may follow;        *)
(* NamedOrigins::add inserts it and then counts it.                        *)
NewCredentialOrigin ==
    /\ named < env.origins /\ named = generation
    /\ named' = named + 1
    /\ UNCHANGED <<env, row, memo, held, inflight, cell, misses, kept, generation, rd, stats>>

CountOrigin ==
    /\ generation < named
    /\ generation' = generation + 1
    /\ UNCHANGED <<env, row, memo, held, inflight, cell, misses, kept, named, rd, stats>>

ReadStep(r) ==
    \/ ReadMemo(r) \/ ReadRow(r) \/ DropRow(r) \/ ReadHeld(r) \/ Join(r) \/ Wait(r)
    \/ ReadHeldAgain(r) \/ TakeGeneration(r) \/ RouteGeneration(r) \/ Credential(r)
    \/ ReadMiss(r) \/ StoreFetched(r) \/ Leave(r) \/ Adopt(r) \/ KeepAdopted(r) \/ RemoveHeld(r)
    \/ \E what \in MissAnswers \cup {"Offline", "Failed"} : FetchFails(r, what)
    \/ \E bytes \in Bytes, sidecar \in Sidecars : FetchArrives(r, bytes, sidecar)

ModelNext ==
    \/ Expire \/ Damage \/ NewCredentialOrigin \/ CountOrigin
    \/ \E r \in Reader : ReadStep(r)

(* The runtime goes on with some read that can. *)
ModelFairness == WF_modelVars(\E r \in Reader : ReadStep(r))

Done(r) == rd[r].at = "done"

-----------------------------------------------------------------------------
(* The types.  None is none of the records it stands in for. *)

RowRecord == [content : Bytes \cup {None}, digest : Bytes, how : Hows, forever : BOOLEAN,
              checked : BOOLEAN, stale : BOOLEAN, fresh : BOOLEAN]
Copy == [bytes : Bytes, how : Hows]
HeldCopy == [bytes : Bytes, how : Hows, forever : BOOLEAN, warnings : BOOLEAN]
CellRecord == [state : {"unused", "empty", "busy", "done"}, bytes : Bytes \cup {None},
               how : Hows \cup {None}]
MissRecord == [what : MissAnswers, cred : 0..MaxGeneration, gen : 0..MaxGeneration]

InCell == {"wait", "get2", "drop2", "held2", "auth", "auth2", "auth3", "miss", "fetch", "store"}
Users == {"store", "adopt", "keep", "remove"}

ReadRecord ==
    [at : {"memo", "get", "drop", "held", "join", "leave", "done"} \cup InCell \cup Users,
     bytes : Bytes \cup {None}, how : Hows \cup {None}, cell : Reader \cup {None},
     seen : Bytes \cup {None}, gen : 0..MaxGeneration, authGen : 0..MaxGeneration,
     cred : 0..MaxGeneration, forever : BOOLEAN, adopted : HeldCopy \cup {None}]

Counts == [downloads : [Keys -> Nat], emitted : [Keys -> Nat], trouble : BOOLEAN, damage : Nat]

ASSUME NoneAssumption ==
    None \notin RowRecord \cup Copy \cup HeldCopy \cup MissRecord \cup MissAnswers \cup Hows

ModelTypeOK ==
    /\ env \in Settings
    /\ row \in RowRecord \cup {None}
    /\ memo \in [Keys -> Copy \cup {None}]
    /\ held \in [Keys -> HeldCopy \cup {None}]
    /\ inflight \in [Keys -> Reader \cup {None}]
    /\ cell \in [Reader -> CellRecord]
    /\ misses \in MissRecord \cup {None}
    /\ kept \in [0..MaxGeneration -> KeptAnswers \cup {None}]
    /\ named \in 0..MaxGeneration /\ generation \in 0..MaxGeneration
    /\ named <= env.origins /\ generation <= named
    /\ rd \in [Reader -> ReadRecord]
    /\ stats \in Counts

-----------------------------------------------------------------------------
(* Properties. *)

(* A reader that requires checksums gets bytes a checksum file accepted,   *)
(* or the bytes its own pin names: never a copy that another reader of the *)
(* same row, cell, memo or held copy accepted without one.                 *)
StrictReads ==
    \A r \in Reader : Done(r) /\ rd[r].bytes # None /\ Who(r).require =>
        rd[r].how = "Verified" \/ rd[r].bytes = Who(r).pin

(* Where a pin is required, no path through the caches returns other       *)
(* bytes, whoever put them there.                                          *)
PinnedReads ==
    \A r \in Reader : Done(r) /\ rd[r].bytes # None /\ RequiredPin(r) # None =>
        rd[r].bytes = RequiredPin(r)

(* Until a read that uses the POM runs, prefetches leave no row of this    *)
(* run in the cache.                                                       *)
PrefetchLeavesNoTrace ==
    (\A r \in Reader : Who(r).use => rd[r].at = "memo") =>
        row = None \/ ~row.fresh

(* The warnings of a download are logged once its bytes are used: a read   *)
(* that uses bytes fetched in this run never returns before some read      *)
(* logged them, and no download's warnings are logged twice, whichever of  *)
(* the readers adopts a prefetched copy.                                   *)
WarningsOnceUsed ==
    /\ \A k \in Keys : stats.emitted[k] <= stats.downloads[k]
    /\ \A r \in Reader : (Done(r) /\ Who(r).use /\ rd[r].bytes # None /\ env.cached = {}) =>
           \E k \in Keys : stats.emitted[k] > 0

(* A recorded miss that a read under the current generation takes was met  *)
(* with a credential at least as new, however a change of credentials      *)
(* falls between the steps of the request that met it.                     *)
MissOfCurrentCredential ==
    misses # None /\ misses.gen = generation => misses.cred >= generation

(* Dropping a damaged row never drops a row another reader wrote since     *)
(* with other bytes: only the bytes that failed the check go.              *)
DropOnlyDamaged ==
    [][ \A r \in Reader :
          (rd[r].at \in {"drop", "drop2"} /\ rd'[r].at \in {"held", "held2"}
             /\ row # None /\ row.content # rd[r].seen) => row' = row ]_modelVars

(* Without prefetches, failures, expiry or damage, the readers of a key    *)
(* share one download, in whatever order they meet the row, the cell and   *)
(* the map.                                                                *)
SharedDownload ==
    \A k \in Keys :
        (~stats.trouble /\ env.ttl /\ \A r \in Reader : Who(r).use /\ Key(r) = k)
            => stats.downloads[k] <= 1

(* Every read ends: no reader waits for ever on a cell whose initializer   *)
(* failed or left.                                                         *)
ReadEnds == <>(\A r \in Reader : Done(r))

(* What a read of a POM or a metadata file returns and leaves, whichever   *)
(* of the memo, the row, the cell and the held copy served it.             *)
ModelReadsSound ==
    StrictReads /\ PinnedReads /\ PrefetchLeavesNoTrace /\ WarningsOnceUsed /\ MissOfCurrentCredential
=============================================================================

-------------------------- MODULE ModelReadsProofs --------------------------
(***************************************************************************)
(* The reads of a POM, for any number of readers, any bytes served and     *)
(* whatever each reader asks.                                              *)
(***************************************************************************)
EXTENDS ModelReads, TLAPS

ModelSpec == ModelInit /\ [][ModelNext]_modelVars

-----------------------------------------------------------------------------
(* The inductive invariant.  Every copy is tied to the flight key it was   *)
(* accepted under, which is what makes it safe to hand to any reader of    *)
(* that key; and a copy that was fetched in this run either had its        *)
(* warnings logged or is still held with them.                             *)

Required(k) == IF k[2] \/ (env.fixed /\ ~env.update) THEN k[3] ELSE None

Accepted(k, bytes, how) ==
    /\ bytes \in Bytes /\ how \in Hows
    /\ k[1] => how = "Verified" \/ bytes = k[3]
    /\ Required(k) # None => bytes = Required(k)

Logged == \E k \in Keys : stats.emitted[k] > 0
LoggedOrCached == env.cached = {} => Logged
LoggedOrHeld(k) == env.cached = {} => Logged \/ held[k] # None

Started == \E r \in Reader : Who(r).use /\ rd[r].at # "memo"

RowInv ==
    row # None =>
        /\ row.checked <=> row.how = "Verified"
        /\ row.fresh => Started
        /\ LoggedOrCached

KeyInv(k) ==
    /\ memo[k] # None => Accepted(k, memo[k].bytes, memo[k].how) /\ LoggedOrCached
    /\ held[k] # None =>
          /\ Accepted(k, held[k].bytes, held[k].how)
          /\ held[k].warnings => stats.emitted[k] < stats.downloads[k]
          /\ ~held[k].warnings => Logged
    /\ inflight[k] # None => Key(inflight[k]) = k
    /\ stats.emitted[k] <= stats.downloads[k]

CellInv(c) ==
    cell[c].state = "done" =>
        Accepted(Key(c), cell[c].bytes, cell[c].how) /\ LoggedOrHeld(Key(c))

ReadOK(r, m) ==
    /\ m.bytes # None =>
          /\ Accepted(Key(r), m.bytes, m.how)
          /\ LoggedOrHeld(Key(r))
          /\ m.at = "done" /\ Who(r).use => LoggedOrCached
    /\ m.cell # None => Key(m.cell) = Key(r)
    /\ m.at \in InCell => m.cell # None
    /\ m.at \in Users => Who(r).use /\ m.bytes # None
    /\ m.at \in {"store", "keep", "remove"} => Logged
    /\ m.at = "keep" => m.adopted # None /\ Accepted(Key(r), m.adopted.bytes, m.adopted.how)
    /\ m.at = "auth2" => m.gen <= generation
    /\ m.at = "auth3" => m.gen <= generation /\ m.authGen <= generation
    /\ m.at \in {"miss", "fetch"} => m.gen <= m.cred /\ m.authGen <= m.cred

MissInv == misses # None => misses.gen <= misses.cred

ModelInv ==
    /\ ModelTypeOK /\ RowInv /\ MissInv
    /\ \A k \in Keys : KeyInv(k)
    /\ \A r \in Reader : CellInv(r) /\ ReadOK(r, rd[r])

-----------------------------------------------------------------------------
(* What a reader asks, and what is accepted *)

(* A scenario's fields have their types. *)
LEMMA EnvFields ==
    ASSUME ModelTypeOK
    PROVE  /\ env.who \in [Reader -> Call] /\ env.fixed \in BOOLEAN /\ env.offline \in BOOLEAN
           /\ env.update \in BOOLEAN /\ env.ttl \in BOOLEAN /\ env.cached \subseteq Bytes
           /\ env.origins \in 0..MaxGeneration /\ env.damage \in Nat
           /\ \A r \in Reader : Who(r) \in Call /\ Key(r) \in Keys
BY ZenonT(60), ModelAssumption DEF ModelTypeOK, Who, Keys

(* The scenario never changes, and with it the keys and what they accept. *)
LEMMA EnvKept ==
    ASSUME env' = env
    PROVE  /\ Keys' = Keys
           /\ \A r : Who(r)' = Who(r) /\ Key(r)' = Key(r)
           /\ \A k : Required(k)' = Required(k)
           /\ \A k, bytes, how : Accepted(k, bytes, how)' <=> Accepted(k, bytes, how)
BY Zenon DEF Keys, Who, Key, Required, Accepted

(* The key holds what a reader asks (flight_key). *)
LEMMA KeyParts ==
    ASSUME ModelTypeOK, NEW r \in Reader
    PROVE  /\ Key(r)[1] = Who(r).require /\ Key(r)[2] = Who(r).given /\ Key(r)[3] = Who(r).pin
           /\ Required(Key(r)) = RequiredPin(r)
<1>1. Key(r)[1] = Who(r).require /\ Key(r)[2] = Who(r).given /\ Key(r)[3] = Who(r).pin
  BY Zenon DEF Key
<1>2. Required(Key(r)) = RequiredPin(r)
  BY Zenon, <1>1, EnvFields DEF Required, RequiredPin, ReleaseLockPin, Call
<1>3. QED
  BY Zenon, <1>1, <1>2

(* What fetch_with_checksums lets through is accepted under the reader's   *)
(* key.                                                                    *)
LEMMA CheckedAccepted ==
    ASSUME ModelTypeOK, NEW r \in Reader, NEW bytes \in Bytes, NEW sidecar \in Sidecars,
           Checked(r, bytes, sidecar) \in Hows
    PROVE  Accepted(Key(r), bytes, Checked(r, bytes, sidecar))
<1>1. Who(r) \in Call /\ None \notin Bytes
  BY Zenon, EnvFields, ModelAssumption
<1>2. CASE Who(r).pin = bytes
  <2>1. RequiredPin(r) \in {None, bytes}
    BY Zenon, <1>2 DEF RequiredPin, ReleaseLockPin
  <2>2. QED
    BY Zenon, <1>2, <2>1, KeyParts DEF Accepted
<1>3. CASE Who(r).pin # bytes
  <2>1. RequiredPin(r) = None
    <3>1. Checked(r, bytes, sidecar) # "ChecksumMismatch"
      BY Zenon DEF Hows
    <3>2. QED
      BY Zenon, <1>3, <3>1 DEF Checked
  <2>2. /\ Checked(r, bytes, sidecar) = "Verified" \/ ~Who(r).require
    BY Zenon, <1>1, <1>3, <2>1 DEF Checked, Hows, Sidecars, Call
  <2>3. QED
    BY Zenon, <2>1, <2>2, KeyParts DEF Accepted
<1>4. QED
  BY Zenon, <1>2, <1>3

(* So is a row that cache_get_entry hands out. *)
LEMMA RowAccepted ==
    ASSUME ModelTypeOK, NEW r \in Reader, row # None, row.checked <=> row.how = "Verified",
           RowAnswer(r, row) = "use"
    PROVE  Accepted(Key(r), row.content, row.how)
<1>1. Who(r) \in Call /\ None \notin Bytes /\ row \in RowRecord
  BY Zenon, EnvFields, ModelAssumption DEF ModelTypeOK
<1>2. /\ row.content \in Bytes /\ row.how \in Hows
      /\ Who(r).pin # None => Who(r).pin = row.content
      /\ ~(Who(r).require /\ ~row.checked /\ Who(r).pin = None)
  BY Zenon, <1>1 DEF RowAnswer, Intact, RowRecord
<1>3. RequiredPin(r) \in {None, Who(r).pin}
  BY Zenon DEF RequiredPin, ReleaseLockPin
<1>4. QED
  BY Zenon, <1>1, <1>2, <1>3, KeyParts DEF Accepted, RowRecord

-----------------------------------------------------------------------------
(* What a step of one reader leaves *)

(* What a reader has is sound for as long as warnings that were logged     *)
(* stay logged, a held copy goes only once they are, and the generation    *)
(* only grows.                                                             *)
LEMMA ReadKept ==
    ASSUME ModelInv, NEW u \in Reader, rd'[u] = rd[u], env' = env,
           generation' \in 0..MaxGeneration, generation <= generation',
           Logged => Logged',
           \A k \in Keys : held[k] # None => held'[k] # None \/ Logged'
    PROVE  ReadOK(u, rd[u])'
<1>1. /\ ModelTypeOK /\ ReadOK(u, rd[u]) /\ rd[u] \in ReadRecord /\ Key(u) \in Keys
      /\ generation \in 0..MaxGeneration
  BY Zenon, EnvFields DEF ModelInv, ModelTypeOK
<1>2. /\ Keys' = Keys /\ Key(u)' = Key(u) /\ Who(u)' = Who(u) /\ \A c : Key(c)' = Key(c)
      /\ \A k, b, h : Accepted(k, b, h)' <=> Accepted(k, b, h)
  BY Zenon, EnvKept
<1>3. LoggedOrHeld(Key(u)) => LoggedOrHeld(Key(u))'
  BY Zenon, <1>1, <1>2 DEF LoggedOrHeld
<1>4. LoggedOrCached => LoggedOrCached'
  BY Zenon DEF LoggedOrCached
<1>5. ASSUME NEW g \in 0..MaxGeneration, g <= generation PROVE g <= generation'
  BY <1>1, <1>5
<1>6. rd[u].gen \in 0..MaxGeneration /\ rd[u].authGen \in 0..MaxGeneration
  BY Zenon, <1>1 DEF ReadRecord
<1>7. PICK m : m = rd[u]
  BY Zenon
<1>8. ReadOK(u, m)'
  BY ZenonT(60), <1>1, <1>2, <1>3, <1>4, <1>5, <1>6, <1>7 DEF ReadOK
<1>9. QED
  BY ZenonT(60), <1>7, <1>8 DEF ReadOK

(* A row, the copies of a key and a cell that a step leaves alone stay     *)
(* sound.                                                                  *)
LEMMA RowKept ==
    ASSUME ModelInv, env' = env, row' = row, Logged => Logged', Started => Started'
    PROVE  RowInv'
BY Zenon DEF ModelInv, RowInv, LoggedOrCached

(* A key whose copies and counts stay keeps its part of the invariant.     *)
LEMMA KeyKept ==
    ASSUME ModelInv, NEW k \in Keys, env' = env, memo'[k] = memo[k], held'[k] = held[k],
           inflight'[k] = inflight[k], stats'.emitted[k] = stats.emitted[k],
           stats'.downloads[k] = stats.downloads[k], Logged => Logged'
    PROVE  KeyInv(k)'
<1>1. /\ \A c : Key(c)' = Key(c)
      /\ \A b, h : Accepted(k, b, h)' <=> Accepted(k, b, h)
  BY Zenon, EnvKept
<1>2. LoggedOrCached => LoggedOrCached'
  BY Zenon DEF LoggedOrCached
<1>3. QED
  BY Zenon, <1>1, <1>2 DEF ModelInv, KeyInv

(* So does a cell that stays.                                              *)
LEMMA CellKept ==
    ASSUME ModelInv, NEW c \in Reader, env' = env, cell'[c] = cell[c], Logged => Logged',
           \A k \in Keys : held[k] # None => held'[k] # None \/ Logged'
    PROVE  CellInv(c)'
<1>1. /\ Key(c)' = Key(c) /\ \A k, b, h : Accepted(k, b, h)' <=> Accepted(k, b, h)
  BY Zenon, EnvKept
<1>2. Key(c) \in Keys
  BY Zenon, EnvFields DEF ModelInv
<1>3. LoggedOrHeld(Key(c)) => LoggedOrHeld(Key(c))'
  BY Zenon, <1>1, <1>2 DEF LoggedOrHeld
<1>4. QED
  BY Zenon, <1>1, <1>3 DEF ModelInv, CellInv

(* Every step of a reader, given what it makes of the shared state. *)
LEMMA ReaderStep ==
    ASSUME ModelInv, NEW r \in Reader, NEW m \in ReadRecord, rd' = [rd EXCEPT ![r] = m],
           m.at # "memo", ReadOK(r, m)', UNCHANGED <<env, named, generation>>,
           Logged => Logged',
           \A k \in Keys : held[k] # None => held'[k] # None \/ Logged'
    PROVE  /\ rd' \in [Reader -> ReadRecord]
           /\ \A u \in Reader : ReadOK(u, rd[u])'
           /\ Started => Started'
<1>1. rd \in [Reader -> ReadRecord] /\ generation \in 0..MaxGeneration
  BY Zenon DEF ModelInv, ModelTypeOK
<1>2. rd' \in [Reader -> ReadRecord] /\ rd'[r] = m /\ \A u \in Reader \ {r} : rd'[u] = rd[u]
  BY Zenon, <1>1
<1>3. ASSUME NEW u \in Reader PROVE ReadOK(u, rd[u])'
  <2>1. CASE u = r
    BY ZenonT(60), <1>2, <2>1 DEF ReadOK
  <2>2. CASE u # r
    <3>1. rd'[u] = rd[u] /\ env' = env /\ generation' \in 0..MaxGeneration
          /\ generation <= generation'
      BY <1>1, <1>2, <2>2
    <3>2. QED
      BY Zenon, <3>1, ReadKept
  <2>3. QED
    BY Zenon, <2>1, <2>2
<1>4. Started => Started'
  <2>1. \A u : Who(u)' = Who(u)
    BY Zenon, EnvKept
  <2>2. \A u \in Reader : rd[u].at # "memo" => rd'[u].at # "memo"
    BY Zenon, <1>2
  <2>3. QED
    BY Zenon, <2>1, <2>2 DEF Started
<1>5. QED
  BY Zenon, <1>2, <1>3, <1>4

(* A step that logs, downloads and holds nothing. *)
LEMMA QuietStep ==
    ASSUME ModelInv, NEW r \in Reader, NEW m \in ReadRecord, rd' = [rd EXCEPT ![r] = m],
           m.at # "memo", ReadOK(r, m), UNCHANGED <<env, held, named, generation>>,
           stats' \in Counts, stats'.emitted = stats.emitted,
           stats'.downloads = stats.downloads,
           row' \in RowRecord \cup {None},
           \/ row' \in {row, None}
           \/ (row'.checked <=> row'.how = "Verified") /\ Who(r).use /\ LoggedOrCached,
           misses' \in MissRecord \cup {None}, MissInv',
           kept' \in [0..MaxGeneration -> KeptAnswers \cup {None}],
           memo' \in [Keys -> Copy \cup {None}],
           \A k \in Keys : \/ memo'[k] = memo[k]
                           \/ Accepted(k, memo'[k].bytes, memo'[k].how) /\ LoggedOrCached,
           inflight' \in [Keys -> Reader \cup {None}],
           \A k \in Keys : inflight'[k] # None => Key(inflight'[k]) = k,
           cell' \in [Reader -> CellRecord],
           \A c \in Reader : \/ cell'[c] = cell[c]
                             \/ cell'[c].state # "done"
                             \/ /\ Accepted(Key(c), cell'[c].bytes, cell'[c].how)
                                /\ LoggedOrHeld(Key(c))
    PROVE  ModelInv'
<1>1. /\ Keys' = Keys /\ (\A u : Key(u)' = Key(u) /\ Who(u)' = Who(u))
      /\ \A k, b, h : Accepted(k, b, h)' <=> Accepted(k, b, h)
  BY Zenon, EnvKept
<1>2. Logged' <=> Logged
  BY Zenon, <1>1 DEF Logged
<1>3. \A k : LoggedOrHeld(k)' <=> LoggedOrHeld(k)
  BY Zenon, <1>2 DEF LoggedOrHeld
<1>4. LoggedOrCached' <=> LoggedOrCached
  BY Zenon, <1>2 DEF LoggedOrCached
<1>5. ReadOK(r, m)'
  BY Zenon, <1>1, <1>2, <1>3, <1>4 DEF ReadOK
<1>6. \A k \in Keys : held[k] # None => held'[k] # None \/ Logged'
  BY Zenon
<1>7. /\ rd' \in [Reader -> ReadRecord] /\ \A u \in Reader : ReadOK(u, rd[u])'
      /\ Started => Started'
  BY Zenon, <1>2, <1>5, <1>6, ReaderStep
<1>8. RowInv'
  <2>1. CASE row' = row
    BY Zenon, <1>2, <1>7, <2>1, RowKept
  <2>2. CASE row' = None
    BY Zenon, <2>2 DEF RowInv
  <2>3. CASE (row'.checked <=> row'.how = "Verified") /\ Who(r).use /\ LoggedOrCached
    <3>1. rd'[r].at # "memo"
      BY Zenon DEF ModelInv, ModelTypeOK
    <3>2. Started'
      BY Zenon, <1>1, <2>3, <3>1 DEF Started
    <3>3. QED
      BY Zenon, <1>4, <2>3, <3>2 DEF RowInv
  <2>4. QED
    BY Zenon, <2>1, <2>2, <2>3
<1>9. ASSUME NEW k \in Keys PROVE KeyInv(k)'
  <2>1. KeyInv(k)
    BY Zenon DEF ModelInv
  <2>2. /\ stats'.emitted[k] = stats.emitted[k] /\ stats'.downloads[k] = stats.downloads[k]
        /\ held'[k] = held[k]
    BY Zenon
  <2>3. memo'[k] # None => Accepted(k, memo'[k].bytes, memo'[k].how) /\ LoggedOrCached
    BY Zenon, <2>1 DEF KeyInv
  <2>4. QED
    BY Zenon, <1>1, <1>2, <1>4, <2>1, <2>2, <2>3 DEF KeyInv
<1>10. ASSUME NEW c \in Reader PROVE CellInv(c)'
  <2>1. CASE cell'[c] = cell[c]
    BY Zenon, <1>2, <1>6, <2>1, CellKept
  <2>2. CASE cell'[c].state # "done"
    BY Zenon, <2>2 DEF CellInv
  <2>3. CASE Accepted(Key(c), cell'[c].bytes, cell'[c].how) /\ LoggedOrHeld(Key(c))
    BY Zenon, <1>1, <1>3, <2>3 DEF CellInv
  <2>4. QED
    BY Zenon, <2>1, <2>2, <2>3
<1>11. ModelTypeOK'
  <2>1. Counts' = Counts
    BY Zenon, <1>1 DEF Counts
  <2>2. /\ env' \in Settings /\ held' \in [Keys -> HeldCopy \cup {None}]
        /\ named' \in 0..MaxGeneration /\ generation' \in 0..MaxGeneration
        /\ named' <= env'.origins /\ generation' <= named'
    BY Zenon DEF ModelInv, ModelTypeOK
  <2>3. QED
    BY Zenon, <1>1, <1>7, <2>1, <2>2 DEF ModelTypeOK
<1>12. QED
  BY Zenon, <1>1, <1>7, <1>8, <1>9, <1>10, <1>11 DEF ModelInv

(* The parts of the invariant that a step usually leaves alone, in the     *)
(* form QuietStep asks for.                                                *)
LEMMA Parts ==
    ASSUME ModelInv
    PROVE  /\ ModelTypeOK /\ RowInv /\ MissInv /\ stats \in Counts
           /\ row \in RowRecord \cup {None} /\ misses \in MissRecord \cup {None}
           /\ kept \in [0..MaxGeneration -> KeptAnswers \cup {None}]
           /\ memo \in [Keys -> Copy \cup {None}] /\ held \in [Keys -> HeldCopy \cup {None}]
           /\ inflight \in [Keys -> Reader \cup {None}]
           /\ \A k \in Keys : inflight[k] # None => Key(inflight[k]) = k
           /\ cell \in [Reader -> CellRecord]
           /\ \A r \in Reader : /\ rd[r] \in ReadRecord /\ ReadOK(r, rd[r]) /\ CellInv(r)
                                /\ Key(r) \in Keys
BY Zenon, EnvFields DEF ModelInv, ModelTypeOK, KeyInv

(* So a step that moves the reader alone. *)
LEMMA MoveStep ==
    ASSUME ModelInv, NEW r \in Reader, NEW m \in ReadRecord, rd' = [rd EXCEPT ![r] = m],
           m.at # "memo", ReadOK(r, m),
           UNCHANGED <<env, row, memo, held, inflight, cell, misses, kept, named, generation,
                       stats>>
    PROVE  ModelInv'
<1>1. MissInv'
  BY Zenon, Parts DEF MissInv
<1>2. /\ stats' \in Counts /\ stats'.emitted = stats.emitted
      /\ stats'.downloads = stats.downloads
      /\ row' \in RowRecord \cup {None} /\ row' \in {row, None}
      /\ misses' \in MissRecord \cup {None}
      /\ kept' \in [0..MaxGeneration -> KeptAnswers \cup {None}]
      /\ memo' \in [Keys -> Copy \cup {None}]
      /\ \A k \in Keys : memo'[k] = memo[k]
      /\ inflight' \in [Keys -> Reader \cup {None}]
      /\ \A k \in Keys : inflight'[k] # None => Key(inflight'[k]) = k
      /\ cell' \in [Reader -> CellRecord]
      /\ \A c \in Reader : cell'[c] = cell[c]
  BY Zenon, Parts
<1>3. QED
  BY Zenon, <1>1, <1>2, QuietStep

-----------------------------------------------------------------------------
(* The steps of a reader *)

(* A read that returns: what it returns was accepted and, where it is      *)
(* used, logged.                                                           *)
LEMMA ReturnOK ==
    ASSUME NEW r \in Reader, NEW bytes \in Bytes \cup {None}, NEW how \in Hows \cup {None},
           bytes # None => /\ Accepted(Key(r), bytes, how) /\ LoggedOrHeld(Key(r))
                           /\ Who(r).use => LoggedOrCached
    PROVE  \A m : m = [Idle EXCEPT !.at = "done", !.bytes = bytes, !.how = how] =>
               m \in ReadRecord /\ m.at # "memo" /\ ReadOK(r, m)
<1>1. PICK m : m = [at |-> "done", bytes |-> bytes, how |-> how, cell |-> None,
                    seen |-> None, gen |-> 0, authGen |-> 0, cred |-> 0, forever |-> FALSE,
                    adopted |-> None]
  BY Zenon
<1>2. m \in ReadRecord
  BY <1>1, ModelAssumption DEF ReadRecord
<1>3. m.at = "done" /\ m.bytes = bytes /\ m.how = how /\ m.cell = None
  BY Zenon, <1>1
<1>4. "done" \notin InCell \cup Users \cup {"memo", "keep", "store", "remove", "auth2", "auth3",
                                            "miss", "fetch"}
  BY Zenon DEF InCell, Users
<1>5. m \in ReadRecord /\ m.at # "memo" /\ ReadOK(r, m)
  BY Zenon, <1>2, <1>3, <1>4 DEF ReadOK
<1>6. ASSUME NEW n, n = [Idle EXCEPT !.at = "done", !.bytes = bytes, !.how = how]
      PROVE  n = [at |-> "done", bytes |-> bytes, how |-> how, cell |-> None,
                  seen |-> None, gen |-> 0, authGen |-> 0, cred |-> 0, forever |-> FALSE,
                  adopted |-> None]
  BY Zenon, <1>6 DEF Idle
<1>7. QED
  BY Zenon, <1>1, <1>5, <1>6

(* A read that takes a copy into its own call. *)
LEMMA GotOK ==
    ASSUME NEW r \in Reader, rd[r] \in ReadRecord, ReadOK(r, rd[r]),
           NEW bytes \in Bytes, NEW how \in Hows, Accepted(Key(r), bytes, how),
           LoggedOrHeld(Key(r)), NEW at \in {"leave", "adopt"}, at = "adopt" => Who(r).use,
           NEW m, m = [rd[r] EXCEPT !.at = at, !.bytes = bytes, !.how = how, !.seen = None]
    PROVE  m \in ReadRecord /\ m.at # "memo" /\ ReadOK(r, m)
<1>1. /\ m \in ReadRecord /\ m.at = at /\ m.bytes = bytes /\ m.how = how /\ m.cell = rd[r].cell
  BY Zenon DEF ReadRecord, Users
<1>2. /\ at \notin InCell \cup {"memo", "done", "keep", "store", "remove", "auth2", "auth3",
                               "miss", "fetch"}
      /\ at \in Users => at = "adopt"
  BY Zenon DEF InCell, Users
<1>3. bytes # None
  BY Zenon, ModelAssumption
<1>4. QED
  BY Zenon, <1>1, <1>2, <1>3 DEF ReadOK

(* A read that goes on, inside its cell or before it. *)
LEMMA GoOK ==
    ASSUME NEW r \in Reader, rd[r] \in ReadRecord, ReadOK(r, rd[r]),
           NEW at \in {"get", "held", "drop", "join", "leave"} \cup InCell,
           at \in InCell => rd[r].cell # None,
           at \notin {"store", "auth2", "auth3", "miss", "fetch"},
           NEW seen \in Bytes \cup {None},
           NEW m, m = [rd[r] EXCEPT !.at = at, !.seen = seen]
    PROVE  m \in ReadRecord /\ m.at # "memo" /\ ReadOK(r, m)
<1>1. /\ m \in ReadRecord /\ m.at = at /\ m.bytes = rd[r].bytes /\ m.how = rd[r].how
      /\ m.cell = rd[r].cell
  BY ZenonT(60) DEF ReadRecord, InCell
<1>2. at \notin Users \cup {"memo", "done", "keep", "remove"}
  BY Zenon DEF InCell, Users
<1>3. QED
  BY Zenon, <1>1, <1>2 DEF ReadOK

(* Moving on, written as the change of a whole record.                     *)
LEMMA GoRecord ==
    ASSUME NEW r \in Reader, rd[r] \in ReadRecord, NEW at
    PROVE  [rd EXCEPT ![r].at = at] = [rd EXCEPT ![r] = [rd[r] EXCEPT !.at = at, !.seen = rd[r].seen]]
BY Zenon DEF ReadRecord

(* ReadMemo keeps the invariant.                                           *)
LEMMA ReadMemoStep ==
    ASSUME ModelInv, NEW r \in Reader, ReadMemo(r) PROVE ModelInv'
<1>1. /\ rd[r] \in ReadRecord /\ ReadOK(r, rd[r]) /\ Key(r) \in Keys /\ KeyInv(Key(r))
      /\ memo \in [Keys -> Copy \cup {None}] /\ rd[r].at = "memo"
  BY Zenon, Parts DEF ModelInv, ReadMemo
<1>2. UNCHANGED <<env, row, memo, held, inflight, cell, misses, kept, named, generation, stats>>
  BY Zenon DEF ReadMemo
<1>3. CASE Return(r, None, None)
  <2>1. PICK m : m = [Idle EXCEPT !.at = "done", !.bytes = None, !.how = None]
    BY Zenon
  <2>2. rd' = [rd EXCEPT ![r] = m]
    BY Zenon, <1>3, <2>1 DEF Return
  <2>3. m \in ReadRecord /\ m.at # "memo" /\ ReadOK(r, m)
    BY Zenon, <2>1, ReturnOK
  <2>4. QED
    BY Zenon, <1>2, <2>2, <2>3, MoveStep
<1>4. CASE memo[Key(r)] # None /\ Return(r, memo[Key(r)].bytes, memo[Key(r)].how)
  <2>1. PICK b \in Bytes, h \in Hows : b = memo[Key(r)].bytes /\ h = memo[Key(r)].how
    BY Zenon, <1>1, <1>4 DEF Copy
  <2>2. Accepted(Key(r), b, h) /\ LoggedOrCached /\ LoggedOrHeld(Key(r))
    BY Zenon, <1>1, <1>4, <2>1 DEF KeyInv, LoggedOrCached, LoggedOrHeld
  <2>3. PICK m : m = [Idle EXCEPT !.at = "done", !.bytes = b, !.how = h]
    BY Zenon
  <2>4. rd' = [rd EXCEPT ![r] = m]
    BY Zenon, <1>4, <2>1, <2>3 DEF Return
  <2>5. m \in ReadRecord /\ m.at # "memo" /\ ReadOK(r, m)
    BY Zenon, <2>2, <2>3, ReturnOK
  <2>6. QED
    BY Zenon, <1>2, <2>4, <2>5, MoveStep
<1>5. CASE Go(r, "get")
  <2>1. PICK m : m = [rd[r] EXCEPT !.at = "get", !.seen = rd[r].seen]
    BY Zenon
  <2>2. rd' = [rd EXCEPT ![r] = m] /\ rd[r].seen \in Bytes \cup {None} /\ "get" \notin InCell
    BY Zenon, <1>1, <1>5, <2>1, GoRecord DEF Go, ReadRecord, InCell
  <2>3. m \in ReadRecord /\ m.at # "memo" /\ ReadOK(r, m)
    BY ZenonT(60), <1>1, <2>1, <2>2, GoOK
  <2>4. QED
    BY Zenon, <1>2, <2>2, <2>3, MoveStep
<1>6. QED
  BY Zenon, <1>3, <1>4, <1>5 DEF ReadMemo

(* ReadHeld keeps the invariant.                                           *)
LEMMA ReadHeldStep ==
    ASSUME ModelInv, NEW r \in Reader, ReadHeld(r) PROVE ModelInv'
<1>1. /\ rd[r] \in ReadRecord /\ ReadOK(r, rd[r]) /\ Key(r) \in Keys /\ KeyInv(Key(r))
      /\ held \in [Keys -> HeldCopy \cup {None}]
  BY Zenon, Parts DEF ModelInv
<1>2. UNCHANGED <<env, row, memo, held, inflight, cell, misses, kept, named, generation, stats>>
  BY Zenon DEF ReadHeld
<1>3. CASE Go(r, "join")
  <2>1. PICK m : m = [rd[r] EXCEPT !.at = "join", !.seen = rd[r].seen]
    BY Zenon
  <2>2. rd' = [rd EXCEPT ![r] = m] /\ rd[r].seen \in Bytes \cup {None} /\ "join" \notin InCell
    BY Zenon, <1>1, <1>3, <2>1, GoRecord DEF Go, ReadRecord, InCell
  <2>3. m \in ReadRecord /\ m.at # "memo" /\ ReadOK(r, m)
    BY Zenon, <1>1, <2>1, <2>2, GoOK
  <2>4. QED
    BY Zenon, <1>2, <2>2, <2>3, MoveStep
<1>4. CASE held[Key(r)] # None
  <2>1. PICK b \in Bytes, h \in Hows : b = held[Key(r)].bytes /\ h = held[Key(r)].how
    BY <1>1, <1>4 DEF HeldCopy
  <2>2. Accepted(Key(r), b, h) /\ LoggedOrHeld(Key(r))
    BY Zenon, <1>1, <1>4, <2>1 DEF KeyInv, LoggedOrHeld
  <2>3. CASE Who(r).use /\ Got(r, b, h, "adopt")
    <3>1. PICK m : m = [rd[r] EXCEPT !.at = "adopt", !.bytes = b, !.how = h, !.seen = None]
      BY Zenon
    <3>2. rd' = [rd EXCEPT ![r] = m]
      BY Zenon, <2>3, <3>1 DEF Got
    <3>3. m \in ReadRecord /\ m.at # "memo" /\ ReadOK(r, m)
      BY Zenon, <1>1, <2>2, <2>3, <3>1, GotOK
    <3>4. QED
      BY Zenon, <1>2, <3>2, <3>3, MoveStep
  <2>4. CASE ~Who(r).use /\ Return(r, b, h)
    <3>1. PICK m : m = [Idle EXCEPT !.at = "done", !.bytes = b, !.how = h]
      BY Zenon
    <3>2. rd' = [rd EXCEPT ![r] = m]
      BY Zenon, <2>4, <3>1 DEF Return
    <3>3. m \in ReadRecord /\ m.at # "memo" /\ ReadOK(r, m)
      BY Zenon, <2>2, <2>4, <3>1, ReturnOK
    <3>4. QED
      BY Zenon, <1>2, <3>2, <3>3, MoveStep
  <2>5. QED
    BY Zenon, <1>4, <2>1, <2>3, <2>4 DEF ReadHeld
<1>5. QED
  BY Zenon, <1>3, <1>4 DEF ReadHeld

(* The generations and the credential are read in an order that leaves the *)
(* credential at least as new as either generation.                        *)
LEMMA AuthSteps ==
    ASSUME ModelInv, NEW r \in Reader,
           TakeGeneration(r) \/ RouteGeneration(r) \/ Credential(r)
    PROVE  ModelInv'
<1>1. /\ rd[r] \in ReadRecord /\ ReadOK(r, rd[r])
      /\ named \in 0..MaxGeneration /\ generation \in 0..MaxGeneration /\ generation <= named
  BY Zenon, Parts DEF ModelTypeOK
<1>2. UNCHANGED <<env, row, memo, held, inflight, cell, misses, kept, named, generation, stats>>
  BY Zenon DEF TakeGeneration, RouteGeneration, Credential
<1>3. PICK m \in {[rd[r] EXCEPT !.gen = generation, !.at = "auth2"],
                  [rd[r] EXCEPT !.authGen = generation, !.at = "auth3"],
                  [rd[r] EXCEPT !.cred = named, !.at = "miss"]} :
          /\ rd' = [rd EXCEPT ![r] = m]
          /\ m.at = "auth2" => rd[r].at = "auth" /\ m.gen = generation
          /\ m.at = "auth3" => /\ rd[r].at = "auth2" /\ m.gen = rd[r].gen
                               /\ m.authGen = generation
          /\ m.at = "miss" => /\ rd[r].at = "auth3" /\ m.gen = rd[r].gen
                              /\ m.authGen = rd[r].authGen /\ m.cred = named
  BY <1>1 DEF TakeGeneration, RouteGeneration, Credential, ReadRecord
<1>4. /\ m \in ReadRecord /\ m.at \in {"auth2", "auth3", "miss"} /\ m.bytes = rd[r].bytes
      /\ m.how = rd[r].how /\ m.cell = rd[r].cell
  BY ZenonT(60), <1>1, <1>3 DEF ReadRecord, InCell
<1>5. rd[r].cell # None
  BY Zenon, <1>1, <1>3, <1>4 DEF ReadOK, InCell
<1>6. /\ m.at = "auth2" => m.gen <= generation
      /\ m.at = "auth3" => m.gen <= generation /\ m.authGen <= generation
      /\ m.at = "miss" => m.gen <= m.cred /\ m.authGen <= m.cred
  BY <1>1, <1>3 DEF ReadOK, ReadRecord
<1>7. m.at \notin {"memo", "done", "store", "keep", "remove", "fetch"} \cup Users
  BY Zenon, <1>4 DEF Users
<1>8. ReadOK(r, m)
  BY Zenon, <1>1, <1>4, <1>5, <1>6, <1>7 DEF ReadOK
<1>9. QED
  BY Zenon, <1>2, <1>3, <1>4, <1>7, <1>8, MoveStep

(* DropRow keeps the invariant.                                            *)
LEMMA DropRowStep ==
    ASSUME ModelInv, NEW r \in Reader, DropRow(r) PROVE ModelInv'
<1>1. rd[r] \in ReadRecord /\ ReadOK(r, rd[r]) /\ rd[r].at \in {"drop", "drop2"}
  BY Zenon, Parts DEF DropRow
<1>2. /\ UNCHANGED <<env, memo, held, inflight, cell, misses, kept, named, generation, stats>>
      /\ row' \in {row, None}
  BY Zenon DEF DropRow
<1>3. PICK at \in {"held", "held2"} : at = After(rd[r].at) /\ (at = "held2" => rd[r].at = "drop2")
  BY Zenon, <1>1 DEF After
<1>4. PICK m : m = [rd[r] EXCEPT !.at = at, !.seen = None]
  BY Zenon
<1>5. rd' = [rd EXCEPT ![r] = m]
  BY Zenon, <1>1, <1>3, <1>4 DEF DropRow, ReadRecord
<1>6. at \in InCell => rd[r].cell # None
  BY Zenon, <1>1, <1>3 DEF ReadOK, InCell
<1>7. m \in ReadRecord /\ m.at # "memo" /\ ReadOK(r, m)
  BY Zenon, <1>1, <1>3, <1>4, <1>6, GoOK DEF InCell
<1>8. MissInv'
  BY Zenon, <1>2, Parts DEF MissInv
<1>9. /\ stats' \in Counts /\ stats'.emitted = stats.emitted
      /\ stats'.downloads = stats.downloads
      /\ misses' \in MissRecord \cup {None}
      /\ kept' \in [0..MaxGeneration -> KeptAnswers \cup {None}]
      /\ memo' \in [Keys -> Copy \cup {None}]
      /\ \A k \in Keys : memo'[k] = memo[k]
      /\ inflight' \in [Keys -> Reader \cup {None}]
      /\ \A k \in Keys : inflight'[k] # None => Key(inflight'[k]) = k
      /\ cell' \in [Reader -> CellRecord]
      /\ \A c \in Reader : cell'[c] = cell[c]
  BY Zenon, <1>2, Parts
<1>10. row' \in RowRecord \cup {None}
  BY Zenon, <1>2, Parts
<1>11. UNCHANGED <<env, held, named, generation>>
  BY Zenon, <1>2
<1>12. QED
  BY Zenon, <1>2, <1>5, <1>7, <1>8, <1>9, <1>10, <1>11, QuietStep

(* A step that leaves the row, the memo and the counts alone. *)
LEMMA CellStep ==
    ASSUME ModelInv, NEW r \in Reader, NEW m \in ReadRecord, rd' = [rd EXCEPT ![r] = m],
           m.at # "memo", ReadOK(r, m),
           UNCHANGED <<env, row, memo, held, named, generation, stats>>,
           misses' \in MissRecord \cup {None}, MissInv',
           kept' \in [0..MaxGeneration -> KeptAnswers \cup {None}],
           inflight' \in [Keys -> Reader \cup {None}],
           \A k \in Keys : inflight'[k] # None => Key(inflight'[k]) = k,
           cell' \in [Reader -> CellRecord],
           \A c \in Reader : \/ cell'[c] = cell[c]
                             \/ cell'[c].state # "done"
                             \/ /\ Accepted(Key(c), cell'[c].bytes, cell'[c].how)
                                /\ LoggedOrHeld(Key(c))
    PROVE  ModelInv'
<1>1. /\ stats' \in Counts /\ stats'.emitted = stats.emitted
      /\ stats'.downloads = stats.downloads
      /\ row' \in RowRecord \cup {None} /\ row' \in {row, None}
      /\ memo' \in [Keys -> Copy \cup {None}]
      /\ \A k \in Keys : memo'[k] = memo[k]
  BY Zenon, Parts
<1>2. UNCHANGED <<env, held, named, generation>>
  BY Zenon
<1>3. QED
  BY Zenon, <1>1, <1>2, QuietStep

(* One cell that is not filled, or filled with a copy accepted under the   *)
(* key of the reader that made it.                                         *)
LEMMA CellSet ==
    ASSUME ModelInv, NEW r \in Reader, NEW c \in Reader, Key(c) = Key(r), NEW x \in CellRecord,
           x.state # "done" \/ (Accepted(Key(r), x.bytes, x.how) /\ LoggedOrHeld(Key(r))),
           cell' = [cell EXCEPT ![c] = x]
    PROVE  /\ cell' \in [Reader -> CellRecord]
           /\ \A u \in Reader : \/ cell'[u] = cell[u]
                                \/ cell'[u].state # "done"
                                \/ /\ Accepted(Key(u), cell'[u].bytes, cell'[u].how)
                                   /\ LoggedOrHeld(Key(u))
<1>1. cell \in [Reader -> CellRecord]
  BY Zenon, Parts
<1>2. cell' \in [Reader -> CellRecord] /\ cell'[c] = x /\ \A u \in Reader \ {c} : cell'[u] = cell[u]
  BY Zenon, <1>1
<1>3. QED
  BY Zenon, <1>2

(* The reader's cell, inside it. *)
LEMMA OwnCell ==
    ASSUME ModelInv, NEW r \in Reader, rd[r].at \in InCell
    PROVE  rd[r].cell \in Reader /\ Key(rd[r].cell) = Key(r) /\ cell[rd[r].cell] \in CellRecord
BY Zenon, Parts DEF ReadOK, ReadRecord

(* An initializer that fails empties its cell, and the next waiter tries. *)
LEMMA FailsOK ==
    ASSUME ModelInv, NEW r \in Reader, rd[r].at \in InCell, Fails(r)
    PROVE  /\ \E m \in ReadRecord : rd' = [rd EXCEPT ![r] = m] /\ m.at # "memo" /\ ReadOK(r, m)
           /\ cell' \in [Reader -> CellRecord]
           /\ \A u \in Reader : \/ cell'[u] = cell[u]
                                \/ cell'[u].state # "done"
                                \/ /\ Accepted(Key(u), cell'[u].bytes, cell'[u].how)
                                   /\ LoggedOrHeld(Key(u))
<1>1. /\ rd[r] \in ReadRecord /\ ReadOK(r, rd[r]) /\ rd[r].seen \in Bytes \cup {None}
      /\ cell \in [Reader -> CellRecord]
  BY Zenon, Parts DEF ReadRecord
<1>2. PICK m : m = [rd[r] EXCEPT !.at = "leave", !.seen = rd[r].seen]
  BY Zenon
<1>3. rd' = [rd EXCEPT ![r] = m] /\ "leave" \notin InCell
  BY Zenon, <1>1, <1>2, GoRecord DEF Fails, InCell
<1>4. m \in ReadRecord /\ m.at # "memo" /\ ReadOK(r, m)
  BY Zenon, <1>1, <1>2, <1>3, GoOK
<1>5. PICK c \in Reader : c = rd[r].cell /\ Key(c) = Key(r) /\ cell[c] \in CellRecord
  BY Zenon, OwnCell
<1>6. PICK x : x = [cell[c] EXCEPT !.state = "empty"]
  BY Zenon
<1>7. x \in CellRecord /\ x.state # "done" /\ cell' = [cell EXCEPT ![c] = x]
  BY Zenon, <1>1, <1>5, <1>6 DEF CellRecord, Fails
<1>8. /\ cell' \in [Reader -> CellRecord]
      /\ \A u \in Reader : \/ cell'[u] = cell[u]
                           \/ cell'[u].state # "done"
                           \/ /\ Accepted(Key(u), cell'[u].bytes, cell'[u].how)
                              /\ LoggedOrHeld(Key(u))
  BY Zenon, <1>5, <1>7, CellSet
<1>9. QED
  BY Zenon, <1>3, <1>4, <1>8

(* So does one that succeeds fill it with what was accepted. *)
LEMMA FillsOK ==
    ASSUME ModelInv, NEW r \in Reader, rd[r].at \in InCell, NEW b \in Bytes, NEW h \in Hows,
           Accepted(Key(r), b, h), LoggedOrHeld(Key(r)), Fills(r, b, h)
    PROVE  /\ cell' \in [Reader -> CellRecord]
           /\ \A u \in Reader : \/ cell'[u] = cell[u]
                                \/ cell'[u].state # "done"
                                \/ /\ Accepted(Key(u), cell'[u].bytes, cell'[u].how)
                                   /\ LoggedOrHeld(Key(u))
<1>1. PICK c \in Reader : c = rd[r].cell /\ Key(c) = Key(r)
  BY Zenon, OwnCell
<1>2. PICK x : x = [state |-> "done", bytes |-> b, how |-> h]
  BY Zenon
<1>3. x \in CellRecord /\ x.bytes = b /\ x.how = h
  BY Zenon, <1>2 DEF CellRecord
<1>4. cell' = [cell EXCEPT ![c] = x]
  BY Zenon, <1>1, <1>2 DEF Fills
<1>5. QED
  BY Zenon, <1>1, <1>3, <1>4, CellSet

(* Join keeps the invariant.                                               *)
LEMMA JoinStep ==
    ASSUME ModelInv, NEW r \in Reader, Join(r) PROVE ModelInv'
<1>1. /\ rd[r] \in ReadRecord /\ ReadOK(r, rd[r]) /\ Key(r) \in Keys
      /\ inflight \in [Keys -> Reader \cup {None}] /\ cell \in [Reader -> CellRecord]
      /\ \A k \in Keys : inflight[k] # None => Key(inflight[k]) = k
  BY Zenon, Parts
<1>2. UNCHANGED <<env, row, memo, held, misses, kept, named, generation, stats>>
  BY Zenon DEF Join
<1>3. PICK c \in Reader : c = IF inflight[Key(r)] = None THEN r ELSE inflight[Key(r)]
  BY Zenon, <1>1
<1>4. Key(c) = Key(r)
  BY Zenon, <1>1, <1>3
<1>5. PICK m : m = [rd[r] EXCEPT !.at = "wait", !.cell = c]
  BY Zenon
<1>6. /\ inflight' = [inflight EXCEPT ![Key(r)] = c]
      /\ cell' = IF c = r THEN [cell EXCEPT ![r].state = "empty"] ELSE cell
      /\ rd' = [rd EXCEPT ![r] = m]
  BY Zenon, <1>1, <1>3, <1>5 DEF Join, ReadRecord
<1>7. /\ m \in ReadRecord /\ m.at = "wait" /\ m.cell = c /\ m.bytes = rd[r].bytes
      /\ m.how = rd[r].how
  BY ZenonT(60), <1>1, <1>5 DEF ReadRecord, InCell
<1>8. /\ c # None
      /\ "wait" \notin Users \cup {"memo", "done", "store", "keep", "remove", "auth2", "auth3",
                                  "miss", "fetch"}
  BY Zenon, ModelAssumption DEF Users
<1>9. ReadOK(r, m)
  BY Zenon, <1>1, <1>4, <1>7, <1>8 DEF ReadOK
<1>10. /\ inflight' \in [Keys -> Reader \cup {None}]
       /\ \A k \in Keys : inflight'[k] # None => Key(inflight'[k]) = k
  BY Zenon, <1>1, <1>4, <1>6
<1>11. /\ cell' \in [Reader -> CellRecord]
       /\ \A u \in Reader : cell'[u] = cell[u] \/ cell'[u].state # "done"
  BY ZenonT(60), <1>1, <1>6 DEF CellRecord
<1>12. /\ MissInv' /\ misses' \in MissRecord \cup {None}
       /\ kept' \in [0..MaxGeneration -> KeptAnswers \cup {None}]
  BY Zenon, <1>2, Parts DEF MissInv
<1>13. QED
  BY Zenon, <1>2, <1>6, <1>7, <1>8, <1>9, <1>10, <1>11, <1>12, CellStep

(* A waiter takes what the cell was filled with, or fills it. *)
LEMMA WaitStep ==
    ASSUME ModelInv, NEW r \in Reader, Wait(r) PROVE ModelInv'
<1>1. /\ rd[r] \in ReadRecord /\ ReadOK(r, rd[r]) /\ rd[r].at \in InCell
      /\ cell \in [Reader -> CellRecord] /\ rd[r].seen \in Bytes \cup {None}
  BY Zenon, Parts DEF Wait, InCell, ReadRecord
<1>2. UNCHANGED <<env, row, memo, held, inflight, misses, kept, named, generation, stats>>
  BY Zenon DEF Wait
<1>3. PICK c \in Reader : c = rd[r].cell /\ Key(c) = Key(r) /\ cell[c] \in CellRecord /\ CellInv(c)
  BY Zenon, OwnCell, <1>1, Parts
<1>4. /\ MissInv' /\ misses' \in MissRecord \cup {None}
      /\ kept' \in [0..MaxGeneration -> KeptAnswers \cup {None}]
      /\ inflight' \in [Keys -> Reader \cup {None}]
      /\ \A k \in Keys : inflight'[k] # None => Key(inflight'[k]) = k
  BY Zenon, <1>2, Parts DEF MissInv
<1>5. CASE /\ cell[c].state = "done" /\ Got(r, cell[c].bytes, cell[c].how, "leave")
           /\ UNCHANGED cell
  <2>1. PICK b, h : b = cell[c].bytes /\ h = cell[c].how
    BY Zenon
  <2>2. /\ b \in Bytes /\ h \in Hows /\ Accepted(Key(r), b, h) /\ LoggedOrHeld(Key(r))
    BY Zenon, <1>3, <1>5, <2>1 DEF CellInv, Accepted
  <2>3. PICK m : m = [rd[r] EXCEPT !.at = "leave", !.bytes = b, !.how = h, !.seen = None]
    BY Zenon
  <2>4. rd' = [rd EXCEPT ![r] = m]
    BY Zenon, <1>5, <2>1, <2>3 DEF Got
  <2>5. m \in ReadRecord /\ m.at # "memo" /\ ReadOK(r, m)
    BY Zenon, <1>1, <2>2, <2>3, GotOK
  <2>6. cell' \in [Reader -> CellRecord] /\ \A u \in Reader : cell'[u] = cell[u]
    BY Zenon, <1>1, <1>5
  <2>7. QED
    BY Zenon, <1>2, <1>4, <2>4, <2>5, <2>6, CellStep
<1>6. CASE cell' = [cell EXCEPT ![c].state = "busy"] /\ Go(r, "get2")
  <2>1. PICK m : m = [rd[r] EXCEPT !.at = "get2", !.seen = rd[r].seen]
    BY Zenon
  <2>2. rd' = [rd EXCEPT ![r] = m] /\ rd[r].cell # None
    BY Zenon, <1>1, <1>6, <2>1, GoRecord DEF Go, ReadOK
  <2>3. m \in ReadRecord /\ m.at # "memo" /\ ReadOK(r, m)
    BY Zenon, <1>1, <2>1, <2>2, GoOK DEF InCell
  <2>4. /\ cell' \in [Reader -> CellRecord]
        /\ \A u \in Reader : cell'[u] = cell[u] \/ cell'[u].state # "done"
    BY ZenonT(60), <1>1, <1>6 DEF CellRecord
  <2>5. QED
    BY Zenon, <1>2, <1>4, <2>2, <2>3, <2>4, CellStep
<1>7. QED
  BY Zenon, <1>3, <1>5, <1>6 DEF Wait

(* ReadHeldAgain keeps the invariant.                                      *)
LEMMA ReadHeldAgainStep ==
    ASSUME ModelInv, NEW r \in Reader, ReadHeldAgain(r) PROVE ModelInv'
<1>1. /\ rd[r] \in ReadRecord /\ ReadOK(r, rd[r]) /\ rd[r].at \in InCell
      /\ rd[r].seen \in Bytes \cup {None} /\ cell \in [Reader -> CellRecord]
      /\ Key(r) \in Keys /\ KeyInv(Key(r)) /\ held \in [Keys -> HeldCopy \cup {None}]
  BY Zenon, Parts DEF ReadHeldAgain, InCell, ReadRecord, ModelInv
<1>2. UNCHANGED <<env, row, memo, held, inflight, misses, kept, named, generation, stats>>
  BY Zenon DEF ReadHeldAgain
<1>3. /\ MissInv' /\ misses' \in MissRecord \cup {None}
      /\ kept' \in [0..MaxGeneration -> KeptAnswers \cup {None}]
      /\ inflight' \in [Keys -> Reader \cup {None}]
      /\ \A k \in Keys : inflight'[k] # None => Key(inflight'[k]) = k
  BY Zenon, <1>2, Parts DEF MissInv
<1>4. CASE Go(r, "auth") /\ UNCHANGED cell
  <2>1. PICK m : m = [rd[r] EXCEPT !.at = "auth", !.seen = rd[r].seen]
    BY Zenon
  <2>2. rd' = [rd EXCEPT ![r] = m] /\ rd[r].cell # None
    BY Zenon, <1>1, <1>4, <2>1, GoRecord DEF Go, ReadOK
  <2>3. m \in ReadRecord /\ m.at # "memo" /\ ReadOK(r, m)
    BY Zenon, <1>1, <2>1, <2>2, GoOK DEF InCell
  <2>4. cell' \in [Reader -> CellRecord] /\ \A u \in Reader : cell'[u] = cell[u]
    BY Zenon, <1>1, <1>4
  <2>5. QED
    BY Zenon, <1>2, <1>3, <2>2, <2>3, <2>4, CellStep
<1>5. CASE /\ held[Key(r)] # None
           /\ Got(r, held[Key(r)].bytes, held[Key(r)].how, "leave")
           /\ Fills(r, held[Key(r)].bytes, held[Key(r)].how)
  <2>1. PICK b \in Bytes, h \in Hows : b = held[Key(r)].bytes /\ h = held[Key(r)].how
    BY Zenon, <1>1, <1>5 DEF HeldCopy
  <2>2. Accepted(Key(r), b, h) /\ LoggedOrHeld(Key(r))
    BY Zenon, <1>1, <1>5, <2>1 DEF KeyInv, LoggedOrHeld
  <2>3. PICK m : m = [rd[r] EXCEPT !.at = "leave", !.bytes = b, !.how = h, !.seen = None]
    BY Zenon
  <2>4. rd' = [rd EXCEPT ![r] = m]
    BY Zenon, <1>5, <2>1, <2>3 DEF Got
  <2>5. m \in ReadRecord /\ m.at # "memo" /\ ReadOK(r, m)
    BY Zenon, <1>1, <2>2, <2>3, GotOK
  <2>6. /\ cell' \in [Reader -> CellRecord]
        /\ \A u \in Reader : \/ cell'[u] = cell[u]
                             \/ cell'[u].state # "done"
                             \/ /\ Accepted(Key(u), cell'[u].bytes, cell'[u].how)
                                /\ LoggedOrHeld(Key(u))
    BY Zenon, <1>1, <1>5, <2>1, <2>2, FillsOK
  <2>7. QED
    BY Zenon, <1>2, <1>3, <2>4, <2>5, <2>6, CellStep
<1>6. QED
  BY Zenon, <1>4, <1>5 DEF ReadHeldAgain

(* A miss is recorded under a generation no newer than the credential that *)
(* met it.                                                                 *)
LEMMA MissRecorded ==
    ASSUME ModelInv, NEW r \in Reader, rd[r].at \in {"miss", "fetch"}, NEW what,
           what \in MissAnswers => RecordMiss(r, what),
           what \notin MissAnswers => misses' = misses
    PROVE  misses' \in MissRecord \cup {None} /\ MissInv'
<1>1. /\ rd[r].cred \in 0..MaxGeneration /\ rd[r].gen \in 0..MaxGeneration
      /\ rd[r].authGen \in 0..MaxGeneration
      /\ rd[r].gen <= rd[r].cred /\ rd[r].authGen <= rd[r].cred
      /\ MissInv /\ misses \in MissRecord \cup {None}
  BY Zenon, Parts DEF ReadRecord, ReadOK
<1>2. CASE misses' = misses
  BY Zenon, <1>1, <1>2 DEF MissInv
<1>3. CASE what \in MissAnswers
  <2>1. PICK g \in 0..MaxGeneration :
            g = (IF rd[r].authGen < rd[r].gen THEN rd[r].authGen ELSE rd[r].gen)
            /\ g <= rd[r].cred
    BY Zenon, <1>1
  <2>2. misses' = [what |-> what, cred |-> rd[r].cred, gen |-> g]
    BY Zenon, <1>3, <2>1 DEF RecordMiss
  <2>3. misses' \in MissRecord /\ misses'.gen = g /\ misses'.cred = rd[r].cred
    BY Zenon, <1>1, <1>3, <2>1, <2>2 DEF MissRecord
  <2>4. QED
    BY Zenon, <2>1, <2>3 DEF MissInv
<1>4. QED
  BY Zenon, <1>2, <1>3

(* ReadMiss keeps the invariant.                                           *)
LEMMA ReadMissStep ==
    ASSUME ModelInv, NEW r \in Reader, ReadMiss(r) PROVE ModelInv'
<1>1. /\ rd[r] \in ReadRecord /\ ReadOK(r, rd[r]) /\ rd[r].at = "miss" /\ rd[r].at \in InCell
      /\ cell \in [Reader -> CellRecord] /\ kept \in [0..MaxGeneration -> KeptAnswers \cup {None}]
      /\ rd[r].cred \in 0..MaxGeneration
  BY Zenon, Parts DEF ReadMiss, InCell, ReadRecord
<1>2. UNCHANGED <<env, row, memo, held, inflight, kept, named, generation, stats>>
  BY Zenon DEF ReadMiss
<1>3. /\ kept' \in [0..MaxGeneration -> KeptAnswers \cup {None}]
      /\ inflight' \in [Keys -> Reader \cup {None}]
      /\ \A k \in Keys : inflight'[k] # None => Key(inflight'[k]) = k
  BY Zenon, <1>2, Parts
<1>4. misses' \in MissRecord \cup {None} /\ MissInv'
  <2>1. CASE misses' = misses
    BY Zenon, <2>1, Parts DEF MissInv
  <2>2. CASE kept[rd[r].cred] # None /\ RecordMiss(r, kept[rd[r].cred])
    <3>1. PICK what : what = kept[rd[r].cred]
      BY Zenon
    <3>2. what \in MissAnswers
      BY Zenon, <1>1, <2>2, <3>1 DEF KeptAnswers, MissAnswers
    <3>3. QED
      BY Zenon, <1>1, <2>2, <3>1, <3>2, MissRecorded
  <2>3. QED
    BY Zenon, <2>1, <2>2 DEF ReadMiss
<1>5. CASE Fails(r)
  <2>1. PICK m \in ReadRecord : rd' = [rd EXCEPT ![r] = m] /\ m.at # "memo" /\ ReadOK(r, m)
    BY Zenon, <1>1, <1>5, FailsOK
  <2>2. /\ cell' \in [Reader -> CellRecord]
        /\ \A u \in Reader : \/ cell'[u] = cell[u]
                             \/ cell'[u].state # "done"
                             \/ /\ Accepted(Key(u), cell'[u].bytes, cell'[u].how)
                                /\ LoggedOrHeld(Key(u))
    BY Zenon, <1>1, <1>5, FailsOK
  <2>3. QED
    BY Zenon, <1>2, <1>3, <1>4, <2>1, <2>2, CellStep
<1>6. CASE Go(r, "fetch") /\ UNCHANGED cell
  <2>1. PICK m : m = [rd[r] EXCEPT !.at = "fetch"]
    BY Zenon
  <2>2. /\ rd' = [rd EXCEPT ![r] = m] /\ m \in ReadRecord /\ m.at = "fetch"
        /\ m.bytes = rd[r].bytes /\ m.how = rd[r].how /\ m.cell = rd[r].cell
        /\ m.gen = rd[r].gen /\ m.authGen = rd[r].authGen /\ m.cred = rd[r].cred
    BY Zenon, <1>1, <1>6, <2>1 DEF Go, ReadRecord, InCell
  <2>3. "fetch" \notin Users \cup {"memo", "done", "store", "keep", "remove", "auth2", "auth3"}
    BY Zenon DEF Users
  <2>4. ReadOK(r, m)
    BY Zenon, <1>1, <2>2, <2>3 DEF ReadOK
  <2>5. cell' \in [Reader -> CellRecord] /\ \A u \in Reader : cell'[u] = cell[u]
    BY Zenon, <1>1, <1>6
  <2>6. m.at # "memo"
    BY Zenon, <2>2
  <2>7. QED
    BY Zenon, <1>2, <1>3, <1>4, <2>2, <2>4, <2>5, <2>6, CellStep
<1>7. QED
  BY Zenon, <1>5, <1>6 DEF ReadMiss

(* FetchFails keeps the invariant.                                         *)
LEMMA FetchFailsStep ==
    ASSUME ModelInv, NEW r \in Reader, NEW what, FetchFails(r, what) PROVE ModelInv'
<1>1. /\ rd[r] \in ReadRecord /\ rd[r].at = "fetch" /\ rd[r].at \in InCell
      /\ kept \in [0..MaxGeneration -> KeptAnswers \cup {None}] /\ stats \in Counts
      /\ rd[r].cred \in 0..MaxGeneration
  BY Zenon, Parts DEF FetchFails, InCell, ReadRecord
<1>2. UNCHANGED <<env, row, memo, held, inflight, named, generation>> /\ Fails(r)
  BY Zenon DEF FetchFails
<1>3. kept' \in [0..MaxGeneration -> KeptAnswers \cup {None}]
  BY Zenon, <1>1 DEF FetchFails
<1>4. misses' \in MissRecord \cup {None} /\ MissInv'
  <2>1. misses' = misses \/ RecordMiss(r, what)
    BY Zenon DEF FetchFails
  <2>2. CASE misses' = misses
    BY Zenon, <2>2, Parts DEF MissInv
  <2>3. CASE RecordMiss(r, what)
    <3>1. what \notin MissAnswers => misses' = misses
      BY Zenon, <2>3 DEF RecordMiss
    <3>2. QED
      BY Zenon, <1>1, <2>3, <3>1, MissRecorded
  <2>4. QED
    BY Zenon, <2>1, <2>2, <2>3
<1>5. /\ stats' \in Counts /\ stats'.emitted = stats.emitted
      /\ stats'.downloads = stats.downloads
  BY Zenon, <1>1 DEF FetchFails, Counts
<1>6. PICK m \in ReadRecord : rd' = [rd EXCEPT ![r] = m] /\ m.at # "memo" /\ ReadOK(r, m)
  BY Zenon, <1>1, <1>2, FailsOK
<1>7. /\ cell' \in [Reader -> CellRecord]
      /\ \A u \in Reader : \/ cell'[u] = cell[u]
                           \/ cell'[u].state # "done"
                           \/ /\ Accepted(Key(u), cell'[u].bytes, cell'[u].how)
                              /\ LoggedOrHeld(Key(u))
  BY Zenon, <1>1, <1>2, FailsOK
<1>8. /\ row' \in RowRecord \cup {None} /\ row' \in {row, None}
      /\ memo' \in [Keys -> Copy \cup {None}]
      /\ \A k \in Keys : memo'[k] = memo[k]
      /\ inflight' \in [Keys -> Reader \cup {None}]
      /\ \A k \in Keys : inflight'[k] # None => Key(inflight'[k]) = k
  BY Zenon, <1>2, Parts
<1>9. UNCHANGED <<env, held, named, generation>>
  BY Zenon, <1>2
<1>10. QED
  BY Zenon, <1>3, <1>4, <1>5, <1>6, <1>7, <1>8, <1>9, QuietStep

(* Leave keeps the invariant.                                              *)
LEMMA LeaveStep ==
    ASSUME ModelInv, NEW r \in Reader, Leave(r) PROVE ModelInv'
<1>1. /\ rd[r] \in ReadRecord /\ ReadOK(r, rd[r]) /\ Key(r) \in Keys
      /\ inflight \in [Keys -> Reader \cup {None}] /\ cell \in [Reader -> CellRecord]
      /\ \A k \in Keys : inflight[k] # None => Key(inflight[k]) = k
  BY Zenon, Parts
<1>2. /\ UNCHANGED <<env, row, memo, held, cell, misses, kept, named, generation, stats>>
      /\ inflight' = [inflight EXCEPT ![Key(r)] = None]
  BY Zenon DEF Leave
<1>3. /\ inflight' \in [Keys -> Reader \cup {None}]
      /\ \A k \in Keys : inflight'[k] # None => Key(inflight'[k]) = k
  BY Zenon, <1>1, <1>2
<1>4. /\ MissInv' /\ misses' \in MissRecord \cup {None}
      /\ kept' \in [0..MaxGeneration -> KeptAnswers \cup {None}]
      /\ cell' \in [Reader -> CellRecord] /\ \A u \in Reader : cell'[u] = cell[u]
  BY Zenon, <1>2, Parts DEF MissInv
<1>5. UNCHANGED <<env, row, memo, held, named, generation, stats>>
  BY Zenon, <1>2
<1>6. CASE Who(r).use /\ rd[r].bytes # None /\ Go(r, "adopt")
  <2>1. PICK m : m = [rd[r] EXCEPT !.at = "adopt"]
    BY Zenon
  <2>2. /\ rd' = [rd EXCEPT ![r] = m] /\ m \in ReadRecord /\ m.at = "adopt"
        /\ m.bytes = rd[r].bytes /\ m.how = rd[r].how /\ m.cell = rd[r].cell
    BY Zenon, <1>1, <1>6, <2>1 DEF Go, ReadRecord, Users
  <2>3. "adopt" \notin InCell \cup {"memo", "done", "store", "keep", "remove", "auth2", "auth3",
                                   "miss", "fetch"}
    BY Zenon DEF InCell
  <2>4. ReadOK(r, m) /\ m.at # "memo"
    BY Zenon, <1>1, <1>6, <2>2, <2>3 DEF ReadOK
  <2>5. QED
    BY Zenon, <1>3, <1>4, <1>5, <2>2, <2>4, CellStep
<1>7. CASE ~(Who(r).use /\ rd[r].bytes # None) /\ Return(r, rd[r].bytes, rd[r].how)
  <2>1. PICK b \in Bytes \cup {None}, h \in Hows \cup {None} : b = rd[r].bytes /\ h = rd[r].how
    BY Zenon, <1>1 DEF ReadRecord
  <2>2. b # None => /\ Accepted(Key(r), b, h) /\ LoggedOrHeld(Key(r))
                    /\ Who(r).use => LoggedOrCached
    BY Zenon, <1>1, <1>7, <2>1 DEF ReadOK
  <2>3. PICK m : m = [Idle EXCEPT !.at = "done", !.bytes = b, !.how = h]
    BY Zenon
  <2>4. rd' = [rd EXCEPT ![r] = m]
    BY Zenon, <1>7, <2>1, <2>3 DEF Return
  <2>5. m \in ReadRecord /\ m.at # "memo" /\ ReadOK(r, m)
    BY Zenon, <2>2, <2>3, ReturnOK
  <2>6. QED
    BY Zenon, <1>3, <1>4, <1>5, <2>4, <2>5, CellStep
<1>8. QED
  BY Zenon, <1>6, <1>7 DEF Leave

(* A row that is handed out was accepted, and logged if this run wrote it. *)
LEMMA RowUsed ==
    ASSUME ModelInv, NEW r \in Reader, RowAnswer(r, row) = "use"
    PROVE  /\ row # None /\ row.content \in Bytes /\ row.how \in Hows
           /\ Accepted(Key(r), row.content, row.how)
           /\ LoggedOrCached /\ LoggedOrHeld(Key(r))
<1>1. row # None
  BY Zenon DEF RowAnswer
<1>2. (row.checked <=> row.how = "Verified") /\ LoggedOrCached /\ ModelTypeOK
  BY Zenon, <1>1, Parts DEF RowInv
<1>3. Accepted(Key(r), row.content, row.how)
  BY Zenon, <1>1, <1>2, RowAccepted
<1>4. LoggedOrHeld(Key(r))
  BY Zenon, <1>2 DEF LoggedOrCached, LoggedOrHeld
<1>5. QED
  BY Zenon, <1>1, <1>2, <1>3, <1>4 DEF Accepted

(* ReadRow keeps the invariant.                                            *)
LEMMA ReadRowStep ==
    ASSUME ModelInv, NEW r \in Reader, ReadRow(r) PROVE ModelInv'
<1>1. /\ rd[r] \in ReadRecord /\ ReadOK(r, rd[r]) /\ rd[r].at \in {"get", "get2"}
      /\ rd[r].at = "get2" => rd[r].at \in InCell
      /\ cell \in [Reader -> CellRecord] /\ memo \in [Keys -> Copy \cup {None}]
      /\ Key(r) \in Keys
  BY Zenon, Parts DEF ReadRow, InCell
<1>2. UNCHANGED <<env, row, held, inflight, misses, kept, named, generation, stats>>
  BY Zenon DEF ReadRow
<1>3. /\ MissInv' /\ misses' \in MissRecord \cup {None}
      /\ kept' \in [0..MaxGeneration -> KeptAnswers \cup {None}]
      /\ inflight' \in [Keys -> Reader \cup {None}]
      /\ \A k \in Keys : inflight'[k] # None => Key(inflight'[k]) = k
      /\ row' \in RowRecord \cup {None} /\ row' \in {row, None}
      /\ stats' \in Counts /\ stats'.emitted = stats.emitted
      /\ stats'.downloads = stats.downloads
  BY Zenon, <1>2, Parts DEF MissInv
<1>4. UNCHANGED <<env, held, named, generation>>
  BY Zenon, <1>2
<1>5. rd[r].at = "get2" => rd[r].cell # None
  BY Zenon, <1>1 DEF ReadOK
<1>6. CASE /\ RowAnswer(r, row) \in {"damaged", "none"} /\ UNCHANGED <<memo, cell>>
  <2>1. PICK at \in {"held", "held2", "drop", "drop2"}, seen \in Bytes \cup {None} :
            /\ rd' = [rd EXCEPT ![r] = [rd[r] EXCEPT !.at = at, !.seen = seen]]
            /\ at \in {"held2", "drop2"} => rd[r].at = "get2"
    <3>1. CASE RowAnswer(r, row) = "damaged"
      <4>1. row \in RowRecord
        BY Zenon, <3>1, Parts DEF RowAnswer
      <4>2. PICK at \in {"drop", "drop2"} : at = IF rd[r].at = "get" THEN "drop" ELSE "drop2"
        BY Zenon
      <4>3. rd' = [rd EXCEPT ![r].seen = row.content, ![r].at = at]
        BY Zenon, <3>1, <4>2 DEF ReadRow
      <4>4. rd' = [rd EXCEPT ![r] = [rd[r] EXCEPT !.at = at, !.seen = row.content]]
        BY Zenon, <1>1, <4>3 DEF ReadRecord
      <4>5. row.content \in Bytes \cup {None}
        BY Zenon, <4>1 DEF RowRecord
      <4>6. QED
        BY Zenon, <1>1, <4>2, <4>4, <4>5
    <3>2. CASE RowAnswer(r, row) = "none"
      <4>1. PICK at \in {"held", "held2"} : at = After(rd[r].at) /\ (at = "held2" => rd[r].at = "get2")
        BY Zenon, <1>1 DEF After
      <4>2. rd' = [rd EXCEPT ![r].at = at]
        BY Zenon, <3>2, <4>1 DEF ReadRow, Go
      <4>3. rd' = [rd EXCEPT ![r] = [rd[r] EXCEPT !.at = at, !.seen = rd[r].seen]]
        BY Zenon, <1>1, <4>2, GoRecord
      <4>4. rd[r].seen \in Bytes \cup {None}
        BY Zenon, <1>1 DEF ReadRecord
      <4>5. QED
        BY Zenon, <4>1, <4>3, <4>4
    <3>3. QED
      BY Zenon, <1>6, <3>1, <3>2
  <2>2. PICK m : m = [rd[r] EXCEPT !.at = at, !.seen = seen]
    BY Zenon
  <2>3. at \in InCell => rd[r].cell # None
    BY Zenon, <1>5, <2>1 DEF InCell
  <2>4. m \in ReadRecord /\ m.at # "memo" /\ ReadOK(r, m)
    BY Zenon, <1>1, <2>1, <2>2, <2>3, GoOK DEF InCell
  <2>5. /\ memo' \in [Keys -> Copy \cup {None}] /\ \A k \in Keys : memo'[k] = memo[k]
        /\ cell' \in [Reader -> CellRecord] /\ \A u \in Reader : cell'[u] = cell[u]
    BY Zenon, <1>1, <1>6
  <2>6. QED
    BY Zenon, <1>3, <1>4, <2>1, <2>2, <2>4, <2>5, QuietStep
<1>7. CASE RowAnswer(r, row) = "error"
  <2>1. memo' \in [Keys -> Copy \cup {None}] /\ \A k \in Keys : memo'[k] = memo[k]
    BY Zenon, <1>1, <1>7 DEF ReadRow
  <2>2. CASE rd[r].at = "get"
    <3>1. Return(r, None, None) /\ UNCHANGED cell
      BY Zenon, <1>7, <2>2 DEF ReadRow
    <3>2. PICK m : m = [Idle EXCEPT !.at = "done", !.bytes = None, !.how = None]
      BY Zenon
    <3>3. rd' = [rd EXCEPT ![r] = m]
      BY Zenon, <3>1, <3>2 DEF Return
    <3>4. m \in ReadRecord /\ m.at # "memo" /\ ReadOK(r, m)
      BY Zenon, <3>2, ReturnOK
    <3>5. cell' \in [Reader -> CellRecord] /\ \A u \in Reader : cell'[u] = cell[u]
      BY Zenon, <1>1, <3>1
    <3>6. QED
      BY Zenon, <1>3, <1>4, <2>1, <3>3, <3>4, <3>5, QuietStep
  <2>3. CASE rd[r].at = "get2"
    <3>1. Fails(r)
      BY Zenon, <1>7, <2>3 DEF ReadRow
    <3>2. PICK m \in ReadRecord : rd' = [rd EXCEPT ![r] = m] /\ m.at # "memo" /\ ReadOK(r, m)
      BY Zenon, <1>1, <2>3, <3>1, FailsOK
    <3>3. /\ cell' \in [Reader -> CellRecord]
          /\ \A u \in Reader : \/ cell'[u] = cell[u]
                               \/ cell'[u].state # "done"
                               \/ /\ Accepted(Key(u), cell'[u].bytes, cell'[u].how)
                                  /\ LoggedOrHeld(Key(u))
      BY Zenon, <1>1, <2>3, <3>1, FailsOK
    <3>4. QED
      BY Zenon, <1>3, <1>4, <2>1, <3>2, <3>3, QuietStep
  <2>4. QED
    BY Zenon, <1>1, <2>2, <2>3
<1>8. CASE RowAnswer(r, row) = "use"
  <2>1. PICK b \in Bytes, h \in Hows :
            /\ b = row.content /\ h = row.how
            /\ Accepted(Key(r), b, h) /\ LoggedOrCached /\ LoggedOrHeld(Key(r))
    BY Zenon, <1>8, RowUsed
  <2>2. CASE rd[r].at = "get"
    <3>1. /\ Return(r, b, h) /\ UNCHANGED cell
          /\ memo' = IF env.fixed /\ row.forever /\ memo[Key(r)] = None
                     THEN [memo EXCEPT ![Key(r)] = [bytes |-> b, how |-> h]] ELSE memo
      BY Zenon, <1>8, <2>1, <2>2 DEF ReadRow
    <3>2. PICK x : x = [bytes |-> b, how |-> h]
      BY Zenon
    <3>3. x \in Copy /\ x.bytes = b /\ x.how = h
      BY Zenon, <3>2 DEF Copy
    <3>4. /\ memo' \in [Keys -> Copy \cup {None}]
          /\ \A k \in Keys : memo'[k] = memo[k] \/ (k = Key(r) /\ memo'[k] = x)
      BY Zenon, <1>1, <3>1, <3>2, <3>3
    <3>5. \A k \in Keys : \/ memo'[k] = memo[k]
                          \/ Accepted(k, memo'[k].bytes, memo'[k].how) /\ LoggedOrCached
      BY Zenon, <2>1, <3>3, <3>4
    <3>6. PICK m : m = [Idle EXCEPT !.at = "done", !.bytes = b, !.how = h]
      BY Zenon
    <3>7. rd' = [rd EXCEPT ![r] = m]
      BY Zenon, <3>1, <3>6 DEF Return
    <3>8. m \in ReadRecord /\ m.at # "memo" /\ ReadOK(r, m)
      BY Zenon, <2>1, <3>6, ReturnOK
    <3>9. cell' \in [Reader -> CellRecord] /\ \A u \in Reader : cell'[u] = cell[u]
      BY Zenon, <1>1, <3>1
    <3>10. QED
      BY Zenon, <1>3, <1>4, <3>4, <3>5, <3>7, <3>8, <3>9, QuietStep
  <2>3. CASE rd[r].at = "get2"
    <3>1. Got(r, b, h, "leave") /\ Fills(r, b, h) /\ UNCHANGED memo
      BY Zenon, <1>8, <2>1, <2>3 DEF ReadRow
    <3>2. PICK m : m = [rd[r] EXCEPT !.at = "leave", !.bytes = b, !.how = h, !.seen = None]
      BY Zenon
    <3>3. rd' = [rd EXCEPT ![r] = m]
      BY Zenon, <3>1, <3>2 DEF Got
    <3>4. m \in ReadRecord /\ m.at # "memo" /\ ReadOK(r, m)
      BY ZenonT(60), <1>1, <2>1, <3>2, GotOK
    <3>5. /\ cell' \in [Reader -> CellRecord]
          /\ \A u \in Reader : \/ cell'[u] = cell[u]
                               \/ cell'[u].state # "done"
                               \/ /\ Accepted(Key(u), cell'[u].bytes, cell'[u].how)
                                  /\ LoggedOrHeld(Key(u))
      BY Zenon, <1>1, <2>1, <2>3, <3>1, FillsOK
    <3>6. memo' \in [Keys -> Copy \cup {None}] /\ \A k \in Keys : memo'[k] = memo[k]
      BY Zenon, <1>1, <3>1
    <3>7. QED
      BY Zenon, <1>3, <1>4, <3>3, <3>4, <3>5, <3>6, QuietStep
  <2>4. QED
    BY Zenon, <1>1, <2>2, <2>3
<1>9. RowAnswer(r, row) \in {"damaged", "none", "error", "use"}
  BY Zenon DEF RowAnswer
<1>10. RowAnswer(r, row) \in {"damaged", "none"} => UNCHANGED <<memo, cell>>
  BY Zenon DEF ReadRow
<1>11. QED
  BY Zenon, <1>6, <1>7, <1>8, <1>9, <1>10

(* What cache_pom writes was accepted and logged, by a read that uses it. *)
LEMMA CachePomOK ==
    ASSUME ModelInv, NEW r \in Reader, NEW b \in Bytes, NEW h \in Hows, NEW forever \in BOOLEAN,
           Accepted(Key(r), b, h), Who(r).use, Logged, CachePom(r, b, h, forever)
    PROVE  /\ stats' \in Counts /\ stats'.emitted = stats.emitted
           /\ stats'.downloads = stats.downloads
           /\ row' \in RowRecord \cup {None}
           /\ \/ row' \in {row, None}
              \/ (row'.checked <=> row'.how = "Verified") /\ Who(r).use /\ LoggedOrCached
           /\ memo' \in [Keys -> Copy \cup {None}]
           /\ \A k \in Keys : \/ memo'[k] = memo[k]
                              \/ Accepted(k, memo'[k].bytes, memo'[k].how) /\ LoggedOrCached
<1>1. /\ stats \in Counts /\ row \in RowRecord \cup {None} /\ Key(r) \in Keys
      /\ memo \in [Keys -> Copy \cup {None}] /\ env.ttl \in BOOLEAN /\ LoggedOrCached
  BY Zenon, Parts, EnvFields DEF LoggedOrCached
<1>2. CASE UNCHANGED <<row, memo, stats>>
  BY Zenon, <1>1, <1>2
<1>3. CASE stats' = [stats EXCEPT !.trouble = TRUE] /\ UNCHANGED <<row, memo>>
  <2>1. /\ stats' \in Counts /\ stats'.emitted = stats.emitted
        /\ stats'.downloads = stats.downloads
    BY Zenon, <1>1, <1>3 DEF Counts
  <2>2. QED
    BY Zenon, <1>1, <1>3, <2>1
<1>4. ASSUME row' = [NewRow(b, h, forever) EXCEPT !.stale = ~forever /\ ~env.ttl],
             UNCHANGED stats,
             memo' = memo \/ memo' = [memo EXCEPT ![Key(r)] = [bytes |-> b, how |-> h]]
      PROVE  /\ row' \in RowRecord \cup {None}
             /\ row'.checked <=> row'.how = "Verified"
             /\ memo' \in [Keys -> Copy \cup {None}]
             /\ \A k \in Keys : \/ memo'[k] = memo[k]
                                \/ Accepted(k, memo'[k].bytes, memo'[k].how) /\ LoggedOrCached
  <2>1. PICK s \in BOOLEAN : s = (~forever /\ ~env.ttl)
    BY Zenon, <1>1
  <2>2. row' = [content |-> b, digest |-> b, how |-> h, forever |-> forever,
                checked |-> h = "Verified", stale |-> s, fresh |-> TRUE]
    BY Zenon, <1>4, <2>1 DEF NewRow
  <2>3. row' \in RowRecord /\ row'.how = h /\ (row'.checked <=> h = "Verified")
    BY Zenon, <2>2 DEF RowRecord
  <2>4. PICK x : x = [bytes |-> b, how |-> h]
    BY Zenon
  <2>5. x \in Copy /\ x.bytes = b /\ x.how = h
    BY Zenon, <2>4 DEF Copy
  <2>6. /\ memo' \in [Keys -> Copy \cup {None}]
        /\ \A k \in Keys : memo'[k] = memo[k] \/ (k = Key(r) /\ memo'[k] = x)
    BY Zenon, <1>1, <1>4, <2>4, <2>5
  <2>7. QED
    BY Zenon, <1>1, <2>3, <2>5, <2>6
<1>5. CASE row' = [NewRow(b, h, forever) EXCEPT !.stale = ~forever /\ ~env.ttl]
           /\ UNCHANGED stats
           /\ (memo' = memo \/ memo' = [memo EXCEPT ![Key(r)] = [bytes |-> b, how |-> h]])
  BY Zenon, <1>1, <1>4, <1>5
<1>6. QED
  BY Zenon, <1>2, <1>3, <1>5 DEF CachePom

(* StoreFetched keeps the invariant.                                       *)
LEMMA StoreFetchedStep ==
    ASSUME ModelInv, NEW r \in Reader, StoreFetched(r) PROVE ModelInv'
<1>1. /\ rd[r] \in ReadRecord /\ ReadOK(r, rd[r]) /\ rd[r].at = "store"
      /\ rd[r].at \in InCell /\ rd[r].at \in Users
  BY Zenon, Parts DEF StoreFetched, InCell, Users
<1>2. PICK b \in Bytes, h \in Hows, forever \in BOOLEAN :
          /\ b = rd[r].bytes /\ h = rd[r].how /\ forever = rd[r].forever
          /\ Accepted(Key(r), b, h) /\ Who(r).use /\ Logged /\ LoggedOrHeld(Key(r))
  <2>1. /\ Accepted(Key(r), rd[r].bytes, rd[r].how) /\ Who(r).use /\ Logged
        /\ LoggedOrHeld(Key(r))
    BY Zenon, <1>1 DEF ReadOK
  <2>2. rd[r].forever \in BOOLEAN
    BY Zenon, <1>1 DEF ReadRecord
  <2>3. QED
    BY Zenon, <2>1, <2>2 DEF Accepted
<1>3. /\ UNCHANGED <<env, held, inflight, misses, kept, named, generation>>
      /\ CachePom(r, b, h, forever) /\ Fills(r, b, h) /\ Go(r, "leave")
  BY Zenon, <1>2 DEF StoreFetched
<1>4. PICK m : m = [rd[r] EXCEPT !.at = "leave", !.seen = rd[r].seen]
  BY Zenon
<1>5. /\ rd' = [rd EXCEPT ![r] = m] /\ rd[r].seen \in Bytes \cup {None} /\ "leave" \notin InCell
  BY Zenon, <1>1, <1>3, <1>4, GoRecord DEF Go, InCell, ReadRecord
<1>6. m \in ReadRecord /\ m.at # "memo" /\ ReadOK(r, m)
  BY Zenon, <1>1, <1>4, <1>5, GoOK
<1>7. /\ cell' \in [Reader -> CellRecord]
      /\ \A u \in Reader : \/ cell'[u] = cell[u]
                           \/ cell'[u].state # "done"
                           \/ /\ Accepted(Key(u), cell'[u].bytes, cell'[u].how)
                              /\ LoggedOrHeld(Key(u))
  BY Zenon, <1>1, <1>2, <1>3, FillsOK
<1>8. /\ MissInv' /\ misses' \in MissRecord \cup {None}
      /\ kept' \in [0..MaxGeneration -> KeptAnswers \cup {None}]
      /\ inflight' \in [Keys -> Reader \cup {None}]
      /\ \A k \in Keys : inflight'[k] # None => Key(inflight'[k]) = k
  BY Zenon, <1>3, Parts DEF MissInv
<1>9. UNCHANGED <<env, held, named, generation>>
  BY Zenon, <1>3
<1>10. /\ stats' \in Counts /\ stats'.emitted = stats.emitted
       /\ stats'.downloads = stats.downloads
       /\ row' \in RowRecord \cup {None}
       /\ \/ row' \in {row, None}
          \/ (row'.checked <=> row'.how = "Verified") /\ Who(r).use /\ LoggedOrCached
       /\ memo' \in [Keys -> Copy \cup {None}]
       /\ \A k \in Keys : \/ memo'[k] = memo[k]
                          \/ Accepted(k, memo'[k].bytes, memo'[k].how) /\ LoggedOrCached
  BY Zenon, <1>2, <1>3, CachePomOK
<1>11. QED
  BY Zenon, <1>5, <1>6, <1>7, <1>8, <1>9, <1>10, QuietStep

(* KeepAdopted keeps the invariant.                                        *)
LEMMA KeepAdoptedStep ==
    ASSUME ModelInv, NEW r \in Reader, KeepAdopted(r) PROVE ModelInv'
<1>1. rd[r] \in ReadRecord /\ ReadOK(r, rd[r]) /\ rd[r].at = "keep" /\ rd[r].at \in Users
  BY Zenon, Parts DEF KeepAdopted, Users
<1>2. PICK b \in Bytes, h \in Hows, forever \in BOOLEAN :
          /\ b = rd[r].adopted.bytes /\ h = rd[r].adopted.how /\ forever = rd[r].adopted.forever
          /\ Accepted(Key(r), b, h) /\ Who(r).use /\ Logged
  <2>1. /\ Accepted(Key(r), rd[r].adopted.bytes, rd[r].adopted.how) /\ Who(r).use /\ Logged
        /\ rd[r].adopted # None
    BY Zenon, <1>1 DEF ReadOK
  <2>2. rd[r].adopted.forever \in BOOLEAN
    BY Zenon, <1>1, <2>1 DEF ReadRecord, HeldCopy
  <2>3. QED
    BY Zenon, <2>1, <2>2 DEF Accepted
<1>3. /\ UNCHANGED <<env, held, inflight, cell, misses, kept, named, generation>>
      /\ CachePom(r, b, h, forever) /\ Go(r, "remove")
  BY Zenon, <1>2 DEF KeepAdopted
<1>4. PICK m : m = [rd[r] EXCEPT !.at = "remove"]
  BY Zenon
<1>5. /\ rd' = [rd EXCEPT ![r] = m] /\ m \in ReadRecord /\ m.at = "remove"
      /\ m.bytes = rd[r].bytes /\ m.how = rd[r].how /\ m.cell = rd[r].cell
  BY ZenonT(60), <1>1, <1>3, <1>4 DEF Go, ReadRecord, Users
<1>6. "remove" \notin InCell \cup {"memo", "done", "keep", "auth2", "auth3", "miss", "fetch"}
  BY Zenon DEF InCell
<1>7. ReadOK(r, m) /\ m.at # "memo"
  BY Zenon, <1>1, <1>2, <1>5, <1>6 DEF ReadOK
<1>8. /\ MissInv' /\ misses' \in MissRecord \cup {None}
      /\ kept' \in [0..MaxGeneration -> KeptAnswers \cup {None}]
      /\ inflight' \in [Keys -> Reader \cup {None}]
      /\ \A k \in Keys : inflight'[k] # None => Key(inflight'[k]) = k
      /\ cell' \in [Reader -> CellRecord] /\ \A u \in Reader : cell'[u] = cell[u]
  BY Zenon, <1>3, Parts DEF MissInv
<1>9. UNCHANGED <<env, held, named, generation>>
  BY Zenon, <1>3
<1>10. /\ stats' \in Counts /\ stats'.emitted = stats.emitted
       /\ stats'.downloads = stats.downloads
       /\ row' \in RowRecord \cup {None}
       /\ \/ row' \in {row, None}
          \/ (row'.checked <=> row'.how = "Verified") /\ Who(r).use /\ LoggedOrCached
       /\ memo' \in [Keys -> Copy \cup {None}]
       /\ \A k \in Keys : \/ memo'[k] = memo[k]
                          \/ Accepted(k, memo'[k].bytes, memo'[k].how) /\ LoggedOrCached
  BY Zenon, <1>2, <1>3, CachePomOK
<1>11. QED
  BY Zenon, <1>5, <1>7, <1>8, <1>9, <1>10, QuietStep

(* The counts, with d more downloads and e more logged warnings of a key. *)
CountsMore(k, d, e) ==
    /\ stats' \in Counts
    /\ stats'.downloads[k] = stats.downloads[k] + d
    /\ stats'.emitted[k] = stats.emitted[k] + e
    /\ \A j \in Keys \ {k} : /\ stats'.downloads[j] = stats.downloads[j]
                             /\ stats'.emitted[j] = stats.emitted[j]

(* The counts are numbers. *)
LEMMA CountTypes ==
    ASSUME ModelInv
    PROVE  /\ stats \in Counts /\ stats.downloads \in [Keys -> Nat]
           /\ stats.emitted \in [Keys -> Nat]
<1>1. stats \in Counts
  BY Zenon, Parts
<1>2. QED
  BY Zenon, <1>1 DEF Counts

(* Warnings that were logged stay logged. *)
LEMMA LoggedStays ==
    ASSUME ModelInv, NEW k \in Keys, NEW d \in 0..1, NEW e \in 0..1, env' = env,
           CountsMore(k, d, e)
    PROVE  (Logged => Logged') /\ (e = 1 => Logged')
<1>1. Keys' = Keys
  BY Zenon, EnvKept
<1>2. \A j \in Keys : stats.emitted[j] \in Nat
  BY Zenon, CountTypes
<1>3. \A j \in Keys : stats.emitted[j] > 0 => stats'.emitted[j] > 0
  BY <1>2 DEF CountsMore
<1>4. e = 1 => stats'.emitted[k] > 0
  BY <1>2 DEF CountsMore
<1>5. QED
  BY Zenon, <1>1, <1>3, <1>4 DEF Logged

(* A key whose held copy the step does not touch. *)
LEMMA KeyCounted ==
    ASSUME ModelInv, NEW k \in Keys, NEW d \in 0..1, NEW e \in 0..1, e <= d,
           UNCHANGED <<env, memo, inflight>>, CountsMore(k, d, e),
           NEW j \in Keys, held'[j] = held[j]
    PROVE  KeyInv(j)'
<1>1. KeyInv(j) /\ (Logged => Logged')
  BY Zenon, LoggedStays DEF ModelInv
<1>2. /\ \A c : Key(c)' = Key(c)
      /\ \A b, h : Accepted(j, b, h)' <=> Accepted(j, b, h)
  BY Zenon, EnvKept
<1>3. LoggedOrCached => LoggedOrCached'
  BY Zenon, <1>1 DEF LoggedOrCached
<1>4. stats.emitted[j] \in Nat /\ stats.downloads[j] \in Nat
  BY Zenon, CountTypes
<1>5. /\ stats.emitted[j] <= stats.downloads[j] => stats'.emitted[j] <= stats'.downloads[j]
      /\ stats.emitted[j] < stats.downloads[j] => stats'.emitted[j] < stats'.downloads[j]
  BY <1>4 DEF CountsMore
<1>6. memo'[j] = memo[j] /\ inflight'[j] = inflight[j]
  BY Zenon
<1>7. QED
  BY Zenon, <1>1, <1>2, <1>3, <1>5, <1>6 DEF KeyInv

(* A step of a reader that uses what it fetched, adopts a copy or lets go  *)
(* of one, given what it does to the copies held.                          *)
LEMMA LoudStep ==
    ASSUME ModelInv, NEW r \in Reader, NEW m \in ReadRecord, rd' = [rd EXCEPT ![r] = m],
           m.at # "memo", ReadOK(r, m)',
           UNCHANGED <<env, row, memo, inflight, misses, kept, named, generation>>,
           stats' \in Counts, Logged => Logged',
           held' \in [Keys -> HeldCopy \cup {None}],
           \A k \in Keys : held[k] # None => held'[k] # None \/ Logged',
           \A k \in Keys : KeyInv(k)',
           cell' \in [Reader -> CellRecord], \A c \in Reader : CellInv(c)'
    PROVE  ModelInv'
<1>1. UNCHANGED <<env, named, generation>> /\ Keys' = Keys
  BY Zenon, EnvKept
<1>2. /\ rd' \in [Reader -> ReadRecord] /\ \A u \in Reader : ReadOK(u, rd[u])'
      /\ Started => Started'
  BY Zenon, <1>1, ReaderStep
<1>3. RowInv'
  BY Zenon, <1>2, RowKept
<1>4. MissInv'
  BY Zenon, Parts DEF MissInv
<1>5. ModelTypeOK'
  <2>1. Counts' = Counts
    BY Zenon, <1>1 DEF Counts
  <2>2. /\ env' \in Settings /\ row' \in RowRecord \cup {None}
        /\ memo' \in [Keys -> Copy \cup {None}] /\ inflight' \in [Keys -> Reader \cup {None}]
        /\ misses' \in MissRecord \cup {None}
        /\ kept' \in [0..MaxGeneration -> KeptAnswers \cup {None}]
        /\ named' \in 0..MaxGeneration /\ generation' \in 0..MaxGeneration
        /\ named' <= env'.origins /\ generation' <= named'
    BY Zenon DEF ModelInv, ModelTypeOK
  <2>3. QED
    BY Zenon, <1>1, <1>2, <2>1, <2>2 DEF ModelTypeOK
<1>6. QED
  BY Zenon, <1>1, <1>2, <1>3, <1>4, <1>5 DEF ModelInv

(* A download, with or without its warnings, is counted once. *)
LEMMA DownloadCounted ==
    ASSUME ModelInv, NEW k \in Keys, NEW e \in 0..1,
           stats' = [stats EXCEPT !.downloads[k] = @ + 1, !.emitted[k] = @ + e]
    PROVE  CountsMore(k, 1, e)
<1>1. /\ stats \in Counts /\ stats.downloads \in [Keys -> Nat] /\ stats.emitted \in [Keys -> Nat]
  BY Zenon, CountTypes
<1>2. PICK downs, emits : /\ downs = [stats.downloads EXCEPT ![k] = stats.downloads[k] + 1]
                          /\ emits = [stats.emitted EXCEPT ![k] = stats.emitted[k] + e]
  BY Zenon
<1>3. downs \in [Keys -> Nat] /\ emits \in [Keys -> Nat]
  BY <1>1, <1>2
<1>4. stats' = [stats EXCEPT !.downloads = downs, !.emitted = emits]
  BY Zenon, <1>2
<1>5. stats' \in Counts /\ stats'.downloads = downs /\ stats'.emitted = emits
  BY Zenon, <1>1, <1>3, <1>4 DEF Counts
<1>6. QED
  BY Zenon, <1>1, <1>2, <1>5 DEF CountsMore

(* So is a warning logged later. *)
LEMMA WarningCounted ==
    ASSUME ModelInv, NEW k \in Keys, stats' = [stats EXCEPT !.emitted[k] = @ + 1]
    PROVE  CountsMore(k, 0, 1)
BY CountTypes DEF CountsMore, Counts

(* FetchArrives keeps the invariant.                                       *)
LEMMA FetchArrivesStep ==
    ASSUME ModelInv, NEW r \in Reader, NEW bytes \in Bytes, NEW sidecar \in Sidecars,
           FetchArrives(r, bytes, sidecar)
    PROVE  ModelInv'
<1>1. /\ rd[r] \in ReadRecord /\ ReadOK(r, rd[r]) /\ rd[r].at = "fetch" /\ rd[r].at \in InCell
      /\ Key(r) \in Keys /\ held \in [Keys -> HeldCopy \cup {None}]
      /\ cell \in [Reader -> CellRecord] /\ ModelTypeOK /\ rd[r].cell # None
  BY Zenon, Parts DEF FetchArrives, InCell, ReadOK
<1>2. UNCHANGED <<env, row, memo, inflight, misses, kept, named, generation>>
  BY Zenon DEF FetchArrives
<1>3. PICK how : how = Checked(r, bytes, sidecar)
  BY Zenon
<1>4. PICK forever \in BOOLEAN : forever = (env.fixed /\ how \in {"Verified", "Pinned"})
  BY Zenon, <1>1, EnvFields
<1>5. how \in Hows => Accepted(Key(r), bytes, how)
  BY Zenon, <1>1, <1>3, CheckedAccepted
<1>6. bytes # None
  BY Zenon, ModelAssumption
<1>7. /\ Keys' = Keys /\ (\A u : Key(u)' = Key(u) /\ Who(u)' = Who(u))
      /\ \A k, b, h : Accepted(k, b, h)' <=> Accepted(k, b, h)
  BY Zenon, <1>2, EnvKept
<1>8. 0 \in 0..1 /\ 1 \in 0..1
  OBVIOUS
<1>9. CASE Fails(r) /\ stats' = [stats EXCEPT !.trouble = TRUE] /\ UNCHANGED held
  <2>1. /\ stats' \in Counts /\ stats'.emitted = stats.emitted
        /\ stats'.downloads = stats.downloads
    BY Zenon, <1>9, CountTypes DEF Counts
  <2>2. PICK m \in ReadRecord : rd' = [rd EXCEPT ![r] = m] /\ m.at # "memo" /\ ReadOK(r, m)
    BY Zenon, <1>1, <1>9, FailsOK
  <2>3. /\ cell' \in [Reader -> CellRecord]
        /\ \A u \in Reader : \/ cell'[u] = cell[u]
                             \/ cell'[u].state # "done"
                             \/ /\ Accepted(Key(u), cell'[u].bytes, cell'[u].how)
                                /\ LoggedOrHeld(Key(u))
    BY Zenon, <1>1, <1>9, FailsOK
  <2>4. /\ row' \in RowRecord \cup {None} /\ row' \in {row, None}
        /\ memo' \in [Keys -> Copy \cup {None}]
        /\ \A k \in Keys : memo'[k] = memo[k]
        /\ inflight' \in [Keys -> Reader \cup {None}]
        /\ \A k \in Keys : inflight'[k] # None => Key(inflight'[k]) = k
        /\ misses' \in MissRecord \cup {None} /\ MissInv'
        /\ kept' \in [0..MaxGeneration -> KeptAnswers \cup {None}]
    BY Zenon, <1>2, Parts DEF MissInv
  <2>5. UNCHANGED <<env, held, named, generation>>
    BY Zenon, <1>2, <1>9
  <2>6. QED
    BY Zenon, <2>1, <2>2, <2>3, <2>4, <2>5, QuietStep
<1>10. CASE /\ how \in Hows /\ Who(r).use
           /\ rd' = [rd EXCEPT ![r] = [@ EXCEPT !.at = "store", !.bytes = bytes, !.how = how,
                                                !.forever = forever]]
           /\ stats' = [stats EXCEPT !.downloads[Key(r)] = @ + 1, !.emitted[Key(r)] = @ + 1]
           /\ UNCHANGED <<held, cell>>
  <2>1. CountsMore(Key(r), 1, 1)
    BY Zenon, <1>1, <1>10, <1>8, DownloadCounted
  <2>2. (Logged => Logged') /\ Logged' /\ stats' \in Counts
    BY <1>1, <1>2, <2>1, LoggedStays DEF CountsMore
  <2>3. PICK m : m = [rd[r] EXCEPT !.at = "store", !.bytes = bytes, !.how = how,
                                   !.forever = forever]
    BY Zenon
  <2>4. /\ rd' = [rd EXCEPT ![r] = m] /\ m \in ReadRecord /\ m.at = "store"
        /\ m.bytes = bytes /\ m.how = how /\ m.cell = rd[r].cell
    BY Zenon, <1>1, <1>10, <2>3 DEF ReadRecord, InCell
  <2>5. "store" \notin {"memo", "done", "keep", "auth2", "auth3", "miss", "fetch"}
    BY Zenon
  <2>6. LoggedOrHeld(Key(r))'
    BY Zenon, <2>2 DEF LoggedOrHeld
  <2>7. ReadOK(r, m)' /\ m.at # "memo"
    BY Zenon, <1>1, <1>5, <1>6, <1>7, <1>10, <2>2, <2>4, <2>5, <2>6 DEF ReadOK
  <2>8. ASSUME NEW k \in Keys PROVE KeyInv(k)'
    BY <1>1, <1>2, <1>10, <2>1, KeyCounted
  <2>9. \A k \in Keys : held[k] # None => held'[k] # None \/ Logged'
    BY Zenon, <2>2
  <2>10. ASSUME NEW c \in Reader PROVE CellInv(c)'
    BY Zenon, <1>2, <1>10, <2>2, <2>9, CellKept
  <2>11. held' \in [Keys -> HeldCopy \cup {None}] /\ cell' \in [Reader -> CellRecord]
    BY Zenon, <1>1, <1>10
  <2>12. QED
    BY Zenon, <1>2, <2>2, <2>4, <2>7, <2>8, <2>9, <2>10, <2>11, LoudStep
<1>11. CASE /\ how \in Hows /\ ~Who(r).use /\ Got(r, bytes, how, "leave")
            /\ held' = [held EXCEPT ![Key(r)] = [bytes |-> bytes, how |-> how,
                                                 forever |-> forever, warnings |-> TRUE]]
            /\ Fills(r, bytes, how)
            /\ stats' = [stats EXCEPT !.downloads[Key(r)] = @ + 1, !.emitted[Key(r)] = @ + 0]
  <2>1. CountsMore(Key(r), 1, 0)
    BY Zenon, <1>1, <1>11, <1>8, DownloadCounted
  <2>2. (Logged => Logged') /\ stats' \in Counts
    BY <1>1, <1>2, <2>1, LoggedStays DEF CountsMore
  <2>3. PICK x : x = [bytes |-> bytes, how |-> how, forever |-> forever, warnings |-> TRUE]
    BY Zenon
  <2>4. x \in HeldCopy /\ x.bytes = bytes /\ x.how = how /\ x.warnings = TRUE
    BY Zenon, <1>11, <2>3 DEF HeldCopy
  <2>5. x # None
    BY Zenon, <2>4, NoneAssumption
  <2>6. /\ held' \in [Keys -> HeldCopy \cup {None}] /\ held'[Key(r)] = x
        /\ \A k \in Keys \ {Key(r)} : held'[k] = held[k]
    BY Zenon, <1>1, <1>11, <2>3, <2>4
  <2>7. \A k \in Keys : held[k] # None => held'[k] # None \/ Logged'
    BY Zenon, <2>5, <2>6
  <2>8. LoggedOrHeld(Key(r))'
    BY Zenon, <1>7, <2>5, <2>6 DEF LoggedOrHeld
  <2>9. PICK m : m = [rd[r] EXCEPT !.at = "leave", !.bytes = bytes, !.how = how, !.seen = None]
    BY Zenon
  <2>10. /\ rd' = [rd EXCEPT ![r] = m] /\ m \in ReadRecord /\ m.at = "leave"
         /\ m.bytes = bytes /\ m.how = how /\ m.cell = rd[r].cell
    BY Zenon, <1>1, <1>11, <2>9 DEF Got, ReadRecord
  <2>11. "leave" \notin InCell \cup Users \cup {"memo", "done", "store", "keep", "remove",
                                              "auth2", "auth3", "miss", "fetch"}
    BY Zenon DEF InCell, Users
  <2>12. ReadOK(r, m)' /\ m.at # "memo"
    BY Zenon, <1>1, <1>5, <1>7, <1>11, <2>8, <2>10, <2>11 DEF ReadOK
  <2>13. ASSUME NEW k \in Keys PROVE KeyInv(k)'
    <3>1. CASE k # Key(r)
      <4>1. held'[k] = held[k]
        BY Zenon, <2>6, <3>1
      <4>2. QED
        BY <1>1, <1>2, <2>1, <4>1, KeyCounted
    <3>2. CASE k = Key(r)
      <4>1. KeyInv(k) /\ stats.emitted[k] \in Nat /\ stats.downloads[k] \in Nat
        BY Zenon, CountTypes DEF ModelInv
      <4>2. stats'.emitted[k] < stats'.downloads[k] /\ stats'.emitted[k] <= stats'.downloads[k]
        BY <2>1, <3>2, <4>1 DEF CountsMore, KeyInv
      <4>3. memo'[k] = memo[k] /\ inflight'[k] = inflight[k]
        BY Zenon, <1>2
      <4>4. LoggedOrCached => LoggedOrCached'
        BY Zenon, <1>2, <2>2 DEF LoggedOrCached
      <4>5. QED
        BY Zenon, <1>5, <1>7, <1>11, <2>4, <2>6, <3>2, <4>1, <4>2, <4>3, <4>4
           DEF KeyInv
    <3>3. QED
      BY Zenon, <3>1, <3>2
  <2>14. PICK c \in Reader : c = rd[r].cell /\ Key(c) = Key(r)
    BY Zenon, <1>1, OwnCell
  <2>15. PICK y : y = [state |-> "done", bytes |-> bytes, how |-> how]
    BY Zenon
  <2>16. y \in CellRecord /\ y.bytes = bytes /\ y.how = how
    BY Zenon, <1>11, <2>15 DEF CellRecord
  <2>17. /\ cell' \in [Reader -> CellRecord] /\ cell'[c] = y
         /\ \A u \in Reader \ {c} : cell'[u] = cell[u]
    BY Zenon, <1>1, <1>11, <2>14, <2>15, <2>16 DEF Fills
  <2>18. ASSUME NEW u \in Reader PROVE CellInv(u)'
    <3>1. CASE u = c
      BY Zenon, <1>5, <1>7, <1>11, <2>8, <2>14, <2>16, <2>17, <3>1 DEF CellInv,
         LoggedOrHeld
    <3>2. CASE u # c
      <4>1. cell'[u] = cell[u] /\ env' = env
        BY Zenon, <1>2, <2>17, <3>2
      <4>2. QED
        BY Zenon, <2>2, <2>7, <4>1, CellKept
    <3>3. QED
      BY Zenon, <3>1, <3>2
  <2>19. QED
    BY ZenonT(60), <1>2, <2>2, <2>6, <2>7, <2>10, <2>12, <2>13, <2>17, <2>18, LoudStep
<1>12. QED
  BY Zenon, <1>3, <1>4, <1>9, <1>10, <1>11 DEF FetchArrives

(* Adopt keeps the invariant.                                              *)
LEMMA AdoptStep ==
    ASSUME ModelInv, NEW r \in Reader, Adopt(r)
    PROVE  ModelInv'
<1>1. /\ rd[r] \in ReadRecord /\ ReadOK(r, rd[r]) /\ rd[r].at = "adopt" /\ Key(r) \in Keys
      /\ held \in [Keys -> HeldCopy \cup {None}] /\ cell \in [Reader -> CellRecord]
      /\ KeyInv(Key(r))
  BY Zenon, Parts DEF Adopt, ModelInv
<1>2. UNCHANGED <<env, row, memo, inflight, cell, misses, kept, named, generation>>
  BY Zenon DEF Adopt
<1>3. /\ Who(r).use /\ rd[r].bytes # None /\ LoggedOrHeld(Key(r))
      /\ Accepted(Key(r), rd[r].bytes, rd[r].how)
  BY Zenon, <1>1 DEF ReadOK, Users
<1>4. /\ Keys' = Keys /\ (\A u : Key(u)' = Key(u) /\ Who(u)' = Who(u))
      /\ \A k, b, h : Accepted(k, b, h)' <=> Accepted(k, b, h)
  BY Zenon, <1>2, EnvKept
<1>5. PICK h : h = held[Key(r)]
  BY Zenon
<1>6. CASE /\ h # None /\ h.warnings
           /\ held' = [held EXCEPT ![Key(r)].warnings = FALSE]
           /\ stats' = [stats EXCEPT !.emitted[Key(r)] = @ + 1]
           /\ rd' = [rd EXCEPT ![r].at = "keep", ![r].adopted = h]
  <2>1. CountsMore(Key(r), 0, 1)
    BY Zenon, <1>1, <1>6, WarningCounted
  <2>2. (Logged => Logged') /\ Logged' /\ stats' \in Counts
    BY <1>1, <1>2, <2>1, LoggedStays DEF CountsMore
  <2>3. h \in HeldCopy
    BY Zenon, <1>1, <1>5, <1>6
  <2>4. PICK x : x = [h EXCEPT !.warnings = FALSE]
    BY Zenon
  <2>5. x \in HeldCopy /\ x.bytes = h.bytes /\ x.how = h.how /\ ~x.warnings
    BY Zenon, <2>3, <2>4 DEF HeldCopy
  <2>6. /\ held' \in [Keys -> HeldCopy \cup {None}] /\ held'[Key(r)] = x
        /\ \A k \in Keys \ {Key(r)} : held'[k] = held[k]
    BY Zenon, <1>1, <1>5, <1>6, <2>4, <2>5
  <2>7. PICK m : m = [rd[r] EXCEPT !.at = "keep", !.adopted = h]
    BY Zenon
  <2>8. /\ rd' = [rd EXCEPT ![r] = m] /\ m \in ReadRecord /\ m.at = "keep" /\ m.adopted = h
        /\ m.bytes = rd[r].bytes /\ m.how = rd[r].how /\ m.cell = rd[r].cell
    BY ZenonT(60), <1>1, <1>6, <2>3, <2>7 DEF ReadRecord, Users
  <2>9. "keep" \notin InCell \cup {"memo", "done", "auth2", "auth3", "miss", "fetch"}
    BY Zenon DEF InCell
  <2>10. LoggedOrHeld(Key(r))'
    BY Zenon, <2>2 DEF LoggedOrHeld
  <2>11. Accepted(Key(r), h.bytes, h.how)
    BY Zenon, <1>1, <1>5, <1>6 DEF KeyInv
  <2>12. ReadOK(r, m)' /\ m.at # "memo"
    BY Zenon, <1>1, <1>3, <1>4, <1>6, <2>2, <2>8, <2>9, <2>10, <2>11 DEF ReadOK
  <2>13. ASSUME NEW k \in Keys PROVE KeyInv(k)'
    <3>1. CASE k # Key(r)
      <4>1. /\ held'[k] = held[k] /\ memo'[k] = memo[k] /\ inflight'[k] = inflight[k]
            /\ stats'.emitted[k] = stats.emitted[k] /\ stats'.downloads[k] = stats.downloads[k]
        BY Zenon, <1>2, <2>1, <2>6, <3>1 DEF CountsMore
      <4>2. QED
        BY Zenon, <1>2, <2>2, <4>1, KeyKept
    <3>2. CASE k = Key(r)
      <4>1. stats.emitted[k] \in Nat /\ stats.downloads[k] \in Nat
        BY Zenon, CountTypes
      <4>2. stats.emitted[k] < stats.downloads[k]
        BY Zenon, <1>1, <1>5, <1>6, <3>2 DEF KeyInv
      <4>3. stats'.emitted[k] <= stats'.downloads[k]
        BY <2>1, <3>2, <4>1, <4>2 DEF CountsMore
      <4>4. memo'[k] = memo[k] /\ inflight'[k] = inflight[k]
        BY Zenon, <1>2
      <4>5. LoggedOrCached => LoggedOrCached'
        BY Zenon, <1>2, <2>2 DEF LoggedOrCached
      <4>6. QED
        BY Zenon, <1>1, <1>4, <2>2, <2>5, <2>6, <2>11, <3>2, <4>3, <4>4, <4>5
           DEF KeyInv
    <3>3. QED
      BY Zenon, <3>1, <3>2
  <2>14. \A k \in Keys : held[k] # None => held'[k] # None \/ Logged'
    BY Zenon, <2>2
  <2>15. ASSUME NEW c \in Reader PROVE CellInv(c)'
    BY Zenon, <1>2, <2>2, <2>14, CellKept
  <2>16. cell' \in [Reader -> CellRecord]
    BY Zenon, <1>1, <1>2
  <2>17. QED
    BY Zenon, <1>2, <2>2, <2>6, <2>8, <2>12, <2>13, <2>14, <2>15, <2>16, LoudStep
<1>7. CASE ~(h # None /\ h.warnings) /\ Return(r, rd[r].bytes, rd[r].how) /\ UNCHANGED <<held, stats>>
  <2>1. LoggedOrCached
    BY Zenon, <1>1, <1>3, <1>5, <1>7 DEF LoggedOrCached, LoggedOrHeld, KeyInv
  <2>2. rd[r].bytes \in Bytes \cup {None} /\ rd[r].how \in Hows \cup {None}
    BY Zenon, <1>1 DEF ReadRecord
  <2>3. PICK m : m = [Idle EXCEPT !.at = "done", !.bytes = rd[r].bytes, !.how = rd[r].how]
    BY Zenon
  <2>4. m \in ReadRecord /\ m.at # "memo" /\ ReadOK(r, m)
    BY Zenon, <1>3, <2>1, <2>2, <2>3, ReturnOK
  <2>5. rd' = [rd EXCEPT ![r] = m]
    BY Zenon, <1>7, <2>3 DEF Return
  <2>6. UNCHANGED <<env, row, memo, held, inflight, cell, misses, kept, named, generation, stats>>
    BY Zenon, <1>2, <1>7
  <2>7. QED
    BY Zenon, <2>4, <2>5, <2>6, MoveStep
<1>8. QED
  BY Zenon, <1>5, <1>6, <1>7 DEF Adopt

(* RemoveHeld keeps the invariant.                                         *)
LEMMA RemoveHeldStep ==
    ASSUME ModelInv, NEW r \in Reader, RemoveHeld(r)
    PROVE  ModelInv'
<1>1. /\ rd[r] \in ReadRecord /\ ReadOK(r, rd[r]) /\ rd[r].at = "remove" /\ Key(r) \in Keys
      /\ held \in [Keys -> HeldCopy \cup {None}] /\ cell \in [Reader -> CellRecord]
      /\ stats \in Counts
  BY Zenon, Parts DEF RemoveHeld
<1>2. UNCHANGED <<env, row, memo, inflight, cell, misses, kept, named, generation, stats>>
  BY Zenon DEF RemoveHeld
<1>3. /\ Keys' = Keys /\ (\A u : Key(u)' = Key(u) /\ Who(u)' = Who(u))
      /\ \A k, b, h : Accepted(k, b, h)' <=> Accepted(k, b, h)
  BY Zenon, <1>2, EnvKept
<1>4. Logged /\ Logged'
  BY Zenon, <1>1, <1>2, <1>3 DEF ReadOK, Logged
<1>5. /\ rd[r].bytes # None /\ Accepted(Key(r), rd[r].bytes, rd[r].how)
  BY Zenon, <1>1 DEF ReadOK, Users
<1>6. LoggedOrCached /\ LoggedOrHeld(Key(r)) /\ LoggedOrCached' /\ LoggedOrHeld(Key(r))'
  BY Zenon, <1>4 DEF LoggedOrCached, LoggedOrHeld
<1>7. rd[r].bytes \in Bytes \cup {None} /\ rd[r].how \in Hows \cup {None}
  BY Zenon, <1>1 DEF ReadRecord
<1>8. PICK m : m = [Idle EXCEPT !.at = "done", !.bytes = rd[r].bytes, !.how = rd[r].how]
  BY Zenon
<1>9. m \in ReadRecord /\ m.at # "memo" /\ ReadOK(r, m)
  BY Zenon, <1>5, <1>6, <1>7, <1>8, ReturnOK
<1>10. rd' = [rd EXCEPT ![r] = m]
  BY Zenon, <1>8 DEF RemoveHeld, Return
<1>11. ReadOK(r, m)'
  <2>1. generation' = generation
    BY Zenon, <1>2
  <2>2. QED
    BY Zenon, <1>3, <1>4, <1>6, <1>9, <2>1 DEF ReadOK
<1>12. /\ held' \in [Keys -> HeldCopy \cup {None}] /\ held'[Key(r)] = None
       /\ \A k \in Keys \ {Key(r)} : held'[k] = held[k]
  BY Zenon, <1>1 DEF RemoveHeld
<1>13. \A k \in Keys : held[k] # None => held'[k] # None \/ Logged'
  BY Zenon, <1>4
<1>14. ASSUME NEW k \in Keys PROVE KeyInv(k)'
  <2>1. KeyInv(k)
    BY Zenon DEF ModelInv
  <2>2. held'[k] = held[k] \/ held'[k] = None
    BY Zenon, <1>12
  <2>3. memo'[k] = memo[k] /\ inflight'[k] = inflight[k] /\ stats' = stats
    BY Zenon, <1>2
  <2>4. QED
    BY Zenon, <1>3, <1>4, <1>6, <2>1, <2>2, <2>3 DEF KeyInv
<1>15. ASSUME NEW c \in Reader PROVE CellInv(c)'
  BY Zenon, <1>2, <1>4, <1>13, CellKept
<1>16. stats' \in Counts /\ cell' \in [Reader -> CellRecord]
  BY Zenon, <1>1, <1>2
<1>17. QED
  BY Zenon, <1>2, <1>4, <1>9, <1>10, <1>11, <1>12, <1>13, <1>14, <1>15, <1>16,
     LoudStep

-----------------------------------------------------------------------------
(* What happens around the readers *)

(* A step that leaves the readers and their copies alone. *)
LEMMA AroundStep ==
    ASSUME ModelInv, UNCHANGED <<env, memo, held, inflight, cell, misses, kept, rd>>,
           stats' \in Counts, stats'.emitted = stats.emitted,
           stats'.downloads = stats.downloads,
           row' \in RowRecord \cup {None}, RowInv',
           named' \in 0..MaxGeneration, generation' \in 0..MaxGeneration,
           named' <= env.origins, generation' <= named', generation <= generation'
    PROVE  ModelInv'
<1>1. env' = env /\ rd' = rd /\ held' = held /\ cell' = cell
  BY Zenon
<1>2. Keys' = Keys
  BY Zenon, <1>1, EnvKept
<1>3. (Logged => Logged') /\ \A k \in Keys : held[k] # None => held'[k] # None \/ Logged'
  BY Zenon, <1>1, <1>2 DEF Logged
<1>4. ASSUME NEW u \in Reader PROVE ReadOK(u, rd[u])'
  BY Zenon, <1>1, <1>3, ReadKept
<1>5. ASSUME NEW c \in Reader PROVE CellInv(c)'
  BY Zenon, <1>1, <1>3, CellKept
<1>6. ASSUME NEW k \in Keys PROVE KeyInv(k)'
  <2>1. /\ memo'[k] = memo[k] /\ held'[k] = held[k] /\ inflight'[k] = inflight[k]
        /\ stats'.emitted[k] = stats.emitted[k] /\ stats'.downloads[k] = stats.downloads[k]
    BY Zenon
  <2>2. QED
    BY Zenon, <1>1, <1>3, <2>1, KeyKept
<1>7. MissInv'
  BY Zenon, Parts DEF MissInv
<1>8. ModelTypeOK'
  <2>1. Counts' = Counts
    BY Zenon, <1>2 DEF Counts
  <2>2. /\ env' \in Settings /\ memo' \in [Keys -> Copy \cup {None}]
        /\ held' \in [Keys -> HeldCopy \cup {None}]
        /\ inflight' \in [Keys -> Reader \cup {None}] /\ cell' \in [Reader -> CellRecord]
        /\ misses' \in MissRecord \cup {None} /\ rd' \in [Reader -> ReadRecord]
        /\ kept' \in [0..MaxGeneration -> KeptAnswers \cup {None}]
    BY Zenon DEF ModelInv, ModelTypeOK
  <2>3. QED
    BY Zenon, <1>1, <1>2, <2>1, <2>2 DEF ModelTypeOK
<1>9. QED
  BY Zenon, <1>2, <1>4, <1>5, <1>6, <1>7, <1>8 DEF ModelInv

(* A row that ages or is damaged keeps what accepted it. *)
LEMMA RowAged ==
    ASSUME ModelInv, row # None, NEW x \in RowRecord, row' = x, x.how = row.how,
           x.checked = row.checked, x.fresh = row.fresh,
           UNCHANGED <<env, memo, held, inflight, cell, misses, kept, named, generation, rd>>,
           stats' \in Counts, stats'.emitted = stats.emitted,
           stats'.downloads = stats.downloads
    PROVE  ModelInv'
<1>1. env' = env /\ rd' = rd
  BY Zenon
<1>2. /\ Keys' = Keys /\ \A u : Who(u)' = Who(u)
  BY Zenon, <1>1, EnvKept
<1>3. (LoggedOrCached => LoggedOrCached') /\ (Started => Started')
  BY Zenon, <1>1, <1>2 DEF LoggedOrCached, Logged, Started
<1>4. RowInv'
  BY Zenon, <1>3, Parts DEF RowInv
<1>5. /\ named' \in 0..MaxGeneration /\ generation' \in 0..MaxGeneration
      /\ named' <= env.origins /\ generation' <= named' /\ generation <= generation'
  BY DEF ModelInv, ModelTypeOK
<1>6. UNCHANGED <<env, memo, held, inflight, cell, misses, kept, rd>>
      /\ row' \in RowRecord \cup {None}
  BY Zenon
<1>7. QED
  BY Zenon, <1>4, <1>5, <1>6, AroundStep

(* Expire keeps the invariant.                                             *)
LEMMA ExpireStep ==
    ASSUME ModelInv, Expire
    PROVE  ModelInv'
<1>1. row # None /\ row \in RowRecord /\ stats \in Counts
  BY Zenon, Parts DEF Expire
<1>2. PICK x : x = [row EXCEPT !.stale = TRUE]
  BY Zenon
<1>3. x \in RowRecord /\ x.how = row.how /\ x.checked = row.checked /\ x.fresh = row.fresh
  BY Zenon, <1>1, <1>2 DEF RowRecord
<1>4. /\ stats' \in Counts /\ stats'.emitted = stats.emitted
      /\ stats'.downloads = stats.downloads
  BY Zenon, <1>1 DEF Expire, Counts
<1>5. /\ row' = x
      /\ UNCHANGED <<env, memo, held, inflight, cell, misses, kept, named, generation, rd>>
  BY Zenon, <1>2 DEF Expire
<1>6. QED
  BY Zenon, <1>1, <1>3, <1>4, <1>5, RowAged

(* Damage keeps the invariant.                                             *)
LEMMA DamageStep ==
    ASSUME ModelInv, Damage
    PROVE  ModelInv'
<1>1. row # None /\ row \in RowRecord /\ stats \in Counts
  BY Zenon, Parts DEF Damage
<1>2. PICK x : x = [row EXCEPT !.content = None]
  BY Zenon
<1>3. x \in RowRecord /\ x.how = row.how /\ x.checked = row.checked /\ x.fresh = row.fresh
  BY Zenon, <1>1, <1>2 DEF RowRecord
<1>4. /\ stats' \in Counts /\ stats'.emitted = stats.emitted
      /\ stats'.downloads = stats.downloads
  <2>1. PICK n : n = stats.damage + 1
    BY Zenon
  <2>2. n \in Nat
    BY <1>1, <2>1 DEF Counts
  <2>3. stats' = [stats EXCEPT !.damage = n, !.trouble = TRUE]
    BY Zenon, <2>1 DEF Damage
  <2>4. QED
    BY Zenon, <1>1, <2>2, <2>3 DEF Counts
<1>5. /\ row' = x
      /\ UNCHANGED <<env, memo, held, inflight, cell, misses, kept, named, generation, rd>>
  BY Zenon, <1>2 DEF Damage
<1>6. QED
  BY Zenon, <1>1, <1>3, <1>4, <1>5, RowAged

(* A new origin changes no reader's view until it is counted, and its      *)
(* count only grows.                                                       *)
LEMMA OriginSteps ==
    ASSUME ModelInv, NewCredentialOrigin \/ CountOrigin
    PROVE  ModelInv'
<1>1. /\ UNCHANGED <<env, row, memo, held, inflight, cell, misses, kept, rd, stats>>
      /\ env' = env /\ row' = row /\ stats' = stats /\ rd' = rd
  BY Zenon DEF NewCredentialOrigin, CountOrigin
<1>2. /\ named \in 0..MaxGeneration /\ generation \in 0..MaxGeneration
      /\ named <= env.origins /\ generation <= named /\ env.origins \in 0..MaxGeneration
  BY Zenon, EnvFields DEF ModelInv, ModelTypeOK
<1>3. /\ named' \in 0..MaxGeneration /\ generation' \in 0..MaxGeneration
      /\ named' <= env.origins /\ generation' <= named' /\ generation <= generation'
  BY <1>2, ModelAssumption DEF NewCredentialOrigin, CountOrigin
<1>4. /\ Keys' = Keys /\ \A u : Who(u)' = Who(u)
  BY Zenon, <1>1, EnvKept
<1>5. (Logged => Logged') /\ (Started => Started')
  BY Zenon, <1>1, <1>4 DEF Logged, Started
<1>6. RowInv'
  BY Zenon, <1>1, <1>5, RowKept
<1>7. stats' \in Counts /\ row' \in RowRecord \cup {None}
  BY Zenon, <1>1, Parts
<1>8. QED
  BY Zenon, <1>1, <1>3, <1>6, <1>7, AroundStep

-----------------------------------------------------------------------------
(* The invariant *)

(* A scenario starts in it: a row of an earlier run is the only copy. *)
LEMMA ModelInitInv == ModelInit => ModelInv
<1>1. SUFFICES ASSUME ModelInit PROVE ModelInv
  BY Zenon
<1>2. /\ env \in Settings /\ env.cached \subseteq Bytes /\ env.fixed \in BOOLEAN
      /\ env.origins \in 0..MaxGeneration
  <2>1. env \in Settings
    BY Zenon, <1>1 DEF ModelInit
  <2>2. QED
    BY Zenon, <2>1, ModelAssumption
<1>3. /\ memo = [k \in Keys |-> None] /\ held = [k \in Keys |-> None]
      /\ inflight = [k \in Keys |-> None]
      /\ cell = [r \in Reader |-> [state |-> "unused", bytes |-> None, how |-> None]]
      /\ misses = None /\ kept = [g \in 0..MaxGeneration |-> None]
      /\ named = 0 /\ generation = 0
      /\ stats = [downloads |-> [k \in Keys |-> 0], emitted |-> [k \in Keys |-> 0],
                  trouble |-> FALSE, damage |-> 0]
      /\ rd = [r \in Reader |-> IF r \in env.active THEN Idle ELSE [Idle EXCEPT !.at = "done"]]
  BY Zenon, <1>1 DEF ModelInit
<1>4. row # None => \E b \in env.cached, how \in {"Verified", "Missing"} :
                       row = [content |-> b, digest |-> b, how |-> how,
                              forever |-> env.fixed /\ how = "Verified",
                              checked |-> how = "Verified", stale |-> FALSE, fresh |-> FALSE]
  <2>1. HAVE row # None
  <2>2. PICK b \in env.cached, how \in {"Verified", "Missing"} :
            row = [NewRow(b, how, env.fixed /\ how = "Verified") EXCEPT !.fresh = FALSE]
    BY Zenon, <1>1, <2>1 DEF ModelInit
  <2>3. row = [content |-> b, digest |-> b, how |-> how,
               forever |-> env.fixed /\ how = "Verified",
               checked |-> how = "Verified", stale |-> FALSE, fresh |-> FALSE]
    BY Zenon, <2>2 DEF NewRow
  <2>4. QED
    BY Zenon, <2>3
<1>5. row \in RowRecord \cup {None} /\ RowInv
  <2>1. CASE row = None
    BY Zenon, <2>1 DEF RowInv
  <2>2. CASE row # None
    <3>1. PICK b \in env.cached, how \in {"Verified", "Missing"} :
              row = [content |-> b, digest |-> b, how |-> how,
                     forever |-> env.fixed /\ how = "Verified",
                     checked |-> how = "Verified", stale |-> FALSE, fresh |-> FALSE]
      BY Zenon, <1>4, <2>2
    <3>2. /\ row \in RowRecord /\ (row.checked <=> row.how = "Verified") /\ row.fresh = FALSE
      BY Zenon, <1>2, <3>1 DEF RowRecord, Hows
    <3>3. env.cached # {}
      BY Zenon, <3>1
    <3>4. QED
      BY Zenon, <3>2, <3>3 DEF RowInv, LoggedOrCached
  <2>3. QED
    BY Zenon, <2>1, <2>2
<1>6. ASSUME NEW r \in Reader
      PROVE  \E at \in {"memo", "done"} :
                 rd[r] = [at |-> at, bytes |-> None, how |-> None, cell |-> None,
                          seen |-> None, gen |-> 0, authGen |-> 0, cred |-> 0,
                          forever |-> FALSE, adopted |-> None]
  <2>1. rd[r] = IF r \in env.active THEN Idle ELSE [Idle EXCEPT !.at = "done"]
    BY Zenon, <1>3
  <2>2. CASE r \in env.active
    BY Zenon, <2>1, <2>2 DEF Idle
  <2>3. CASE r \notin env.active
    BY Zenon, <2>1, <2>3 DEF Idle
  <2>4. QED
    BY Zenon, <2>2, <2>3
<1>7. ASSUME NEW r \in Reader
      PROVE  /\ rd[r] \in ReadRecord /\ rd[r].bytes = None /\ rd[r].cell = None
             /\ rd[r].at \in {"memo", "done"}
  <2>1. PICK at \in {"memo", "done"} :
            rd[r] = [at |-> at, bytes |-> None, how |-> None, cell |-> None,
                     seen |-> None, gen |-> 0, authGen |-> 0, cred |-> 0,
                     forever |-> FALSE, adopted |-> None]
    BY Zenon, <1>6
  <2>2. 0 \in 0..MaxGeneration
    BY ModelAssumption
  <2>3. QED
    BY <2>1, <2>2 DEF ReadRecord
<1>8. rd \in [Reader -> ReadRecord]
  <2>1. rd = [r \in Reader |-> rd[r]]
    BY Zenon, <1>3
  <2>2. QED
    BY Zenon, <1>7, <2>1
<1>9. ASSUME NEW r \in Reader PROVE ReadOK(r, rd[r])
  <2>1. rd[r].at \notin InCell \cup Users \cup {"keep", "remove", "auth2", "auth3", "miss",
                                               "fetch", "store"}
    BY Zenon, <1>7 DEF InCell, Users
  <2>2. QED
    BY Zenon, <1>7, <2>1 DEF ReadOK
<1>10. ASSUME NEW r \in Reader PROVE CellInv(r)
  BY Zenon, <1>3 DEF CellInv
<1>11. ASSUME NEW k \in Keys PROVE KeyInv(k)
  BY <1>3 DEF KeyInv
<1>12. MissInv
  BY Zenon, <1>3 DEF MissInv
<1>13. stats \in Counts
  BY Zenon, <1>3 DEF Counts
<1>14. cell \in [Reader -> CellRecord]
  BY Zenon, <1>3 DEF CellRecord
<1>15. /\ memo \in [Keys -> Copy \cup {None}] /\ held \in [Keys -> HeldCopy \cup {None}]
       /\ inflight \in [Keys -> Reader \cup {None}] /\ misses \in MissRecord \cup {None}
       /\ kept \in [0..MaxGeneration -> KeptAnswers \cup {None}]
  BY Zenon, <1>3
<1>16. /\ named \in 0..MaxGeneration /\ generation \in 0..MaxGeneration
       /\ named <= env.origins /\ generation <= named
  BY <1>2, <1>3, ModelAssumption
<1>17. ModelTypeOK
  BY Zenon, <1>2, <1>5, <1>8, <1>13, <1>14, <1>15, <1>16 DEF ModelTypeOK
<1>18. QED
  BY Zenon, <1>5, <1>9, <1>10, <1>11, <1>12, <1>17 DEF ModelInv

(* Every step keeps the invariant. *)
LEMMA ModelNextInv == ModelInv /\ [ModelNext]_modelVars => ModelInv'
<1>1. SUFFICES ASSUME ModelInv, [ModelNext]_modelVars PROVE ModelInv'
  BY Zenon
<1>2. CASE UNCHANGED modelVars
  <2>1. /\ UNCHANGED <<env, memo, held, inflight, cell, misses, kept, rd>>
        /\ env' = env /\ row' = row /\ stats' = stats /\ rd' = rd
        /\ named' = named /\ generation' = generation
    BY Zenon, <1>2 DEF modelVars
  <2>2. Keys' = Keys /\ \A u : Who(u)' = Who(u)
    BY Zenon, <2>1, EnvKept
  <2>3. (Logged => Logged') /\ (Started => Started')
    BY Zenon, <2>1, <2>2 DEF Logged, Started
  <2>4. RowInv'
    BY Zenon, <1>1, <2>1, <2>3, RowKept
  <2>5. /\ named' \in 0..MaxGeneration /\ generation' \in 0..MaxGeneration
        /\ named' <= env.origins /\ generation' <= named' /\ generation <= generation'
    BY <1>1, <2>1 DEF ModelInv, ModelTypeOK
  <2>6. stats' \in Counts /\ row' \in RowRecord \cup {None}
    BY Zenon, <1>1, <2>1, Parts
  <2>7. QED
    BY Zenon, <1>1, <2>1, <2>4, <2>5, <2>6, AroundStep
<1>3. CASE Expire
  BY Zenon, <1>1, <1>3, ExpireStep
<1>4. CASE Damage
  BY Zenon, <1>1, <1>4, DamageStep
<1>5. CASE NewCredentialOrigin \/ CountOrigin
  BY Zenon, <1>1, <1>5, OriginSteps
<1>6. ASSUME NEW r \in Reader, ReadStep(r) PROVE ModelInv'
  <2>1. CASE ReadMemo(r)
    BY Zenon, <1>1, <2>1, ReadMemoStep
  <2>2. CASE ReadRow(r)
    BY ZenonT(60), <1>1, <2>2, ReadRowStep
  <2>3. CASE DropRow(r)
    BY Zenon, <1>1, <2>3, DropRowStep
  <2>4. CASE ReadHeld(r)
    BY Zenon, <1>1, <2>4, ReadHeldStep
  <2>5. CASE Join(r)
    BY Zenon, <1>1, <2>5, JoinStep
  <2>6. CASE Wait(r)
    BY Zenon, <1>1, <2>6, WaitStep
  <2>7. CASE ReadHeldAgain(r)
    BY Zenon, <1>1, <2>7, ReadHeldAgainStep
  <2>8. CASE TakeGeneration(r) \/ RouteGeneration(r) \/ Credential(r)
    BY ZenonT(60), <1>1, <2>8, AuthSteps
  <2>9. CASE ReadMiss(r)
    BY Zenon, <1>1, <2>9, ReadMissStep
  <2>10. CASE StoreFetched(r)
    BY Zenon, <1>1, <2>10, StoreFetchedStep
  <2>11. CASE Leave(r)
    BY Zenon, <1>1, <2>11, LeaveStep
  <2>12. CASE Adopt(r)
    BY Zenon, <1>1, <2>12, AdoptStep
  <2>13. CASE KeepAdopted(r)
    BY Zenon, <1>1, <2>13, KeepAdoptedStep
  <2>14. CASE RemoveHeld(r)
    BY Zenon, <1>1, <2>14, RemoveHeldStep
  <2>15. CASE \E what \in MissAnswers \cup {"Offline", "Failed"} : FetchFails(r, what)
    BY Zenon, <1>1, <2>15, FetchFailsStep
  <2>16. CASE \E bytes \in Bytes, sidecar \in Sidecars : FetchArrives(r, bytes, sidecar)
    BY Zenon, <1>1, <2>16, FetchArrivesStep
  <2>17. QED
    BY ZenonT(60), <1>6, <2>1, <2>2, <2>3, <2>4, <2>5, <2>6, <2>7, <2>8, <2>9, <2>10,
       <2>11, <2>12,
       <2>13, <2>14, <2>15, <2>16 DEF ReadStep
<1>7. QED
  BY Zenon, <1>1, <1>2, <1>3, <1>4, <1>5, <1>6 DEF ModelNext

(* The invariant of read_pom and prefetch_pom: every copy of a POM, in the *)
(* memo, the row, a cell or a held download, is one its flight key         *)
(* accepts, and its warnings were logged or are held with it.              *)
THEOREM ModelInvariant == ModelSpec => []ModelInv
BY ModelInitInv, ModelNextInv, PTL DEF ModelSpec

(* The invariant says what a read returns. *)
LEMMA ModelInvSound == ModelInv => ModelReadsSound
<1>1. SUFFICES ASSUME ModelInv PROVE ModelReadsSound
  BY Zenon
<1>2. ModelTypeOK /\ RowInv /\ MissInv
  BY Zenon, <1>1 DEF ModelInv
<1>3. StrictReads
  <2>1. SUFFICES ASSUME NEW r \in Reader, Done(r), rd[r].bytes # None, Who(r).require
                 PROVE  rd[r].how = "Verified" \/ rd[r].bytes = Who(r).pin
    BY Zenon DEF StrictReads
  <2>2. Accepted(Key(r), rd[r].bytes, rd[r].how)
    BY Zenon, <1>1, <2>1 DEF ModelInv, ReadOK
  <2>3. Key(r)[1] = Who(r).require /\ Key(r)[3] = Who(r).pin
    BY Zenon, <1>2, KeyParts
  <2>4. QED
    BY Zenon, <2>1, <2>2, <2>3 DEF Accepted
<1>4. PinnedReads
  <2>1. SUFFICES ASSUME NEW r \in Reader, Done(r), rd[r].bytes # None, RequiredPin(r) # None
                 PROVE  rd[r].bytes = RequiredPin(r)
    BY Zenon DEF PinnedReads
  <2>2. Accepted(Key(r), rd[r].bytes, rd[r].how)
    BY Zenon, <1>1, <2>1 DEF ModelInv, ReadOK
  <2>3. Required(Key(r)) = RequiredPin(r)
    BY Zenon, <1>2, KeyParts
  <2>4. QED
    BY Zenon, <2>1, <2>2, <2>3 DEF Accepted
<1>5. PrefetchLeavesNoTrace
  BY Zenon, <1>2 DEF PrefetchLeavesNoTrace, RowInv, Started
<1>6. WarningsOnceUsed
  <2>1. \A k \in Keys : stats.emitted[k] <= stats.downloads[k]
    BY Zenon, <1>1 DEF ModelInv, KeyInv
  <2>2. ASSUME NEW r \in Reader, Done(r), Who(r).use, rd[r].bytes # None, env.cached = {}
        PROVE  \E k \in Keys : stats.emitted[k] > 0
    BY Zenon, <1>1, <2>2 DEF ModelInv, ReadOK, Done, LoggedOrCached, Logged
  <2>3. QED
    BY Zenon, <2>1, <2>2 DEF WarningsOnceUsed
<1>7. MissOfCurrentCredential
  <2>1. SUFFICES ASSUME misses # None, misses.gen = generation
                 PROVE  misses.cred >= generation
    BY Zenon DEF MissOfCurrentCredential
  <2>2. misses \in MissRecord /\ misses.gen <= misses.cred
    BY Zenon, <1>2, <2>1 DEF ModelTypeOK, MissInv
  <2>3. QED
    BY Zenon, <2>1, <2>2 DEF MissRecord
<1>8. QED
  BY Zenon, <1>3, <1>4, <1>5, <1>6, <1>7 DEF ModelReadsSound

(* A read never returns bytes that its checksum requirement or its pin     *)
(* would refuse, prefetches leave no row, the warnings of a download that  *)
(* is used are logged once, and a remembered miss is never older than the  *)
(* credential it stands for: for any readers, bytes and scenarios.         *)
THEOREM ModelReadsAlwaysSound == ModelSpec => []ModelReadsSound
BY ModelInvariant, ModelInvSound, PTL

(* Deleting a damaged row, a step of cache_get_entry, deletes only the     *)
(* bytes that failed their check, whatever was written in between.         *)
THEOREM DropsOnlyDamaged == ModelSpec => DropOnlyDamaged
<1>1. ModelInv /\ [ModelNext]_modelVars =>
          [\A r \in Reader :
              (rd[r].at \in {"drop", "drop2"} /\ rd'[r].at \in {"held", "held2"}
                 /\ row # None /\ row.content # rd[r].seen) => row' = row]_modelVars
  <2>1. SUFFICES ASSUME ModelInv, ModelNext, NEW r \in Reader, rd[r].at \in {"drop", "drop2"},
                        rd'[r].at \in {"held", "held2"}, row # None, row.content # rd[r].seen
                 PROVE  row' = row
    BY Zenon
  <2>2. CASE Expire \/ Damage \/ NewCredentialOrigin \/ CountOrigin
    <3>1. rd' = rd
      BY Zenon, <2>2 DEF Expire, Damage, NewCredentialOrigin, CountOrigin
    <3>2. QED
      BY Zenon, <2>1, <3>1
  <2>3. ASSUME NEW u \in Reader, ReadStep(u) PROVE row' = row
    <3>1. rd \in [Reader -> ReadRecord]
      BY Zenon, <2>1 DEF ModelInv, ModelTypeOK
    <3>2. CASE DropRow(u)
      <4>1. CASE u = r
        BY Zenon, <2>1, <3>2, <4>1 DEF DropRow
      <4>2. CASE u # r
        <5>1. rd'[r] = rd[r]
          BY Zenon, <3>1, <3>2, <4>2 DEF DropRow
        <5>2. QED
          BY Zenon, <2>1, <5>1
      <4>3. QED
        BY Zenon, <4>1, <4>2
    <3>3. CASE StoreFetched(u)
      <4>1. rd' = [rd EXCEPT ![u].at = "leave"]
        BY Zenon, <3>3 DEF StoreFetched, Go
      <4>2. QED
        BY <2>1, <3>1, <4>1
    <3>4. CASE KeepAdopted(u)
      <4>1. rd' = [rd EXCEPT ![u].at = "remove"]
        BY Zenon, <3>4 DEF KeepAdopted, Go
      <4>2. QED
        BY <2>1, <3>1, <4>1
    <3>5. CASE \/ ReadMemo(u) \/ ReadRow(u) \/ ReadHeld(u) \/ Join(u) \/ Wait(u)
               \/ ReadHeldAgain(u) \/ TakeGeneration(u) \/ RouteGeneration(u) \/ Credential(u)
               \/ ReadMiss(u) \/ Leave(u) \/ Adopt(u) \/ RemoveHeld(u)
      BY Zenon, <3>5 DEF ReadMemo, ReadRow, ReadHeld, Join, Wait, ReadHeldAgain,
         TakeGeneration,
         RouteGeneration, Credential, ReadMiss, Leave, Adopt, RemoveHeld
    <3>6. CASE \/ \E what \in MissAnswers \cup {"Offline", "Failed"} : FetchFails(u, what)
               \/ \E bytes \in Bytes, sidecar \in Sidecars : FetchArrives(u, bytes, sidecar)
      BY Zenon, <3>6 DEF FetchFails, FetchArrives
    <3>7. QED
      BY Zenon, <2>3, <3>2, <3>3, <3>4, <3>5, <3>6 DEF ReadStep
  <2>4. QED
    BY Zenon, <2>1, <2>2, <2>3 DEF ModelNext
<1>2. QED
  BY <1>1, ModelInvariant, PTL DEF ModelSpec, DropOnlyDamaged
=============================================================================

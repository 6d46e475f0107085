------------------------------ MODULE PomRecords ------------------------------
(***************************************************************************)
(* What a resolution records of the POMs it reads, for the lockfile and    *)
(* the store (rv-resolver/src/resolver/backend.rs, mod.rs, scope.rs): the  *)
(* POM each module of a reactor parsed for a coordinate and the one its    *)
(* winners pin, the provenance of its parents and BOMs, and the buffer the *)
(* modules share, written to the store once every graph is in.             *)
(*                                                                         *)
(* A coordinate is a GAV and a classifier; what a repository context       *)
(* serves for a GAV is a blob or none. A support POM is one read of a      *)
(* parent or a BOM: its key, its blob, the id of its repository and the    *)
(* route that served it. A reused one is the same object (recorded         *)
(* recognizes it by its address).                                          *)
(***************************************************************************)
EXTENDS Naturals, Sequences, SequencesExt, FiniteSets

CONSTANTS
    Scenes,         \* what the contexts serve, the coordinates and the support POMs read
    MaxObserved     \* POM observations in a behaviour

VARIABLES
    scene,
    service,    \* each module's ModelService
    buffer,     \* SupportPomBuffer::entries
    split,      \* whether a key has two blobs
    observed,   \* every observation of a POM, in the order the buffer saw it
    index       \* the rows and blobs the flush leaves, once it ran

recordVars == <<scene, service, buffer, split, observed, index>>

Absent == "none"
Unset == "unset"
ModuleIds == DOMAIN service
Unflushed == [rows |-> <<>>, blobs |-> {}, done |-> FALSE]

NewService ==
    [companion |-> <<>>, missing |-> {}, winner |-> <<>>, provenance |-> <<>>, recorded |-> {},
     read |-> {}, won |-> {}, offered |-> <<>>, failed |-> FALSE]

\* A finite map as a sequence of pairs.
Lookup(map, key) ==
    LET found == SelectSeq(map, LAMBDA e : e.key = key) IN IF found = <<>> THEN Unset ELSE found[1].value
Bind(map, key, value) == Append(SelectSeq(map, LAMBDA e : e.key # key), [key |-> key, value |-> value])

-----------------------------------------------------------------------------
(* The shared buffer                                                       *)

\* SupportPomBuffer::record: each key and blob once, the last one seen last.
Recorded(b, key, blob, route) ==
    LET known == SelectSeq(b, LAMBDA e : e.key = key /\ e.blob = blob)
        routes == IF known = <<>> THEN {route} ELSE known[1].routes \cup {route}
    IN Append(SelectSeq(b, LAMBDA e : ~(e.key = key /\ e.blob = blob)),
              [key |-> key, blob |-> blob, routes |-> routes])

Splits(b, key, blob) ==
    /\ \E i \in DOMAIN b : b[i].key = key
    /\ ~\E i \in DOMAIN b : b[i].key = key /\ b[i].blob = blob

Observe(key, blob, route) ==
    /\ buffer' = Recorded(buffer, key, blob, route)
    /\ split' = (split \/ Splits(buffer, key, blob))
    /\ observed' = Append(observed, [key |-> key, blob |-> blob])

\* Mutant: what this service recorded is never recorded again.
KnownOnce(m, pom) == pom \in service[m].recorded

\* ModelService::recorded: another record could only move the POM later in the
\* write order, which decides nothing while each key has one blob.
Known(m, pom) == ~split /\ pom \in service[m].recorded

\* SupportPomProvenance::absorb: other bytes are a conflict, and a repository
\* with an id replaces one without.
Absorbs(kept, pom) == kept.blob \in {Unset, pom.blob}
Absorbed(kept, pom) == IF kept.repo = "" THEN [blob |-> pom.blob, repo |-> pom.repo] ELSE kept

ProvenanceOf(s, key) ==
    LET found == SelectSeq(s.provenance, LAMBDA e : e.key = key)
    IN IF found = <<>> THEN [blob |-> Unset, repo |-> ""] ELSE found[1].value

\* record_support_pom_provenance, then mark_recorded unless it failed.
WithProvenance(s, pom) ==
    LET kept == ProvenanceOf(s, pom.key)
    IN IF ~Absorbs(kept, pom) THEN [s EXCEPT !.failed = TRUE, !.offered = <<>>]
       ELSE [s EXCEPT !.provenance = Bind(@, pom.key, Absorbed(kept, pom)),
                      !.recorded = @ \cup {pom}]

Reading(m) == ~service[m].failed /\ ~index.done /\ Len(observed) < MaxObserved

\* fetch_pom_bytes: a parent or a BOM read from a repository.
FetchSupportPom(m, pom) ==
    /\ Reading(m) /\ service[m].offered = <<>>
    /\ Observe(pom.key, pom.blob, pom.route)
    /\ service' = [service EXCEPT ![m] = WithProvenance(@, pom)]
    /\ UNCHANGED <<scene, index>>

\* A model or a BOM another module built is reused, with the POMs it read.
ReuseModel(m, poms) ==
    /\ Reading(m) /\ service[m].offered = <<>>
    /\ service' = [service EXCEPT ![m].offered = poms]
    /\ UNCHANGED <<scene, buffer, split, observed, index>>

\* record_support_poms and record_kept_support_poms, at one POM's turn.
RecordOffered(m) ==
    /\ Reading(m) /\ service[m].offered # <<>>
    /\ LET pom == Head(service[m].offered)
           next == [service[m] EXCEPT !.offered = Tail(@)]
       IN IF Known(m, pom)
          THEN /\ service' = [service EXCEPT ![m] = next]
               /\ observed' = Append(observed, [key |-> pom.key, blob |-> pom.blob])
               /\ UNCHANGED <<buffer, split>>
          ELSE /\ Observe(pom.key, pom.blob, pom.route)
               /\ service' = [service EXCEPT ![m] = WithProvenance(next, pom)]
    /\ UNCHANGED <<scene, index>>

-----------------------------------------------------------------------------
(* The POMs of the graph                                                   *)

\* record_companion_pom_blob: other bytes are a conflict; a POM some context
\* has replaces the record that another has none.
Companion(s, gav, blob) ==
    LET kept == Lookup(s.companion, gav)
    IN CASE kept \notin {Unset, Absent} /\ blob # Absent /\ kept # blob -> [s EXCEPT !.failed = TRUE]
         [] kept = Unset \/ (kept = Absent /\ blob # Absent) -> [s EXCEPT !.companion = Bind(@, gav, blob)]
         [] OTHER -> s

Missed(s, coord, context) == [s EXCEPT !.missing = @ \cup {<<coord, context>>}]

\* What the context serves for the coordinate: fetch_project_at_version ends
\* with it, or with no repository that has it.
ReadPom(s, coord, context, blob) ==
    IF blob = Absent THEN Missed(Companion(s, coord.gav, Absent), coord, context)
    ELSE Companion(s, coord.gav, blob)

\* fetch_snapshot_project_internal: the POM of a SNAPSHOT build resolves on its
\* own; its record is copied under the build's coordinate, or none when this
\* context lacks it, whatever another found.
PomOfBuild(coord) == [gav |-> scene.pomOf[coord.gav], classifier |-> ""]
ReadSnapshotPom(s, coord, context, blob) ==
    LET pom == PomOfBuild(coord)
        read == ReadPom(s, pom, context, blob)
        copied == IF <<pom, context>> \in read.missing THEN Absent ELSE Lookup(read.companion, pom.gav)
    IN IF read.failed THEN read ELSE ReadPom(read, coord, context, copied)

IsBuild(coord) == scene.pomOf[coord.gav] # coord.gav

\* fetch_project_internal, once per coordinate and context (the project cache).
FetchProject(m, coord, context) ==
    /\ Reading(m) /\ service[m].offered = <<>> /\ service[m].won = {}
    /\ <<coord, context>> \notin service[m].read
    /\ LET blob == scene.serves[context][scene.pomOf[coord.gav]]
           s == [service[m] EXCEPT !.read = @ \cup {<<coord, context>>}]
       IN /\ service' = [service EXCEPT ![m] = IF IsBuild(coord) THEN ReadSnapshotPom(s, coord, context, blob)
                                               ELSE ReadPom(s, coord, context, blob)]
          /\ IF blob = Absent THEN UNCHANGED <<buffer, split, observed>>
             ELSE Observe(scene.pomOf[coord.gav], blob, context)
    /\ UNCHANGED <<scene, index>>

\* What the winner's own context gave.
SeenPom(s, coord, context) ==
    IF <<coord, context>> \in s.missing THEN Absent ELSE Lookup(s.companion, coord.gav)

\* note_winner: winners of one GAV must have read one POM.
NoteWinner(m, coord, context) ==
    /\ ~service[m].failed /\ ~index.done /\ service[m].offered = <<>>
    /\ <<coord, context>> \in service[m].read
    /\ \A w \in service[m].won : w[1] # coord
    /\ LET seen == SeenPom(service[m], coord, context)
           first == Lookup(service[m].winner, coord.gav)
       IN service' =
            [service EXCEPT ![m].failed = first \notin {Unset, seen},
                            ![m].winner = IF first = Unset THEN Bind(@, coord.gav, seen) ELSE @,
                            ![m].won = @ \cup {<<coord, context>>}]
    /\ UNCHANGED <<scene, buffer, split, observed, index>>

\* companion_pom_blob: what the lock pins.
Pin(s, gav) == IF Lookup(s.winner, gav) # Unset THEN Lookup(s.winner, gav) ELSE Lookup(s.companion, gav)

-----------------------------------------------------------------------------
(* The flush                                                               *)

LastPositions(b) == {i \in DOMAIN b : \A j \in DOMAIN b : b[j].key = b[i].key => j <= i}

\* flush_workspace_support_poms: every blob is stored, and the last of a key
\* gets its row unless the index has it.
Flush ==
    /\ ~index.done
    /\ \A m \in ModuleIds : ~service[m].failed /\ service[m].offered = <<>>
    /\ index' = [rows |-> scene.indexed \o
                          [i \in 1..Cardinality(LastPositions(buffer)) |->
                             LET at == SetToSortSeq(LastPositions(buffer), <)[i]
                             IN [key |-> buffer[at].key, value |-> buffer[at].blob]],
                 blobs |-> {buffer[i].blob : i \in DOMAIN buffer}, done |-> TRUE]
    /\ UNCHANGED <<scene, service, buffer, split, observed>>

RecordInit ==
    /\ scene \in Scenes
    /\ service = [m \in 1..scene.modules |-> NewService]
    /\ buffer = <<>> /\ split = FALSE /\ observed = <<>>
    /\ index = Unflushed

RecordNext ==
    \/ \E m \in ModuleIds : \/ \E pom \in scene.poms : FetchSupportPom(m, pom)
                            \/ \E poms \in scene.reused : ReuseModel(m, poms)
                            \/ RecordOffered(m)
                            \/ \E c \in scene.coords, x \in DOMAIN scene.serves :
                                  FetchProject(m, c, x) \/ NoteWinner(m, c, x)
    \/ Flush

-----------------------------------------------------------------------------
(* Properties                                                              *)

LastOf(s, key) == LET at == {i \in DOMAIN s : s[i].key = key} IN CHOOSE i \in at : \A j \in at : j <= i

\* The index names, for each POM, the bytes that were observed last, though
\* the modules record side by side and skip most of what they reuse
\* (backend.rs 2445-2455, mod.rs 1365-1400).
RowsAsObserved ==
    index.done =>
      \A i \in DOMAIN observed :
         index.rows[LastOf(index.rows, observed[i].key)].value = observed[LastOf(observed, observed[i].key)].blob

\* A module that ends well pins, for every winner, the POM that the winner's
\* own repositories served, or that they have none; one row serves every
\* classifier, so two of them never settle on different POMs. A support POM
\* is pinned by the bytes of every read of it, and the store has the bytes of
\* all it pins (backend.rs 242-264, 1003-1036, 2053-2107, 2882-2934).
PinsAsRead ==
    \A m \in ModuleIds : LET s == service[m] IN ~s.failed =>
       /\ \A w \in s.won : Pin(s, w[1].gav) = scene.serves[w[2]][scene.pomOf[w[1].gav]]
       /\ \A pom \in s.recorded : ProvenanceOf(s, pom.key).blob = pom.blob
       /\ index.done => /\ \A w \in s.won : Pin(s, w[1].gav) \in index.blobs \cup {Absent}
                        /\ \A pom \in s.recorded : pom.blob \in index.blobs
=============================================================================

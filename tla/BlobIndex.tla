----------------------------- MODULE BlobIndex ------------------------------
(***************************************************************************)
(* What the content store promises its readers, without its files, queues, *)
(* threads or locks: a blob is named by an index row only while its stored *)
(* bytes are intact, and a power loss may take rows and blobs away but     *)
(* never the blob of a row it leaves.                                      *)
(***************************************************************************)
CONSTANT Blob

VARIABLES
    rows,      \* blobs an index row names
    intact     \* blobs whose stored file hashes to their id

Init == rows = {} /\ intact = {}

Publish(b) ==
    /\ intact' = intact \cup {b}
    /\ UNCHANGED rows

Name(b) ==
    /\ b \in intact
    /\ rows' = rows \cup {b}
    /\ UNCHANGED intact

PowerLoss ==
    \E left \in SUBSET rows, kept \in SUBSET intact :
        /\ left \subseteq kept
        /\ rows' = left
        /\ intact' = kept

Next ==
    \/ \E b \in Blob : Publish(b) \/ Name(b)
    \/ PowerLoss

Spec == Init /\ [][Next]_<<rows, intact>>
=============================================================================

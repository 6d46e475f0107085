----------------------------- MODULE MCSqliteDb -----------------------------
(* Small instances of SqliteDb for TLC. *)
EXTENDS SqliteDb, TLC

CONSTANTS p1, p2, t1, t2, t3

MCThreeThreads == t1 :> p1 @@ t2 :> p1 @@ t3 :> p2
MCTwoThreads == t1 :> p1 @@ t3 :> p2
MCNewerPeer == p1 :> 1 @@ p2 :> 2

(* The threads of one process are interchangeable. *)
MCSymmetry == Permutations({t1, t2})
=============================================================================

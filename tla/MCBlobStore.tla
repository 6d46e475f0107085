---------------------------- MODULE MCBlobStore -----------------------------
(* Small instances of BlobStore for TLC. *)
EXTENDS BlobStore, TLC

CONSTANTS p1, p2, t1, t2, t3

MCTwoProcesses == t1 :> p1 @@ t2 :> p2
MCThreeThreads == t1 :> p1 @@ t2 :> p1 @@ t3 :> p1

(* File incarnations are interchangeable, and so are two processes with one *)
(* thread each when their threads are exchanged with them.                   *)
MCSymmetry == Permutations(Ino)

MCExchange == {p1 :> p1 @@ p2 :> p2 @@ t1 :> t1 @@ t2 :> t2,
               p1 :> p2 @@ p2 :> p1 @@ t1 :> t2 @@ t2 :> t1}
MCSymmetryProcesses == {i @@ x : i \in MCSymmetry, x \in MCExchange}
=============================================================================

--------------------------- MODULE MCLockfileSync ---------------------------
(* Small instances of LockfileSync for TLC. *)
EXTENDS LockfileSync, TLC

CONSTANTS p1, p2, d, linux, macos, j17, c1, c2, c3

MCCacheOf == [p \in Proc |-> d]
MCJdks == [c \in Conf |-> IF c = c3 THEN {j17} ELSE {}]
(* Models 1 and 2 differ and resolve to the same graph. *)
MCGraph == [m \in Model |-> (m + 1) \div 2]

MCSymmetry == Permutations(Proc)
=============================================================================

------------------------------- MODULE Mutex --------------------------------
(***************************************************************************)
(* What a lock with a deadline promises: one holder at a time, and a       *)
(* holder that is gone (it released the lock or its process died) leaves   *)
(* it free.                                                                *)
(***************************************************************************)
CONSTANTS Thread, None

VARIABLE holder

Init == holder = None

Acquire(t) == holder = None /\ holder' = t

Release == holder # None /\ holder' = None

Next == Release \/ \E t \in Thread : Acquire(t)

Spec == Init /\ [][Next]_holder
=============================================================================

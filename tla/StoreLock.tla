----------------------------- MODULE StoreLock ------------------------------
(***************************************************************************)
(* StoreLock of rv-store/src/store.rs: the cross-process lock on a store.  *)
(* A thread first takes its process's IntraLock, a flag with a condition   *)
(* variable, then the file lock, both before one deadline.  The sweep of   *)
(* stale temporary files takes the file lock alone and does not wait.      *)
(***************************************************************************)
EXTENDS FileLock

VARIABLE
    intra       \* the thread that holds each process's IntraLock

vars == <<pc, fd, fileLockVars, intra, late>>

(* Where a thread is between taking the IntraLock and releasing it. *)
Inside == {"open", "try", "waiting", "info", "held", "unlocked", "failed"}

Labels == Inside \cup {"idle", "intra", "parked", "sweep", "swept"}

TypeOK ==
    /\ FileLockTypeOK
    /\ pc \in [Thread -> Labels]
    /\ intra \in [Proc -> Thread \cup {None}]

Init ==
    /\ FileLockInit
    /\ pc = [t \in Thread |-> "idle"]
    /\ intra = [p \in Proc |-> None]

-----------------------------------------------------------------------------
(* IntraLock *)

Begin(t) ==
    /\ pc[t] = "idle"
    /\ GoTo(t, "intra")
    /\ late' = late \ {t}
    /\ UNCHANGED <<fd, fileLockVars, intra>>

(* Mutant: a thread that is woken waits again, whatever the time. *)
IntraAcquireForever(t) ==
    LET p == ProcOf[t]
    IN  /\ pc[t] = "intra"
        /\ \/ /\ intra[p] = None
              /\ intra' = [intra EXCEPT ![p] = t]
              /\ GoTo(t, "open")
           \/ /\ intra[p] # None
              /\ GoTo(t, "parked")
              /\ UNCHANGED intra
        /\ UNCHANGED <<fd, fileLockVars, late>>

(* Under the mutex: take the flag, give up after the deadline, or wait. *)
IntraAcquire(t) ==
    LET p == ProcOf[t]
    IN  /\ pc[t] = "intra"
        /\ \/ /\ intra[p] = None
              /\ intra' = [intra EXCEPT ![p] = t]
              /\ GoTo(t, "open")
           \/ /\ intra[p] # None
              /\ t \in late
              /\ GoTo(t, "idle")
              /\ UNCHANGED intra
           \/ /\ intra[p] # None
              /\ t \notin late
              /\ GoTo(t, "parked")
              /\ UNCHANGED intra
        /\ UNCHANGED <<fd, fileLockVars, late>>

(* `wait_timeout` times out, *)
IntraTimeout(t) ==
    /\ pc[t] = "parked"
    /\ t \in late
    /\ GoTo(t, "intra")
    /\ UNCHANGED <<fd, fileLockVars, intra, late>>

(* or wakes for no reason. *)
IntraSpurious(t) ==
    /\ pc[t] = "parked"
    /\ GoTo(t, "intra")
    /\ UNCHANGED <<fd, fileLockVars, intra, late>>

(* The deadline that both waits share passes. *)
Deadline(t) ==
    /\ pc[t] \in {"intra", "parked", "open", "try", "waiting"}
    /\ t \notin late
    /\ late' = late \cup {t}
    /\ UNCHANGED <<pc, fd, fileLockVars, intra>>

(* Dropping the IntraGuard notifies one thread that waits, if there is one. *)
IntraRelease(t) ==
    LET parked == {u \in Thread : ProcOf[u] = ProcOf[t] /\ pc[u] = "parked"}
    IN  /\ intra' = [intra EXCEPT ![ProcOf[t]] = None]
        /\ \/ parked = {} /\ GoTo(t, "idle")
           \/ \E u \in parked : pc' = [pc EXCEPT ![t] = "idle", ![u] = "intra"]

-----------------------------------------------------------------------------
(* acquire_with_timeout, and dropping the StoreLock *)

OpenLock(t) ==
    /\ pc[t] = "open"
    /\ \/ /\ \E h \in Handle : OpenLockFile(t, h)
          /\ GoTo(t, "try")
       \/ /\ GoTo(t, "failed")
          /\ UNCHANGED <<fd, fileLockVars>>
    /\ UNCHANGED <<intra, late>>

LockFile(t) ==
    /\ \/ TryLock(t, "info", "failed")
       \/ WaitDone(t, "info", "failed")
       \/ WaitDeadline(t, "failed")
    /\ UNCHANGED <<intra, late>>

(* The holder's pid and time are written to the file. *)
WriteInfo(t) ==
    /\ pc[t] = "info"
    /\ GoTo(t, "held") \/ GoTo(t, "failed")
    /\ UNCHANGED <<fd, fileLockVars, intra, late>>

(* The file lock goes first, *)
ReleaseFile(t) ==
    /\ pc[t] = "held"
    /\ Unlock(t)
    /\ GoTo(t, "unlocked")
    /\ UNCHANGED <<intra, late>>

(* then the file and the guard, as on every error. *)
ReleaseGuard(t) ==
    /\ pc[t] \in {"unlocked", "failed"}
    /\ IF fd[t] = None THEN UNCHANGED <<fd, fileLockVars>> ELSE CloseLockFile(t)
    /\ IntraRelease(t)
    /\ UNCHANGED late

-----------------------------------------------------------------------------
(* sweep_temp_dir *)

Sweep(t) ==
    /\ pc[t] = "idle"
    /\ \E h \in Handle : OpenLockFile(t, h)
    /\ GoTo(t, "sweep")
    /\ UNCHANGED <<intra, late>>

(* Only with the lock are stale files removed. *)
SweepTry(t) ==
    /\ pc[t] = "sweep"
    /\ \/ flock = None /\ flock' = fd[t] /\ GoTo(t, "swept") /\ UNCHANGED fd
       \/ flock # None /\ fd' = [fd EXCEPT ![t] = None] /\ GoTo(t, "idle") /\ UNCHANGED flock
    /\ UNCHANGED <<opener, wait, helper, intra, late>>

SweepDone(t) ==
    /\ pc[t] = "swept"
    /\ CloseLockFile(t)
    /\ GoTo(t, "idle")
    /\ UNCHANGED <<intra, late>>

-----------------------------------------------------------------------------
HelperStep(h) == (HelperLocks(h) \/ HelperReports(h)) /\ UNCHANGED <<intra, late>>

Kill(p) ==
    /\ ForgetHandles(p)
    /\ pc' = [t \in Thread |-> IF ProcOf[t] = p THEN "idle" ELSE pc[t]]
    /\ intra' = [intra EXCEPT ![p] = None]
    /\ late' = {t \in late : ProcOf[t] # p}

(* What a thread does once it has called acquire, and when it lets go. *)
Step(t) ==
    \/ IntraAcquire(t) \/ IntraTimeout(t)
    \/ OpenLock(t) \/ LockFile(t) \/ WriteInfo(t)
    \/ ReleaseFile(t) \/ ReleaseGuard(t)
    \/ SweepTry(t) \/ SweepDone(t)

Next ==
    \/ \E t \in Thread : Begin(t) \/ Sweep(t) \/ Step(t) \/ Deadline(t) \/ IntraSpurious(t)
    \/ \E h \in Handle : HelperStep(h)
    \/ \E p \in Proc : Kill(p)

Spec == Init /\ [][Next]_vars

(***************************************************************************)
(* Threads run, deadlines pass and a holder of the lock finishes.  Nothing *)
(* is assumed of the kernel: a helper may wait for the lock for ever.      *)
(***************************************************************************)
FairSpec ==
    /\ Spec
    /\ \A t \in Thread : WF_vars(Step(t)) /\ WF_vars(Deadline(t))
    /\ \A h \in Handle : WF_vars(HelperReports(h) /\ UNCHANGED <<intra, late>>)

-----------------------------------------------------------------------------
(* Properties *)

Holding == {t \in Thread : pc[t] \in {"held", "swept"}}

(***************************************************************************)
(* While a thread holds the store lock no other thread of any process      *)
(* does, also when a helper abandoned by an earlier attempt is still about *)
(* to get the lock or to release it.                                       *)
(***************************************************************************)
MutualExclusion == \A t, u \in Holding : t = u

(***************************************************************************)
(* A thread is not left asleep on a free IntraLock: if a thread waits for  *)
(* it while it is free, another one was notified and is about to look.     *)
(***************************************************************************)
NoLostWakeup ==
    \A t \in Thread : pc[t] = "parked" /\ intra[ProcOf[t]] = None =>
        \E u \in Thread : ProcOf[u] = ProcOf[t] /\ pc[u] = "intra"

(***************************************************************************)
(* Every attempt to take the store lock ends, in the lock or in an error.  *)
(***************************************************************************)
AcquireEnds ==
    \A t \in Thread : pc[t] = "intra" ~> pc[t] \in {"held", "idle"}

(***************************************************************************)
(* A lock that comes to an abandoned helper, after its caller reported a   *)
(* timeout, is released again.                                             *)
(***************************************************************************)
AbandonedReleases ==
    \A h \in Handle : flock = h /\ wait[h] = "abandoned" ~> flock # h

(* Every wait of the store lock comes to its end. *)
WaitsEnd == AcquireEnds /\ AbandonedReleases

(***************************************************************************)
(* Why the lock excludes: a thread past the file lock, a helper that got   *)
(* it and a result that reports it all mean that the handle in question    *)
(* owns the file lock, and no two threads have the same handle.            *)
(***************************************************************************)
HandleInv ==
    /\ \A t \in Thread : \A u \in Thread : fd[t] = fd[u] /\ fd[t] # None => t = u
    /\ \A t \in Thread :
        /\ pc[t] \in {"idle", "intra", "parked", "open"} => fd[t] = None
        /\ pc[t] \in Labels \ {"idle", "intra", "parked", "open", "failed"} => fd[t] # None
        /\ fd[t] # None => opener[fd[t]] = ProcOf[t]
        /\ pc[t] \in {"info", "held", "swept"} => flock = fd[t]
        /\ fd[t] # None /\ helper[fd[t]] # "none" => pc[t] \in {"waiting", "failed"}
        /\ fd[t] # None /\ wait[fd[t]] = "locked" => pc[t] = "waiting"
        /\ fd[t] # None /\ helper[fd[t]] # "none" /\ pc[t] = "failed" => wait[fd[t]] = "abandoned"
    /\ \A h \in Handle :
        /\ helper[h] = "owns" \/ wait[h] = "locked" => flock = h
        /\ helper[h] # "none" => wait[h] \in {"pending", "abandoned"}

LockInv == TypeOK /\ HandleInv /\ NoLostWakeup

Holder == IF Holding = {} THEN None ELSE CHOOSE t \in Holding : TRUE

(* The store lock is a mutex. *)
Lock == INSTANCE Mutex WITH holder <- Holder

(***************************************************************************)
(* StoreLock implements Mutex: this is the lock that module BlobStore      *)
(* takes in one step.                                                      *)
(***************************************************************************)
ImplementsMutex == Lock!Spec
=============================================================================

------------------------------ MODULE FileLock ------------------------------
(***************************************************************************)
(* rv-fs/src/file_lock.rs: lock_exclusive_until on one advisory file lock. *)
(* flock(2) gives the lock to an open file description (a handle).  A held *)
(* lock is waited for by a helper thread with a duplicate of the handle,   *)
(* which outlives the caller when the deadline passes first.               *)
(***************************************************************************)
EXTENDS Naturals

CONSTANTS
    Proc,       \* processes
    Thread,     \* their threads
    ProcOf,     \* the process a thread belongs to
    Handle,     \* open file descriptions of the lock file
    None        \* no handle, no thread

ASSUME FileLockAssumption ==
    /\ ProcOf \in [Thread -> Proc]
    /\ None \notin Handle \cup Thread

VARIABLES
    pc,         \* what each thread does next
    fd,         \* the handle each thread has open
    flock,      \* the handle that holds the lock
    opener,     \* the process that opened each handle
    wait,       \* the Wait a handle's helper shares with its caller
    helper,     \* the helper thread of each handle
    late        \* the threads whose deadline has passed

fileLockVars == <<flock, opener, wait, helper>>

Waits == {"none", "pending", "locked", "failed", "abandoned"}

Helpers == {"none", "blocked", "owns", "error"}

FileLockTypeOK ==
    /\ fd \in [Thread -> Handle \cup {None}]
    /\ flock \in Handle \cup {None}
    /\ opener \in [Handle -> Proc \cup {None}]
    /\ wait \in [Handle -> Waits]
    /\ helper \in [Handle -> Helpers]
    /\ late \in SUBSET Thread

FileLockInit ==
    /\ fd = [t \in Thread |-> None]
    /\ flock = None
    /\ opener = [h \in Handle |-> None]
    /\ wait = [h \in Handle |-> "none"]
    /\ helper = [h \in Handle |-> "none"]
    /\ late = {}

(* A handle is closed when its caller and its helper are done with it. *)
Closed(h) == helper[h] = "none" /\ \A t \in Thread : fd[t] # h

GoTo(t, label) == pc' = [pc EXCEPT ![t] = label]

(* The lock file is opened. *)
OpenLockFile(t, h) ==
    /\ Closed(h)
    /\ fd' = [fd EXCEPT ![t] = h]
    /\ opener' = [opener EXCEPT ![h] = ProcOf[t]]
    /\ wait' = [wait EXCEPT ![h] = "none"]
    /\ UNCHANGED <<flock, helper>>

(* The caller's handle goes; the last one to go releases the lock. *)
CloseLockFile(t) ==
    /\ fd' = [fd EXCEPT ![t] = None]
    /\ flock' = IF flock = fd[t] /\ helper[fd[t]] = "none" THEN None ELSE flock
    /\ UNCHANGED <<opener, wait, helper>>

(* `try_lock` takes a free lock at once; a held one is left to a helper.  *)
(* The call, duplicating the handle or starting the helper may fail.      *)
TryLock(t, locked, failed) ==
    LET h == fd[t]
    IN  /\ pc[t] = "try"
        /\ \/ /\ flock = None
              /\ flock' = h
              /\ GoTo(t, locked)
              /\ UNCHANGED <<wait, helper>>
           \/ /\ flock # None
              /\ wait' = [wait EXCEPT ![h] = "pending"]
              /\ helper' = [helper EXCEPT ![h] = "blocked"]
              /\ GoTo(t, "waiting")
              /\ UNCHANGED flock
           \/ /\ GoTo(t, failed)
              /\ UNCHANGED <<flock, wait, helper>>
        /\ UNCHANGED <<fd, opener>>

(* The helper's blocking lock call returns. *)
HelperLocks(h) ==
    /\ helper[h] = "blocked"
    /\ \/ /\ flock = None
          /\ flock' = h
          /\ helper' = [helper EXCEPT ![h] = "owns"]
       \/ /\ helper' = [helper EXCEPT ![h] = "error"]
          /\ UNCHANGED flock
    /\ UNCHANGED <<pc, fd, opener, wait>>

(* The helper takes the mutex: an abandoned one unlocks, any other reports. *)
HelperReports(h) ==
    /\ helper[h] \in {"owns", "error"}
    /\ \/ /\ wait[h] = "abandoned"
          /\ flock' = IF helper[h] = "owns" THEN None ELSE flock
          /\ UNCHANGED wait
       \/ /\ wait[h] # "abandoned"
          /\ wait' = [wait EXCEPT ![h] = IF helper[h] = "owns" THEN "locked" ELSE "failed"]
          /\ UNCHANGED flock
    /\ helper' = [helper EXCEPT ![h] = "none"]
    /\ UNCHANGED <<pc, fd, opener>>

(* The caller finds the result of the helper. *)
WaitDone(t, locked, failed) ==
    LET h == fd[t]
    IN  /\ pc[t] = "waiting"
        /\ \/ wait[h] = "locked" /\ GoTo(t, locked)
           \/ wait[h] = "failed" /\ GoTo(t, failed)
        /\ wait' = [wait EXCEPT ![h] = "none"]
        /\ UNCHANGED <<fd, flock, opener, helper>>

(* Mutant: a caller whose deadline passed goes on as if it had the lock. *)
WaitDeadlineLocked(t, failed) ==
    /\ pc[t] = "waiting"
    /\ t \in late
    /\ wait[fd[t]] = "pending"
    /\ wait' = [wait EXCEPT ![fd[t]] = "abandoned"]
    /\ GoTo(t, "info")
    /\ UNCHANGED <<fd, flock, opener, helper>>

(* The deadline passes while the helper still waits. *)
WaitDeadline(t, failed) ==
    /\ pc[t] = "waiting"
    /\ t \in late
    /\ wait[fd[t]] = "pending"
    /\ wait' = [wait EXCEPT ![fd[t]] = "abandoned"]
    /\ GoTo(t, failed)
    /\ UNCHANGED <<fd, flock, opener, helper>>

(* `unlock`. *)
Unlock(t) ==
    /\ flock' = None
    /\ UNCHANGED <<fd, opener, wait, helper>>

(* A process dies with its helpers, and its handles are closed. *)
ForgetHandles(p) ==
    /\ fd' = [t \in Thread |-> IF ProcOf[t] = p THEN None ELSE fd[t]]
    /\ flock' = IF flock # None /\ opener[flock] = p THEN None ELSE flock
    /\ wait' = [h \in Handle |-> IF opener[h] = p THEN "none" ELSE wait[h]]
    /\ helper' = [h \in Handle |-> IF opener[h] = p THEN "none" ELSE helper[h]]
    /\ UNCHANGED opener
=============================================================================

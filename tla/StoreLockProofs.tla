-------------------------- MODULE StoreLockProofs ---------------------------
(***************************************************************************)
(* The store lock excludes, for any number of processes, threads and       *)
(* handles: LockInv is inductive, and from it StoreLock implements Mutex.  *)
(***************************************************************************)
EXTENDS StoreLock, TLAPS

USE FileLockAssumption DEF Labels, Inside, Waits, Helpers

(* The type part of the invariant. *)
LEMMA TypeStep == TypeOK /\ [Next]_vars => TypeOK'
<1> SUFFICES ASSUME TypeOK, [Next]_vars PROVE TypeOK'
  OBVIOUS
<1> USE DEF TypeOK, FileLockTypeOK
<1>0. CASE UNCHANGED vars
  BY <1>0 DEF vars, fileLockVars
<1>1. ASSUME NEW t \in Thread, Begin(t) PROVE TypeOK'
  BY <1>1 DEF Begin, GoTo, fileLockVars
<1>2. ASSUME NEW t \in Thread, Sweep(t) PROVE TypeOK'
  BY <1>2 DEF Sweep, OpenLockFile, GoTo
<1>3. ASSUME NEW t \in Thread, IntraAcquire(t) PROVE TypeOK'
  BY <1>3 DEF IntraAcquire, GoTo, fileLockVars
<1>4. ASSUME NEW t \in Thread, IntraTimeout(t) \/ IntraSpurious(t) PROVE TypeOK'
  BY <1>4 DEF IntraTimeout, IntraSpurious, GoTo, fileLockVars
<1>5. ASSUME NEW t \in Thread, Deadline(t) PROVE TypeOK'
  BY <1>5 DEF Deadline, fileLockVars
<1>6. ASSUME NEW t \in Thread, OpenLock(t) PROVE TypeOK'
  BY <1>6 DEF OpenLock, OpenLockFile, GoTo, fileLockVars
<1>7. ASSUME NEW t \in Thread, LockFile(t) PROVE TypeOK'
  <2>1. CASE TryLock(t, "info", "failed")
    BY <1>7, <2>1 DEF LockFile, TryLock, GoTo
  <2>2. CASE WaitDone(t, "info", "failed")
    BY ZenonT(60), <1>7, <2>2 DEF LockFile, WaitDone, GoTo
  <2>3. CASE WaitDeadline(t, "failed")
    BY Zenon, <1>7, <2>3 DEF LockFile, WaitDeadline, GoTo
  <2> QED BY <1>7, <2>1, <2>2, <2>3 DEF LockFile
<1>8. ASSUME NEW t \in Thread, WriteInfo(t) PROVE TypeOK'
  BY <1>8 DEF WriteInfo, GoTo, fileLockVars
<1>9. ASSUME NEW t \in Thread, ReleaseFile(t) PROVE TypeOK'
  BY <1>9 DEF ReleaseFile, Unlock, GoTo
<1>10. ASSUME NEW t \in Thread, ReleaseGuard(t) PROVE TypeOK'
  BY <1>10 DEF ReleaseGuard, CloseLockFile, IntraRelease, GoTo, fileLockVars
<1>11. ASSUME NEW t \in Thread, SweepTry(t) PROVE TypeOK'
  BY <1>11 DEF SweepTry, GoTo
<1>12. ASSUME NEW t \in Thread, SweepDone(t) PROVE TypeOK'
  BY <1>12 DEF SweepDone, CloseLockFile, GoTo
<1>13. ASSUME NEW h \in Handle, HelperStep(h) PROVE TypeOK'
  BY <1>13 DEF HelperStep, HelperLocks, HelperReports
<1>14. ASSUME NEW p \in Proc, Kill(p) PROVE TypeOK'
  BY SMTT(60), <1>14 DEF Kill, ForgetHandles
<1> QED
  BY <1>0, <1>1, <1>2, <1>3, <1>4, <1>5, <1>6, <1>7, <1>8, <1>9, <1>10, <1>11,
     <1>12, <1>13, <1>14 DEF Next, Step

(* A notified thread looks at the IntraLock before it is taken for granted. *)
LEMMA WakeupStep == LockInv /\ [Next]_vars => NoLostWakeup'
<1> SUFFICES ASSUME TypeOK, HandleInv, NoLostWakeup, [Next]_vars PROVE NoLostWakeup'
  BY DEF LockInv
<1> USE DEF TypeOK, FileLockTypeOK, NoLostWakeup
<1>0. CASE UNCHANGED vars
  BY <1>0 DEF vars
<1>1. ASSUME NEW t \in Thread, Begin(t) PROVE NoLostWakeup'
  BY <1>1 DEF Begin, GoTo
<1>2. ASSUME NEW t \in Thread, Sweep(t) PROVE NoLostWakeup'
  BY <1>2 DEF Sweep, GoTo
<1>3. ASSUME NEW t \in Thread, IntraAcquire(t) PROVE NoLostWakeup'
  BY <1>3 DEF IntraAcquire, GoTo
<1>4. ASSUME NEW t \in Thread, IntraTimeout(t) \/ IntraSpurious(t) PROVE NoLostWakeup'
  BY <1>4 DEF IntraTimeout, IntraSpurious, GoTo
<1>5. ASSUME NEW t \in Thread, Deadline(t) PROVE NoLostWakeup'
  BY <1>5 DEF Deadline
<1>6. ASSUME NEW t \in Thread, OpenLock(t) PROVE NoLostWakeup'
  BY <1>6 DEF OpenLock, GoTo
<1>7. ASSUME NEW t \in Thread, LockFile(t) PROVE NoLostWakeup'
  BY <1>7 DEF LockFile, TryLock, WaitDone, WaitDeadline, GoTo
<1>8. ASSUME NEW t \in Thread, WriteInfo(t) PROVE NoLostWakeup'
  BY <1>8 DEF WriteInfo, GoTo
<1>9. ASSUME NEW t \in Thread, ReleaseFile(t) PROVE NoLostWakeup'
  BY <1>9 DEF ReleaseFile, GoTo
<1>10. ASSUME NEW t \in Thread, ReleaseGuard(t) PROVE NoLostWakeup'
  BY <1>10 DEF ReleaseGuard, IntraRelease, GoTo
<1>11. ASSUME NEW t \in Thread, SweepTry(t) \/ SweepDone(t) PROVE NoLostWakeup'
  BY <1>11 DEF SweepTry, SweepDone, GoTo
<1>12. ASSUME NEW h \in Handle, HelperStep(h) PROVE NoLostWakeup'
  BY <1>12 DEF HelperStep, HelperLocks, HelperReports
<1>13. ASSUME NEW p \in Proc, Kill(p) PROVE NoLostWakeup'
  BY SMTT(60), <1>13 DEF Kill
<1> QED
  BY <1>0, <1>1, <1>2, <1>3, <1>4, <1>5, <1>6, <1>7, <1>8, <1>9, <1>10, <1>11,
     <1>12, <1>13 DEF Next, Step

(* Every step keeps the ownership of the file lock consistent. *)
LEMMA HandleStep == LockInv /\ [Next]_vars => HandleInv'
<1> SUFFICES ASSUME TypeOK, HandleInv, [Next]_vars PROVE HandleInv'
  BY SMTT(60) DEF LockInv
<1> USE DEF TypeOK, FileLockTypeOK, HandleInv
<1>0. CASE UNCHANGED vars
  BY <1>0 DEF vars, fileLockVars
<1>1. ASSUME NEW t \in Thread, Begin(t) PROVE HandleInv'
  BY SMTT(60), <1>1 DEF Begin, GoTo, fileLockVars
<1>2. ASSUME NEW t \in Thread, Sweep(t) PROVE HandleInv'
  BY SMTT(60), <1>2 DEF Sweep, OpenLockFile, Closed, GoTo
<1>3. ASSUME NEW t \in Thread, IntraAcquire(t) PROVE HandleInv'
  BY SMTT(60), <1>3 DEF IntraAcquire, GoTo, fileLockVars
<1>4. ASSUME NEW t \in Thread, IntraTimeout(t) \/ IntraSpurious(t) PROVE HandleInv'
  BY SMTT(60), <1>4 DEF IntraTimeout, IntraSpurious, GoTo, fileLockVars
<1>5. ASSUME NEW t \in Thread, Deadline(t) PROVE HandleInv'
  BY SMTT(60), <1>5 DEF Deadline, fileLockVars
<1>6. ASSUME NEW t \in Thread, OpenLock(t) PROVE HandleInv'
  BY SMTT(60), <1>6 DEF OpenLock, OpenLockFile, Closed, GoTo, fileLockVars
<1>7. ASSUME NEW t \in Thread, LockFile(t) PROVE HandleInv'
  <2>1. CASE TryLock(t, "info", "failed")
    <3> DEFINE h == fd[t]
    <3>1. h \in Handle /\ pc[t] = "try" /\ fd' = fd /\ opener' = opener
      BY SMTT(60), <2>1 DEF TryLock
    <3>2. CASE flock = None /\ flock' = h /\ GoTo(t, "info") /\ UNCHANGED <<wait, helper>>
      BY SMTT(60), <3>1, <3>2 DEF GoTo
    <3>3. CASE /\ wait' = [wait EXCEPT ![h] = "pending"]
               /\ helper' = [helper EXCEPT ![h] = "blocked"]
               /\ GoTo(t, "waiting") /\ UNCHANGED flock
      BY SMTT(60), <3>1, <3>3 DEF GoTo
    <3>4. CASE GoTo(t, "failed") /\ UNCHANGED <<flock, wait, helper>>
      BY SMTT(60), <3>1, <3>4 DEF GoTo
    <3> QED BY ZenonT(60), <2>1, <3>2, <3>3, <3>4 DEF TryLock
  <2>2. CASE WaitDone(t, "info", "failed")
    BY SMTT(60), <1>7, <2>2 DEF LockFile, WaitDone, GoTo
  <2>3. CASE WaitDeadline(t, "failed")
    BY SMTT(60), <1>7, <2>3 DEF LockFile, WaitDeadline, GoTo
  <2> QED BY ZenonT(60), <1>7, <2>1, <2>2, <2>3 DEF LockFile
<1>8. ASSUME NEW t \in Thread, WriteInfo(t) PROVE HandleInv'
  BY SMTT(60), <1>8 DEF WriteInfo, GoTo, fileLockVars
<1>9. ASSUME NEW t \in Thread, ReleaseFile(t) PROVE HandleInv'
  BY SMTT(60), <1>9 DEF ReleaseFile, Unlock, GoTo
<1>10. ASSUME NEW t \in Thread, ReleaseGuard(t) PROVE HandleInv'
  BY SMTT(60), <1>10 DEF ReleaseGuard, CloseLockFile, IntraRelease, GoTo, fileLockVars
<1>11. ASSUME NEW t \in Thread, SweepTry(t) PROVE HandleInv'
  BY SMTT(60), <1>11 DEF SweepTry, GoTo
<1>12. ASSUME NEW t \in Thread, SweepDone(t) PROVE HandleInv'
  BY SMTT(60), <1>12 DEF SweepDone, CloseLockFile, GoTo
<1>13. ASSUME NEW h \in Handle, HelperStep(h) PROVE HandleInv'
  <2>1. CASE HelperLocks(h) /\ flock' = h
    BY SMTT(60), <2>1 DEF HelperLocks
  <2>2. CASE HelperLocks(h) /\ flock' = flock
    BY SMTT(60), <2>2 DEF HelperLocks
  <2>3. CASE HelperReports(h) /\ wait[h] = "abandoned"
    BY SMTT(60), <2>3 DEF HelperReports
  <2>4. CASE HelperReports(h) /\ wait[h] # "abandoned"
    BY SMTT(60), <2>4 DEF HelperReports
  <2> QED BY ZenonT(60), <1>13, <2>1, <2>2, <2>3, <2>4 DEF HelperStep, HelperLocks
<1>14. ASSUME NEW p \in Proc, Kill(p) PROVE HandleInv'
  BY SMTT(60), <1>14 DEF Kill, ForgetHandles
<1> QED
  BY ZenonT(60), <1>0, <1>1, <1>2, <1>3, <1>4, <1>5, <1>6, <1>7, <1>8, <1>9, <1>10, <1>11,
     <1>12, <1>13, <1>14 DEF Next, Step

(* The invariant holds initially.                                          *)
LEMMA InitInv == Init => LockInv
  BY DEF Init, FileLockInit, LockInv, TypeOK, FileLockTypeOK, HandleInv, NoLostWakeup

(* The ownership of the file lock, the IntraLock and the notifications of *)
(* its condition variable stay consistent through every interleaving of   *)
(* acquisitions, timeouts, helpers, sweeps and kills.                     *)
THEOREM LockInvariant == Spec => []LockInv
<1>1. LockInv /\ [Next]_vars => LockInv'
  BY SMTT(60), TypeStep, WakeupStep, HandleStep DEF LockInv
<1> QED
  BY <1>1, InitInv, PTL DEF Spec

(* The invariant leaves room for one holder. *)
LEMMA OneHolder == LockInv => MutualExclusion
  BY DEF LockInv, TypeOK, FileLockTypeOK, HandleInv, MutualExclusion, Holding

(* Two threads, of one process or of two, never hold the store lock at once. *)
THEOREM StoreLockExcludes == Spec => []MutualExclusion
  BY LockInvariant, OneHolder, PTL

(* A thread that waits for a free IntraLock has a notified one before it. *)
THEOREM WakeupNeverLost == Spec => []NoLostWakeup
<1>1. LockInv => NoLostWakeup
  BY SMTT(60) DEF LockInv
<1> QED
  BY <1>1, LockInvariant, PTL

-----------------------------------------------------------------------------
(* What a step does to the set of holders, at most one, is what Mutex allows: *)
(* nothing, one more where there was none, or none where there was one.       *)
LEMMA HoldingStep ==
  ASSUME LockInv, [Next]_vars
  PROVE  \/ Holding' = Holding
         \/ Holding = {} /\ \E t \in Thread : Holding' = {t}
         \/ Holding # {} /\ Holding' = {}
<1> USE DEF LockInv, TypeOK, FileLockTypeOK, Holding
<1> DEFINE Goal == \/ Holding' = Holding
                   \/ Holding = {} /\ \E t \in Thread : Holding' = {t}
                   \/ Holding # {} /\ Holding' = {}
<1>0. CASE UNCHANGED vars
  BY SMTT(60), <1>0 DEF vars
<1>1. ASSUME NEW t \in Thread, Begin(t) \/ Sweep(t) \/ Deadline(t) PROVE Goal
  BY SMTT(60), <1>1 DEF Begin, Sweep, Deadline, GoTo
<1>2. ASSUME NEW t \in Thread, IntraAcquire(t) \/ IntraTimeout(t) \/ IntraSpurious(t)
      PROVE  Goal
  BY SMTT(60), <1>2 DEF IntraAcquire, IntraTimeout, IntraSpurious, GoTo
<1>3. ASSUME NEW t \in Thread, OpenLock(t) \/ LockFile(t) PROVE Goal
  BY SMTT(60), <1>3 DEF OpenLock, LockFile, TryLock, WaitDone, WaitDeadline, GoTo
<1>4. ASSUME NEW t \in Thread, WriteInfo(t) PROVE Goal
  <2>1. flock = fd[t] /\ fd[t] # None
    BY SMTT(60), <1>4 DEF WriteInfo, HandleInv
  <2>2. \A u \in Holding : u = t
    BY <2>1 DEF HandleInv
  <2>3. Holding = {}
    BY SMTT(60), <1>4, <2>2 DEF WriteInfo
  <2> QED BY SMTT(60), <1>4, <2>3 DEF WriteInfo, GoTo
<1>5. ASSUME NEW t \in Thread, ReleaseFile(t) \/ SweepDone(t) PROVE Goal
  <2>1. t \in Holding
    BY SMTT(60), <1>5 DEF ReleaseFile, SweepDone
  <2>2. \A u \in Holding : u = t
    BY SMTT(60), <2>1, OneHolder DEF MutualExclusion
  <2> QED BY <1>5, <2>1, <2>2 DEF ReleaseFile, SweepDone, GoTo
<1>6. ASSUME NEW t \in Thread, ReleaseGuard(t) PROVE Goal
  BY SMTT(60), <1>6 DEF ReleaseGuard, IntraRelease, GoTo
<1>7. ASSUME NEW t \in Thread, SweepTry(t) PROVE Goal
  <2>1. CASE flock = None
    <3>1. Holding = {}
      BY SMTT(60), <2>1 DEF HandleInv
    <3> QED BY SMTT(60), <1>7, <3>1 DEF SweepTry, GoTo
  <2>2. CASE flock # None
    BY SMTT(60), <1>7, <2>2 DEF SweepTry, GoTo
  <2> QED BY SMTT(60), <2>1, <2>2
<1>8. ASSUME NEW h \in Handle, HelperStep(h) PROVE Goal
  BY SMTT(60), <1>8 DEF HelperStep, HelperLocks, HelperReports
<1>9. ASSUME NEW p \in Proc, Kill(p) PROVE Goal
  <2>1. \A t, u \in Holding : t = u
    BY SMTT(60), OneHolder DEF MutualExclusion
  <2>2. Holding' = {t \in Holding : ProcOf[t] # p}
    BY <1>9 DEF Kill
  <2> QED BY SMTT(60), <2>1, <2>2
<1> QED
  BY ZenonT(60), <1>0, <1>1, <1>2, <1>3, <1>4, <1>5, <1>6, <1>7, <1>8, <1>9 DEF Next, Step

(* Every behaviour of the store lock, its in-process half, its file lock and *)
(* the helpers of timed-out attempts, is one of a mutex.                     *)
THEOREM StoreLockImplementsMutex == Spec => ImplementsMutex
<1>1. Init => Lock!Init
  BY DEF Init, Lock!Init, Holder, Holding
<1>2. LockInv /\ [Next]_vars => [Lock!Next]_Holder
  <2> SUFFICES ASSUME LockInv, [Next]_vars PROVE Lock!Next \/ Holder' = Holder
    OBVIOUS
  <2>1. CASE Holding' = Holding
    BY <2>1 DEF Holder
  <2>2. ASSUME NEW t \in Thread, Holding = {}, Holding' = {t} PROVE Lock!Next
    BY <2>2 DEF Holder, Lock!Next, Lock!Acquire
  <2>3. CASE Holding # {} /\ Holding' = {}
    <3>1. Holder \in Thread
      BY <2>3 DEF Holder, Holding
    <3> QED BY <2>3, <3>1 DEF Holder, Lock!Next, Lock!Release
  <2> QED BY <2>1, <2>2, <2>3, HoldingStep
<1> QED
  BY <1>1, <1>2, LockInvariant, PTL DEF Spec, ImplementsMutex, Lock!Spec
=============================================================================

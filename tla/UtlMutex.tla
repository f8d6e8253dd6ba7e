------------------------------ MODULE UtlMutex ------------------------------
(***************************************************************************)
(* The recursive mutex and the condition of Util/src/Utl_mutex.cpp, made of *)
(* a pthread mutex that is not recursive and of two fields: lockTid, read   *)
(* by any thread without the mutex, and lockCount.                          *)
(*                                                                          *)
(* Threads call Lock and Unlock in any order, an Unlock by a thread that    *)
(* does not have the lock included; it is refused.  UTLCond_TimedWait is    *)
(* called by a thread that has the lock, as pthread_cond_wait demands.      *)
(* UTLMutex_Init and UTLMutex_Destroy are called while no other call is     *)
(* under way.                                                               *)
(*                                                                          *)
(* A definition X_Y marked as a mutant is X with a bug (README.md).         *)
(***************************************************************************)
EXTENDS Naturals

CONSTANTS
  Threads,
  NoThread,  \* lockTid = 0; nobody holds the pthread mutex
  MaxDepth   \* bound on lockCount

ASSUME MutexAssumption == NoThread \notin Threads /\ MaxDepth \in Nat \ {0}

VARIABLES
  ready,      \* magic = UTL_TH_INIT
  pthMutex,   \* who holds the pthread mutex
  lockTid,
  lockCount,
  count,      \* the local of each thread's UTLCond_TimedWait
  pc

mutexVars == <<pthMutex, lockTid, lockCount>>
vars == <<ready, mutexVars, count, pc>>

Init ==
  /\ ready = TRUE
  /\ pthMutex = NoThread /\ lockTid = NoThread /\ lockCount = 0
  /\ count = [t \in Threads |-> 0]
  /\ pc = [t \in Threads |-> "idle"]

Goto(t, from, to) == pc[t] = from /\ pc' = [pc EXCEPT ![t] = to]

-----------------------------------------------------------------------------

\* Mutant: any owner will do.
LockedSelf_Owned(t) == lockTid # NoThread

\* UTLMutex_LockedSelf: the read that no lock protects.
LockedSelf(t) == lockTid = t

Reenter(t) ==
  /\ ready /\ pc[t] = "idle" /\ LockedSelf(t)
  /\ lockCount < MaxDepth
  /\ lockCount' = lockCount + 1
  /\ UNCHANGED <<ready, pthMutex, lockTid, count, pc>>

LockBlocks(t) ==
  /\ ready /\ ~LockedSelf(t)
  /\ Goto(t, "idle", "block")
  /\ UNCHANGED <<ready, mutexVars, count>>

\* pthread_mutex_lock
LockAcquires(t) ==
  /\ pthMutex = NoThread
  /\ Goto(t, "block", "setTid")
  /\ pthMutex' = t
  /\ UNCHANGED <<ready, lockTid, lockCount, count>>

LockSetsTid(t) ==
  /\ Goto(t, "setTid", "setCount")
  /\ lockTid' = t
  /\ UNCHANGED <<ready, pthMutex, lockCount, count>>

LockSetsCount(t) ==
  /\ Goto(t, "setCount", "idle")
  /\ lockCount' = 1
  /\ UNCHANGED <<ready, pthMutex, lockTid, count>>

-----------------------------------------------------------------------------

\* Mutant: whoever calls it, the count goes down.
UnlockCounts_Unchecked(t) ==
  /\ ready
  /\ lockCount' = lockCount - 1
  /\ \/ lockCount' # 0 /\ Goto(t, "idle", "idle")
     \/ lockCount' = 0 /\ Goto(t, "idle", "clearTid")
  /\ UNCHANGED <<ready, pthMutex, lockTid, count>>

\* Mutant: the last Unlock only counts.
UnlockCounts_Keeps(t) ==
  /\ ready /\ LockedSelf(t) /\ lockCount > 0
  /\ lockCount' = lockCount - 1
  /\ UNCHANGED <<ready, pthMutex, lockTid, count, pc>>

\* A thread that does not own the lock gets VPL_ERR_PERM and changes nothing.
UnlockCounts(t) ==
  /\ ready /\ LockedSelf(t)
  /\ lockCount' = lockCount - 1
  /\ \/ lockCount' # 0 /\ Goto(t, "idle", "idle")
     \/ lockCount' = 0 /\ Goto(t, "idle", "clearTid")
  /\ UNCHANGED <<ready, pthMutex, lockTid, count>>

\* Mutant: lockTid keeps naming the owner.
UnlockClearsTid_Not(t) ==
  /\ Goto(t, "clearTid", "release")
  /\ UNCHANGED <<ready, mutexVars, count>>

UnlockClearsTid(t) ==
  /\ Goto(t, "clearTid", "release")
  /\ lockTid' = NoThread
  /\ UNCHANGED <<ready, pthMutex, lockCount, count>>

\* pthread_mutex_unlock
UnlockReleases(t) ==
  /\ Goto(t, "release", "idle")
  /\ pthMutex' = NoThread
  /\ UNCHANGED <<ready, lockTid, lockCount, count>>

-----------------------------------------------------------------------------

WaitSavesCount(t) ==
  /\ ready /\ LockedSelf(t)
  /\ Goto(t, "idle", "waitClearTid")
  /\ count' = [count EXCEPT ![t] = lockCount]
  /\ lockCount' = 0
  /\ UNCHANGED <<ready, pthMutex, lockTid>>

WaitClearsTid(t) ==
  /\ Goto(t, "waitClearTid", "wait")
  /\ lockTid' = NoThread
  /\ UNCHANGED <<ready, pthMutex, lockCount, count>>

\* pthread_cond_wait gives up the mutex and sleeps in one step.
WaitSleeps(t) ==
  /\ Goto(t, "wait", "asleep")
  /\ pthMutex' = NoThread
  /\ UNCHANGED <<ready, lockTid, lockCount, count>>

\* clock_gettime failed: VPL_ERR_FAIL, with the mutex still held.
WaitFails(t) ==
  /\ Goto(t, "wait", "restoreCount")
  /\ UNCHANGED <<ready, mutexVars, count>>

\* A signal came, the time is over, or neither.
WaitWakes(t) ==
  /\ Goto(t, "asleep", "rewait")
  /\ UNCHANGED <<ready, mutexVars, count>>

WaitAcquires(t) ==
  /\ pthMutex = NoThread
  /\ Goto(t, "rewait", "restoreCount")
  /\ pthMutex' = t
  /\ UNCHANGED <<ready, lockTid, lockCount, count>>

\* Mutant: the lock is taken back once, however deep it was.
WaitRestoresCount_One(t) ==
  /\ Goto(t, "restoreCount", "restoreTid")
  /\ lockCount' = 1
  /\ UNCHANGED <<ready, pthMutex, lockTid, count>>

WaitRestoresCount(t) ==
  /\ Goto(t, "restoreCount", "restoreTid")
  /\ lockCount' = count[t]
  /\ UNCHANGED <<ready, pthMutex, lockTid, count>>

WaitRestoresTid(t) ==
  /\ Goto(t, "restoreTid", "idle")
  /\ lockTid' = t
  /\ count' = [count EXCEPT ![t] = 0]
  /\ UNCHANGED <<ready, pthMutex, lockCount>>

\* UTLCond_Signal wakes one sleeper if there is one; Broadcast all of them.
Sleepers == {t \in Threads : pc[t] = "asleep"}

Signal(woken) ==
  /\ pc' = [t \in Threads |-> IF t \in woken THEN "rewait" ELSE pc[t]]
  /\ UNCHANGED <<ready, mutexVars, count>>

CondSignal    == \E t \in Sleepers : Signal({t})
CondBroadcast == Sleepers # {} /\ Signal(Sleepers)

-----------------------------------------------------------------------------

Unused == \A t \in Threads : pc[t] = "idle"

\* pthread_mutex_destroy refuses a mutex that is held (EBUSY).
Destroy ==
  /\ ready /\ Unused
  /\ pthMutex = NoThread
  /\ ready' = FALSE
  /\ UNCHANGED <<mutexVars, count, pc>>

MutexInit ==
  /\ ~ready
  /\ ready' = TRUE
  /\ pthMutex' = NoThread /\ lockTid' = NoThread /\ lockCount' = 0
  /\ UNCHANGED <<count, pc>>

Lock(t) ==
  Reenter(t) \/ LockBlocks(t) \/ LockAcquires(t) \/ LockSetsTid(t) \/ LockSetsCount(t)

Unlock(t) == UnlockCounts(t) \/ UnlockClearsTid(t) \/ UnlockReleases(t)

TimedWait(t) ==
  \/ WaitSavesCount(t) \/ WaitClearsTid(t) \/ WaitSleeps(t) \/ WaitFails(t)
  \/ WaitWakes(t) \/ WaitAcquires(t) \/ WaitRestoresCount(t) \/ WaitRestoresTid(t)

Next ==
  \/ \E t \in Threads : Lock(t) \/ Unlock(t) \/ TimedWait(t)
  \/ CondSignal \/ CondBroadcast \/ Destroy \/ MutexInit

Spec == Init /\ [][Next]_vars

\* A call under way is carried on, and a thread that has the lock unlocks it as
\* often as it locked it, in the end.  Who gets a free mutex is up to the kernel.
Fairness ==
  /\ \A t \in Threads :
       /\ WF_vars(LockSetsTid(t) \/ LockSetsCount(t) \/ UnlockClearsTid(t) \/ UnlockReleases(t))
       /\ WF_vars(WaitClearsTid(t) \/ WaitSleeps(t) \/ WaitFails(t) \/ WaitWakes(t))
       /\ WF_vars(WaitRestoresCount(t) \/ WaitRestoresTid(t))
       /\ WF_vars(UnlockCounts(t)) /\ SF_vars(UnlockCounts(t) /\ lockCount = 1)
  /\ WF_vars(\E t \in Threads : LockAcquires(t) \/ WaitAcquires(t))

FairSpec == Spec /\ Fairness

-----------------------------------------------------------------------------
(***************************************************************************)
(* Properties                                                              *)
(***************************************************************************)

\* Places where a thread holds the pthread mutex, and where it does not.
Taking    == {"setTid", "setCount"}
Restoring == {"restoreCount", "restoreTid"}
Inside    == Taking \cup Restoring \cup {"clearTid", "release", "waitClearTid", "wait"}
Outside   == {"block", "asleep", "rewait"}

\* Places in UTLCond_TimedWait.
Waiting   == {"waitClearTid", "wait", "asleep", "rewait"} \cup Restoring

\* Every variable of the mutex holds a value of its type.
TypeOK ==
  /\ ready \in BOOLEAN
  /\ pthMutex \in Threads \cup {NoThread}
  /\ lockTid \in Threads \cup {NoThread}
  /\ lockCount \in 0..MaxDepth
  /\ count \in [Threads -> 0..MaxDepth]
  /\ pc \in [Threads -> {"idle"} \cup Inside \cup Outside]

\* UTLMutex_LockedSelf answers right although it reads lockTid without a lock
\* (Utl_mutex.cpp:97-104): a thread that is not in a call finds itself in lockTid
\* exactly when it holds the pthread mutex, with a count of one or more.
LockedSelfRight ==
  \A t \in Threads :
    pc[t] = "idle" => /\ LockedSelf(t) <=> pthMutex = t
                      /\ LockedSelf(t) => lockCount > 0

\* The mutex and the condition are a reentrant lock that a waiting owner gets
\* back as deep as it had it (Utl_mutex.cpp:45-94, 252-311).  A thread has the
\* lock from the return of Lock, or of the wait, to the call of the last Unlock.
Owner == IF pthMutex # NoThread /\ pc[pthMutex] = "idle" THEN pthMutex ELSE NoThread

Abstract == INSTANCE ReentrantLock
  WITH owner <- Owner,
       depth <- IF Owner = NoThread THEN 0 ELSE lockCount,
       saved <- [t \in Threads |-> IF pc[t] \in Waiting THEN count[t] ELSE 0]

LockSpec == Abstract!Spec

\* A lock that threads wait for is passed on, to a caller of Lock or to a waiter
\* that woke up, as long as owners unlock: every way out of a call gives the
\* pthread mutex back (Utl_mutex.cpp:83-86, 270-309).
LockPassedOn ==
  (\E t \in Threads : pc[t] \in {"block", "rewait"}) ~>
    (\E t \in Threads : pc[t] \in Taking \cup Restoring)

=============================================================================

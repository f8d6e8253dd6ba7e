-------------------------- MODULE MCUtilities_proofs --------------------------
(***************************************************************************)
(* Proofs about the mutex; that what UtlLog_proofs, UtlThread_proofs and     *)
(* WsEndpoint_proofs prove of their parts holds of the utilities together,  *)
(* as MCUtilities states it; and proofs about cJSON's lists (CJsonLists).    *)
(***************************************************************************)
EXTENDS MCUtilities, SequencesExt, SequenceTheorems, TLAPS

-----------------------------------------------------------------------------
(***************************************************************************)
(* The mutex, for any set of threads and any bound on the depth the lock is *)
(* taken.                                                                  *)
(***************************************************************************)

\* Every variable of the mutex keeps its type (Utl_mutex.cpp:25-124, 252-311).
\* The count of a thread in a wait is what it had of the lock, one or more.
TypeInv ==
  /\ TypeOK
  /\ \A t \in Threads : pc[t] \in Waiting => count[t] > 0

GivingUp == {"clearTid", "release", "waitClearTid", "wait"}

\* Where a thread that holds the pthread mutex is, and what the two fields say.
OwnerInv ==
  /\ \A t \in Threads :
       /\ pc[t] \in Inside => pthMutex = t
       /\ pc[t] \in Outside => pthMutex # t
       /\ pc[t] = "idle" => (lockTid = t <=> pthMutex = t)
       /\ pc[t] \in {"block", "asleep", "rewait", "setTid", "restoreCount", "restoreTid", "release", "wait"}
            => lockTid # t
  /\ \A t \in Threads : pthMutex = t /\ pc[t] = "idle" => lockCount > 0
  /\ \A t \in Threads : pc[t] = "setCount" => lockTid = t
  /\ \A t \in Threads : pc[t] = "restoreTid" => lockCount = count[t]
  /\ \A t \in Threads : pc[t] \in Taking \cup GivingUp => lockCount = 0
  /\ pthMutex = NoThread => lockCount = 0
  /\ ~ready => Unused /\ pthMutex = NoThread

IInv == TypeInv /\ OwnerInv

LEMMA Initially == Init => IInv
  BY MutexAssumption
     DEF Init, IInv, TypeInv, OwnerInv, TypeOK, Waiting, Inside, Outside, Taking, Restoring,
         GivingUp, Unused

LEMMA Stepwise == IInv /\ [Next]_vars => IInv'
<1> SUFFICES ASSUME IInv, [Next]_vars PROVE IInv'
  OBVIOUS
<1> USE MutexAssumption
     DEF IInv, TypeInv, OwnerInv, TypeOK, Waiting, Inside, Outside, Taking, Restoring,
         GivingUp, Unused, Goto, LockedSelf
<1>1. ASSUME NEW t \in Threads, Reenter(t) PROVE IInv'
  BY <1>1 DEF Reenter, mutexVars
<1>2. ASSUME NEW t \in Threads, LockBlocks(t) PROVE IInv'
  BY <1>2 DEF LockBlocks, mutexVars
<1>3. ASSUME NEW t \in Threads, LockAcquires(t) PROVE IInv'
  BY <1>3 DEF LockAcquires, mutexVars
<1>4. ASSUME NEW t \in Threads, LockSetsTid(t) PROVE IInv'
  BY <1>4 DEF LockSetsTid, mutexVars
<1>5. ASSUME NEW t \in Threads, LockSetsCount(t) PROVE IInv'
  BY <1>5 DEF LockSetsCount, mutexVars
<1>6. ASSUME NEW t \in Threads, UnlockCounts(t) PROVE IInv'
  BY <1>6 DEF UnlockCounts, mutexVars
<1>7. ASSUME NEW t \in Threads, UnlockClearsTid(t) PROVE IInv'
  BY <1>7 DEF UnlockClearsTid, mutexVars
<1>8. ASSUME NEW t \in Threads, UnlockReleases(t) PROVE IInv'
  BY <1>8 DEF UnlockReleases, mutexVars
<1>9. ASSUME NEW t \in Threads, WaitSavesCount(t) PROVE IInv'
  BY <1>9 DEF WaitSavesCount, mutexVars
<1>10. ASSUME NEW t \in Threads, WaitClearsTid(t) PROVE IInv'
  BY <1>10 DEF WaitClearsTid, mutexVars
<1>11. ASSUME NEW t \in Threads, WaitSleeps(t) PROVE IInv'
  BY <1>11 DEF WaitSleeps, mutexVars
<1>12. ASSUME NEW t \in Threads, WaitFails(t) PROVE IInv'
  BY <1>12 DEF WaitFails, mutexVars
<1>13. ASSUME NEW t \in Threads, WaitWakes(t) PROVE IInv'
  BY <1>13 DEF WaitWakes, mutexVars
<1>14. ASSUME NEW t \in Threads, WaitAcquires(t) PROVE IInv'
  BY <1>14 DEF WaitAcquires, mutexVars
<1>15. ASSUME NEW t \in Threads, WaitRestoresCount(t) PROVE IInv'
  BY <1>15 DEF WaitRestoresCount, mutexVars
<1>16. ASSUME NEW t \in Threads, WaitRestoresTid(t) PROVE IInv'
  BY <1>16 DEF WaitRestoresTid, mutexVars
<1>17. ASSUME NEW woken \in SUBSET Sleepers, Signal(woken) PROVE IInv'
  BY <1>17 DEF Signal, Sleepers, mutexVars
<1>18. CASE Destroy
  BY <1>18 DEF Destroy, mutexVars
<1>19. CASE MutexInit
  BY <1>19 DEF MutexInit, mutexVars
<1>20. CASE UNCHANGED vars
  BY <1>20 DEF vars, mutexVars
<1> QED
  BY <1>1, <1>2, <1>3, <1>4, <1>5, <1>6, <1>7, <1>8, <1>9, <1>10, <1>11, <1>12, <1>13, <1>14, <1>15, <1>16, <1>17, <1>18, <1>19, <1>20
     DEF Next, Lock, Unlock, TimedWait, CondSignal, CondBroadcast

-----------------------------------------------------------------------------

\* The inductive invariant holds in every reachable state of the mutex.
THEOREM Invariance == Spec => []IInv
  BY Initially, Stepwise, PTL DEF Spec

\* The fields of the mutex keep their types (Utl_mutex.cpp:25-124, 252-311).
THEOREM TypeCorrect == Spec => []TypeOK
  BY Invariance, PTL DEF IInv, TypeInv

LEMMA RightFromIInv == IInv => LockedSelfRight
  BY MutexAssumption
     DEF IInv, TypeInv, OwnerInv, TypeOK, LockedSelfRight, LockedSelf

\* The unlocked read of UTLMutex_LockedSelf answers right, for any number of
\* threads (Utl_mutex.cpp:97-104).
THEOREM LockedSelfAlwaysRight == Spec => []LockedSelfRight
  BY Invariance, RightFromIInv, PTL

-----------------------------------------------------------------------------

LEMMA AbstractInitially == Init => Abstract!Init
  BY MutexAssumption DEF Init, Abstract!Init, Owner, Waiting, Restoring

\* A step inside a call that leaves the owner, its depth and what every waiter
\* is owed as they are.
LEMMA Stutters ==
  ASSUME UNCHANGED <<Owner, IF Owner = NoThread THEN 0 ELSE lockCount,
                     [t \in Threads |-> IF pc[t] \in Waiting THEN count[t] ELSE 0]>>
  PROVE  [Abstract!Next]_(Abstract!vars)
  BY DEF Abstract!vars

LEMMA AbstractStep == IInv /\ [Next]_vars => [Abstract!Next]_(Abstract!vars)
<1> SUFFICES ASSUME IInv, [Next]_vars PROVE [Abstract!Next]_(Abstract!vars)
  OBVIOUS
<1> USE MutexAssumption
     DEF IInv, TypeInv, OwnerInv, TypeOK, Waiting, Inside, Outside, Taking, Restoring,
         GivingUp, Unused, Goto, LockedSelf, Owner
<1>1. ASSUME NEW t \in Threads, Reenter(t) PROVE Abstract!Reenter(t)
  BY <1>1 DEF Reenter, Abstract!Reenter
<1>2. ASSUME NEW t \in Threads, LockBlocks(t) PROVE [Abstract!Next]_(Abstract!vars)
  BY <1>2, Stutters DEF LockBlocks, mutexVars
<1>3. ASSUME NEW t \in Threads, LockAcquires(t) PROVE [Abstract!Next]_(Abstract!vars)
  BY <1>3, Stutters DEF LockAcquires
<1>4. ASSUME NEW t \in Threads, LockSetsTid(t) PROVE [Abstract!Next]_(Abstract!vars)
  BY <1>4, Stutters DEF LockSetsTid
<1>5. ASSUME NEW t \in Threads, LockSetsCount(t) PROVE Abstract!Acquire(t)
  BY <1>5 DEF LockSetsCount, Abstract!Acquire
<1>6. ASSUME NEW t \in Threads, UnlockCounts(t) PROVE Abstract!Release(t)
  BY <1>6 DEF UnlockCounts, Abstract!Release
<1>7. ASSUME NEW t \in Threads, UnlockClearsTid(t) PROVE [Abstract!Next]_(Abstract!vars)
  BY <1>7, Stutters DEF UnlockClearsTid
<1>8. ASSUME NEW t \in Threads, UnlockReleases(t) PROVE [Abstract!Next]_(Abstract!vars)
  BY <1>8, Stutters DEF UnlockReleases
<1>9. ASSUME NEW t \in Threads, WaitSavesCount(t) PROVE Abstract!Wait(t)
  BY <1>9 DEF WaitSavesCount, Abstract!Wait
<1>10. ASSUME NEW t \in Threads, WaitClearsTid(t) PROVE [Abstract!Next]_(Abstract!vars)
  BY <1>10, Stutters DEF WaitClearsTid
<1>11. ASSUME NEW t \in Threads, WaitSleeps(t) PROVE [Abstract!Next]_(Abstract!vars)
  BY <1>11, Stutters DEF WaitSleeps
<1>12. ASSUME NEW t \in Threads, WaitFails(t) PROVE [Abstract!Next]_(Abstract!vars)
  BY <1>12, Stutters DEF WaitFails, mutexVars
<1>13. ASSUME NEW t \in Threads, WaitWakes(t) PROVE [Abstract!Next]_(Abstract!vars)
  BY <1>13, Stutters DEF WaitWakes, mutexVars
<1>14. ASSUME NEW t \in Threads, WaitAcquires(t) PROVE [Abstract!Next]_(Abstract!vars)
  BY <1>14, Stutters DEF WaitAcquires
<1>15. ASSUME NEW t \in Threads, WaitRestoresCount(t) PROVE [Abstract!Next]_(Abstract!vars)
  BY <1>15, Stutters DEF WaitRestoresCount
<1>16. ASSUME NEW t \in Threads, WaitRestoresTid(t) PROVE Abstract!Wake(t)
  BY <1>16 DEF WaitRestoresTid, Abstract!Wake
<1>17. ASSUME NEW woken \in SUBSET Sleepers, Signal(woken) PROVE [Abstract!Next]_(Abstract!vars)
  BY <1>17, Stutters DEF Signal, Sleepers, mutexVars
<1>18. CASE Destroy
  BY <1>18, Stutters DEF Destroy, mutexVars
<1>19. CASE MutexInit
  BY <1>19, Stutters DEF MutexInit
<1>20. CASE UNCHANGED vars
  BY <1>20, Stutters DEF vars, mutexVars
<1> QED
  BY <1>1, <1>2, <1>3, <1>4, <1>5, <1>6, <1>7, <1>8, <1>9, <1>10, <1>11, <1>12, <1>13, <1>14, <1>15, <1>16, <1>17, <1>18, <1>19, <1>20
     DEF Next, Lock, Unlock, TimedWait, CondSignal, CondBroadcast, Abstract!Next

\* The mutex and the condition implement a reentrant lock that a waiting owner
\* gets back as deep as it had it (Utl_mutex.cpp:45-94, 252-311).
THEOREM Implements == Spec => LockSpec
  BY Invariance, AbstractInitially, AbstractStep, PTL DEF Spec, LockSpec, Abstract!Spec

-----------------------------------------------------------------------------

\* Among the utilities the mutex is what it is alone, its fairness with it: no other
\* part writes its fields.
THEOREM MutexImplemented == PartSpec => FairSpec
<1>1. PartInit => Init
  BY DEF PartInit
<1>2. [PartNext]_<<part, vars, logVars, threadVars, endpointVars>> => [Next]_vars
  BY DEF PartNext
<1> QED
  BY <1>1, <1>2, PTL DEF PartSpec, FairSpec, Spec

-----------------------------------------------------------------------------
(***************************************************************************)
(* The log                                                                 *)
(***************************************************************************)

\* Whatever part is exercised, the log takes a step of its own, or rests.
LEMMA LogSteps == [PartNext]_<<part, vars, logVars, threadVars, endpointVars>> => [Log!Next]_Log!vars
<1>1. UNCHANGED logVars => UNCHANGED Log!vars
  BY DEF logVars, Log!vars, Log!timeVars, Log!lockVars, Log!fileVars, Log!specialVars
<1> QED
  BY <1>1 DEF PartNext

\* The log among the utilities implements the log alone: the code shares nothing
\* between them but the threads that call them.
THEOREM LogImplemented == PartSpec => Log!Spec
<1>1. PartInit => Log!Init
  BY DEF PartInit
<1> QED
  BY <1>1, LogSteps, PTL DEF PartSpec, Log!Spec

\* The log's variables hold values of their types.
THEOREM LogTypes == PartSpec => []LogTypeOK
<1>1. Log!TypeOK => LogTypeOK
  BY DEF LogTypeOK
<1> QED
  BY <1>1, LogImplemented, Log!TypeCorrect, LogParameters, PTL

\* No line goes to a file another thread has closed.
THEOREM LogNoneClosed == PartSpec => []NoWriteToClosedFile
<1>1. Log!NoWriteToClosedFile => NoWriteToClosedFile
  BY DEF NoWriteToClosedFile
<1> QED
  BY <1>1, LogImplemented, Log!NoneClosed, LogParameters, PTL

\* Files overrun their limit by less than a line per thread, and the directory stays
\* within its number of files.
THEOREM LogBounded == PartSpec => []FilesBounded
<1>1. Log!SizesBounded /\ Log!FilesBounded => FilesBounded
  BY DEF FilesBounded
<1> QED
  BY <1>1, LogImplemented, Log!Sizes, Log!Files, LogParameters, PTL

\* A file is closed only when it is full or the day has changed.
THEOREM LogReplacedOnce == PartSpec => NoFileClosedEarly
BY LogImplemented, Log!NoneClosedEarly, PTL DEF NoFileClosedEarly

-----------------------------------------------------------------------------
(***************************************************************************)
(* The threads                                                             *)
(***************************************************************************)

\* There are none unless it is they that are exercised.
ThreadsInv ==
  IF part = "threads" THEN Thr!IInv ELSE threads = << >> /\ outcome = Thr!NoOutcome

\* Threads have the priorities they should, and handles name the threads that may be
\* joined.
THEOREM ThreadsCorrect == PartSpec => []ThreadsRight
<1>1. PartInit => ThreadsInv
  BY Thr!Initially, ThreadParameters DEF PartInit, ThreadsInv
<1>2. ThreadsInv /\ [PartNext]_<<part, vars, logVars, threadVars, endpointVars>>
        => ThreadsInv'
  <2> SUFFICES ASSUME ThreadsInv, [PartNext]_<<part, vars, logVars, threadVars, endpointVars>>
               PROVE  ThreadsInv'
    OBVIOUS
  <2>1. part' = part
    BY DEF PartNext
  <2>2. CASE part = "threads"
    <3>1. [Thr!Next]_Thr!vars
      BY <2>2 DEF PartNext, threadVars, Thr!vars
    <3>2. Thr!IInv'
      BY <2>2, <3>1, Thr!Stepwise, ThreadParameters DEF ThreadsInv
    <3> QED
      BY <2>1, <2>2, <3>2 DEF ThreadsInv
  <2>3. CASE part # "threads"
    BY <2>1, <2>3 DEF PartNext, ThreadsInv, threadVars, Thr!NoOutcome
  <2> QED
    BY <2>2, <2>3
<1>3. ThreadsInv => ThreadsRight
  <2>1. CASE part = "threads"
    BY <2>1 DEF ThreadsInv, ThreadsRight, Thr!IInv
  <2>2. ASSUME threads = << >>, outcome = Thr!NoOutcome PROVE ThreadsRight
    <3>1. DOMAIN threads = {} /\ outcome.call = "none"
      BY <2>2 DEF Thr!NoOutcome
    <3> QED
      BY <3>1 DEF ThreadsRight, Thr!ThreadsRight, Thr!InheritedNotRaised, Thr!AskedGiven, Thr!HandlesJoinable,
                  Thr!FailsForPriority
  <2> QED
    BY <2>1, <2>2 DEF ThreadsInv
<1> QED
  BY <1>1, <1>2, <1>3, PTL DEF PartSpec

-----------------------------------------------------------------------------
(***************************************************************************)
(* The endpoint                                                            *)
(***************************************************************************)

\* The endpoint that is exercised satisfies its invariant.
EndpointInv == part = "endpoint" => Endpoint!IInv

\* An endpoint that listens accepts, with no more loops than were started; every
\* connection is started or terminated once; the service that is deleted is the
\* endpoint's own; a call by a handle that reports no error has reached its connection.
THEOREM EndpointCorrect == PartSpec => []EndpointRight
<1>1. PartInit => EndpointInv
  BY Endpoint!Initially DEF PartInit, EndpointInv
<1>2. EndpointInv /\ [PartNext]_<<part, vars, logVars, threadVars, endpointVars>>
        => EndpointInv'
  <2> SUFFICES ASSUME EndpointInv, part' = "endpoint",
                      [PartNext]_<<part, vars, logVars, threadVars, endpointVars>>
               PROVE  Endpoint!IInv'
    BY DEF EndpointInv
  <2>1. part = "endpoint"
    BY DEF PartNext
  <2>2. [Endpoint!Next]_Endpoint!vars
    BY <2>1 DEF PartNext, endpointVars, Endpoint!vars
  <2> QED
    BY <2>1, <2>2, Endpoint!Stepwise DEF EndpointInv
<1>3. EndpointInv => EndpointRight
  BY Endpoint!Consequences DEF EndpointInv, EndpointRight, Endpoint!IInv
<1> QED
  BY <1>1, <1>2, <1>3, PTL DEF PartSpec

-----------------------------------------------------------------------------
(***************************************************************************)
(* cJSON's lists, for any set of cells and lists of any length: appending,   *)
(* taking out, inserting and replacing do to the chain of a list what the    *)
(* operators on sequences do, leave it walkable both ways, and touch no other *)
(* list.  The links of a memory are three functions, each assignment changes  *)
(* one of them at one cell, and what a call does is the sum of these.         *)
(***************************************************************************)

CONSTANTS
  Cells,  \* the addresses
  Nil,
  Names   \* what the key of a cell may be

Lists == INSTANCE CJsonLists

Pointers == Cells \cup {Nil}

Cell == [next : Pointers, prev : Pointers, child : Pointers,
         list : BOOLEAN, text : BOOLEAN, ref : BOOLEAN, key : Names, const : BOOLEAN]

Memory == [used : SUBSET Cells, heap : [Cells -> Cell], strings : Int, left : Int]

\* The links of a memory.
NextOf(m) == [c \in Cells |-> m.heap[c].next]

PrevOf(m) == [c \in Cells |-> m.heap[c].prev]

ChildOf(m) == [c \in Cells |-> m.heap[c].child]

\* What no change of a link touches.
RestOf(m) ==
  [used |-> m.used, strings |-> m.strings, left |-> m.left,
   cells |-> [c \in Cells |-> <<m.heap[c].list, m.heap[c].text, m.heap[c].ref, m.heap[c].key, m.heap[c].const>>]]

\* The memory m has these links, and the rest is R.
HasLinks(m, N, P, C, R) ==
  m \in Memory /\ N = NextOf(m) /\ P = PrevOf(m) /\ C = ChildOf(m) /\ R = RestOf(m)

LEMMA HasLinksMemory ==
  ASSUME NEW m, NEW N, NEW P, NEW C, NEW R, HasLinks(m, N, P, C, R)
  PROVE  m \in Memory
BY DEF HasLinks

\* Each assignment changes one link of one cell.
LEMMA SettingNext ==
  ASSUME NEW m \in Memory, NEW x \in Cells, NEW p \in Pointers,
         NEW N, NEW P, NEW C, NEW R, HasLinks(m, N, P, C, R)
  PROVE  HasLinks(Lists!SetNext(m, x, p), [N EXCEPT ![x] = p], P, C, R)
<1> DEFINE n == Lists!SetNext(m, x, p)
<1>1. m.heap \in [Cells -> Cell] /\ m.used \in SUBSET Cells /\ m.strings \in Int /\ m.left \in Int
  BY DEF Memory
<1>2. n \in Memory
  BY DEF Memory, Cell, Lists!SetNext
<1>3. n.used = m.used /\ n.strings = m.strings /\ n.left = m.left
  BY DEF Memory, Cell, Lists!SetNext
<1>4. \A c \in Cells : n.heap[c] = IF c = x THEN [m.heap[c] EXCEPT !.next = p] ELSE m.heap[c]
  BY <1>1 DEF Memory, Lists!SetNext
<1> HIDE DEF n
<1>5. NextOf(n) = [NextOf(m) EXCEPT ![x] = p]
  BY <1>1, <1>4 DEF NextOf, Cell
<1>6. PrevOf(n) = PrevOf(m) /\ ChildOf(n) = ChildOf(m)
  BY <1>1, <1>4 DEF PrevOf, ChildOf, Cell
<1>7. RestOf(n) = RestOf(m)
  <2>1. \A c \in Cells : /\ n.heap[c].list = m.heap[c].list /\ n.heap[c].text = m.heap[c].text
                         /\ n.heap[c].ref = m.heap[c].ref /\ n.heap[c].key = m.heap[c].key
                         /\ n.heap[c].const = m.heap[c].const
    BY <1>1, <1>4 DEF Cell
  <2> QED BY <1>3, <2>1 DEF RestOf
<1> QED
  BY <1>2, <1>5, <1>6, <1>7 DEF HasLinks, n

LEMMA SettingPrev ==
  ASSUME NEW m \in Memory, NEW x \in Cells, NEW p \in Pointers,
         NEW N, NEW P, NEW C, NEW R, HasLinks(m, N, P, C, R)
  PROVE  HasLinks(Lists!SetPrev(m, x, p), N, [P EXCEPT ![x] = p], C, R)
<1> DEFINE n == Lists!SetPrev(m, x, p)
<1>1. m.heap \in [Cells -> Cell] /\ m.used \in SUBSET Cells /\ m.strings \in Int /\ m.left \in Int
  BY DEF Memory
<1>2. n \in Memory
  BY DEF Memory, Cell, Lists!SetPrev
<1>3. n.used = m.used /\ n.strings = m.strings /\ n.left = m.left
  BY DEF Memory, Cell, Lists!SetPrev
<1>4. \A c \in Cells : n.heap[c] = IF c = x THEN [m.heap[c] EXCEPT !.prev = p] ELSE m.heap[c]
  BY <1>1 DEF Memory, Lists!SetPrev
<1> HIDE DEF n
<1>5. PrevOf(n) = [PrevOf(m) EXCEPT ![x] = p]
  BY <1>1, <1>4 DEF PrevOf, Cell
<1>6. NextOf(n) = NextOf(m) /\ ChildOf(n) = ChildOf(m)
  BY <1>1, <1>4 DEF NextOf, ChildOf, Cell
<1>7. RestOf(n) = RestOf(m)
  <2>1. \A c \in Cells : /\ n.heap[c].list = m.heap[c].list /\ n.heap[c].text = m.heap[c].text
                         /\ n.heap[c].ref = m.heap[c].ref /\ n.heap[c].key = m.heap[c].key
                         /\ n.heap[c].const = m.heap[c].const
    BY <1>1, <1>4 DEF Cell
  <2> QED BY <1>3, <2>1 DEF RestOf
<1> QED
  BY <1>2, <1>5, <1>6, <1>7 DEF HasLinks, n

LEMMA SettingChild ==
  ASSUME NEW m \in Memory, NEW x \in Cells, NEW p \in Pointers,
         NEW N, NEW P, NEW C, NEW R, HasLinks(m, N, P, C, R)
  PROVE  HasLinks(Lists!SetChild(m, x, p), N, P, [C EXCEPT ![x] = p], R)
<1> DEFINE n == Lists!SetChild(m, x, p)
<1>1. m.heap \in [Cells -> Cell] /\ m.used \in SUBSET Cells /\ m.strings \in Int /\ m.left \in Int
  BY DEF Memory
<1>2. n \in Memory
  BY DEF Memory, Cell, Lists!SetChild
<1>3. n.used = m.used /\ n.strings = m.strings /\ n.left = m.left
  BY DEF Memory, Cell, Lists!SetChild
<1>4. \A c \in Cells : n.heap[c] = IF c = x THEN [m.heap[c] EXCEPT !.child = p] ELSE m.heap[c]
  BY <1>1 DEF Memory, Lists!SetChild
<1> HIDE DEF n
<1>5. ChildOf(n) = [ChildOf(m) EXCEPT ![x] = p]
  BY <1>1, <1>4 DEF ChildOf, Cell
<1>6. NextOf(n) = NextOf(m) /\ PrevOf(n) = PrevOf(m)
  BY <1>1, <1>4 DEF NextOf, PrevOf, Cell
<1>7. RestOf(n) = RestOf(m)
  <2>1. \A c \in Cells : /\ n.heap[c].list = m.heap[c].list /\ n.heap[c].text = m.heap[c].text
                         /\ n.heap[c].ref = m.heap[c].ref /\ n.heap[c].key = m.heap[c].key
                         /\ n.heap[c].const = m.heap[c].const
    BY <1>1, <1>4 DEF Cell
  <2> QED BY <1>3, <2>1 DEF RestOf
<1> QED
  BY <1>2, <1>5, <1>6, <1>7 DEF HasLinks, n

\* IsList, said of the links alone.
Chained(N, P, C, l, chain) ==
  /\ \A i, j \in 1 .. Len(chain) : chain[i] = chain[j] => i = j
  /\ C[l] = IF chain = <<>> THEN Nil ELSE chain[1]
  /\ \A i \in 1 .. Len(chain) :
       /\ N[chain[i]] = IF i = Len(chain) THEN Nil ELSE chain[i + 1]
       /\ P[chain[i]] = IF i = 1 THEN chain[Len(chain)] ELSE chain[i - 1]

\* The two say the same.
LEMMA ListChained ==
  ASSUME NEW m, NEW l \in Cells, NEW chain \in Seq(Cells)
  PROVE  Lists!IsList(m, l, chain) <=> Chained(NextOf(m), PrevOf(m), ChildOf(m), l, chain)
<1>1. DOMAIN chain = 1 .. Len(chain) /\ \A i \in 1 .. Len(chain) : chain[i] \in Cells
  OBVIOUS
<1>2. \A c \in Cells : /\ NextOf(m)[c] = m.heap[c].next
                       /\ PrevOf(m)[c] = m.heap[c].prev
                       /\ ChildOf(m)[c] = m.heap[c].child
  BY DEF NextOf, PrevOf, ChildOf
<1>3. Lists!IsInjective(chain) <=> \A i, j \in 1 .. Len(chain) : chain[i] = chain[j] => i = j
  BY <1>1 DEF Lists!IsInjective
<1>4. m.heap[l].child = ChildOf(m)[l]
  BY <1>2
<1>5. (\A i \in 1 .. Len(chain) :
         /\ m.heap[chain[i]].next = IF i = Len(chain) THEN Nil ELSE chain[i + 1]
         /\ m.heap[chain[i]].prev = IF i = 1 THEN chain[Len(chain)] ELSE chain[i - 1])
      <=>
      (\A i \in 1 .. Len(chain) :
         /\ NextOf(m)[chain[i]] = IF i = Len(chain) THEN Nil ELSE chain[i + 1]
         /\ PrevOf(m)[chain[i]] = IF i = 1 THEN chain[Len(chain)] ELSE chain[i - 1])
  BY <1>1, <1>2
<1> QED
  BY <1>1, <1>3, <1>4, <1>5 DEF Lists!IsList, Chained

-----------------------------------------------------------------------------

\* Only links have changed: of children only l's, of neighbours only those of S.
Relinks(m, n, l, S) ==
  /\ n \in Memory /\ RestOf(n) = RestOf(m)
  /\ \A c \in Cells \ {l} : n.heap[c].child = m.heap[c].child
  /\ \A c \in Cells \ S : n.heap[c].next = m.heap[c].next /\ n.heap[c].prev = m.heap[c].prev

\* Every link is a cell's address or Nil.
LinksOK(N, P, C) == N \in [Cells -> Pointers] /\ P \in [Cells -> Pointers] /\ C \in [Cells -> Pointers]

\* The links of a memory are links, and are its own.
LEMMA LinksType ==
  ASSUME NEW m \in Memory
  PROVE  /\ LinksOK(NextOf(m), PrevOf(m), ChildOf(m))
         /\ HasLinks(m, NextOf(m), PrevOf(m), ChildOf(m), RestOf(m))
         /\ \A c \in Cells : /\ NextOf(m)[c] = m.heap[c].next
                             /\ PrevOf(m)[c] = m.heap[c].prev
                             /\ ChildOf(m)[c] = m.heap[c].child
BY DEF Memory, Cell, LinksOK, NextOf, PrevOf, ChildOf, HasLinks

\* What has been relinked, by the links before and after.
LEMMA RelinksByLinks ==
  ASSUME NEW m, NEW n, NEW l, NEW S, NEW N, NEW P, NEW C, NEW R, NEW N2, NEW P2, NEW C2,
         HasLinks(m, N, P, C, R), HasLinks(n, N2, P2, C2, R),
         \A c \in Cells : c # l => C2[c] = C[c],
         \A c \in Cells : c \notin S => N2[c] = N[c] /\ P2[c] = P[c]
  PROVE  Relinks(m, n, l, S)
<1>1. n \in Memory /\ m \in Memory /\ RestOf(n) = RestOf(m)
  BY DEF HasLinks
<1> QED
  BY <1>1, LinksType DEF Relinks, HasLinks

\* Lists of others that share no item with what is relinked stay as they are: what a
\* call does to one list it does to no other tree (cJSON.c:1952-1984, 2183-2335).
THEOREM OtherListsStay ==
  ASSUME NEW m \in Memory, NEW n, NEW l \in Cells, NEW S, Relinks(m, n, l, S),
         NEW k \in Cells, k # l, NEW chain \in Seq(Cells), Range(chain) \cap S = {},
         Lists!IsList(m, k, chain)
  PROVE  Lists!IsList(n, k, chain)
<1>1. DOMAIN chain = 1 .. Len(chain) /\ \A i \in 1 .. Len(chain) : chain[i] \in Cells \ S
  BY DEF Range
<1>2. n.heap[k].child = m.heap[k].child
  BY DEF Relinks
<1>3. \A i \in 1 .. Len(chain) : /\ n.heap[chain[i]].next = m.heap[chain[i]].next
                                /\ n.heap[chain[i]].prev = m.heap[chain[i]].prev
  BY <1>1 DEF Relinks
<1> QED
  BY <1>1, <1>2, <1>3 DEF Lists!IsList

\* The links once an item follows the last one.
LEMMA AppendedLinks ==
  ASSUME NEW N, NEW P, NEW C, LinksOK(N, P, C), Nil \notin Cells,
         NEW l \in Cells, NEW chain \in Seq(Cells), Chained(N, P, C, l, chain), chain # <<>>,
         NEW item \in Cells, item \notin Range(chain), N[item] = Nil
  PROVE  Chained([N EXCEPT ![chain[Len(chain)]] = item],
                 [[P EXCEPT ![item] = chain[Len(chain)]] EXCEPT ![chain[1]] = item],
                 C, l, Append(chain, item))
<1> DEFINE k == Len(chain)
           new == Append(chain, item)
           N2 == [N EXCEPT ![chain[k]] = item]
           P2 == [[P EXCEPT ![item] = chain[k]] EXCEPT ![chain[1]] = item]
<1>1. k \in Nat /\ k > 0 /\ Len(new) = k + 1 /\ new # <<>>
  OBVIOUS
<1>2. \A i \in 1 .. k : new[i] = chain[i] /\ chain[i] \in Cells /\ chain[i] # item
  BY DEF Range
<1>3. new[k + 1] = item
  OBVIOUS
<1> HIDE DEF new, k
<1>4. \A i, j \in 1 .. k + 1 : new[i] = new[j] => i = j
  BY <1>1, <1>2, <1>3 DEF Chained, k
<1>5. C[l] = new[1]
  BY <1>1, <1>2 DEF Chained
<1>6. ASSUME NEW i \in 1 .. k + 1
      PROVE  N2[new[i]] = IF i = k + 1 THEN Nil ELSE new[i + 1]
  <2>1. CASE i = k + 1
    BY <2>1, <1>1, <1>2, <1>3 DEF LinksOK
  <2>2. CASE i = k
    BY <2>2, <1>1, <1>2, <1>3 DEF LinksOK
  <2>3. CASE i < k
    <3>1. i \in 1 .. k /\ i + 1 \in 1 .. k /\ k \in 1 .. k
      BY <2>3, <1>1
    <3>2. new[i] # chain[k] /\ new[i] \in Cells
      BY <3>1, <1>2, <2>3 DEF Chained, k
    <3>3. N[new[i]] = new[i + 1]
      BY <3>1, <1>2, <2>3 DEF Chained, k
    <3> QED BY <3>2, <3>3, <2>3, <1>1 DEF LinksOK
  <2> QED BY <2>1, <2>2, <2>3, <1>1
<1>7. ASSUME NEW i \in 1 .. k + 1
      PROVE  P2[new[i]] = IF i = 1 THEN new[k + 1] ELSE new[i - 1]
  <2>1. CASE i = 1
    BY <2>1, <1>1, <1>2, <1>3 DEF LinksOK
  <2>2. CASE i = k + 1
    BY <2>2, <1>1, <1>2, <1>3 DEF LinksOK
  <2>3. CASE 1 < i /\ i < k + 1
    <3>1. i \in 1 .. k /\ i - 1 \in 1 .. k /\ 1 \in 1 .. k
      BY <2>3, <1>1
    <3>2. new[i] # chain[1] /\ new[i] \in Cells /\ new[i] # item
      BY <3>1, <1>2, <2>3 DEF Chained, k
    <3>3. P[new[i]] = new[i - 1]
      BY <3>1, <1>2, <2>3 DEF Chained, k
    <3> QED BY <3>2, <3>3, <2>3, <1>1 DEF LinksOK
  <2> QED BY <2>1, <2>2, <2>3, <1>1
<1> HIDE DEF N2, P2
<1>8. Chained(N2, P2, C, l, new)
  BY <1>1, <1>4, <1>5, <1>6, <1>7 DEF Chained
<1> QED
  BY <1>8 DEF k, new, N2, P2

\* add_item_to_array (cJSON.c:1952-1984) finds the last item by the prev of the first:
\* an item linked to nothing comes last then, and the list can be walked both ways.
THEOREM ListAppends ==
  ASSUME Nil \notin Cells, NEW m \in Memory, NEW l \in Cells, NEW chain \in Seq(Cells),
         Lists!IsList(m, l, chain),
         NEW item \in Cells, item # l, item \notin Range(chain), Lists!Unlinked(m, item)
  PROVE  /\ Lists!IsList(Lists!AddToArray(m, l, item), l, Append(chain, item))
         /\ Relinks(m, Lists!AddToArray(m, l, item), l, Range(chain) \cup {item})
<1> DEFINE N == NextOf(m)
           P == PrevOf(m)
           C == ChildOf(m)
           R == RestOf(m)
           n == Lists!AddToArray(m, l, item)
           first == m.heap[l].child
           last == m.heap[first].prev
<1>1. LinksOK(N, P, C) /\ HasLinks(m, N, P, C, R)
  BY LinksType
<1>2. Chained(N, P, C, l, chain)
  BY ListChained
<1>3. N[item] = Nil /\ C[l] = first
  BY LinksType DEF Lists!Unlinked
<1>4. DOMAIN chain = 1 .. Len(chain) /\ Append(chain, item) \in Seq(Cells)
  OBVIOUS
<1>0. N = NextOf(m) /\ P = PrevOf(m) /\ C = ChildOf(m) /\ R = RestOf(m)
  OBVIOUS
<1> HIDE DEF N, P, C, R
<1>5. CASE chain = <<>>
  <2>1. first = Nil
    BY <1>5 DEF Lists!IsList
  <2> DEFINE n1 == Lists!SetChild(m, l, item)
             n2 == Lists!SetPrev(n1, item, item)
             n3 == Lists!SetNext(n2, item, Nil)
  <2>2. n = n3
    BY <2>1 DEF Lists!AddToArray
  <2>3. HasLinks(n1, N, P, [C EXCEPT ![l] = item], R)
    BY <1>1, SettingChild DEF Pointers
  <2> HIDE DEF n1
  <2>4. HasLinks(n2, N, [P EXCEPT ![item] = item], [C EXCEPT ![l] = item], R)
    BY <2>3, HasLinksMemory, SettingPrev DEF Pointers
  <2> HIDE DEF n2
  <2>5. HasLinks(n3, [N EXCEPT ![item] = Nil], [P EXCEPT ![item] = item], [C EXCEPT ![l] = item], R)
    BY <2>4, HasLinksMemory, SettingNext DEF Pointers
  <2> HIDE DEF n3, n
  <2>6. Chained([N EXCEPT ![item] = Nil], [P EXCEPT ![item] = item], [C EXCEPT ![l] = item], l, Append(chain, item))
    BY <1>1, <1>5 DEF Chained, LinksOK
  <2>7. Lists!IsList(n3, l, Append(chain, item))
    BY <2>5, <2>6, <1>4, ListChained DEF HasLinks
  <2>8. Relinks(m, n3, l, Range(chain) \cup {item})
    <3> DEFINE N2 == [N EXCEPT ![item] = Nil]
               P2 == [P EXCEPT ![item] = item]
               C2 == [C EXCEPT ![l] = item]
    <3>1. \A c \in Cells : c # l => C2[c] = C[c]
      BY <1>1 DEF LinksOK
    <3>2. \A c \in Cells : c \notin Range(chain) \cup {item} => N2[c] = N[c] /\ P2[c] = P[c]
      BY <1>1 DEF LinksOK
    <3>3. HasLinks(n3, N2, P2, C2, R)
      BY <2>5
    <3> HIDE DEF N2, P2, C2
    <3> QED BY <1>1, <3>1, <3>2, <3>3, RelinksByLinks
  <2> QED BY <2>2, <2>7, <2>8 DEF n
<1>6. CASE chain # <<>>
  <2>1. Len(chain) \in Nat /\ Len(chain) > 0
    BY <1>6
  <2>2. first = chain[1] /\ last = chain[Len(chain)] /\ first \in Cells /\ last \in Cells
    BY <2>1, <1>6 DEF Lists!IsList
  <2> DEFINE n1 == Lists!SetNext(m, last, item)
             n2 == Lists!SetPrev(n1, item, last)
             n3 == Lists!SetPrev(n2, first, item)
  <2>3. n = n3
    BY <2>2 DEF Lists!AddToArray
  <2> HIDE DEF first, last
  <2>4. HasLinks(n1, [N EXCEPT ![last] = item], P, C, R)
    BY <1>1, <2>2, SettingNext DEF Pointers
  <2> HIDE DEF n1
  <2>5. HasLinks(n2, [N EXCEPT ![last] = item], [P EXCEPT ![item] = last], C, R)
    BY <2>4, <2>2, HasLinksMemory, SettingPrev DEF Pointers
  <2> HIDE DEF n2
  <2>6. HasLinks(n3, [N EXCEPT ![last] = item], [[P EXCEPT ![item] = last] EXCEPT ![first] = item], C, R)
    BY <2>5, <2>2, HasLinksMemory, SettingPrev DEF Pointers
  <2> HIDE DEF n3, n
  <2>7. Chained([N EXCEPT ![last] = item], [[P EXCEPT ![item] = last] EXCEPT ![first] = item], C, l, Append(chain, item))
    BY <1>1, <1>2, <1>3, <1>6, <2>2, AppendedLinks
  <2>8. Lists!IsList(n3, l, Append(chain, item))
    BY <2>6, <2>7, <1>4, ListChained DEF HasLinks
  <2>9. first \in Range(chain) /\ last \in Range(chain)
    BY <2>1, <2>2, <1>4 DEF Range
  <2>10. Relinks(m, n3, l, Range(chain) \cup {item})
    <3> DEFINE N2 == [N EXCEPT ![last] = item]
               P2 == [[P EXCEPT ![item] = last] EXCEPT ![first] = item]
    <3>1. \A c \in Cells : c \notin Range(chain) \cup {item} => N2[c] = N[c] /\ P2[c] = P[c]
      BY <1>1, <2>9 DEF LinksOK
    <3>2. HasLinks(n3, N2, P2, C, R)
      BY <2>6
    <3> HIDE DEF N2, P2
    <3> QED BY <1>1, <3>1, <3>2, RelinksByLinks
  <2> QED BY <2>3, <2>8, <2>10 DEF n
<1> QED BY <1>5, <1>6

-----------------------------------------------------------------------------

\* Where the items of the two shorter and longer lists come from.
LEMMA Removed ==
  ASSUME NEW S, NEW chain \in Seq(S), NEW at \in 1 .. Len(chain)
  PROVE  /\ RemoveAt(chain, at) \in Seq(S)
         /\ Len(RemoveAt(chain, at)) = Len(chain) - 1
         /\ \A i \in 1 .. Len(chain) - 1 :
              RemoveAt(chain, at)[i] = IF i < at THEN chain[i] ELSE chain[i + 1]
<1> DEFINE k == Len(chain)
           A == SubSeq(chain, 1, at - 1)
           B == SubSeq(chain, at + 1, k)
<1>1. k \in Nat /\ at \in 1 .. k
  OBVIOUS
<1>2. A \in Seq(S) /\ Len(A) = at - 1 /\ \A i \in 1 .. at - 1 : A[i] = chain[i]
  OBVIOUS
<1>3. B \in Seq(S) /\ Len(B) = k - at /\ \A i \in 1 .. k - at : B[i] = chain[at + i]
  OBVIOUS
<1>4. RemoveAt(chain, at) = A \o B
  BY DEF RemoveAt
<1> DEFINE s == A \o B
<1>5. Len(s) = k - 1 /\ s \in Seq(S)
  <2>1. s \in Seq(S) /\ Len(s) = Len(A) + Len(B)
    BY <1>2, <1>3, ConcatProperties
  <2> HIDE DEF s, A, B, k
  <2> QED BY <2>1, <1>1, <1>2, <1>3
<1>6. ASSUME NEW i \in 1 .. k - 1
      PROVE  s[i] = IF i < at THEN chain[i] ELSE chain[i + 1]
  <2>1. s[i] = IF i <= Len(A) THEN A[i] ELSE B[i - Len(A)]
    <3>1. i \in 1 .. Len(A) + Len(B)
      <4> HIDE DEF s, A, B, k
      <4> QED BY <1>1, <1>2, <1>3
    <3> HIDE DEF A, B
    <3> QED BY <3>1, <1>2, <1>3, ConcatProperties
  <2> HIDE DEF s, A, B, k
  <2>2. CASE i < at
    BY <2>1, <2>2, <1>1, <1>2
  <2>3. CASE ~(i < at)
    <3>1. i - (at - 1) \in 1 .. k - at /\ at + (i - (at - 1)) = i + 1 /\ ~(i <= at - 1)
      BY <2>3, <1>1
    <3>2. s[i] = B[i - (at - 1)]
      BY <3>1, <2>1, <1>2
    <3>3. B[i - (at - 1)] = chain[i + 1]
      BY <3>1, <1>3
    <3> QED BY <3>2, <3>3, <2>3
  <2> QED BY <2>2, <2>3
<1> HIDE DEF s
<1> QED
  BY <1>4, <1>5, <1>6 DEF k, s

LEMMA Inserted ==
  ASSUME NEW S, NEW chain \in Seq(S), NEW at \in 1 .. Len(chain), NEW e \in S
  PROVE  /\ InsertAt(chain, at, e) \in Seq(S)
         /\ Len(InsertAt(chain, at, e)) = Len(chain) + 1
         /\ \A i \in 1 .. Len(chain) + 1 :
              InsertAt(chain, at, e)[i] =
                IF i < at THEN chain[i] ELSE IF i = at THEN e ELSE chain[i - 1]
BY DEF InsertAt

\* The links N2, P2 and C2 bypass the item at this place of l's chain.
Bypassed(N, P, C, N2, P2, C2, l, chain, at) ==
  /\ \A c \in Cells : c # chain[at] =>
       /\ N2[c] = IF at > 1 /\ c = chain[at - 1] THEN N[chain[at]] ELSE N[c]
       /\ P2[c] = IF at < Len(chain) /\ c = chain[at + 1] THEN P[chain[at]]
                  ELSE IF at > 1 /\ at = Len(chain) /\ c = chain[1] THEN P[chain[at]]
                  ELSE P[c]
  /\ C2[l] = IF at = 1 THEN N[chain[at]] ELSE C[l]

LEMMA DetachedLinks ==
  ASSUME Nil \notin Cells, NEW N, NEW P, NEW C, NEW N2, NEW P2, NEW C2,
         NEW l \in Cells, NEW chain \in Seq(Cells), Chained(N, P, C, l, chain),
         NEW at \in 1 .. Len(chain), Bypassed(N, P, C, N2, P2, C2, l, chain, at)
  PROVE  Chained(N2, P2, C2, l, RemoveAt(chain, at))
<1> DEFINE item == chain[at]
<1>0. /\ item = chain[at]
      /\ \A c \in Cells : c # item =>
           /\ N2[c] = IF at > 1 /\ c = chain[at - 1] THEN N[item] ELSE N[c]
           /\ P2[c] = IF at < Len(chain) /\ c = chain[at + 1] THEN P[item]
                      ELSE IF at > 1 /\ at = Len(chain) /\ c = chain[1] THEN P[item]
                      ELSE P[c]
      /\ C2[l] = IF at = 1 THEN N[item] ELSE C[l]
  BY DEF Bypassed
<1> HIDE DEF item
<1> USE <1>0
<1> DEFINE k == Len(chain)
           new == RemoveAt(chain, at)
<1>1. k \in Nat /\ k > 0 /\ at \in 1 .. k /\ Len(new) = k - 1
  BY Removed
<1>2. \A i \in 1 .. k - 1 : new[i] = IF i < at THEN chain[i] ELSE chain[i + 1]
  BY Removed
<1>3. \A i \in 1 .. k : chain[i] \in Cells
  OBVIOUS
<1>4. new = <<>> <=> k = 1
  <2>1. new \in Seq(Cells)
    BY Removed
  <2> HIDE DEF new
  <2> QED BY <1>1, <2>1
<1>5. /\ \A i, j \in 1 .. k : chain[i] = chain[j] => i = j
      /\ C[l] = chain[1]
      /\ \A i \in 1 .. k : /\ N[chain[i]] = IF i = k THEN Nil ELSE chain[i + 1]
                           /\ P[chain[i]] = IF i = 1 THEN chain[k] ELSE chain[i - 1]
  <2> HIDE DEF new
  <2> QED BY <1>1 DEF Chained
<1> HIDE DEF new, k
<1>6. \A i, j \in 1 .. k - 1 : new[i] = new[j] => i = j
  <2> DEFINE f(i) == IF i < at THEN i ELSE i + 1
  <2>1. \A i \in 1 .. k - 1 : f(i) \in 1 .. k /\ new[i] = chain[f(i)]
    BY <1>1, <1>2
  <2>2. \A i, j \in 1 .. k - 1 : f(i) = f(j) => i = j
    BY <1>1
  <2> HIDE DEF f
  <2> QED BY <2>1, <2>2, <1>5
<1>7. C2[l] = IF new = <<>> THEN Nil ELSE new[1]
  <2>1. chain[at] = item /\ at \in 1 .. k /\ 1 \in 1 .. k
    BY <1>1
  <2>2. N[item] = IF at = k THEN Nil ELSE chain[at + 1]
    BY <2>1, <1>5
  <2>3. k # 1 => new[1] = IF 1 < at THEN chain[1] ELSE chain[2]
    BY <1>1, <1>2
  <2> QED BY <2>2, <2>3, <1>1, <1>4, <1>5
<1>8. ASSUME NEW i \in 1 .. k - 1
      PROVE  N2[new[i]] = IF i = k - 1 THEN Nil ELSE new[i + 1]
  <2>1. CASE i < at - 1
    <3>1. i + 1 \in 1 .. k - 1 /\ i \in 1 .. k /\ at - 1 \in 1 .. k /\ i + 1 < at /\ i # at
      BY <2>1, <1>1
    <3>2. chain[i] # item /\ chain[i] # chain[at - 1]
      <4>1. i # at - 1 /\ at \in 1 .. k
        BY <2>1, <1>1
      <4> QED BY <4>1, <3>1, <1>5
    <3>3. N2[new[i]] = N[chain[i]]
      BY <3>1, <3>2, <2>1, <1>1, <1>2, <1>3
    <3>4. N[chain[i]] = chain[i + 1] /\ new[i + 1] = chain[i + 1] /\ i # k - 1
      BY <3>1, <1>1, <1>2, <1>5
    <3> QED BY <3>3, <3>4
  <2>2. CASE i = at - 1
    <3>1. i \in 1 .. k /\ i < at /\ at > 1
      BY <2>2, <1>1
    <3>2. chain[i] # item
      BY <3>1, <1>1, <1>5
    <3>3. N2[new[i]] = N[item]
      BY <3>1, <3>2, <2>2, <1>2, <1>3
    <3>4. N[item] = IF at = k THEN Nil ELSE chain[at + 1]
      BY <1>1, <1>5
    <3>5. at # k => new[i + 1] = chain[at + 1] /\ i # k - 1
      BY <2>2, <1>1, <1>2
    <3> QED BY <3>3, <3>4, <3>5, <2>2, <1>1
  <2>3. CASE i >= at
    <3>1. i + 1 \in 1 .. k /\ ~(i < at) /\ i + 1 # at /\ (at > 1 => at - 1 \in 1 .. k /\ at - 1 # i + 1)
      BY <2>3, <1>1
    <3>2. chain[i + 1] # item /\ (at > 1 => chain[i + 1] # chain[at - 1])
      BY <3>1, <1>1, <1>5
    <3>3. N2[new[i]] = N[chain[i + 1]]
      BY <3>1, <3>2, <1>2, <1>3
    <3>4. i # k - 1 => i + 1 \in 1 .. k - 1 /\ ~(i + 1 < at)
      BY <2>3, <1>1
    <3> QED BY <3>1, <3>3, <3>4, <1>1, <1>2, <1>5
  <2> QED BY <2>1, <2>2, <2>3, <1>1
<1>9. ASSUME NEW i \in 1 .. k - 1
      PROVE  P2[new[i]] = IF i = 1 THEN new[k - 1] ELSE new[i - 1]
  <2> DEFINE j == IF i < at THEN i ELSE i + 1
  <2>1. j \in 1 .. k /\ new[i] = chain[j] /\ j # at
    BY <1>1, <1>2
  <2>2. chain[j] \in Cells /\ chain[j] # item
    BY <2>1, <1>3, <1>1, <1>5
  <2>3. (at < k /\ chain[j] = chain[at + 1]) <=> (at < k /\ j = at + 1)
    BY <2>1, <1>1, <1>5
  <2>4. chain[j] = chain[1] <=> j = 1
    BY <2>1, <1>1, <1>5
  <2>5. P2[new[i]] = IF at < k /\ j = at + 1 THEN P[item]
                     ELSE IF at > 1 /\ at = k /\ j = 1 THEN P[item] ELSE P[chain[j]]
    BY <2>1, <2>2, <2>3, <2>4 DEF k
  <2>6. P[item] = IF at = 1 THEN chain[k] ELSE chain[at - 1]
    BY <1>1, <1>5
  <2>7. P[chain[j]] = IF j = 1 THEN chain[k] ELSE chain[j - 1]
    BY <2>1, <1>5
  <2>8. new[k - 1] = IF at = k THEN chain[k - 1] ELSE chain[k]
    <3>1. k - 1 \in 1 .. k - 1 /\ (k - 1 < at <=> at = k) /\ (k - 1) + 1 = k
      BY <1>1
    <3> QED BY <3>1, <1>2
  <2>9. i # 1 => new[i - 1] = IF i - 1 < at THEN chain[i - 1] ELSE chain[i]
    BY <1>1, <1>2
  <2> QED BY <2>1, <2>5, <2>6, <2>7, <2>8, <2>9, <1>1
<1>10. Chained(N2, P2, C2, l, new)
  BY <1>1, <1>6, <1>7, <1>8, <1>9 DEF Chained
<1> QED
  BY <1>10 DEF new

\* The neighbours of the item at a place.
LEMMA ChainedAt ==
  ASSUME NEW N, NEW P, NEW C, NEW l, NEW chain \in Seq(Cells), Chained(N, P, C, l, chain),
         NEW at \in 1 .. Len(chain)
  PROVE  /\ C[l] = chain[1] /\ (C[l] = chain[at] <=> at = 1)
         /\ N[chain[at]] = IF at = Len(chain) THEN Nil ELSE chain[at + 1]
         /\ P[chain[at]] = IF at = 1 THEN chain[Len(chain)] ELSE chain[at - 1]
<1>1. Len(chain) \in Nat /\ 1 \in 1 .. Len(chain) /\ chain # <<>>
  OBVIOUS
<1> QED
  BY <1>1 DEF Chained

\* cJSON_DetachItemViaPointer (cJSON.c:2183-2217): the items after it move up, and what
\* has been taken out is linked to nothing, as ListAppends requires of an item.
THEOREM ListTakesOut ==
  ASSUME Nil \notin Cells, NEW m \in Memory, NEW l \in Cells, NEW chain \in Seq(Cells),
         Lists!IsList(m, l, chain), NEW at \in 1 .. Len(chain)
  PROVE  /\ Lists!IsList(Lists!Detach(m, l, chain[at]), l, RemoveAt(chain, at))
         /\ Lists!Unlinked(Lists!Detach(m, l, chain[at]), chain[at])
         /\ Relinks(m, Lists!Detach(m, l, chain[at]), l, Range(chain))
<1> DEFINE N == NextOf(m)
           P == PrevOf(m)
           C == ChildOf(m)
           R == RestOf(m)
           k == Len(chain)
           item == chain[at]
           prev == m.heap[item].prev
           next == m.heap[item].next
           first == m.heap[l].child = item
           N1 == IF first THEN N ELSE [N EXCEPT ![prev] = next]
           P1 == IF next = Nil THEN P ELSE [P EXCEPT ![next] = prev]
           C1 == IF first THEN [C EXCEPT ![l] = next] ELSE C
           P2 == IF ~first /\ next = Nil THEN [P1 EXCEPT ![chain[1]] = prev] ELSE P1
           P3 == [P2 EXCEPT ![item] = Nil]
           N3 == [N1 EXCEPT ![item] = Nil]
           skipped == IF first THEN m ELSE Lists!SetNext(m, prev, next)
           back == IF next = Nil THEN skipped ELSE Lists!SetPrev(skipped, next, prev)
           relinked == IF first THEN Lists!SetChild(back, l, next)
                       ELSE IF next = Nil THEN Lists!SetPrev(back, back.heap[l].child, prev)
                       ELSE back
           gone == Lists!SetPrev(relinked, item, Nil)
           n == Lists!SetNext(gone, item, Nil)
<1>1. n = Lists!Detach(m, l, item)
  BY DEF Lists!Detach
<1>2. LinksOK(N, P, C) /\ HasLinks(m, N, P, C, R)
  BY LinksType
<1>3. Chained(N, P, C, l, chain)
  BY ListChained
<1>4. k \in Nat /\ k > 0 /\ at \in 1 .. k /\ DOMAIN chain = 1 .. k /\ \A i \in 1 .. k : chain[i] \in Cells
  OBVIOUS
<1>5. C[l] = m.heap[l].child /\ N[item] = next /\ P[item] = prev
  BY LinksType
<1>6. /\ C[l] = chain[1] /\ (C[l] = item <=> at = 1)
      /\ N[item] = IF at = k THEN Nil ELSE chain[at + 1]
      /\ P[item] = IF at = 1 THEN chain[k] ELSE chain[at - 1]
  BY <1>3, ChainedAt
<1>7. item = chain[at]
  OBVIOUS
<1>8. first <=> at = 1
  BY <1>5, <1>6
<1> HIDE DEF N, P, C, R, k, item, prev, next, first
<1>9. next = IF at = k THEN Nil ELSE chain[at + 1]
  BY <1>5, <1>6
<1>10. prev = IF at = 1 THEN chain[k] ELSE chain[at - 1]
  BY <1>5, <1>6
<1>11. next \in Pointers /\ prev \in Cells /\ item \in Cells /\ (next = Nil <=> at = k)
  BY <1>4, <1>7, <1>9, <1>10 DEF Pointers
<1>12. prev \in Range(chain) /\ item \in Range(chain) /\ chain[1] \in Range(chain)
       /\ (next # Nil => next \in Range(chain))
  BY <1>4, <1>7, <1>9, <1>10 DEF Range
<1>13. HasLinks(skipped, N1, P, C, R)
  BY <1>2, <1>11, SettingNext
<1> HIDE DEF skipped, N1
<1>14. HasLinks(back, N1, P1, C, R)
  <2>1. next # Nil => HasLinks(Lists!SetPrev(skipped, next, prev), N1, [P EXCEPT ![next] = prev], C, R)
    BY <1>13, <1>11, HasLinksMemory, SettingPrev DEF Pointers
  <2> QED BY <1>13, <2>1
<1>15. back.heap[l].child = chain[1]
  BY <1>14, <1>6, LinksType DEF HasLinks
<1> HIDE DEF back, P1
<1>16. HasLinks(relinked, N1, P2, C1, R)
  <2>1. first => HasLinks(Lists!SetChild(back, l, next), N1, P1, [C EXCEPT ![l] = next], R)
    BY <1>14, <1>11, HasLinksMemory, SettingChild
  <2>2. HasLinks(Lists!SetPrev(back, chain[1], prev), N1, [P1 EXCEPT ![chain[1]] = prev], C, R)
    BY <1>14, <1>11, <1>4, HasLinksMemory, SettingPrev DEF Pointers
  <2> QED BY <1>14, <1>15, <2>1, <2>2
<1> HIDE DEF relinked, P2, C1
<1>17. HasLinks(gone, N1, P3, C1, R)
  BY <1>16, <1>11, HasLinksMemory, SettingPrev DEF Pointers
<1> HIDE DEF gone, P3
<1>18. HasLinks(n, N3, P3, C1, R)
  BY <1>17, <1>11, HasLinksMemory, SettingNext DEF Pointers
<1> HIDE DEF n, N3
<1>19. N1 \in [Cells -> Pointers] /\ P1 \in [Cells -> Pointers] /\ P2 \in [Cells -> Pointers]
  <2>1. N1 \in [Cells -> Pointers] /\ P1 \in [Cells -> Pointers]
    BY <1>2, <1>11 DEF LinksOK, N1, P1, Pointers
  <2>2. P2 \in [Cells -> Pointers]
    BY <2>1, <1>11, <1>4 DEF P2, Pointers
  <2> QED BY <2>1, <2>2
<1>20. \A c \in Cells : N3[c] = IF c = item THEN Nil ELSE IF ~first /\ c = prev THEN next ELSE N[c]
  BY <1>2, <1>11, <1>19 DEF LinksOK, N1, N3
<1>21. \A c \in Cells : P1[c] = IF next # Nil /\ c = next THEN prev ELSE P[c]
  BY <1>2, <1>11 DEF LinksOK, P1, Pointers
<1>22. \A c \in Cells : P2[c] = IF ~first /\ next = Nil /\ c = chain[1] THEN prev ELSE P1[c]
  BY <1>4, <1>19 DEF P2
<1>23. \A c \in Cells : P3[c] = IF c = item THEN Nil ELSE P2[c]
  BY <1>11, <1>19 DEF P3
<1>24. \A c \in Cells : C1[c] = IF first /\ c = l THEN next ELSE C[c]
  BY <1>2 DEF LinksOK, C1
<1>25. Chained(N3, P3, C1, l, RemoveAt(chain, at))
  <2>1. C1[l] = IF at = 1 THEN N[item] ELSE C[l]
    BY <1>5, <1>8, <1>24
  <2>2. \A c \in Cells : c # item => N3[c] = IF at > 1 /\ c = chain[at - 1] THEN N[item] ELSE N[c]
    BY <1>4, <1>5, <1>8, <1>10, <1>20
  <2>3. ASSUME NEW c \in Cells, c # item
        PROVE  P3[c] = IF at < Len(chain) /\ c = chain[at + 1] THEN P[item]
                       ELSE IF at > 1 /\ at = Len(chain) /\ c = chain[1] THEN P[item]
                       ELSE P[c]
    <3>1. P3[c] = IF ~first /\ next = Nil /\ c = chain[1] THEN prev
                  ELSE IF next # Nil /\ c = next THEN prev ELSE P[c]
      BY <2>3, <1>21, <1>22, <1>23
    <3>2. (~first /\ next = Nil) <=> (at > 1 /\ at = k)
      BY <1>4, <1>8, <1>11
    <3>3. (next # Nil /\ c = next) <=> (at < k /\ c = chain[at + 1])
      BY <1>4, <1>9, <1>11
    <3> QED BY <3>1, <3>2, <3>3, <1>5, <1>4 DEF k
  <2>4. item = chain[at]
    BY DEF item
  <2>5. Bypassed(N, P, C, N3, P3, C1, l, chain, at)
    BY <2>1, <2>2, <2>3, <2>4 DEF Bypassed
  <2> QED BY <1>3, <2>5, DetachedLinks
<1>26. Lists!IsList(n, l, RemoveAt(chain, at))
  BY <1>18, <1>25, Removed, ListChained DEF HasLinks
<1>27. Lists!Unlinked(n, item)
  <2>1. N3[item] = Nil /\ P3[item] = Nil
    BY <1>11, <1>20, <1>23
  <2> QED BY <2>1, <1>11, <1>18, LinksType DEF HasLinks, Lists!Unlinked
<1>28. Relinks(m, n, l, Range(chain))
  <2>1. \A c \in Cells : c # l => C1[c] = C[c]
    BY <1>24
  <2>2. \A c \in Cells : c \notin Range(chain) => N3[c] = N[c] /\ P3[c] = P[c]
    BY <1>12, <1>20, <1>21, <1>22, <1>23
  <2> QED BY <1>2, <1>18, <2>1, <2>2, RelinksByLinks
<1> QED
  BY <1>1, <1>26, <1>27, <1>28 DEF item

-----------------------------------------------------------------------------

\* The links N2, P2 and C2 lead over the item before the one at this place.
Spliced(N, P, C, N2, P2, C2, l, chain, at, item) ==
  /\ \A c \in Cells :
       /\ N2[c] = IF c = item THEN chain[at]
                  ELSE IF at > 1 /\ c = chain[at - 1] THEN item ELSE N[c]
       /\ P2[c] = IF c = chain[at] THEN item
                  ELSE IF c = item THEN P[chain[at]] ELSE P[c]
  /\ C2[l] = IF at = 1 THEN item ELSE C[l]

LEMMA InsertedLinks ==
  ASSUME Nil \notin Cells, NEW N, NEW P, NEW C, NEW N2, NEW P2, NEW C2,
         NEW l \in Cells, NEW chain \in Seq(Cells), Chained(N, P, C, l, chain),
         NEW at \in 1 .. Len(chain), NEW item \in Cells, item \notin Range(chain),
         Spliced(N, P, C, N2, P2, C2, l, chain, at, item)
  PROVE  Chained(N2, P2, C2, l, InsertAt(chain, at, item))
<1> DEFINE k == Len(chain)
           new == InsertAt(chain, at, item)
           \* where an item of the longer list stood
           f(i) == IF i < at THEN i ELSE i - 1
<1>1. k \in Nat /\ k > 0 /\ at \in 1 .. k /\ Len(new) = k + 1 /\ new # <<>>
  <2>1. new \in Seq(Cells) /\ Len(new) = k + 1
    BY Inserted
  <2> HIDE DEF new
  <2> QED BY <2>1
<1>2. \A i \in 1 .. k + 1 : new[i] = IF i < at THEN chain[i] ELSE IF i = at THEN item ELSE chain[i - 1]
  BY Inserted
<1>3. \A i \in 1 .. k : chain[i] \in Cells /\ chain[i] # item
  BY DEF Range
<1>4. /\ \A i, j \in 1 .. k : chain[i] = chain[j] => i = j
      /\ C[l] = chain[1]
      /\ \A i \in 1 .. k : /\ N[chain[i]] = IF i = k THEN Nil ELSE chain[i + 1]
                           /\ P[chain[i]] = IF i = 1 THEN chain[k] ELSE chain[i - 1]
  <2> HIDE DEF new, f
  <2> QED BY <1>1 DEF Chained
<1>5. /\ \A c \in Cells :
           /\ N2[c] = IF c = item THEN chain[at]
                      ELSE IF at > 1 /\ c = chain[at - 1] THEN item ELSE N[c]
           /\ P2[c] = IF c = chain[at] THEN item
                      ELSE IF c = item THEN P[chain[at]] ELSE P[c]
      /\ C2[l] = IF at = 1 THEN item ELSE C[l]
  BY DEF Spliced
<1> HIDE DEF new, k
<1>6. \A i \in 1 .. k + 1 : i # at => f(i) \in 1 .. k /\ new[i] = chain[f(i)]
  BY <1>1, <1>2
<1>7. new[at] = item
  BY <1>1, <1>2
<1>8. \A i, j \in 1 .. k + 1 : new[i] = new[j] => i = j
  <2>1. \A i, j \in 1 .. k + 1 : i # at /\ j # at /\ f(i) = f(j) => i = j
    BY <1>1
  <2> HIDE DEF f
  <2> QED BY <2>1, <1>3, <1>4, <1>6, <1>7
<1>9. C2[l] = new[1]
  BY <1>1, <1>2, <1>4, <1>5
<1>10. ASSUME NEW i \in 1 .. k + 1
       PROVE  N2[new[i]] = IF i = k + 1 THEN Nil ELSE new[i + 1]
  <2>1. CASE i = at
    <3>1. N2[new[i]] = chain[at]
      BY <2>1, <1>5, <1>7
    <3>2. i # k + 1 /\ new[i + 1] = chain[at]
      BY <2>1, <1>1, <1>2
    <3> QED BY <3>1, <3>2
  <2>2. CASE at > 1 /\ i = at - 1
    <3>1. i \in 1 .. k /\ new[i] = chain[at - 1] /\ i # k + 1 /\ i + 1 = at
      BY <2>2, <1>1, <1>2
    <3>2. N2[new[i]] = item
      BY <3>1, <2>2, <1>3, <1>5
    <3> QED BY <3>1, <3>2, <1>7
  <2>3. CASE i # at /\ i # at - 1
    <3>1. f(i) \in 1 .. k /\ new[i] = chain[f(i)] /\ f(i) # at - 1 /\ (at > 1 => at - 1 \in 1 .. k)
      BY <2>3, <1>1, <1>6
    <3>2. N2[new[i]] = N[chain[f(i)]]
      <4> HIDE DEF f
      <4>1. chain[f(i)] \in Cells /\ chain[f(i)] # item /\ (at > 1 => chain[f(i)] # chain[at - 1])
        BY <3>1, <1>3, <1>4
      <4> QED BY <3>1, <4>1, <1>5
    <3>3. N[chain[f(i)]] = IF f(i) = k THEN Nil ELSE chain[f(i) + 1]
      <4> HIDE DEF f
      <4> QED BY <3>1, <1>4
    <3>4. f(i) = k <=> i = k + 1
      BY <2>3, <1>1
    <3>5. i # k + 1 => new[i + 1] = chain[f(i) + 1]
      BY <2>3, <1>1, <1>2
    <3> HIDE DEF f
    <3> QED BY <3>2, <3>3, <3>4, <3>5
  <2> QED BY <2>1, <2>2, <2>3, <1>1
<1>11. ASSUME NEW i \in 1 .. k + 1
       PROVE  P2[new[i]] = IF i = 1 THEN new[k + 1] ELSE new[i - 1]
  <2>1. new[k + 1] = chain[k]
    BY <1>1, <1>2
  <2>2. CASE i = at
    <3>1. P2[new[i]] = P[chain[at]]
      BY <2>2, <1>1, <1>3, <1>5, <1>7
    <3>2. P[chain[at]] = IF at = 1 THEN chain[k] ELSE chain[at - 1]
      BY <1>1, <1>4
    <3>3. at # 1 => new[i - 1] = chain[at - 1]
      BY <2>2, <1>1, <1>2
    <3> QED BY <2>1, <2>2, <3>1, <3>2, <3>3
  <2>3. CASE i = at + 1
    <3>1. new[i] = chain[at] /\ i # 1 /\ i - 1 = at
      BY <2>3, <1>1, <1>2
    <3>2. P2[new[i]] = item
      BY <3>1, <1>1, <1>3, <1>5
    <3> QED BY <3>1, <3>2, <1>7
  <2>4. CASE i # at /\ i # at + 1
    <3>1. f(i) \in 1 .. k /\ new[i] = chain[f(i)] /\ f(i) # at
      BY <2>4, <1>1, <1>6
    <3>2. P2[new[i]] = P[chain[f(i)]]
      <4> HIDE DEF f
      <4>1. chain[f(i)] \in Cells /\ chain[f(i)] # item /\ chain[f(i)] # chain[at]
        BY <3>1, <1>1, <1>3, <1>4
      <4> QED BY <3>1, <4>1, <1>5
    <3>3. P[chain[f(i)]] = IF f(i) = 1 THEN chain[k] ELSE chain[f(i) - 1]
      <4> HIDE DEF f
      <4> QED BY <3>1, <1>4
    <3>4. f(i) = 1 <=> i = 1
      BY <2>4, <1>1
    <3>5. i # 1 => new[i - 1] = chain[f(i) - 1]
      BY <2>4, <1>1, <1>2
    <3> HIDE DEF f
    <3> QED BY <2>1, <3>2, <3>3, <3>4, <3>5
  <2> QED BY <2>2, <2>3, <2>4
<1>12. Chained(N2, P2, C2, l, new)
  BY <1>1, <1>8, <1>9, <1>10, <1>11 DEF Chained
<1> QED
  BY <1>12 DEF new

\* cJSON_InsertItemInArray (cJSON.c:2259-2286): the items from this place on move down.
THEOREM ListInserts ==
  ASSUME Nil \notin Cells, NEW m \in Memory, NEW l \in Cells, NEW chain \in Seq(Cells),
         Lists!IsList(m, l, chain), NEW at \in 1 .. Len(chain),
         NEW item \in Cells, item \notin Range(chain)
  PROVE  /\ Lists!IsList(Lists!InsertBefore(m, l, chain[at], item), l, InsertAt(chain, at, item))
         /\ Relinks(m, Lists!InsertBefore(m, l, chain[at], item), l, Range(chain) \cup {item})
<1> DEFINE N == NextOf(m)
           P == PrevOf(m)
           C == ChildOf(m)
           R == RestOf(m)
           k == Len(chain)
           after == chain[at]
           prev == m.heap[after].prev
           first == after = m.heap[l].child
           N1 == [N EXCEPT ![item] = after]
           P1 == [P EXCEPT ![item] = prev]
           P2 == [P1 EXCEPT ![after] = item]
           N2 == IF first THEN N1 ELSE [N1 EXCEPT ![prev] = item]
           C2 == IF first THEN [C EXCEPT ![l] = item] ELSE C
           m1 == Lists!SetNext(m, item, after)
           m2 == Lists!SetPrev(m1, item, prev)
           linked == Lists!SetPrev(m2, after, item)
           n == IF first THEN Lists!SetChild(linked, l, item) ELSE Lists!SetNext(linked, prev, item)
<1>1. n = Lists!InsertBefore(m, l, after, item)
  BY DEF Lists!InsertBefore
<1>2. LinksOK(N, P, C) /\ HasLinks(m, N, P, C, R)
  BY LinksType
<1>3. Chained(N, P, C, l, chain)
  BY ListChained
<1>4. k \in Nat /\ k > 0 /\ at \in 1 .. k /\ DOMAIN chain = 1 .. k /\ \A i \in 1 .. k : chain[i] \in Cells
  OBVIOUS
<1>5. C[l] = m.heap[l].child /\ P[after] = prev
  BY LinksType
<1>6. /\ C[l] = after <=> at = 1
      /\ P[after] = IF at = 1 THEN chain[k] ELSE chain[at - 1]
  BY <1>3, ChainedAt
<1>7. after = chain[at]
  OBVIOUS
<1>8. first <=> at = 1
  BY <1>5, <1>6
<1> HIDE DEF N, P, C, R, k, after, prev, first
<1>9. prev = IF at = 1 THEN chain[k] ELSE chain[at - 1]
  BY <1>5, <1>6
<1>10. prev \in Cells /\ after \in Cells /\ prev \in Range(chain) /\ after \in Range(chain)
  BY <1>4, <1>7, <1>9 DEF Range
<1>11. item # after /\ item # prev
  BY <1>10
<1>12. HasLinks(m1, N1, P, C, R)
  BY <1>2, <1>10, SettingNext DEF Pointers
<1> HIDE DEF m1, N1
<1>13. HasLinks(m2, N1, P1, C, R)
  BY <1>12, <1>10, HasLinksMemory, SettingPrev DEF Pointers
<1> HIDE DEF m2, P1
<1>14. HasLinks(linked, N1, P2, C, R)
  BY <1>13, <1>10, HasLinksMemory, SettingPrev DEF Pointers
<1> HIDE DEF linked, P2
<1>15. HasLinks(n, N2, P2, C2, R)
  <2>1. HasLinks(Lists!SetChild(linked, l, item), N1, P2, [C EXCEPT ![l] = item], R)
    BY <1>14, HasLinksMemory, SettingChild DEF Pointers
  <2>2. HasLinks(Lists!SetNext(linked, prev, item), [N1 EXCEPT ![prev] = item], P2, C, R)
    BY <1>14, <1>10, HasLinksMemory, SettingNext DEF Pointers
  <2> QED BY <2>1, <2>2
<1> HIDE DEF n, N2, C2
<1>16. N1 \in [Cells -> Pointers] /\ P1 \in [Cells -> Pointers]
  BY <1>2, <1>10 DEF LinksOK, N1, P1, Pointers
<1>17. \A c \in Cells : N2[c] = IF c = item THEN after ELSE IF ~first /\ c = prev THEN item ELSE N[c]
  BY <1>2, <1>10, <1>11, <1>16 DEF LinksOK, N1, N2
<1>18. \A c \in Cells : P2[c] = IF c = after THEN item ELSE IF c = item THEN prev ELSE P[c]
  BY <1>2, <1>10, <1>11, <1>16 DEF LinksOK, P1, P2
<1>19. \A c \in Cells : C2[c] = IF first /\ c = l THEN item ELSE C[c]
  BY <1>2 DEF LinksOK, C2
<1>20. Chained(N2, P2, C2, l, InsertAt(chain, at, item))
  <2>1. Spliced(N, P, C, N2, P2, C2, l, chain, at, item)
    BY <1>4, <1>5, <1>7, <1>8, <1>9, <1>17, <1>18, <1>19 DEF Spliced
  <2> QED BY <1>3, <2>1, InsertedLinks
<1>21. Lists!IsList(n, l, InsertAt(chain, at, item))
  BY <1>15, <1>20, Inserted, ListChained DEF HasLinks
<1>22. Relinks(m, n, l, Range(chain) \cup {item})
  <2>1. \A c \in Cells : c # l => C2[c] = C[c]
    BY <1>19
  <2>2. \A c \in Cells : c \notin Range(chain) \cup {item} => N2[c] = N[c] /\ P2[c] = P[c]
    BY <1>10, <1>17, <1>18
  <2> QED BY <1>2, <1>15, <2>1, <2>2, RelinksByLinks
<1> QED
  BY <1>1, <1>21, <1>22 DEF after

-----------------------------------------------------------------------------

\* The links N2, P2 and C2 lead over the new item in place of the one at this place.
Swapped(N, P, C, N2, P2, C2, l, chain, at, new) ==
  /\ \A c \in Cells : c # chain[at] =>
       /\ N2[c] = IF c = new THEN N[chain[at]]
                  ELSE IF at > 1 /\ c = chain[at - 1] THEN new ELSE N[c]
       /\ P2[c] = IF c = new THEN IF Len(chain) = 1 THEN new ELSE P[chain[at]]
                  ELSE IF at < Len(chain) /\ c = chain[at + 1] THEN new
                  ELSE IF at > 1 /\ at = Len(chain) /\ c = chain[1] THEN new
                  ELSE P[c]
  /\ C2[l] = IF at = 1 THEN new ELSE C[l]

LEMMA SwappedLinks ==
  ASSUME Nil \notin Cells, NEW N, NEW P, NEW C, NEW N2, NEW P2, NEW C2,
         NEW l \in Cells, NEW chain \in Seq(Cells), Chained(N, P, C, l, chain),
         NEW at \in 1 .. Len(chain), NEW new \in Cells, new \notin Range(chain),
         Swapped(N, P, C, N2, P2, C2, l, chain, at, new)
  PROVE  Chained(N2, P2, C2, l, [chain EXCEPT ![at] = new])
<1> DEFINE k == Len(chain)
           item == chain[at]
           s == [chain EXCEPT ![at] = new]
<1>1. k \in Nat /\ k > 0 /\ at \in 1 .. k /\ Len(s) = k /\ s # <<>>
  <2>1. s \in Seq(Cells) /\ Len(s) = k
    OBVIOUS
  <2> HIDE DEF s
  <2> QED BY <2>1
<1>2. \A i \in 1 .. k : s[i] = IF i = at THEN new ELSE chain[i]
  OBVIOUS
<1>3. \A i \in 1 .. k : chain[i] \in Cells /\ chain[i] # new
  BY DEF Range
<1>4. /\ \A i, j \in 1 .. k : chain[i] = chain[j] => i = j
      /\ C[l] = chain[1]
      /\ \A i \in 1 .. k : /\ N[chain[i]] = IF i = k THEN Nil ELSE chain[i + 1]
                           /\ P[chain[i]] = IF i = 1 THEN chain[k] ELSE chain[i - 1]
  <2> HIDE DEF s
  <2> QED BY <1>1 DEF Chained
<1>5. /\ \A c \in Cells : c # item =>
           /\ N2[c] = IF c = new THEN N[item]
                      ELSE IF at > 1 /\ c = chain[at - 1] THEN new ELSE N[c]
           /\ P2[c] = IF c = new THEN IF k = 1 THEN new ELSE P[item]
                      ELSE IF at < k /\ c = chain[at + 1] THEN new
                      ELSE IF at > 1 /\ at = k /\ c = chain[1] THEN new
                      ELSE P[c]
      /\ C2[l] = IF at = 1 THEN new ELSE C[l]
      /\ item = chain[at]
  BY DEF Swapped
<1> HIDE DEF s, k, item
<1>6. ASSUME NEW i \in 1 .. k, NEW j \in 1 .. k, s[i] = s[j] PROVE i = j
  <2>1. (i = at <=> s[i] = new) /\ (j = at <=> s[j] = new)
    BY <1>2, <1>3
  <2>2. CASE i = at
    BY <1>6, <2>1, <2>2
  <2>3. CASE i # at
    <3>1. chain[i] = chain[j]
      BY <1>2, <1>6, <2>1, <2>3
    <3> QED BY <3>1, <1>4
  <2> QED BY <2>2, <2>3
<1>7. C2[l] = s[1]
  BY <1>1, <1>2, <1>4, <1>5
<1>8. ASSUME NEW i \in 1 .. k
      PROVE  N2[s[i]] = IF i = k THEN Nil ELSE s[i + 1]
  <2>1. CASE i = at
    <3>1. N2[s[i]] = N[item]
      BY <2>1, <1>1, <1>2, <1>3, <1>5
    <3>2. N[item] = IF at = k THEN Nil ELSE chain[at + 1]
      BY <1>1, <1>4, <1>5
    <3>3. i # k => s[i + 1] = chain[at + 1]
      BY <2>1, <1>1, <1>2
    <3> QED BY <2>1, <3>1, <3>2, <3>3
  <2>2. CASE i = at - 1
    <3>1. s[i] = chain[i] /\ at > 1 /\ i # k /\ s[i + 1] = new
      BY <2>2, <1>1, <1>2
    <3>2. chain[i] # item /\ chain[i] # new /\ chain[i] \in Cells
      BY <2>2, <1>1, <1>3, <1>4, <1>5
    <3> QED BY <2>2, <3>1, <3>2, <1>5
  <2>3. CASE i # at /\ i # at - 1
    <3>1. s[i] = chain[i] /\ (i # k => s[i + 1] = chain[i + 1]) /\ (at > 1 => at - 1 \in 1 .. k)
      BY <2>3, <1>1, <1>2
    <3>2. chain[i] # item /\ chain[i] # new /\ chain[i] \in Cells /\ (at > 1 => chain[i] # chain[at - 1])
      BY <2>3, <3>1, <1>1, <1>3, <1>4, <1>5
    <3>3. N2[chain[i]] = N[chain[i]]
      BY <3>2, <1>5
    <3> QED BY <3>1, <3>3, <1>4
  <2> QED BY <2>1, <2>2, <2>3
<1>9. ASSUME NEW i \in 1 .. k
      PROVE  P2[s[i]] = IF i = 1 THEN s[k] ELSE s[i - 1]
  <2>1. s[k] = IF at = k THEN new ELSE chain[k]
    BY <1>1, <1>2
  <2>2. CASE i = at
    <3>1. P2[s[i]] = IF k = 1 THEN new ELSE P[item]
      BY <2>2, <1>1, <1>2, <1>3, <1>5
    <3>2. P[item] = IF at = 1 THEN chain[k] ELSE chain[at - 1]
      BY <1>1, <1>4, <1>5
    <3>3. i # 1 => s[i - 1] = chain[at - 1] /\ k # 1
      BY <2>2, <1>1, <1>2
    <3> QED BY <2>1, <2>2, <3>1, <3>2, <3>3, <1>1
  <2>3. CASE i # at
    <3>1. s[i] = chain[i] /\ chain[i] \in Cells /\ chain[i] # item /\ chain[i] # new
      BY <2>3, <1>1, <1>2, <1>3, <1>4, <1>5
    <3>2. (at < k /\ chain[i] = chain[at + 1]) <=> i = at + 1
      BY <1>1, <1>4
    <3>3. (at > 1 /\ at = k /\ chain[i] = chain[1]) <=> (at = k /\ i = 1)
      BY <2>3, <1>1, <1>4
    <3>4. P2[s[i]] = IF i = at + 1 THEN new ELSE IF at = k /\ i = 1 THEN new ELSE P[chain[i]]
      BY <3>1, <3>2, <3>3, <1>5
    <3>5. P[chain[i]] = IF i = 1 THEN chain[k] ELSE chain[i - 1]
      BY <1>4
    <3>6. i # 1 => s[i - 1] = IF i = at + 1 THEN new ELSE chain[i - 1]
      BY <2>3, <1>1, <1>2
    <3>7. i = 1 => i # at + 1
      BY <1>1
    <3> QED BY <2>1, <3>4, <3>5, <3>6, <3>7
  <2> QED BY <2>2, <2>3
<1>10. Chained(N2, P2, C2, l, s)
  BY <1>1, <1>6, <1>7, <1>8, <1>9 DEF Chained
<1> QED
  BY <1>10 DEF s

\* cJSON_ReplaceItemViaPointer (cJSON.c:2288-2335): another item stands in the place of
\* one, which is linked to nothing when cJSON_Delete frees it, so that the deletion goes
\* along no list.
THEOREM ListReplaces ==
  ASSUME Nil \notin Cells, NEW m \in Memory, NEW l \in Cells, NEW chain \in Seq(Cells),
         Lists!IsList(m, l, chain), NEW at \in 1 .. Len(chain),
         NEW new \in Cells, new \notin Range(chain)
  PROVE  /\ Lists!IsList(Lists!PutInPlace(m, l, chain[at], new), l, [chain EXCEPT ![at] = new])
         /\ Lists!Unlinked(Lists!PutInPlace(m, l, chain[at], new), chain[at])
         /\ Relinks(m, Lists!PutInPlace(m, l, chain[at], new), l, Range(chain) \cup {new})
<1> DEFINE N == NextOf(m)
           P == PrevOf(m)
           C == ChildOf(m)
           R == RestOf(m)
           k == Len(chain)
           item == chain[at]
           next == m.heap[item].next
           prev == m.heap[item].prev
           first == m.heap[l].child
           head == first = item
           N1 == [N EXCEPT ![new] = next]
           P1 == [P EXCEPT ![new] = prev]
           P2 == IF next = Nil THEN P1 ELSE [P1 EXCEPT ![next] = new]
           P3 == IF head THEN IF k = 1 THEN [P2 EXCEPT ![new] = new] ELSE P2
                 ELSE IF next = Nil THEN [P2 EXCEPT ![first] = new] ELSE P2
           N2 == IF head THEN N1 ELSE [N1 EXCEPT ![prev] = new]
           C2 == IF head THEN [C EXCEPT ![l] = new] ELSE C
           N3 == [N2 EXCEPT ![item] = Nil]
           P4 == [P3 EXCEPT ![item] = Nil]
           m1 == Lists!SetNext(m, new, next)
           copied == Lists!SetPrev(m1, new, prev)
           back == IF next = Nil THEN copied ELSE Lists!SetPrev(copied, next, new)
           alone == back.heap[first].prev = first
           self == IF alone THEN Lists!SetPrev(back, new, new) ELSE back
           front == IF prev = Nil THEN back ELSE Lists!SetNext(back, prev, new)
           linked == IF head THEN Lists!SetChild(self, l, new)
                     ELSE IF next = Nil THEN Lists!SetPrev(front, first, new)
                     ELSE front
           gone == Lists!SetNext(linked, item, Nil)
           n == Lists!SetPrev(gone, item, Nil)
<1>1. n = Lists!PutInPlace(m, l, item, new)
  BY DEF Lists!PutInPlace
<1>2. LinksOK(N, P, C) /\ HasLinks(m, N, P, C, R)
  BY LinksType
<1>3. Chained(N, P, C, l, chain)
  BY ListChained
<1>4. k \in Nat /\ k > 0 /\ at \in 1 .. k /\ DOMAIN chain = 1 .. k /\ \A i \in 1 .. k : chain[i] \in Cells
  OBVIOUS
<1>5. C[l] = first /\ N[item] = next /\ P[item] = prev
  BY LinksType
<1>6. /\ C[l] = chain[1] /\ (C[l] = item <=> at = 1)
      /\ N[item] = IF at = k THEN Nil ELSE chain[at + 1]
      /\ P[item] = IF at = 1 THEN chain[k] ELSE chain[at - 1]
  BY <1>3, ChainedAt
<1>7. \A i, j \in 1 .. k : chain[i] = chain[j] => i = j
  BY <1>3 DEF Chained
<1>8. item = chain[at] /\ (head <=> first = item)
  OBVIOUS
<1> HIDE DEF N, P, C, R, k, item, prev, next, first, head
<1>9. next = IF at = k THEN Nil ELSE chain[at + 1]
  BY <1>5, <1>6
<1>10. prev = IF at = 1 THEN chain[k] ELSE chain[at - 1]
  BY <1>5, <1>6
<1>11. first = chain[1] /\ (head <=> at = 1)
  BY <1>5, <1>6, <1>8
<1>12. /\ next \in Pointers /\ prev \in Cells /\ item \in Cells /\ first \in Cells
       /\ next = Nil <=> at = k
       /\ prev # Nil
  BY <1>4, <1>8, <1>9, <1>10, <1>11 DEF Pointers
<1>13. /\ prev \in Range(chain) /\ item \in Range(chain) /\ first \in Range(chain)
       /\ next # Nil => next \in Range(chain)
  BY <1>4, <1>8, <1>9, <1>10, <1>11 DEF Range
<1>14. new # item /\ new # prev /\ new # first /\ new # next
  BY <1>12, <1>13
<1>15. HasLinks(m1, N1, P, C, R)
  BY <1>2, <1>12, SettingNext
<1> HIDE DEF m1, N1
<1>16. HasLinks(copied, N1, P1, C, R)
  BY <1>15, <1>12, HasLinksMemory, SettingPrev DEF Pointers
<1> HIDE DEF copied, P1
<1>17. HasLinks(back, N1, P2, C, R)
  <2>1. next # Nil => HasLinks(Lists!SetPrev(copied, next, new), N1, [P1 EXCEPT ![next] = new], C, R)
    BY <1>16, <1>12, HasLinksMemory, SettingPrev DEF Pointers
  <2> QED BY <1>16, <2>1
<1> HIDE DEF back, P2
<1>18. N1 \in [Cells -> Pointers] /\ P1 \in [Cells -> Pointers] /\ P2 \in [Cells -> Pointers]
  <2>1. N1 \in [Cells -> Pointers] /\ P1 \in [Cells -> Pointers]
    BY <1>2, <1>12 DEF LinksOK, N1, P1, Pointers
  <2>2. P2 \in [Cells -> Pointers]
    BY <2>1, <1>12 DEF P2, Pointers
  <2> QED BY <2>1, <2>2
<1>19. \A c \in Cells : P2[c] = IF next # Nil /\ c = next THEN new ELSE IF c = new THEN prev ELSE P[c]
  BY <1>2, <1>12, <1>14, <1>18 DEF LinksOK, P1, P2
\* Only of a single item is the first one's prev the item itself.
<1>20. head => (alone <=> k = 1)
  <2> SUFFICES ASSUME head PROVE alone <=> k = 1
    OBVIOUS
  <2>1. back.heap[first].prev = P2[first]
    BY <1>12, <1>17, LinksType DEF HasLinks
  <2>2. first = item /\ at = 1
    BY <1>8, <1>11
  <2>3. next # Nil => next # item
    BY <1>4, <1>7, <1>8, <1>9, <1>12
  <2>4. P2[first] = prev
    BY <1>5, <1>12, <1>14, <1>19, <2>2, <2>3
  <2>5. prev = first <=> k = 1
    BY <1>4, <1>7, <1>8, <1>10, <2>2
  <2> QED BY <2>1, <2>4, <2>5
<1> HIDE DEF alone
<1>21. head => HasLinks(self, N1, P3, C, R)
  <2>1. HasLinks(Lists!SetPrev(back, new, new), N1, [P2 EXCEPT ![new] = new], C, R)
    BY <1>17, HasLinksMemory, SettingPrev DEF Pointers
  <2> QED BY <1>17, <1>20, <2>1
<1>22. ~head => HasLinks(front, N2, P2, C, R)
  <2>1. HasLinks(Lists!SetNext(back, prev, new), [N1 EXCEPT ![prev] = new], P2, C, R)
    BY <1>17, <1>12, HasLinksMemory, SettingNext DEF Pointers
  <2> QED BY <1>12, <2>1
<1> HIDE DEF self, front
<1>23. HasLinks(linked, N2, P3, C2, R)
  <2>1. head => HasLinks(Lists!SetChild(self, l, new), N1, P3, [C EXCEPT ![l] = new], R)
    <3> HIDE DEF P3
    <3> QED BY <1>21, HasLinksMemory, SettingChild DEF Pointers
  <2>2. ~head => HasLinks(Lists!SetPrev(front, first, new), N2, [P2 EXCEPT ![first] = new], C, R)
    <3> HIDE DEF N2
    <3> QED BY <1>22, <1>12, HasLinksMemory, SettingPrev DEF Pointers
  <2>3. CASE head
    BY <2>1, <2>3
  <2>4. CASE ~head
    BY <2>2, <2>4, <1>22
  <2> QED BY <2>3, <2>4
<1> HIDE DEF linked, N2, P3, C2
<1>24. HasLinks(gone, N3, P3, C2, R)
  BY <1>23, <1>12, HasLinksMemory, SettingNext DEF Pointers
<1> HIDE DEF gone, N3
<1>25. HasLinks(n, N3, P4, C2, R)
  BY <1>24, <1>12, HasLinksMemory, SettingPrev DEF Pointers
<1> HIDE DEF n, P4
<1>26. N2 \in [Cells -> Pointers] /\ P3 \in [Cells -> Pointers]
  <2>1. N2 \in [Cells -> Pointers]
    BY <1>12, <1>18 DEF N2, Pointers
  <2>2. P3 \in [Cells -> Pointers]
    BY <1>12, <1>18 DEF P3, Pointers
  <2> QED BY <2>1, <2>2
<1>27. \A c \in Cells : N3[c] = IF c = item THEN Nil ELSE IF c = new THEN next
                              ELSE IF ~head /\ c = prev THEN new ELSE N[c]
  <2>1. \A c \in Cells : N1[c] = IF c = new THEN next ELSE N[c]
    BY <1>2 DEF LinksOK, N1
  <2>2. \A c \in Cells : N2[c] = IF ~head /\ c = prev THEN new ELSE N1[c]
    BY <1>18 DEF N2
  <2>3. \A c \in Cells : N3[c] = IF c = item THEN Nil ELSE N2[c]
    BY <1>26 DEF N3
  <2> QED BY <1>14, <2>1, <2>2, <2>3
<1>28. \A c \in Cells : P4[c] = IF c = item THEN Nil ELSE P3[c]
  BY <1>26 DEF P4
<1>29. \A c \in Cells : P3[c] = IF head /\ k = 1 /\ c = new THEN new
                              ELSE IF ~head /\ next = Nil /\ c = first THEN new ELSE P2[c]
  BY <1>18 DEF P3
<1>30. \A c \in Cells : C2[c] = IF head /\ c = l THEN new ELSE C[c]
  BY <1>2 DEF LinksOK, C2
<1>31. Chained(N3, P4, C2, l, [chain EXCEPT ![at] = new])
  <2>1. C2[l] = IF at = 1 THEN new ELSE C[l]
    BY <1>11, <1>30
  <2>2. ASSUME NEW c \in Cells, c # item
        PROVE  N3[c] = IF c = new THEN N[item]
                       ELSE IF at > 1 /\ c = chain[at - 1] THEN new ELSE N[c]
    BY <2>2, <1>4, <1>5, <1>10, <1>11, <1>27
  <2>3. ASSUME NEW c \in Cells, c # item
        PROVE  P4[c] = IF c = new THEN IF k = 1 THEN new ELSE P[item]
                       ELSE IF at < k /\ c = chain[at + 1] THEN new
                       ELSE IF at > 1 /\ at = k /\ c = chain[1] THEN new
                       ELSE P[c]
    <3>1. P4[c] = IF head /\ k = 1 /\ c = new THEN new
                  ELSE IF ~head /\ next = Nil /\ c = first THEN new
                  ELSE IF next # Nil /\ c = next THEN new
                  ELSE IF c = new THEN prev ELSE P[c]
      BY <2>3, <1>19, <1>28, <1>29
    <3>2. (~head /\ next = Nil /\ c = first) <=> (at > 1 /\ at = k /\ c = chain[1])
      BY <1>4, <1>11, <1>12
    <3>3. (next # Nil /\ c = next) <=> (at < k /\ c = chain[at + 1])
      BY <1>4, <1>9, <1>12
    <3>4. k = 1 => head
      BY <1>4, <1>11
    <3>5. CASE c = new
      BY <3>1, <3>4, <3>5, <1>5, <1>14
    <3>6. CASE c # new
      BY <3>1, <3>2, <3>3, <3>6
    <3> QED BY <3>5, <3>6
  <2>4. Swapped(N, P, C, N3, P4, C2, l, chain, at, new)
    BY <2>1, <2>2, <2>3, <1>8 DEF Swapped, k
  <2> QED BY <1>3, <2>4, SwappedLinks
<1>32. Lists!IsList(n, l, [chain EXCEPT ![at] = new])
  <2>1. [chain EXCEPT ![at] = new] \in Seq(Cells)
    OBVIOUS
  <2> QED BY <1>25, <1>31, <2>1, ListChained DEF HasLinks
<1>33. Lists!Unlinked(n, item)
  <2>1. N3[item] = Nil /\ P4[item] = Nil
    BY <1>12, <1>27, <1>28
  <2> QED BY <2>1, <1>12, <1>25, LinksType DEF HasLinks, Lists!Unlinked
<1>34. Relinks(m, n, l, Range(chain) \cup {new})
  <2>1. \A c \in Cells : c # l => C2[c] = C[c]
    BY <1>30
  <2>2. \A c \in Cells : c \notin Range(chain) \cup {new} => N3[c] = N[c] /\ P4[c] = P[c]
    BY <1>13, <1>19, <1>27, <1>28, <1>29
  <2> QED BY <1>2, <1>25, <2>1, <2>2, RelinksByLinks
<1> QED
  BY <1>1, <1>32, <1>33, <1>34 DEF item

=============================================================================

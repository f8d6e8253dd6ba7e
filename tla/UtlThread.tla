----------------------------- MODULE UtlThread -----------------------------
(***************************************************************************)
(* Threads (Util/src/Utl_thread.cpp): how they are created and joined, and   *)
(* how a priority of UTL becomes one of the system and back.  A thread that   *)
(* is created to inherit gets its creator's priority through both maps.      *)
(***************************************************************************)
EXTENDS Integers, Sequences

CONSTANTS
  Native,     \* bound: the real-time priorities a process may be started with
  Asked,      \* bound: the priorities of UTL that are asked for, out of range too
  MaxThreads  \* bound: on the threads of a process

\* Linux has no other real-time priorities.
ThreadAssumption == Native \subseteq 1..99 /\ Asked \subseteq Int

VARIABLES
  threads,  \* [sched, creator, prio, system, handle]: prio is what was asked for, system
            \* what the system holds of the thread, handle what is in the caller's handle
  outcome   \* what the last call returned

vars == <<threads, outcome>>

PrioMin == 0
PrioMax == 9
PthreadPrioMin == 1
PthreadPrioMax == 99

\* UTLTHREAD_PRIO_INHERIT; VPL_ERR_INVALID is no priority either
Inherit == -1
ErrInvalid == -9007

\* What pthread_getschedparam tells: a policy and a priority, 0 unless it is real-time.
Scheds ==
  {[policy |-> policy, prio |-> 0] : policy \in {"other", "batch"}}
    \union {[policy |-> "rr", prio |-> prio] : prio \in Native}

\* A thread that may be joined runs, ends and is joined; a detached one runs and is gone.
Thread(sched, creator, prio, system, handle) ==
  [sched |-> sched, creator |-> creator, prio |-> prio, system |-> system, handle |-> handle]

Running(t) == threads[t].system \in {"joinable", "detached"}

NoOutcome == [call |-> "none", self |-> 0, about |-> 0, rv |-> "ok"]

\* The process is its first thread.
Init ==
  /\ \E sched \in Scheds : threads = <<Thread(sched, 0, Inherit, "detached", 0)>>
  /\ outcome = NoOutcome

-----------------------------------------------------------------------------
(***************************************************************************)
(* Priorities                                                              *)
(***************************************************************************)

PrioMapHelper(prio) ==
  PthreadPrioMin + ((prio - PrioMin) * (PthreadPrioMax - PthreadPrioMin)) \div (PrioMax - PrioMin)

MapPrioToNativePrio(prio) ==
  IF prio = PrioMin THEN [policy |-> "other", prio |-> 0]
  ELSE [policy |-> "rr",
        prio |-> IF prio \in PrioMin .. PrioMax THEN PrioMapHelper(prio) ELSE Inherit]

NativeToUTLPrioMapHelper_Up(prio) ==  \* Mutant: rounds up
  IF prio \notin PthreadPrioMin .. PthreadPrioMax THEN ErrInvalid
  ELSE PrioMin - ((PthreadPrioMin - prio) * (PrioMax - PrioMin))
                   \div (PthreadPrioMax - PthreadPrioMin)

NativeToUTLPrioMapHelper(prio) ==
  IF prio \notin PthreadPrioMin .. PthreadPrioMax THEN ErrInvalid
  ELSE PrioMin + ((prio - PthreadPrioMin) * (PrioMax - PrioMin))
                   \div (PthreadPrioMax - PthreadPrioMin)

\* pthread_getschedparam tells 0 for every policy that is not real-time.
GetSchedPriority(sched) ==
  IF sched = [policy |-> "other", prio |-> 0] THEN PrioMin
  ELSE NativeToUTLPrioMapHelper(sched.prio)

OfPolicy(sched) ==
  IF sched.policy = "rr" THEN sched.prio \in PthreadPrioMin .. PthreadPrioMax ELSE sched.prio = 0

-----------------------------------------------------------------------------
(***************************************************************************)
(* Calls                                                                   *)
(***************************************************************************)

Returns(call, self, about, rv) == outcome' = [call |-> call, self |-> self, about |-> about, rv |-> rv]

\* Mutant: a priority that is not set is the lowest of the policy.
AttrsSet_Lowest(self, attrs) ==
  IF OfPolicy(attrs) THEN attrs ELSE [attrs EXCEPT !.prio = PthreadPrioMin]

\* pthread_attr_setschedparam sets no priority that is not one of the policy, and its
\* result is ignored.  The system takes what is not set from the thread that creates.
AttrsSet(self, attrs) ==
  IF OfPolicy(attrs) THEN attrs ELSE [attrs EXCEPT !.prio = threads[self].sched.prio]

MappedAttrs(self, prio) ==
  AttrsSet(self, MapPrioToNativePrio(IF prio = Inherit THEN GetSchedPriority(threads[self].sched)
                                     ELSE prio))

\* A thread that is not detached needs a handle.  The system may refuse any thread, and
\* creates none with a priority that is not one of its policy.
Create(self, prio, detached, handle, refused) ==
  /\ Running(self) /\ Len(threads) < MaxThreads
  /\ IF ~handle /\ ~detached
     THEN UNCHANGED threads /\ Returns("create", self, 0, "invalid")
     ELSE IF refused \/ ~OfPolicy(MappedAttrs(self, prio))
     THEN UNCHANGED threads /\ Returns("create", self, prio, IF refused THEN "refused" ELSE "error")
     ELSE /\ threads' = Append(threads, Thread(MappedAttrs(self, prio), self, prio,
                                               IF detached THEN "detached" ELSE "joinable",
                                               IF detached THEN 0 ELSE Len(threads) + 1))
          /\ Returns("create", self, prio, "ok")

\* pthread_join waits for the thread to end.  A handle is joined by one thread at a time.
Join_Keeps(self, t) ==  \* Mutant: the handle is not reset
  /\ Running(self)
  /\ \/ threads[t].handle = 0 /\ UNCHANGED threads /\ Returns("join", self, t, "already")
     \/ threads[t].handle = self /\ UNCHANGED threads /\ Returns("join", self, t, "deadlock")
     \/ /\ threads[t].handle \notin {0, self} /\ threads[t].system = "ended"
        /\ threads' = [threads EXCEPT ![t].system = "joined"]
        /\ Returns("join", self, t, "ok")

Join(self, t) ==
  /\ Running(self)
  /\ \/ threads[t].handle = 0 /\ UNCHANGED threads /\ Returns("join", self, t, "already")
     \/ threads[t].handle = self /\ UNCHANGED threads /\ Returns("join", self, t, "deadlock")
     \/ /\ threads[t].handle \notin {0, self} /\ threads[t].system = "ended"
        /\ threads' = [threads EXCEPT ![t].system = "joined", ![t].handle = 0]
        /\ Returns("join", self, t, "ok")

Ends(self) ==
  /\ Running(self) /\ self # 1
  /\ threads' = [threads EXCEPT ![self].system = IF @ = "joinable" THEN "ended" ELSE "gone"]
  /\ UNCHANGED outcome

Next ==
  \/ \E self \in DOMAIN threads :
       \/ \E prio \in Asked, detached, handle, refused \in BOOLEAN :
            Create(self, prio, detached, handle, refused)
       \/ \E t \in DOMAIN threads : Join(self, t)
       \/ Ends(self)

-----------------------------------------------------------------------------
(***************************************************************************)
(* Properties                                                              *)
(***************************************************************************)

Level(t) == GetSchedPriority(threads[t].sched)

\* What inherits comes out no higher than its creator, and one level of UTL lower at most;
\* ordinary threads have ordinary ones.
InheritedNotRaised ==
  \A t \in DOMAIN threads : threads[t].creator # 0 /\ threads[t].prio = Inherit =>
    LET from == threads[t].creator
    IN  /\ Level(t) \in {Level(from) - 1, Level(from)}
        /\ threads[t].sched.prio <= threads[from].sched.prio
        /\ threads[from].sched.policy = "other" => threads[t].sched = threads[from].sched

\* A thread that was asked to have a priority of UTL finds it or the next lower; one that
\* was asked to have another has its creator's own, and only from a real-time creator.
AskedGiven ==
  \A t \in DOMAIN threads : threads[t].creator # 0 /\ threads[t].prio # Inherit =>
    IF threads[t].prio \in PrioMin .. PrioMax THEN Level(t) \in {threads[t].prio - 1, threads[t].prio}
    ELSE threads[t].sched.policy = "rr" /\ threads[t].sched = threads[threads[t].creator].sched

\* A handle names a thread the system still holds for a join; the others are 0.
HandlesJoinable ==
  \A t \in DOMAIN threads :
    threads[t].handle = IF threads[t].system \in {"joinable", "ended"} THEN t ELSE 0

\* For its priority no thread fails that asks for one of UTL or whose creator is
\* real-time, and none that inherits from a thread of a policy UTL knows.
FailsForPriority ==
  outcome.call = "create" /\ outcome.rv = "error" =>
    /\ outcome.about \notin PrioMin .. PrioMax
    /\ threads[outcome.self].sched.policy # "rr"
    /\ outcome.about = Inherit => threads[outcome.self].sched.policy # "other"

\* Threads have the priority they inherit or are asked to have, as far as ten levels
\* go, or their creator's where they ask for one there is not, and handles name the
\* threads that may be joined (Utl_thread.cpp:112-145, 188-298).
ThreadsRight == InheritedNotRaised /\ AskedGiven /\ HandlesJoinable /\ FailsForPriority

Spec == Init /\ [][Next]_vars
=============================================================================

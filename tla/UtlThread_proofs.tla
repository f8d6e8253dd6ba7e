--------------------------- MODULE UtlThread_proofs ---------------------------
(***************************************************************************)
(* What holds of UtlThread whatever priorities the process is started with  *)
(* and its threads ask for, and however many there are.                     *)
(***************************************************************************)
EXTENDS UtlThread, TLAPS

Known   == {[policy |-> "other", prio |-> 0]} \cup {[policy |-> "rr", prio |-> n] : n \in 1..99}
Unknown == [policy |-> "batch", prio |-> 0]

Systems == {"joinable", "detached", "ended", "joined", "gone"}

\* What is known of the thread at place t of f.
ThreadOK(f, t) ==
  /\ f[t] \in [sched : Known \cup {Unknown}, creator : 0..(t - 1), prio : Int, system : Systems, handle : Nat]
  /\ f[t].creator # 0 => f[t].sched \in Known

TypeInv ==
  /\ threads \in Seq([sched : Known \cup {Unknown}, creator : Nat, prio : Int, system : Systems, handle : Nat])
  /\ \A t \in DOMAIN threads : ThreadOK(threads, t)

\* The thread a failed call is told of is there.
OutcomeInv == outcome.call = "create" => outcome.self \in DOMAIN threads

IInv == TypeInv /\ OutcomeInv /\ ThreadsRight

-----------------------------------------------------------------------------
(***************************************************************************)
(* The two maps of priorities                                              *)
(***************************************************************************)

LEMMA UpThenDown ==
  ASSUME NEW p \in 1..9
  PROVE  /\ PrioMapHelper(p) \in 1..99
         /\ NativeToUTLPrioMapHelper(PrioMapHelper(p)) \in {p - 1, p}
BY DEF PrioMapHelper, NativeToUTLPrioMapHelper, PrioMin, PrioMax, PthreadPrioMin, PthreadPrioMax

LEMMA DownThenUp ==
  ASSUME NEW n \in 1..99
  PROVE  /\ NativeToUTLPrioMapHelper(n) \in 0..9
         /\ NativeToUTLPrioMapHelper(n) # 0 => PrioMapHelper(NativeToUTLPrioMapHelper(n)) <= n
BY DEF PrioMapHelper, NativeToUTLPrioMapHelper, PrioMin, PrioMax, PthreadPrioMin, PthreadPrioMax

\* A priority of UTL is one of a policy of the system, and a thread that has it finds it
\* or the next lower.
LEMMA AskedMapped ==
  ASSUME NEW p \in Int, p \in 0..9
  PROVE  /\ OfPolicy(MapPrioToNativePrio(p)) /\ MapPrioToNativePrio(p) \in Known
         /\ GetSchedPriority(MapPrioToNativePrio(p)) \in {p - 1, p}
<1> DEFINE new == MapPrioToNativePrio(p)
<1>1. CASE p = 0
  BY <1>1 DEF MapPrioToNativePrio, GetSchedPriority, Known, PrioMin, OfPolicy
<1>2. CASE p \in 1..9
  <2>1. new = [policy |-> "rr", prio |-> PrioMapHelper(p)]
    BY <1>2 DEF MapPrioToNativePrio, PrioMin, PrioMax
  <2>2. GetSchedPriority(new) = NativeToUTLPrioMapHelper(PrioMapHelper(p))
    BY <2>1 DEF GetSchedPriority
  <2>3. OfPolicy(new)
    BY <1>2, <2>1, UpThenDown DEF OfPolicy, PthreadPrioMin, PthreadPrioMax
  <2> QED
    BY <1>2, <2>1, <2>2, <2>3, UpThenDown DEF Known
<1> QED
  BY <1>1, <1>2

\* Any other is one of no policy.
LEMMA OthersMapped ==
  ASSUME NEW p \in Int, p \notin 0..9
  PROVE  MapPrioToNativePrio(p) = [policy |-> "rr", prio |-> -1]
BY DEF MapPrioToNativePrio, PrioMin, PrioMax, Inherit

\* The system then takes the priority of the thread that creates, if that is real-time.
LEMMA OthersSet ==
  ASSUME NEW self, threads[self].sched \in Known \cup {Unknown},
         NEW attrs, attrs = AttrsSet(self, [policy |-> "rr", prio |-> -1])
  PROVE  IF threads[self].sched.policy = "rr" THEN attrs = threads[self].sched /\ OfPolicy(attrs)
         ELSE ~OfPolicy(attrs)
<1> DEFINE s == threads[self].sched
<1>1. attrs = [policy |-> "rr", prio |-> s.prio]
  BY DEF AttrsSet, OfPolicy, PthreadPrioMin, PthreadPrioMax
<1>2. CASE s \in {Unknown, [policy |-> "other", prio |-> 0]}
  <2>1. s.prio = 0 /\ s.policy # "rr"
    BY <1>2 DEF Unknown
  <2> HIDE DEF s
  <2>2. ~OfPolicy(attrs)
    BY <1>1, <2>1 DEF OfPolicy, PthreadPrioMin, PthreadPrioMax
  <2> QED
    BY <2>1, <2>2 DEF s
<1>3. ASSUME NEW n \in 1..99, s = [policy |-> "rr", prio |-> n]
      PROVE  s.policy = "rr" /\ attrs = s /\ OfPolicy(attrs)
  BY <1>1, <1>3 DEF OfPolicy, PthreadPrioMin, PthreadPrioMax
<1>4. s \in {Unknown, [policy |-> "other", prio |-> 0]} \/ \E n \in 1..99 : s = [policy |-> "rr", prio |-> n]
  BY DEF Known
<1> HIDE DEF s
<1> QED
  BY <1>2, <1>3, <1>4 DEF s

\* A thread of a policy that UTL knows has others like itself, no higher and one level
\* lower at most.
LEMMA InheritedMapped ==
  ASSUME NEW s \in Known
  PROVE  LET level == GetSchedPriority(s)
             new   == MapPrioToNativePrio(level)
         IN  /\ OfPolicy(new) /\ new \in Known /\ new.prio <= s.prio
             /\ level \in Int /\ GetSchedPriority(new) \in {level - 1, level}
             /\ s.policy = "other" => new = s
<1> DEFINE level == GetSchedPriority(s)
           new   == MapPrioToNativePrio(level)
<1>1. CASE s = [policy |-> "other", prio |-> 0]
  <2>1. level = 0 /\ new = s
    BY <1>1 DEF GetSchedPriority, MapPrioToNativePrio, PrioMin
  <2> QED
    BY <1>1, <2>1 DEF OfPolicy
<1>2. ASSUME NEW n \in 1..99, s = [policy |-> "rr", prio |-> n] PROVE
             /\ OfPolicy(new) /\ new \in Known /\ new.prio <= n
             /\ level \in Int /\ GetSchedPriority(new) \in {level - 1, level}
  <2>1. level = NativeToUTLPrioMapHelper(n)
    BY <1>2 DEF GetSchedPriority
  <2>2. level \in 0..9 /\ (level # 0 => PrioMapHelper(level) <= n)
    BY <2>1, DownThenUp
  <2> HIDE DEF level
  <2>3. CASE level = 0
    <3>1. new = [policy |-> "other", prio |-> 0]
      BY <2>3 DEF MapPrioToNativePrio, PrioMin
    <3> QED
      BY <2>3, <3>1 DEF OfPolicy, Known, GetSchedPriority, PrioMin
  <2>4. CASE level # 0
    <3>1. level \in 1..9
      BY <2>2, <2>4
    <3>2. new = [policy |-> "rr", prio |-> PrioMapHelper(level)] /\ PrioMapHelper(level) \in 1..99
      BY <3>1, UpThenDown DEF MapPrioToNativePrio, PrioMin, PrioMax
    <3>3. OfPolicy(new)
      BY <3>2 DEF OfPolicy, PthreadPrioMin, PthreadPrioMax
    <3> QED
      BY <2>2, <2>4, <3>1, <3>2, <3>3, AskedMapped
  <2> QED
    BY <2>3, <2>4
<1>3. PICK n \in 0..99 :
        \/ n = 0 /\ s = [policy |-> "other", prio |-> 0]
        \/ n \in 1..99 /\ s = [policy |-> "rr", prio |-> n]
  BY DEF Known
<1>4. CASE s = [policy |-> "other", prio |-> 0]
  BY <1>1, <1>4
<1>5. CASE n \in 1..99 /\ s = [policy |-> "rr", prio |-> n]
  <2>1. s.prio = n /\ s.policy # "other"
    BY <1>5
  <2> HIDE DEF new, level
  <2> QED
    BY <1>2, <1>5, <2>1 DEF new, level
<1> QED
  BY <1>3, <1>4, <1>5

\* What inherits from a thread of another policy asks for no priority of UTL.
LEMMA UnknownMapped ==
  MapPrioToNativePrio(GetSchedPriority(Unknown)) = [policy |-> "rr", prio |-> -1]
BY DEF MapPrioToNativePrio, GetSchedPriority, NativeToUTLPrioMapHelper, Unknown, Inherit,
       ErrInvalid, PrioMin, PrioMax, PthreadPrioMin, PthreadPrioMax

-----------------------------------------------------------------------------
(***************************************************************************)
(* The steps                                                               *)
(***************************************************************************)

\* Nothing changes the priority of a thread that is there.
LEMMA Kept ==
  ASSUME TypeInv, InheritedNotRaised, AskedGiven,
         DOMAIN threads \subseteq DOMAIN threads',
         \A t \in DOMAIN threads : /\ threads'[t].sched = threads[t].sched
                                  /\ threads'[t].creator = threads[t].creator
                                  /\ threads'[t].prio = threads[t].prio,
         NEW t \in DOMAIN threads, threads'[t].creator # 0
  PROVE  /\ threads'[t].prio = Inherit =>
              LET from == threads'[t].creator
              IN  /\ GetSchedPriority(threads'[t].sched)
                       \in {GetSchedPriority(threads'[from].sched) - 1, GetSchedPriority(threads'[from].sched)}
                  /\ threads'[t].sched.prio <= threads'[from].sched.prio
                  /\ threads'[from].sched.policy = "other" => threads'[t].sched = threads'[from].sched
         /\ threads'[t].prio # Inherit =>
              IF threads'[t].prio \in PrioMin .. PrioMax
              THEN GetSchedPriority(threads'[t].sched) \in {threads'[t].prio - 1, threads'[t].prio}
              ELSE /\ threads'[t].sched.policy = "rr"
                   /\ threads'[t].sched = threads'[threads'[t].creator].sched
<1> DEFINE from == threads[t].creator
<1>1. from # 0 /\ from = threads'[t].creator
  OBVIOUS
<1>2. from \in DOMAIN threads
  <2>1. from \in 0..(t - 1)
    BY DEF TypeInv, ThreadOK
  <2>2. DOMAIN threads = 1..Len(threads) /\ Len(threads) \in Nat
    BY DEF TypeInv
  <2> HIDE DEF from
  <2> QED
    BY <1>1, <2>1, <2>2
<1>3. threads'[from].sched = threads[from].sched /\ threads'[t].sched = threads[t].sched
      /\ threads'[t].prio = threads[t].prio
  BY <1>2
<1>5. threads[t].prio = Inherit =>
        /\ GetSchedPriority(threads[t].sched)
              \in {GetSchedPriority(threads[from].sched) - 1, GetSchedPriority(threads[from].sched)}
        /\ threads[t].sched.prio <= threads[from].sched.prio
        /\ threads[from].sched.policy = "other" => threads[t].sched = threads[from].sched
  BY <1>1 DEF InheritedNotRaised, Level
<1>6. threads[t].prio # Inherit =>
        IF threads[t].prio \in PrioMin .. PrioMax
        THEN GetSchedPriority(threads[t].sched) \in {threads[t].prio - 1, threads[t].prio}
        ELSE threads[t].sched.policy = "rr" /\ threads[t].sched = threads[from].sched
  BY <1>1 DEF AskedGiven, Level
<1> HIDE DEF from
<1> QED
  BY <1>1, <1>3, <1>5, <1>6

LEMMA CreateStep ==
  ASSUME IInv, NEW self \in DOMAIN threads, NEW prio \in Int,
         NEW detached \in BOOLEAN, NEW handle \in BOOLEAN, NEW refused \in BOOLEAN,
         Create(self, prio, detached, handle, refused)
  PROVE  IInv'
<1> DEFINE attrs == MappedAttrs(self, prio)
           n     == Len(threads) + 1
           new   == Thread(attrs, self, prio, IF detached THEN "detached" ELSE "joinable",
                           IF detached THEN 0 ELSE n)
<1>0. /\ DOMAIN threads = 1..Len(threads) /\ Len(threads) \in Nat
      /\ threads[self].sched \in Known \cup {Unknown}
  BY DEF IInv, TypeInv, ThreadOK
<1>1. outcome'.call = "create" /\ outcome'.self = self
  BY DEF Create, Returns
<1>2. ASSUME prio = Inherit, threads[self].sched \in Known
      PROVE  /\ OfPolicy(attrs) /\ attrs \in Known
             /\ GetSchedPriority(attrs) \in {Level(self) - 1, Level(self)}
             /\ attrs.prio <= threads[self].sched.prio
             /\ threads[self].sched.policy = "other" => attrs = threads[self].sched
  <2> DEFINE mapped == MapPrioToNativePrio(GetSchedPriority(threads[self].sched))
  <2>1. attrs = AttrsSet(self, mapped)
    BY <1>2 DEF MappedAttrs
  <2>2. OfPolicy(mapped)
    BY <1>2, InheritedMapped
  <2>3. attrs = mapped
    BY <2>1, <2>2 DEF AttrsSet
  <2> QED
    BY <1>2, <2>3, InheritedMapped DEF Level
<1>3. ASSUME prio # Inherit, prio \in 0..9
      PROVE  OfPolicy(attrs) /\ attrs \in Known /\ GetSchedPriority(attrs) \in {prio - 1, prio}
  <2>1. attrs = AttrsSet(self, MapPrioToNativePrio(prio))
    BY <1>3 DEF MappedAttrs
  <2>2. attrs = MapPrioToNativePrio(prio)
    BY <1>3, <2>1, AskedMapped DEF AttrsSet
  <2> QED
    BY <1>3, <2>2, AskedMapped
<1>4. ASSUME \/ prio # Inherit /\ prio \notin 0..9
             \/ prio = Inherit /\ threads[self].sched \notin Known
      PROVE  IF threads[self].sched.policy = "rr" THEN attrs = threads[self].sched /\ OfPolicy(attrs)
             ELSE ~OfPolicy(attrs)
  <2>1. attrs = AttrsSet(self, [policy |-> "rr", prio |-> -1])
    <3>1. CASE prio # Inherit /\ prio \notin 0..9
      BY <3>1, OthersMapped DEF MappedAttrs
    <3>2. CASE prio = Inherit /\ threads[self].sched = Unknown
      BY <3>2, UnknownMapped DEF MappedAttrs
    <3> QED
      BY <1>0, <1>4, <3>1, <3>2
  <2> HIDE DEF attrs
  <2> QED
    BY <1>0, <2>1, OthersSet
<1>5. CASE threads' = threads /\ (outcome'.rv = "error" => ~OfPolicy(attrs) /\ outcome'.about = prio)
  <2>1. FailsForPriority'
    <3> SUFFICES ASSUME outcome'.rv = "error"
                 PROVE  /\ prio \notin PrioMin .. PrioMax
                        /\ threads[self].sched.policy # "rr"
                        /\ prio = Inherit => threads[self].sched.policy # "other"
      BY <1>1, <1>5 DEF FailsForPriority
    <3>1. ~OfPolicy(attrs)
      BY <1>5
    <3>2. prio = Inherit => threads[self].sched = Unknown
      BY <1>0, <1>2, <3>1
    <3>3. prio \notin 0..9
      BY <1>3, <3>1 DEF Inherit
    <3>4. threads[self].sched.policy # "rr"
      BY <1>4, <3>1, <3>2, <3>3 DEF Unknown
    <3> QED
      BY <3>2, <3>3, <3>4 DEF Unknown, PrioMin, PrioMax
  <2> QED
    BY <1>1, <1>5, <2>1
       DEF IInv, TypeInv, ThreadOK, OutcomeInv, ThreadsRight, InheritedNotRaised, AskedGiven, HandlesJoinable, Level
<1>6. CASE threads' = Append(threads, new) /\ OfPolicy(attrs) /\ outcome'.rv = "ok"
  <2>1. /\ DOMAIN threads' = 1..n /\ n \notin DOMAIN threads /\ n \in Nat
        /\ threads'[n] = new /\ \A t \in DOMAIN threads : threads'[t] = threads[t]
    BY <1>0, <1>6 DEF IInv, TypeInv
  <2>2. attrs \in Known
    <3>1. CASE prio \in 0..9
      BY <1>3, <3>1 DEF Inherit
    <3>2. CASE prio = Inherit /\ threads[self].sched \in Known
      BY <1>2, <3>2
    <3>3. CASE prio \notin 0..9 /\ ~(prio = Inherit /\ threads[self].sched \in Known)
      <4>1. threads[self].sched.policy = "rr" /\ attrs = threads[self].sched
        BY <1>4, <1>6, <3>3
      <4> QED
        BY <1>0, <4>1 DEF Unknown
    <3> QED
      BY <3>1, <3>2, <3>3
  <2>11. prio = Inherit => threads[self].sched \in Known
    <3>1. ASSUME prio = Inherit, threads[self].sched \notin Known PROVE FALSE
      <4>1. threads[self].sched.policy = "rr"
        BY <1>4, <1>6, <3>1
      <4> QED
        BY <1>0, <3>1, <4>1 DEF Unknown
    <3> QED
      BY <3>1
  <2>3. /\ new \in [sched : Known \cup {Unknown}, creator : 0..(n - 1), prio : Int, system : Systems, handle : Nat]
        /\ new.sched = attrs /\ new.creator = self /\ new.prio = prio
        /\ new.system = (IF detached THEN "detached" ELSE "joinable")
        /\ new.handle = (IF detached THEN 0 ELSE n)
    <3>1. self \in 0..(n - 1) /\ 0 \in Nat /\ n \in Nat
      BY <1>0
    <3> HIDE DEF attrs, n
    <3> QED
      BY <2>2, <3>1 DEF Thread, Systems
  <2> HIDE DEF attrs, n, new
  <2>4. TypeInv'
    <3>1. new \in [sched : Known \cup {Unknown}, creator : Nat, prio : Int, system : Systems, handle : Nat]
      BY <2>1, <2>3
    <3>2. threads' \in Seq([sched : Known \cup {Unknown}, creator : Nat, prio : Int, system : Systems, handle : Nat])
      BY <1>6, <3>1 DEF IInv, TypeInv
    <3>3. ASSUME NEW t \in DOMAIN threads' PROVE ThreadOK(threads', t)
      <4>1. CASE t = n
        BY <2>1, <2>2, <2>3, <4>1 DEF ThreadOK
      <4>2. CASE t # n
        <5>1. t \in DOMAIN threads
          BY <1>0, <2>1, <4>2 DEF n
        <5> QED
          BY <2>1, <5>1 DEF IInv, TypeInv, ThreadOK
      <4> QED
        BY <4>1, <4>2
    <3> QED
      BY <3>2, <3>3 DEF TypeInv
  <2>5. ASSUME NEW t \in DOMAIN threads' PROVE t = n \/ t \in DOMAIN threads
    BY <1>0, <2>1 DEF n
  <2>6. InheritedNotRaised'
    <3>1. ASSUME prio = Inherit
          PROVE  /\ GetSchedPriority(threads'[n].sched)
                      \in {GetSchedPriority(threads'[self].sched) - 1, GetSchedPriority(threads'[self].sched)}
                 /\ threads'[n].sched.prio <= threads'[self].sched.prio
                 /\ threads'[self].sched.policy = "other" => threads'[n].sched = threads'[self].sched
      BY <1>2, <2>1, <2>3, <2>11, <3>1 DEF Level
    <3> SUFFICES ASSUME NEW t \in DOMAIN threads', threads'[t].creator # 0, threads'[t].prio = Inherit
                 PROVE  LET from == threads'[t].creator
                        IN  /\ GetSchedPriority(threads'[t].sched)
                                 \in {GetSchedPriority(threads'[from].sched) - 1,
                                      GetSchedPriority(threads'[from].sched)}
                            /\ threads'[t].sched.prio <= threads'[from].sched.prio
                            /\ threads'[from].sched.policy = "other" => threads'[t].sched = threads'[from].sched
      BY DEF InheritedNotRaised, Level
    <3>2. CASE t = n
      <4>1. threads'[t].creator = self /\ prio = Inherit
        BY <2>1, <2>3, <3>2
      <4> QED
        BY <3>1, <3>2, <4>1
    <3>3. CASE t \in DOMAIN threads
      <4>1. DOMAIN threads \subseteq DOMAIN threads'
        BY <1>0, <2>1 DEF n
      <4>2. TypeInv /\ InheritedNotRaised /\ AskedGiven
        BY DEF IInv, ThreadsRight
      <4> QED
        BY <2>1, <3>3, <4>1, <4>2, Kept
    <3> QED
      BY <2>5, <3>2, <3>3
  <2>7. AskedGiven'
    <3>1. ASSUME prio # Inherit
          PROVE  IF prio \in PrioMin .. PrioMax
                 THEN GetSchedPriority(threads'[n].sched) \in {prio - 1, prio}
                 ELSE threads'[n].sched.policy = "rr" /\ threads'[n].sched = threads'[self].sched
      <4>1. CASE prio \in 0..9
        BY <1>3, <2>1, <2>3, <3>1, <4>1 DEF PrioMin, PrioMax
      <4>2. CASE prio \notin 0..9
        <5>1. threads[self].sched.policy = "rr" /\ attrs = threads[self].sched
          BY <1>4, <1>6, <3>1, <4>2
        <5> QED
          BY <2>1, <2>3, <4>2, <5>1 DEF PrioMin, PrioMax
      <4> QED
        BY <4>1, <4>2
    <3>2. DOMAIN threads \subseteq DOMAIN threads'
      BY <1>0, <2>1 DEF n
    <3> SUFFICES ASSUME NEW t \in DOMAIN threads', threads'[t].creator # 0, threads'[t].prio # Inherit
                 PROVE  IF threads'[t].prio \in PrioMin .. PrioMax
                        THEN GetSchedPriority(threads'[t].sched) \in {threads'[t].prio - 1, threads'[t].prio}
                        ELSE /\ threads'[t].sched.policy = "rr"
                             /\ threads'[t].sched = threads'[threads'[t].creator].sched
      BY DEF AskedGiven, Level
    <3>3. CASE t = n
      <4>1. threads'[t].creator = self /\ threads'[t].prio = prio
        BY <2>1, <2>3, <3>3
      <4> QED
        BY <3>1, <3>3, <4>1
    <3>4. CASE t \in DOMAIN threads
      <4>1. TypeInv /\ InheritedNotRaised /\ AskedGiven
        BY DEF IInv, ThreadsRight
      <4> QED
        BY <2>1, <3>2, <3>4, <4>1, Kept
    <3> QED
      BY <2>5, <3>3, <3>4
  <2>8. HandlesJoinable'
    <3>1. threads'[n].handle = IF threads'[n].system \in {"joinable", "ended"} THEN n ELSE 0
      BY <2>1, <2>3
    <3> QED
      BY <2>1, <2>5, <3>1 DEF IInv, ThreadsRight, HandlesJoinable
  <2>9. FailsForPriority'
    BY <1>6 DEF FailsForPriority
  <2>10. OutcomeInv'
    BY <1>1, <2>1, <1>0 DEF OutcomeInv, n
  <2> QED
    BY <2>4, <2>6, <2>7, <2>8, <2>9, <2>10 DEF IInv, ThreadsRight
<1> QED
  BY <1>5, <1>6 DEF Create, Returns

\* A thread that is joined or ends stays what it was but for its handle.
LEMMA Replaced ==
  ASSUME IInv, NEW t \in DOMAIN threads, NEW new,
         threads' = [threads EXCEPT ![t] = new],
         new = Thread(threads[t].sched, threads[t].creator, threads[t].prio, new.system, new.handle),
         new.system \in Systems, new.handle = (IF new.system \in {"joinable", "ended"} THEN t ELSE 0)
  PROVE  TypeInv' /\ InheritedNotRaised' /\ AskedGiven' /\ HandlesJoinable'
<1>0. t \in Nat /\ new.handle \in Nat
  <2>1. DOMAIN threads = 1..Len(threads)
    BY DEF IInv, TypeInv
  <2>2. t \in Nat
    BY <2>1
  <2> QED
    BY <2>2
<1>1. /\ DOMAIN threads' = DOMAIN threads /\ threads'[t] = new
      /\ \A u \in DOMAIN threads : u # t => threads'[u] = threads[u]
  BY DEF IInv, TypeInv
<1>2. new.sched = threads[t].sched /\ new.creator = threads[t].creator /\ new.prio = threads[t].prio
  BY DEF Thread
<1>3. threads[t] \in [sched : Known \cup {Unknown}, creator : 0..(t - 1), prio : Int, system : Systems, handle : Nat]
  BY DEF IInv, TypeInv, ThreadOK
<1>4. new \in [sched : Known \cup {Unknown}, creator : 0..(t - 1), prio : Int, system : Systems, handle : Nat]
  BY <1>0, <1>3 DEF Thread
<1>5. TypeInv'
  <2>1. new \in [sched : Known \cup {Unknown}, creator : Nat, prio : Int, system : Systems, handle : Nat]
    BY <1>0, <1>4
  <2>2. threads' \in Seq([sched : Known \cup {Unknown}, creator : Nat, prio : Int, system : Systems, handle : Nat])
    BY <2>1 DEF IInv, TypeInv
  <2>3. ThreadOK(threads', t)
    BY <1>1, <1>2, <1>4 DEF IInv, TypeInv, ThreadOK
  <2>4. ASSUME NEW u \in DOMAIN threads', u # t PROVE ThreadOK(threads', u)
    <3>1. u \in DOMAIN threads /\ threads'[u] = threads[u]
      BY <1>1, <2>4
    <3>2. ThreadOK(threads, u)
      BY <3>1 DEF IInv, TypeInv
    <3> QED
      BY <3>1, <3>2 DEF ThreadOK
  <2> QED
    BY <2>2, <2>3, <2>4 DEF TypeInv
<1>6. \A u \in DOMAIN threads : /\ threads'[u].sched = threads[u].sched
                               /\ threads'[u].creator = threads[u].creator
                               /\ threads'[u].prio = threads[u].prio
  BY <1>1, <1>2
<1>7. InheritedNotRaised' /\ AskedGiven'
  BY <1>1, <1>6, Kept DEF IInv, ThreadsRight, InheritedNotRaised, AskedGiven, Level
<1>8. HandlesJoinable'
  BY <1>1 DEF IInv, ThreadsRight, HandlesJoinable
<1> QED
  BY <1>5, <1>7, <1>8

LEMMA JoinStep ==
  ASSUME IInv, NEW self \in DOMAIN threads, NEW t \in DOMAIN threads, Join(self, t)
  PROVE  IInv'
<1>1. outcome'.call = "join"
  BY DEF Join, Returns
<1>2. FailsForPriority' /\ OutcomeInv'
  BY <1>1 DEF FailsForPriority, OutcomeInv
<1>3. CASE threads' = threads
  BY <1>2, <1>3
     DEF IInv, TypeInv, ThreadOK, ThreadsRight, InheritedNotRaised, AskedGiven, HandlesJoinable, Level
<1>4. CASE threads' = [threads EXCEPT ![t].system = "joined", ![t].handle = 0]
  <2> DEFINE new == Thread(threads[t].sched, threads[t].creator, threads[t].prio, "joined", 0)
  <2>1. threads' = [threads EXCEPT ![t] = new]
    <3>1. threads[t] \in [sched : Known \cup {Unknown}, creator : 0..(t - 1), prio : Int, system : Systems, handle : Nat]
      BY DEF IInv, TypeInv, ThreadOK
    <3>2. [threads[t] EXCEPT !.system = "joined", !.handle = 0] = new
      <4> DEFINE mid == Thread(threads[t].sched, threads[t].creator, threads[t].prio, "joined", threads[t].handle)
      <4>1. [threads[t] EXCEPT !.system = "joined"] = mid
        BY <3>1 DEF Thread
      <4>2. [mid EXCEPT !.handle = 0] = new
        BY DEF Thread
      <4>3. [threads[t] EXCEPT !.system = "joined", !.handle = 0] = [[threads[t] EXCEPT !.system = "joined"] EXCEPT !.handle = 0]
        BY <3>1
      <4> HIDE DEF mid, new
      <4> QED
        BY <4>1, <4>2, <4>3
    <3>3. threads' = [threads EXCEPT ![t] = [threads[t] EXCEPT !.system = "joined", !.handle = 0]]
      <4>1. threads = [u \in DOMAIN threads |-> threads[u]]
        BY DEF IInv, TypeInv
      <4> QED
        BY <1>4, <3>1, <4>1
    <3> QED
      BY <3>2, <3>3
  <2>2. new.system = "joined" /\ new.handle = 0
    BY DEF Thread
  <2>3. new = Thread(threads[t].sched, threads[t].creator, threads[t].prio, new.system, new.handle)
    BY <2>2
  <2> HIDE DEF new
  <2> QED
    BY <1>2, <2>1, <2>2, <2>3, Replaced DEF Systems, IInv, ThreadsRight
<1> QED
  BY <1>3, <1>4 DEF Join

LEMMA EndsStep ==
  ASSUME IInv, NEW self \in DOMAIN threads, Ends(self)
  PROVE  IInv'
<1> DEFINE system == IF threads[self].system = "joinable" THEN "ended" ELSE "gone"
           new    == Thread(threads[self].sched, threads[self].creator, threads[self].prio,
                            system, threads[self].handle)
<1>1. threads' = [threads EXCEPT ![self] = new]
  <2>1. threads[self] \in [sched : Known \cup {Unknown}, creator : 0..(self - 1), prio : Int, system : Systems, handle : Nat]
    BY DEF IInv, TypeInv, ThreadOK
  <2>2. [threads[self] EXCEPT !.system = system] = new
    BY <2>1 DEF Thread
  <2>3. threads' = [threads EXCEPT ![self] = [threads[self] EXCEPT !.system = system]]
    BY <2>1 DEF Ends
  <2> QED
    BY <2>2, <2>3
<1>2. /\ new.system = system /\ new.handle = threads[self].handle
      /\ new.sched = threads[self].sched
  BY DEF Thread
<1>3. new = Thread(threads[self].sched, threads[self].creator, threads[self].prio, new.system, new.handle)
  BY <1>2
<1>4. new.handle = (IF new.system \in {"joinable", "ended"} THEN self ELSE 0)
  BY <1>2 DEF Ends, Running, IInv, ThreadsRight, HandlesJoinable
<1>5. new.system \in Systems
  BY <1>2 DEF Systems
<1> HIDE DEF new
<1>6. TypeInv' /\ InheritedNotRaised' /\ AskedGiven' /\ HandlesJoinable'
  BY <1>1, <1>3, <1>4, <1>5, Replaced
<1>7. /\ DOMAIN threads' = DOMAIN threads
      /\ \A t \in DOMAIN threads : threads'[t].sched = threads[t].sched
  BY <1>1, <1>2 DEF IInv, TypeInv
<1>8. outcome' = outcome
  BY DEF Ends
<1>9. OutcomeInv'
  BY <1>7, <1>8 DEF IInv, OutcomeInv
<1>10. FailsForPriority'
  <2> SUFFICES ASSUME outcome.call = "create", outcome.rv = "error"
               PROVE  /\ outcome.about \notin PrioMin .. PrioMax
                      /\ threads'[outcome.self].sched.policy # "rr"
                      /\ outcome.about = Inherit => threads'[outcome.self].sched.policy # "other"
    BY <1>8 DEF FailsForPriority
  <2>1. outcome.self \in DOMAIN threads
    BY DEF IInv, OutcomeInv
  <2> QED
    BY <1>7, <2>1 DEF IInv, ThreadsRight, FailsForPriority
<1> QED
  BY <1>6, <1>9, <1>10 DEF IInv, ThreadsRight

-----------------------------------------------------------------------------
(***************************************************************************)
(* The invariant, and what it implies                                      *)
(***************************************************************************)

LEMMA Initially ==
  ASSUME ThreadAssumption, Init
  PROVE  IInv
<1>1. PICK sched \in Scheds : threads = <<Thread(sched, 0, Inherit, "detached", 0)>>
  BY DEF Init
<1> DEFINE first == Thread(sched, 0, Inherit, "detached", 0)
<1>2. DOMAIN threads = {1} /\ threads[1] = first
  BY <1>1
<1>3. UNION {{[policy |-> "other", prio |-> 0]}, {[policy |-> "batch", prio |-> 0]}}
        \subseteq Known \cup {Unknown}
  BY DEF Known, Unknown
<1>4. sched \in Known \cup {Unknown}
  <2>1. CASE \E policy \in {"other", "batch"} : sched = [policy |-> policy, prio |-> 0]
    BY <1>3, <2>1
  <2>2. CASE \E prio \in Native : sched = [policy |-> "rr", prio |-> prio]
    BY <2>2 DEF Known, ThreadAssumption
  <2> QED
    BY <1>1, <2>1, <2>2 DEF Scheds
<1>5. /\ first \in [sched : Known \cup {Unknown}, creator : 0..0, prio : Int, system : Systems, handle : Nat]
      /\ first.creator = 0 /\ first.handle = 0 /\ first.system = "detached"
  <2>1. 0 \in 0..0 /\ 0 \in Nat /\ Inherit \in Int
    BY DEF Inherit
  <2> QED
    BY <1>4, <2>1 DEF Thread, Systems
<1>6. TypeInv
  <2> HIDE DEF first
  <2>1. first \in [sched : Known \cup {Unknown}, creator : Nat, prio : Int, system : Systems, handle : Nat]
    BY <1>5
  <2>2. threads \in Seq([sched : Known \cup {Unknown}, creator : Nat, prio : Int, system : Systems, handle : Nat])
    BY <1>1, <2>1 DEF first
  <2> QED
    BY <1>2, <1>5, <2>2 DEF TypeInv, ThreadOK
<1>7. ThreadsRight
  <2> HIDE DEF first
  <2>1. outcome.call = "none"
    BY DEF Init, NoOutcome
  <2> QED
    BY <1>2, <1>5, <2>1
       DEF ThreadsRight, InheritedNotRaised, AskedGiven, HandlesJoinable, FailsForPriority
<1>8. OutcomeInv
  BY DEF OutcomeInv, Init, NoOutcome
<1> QED
  BY <1>6, <1>7, <1>8 DEF IInv

LEMMA Stepwise ==
  ASSUME ThreadAssumption, IInv, [Next]_vars
  PROVE  IInv'
<1>1. ASSUME Next PROVE IInv'
  BY <1>1, CreateStep, JoinStep, EndsStep DEF Next, ThreadAssumption
<1>2. CASE UNCHANGED vars
  BY <1>2 DEF IInv, TypeInv, ThreadOK, OutcomeInv, ThreadsRight, InheritedNotRaised, AskedGiven,
              HandlesJoinable, FailsForPriority, Level, vars
<1> QED
  BY <1>1, <1>2

\* The inductive invariant holds of every process.
THEOREM Invariance ==
  ASSUME ThreadAssumption
  PROVE  Spec => []IInv
<1>1. Init => IInv
  BY Initially
<1>2. IInv /\ [Next]_vars => IInv'
  BY Stepwise
<1> QED
  BY <1>1, <1>2, PTL DEF Spec

\* Threads have the priority they inherit or are asked to have, one of the ten levels
\* lower at most, or their creator's where they ask for one there is not, and handles name
\* the threads that may be joined (Utl_thread.cpp:112-145, 188-298).
THEOREM AllRight ==
  ASSUME ThreadAssumption
  PROVE  Spec => []ThreadsRight
<1>1. IInv => ThreadsRight
  BY DEF IInv
<1> QED
  BY <1>1, Invariance, PTL

=============================================================================

---------------------------- MODULE ReentrantLock ----------------------------
(***************************************************************************)
(* What UTLMutex and UTLCond promise their callers: a lock that its owner   *)
(* may take again, given back when it has been released as often as it was  *)
(* taken, and given up as a whole, and taken back as deep as it was, by an  *)
(* owner that waits for a condition.                                        *)
(***************************************************************************)
EXTENDS Naturals

CONSTANTS
  Threads,
  NoThread  \* not in Threads

VARIABLES
  owner,  \* who has the lock
  depth,  \* how often it has been taken
  saved   \* how deep a thread that waits had it

vars == <<owner, depth, saved>>

Init ==
  /\ owner = NoThread /\ depth = 0
  /\ saved = [t \in Threads |-> 0]

Acquire(t) ==
  /\ owner = NoThread /\ saved[t] = 0
  /\ owner' = t /\ depth' = 1
  /\ UNCHANGED saved

Reenter(t) ==
  /\ owner = t
  /\ depth' = depth + 1
  /\ UNCHANGED <<owner, saved>>

Release(t) ==
  /\ owner = t
  /\ depth' = depth - 1
  /\ owner' = IF depth = 1 THEN NoThread ELSE t
  /\ UNCHANGED saved

Wait(t) ==
  /\ owner = t
  /\ saved' = [saved EXCEPT ![t] = depth]
  /\ owner' = NoThread /\ depth' = 0

Wake(t) ==
  /\ owner = NoThread /\ saved[t] > 0
  /\ owner' = t /\ depth' = saved[t]
  /\ saved' = [saved EXCEPT ![t] = 0]

Next ==
  \E t \in Threads :
    Acquire(t) \/ Reenter(t) \/ Release(t) \/ Wait(t) \/ Wake(t)

Spec == Init /\ [][Next]_vars
=============================================================================

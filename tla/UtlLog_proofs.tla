----------------------------- MODULE UtlLog_proofs -----------------------------
(***************************************************************************)
(* What holds of UtlLog for any number of threads, any limits and any       *)
(* number of days, lines and restarts.                                     *)
(***************************************************************************)
EXTENDS UtlLog, FiniteSetTheorems, WellFoundedInduction, TLAPS

\* How many threads are at one of the places P.
Count(p, P) == Cardinality({t \in Threads : p[t] \in P})

Reading == {"time", "check", "line", "special", "file", "append", "leave"}
Writing == {"recheck", "unlockWrite", "start", "stop", "unlockOnly"}

\* Those that have looked at the size of the file, or have just made it, and have
\* not written their line yet.
Committed == {"unlockWrite", "wantRead", "line", "special", "file", "append"}

\* The lock admits readers or one writer, each where its place says.
LockInv ==
  /\ \A t \in Threads : pc[t] \in Reading <=> t \in readers
  /\ \A t \in Threads : pc[t] \in Writing <=> t \in writer
  /\ writer # {} => readers = {}
  /\ \A t, u \in writer : t = u

\* Lines go to the current file only, and to none as long as there is none.
FdInv ==
  /\ \A t \in Threads : pc[t] = "append" => fd[t] = cur /\ cur # NoFile
  /\ NoFile \in DOMAIN size /\ size[NoFile] = 0

\* The clock stops for new lines at MaxLines; those under way still take their time.
ClockInv == clock + Count(pc, {"time"}) <= MaxLines + Cardinality(Threads)

\* The line of every thread that is committed still fits.
SizeInv ==
  MaxTotal # 0 =>
    \A f \in DOMAIN size :
      size[f] + (IF f = cur THEN Count(pc, Committed) ELSE 0) < MaxFileSize + Cardinality(Threads)

\* A special log that is listed has a descriptor, and only a listed one is written to.
SpecialInv ==
  /\ ~special.disabled => special.listed
  /\ special.listed => /\ handles > 0
                       /\ special.size + Count(pc, {"special"}) < SpecialMax + Cardinality(Threads)

DirInv == IsFiniteSet(dir) /\ FilesBounded

IInv == TypeOK /\ LockInv /\ FdInv /\ ClockInv /\ SizeInv /\ SpecialInv /\ DirInv

-----------------------------------------------------------------------------
(***************************************************************************)
(* Counting threads                                                        *)
(***************************************************************************)

LEMMA CountType ==
  ASSUME LogAssumption, NEW p, NEW P
  PROVE  /\ Cardinality(Threads) \in Nat
         /\ Count(p, P) \in 0..Cardinality(Threads)
<1>1. {t \in Threads : p[t] \in P} \in SUBSET Threads
  OBVIOUS
<1>2. IsFiniteSet(Threads)
  BY DEF LogAssumption
<1>3. /\ IsFiniteSet({t \in Threads : p[t] \in P})
      /\ Cardinality({t \in Threads : p[t] \in P}) <= Cardinality(Threads)
  BY <1>1, <1>2, FS_Subset
<1> QED
  BY <1>2, <1>3, FS_CardinalityType DEF Count

\* A thread that changes its place changes the count of a set of places by itself.
LEMMA Counted ==
  ASSUME LogAssumption, TypeOK, NEW t \in Threads, NEW from, NEW to, Goto(t, from, to), NEW P
  PROVE  /\ Cardinality(Threads) \in Nat
         /\ Count(pc, P) \in 0..Cardinality(Threads) /\ Count(pc', P) \in 0..Cardinality(Threads)
         /\ from \in P /\ to \notin P => Count(pc', P) = Count(pc, P) - 1
         /\ from \notin P /\ to \in P => Count(pc', P) = Count(pc, P) + 1
         /\ (from \in P <=> to \in P) => Count(pc', P) = Count(pc, P)
<1> DEFINE A == {u \in Threads : pc[u] \in P}
           B == {u \in Threads : pc'[u] \in P}
<1>1. pc[t] = from /\ pc'[t] = to /\ \A u \in Threads : u # t => pc'[u] = pc[u]
  BY DEF TypeOK, Goto
<1>2. IsFiniteSet(A) /\ IsFiniteSet(B)
  <2>1. A \in SUBSET Threads /\ B \in SUBSET Threads
    OBVIOUS
  <2>2. IsFiniteSet(Threads)
    BY DEF LogAssumption
  <2> QED
    BY <2>1, <2>2, FS_Subset
<1>3. Count(pc, P) = Cardinality(A) /\ Count(pc', P) = Cardinality(B)
  BY DEF Count
<1>4. ASSUME from \in P, to \notin P PROVE Cardinality(B) = Cardinality(A) - 1
  <2>1. B = A \ {t} /\ t \in A
    BY <1>1, <1>4
  <2> QED
    BY <1>2, <2>1, FS_RemoveElement
<1>5. ASSUME from \notin P, to \in P PROVE Cardinality(B) = Cardinality(A) + 1
  <2>1. B = A \cup {t} /\ t \notin A
    BY <1>1, <1>5
  <2> QED
    BY <1>2, <2>1, FS_AddElement
<1>6. ASSUME from \in P <=> to \in P PROVE Cardinality(B) = Cardinality(A)
  <2>1. B = A
    BY <1>1, <1>6
  <2> QED
    BY <2>1
<1> HIDE DEF A, B
<1> QED
  BY <1>3, <1>4, <1>5, <1>6, CountType

LEMMA CountNone ==
  ASSUME NEW p, NEW P, \A t \in Threads : p[t] \notin P
  PROVE  Count(p, P) = 0
<1>1. {t \in Threads : p[t] \in P} = {}
  OBVIOUS
<1> QED
  BY <1>1, FS_EmptySet DEF Count

-----------------------------------------------------------------------------
(***************************************************************************)
(* The purge                                                               *)
(***************************************************************************)

LEMMA LeastExists ==
  ASSUME NEW S \in SUBSET Nat, S # {}
  PROVE  Min(S) \in S /\ \A y \in S : Min(S) <= y
<1>1. \E x \in S : \A y \in S : ~(<<y, x>> \in OpToRel(<, Nat))
  BY NatLessThanWellFounded, WFMin
<1>2. PICK x \in S : \A y \in S : ~(y < x)
  BY <1>1 DEF OpToRel
<1>3. \A y \in S : x <= y
  BY <1>2
<1> QED
  BY <1>3 DEF Min

LEMMA MaxNumFilesType ==
  ASSUME LogAssumption
  PROVE  MaxNumFiles \in Nat
<1>1. MinFiles * MaxFileSize \in Nat /\ MaxFileSize \in Nat \ {0}
  BY DEF LogAssumption
<1>2. MaxTotal \in Nat
  <2>1. CASE SetMax = NotCalled \/ SetMax = 0
    BY <1>1, <2>1 DEF MaxTotal
  <2>2. CASE SetMax # NotCalled /\ SetMax # 0
    <3> DEFINE S == {SetMax, MinFiles * MaxFileSize}
    <3>1. \E x \in S : \A y \in S : x >= y
      BY <1>1, <2>2 DEF LogAssumption
    <3>2. Max(S) \in S
      BY <3>1 DEF Max
    <3> QED
      BY <1>1, <2>2, <3>2 DEF MaxTotal, LogAssumption
  <2> QED
    BY <2>1, <2>2
<1> QED
  BY <1>1, <1>2 DEF MaxNumFiles

\* What the purge leaves of files is no more than may be kept, if there was one
\* more at most.
LEMMA PurgeFits ==
  ASSUME LogAssumption, NEW files \in SUBSET Nat, IsFiniteSet(files), NEW sz,
         Cardinality(files) <= MaxNumFiles + 1
  PROVE  /\ IsFiniteSet(files \ Purged(files, sz))
         /\ Cardinality(files \ Purged(files, sz)) <= MaxNumFiles
<1> DEFINE Newer(f) == Cardinality({g \in files : g > f})
           extra == {f \in files : Newer(f) >= MaxNumFiles}
           kept == files \ extra
           all == SetMax \notin {NotCalled, 0} \/ TooMuch(files, sz) \/ extra = {}
<1>1. Purged(files, sz) = IF all THEN extra ELSE {Min(extra)}
  BY DEF Purged
<1>2. MaxNumFiles \in Nat
  BY MaxNumFilesType
<1>3. IsFiniteSet(kept) /\ Cardinality(kept) \in Nat
  BY FS_Subset, FS_CardinalityType
<1>4. Cardinality(kept) <= MaxNumFiles
  <2>1. CASE kept = {}
    <3>1. Cardinality(kept) = 0
      <4> HIDE DEF kept
      <4> QED
        BY <2>1, FS_EmptySet
    <3> HIDE DEF kept
    <3> QED
      BY <1>2, <3>1
  <2>2. CASE kept # {}
    <3> DEFINE least == Min(kept)
               newer == {g \in files : g > least}
    <3>1. least \in kept /\ \A y \in kept : least <= y
      BY <2>2, LeastExists
    <3>2. Cardinality(newer) < MaxNumFiles
      <4>1. IsFiniteSet(newer) /\ Cardinality(newer) \in Nat
        BY FS_Subset, FS_CardinalityType
      <4> QED
        BY <1>2, <3>1, <4>1
    <3>3. kept \ {least} \subseteq newer
      <4> SUFFICES ASSUME NEW g \in kept, g # least PROVE g \in newer
        OBVIOUS
      <4>1. g \in files /\ g \in Nat /\ least \in Nat /\ least <= g
        BY <3>1
      <4>2. g > least
        <5> HIDE DEF least
        <5> QED
          BY <4>1
      <4> QED
        BY <4>1, <4>2
    <3>4. IsFiniteSet(newer) /\ Cardinality(newer) \in Nat
      BY FS_Subset, FS_CardinalityType
    <3>5. Cardinality(kept \ {least}) <= Cardinality(newer)
      <4> HIDE DEF newer, kept, least
      <4> QED
        BY <3>3, <3>4, FS_Subset
    <3>6. Cardinality(kept \ {least}) = Cardinality(kept) - 1
      <4> HIDE DEF least, kept
      <4>1. IsFiniteSet(kept)
        BY <1>3 DEF kept
      <4> QED
        BY <3>1, <4>1, FS_RemoveElement
    <3> HIDE DEF newer, kept, least
    <3>7. Cardinality(kept) \in Nat
      BY <1>3 DEF kept
    <3> QED
      BY <1>2, <3>2, <3>4, <3>5, <3>6, <3>7
  <2> QED
    BY <2>1, <2>2
<1>5. CASE all
  BY <1>1, <1>3, <1>4, <1>5
<1>6. CASE ~all
  <2>1. extra # {} /\ extra \in SUBSET Nat
    BY <1>6
  <2>2. Min(extra) \in files
    <3>1. Min(extra) \in extra
      BY <2>1, LeastExists
    <3> QED
      BY <3>1
  <2> HIDE DEF extra, all
  <2>3. files \ Purged(files, sz) = files \ {Min(extra)}
    BY <1>1, <1>6
  <2>4. IsFiniteSet(files \ {Min(extra)}) /\ Cardinality(files \ {Min(extra)}) = Cardinality(files) - 1
    BY <2>2, FS_RemoveElement
  <2>5. Cardinality(files) \in Nat
    BY FS_CardinalityType
  <2> QED
    BY <1>2, <2>3, <2>4, <2>5
<1> QED
  BY <1>5, <1>6

-----------------------------------------------------------------------------
(***************************************************************************)
(* The steps                                                                *)
(***************************************************************************)

LEMMA LockStep ==
  ASSUME LogAssumption, TypeOK, LockInv, [Next]_vars
  PROVE  LockInv'
<1> USE DEF TypeOK, LockInv, Reading, Writing, Places, lockVars, fileVars, specialVars, timeVars
<1>1. ASSUME NEW t \in Threads, Enter(t) PROVE LockInv'
  BY <1>1 DEF Enter, Goto, LockRead
<1>2. ASSUME NEW t \in Threads, TakesTime(t) PROVE LockInv'
  BY <1>2 DEF TakesTime, Goto
<1>3. ASSUME NEW t \in Threads, FileFits(t) PROVE LockInv'
  BY <1>3 DEF FileFits, Goto
<1>4. ASSUME NEW t \in Threads, RotationStarts(t) PROVE LockInv'
  BY <1>4 DEF RotationStarts, Goto, UnlockRead
<1>5. ASSUME NEW t \in Threads, RotationLocks(t) PROVE LockInv'
  BY <1>5 DEF RotationLocks, Goto, LockWrite
<1>6. ASSUME NEW t \in Threads, RotationDone(t) PROVE LockInv'
  BY <1>6 DEF RotationDone, Goto
<1>7. ASSUME NEW t \in Threads, Rotates(t) PROVE LockInv'
  BY <1>7 DEF Rotates, Goto
<1>8. ASSUME NEW t \in Threads, RotationUnlocks(t) PROVE LockInv'
  BY <1>8 DEF RotationUnlocks, Goto, UnlockWrite
<1>9. ASSUME NEW t \in Threads, ReadLockRestored(t) PROVE LockInv'
  BY <1>9 DEF ReadLockRestored, Goto, LockRead
<1>10. ASSUME NEW t \in Threads, LineStarts(t) PROVE LockInv'
  BY <1>10 DEF LineStarts
<1>11. ASSUME NEW t \in Threads, SpecialAppends(t) PROVE LockInv'
  BY <1>11 DEF SpecialAppends, Goto
<1>12. ASSUME NEW t \in Threads, LineReadsFd(t) PROVE LockInv'
  BY <1>12 DEF LineReadsFd
<1>13. ASSUME NEW t \in Threads, LineAppends(t) PROVE LockInv'
  BY <1>13 DEF LineAppends, Goto
<1>14. ASSUME NEW t \in Threads, Leave(t) PROVE LockInv'
  BY <1>14 DEF Leave, Goto, UnlockRead
<1>15. ASSUME NEW t \in Threads, SpecialStarts(t) PROVE LockInv'
  BY <1>15 DEF SpecialStarts, Goto, LockWrite
<1>16. ASSUME NEW t \in Threads, SpecialOpens(t) PROVE LockInv'
  BY <1>16 DEF SpecialOpens, Goto
<1>17. ASSUME NEW t \in Threads, SpecialStops(t) PROVE LockInv'
  BY <1>17 DEF SpecialStops, Goto, LockWrite
<1>18. ASSUME NEW t \in Threads, SpecialsClose(t) PROVE LockInv'
  BY <1>18 DEF SpecialsClose, Goto
<1>19. ASSUME NEW t \in Threads, SpecialDone(t) PROVE LockInv'
  BY <1>19 DEF SpecialDone, Goto, UnlockWrite
<1>20. CASE Midnight
  BY <1>20 DEF Midnight
<1>21. CASE Restart
  BY <1>21 DEF Restart
<1>22. CASE UNCHANGED vars
  BY <1>22 DEF vars
<1> QED
  BY <1>1, <1>2, <1>3, <1>4, <1>5, <1>6, <1>7, <1>8, <1>9, <1>10, <1>11, <1>12, <1>13, <1>14,
     <1>15, <1>16, <1>17, <1>18, <1>19, <1>20, <1>21, <1>22
     DEF Next, Line, SpecialLog

LEMMA FdStep ==
  ASSUME LogAssumption, TypeOK, LockInv, FdInv, [Next]_vars
  PROVE  FdInv'
<1> USE DEF TypeOK, LockInv, Reading, Writing, FdInv, WithNew, lockVars, fileVars, specialVars, timeVars
<1>1. ASSUME NEW t \in Threads, Enter(t) PROVE FdInv'
  BY <1>1 DEF Enter, Goto, LockRead
<1>2. ASSUME NEW t \in Threads, TakesTime(t) PROVE FdInv'
  BY <1>2 DEF TakesTime, Goto
<1>3. ASSUME NEW t \in Threads, FileFits(t) PROVE FdInv'
  BY <1>3 DEF FileFits, Goto
<1>4. ASSUME NEW t \in Threads, RotationStarts(t) PROVE FdInv'
  BY <1>4 DEF RotationStarts, Goto, UnlockRead
<1>5. ASSUME NEW t \in Threads, RotationLocks(t) PROVE FdInv'
  BY <1>5 DEF RotationLocks, Goto, LockWrite
<1>6. ASSUME NEW t \in Threads, RotationDone(t) PROVE FdInv'
  BY <1>6 DEF RotationDone, Goto
<1>7. ASSUME NEW t \in Threads, Rotates(t) PROVE FdInv'
  BY <1>7 DEF Rotates, Goto
<1>8. ASSUME NEW t \in Threads, RotationUnlocks(t) PROVE FdInv'
  BY <1>8 DEF RotationUnlocks, Goto, UnlockWrite
<1>9. ASSUME NEW t \in Threads, ReadLockRestored(t) PROVE FdInv'
  BY <1>9 DEF ReadLockRestored, Goto, LockRead
<1>10. ASSUME NEW t \in Threads, LineStarts(t) PROVE FdInv'
  BY <1>10 DEF LineStarts
<1>11. ASSUME NEW t \in Threads, SpecialAppends(t) PROVE FdInv'
  BY <1>11 DEF SpecialAppends, Goto
<1>12. ASSUME NEW t \in Threads, LineReadsFd(t) PROVE FdInv'
  BY <1>12 DEF LineReadsFd
<1>13. ASSUME NEW t \in Threads, LineAppends(t) PROVE FdInv'
  BY <1>13 DEF LineAppends, Goto
<1>14. ASSUME NEW t \in Threads, Leave(t) PROVE FdInv'
  BY <1>14 DEF Leave, Goto, UnlockRead
<1>15. ASSUME NEW t \in Threads, SpecialStarts(t) PROVE FdInv'
  BY <1>15 DEF SpecialStarts, Goto, LockWrite
<1>16. ASSUME NEW t \in Threads, SpecialOpens(t) PROVE FdInv'
  BY <1>16 DEF SpecialOpens, Goto
<1>17. ASSUME NEW t \in Threads, SpecialStops(t) PROVE FdInv'
  BY <1>17 DEF SpecialStops, Goto, LockWrite
<1>18. ASSUME NEW t \in Threads, SpecialsClose(t) PROVE FdInv'
  BY <1>18 DEF SpecialsClose, Goto
<1>19. ASSUME NEW t \in Threads, SpecialDone(t) PROVE FdInv'
  BY <1>19 DEF SpecialDone, Goto, UnlockWrite
<1>20. CASE Midnight
  BY <1>20 DEF Midnight
<1>21. CASE Restart
  BY <1>21 DEF Restart
<1>22. CASE UNCHANGED vars
  BY <1>22 DEF vars
<1> QED
  BY <1>1, <1>2, <1>3, <1>4, <1>5, <1>6, <1>7, <1>8, <1>9, <1>10, <1>11, <1>12, <1>13, <1>14,
     <1>15, <1>16, <1>17, <1>18, <1>19, <1>20, <1>21, <1>22
     DEF Next, Line, SpecialLog

LEMMA ClockStep ==
  ASSUME LogAssumption, TypeOK, LockInv, ClockInv, [Next]_vars
  PROVE  ClockInv'
<1> DEFINE N == Cardinality(Threads)
           C == Count(pc, {"time"})
<1>0. clock \in Nat /\ MaxLines \in Nat /\ N \in Nat /\ C \in 0..N /\ clock + C <= MaxLines + N
  BY CountType DEF TypeOK, ClockInv, LogAssumption
<1>1. ASSUME NEW t \in Threads, Enter(t) PROVE ClockInv'
  <2>1. Count(pc', {"time"}) \in 0..N /\ clock' = clock /\ clock <= MaxLines
    BY <1>1, Counted DEF Enter, timeVars
  <2> QED
    BY <1>0, <2>1 DEF ClockInv
<1>2. ASSUME NEW t \in Threads, TakesTime(t) PROVE ClockInv'
  <2>1. Count(pc', {"time"}) = C - 1 /\ clock' = clock + 1
    BY <1>2, Counted DEF TakesTime
  <2> QED
    BY <1>0, <2>1 DEF ClockInv
<1>3. ASSUME NEW t \in Threads, SpecialStarts(t) PROVE ClockInv'
  <2>1. clock <= MaxLines /\ clock' = clock + 1
    BY <1>3 DEF SpecialStarts
  <2>2. Count(pc', {"time"}) = 0
    <3>1. \A u \in Threads : pc[u] # "time"
      BY <1>3 DEF SpecialStarts, LockWrite, LockInv, Reading
    <3>2. \A u \in Threads : pc'[u] \notin {"time"}
      BY <1>3, <3>1 DEF SpecialStarts, Goto, TypeOK
    <3> QED
      BY <3>2, CountNone
  <2>3. N > 0
    <3>1. IsFiniteSet(Threads) /\ Threads # {}
      BY DEF LogAssumption
    <3> QED
      BY <1>0, <3>1, FS_EmptySet
  <2> QED
    BY <1>0, <2>1, <2>2, <2>3 DEF ClockInv
<1>4. ASSUME NEW t \in Threads, NEW from \in Places \ {"time"}, NEW to \in Places \ {"time"},
             Goto(t, from, to), clock' = clock
      PROVE  ClockInv'
  <2>1. Count(pc', {"time"}) = C
    BY <1>4, Counted
  <2> QED
    BY <1>0, <1>4, <2>1 DEF ClockInv
<1>5. ASSUME NEW t \in Threads, Line(t) \/ SpecialLog(t),
             ~Enter(t), ~TakesTime(t), ~SpecialStarts(t)
      PROVE  /\ \E from, to \in Places \ {"time"} : Goto(t, from, to)
             /\ clock' = clock
  BY <1>5 DEF Line, SpecialLog, FileFits, RotationStarts, RotationLocks, RotationDone, Rotates,
              RotationUnlocks, ReadLockRestored, LineStarts, SpecialAppends, LineReadsFd, LineAppends,
              Leave, SpecialOpens, SpecialStops, SpecialsClose, SpecialDone, Goto, Places, timeVars
<1>6. CASE Midnight \/ UNCHANGED vars
  BY <1>6 DEF Midnight, vars, timeVars, ClockInv
<1>7. CASE Restart
  <2>1. \A u \in Threads : pc'[u] \notin {"time"}
    BY <1>7 DEF Restart
  <2>2. Count(pc', {"time"}) = 0
    BY <2>1, CountNone
  <2>3. clock' = clock
    BY <1>7 DEF Restart, timeVars
  <2> QED
    BY <1>0, <2>2, <2>3 DEF ClockInv
<1> QED
  BY <1>1, <1>2, <1>3, <1>4, <1>5, <1>6, <1>7 DEF Next

LEMMA SizeStep ==
  ASSUME LogAssumption, TypeOK, LockInv, FdInv, SizeInv, [Next]_vars
  PROVE  SizeInv'
<1> DEFINE N == Cardinality(Threads)
           C == Count(pc, Committed)
<1> USE DEF Committed
<1>0. /\ N \in Nat /\ C \in 0..N /\ MaxFileSize \in Nat \ {0}
      /\ \A f \in DOMAIN size : size[f] \in Nat
      /\ MaxTotal # 0 => \A f \in DOMAIN size :
                           size[f] + (IF f = cur THEN C ELSE 0) < MaxFileSize + N
  BY CountType DEF TypeOK, SizeInv, LogAssumption
\* Nobody commits himself, the files stay.
<1>1. ASSUME Count(pc', Committed) <= C, Count(pc', Committed) \in Nat, UNCHANGED <<size, cur>>
      PROVE  SizeInv'
  BY <1>0, <1>1 DEF SizeInv
\* A thread commits itself to a file that is not full.
<1>2. ASSUME NEW t \in Threads, ~Due(t), Count(pc', Committed) \in 0..N, UNCHANGED <<size, cur>>
      PROVE  SizeInv'
  <2> SUFFICES ASSUME MaxTotal # 0, NEW f \in DOMAIN size
               PROVE  size[f] + (IF f = cur THEN Count(pc', Committed) ELSE 0) < MaxFileSize + N
    BY <1>2 DEF SizeInv
  <2>1. CASE f # cur
    BY <1>0, <2>1
  <2>2. CASE f = cur
    <3>1. size[cur] < MaxFileSize
      <4>1. cur # NoFile => ~(size[cur] >= MaxFileSize)
        BY <1>2 DEF Due
      <4>2. size[NoFile] = 0
        BY DEF FdInv
      <4> QED
        BY <1>0, <2>2, <4>1, <4>2
    <3> QED
      BY <1>0, <1>2, <2>2, <3>1
  <2> QED
    BY <2>1, <2>2
<1>3. ASSUME NEW t \in Threads, FileFits(t) \/ RotationDone(t) PROVE SizeInv'
  <2>1. ~Due(t) /\ UNCHANGED <<size, cur>>
    BY <1>3 DEF FileFits, RotationDone, fileVars
  <2>2. Count(pc', Committed) \in 0..N
    BY <1>3, Counted DEF FileFits, RotationDone
  <2> QED
    BY <1>2, <2>1, <2>2
<1>4. ASSUME NEW t \in Threads, Rotates(t) PROVE SizeInv'
  <2>1. Count(pc', Committed) \in 0..N
    BY <1>4, Counted DEF Rotates
  <2>2. CASE size' = WithNew(cur')
    <3> SUFFICES ASSUME MaxTotal # 0, NEW f \in DOMAIN size'
                 PROVE  size'[f] + (IF f = cur' THEN Count(pc', Committed) ELSE 0) < MaxFileSize + N
      BY DEF SizeInv
    <3>1. CASE f = cur'
      <4>1. size'[f] = 0
        BY <2>2, <3>1 DEF WithNew
      <4> QED
        BY <1>0, <2>1, <3>1, <4>1
    <3>2. CASE f # cur'
      <4>1. f \in DOMAIN size /\ size'[f] = size[f]
        BY <2>2, <3>2 DEF WithNew
      <4>2. size[f] + (IF f = cur THEN C ELSE 0) < MaxFileSize + N /\ size[f] \in Nat
        BY <1>0, <4>1
      <4> HIDE DEF C, N
      <4> QED
        BY <1>0, <3>2, <4>1, <4>2
    <3> QED
      BY <3>1, <3>2
  <2>3. CASE cur' = NoFile /\ size' = size
    <3> SUFFICES ASSUME MaxTotal # 0, NEW f \in DOMAIN size
                 PROVE  size[f] + (IF f = NoFile THEN Count(pc', Committed) ELSE 0) < MaxFileSize + N
      BY <2>3 DEF SizeInv
    <3>1. size[NoFile] = 0
      BY DEF FdInv
    <3>2. size[f] + (IF f = cur THEN C ELSE 0) < MaxFileSize + N /\ size[f] \in Nat
      BY <1>0
    <3> HIDE DEF C, N
    <3> QED
      BY <1>0, <2>1, <3>1, <3>2
  <2> QED
    BY <1>4, <2>2, <2>3 DEF Rotates
<1>5. ASSUME NEW t \in Threads, LineAppends(t) PROVE SizeInv'
  <2>1. Count(pc', Committed) = C - 1 /\ cur' = cur
    BY <1>5, Counted DEF LineAppends
  <2>2. fd[t] = cur /\ size' = [size EXCEPT ![cur] = @ + 1]
    BY <1>5 DEF LineAppends, Goto, FdInv
  <2> SUFFICES ASSUME MaxTotal # 0, NEW f \in DOMAIN size
               PROVE  size'[f] + (IF f = cur THEN C - 1 ELSE 0) < MaxFileSize + N
    BY <2>1, <2>2 DEF SizeInv
  <2>3. size'[f] = IF f = cur THEN size[f] + 1 ELSE size[f]
    BY <2>2
  <2> HIDE DEF C, N
  <2> QED
    BY <1>0, <2>3
<1>6. ASSUME NEW t \in Threads, LineStarts(t) \/ LineReadsFd(t) PROVE SizeInv'
  <2>1. \E from \in Committed, to \in Committed \cup {"leave"} : Goto(t, from, to)
    BY <1>6 DEF LineStarts, LineReadsFd, Goto
  <2>2. Count(pc', Committed) <= C /\ Count(pc', Committed) \in Nat
    BY <1>0, <2>1, Counted
  <2> QED
    BY <1>1, <1>6, <2>2 DEF LineStarts, LineReadsFd, fileVars
<1>7. ASSUME NEW t \in Threads, NEW from, NEW to, Goto(t, from, to), from \in Committed <=> to \in Committed,
             UNCHANGED <<size, cur>>
      PROVE  SizeInv'
  <2>1. Count(pc', Committed) = C
    BY <1>7, Counted
  <2> QED
    BY <1>0, <1>1, <1>7, <2>1
<1>8. ASSUME NEW t \in Threads, Line(t) \/ SpecialLog(t), ~FileFits(t), ~RotationDone(t), ~Rotates(t),
             ~LineAppends(t), ~LineStarts(t), ~LineReadsFd(t)
      PROVE  /\ \E from, to \in Places :
                  Goto(t, from, to) /\ (from \in Committed <=> to \in Committed)
             /\ UNCHANGED <<size, cur>>
  BY <1>8 DEF Line, SpecialLog, Enter, TakesTime, RotationStarts, RotationLocks, RotationUnlocks,
              ReadLockRestored, SpecialAppends, Leave, SpecialStarts, SpecialOpens, SpecialStops,
              SpecialsClose, SpecialDone, Places, fileVars
<1>9. CASE Midnight \/ UNCHANGED vars
  BY <1>9 DEF Midnight, vars, fileVars, SizeInv
<1>10. CASE Restart
  <2>1. \A u \in Threads : pc'[u] \notin Committed
    BY <1>10 DEF Restart
  <2>2. Count(pc', Committed) = 0
    BY <2>1, CountNone
  <2>3. size' = size
    BY <1>10 DEF Restart
  <2> SUFFICES ASSUME MaxTotal # 0, NEW f \in DOMAIN size PROVE size[f] < MaxFileSize + N
    BY <1>0, <2>2, <2>3 DEF SizeInv
  <2>4. size[f] + (IF f = cur THEN C ELSE 0) < MaxFileSize + N /\ size[f] \in Nat
    BY <1>0
  <2> HIDE DEF C, N
  <2> QED
    BY <1>0, <2>4
<1> QED
  BY <1>3, <1>4, <1>5, <1>6, <1>7, <1>8, <1>9, <1>10 DEF Next

LEMMA SpecialStep ==
  ASSUME LogAssumption, TypeOK, LockInv, SpecialInv, [Next]_vars
  PROVE  SpecialInv'
<1> DEFINE N == Cardinality(Threads)
           C == Count(pc, {"special"})
<1>0. /\ N \in Nat /\ C \in 0..N /\ SpecialMax \in Nat
      /\ special \in [listed : BOOLEAN, disabled : BOOLEAN, size : Nat] /\ handles \in Nat
      /\ ~special.disabled => special.listed
      /\ special.listed => handles > 0 /\ special.size + C < SpecialMax + N
  BY CountType DEF TypeOK, SpecialInv, LogAssumption
<1>1. ASSUME NEW t \in Threads, LineStarts(t) PROVE SpecialInv'
  <2>1. CASE ~special.disabled /\ special.size < SpecialMax
    <3>1. Goto(t, "line", "special") /\ special' = special /\ handles' = handles
      BY <1>1, <2>1 DEF LineStarts, Goto
    <3>2. Count(pc', {"special"}) \in 0..N
      BY <3>1, Counted
    <3>3. special.size + Count(pc', {"special"}) < SpecialMax + N
      <4> HIDE DEF C, N
      <4> QED
        BY <1>0, <2>1, <3>2
    <3> QED
      BY <1>0, <3>1, <3>3 DEF SpecialInv
  <2>2. CASE special.disabled \/ ~(special.size < SpecialMax)
    <3>1. Goto(t, "line", "file") /\ handles' = handles
      BY <1>1, <2>2 DEF LineStarts, Goto
    <3>2. Count(pc', {"special"}) = C
      BY <3>1, Counted
    <3>3. /\ special'.listed <=> special.listed
          /\ special'.size = special.size
          /\ ~special'.disabled => ~special.disabled
      BY <1>0, <1>1, <2>2 DEF LineStarts
    <3>4. special.listed => special'.size + Count(pc', {"special"}) < SpecialMax + N
      BY <1>0, <3>2, <3>3
    <3> QED
      BY <1>0, <3>1, <3>3, <3>4 DEF SpecialInv
  <2> QED
    BY <2>1, <2>2
<1>2. ASSUME NEW t \in Threads, SpecialAppends(t) PROVE SpecialInv'
  <2>1. Count(pc', {"special"}) = C - 1 /\ handles' = handles
    BY <1>2, Counted DEF SpecialAppends
  <2>2. /\ special'.listed <=> special.listed
        /\ special'.disabled <=> special.disabled
        /\ special'.size = special.size + 1
    BY <1>0, <1>2 DEF SpecialAppends
  <2>3. special.listed => special'.size + Count(pc', {"special"}) < SpecialMax + N
    <3> HIDE DEF C, N
    <3> QED
      BY <1>0, <2>1, <2>2
  <2> QED
    BY <1>0, <2>1, <2>2, <2>3 DEF SpecialInv
<1>3. ASSUME NEW t \in Threads, SpecialOpens(t) PROVE SpecialInv'
  <2>1. Count(pc', {"special"}) = 0
    <3>1. \A u \in Threads : pc[u] # "special"
      BY <1>3 DEF SpecialOpens, Goto, LockInv, Reading, Writing
    <3>2. \A u \in Threads : pc'[u] \notin {"special"}
      BY <1>3, <3>1 DEF SpecialOpens, Goto, TypeOK
    <3> QED
      BY <3>2, CountNone
  <2>2. N > 0
    <3>1. IsFiniteSet(Threads) /\ Threads # {}
      BY DEF LogAssumption
    <3> QED
      BY <1>0, <3>1, FS_EmptySet
  <2>3. \/ special'.listed /\ special'.size = 0 /\ handles' > 0
        \/ ~special'.listed /\ special'.disabled
    BY <1>0, <1>3 DEF SpecialOpens, NoSpecial
  <2>4. special'.listed => special'.size + Count(pc', {"special"}) < SpecialMax + N
    <3> HIDE DEF C, N
    <3> QED
      BY <1>0, <2>1, <2>2, <2>3
  <2> QED
    BY <2>3, <2>4 DEF SpecialInv
<1>4. CASE special' = NoSpecial
  BY <1>4 DEF SpecialInv, NoSpecial
<1>5. ASSUME NEW t \in Threads, NEW from, NEW to, Goto(t, from, to), from # "special", to # "special",
             UNCHANGED specialVars
      PROVE  SpecialInv'
  <2>1. Count(pc', {"special"}) = C
    BY <1>5, Counted
  <2> QED
    BY <1>5, <2>1 DEF SpecialInv, specialVars
<1>6. ASSUME NEW t \in Threads, Line(t) \/ SpecialLog(t), ~LineStarts(t), ~SpecialAppends(t),
             ~SpecialOpens(t), ~SpecialsClose(t)
      PROVE  /\ \E from, to \in Places \ {"special"} : Goto(t, from, to)
             /\ UNCHANGED specialVars
  BY <1>6 DEF Line, SpecialLog, Enter, TakesTime, FileFits, RotationStarts, RotationLocks,
              RotationDone, Rotates, RotationUnlocks, ReadLockRestored, LineReadsFd, LineAppends, Leave,
              SpecialStarts, SpecialStops, SpecialDone, Goto, Places, specialVars
<1>7. CASE Midnight \/ UNCHANGED vars
  BY <1>7 DEF Midnight, vars, specialVars, SpecialInv
<1> QED
  BY <1>1, <1>2, <1>3, <1>4, <1>5, <1>6, <1>7 DEF Next, SpecialsClose, Restart

LEMMA DirStep ==
  ASSUME LogAssumption, TypeOK, DirInv, [Next]_vars
  PROVE  DirInv'
<1>1. CASE dir' = dir
  BY <1>1 DEF DirInv, FilesBounded
<1>2. ASSUME NEW f, dir' = (dir \cup {f}) \ Purged(dir \cup {f}, size'), f \in Nat
      PROVE  DirInv'
  <2>1. dir \in SUBSET Nat
    BY DEF TypeOK
  <2>2. dir \cup {f} \in SUBSET Nat
    BY <1>2, <2>1
  <2>3. IsFiniteSet(dir) /\ Cardinality(dir) <= MaxNumFiles
    BY DEF DirInv, FilesBounded
  <2>4. /\ IsFiniteSet(dir \cup {f})
        /\ Cardinality(dir \cup {f}) <= MaxNumFiles + 1
    <3>1. Cardinality(dir) \in Nat /\ MaxNumFiles \in Nat
      BY <2>3, FS_CardinalityType, MaxNumFilesType
    <3>2. /\ IsFiniteSet(dir \cup {f})
          /\ Cardinality(dir \cup {f}) = IF f \in dir THEN Cardinality(dir) ELSE Cardinality(dir) + 1
      BY <2>3, FS_AddElement
    <3> QED
      BY <2>3, <3>1, <3>2
  <2> QED
    BY <1>2, <2>2, <2>4, PurgeFits DEF DirInv, FilesBounded
<1>3. ASSUME NEW t \in Threads, Rotates(t) PROVE DirInv'
  <2>1. stamp[t].at \in Nat
    BY DEF TypeOK
  <2>2. \/ dir' = (dir \cup {stamp[t].at}) \ Purged(dir \cup {stamp[t].at}, size')
        \/ dir' = dir
    BY <1>3 DEF Rotates
  <2> QED
    BY <1>1, <1>2, <2>1, <2>2
<1>4. ASSUME NEW t \in Threads, Line(t) \/ SpecialLog(t), ~Rotates(t) PROVE dir' = dir
  BY <1>4 DEF Line, SpecialLog, Enter, TakesTime, FileFits, RotationStarts, RotationLocks,
              RotationDone, RotationUnlocks, ReadLockRestored, LineStarts, SpecialAppends, LineReadsFd,
              LineAppends, Leave, SpecialStarts, SpecialOpens, SpecialStops, SpecialsClose, SpecialDone,
              fileVars
<1>5. CASE Midnight \/ Restart \/ UNCHANGED vars
  BY <1>1, <1>5 DEF Midnight, Restart, vars, fileVars
<1> QED
  BY <1>1, <1>3, <1>4, <1>5 DEF Next

LEMMA ClockType ==
  ASSUME LogAssumption, TypeOK, ClockInv', clock' \in {clock, clock + 1}
  PROVE  clock' \in 1..(MaxLines + Cardinality(Threads))
<1>1. Count(pc', {"time"}) \in Nat /\ Cardinality(Threads) \in Nat
  BY CountType
<1>2. clock \in Nat /\ clock >= 1 /\ MaxLines \in Nat
  BY <1>1 DEF LogAssumption, TypeOK
<1> QED
  BY <1>1, <1>2 DEF ClockInv

LEMMA TypeStep ==
  ASSUME LogAssumption, TypeOK, LockInv, FdInv, SpecialInv, ClockInv', [Next]_vars
  PROVE  TypeOK'
<1> USE DEF TypeOK, Places, lockVars, fileVars, specialVars, timeVars
<1>1. ASSUME NEW t \in Threads, Enter(t) PROVE TypeOK'
  BY <1>1, ClockType DEF Enter, Goto, LockRead
<1>2. ASSUME NEW t \in Threads, TakesTime(t) PROVE TypeOK'
  BY <1>2, ClockType DEF TakesTime, Goto
<1>3. ASSUME NEW t \in Threads, FileFits(t) PROVE TypeOK'
  BY <1>3, ClockType DEF FileFits, Goto
<1>4. ASSUME NEW t \in Threads, RotationStarts(t) PROVE TypeOK'
  <2> DEFINE full == size[cur] >= MaxFileSize
  <2>1. stamp' \in [Threads -> [at : Nat, day : 0..MaxDay, full : BOOLEAN]]
    <3>1. stamp' = [stamp EXCEPT ![t].full = full] /\ full \in BOOLEAN
      BY <1>4 DEF RotationStarts
    <3> HIDE DEF full
    <3>2. [stamp[t] EXCEPT !.full = full] \in [at : Nat, day : 0..MaxDay, full : BOOLEAN]
      BY <3>1
    <3>3. stamp' = [stamp EXCEPT ![t] = [stamp[t] EXCEPT !.full = full]]
      BY <3>1
    <3> QED
      BY <3>2, <3>3
  <2>2. readers' \subseteq Threads /\ pc' \in [Threads -> Places]
    BY <1>4 DEF RotationStarts, Goto, UnlockRead
  <2>3. UNCHANGED <<day, clock, writer, cur, logDay, size, dir, special, handles, fd>>
    BY <1>4 DEF RotationStarts, UnlockRead
  <2> QED
    BY <2>1, <2>2, <2>3
<1>5. ASSUME NEW t \in Threads, RotationLocks(t) PROVE TypeOK'
  BY <1>5, ClockType DEF RotationLocks, Goto, LockWrite
<1>6. ASSUME NEW t \in Threads, RotationDone(t) PROVE TypeOK'
  BY <1>6, ClockType DEF RotationDone, Goto
<1>7. ASSUME NEW t \in Threads, Rotates(t) PROVE TypeOK'
  <2>1. stamp[t].at \in Nat /\ stamp[t].day \in 0..MaxDay
    OBVIOUS
  <2>2. /\ \A f \in DOMAIN size' : f \in Nat /\ size'[f] \in Nat
        /\ DOMAIN size \subseteq DOMAIN size'
        /\ dir' \cup {cur'} \subseteq DOMAIN size'
    <3>1. CASE cur' = stamp[t].at /\ size' = WithNew(cur')
      <4>1. DOMAIN size' = DOMAIN size \cup {cur'}
        BY <3>1 DEF WithNew
      <4>2. \A f \in DOMAIN size' : f \in Nat /\ size'[f] \in Nat
        BY <2>1, <3>1 DEF WithNew
      <4>3. dir' \subseteq dir \cup {cur'}
        BY <1>7 DEF Rotates
      <4> QED
        BY <4>1, <4>2, <4>3
    <3>2. CASE cur' = NoFile /\ size' = size /\ dir' = dir
      BY <3>2 DEF FdInv
    <3> QED
      BY <1>7, <3>1, <3>2 DEF Rotates
  <2>3. pc' \in [Threads -> Places]
    BY <1>7 DEF Rotates, Goto
  <2>4. logDay' \in {NoDay} \cup 0..MaxDay
    BY <1>7, <2>1 DEF Rotates
  <2>5. fd' \in [Threads -> DOMAIN size']
    BY <1>7, <2>2 DEF Rotates
  <2>6. UNCHANGED <<day, clock, readers, writer, special, handles, stamp>>
    BY <1>7 DEF Rotates
  <2> QED
    BY <2>2, <2>3, <2>4, <2>5, <2>6
<1>8. ASSUME NEW t \in Threads, RotationUnlocks(t) PROVE TypeOK'
  BY <1>8, ClockType DEF RotationUnlocks, Goto, UnlockWrite
<1>9. ASSUME NEW t \in Threads, ReadLockRestored(t) PROVE TypeOK'
  BY <1>9, ClockType DEF ReadLockRestored, Goto, LockRead
<1>10. ASSUME NEW t \in Threads, LineStarts(t) PROVE TypeOK'
  BY <1>10, ClockType, ZenonT(60) DEF LineStarts
<1>11. ASSUME NEW t \in Threads, SpecialAppends(t) PROVE TypeOK'
  BY <1>11, ClockType DEF SpecialAppends, Goto
<1>12. ASSUME NEW t \in Threads, LineReadsFd(t) PROVE TypeOK'
  BY <1>12, ClockType DEF LineReadsFd
<1>13. ASSUME NEW t \in Threads, LineAppends(t) PROVE TypeOK'
  <2>1. cur \in DOMAIN size /\ size' = [size EXCEPT ![cur] = @ + 1]
    BY <1>13 DEF LineAppends, Goto, FdInv
  <2>2. DOMAIN size' = DOMAIN size /\ \A f \in DOMAIN size' : f \in Nat /\ size'[f] \in Nat
    <3>1. DOMAIN size' = DOMAIN size
      BY <2>1
    <3>2. \A f \in DOMAIN size : size'[f] = IF f = cur THEN size[f] + 1 ELSE size[f]
      BY <2>1
    <3> QED
      BY <3>1, <3>2
  <2>3. fd' \in [Threads -> DOMAIN size']
    BY <1>13, <2>2 DEF LineAppends, FdInv
  <2>4. pc' \in [Threads -> Places]
    BY <1>13 DEF LineAppends, Goto
  <2>5. UNCHANGED <<day, clock, readers, writer, cur, logDay, dir, special, handles, stamp>>
    BY <1>13 DEF LineAppends
  <2> QED
    BY <2>2, <2>3, <2>4, <2>5
<1>14. ASSUME NEW t \in Threads, Leave(t) PROVE TypeOK'
  <2>1. stamp' \in [Threads -> [at : Nat, day : 0..MaxDay, full : BOOLEAN]]
    BY <1>14 DEF Leave, NoStamp, LogAssumption
  <2>2. readers' \subseteq Threads /\ pc' \in [Threads -> Places]
    BY <1>14 DEF Leave, Goto, UnlockRead
  <2>3. UNCHANGED <<day, clock, writer, cur, logDay, size, dir, special, handles, fd>>
    BY <1>14 DEF Leave, UnlockRead
  <2> QED
    BY <2>1, <2>2, <2>3
<1>15. ASSUME NEW t \in Threads, SpecialStarts(t) PROVE TypeOK'
  BY <1>15, ClockType DEF SpecialStarts, Goto, LockWrite
<1>16. ASSUME NEW t \in Threads, SpecialOpens(t) PROVE TypeOK'
  <2>1. special' \in [listed : BOOLEAN, disabled : BOOLEAN, size : Nat]
    <3>1. special' = NoSpecial \/ special' = [listed |-> TRUE, disabled |-> FALSE, size |-> 0]
      BY <1>16 DEF SpecialOpens
    <3>2. NoSpecial \in [listed : BOOLEAN, disabled : BOOLEAN, size : Nat]
      BY DEF NoSpecial
    <3>3. [listed |-> TRUE, disabled |-> FALSE, size |-> 0] \in [listed : BOOLEAN, disabled : BOOLEAN, size : Nat]
      OBVIOUS
    <3> QED
      BY <3>1, <3>2, <3>3
  <2>2. handles' \in Nat
    BY <1>16 DEF SpecialOpens, SpecialInv
  <2>3. pc' \in [Threads -> Places]
    BY <1>16 DEF SpecialOpens, Goto
  <2>4. UNCHANGED <<day, clock, readers, writer, cur, logDay, size, dir, stamp, fd>>
    BY <1>16 DEF SpecialOpens
  <2> QED
    BY <2>1, <2>2, <2>3, <2>4
<1>17. ASSUME NEW t \in Threads, SpecialStops(t) PROVE TypeOK'
  BY <1>17, ClockType DEF SpecialStops, Goto, LockWrite
<1>18. ASSUME NEW t \in Threads, SpecialsClose(t) PROVE TypeOK'
  <2>1. special' \in [listed : BOOLEAN, disabled : BOOLEAN, size : Nat]
    BY <1>18 DEF SpecialsClose, NoSpecial
  <2>2. handles' \in Nat
    BY <1>18 DEF SpecialsClose, SpecialInv
  <2>3. pc' \in [Threads -> Places]
    BY <1>18 DEF SpecialsClose, Goto
  <2>4. UNCHANGED <<day, clock, readers, writer, cur, logDay, size, dir, stamp, fd>>
    BY <1>18 DEF SpecialsClose
  <2> QED
    BY <2>1, <2>2, <2>3, <2>4
<1>19. ASSUME NEW t \in Threads, SpecialDone(t) PROVE TypeOK'
  BY <1>19, ClockType DEF SpecialDone, Goto, UnlockWrite
<1>20. CASE Midnight
  <2>1. day' \in 0..MaxDay
    BY <1>20 DEF Midnight, LogAssumption
  <2> QED
    BY <1>20, <2>1 DEF Midnight
<1>21. CASE Restart
  <2>1. stamp' \in [Threads -> [at : Nat, day : 0..MaxDay, full : BOOLEAN]]
    BY <1>21 DEF Restart, NoStamp, LogAssumption
  <2>2. special' \in [listed : BOOLEAN, disabled : BOOLEAN, size : Nat] /\ handles' \in Nat
    BY <1>21 DEF Restart, NoSpecial
  <2>3. fd' \in [Threads -> DOMAIN size'] /\ dir' \cup {cur'} \subseteq DOMAIN size' /\ size' = size
    BY <1>21 DEF Restart, FdInv
  <2>4. pc' \in [Threads -> Places]
    BY <1>21 DEF Restart
  <2> QED
    BY <1>21, <2>1, <2>2, <2>3, <2>4 DEF Restart
<1>22. CASE UNCHANGED vars
  BY <1>22 DEF vars
<1> QED
  BY <1>1, <1>2, <1>3, <1>4, <1>5, <1>6, <1>7, <1>8, <1>9, <1>10, <1>11, <1>12, <1>13, <1>14,
     <1>15, <1>16, <1>17, <1>18, <1>19, <1>20, <1>21, <1>22
     DEF Next, Line, SpecialLog

-----------------------------------------------------------------------------
(***************************************************************************)
(* The invariant, and what it implies                                      *)
(***************************************************************************)

LEMMA Initially ==
  ASSUME LogAssumption, Init
  PROVE  IInv
<1> USE DEF Init, ProcessStarts
<1>1. /\ MaxDay \in Nat /\ MaxLines \in Nat \ {0} /\ MaxFileSize \in Nat \ {0}
      /\ SpecialMax \in Nat /\ Cardinality(Threads) \in Nat
  BY CountType DEF LogAssumption
<1>2. Count(pc, {"time"}) = 0 /\ Count(pc, Committed) = 0
  <2>1. \A t \in Threads : pc[t] \notin {"time"} /\ pc[t] \notin Committed
    BY DEF Committed
  <2> QED
    BY <2>1, CountNone
<1>3. TypeOK
  <2>1. day \in 0..MaxDay /\ clock \in 1..(MaxLines + Cardinality(Threads))
    BY <1>1
  <2>2. NoSpecial \in [listed : BOOLEAN, disabled : BOOLEAN, size : Nat]
    BY DEF NoSpecial
  <2>3. NoStamp \in [at : Nat, day : 0..MaxDay, full : BOOLEAN]
    BY <1>1 DEF NoStamp
  <2>4. DOMAIN size = {NoFile} /\ size[NoFile] = 0 /\ NoFile \in Nat
    BY DEF NoFile
  <2> QED
    BY <2>1, <2>2, <2>3, <2>4 DEF TypeOK, Places
<1>4. LockInv
  BY DEF LockInv, Reading, Writing
<1>5. FdInv
  BY DEF FdInv
<1>6. ClockInv
  BY <1>1, <1>2 DEF ClockInv
<1>7. SizeInv
  BY <1>1, <1>2 DEF SizeInv
<1>8. SpecialInv
  BY DEF SpecialInv, NoSpecial
<1>9. DirInv
  <2>1. Cardinality(dir) = 0 /\ IsFiniteSet(dir)
    BY FS_EmptySet
  <2> QED
    BY <2>1, MaxNumFilesType DEF DirInv, FilesBounded
<1> QED
  BY <1>3, <1>4, <1>5, <1>6, <1>7, <1>8, <1>9 DEF IInv

\* The inductive invariant holds of every log.
THEOREM Invariance ==
  ASSUME LogAssumption
  PROVE  Spec => []IInv
<1>1. Init => IInv
  BY Initially
<1>2. IInv /\ [Next]_vars => IInv'
  BY LockStep, FdStep, ClockStep, SizeStep, SpecialStep, DirStep, TypeStep DEF IInv
<1> QED
  BY <1>1, <1>2, PTL DEF Spec

\* Every variable of the log holds a value of its type.
THEOREM TypeCorrect ==
  ASSUME LogAssumption
  PROVE  Spec => []TypeOK
<1>1. IInv => TypeOK
  BY DEF IInv
<1> QED
  BY <1>1, Invariance, PTL

\* No thread writes to a descriptor that another has closed: only a writer closes
\* one, and a thread reads it and writes to it under one read lock.
THEOREM NoneClosed ==
  ASSUME LogAssumption
  PROVE  Spec => []NoWriteToClosedFile
<1>1. IInv => NoWriteToClosedFile
  BY DEF IInv, FdInv, NoWriteToClosedFile
<1> QED
  BY <1>1, Invariance, PTL

\* A file outgrows its limit by fewer lines than there are threads: those that
\* looked at its size before the last that fitted.
THEOREM Sizes ==
  ASSUME LogAssumption
  PROVE  Spec => []SizesBounded
<1>1. IInv => SizesBounded
  <2> SUFFICES ASSUME IInv PROVE SizesBounded
    OBVIOUS
  <2>1. /\ MaxFileSize \in Nat /\ SpecialMax \in Nat /\ Cardinality(Threads) \in Nat
        /\ Count(pc, Committed) \in Nat /\ Count(pc, {"special"}) \in Nat
    BY CountType DEF LogAssumption
  <2>2. ASSUME MaxTotal # 0, NEW f \in DOMAIN size PROVE size[f] < MaxFileSize + Cardinality(Threads)
    <3>1. /\ size[f] \in Nat
          /\ size[f] + (IF f = cur THEN Count(pc, Committed) ELSE 0) < MaxFileSize + Cardinality(Threads)
      BY <2>2 DEF IInv, SizeInv, TypeOK
    <3> QED
      BY <2>1, <3>1
  <2>3. ASSUME special.listed PROVE special.size < SpecialMax + Cardinality(Threads)
    <3>1. /\ special.size \in Nat
          /\ special.size + Count(pc, {"special"}) < SpecialMax + Cardinality(Threads)
      BY <2>3 DEF IInv, SpecialInv, TypeOK
    <3> QED
      BY <2>1, <3>1
  <2> QED
    BY <2>2, <2>3 DEF SizesBounded
<1> QED
  BY <1>1, Invariance, PTL

\* The directory never keeps more files than allowed, whatever limit is set and
\* however often the process starts anew.
THEOREM Files ==
  ASSUME LogAssumption
  PROVE  Spec => []FilesBounded
<1>1. IInv => FilesBounded
  BY DEF IInv, DirInv
<1> QED
  BY <1>1, Invariance, PTL

\* A file is closed only when it is full or the day has changed: the thread that
\* closes it has looked at it again under the write lock.
THEOREM NoneClosedEarly == Spec => NoFileClosedEarly
<1>1. [Next]_vars => [cur # NoFile /\ cur' # cur /\ ~Restart
                        => size[cur] >= MaxFileSize \/ logDay' # logDay]_vars
  <2>1. ASSUME NEW t \in Threads, Rotates(t), cur # NoFile
        PROVE  size[cur] >= MaxFileSize \/ logDay' # logDay
    BY <2>1 DEF Rotates, Due
  <2>2. ASSUME NEW t \in Threads, Line(t) \/ SpecialLog(t), ~Rotates(t) PROVE cur' = cur
    BY <2>2 DEF Line, SpecialLog, Enter, TakesTime, FileFits, RotationStarts, RotationLocks,
                RotationDone, RotationUnlocks, ReadLockRestored, LineStarts, SpecialAppends, LineReadsFd,
                LineAppends, Leave, SpecialStarts, SpecialOpens, SpecialStops, SpecialsClose, SpecialDone,
                fileVars
  <2>3. CASE Midnight
    BY <2>3 DEF Midnight, fileVars
  <2> QED
    BY <2>1, <2>2, <2>3 DEF Next
<1> QED
  BY <1>1, PTL DEF Spec, NoFileClosedEarly

=============================================================================

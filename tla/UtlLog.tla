------------------------------- MODULE UtlLog -------------------------------
(***************************************************************************)
(* The log of Util/src/Utl_Log.cpp: threads that append lines to the       *)
(* current file under a read lock, and rotate the file under the write lock *)
(* when it is full or the day has changed.                                  *)
(*                                                                          *)
(* A file is named by the time of the line that made it; no two lines get   *)
(* the same microsecond.  Sizes count the lines of callers; the log's own   *)
(* remarks, a few hundred bytes of 512 K, are left out.  The process may    *)
(* end at any moment and start anew over the files it left.                 *)
(*                                                                          *)
(* A definition X_Y marked as a mutant is X with a bug (README.md).         *)
(***************************************************************************)
EXTENDS Integers, FiniteSets, FiniteSetsExt

CONSTANTS
  Threads,
  MaxFileSize,   \* UTL_LOG_MAX_FILE_SIZE, in lines
  MinFiles,      \* UTL_LOG_MIN_MAX_TOTAL_SIZE / UTL_LOG_MAX_FILE_SIZE, 5 in the code
  SetMax,        \* the argument of UTL_LOGSetMax in lines, or
  NotCalled,
  SpecialMax,    \* the limit of a special log in lines; 0: none is started
  OpenMayFail,   \* whether a log file may be impossible to open
  MaxDay,        \* bound on the days that pass
  MaxLines       \* bound on the lines logged

\* Nothing is asked of the file sizes a caller sets, but that they are sizes.
LogAssumption ==
  /\ IsFiniteSet(Threads)
  /\ MaxFileSize \in Nat \ {0} /\ MinFiles \in Nat \ {0}
  /\ SetMax = NotCalled \/ SetMax \in Nat
  /\ SpecialMax \in Nat
  /\ MaxDay \in Nat /\ MaxLines \in Nat \ {0}

NoFile == 0   \* UTLFILE_INVALID_HANDLE
NoDay  == -1

VARIABLES
  day, clock,      \* what UTLTime_GetCalendarTimeLocal will return next
  readers, writer, \* utl_logLock
  cur,             \* utl_logProcessFd: the file behind it
  logDay,
  size,            \* lines in every file made so far
  dir,             \* the files in the log directory
  special,         \* the special log in utl_specialLogFileList
  handles,         \* open descriptors of special logs
  pc, stamp, fd    \* each thread's place, currTime with the first look at the size, and the descriptor it writes to

lockVars    == <<readers, writer>>
fileVars    == <<cur, logDay, size, dir>>
specialVars == <<special, handles>>
timeVars    == <<day, clock>>
vars == <<timeVars, lockVars, fileVars, specialVars, pc, stamp, fd>>

NoStamp == [at |-> 0, day |-> 0, full |-> FALSE]

NoSpecial == [listed |-> FALSE, disabled |-> TRUE, size |-> 0]

\* UTL_LOGSetMax
MaxTotal ==
  IF SetMax = NotCalled THEN MinFiles * MaxFileSize
  ELSE IF SetMax = 0 THEN 0 ELSE Max({SetMax, MinFiles * MaxFileSize})
MaxNumFiles == IF SetMax = 0 THEN 3 ELSE MaxTotal \div MaxFileSize

ProcessStarts ==
  /\ readers = {} /\ writer = {}
  /\ cur = NoFile /\ logDay = NoDay
  /\ special = NoSpecial /\ handles = 0
  /\ pc = [t \in Threads |-> "idle"]
  /\ stamp = [t \in Threads |-> NoStamp]
  /\ fd = [t \in Threads |-> NoFile]

Init ==
  /\ day = 0 /\ clock = 1
  /\ size = [f \in {NoFile} |-> 0] /\ dir = {}
  /\ ProcessStarts

Goto(t, from, to) == pc[t] = from /\ pc' = [pc EXCEPT ![t] = to]

-----------------------------------------------------------------------------
(***************************************************************************)
(* The read-write lock                                                     *)
(***************************************************************************)
LockRead(t)    == writer = {} /\ readers' = readers \cup {t} /\ UNCHANGED writer
UnlockRead(t)  == readers' = readers \ {t} /\ UNCHANGED writer
LockWrite(t)   == writer = {} /\ readers = {} /\ writer' = {t} /\ UNCHANGED readers
UnlockWrite    == writer' = {} /\ UNCHANGED readers

-----------------------------------------------------------------------------
(***************************************************************************)
(* A line: UTL_LOGVPrint                                                   *)
(***************************************************************************)
Enter(t) ==
  /\ clock <= MaxLines
  /\ Goto(t, "idle", "time")
  /\ LockRead(t)
  /\ UNCHANGED <<timeVars, fileVars, specialVars, stamp, fd>>

TakesTime(t) ==
  /\ Goto(t, "time", "check")
  /\ stamp' = [stamp EXCEPT ![t] = [at |-> clock, day |-> day, full |-> FALSE]]
  /\ clock' = clock + 1
  /\ UNCHANGED <<day, lockVars, fileVars, specialVars, fd>>

\* The current file has to be replaced, as far as thread t's time tells.
\* (Without a file, the size that counts is the one seen at the first look.)
Due(t) ==
  \/ logDay # stamp[t].day
  \/ MaxTotal # 0 /\ IF cur = NoFile THEN stamp[t].full ELSE size[cur] >= MaxFileSize

\* Mutant: the size is not looked at.
FileFits_Always(t) ==
  /\ logDay = stamp[t].day
  /\ Goto(t, "check", "line")
  /\ UNCHANGED <<timeVars, lockVars, fileVars, specialVars, stamp, fd>>

FileFits(t) ==
  /\ ~Due(t)
  /\ Goto(t, "check", "line")
  /\ UNCHANGED <<timeVars, lockVars, fileVars, specialVars, stamp, fd>>

\* Mutant: the read lock is kept.
RotationStarts_Upgrading(t) ==
  /\ Due(t)
  /\ Goto(t, "check", "wantWrite")
  /\ UNCHANGED <<timeVars, lockVars, fileVars, specialVars, stamp, fd>>

RotationStarts(t) ==
  /\ Due(t)
  /\ Goto(t, "check", "wantWrite")
  /\ UnlockRead(t)
  /\ stamp' = [stamp EXCEPT ![t].full = (size[cur] >= MaxFileSize)]
  /\ UNCHANGED <<timeVars, fileVars, specialVars, fd>>

RotationLocks(t) ==
  /\ Goto(t, "wantWrite", "recheck")
  /\ LockWrite(t)
  /\ UNCHANGED <<timeVars, fileVars, specialVars, stamp, fd>>

\* Another thread has done it.
RotationDone(t) ==
  /\ ~Due(t)
  /\ Goto(t, "recheck", "unlockWrite")
  /\ UNCHANGED <<timeVars, lockVars, fileVars, specialVars, stamp, fd>>

\* The sizes with those of a new file f.
WithNew(f) == [g \in DOMAIN size \cup {f} |-> IF g = f THEN 0 ELSE size[g]]

TooMuch(files, sz) == MaxTotal # 0 /\ MapThenSumSet(LAMBDA f : sz[f], files) > MaxTotal

\* The files the purge deletes: those after the first MaxNumFiles, newest first;
\* only the oldest unless UTL_LOGSetMax was called or the sizes add up to too much.
\* Mutant: one file more is kept.
Purged_OneMore(files, sz) ==
  LET Newer(f) == Cardinality({g \in files : g > f})
  IN  {f \in files : Newer(f) > MaxNumFiles}

Purged(files, sz) ==
  LET Newer(f) == Cardinality({g \in files : g > f})
      extra    == {f \in files : Newer(f) >= MaxNumFiles}
  IN  IF SetMax \notin {NotCalled, 0} \/ TooMuch(files, sz) \/ extra = {} THEN extra ELSE {Min(extra)}

\* Mutant: no second look under the write lock.
Rotates_Blindly(t) ==
  /\ Goto(t, "recheck", "unlockWrite")
  /\ logDay' = stamp[t].day
  /\ cur' = stamp[t].at
  /\ size' = WithNew(cur')
  /\ dir' = (dir \cup {cur'}) \ Purged(dir \cup {cur'}, size')
  /\ UNCHANGED <<timeVars, lockVars, specialVars, stamp, fd>>

\* The old file is closed and the new one opened; logDay is set even if that fails.
Rotates(t) ==
  /\ Due(t)
  /\ Goto(t, "recheck", "unlockWrite")
  /\ logDay' = stamp[t].day
  /\ \/ /\ cur' = stamp[t].at
        /\ size' = WithNew(cur')
        /\ dir' = (dir \cup {cur'}) \ Purged(dir \cup {cur'}, size')
     \/ /\ OpenMayFail
        /\ cur' = NoFile
        /\ UNCHANGED <<size, dir>>
  /\ UNCHANGED <<timeVars, lockVars, specialVars, stamp, fd>>

RotationUnlocks(t) ==
  /\ Goto(t, "unlockWrite", "wantRead")
  /\ UnlockWrite
  /\ UNCHANGED <<timeVars, fileVars, specialVars, stamp, fd>>

\* Mutant: the line is written without the read lock.
ReadLockRestored_Not(t) ==
  /\ Goto(t, "wantRead", "line")
  /\ UNCHANGED <<timeVars, lockVars, fileVars, specialVars, stamp, fd>>

ReadLockRestored(t) ==
  /\ Goto(t, "wantRead", "line")
  /\ LockRead(t)
  /\ UNCHANGED <<timeVars, fileVars, specialVars, stamp, fd>>

-----------------------------------------------------------------------------
(***************************************************************************)
(* The line itself: UTL_log_vprint                                         *)
(***************************************************************************)
\* Mutant: the special log is never found full.
LineStarts_Unlimited(t) ==
  /\ pc[t] = "line"
  /\ pc' = [pc EXCEPT ![t] = IF special.disabled THEN "file" ELSE "special"]
  /\ UNCHANGED <<timeVars, lockVars, fileVars, specialVars, stamp, fd>>

LineStarts(t) ==
  /\ pc[t] = "line"
  /\ IF special.disabled
     THEN pc' = [pc EXCEPT ![t] = "file"] /\ UNCHANGED special
     ELSE IF special.size < SpecialMax
     THEN pc' = [pc EXCEPT ![t] = "special"] /\ UNCHANGED special
     ELSE pc' = [pc EXCEPT ![t] = "file"] /\ special' = [special EXCEPT !.disabled = TRUE]
  /\ UNCHANGED <<timeVars, lockVars, fileVars, handles, stamp, fd>>

SpecialAppends(t) ==
  /\ Goto(t, "special", "file")
  /\ special' = [special EXCEPT !.size = @ + 1]
  /\ UNCHANGED <<timeVars, lockVars, fileVars, handles, stamp, fd>>

LineReadsFd(t) ==
  /\ pc[t] = "file"
  /\ fd' = [fd EXCEPT ![t] = cur]
  /\ pc' = [pc EXCEPT ![t] = IF cur = NoFile THEN "leave" ELSE "append"]
  /\ UNCHANGED <<timeVars, lockVars, fileVars, specialVars, stamp>>

LineAppends(t) ==
  /\ Goto(t, "append", "leave")
  /\ size' = [size EXCEPT ![fd[t]] = @ + 1]
  /\ fd' = [fd EXCEPT ![t] = NoFile]
  /\ UNCHANGED <<timeVars, lockVars, cur, logDay, dir, specialVars, stamp>>

Leave(t) ==
  /\ Goto(t, "leave", "idle")
  /\ UnlockRead(t)
  /\ stamp' = [stamp EXCEPT ![t] = NoStamp]
  /\ UNCHANGED <<timeVars, fileVars, specialVars, fd>>

-----------------------------------------------------------------------------
(***************************************************************************)
(* Special logs.  One name is used, so starting one ends the one before.   *)
(***************************************************************************)
SpecialStarts(t) ==
  /\ SpecialMax > 0 /\ clock <= MaxLines
  /\ Goto(t, "idle", "start")
  /\ LockWrite(t)
  /\ clock' = clock + 1
  /\ UNCHANGED <<day, fileVars, specialVars, stamp, fd>>

\* Mutant: an entry is closed even if there is none.
SpecialOpens_Closing(t) ==
  /\ Goto(t, "start", "unlockOnly")
  /\ \/ special' = [listed |-> TRUE, disabled |-> FALSE, size |-> 0] /\ handles' = handles
     \/ OpenMayFail /\ special' = NoSpecial /\ handles' = handles - 1
  /\ UNCHANGED <<timeVars, lockVars, fileVars, stamp, fd>>

SpecialOpens(t) ==
  LET kept == IF special.listed THEN handles - 1 ELSE handles
  IN  /\ Goto(t, "start", "unlockOnly")
      /\ \/ special' = [listed |-> TRUE, disabled |-> FALSE, size |-> 0] /\ handles' = kept + 1
         \/ OpenMayFail /\ special' = NoSpecial /\ handles' = kept
      /\ UNCHANGED <<timeVars, lockVars, fileVars, stamp, fd>>

\* It does nothing if there is none.
SpecialStops(t) ==
  /\ special.listed
  /\ Goto(t, "idle", "stop")
  /\ LockWrite(t)
  /\ UNCHANGED <<timeVars, fileVars, specialVars, stamp, fd>>

\* A disabled entry is dropped with its descriptor open.
SpecialsClose(t) ==
  /\ Goto(t, "stop", "unlockOnly")
  /\ special' = NoSpecial
  /\ handles' = IF special.disabled THEN handles ELSE handles - 1
  /\ UNCHANGED <<timeVars, lockVars, fileVars, stamp, fd>>

SpecialDone(t) ==
  /\ Goto(t, "unlockOnly", "idle")
  /\ UnlockWrite
  /\ UNCHANGED <<timeVars, fileVars, specialVars, stamp, fd>>

-----------------------------------------------------------------------------

Midnight ==
  /\ day < MaxDay
  /\ day' = day + 1
  /\ UNCHANGED <<clock, lockVars, fileVars, specialVars, pc, stamp, fd>>

\* The process ends wherever its threads are, and UTL_LOGInit runs in a new one.
Restart ==
  /\ readers' = {} /\ writer' = {}
  /\ cur' = NoFile /\ logDay' = NoDay
  /\ special' = NoSpecial /\ handles' = 0
  /\ pc' = [t \in Threads |-> "idle"]
  /\ stamp' = [t \in Threads |-> NoStamp]
  /\ fd' = [t \in Threads |-> NoFile]
  /\ UNCHANGED <<timeVars, size, dir>>

Line(t) ==
  \/ Enter(t) \/ TakesTime(t) \/ FileFits(t)
  \/ RotationStarts(t) \/ RotationLocks(t) \/ RotationDone(t) \/ Rotates(t)
  \/ RotationUnlocks(t) \/ ReadLockRestored(t)
  \/ LineStarts(t) \/ SpecialAppends(t) \/ LineReadsFd(t) \/ LineAppends(t) \/ Leave(t)

SpecialLog(t) ==
  SpecialStarts(t) \/ SpecialOpens(t) \/ SpecialStops(t) \/ SpecialsClose(t) \/ SpecialDone(t)

Next ==
  \/ \E t \in Threads : Line(t) \/ SpecialLog(t)
  \/ Midnight \/ Restart

Spec == Init /\ [][Next]_vars

\* A call under way is carried on.  Nobody is promised the lock while others keep
\* taking it; that there are MaxLines lines says that they do not for ever.
Fairness == \A t \in Threads : WF_vars(pc[t] # "idle" /\ (Line(t) \/ SpecialLog(t)))

FairSpec == Spec /\ Fairness

-----------------------------------------------------------------------------
(***************************************************************************)
(* Properties                                                              *)
(***************************************************************************)
Places == {"idle", "time", "check", "wantWrite", "recheck", "unlockWrite", "wantRead", "line",
           "special", "file", "append", "leave", "start", "stop", "unlockOnly"}

\* Every variable of the log holds a value of its type.
TypeOK ==
  /\ day \in 0..MaxDay /\ clock \in 1..(MaxLines + Cardinality(Threads))
  /\ readers \subseteq Threads /\ writer \subseteq Threads
  /\ logDay \in {NoDay} \cup 0..MaxDay
  /\ \A f \in DOMAIN size : f \in Nat /\ size[f] \in Nat
  /\ dir \cup {cur} \subseteq DOMAIN size
  /\ special \in [listed : BOOLEAN, disabled : BOOLEAN, size : Nat] /\ handles \in Nat
  /\ pc \in [Threads -> Places]
  /\ stamp \in [Threads -> [at : Nat, day : 0..MaxDay, full : BOOLEAN]]
  /\ fd \in [Threads -> DOMAIN size]

\* The descriptor a thread writes a line to is not closed under it, although
\* the thread gave up its read lock on the way (Utl_Log.cpp:280-283, 425-426, 543-546).
NoWriteToClosedFile == \A t \in Threads : pc[t] = "append" => fd[t] = cur

\* A file, and a special log, outgrows its limit by one line per other thread at most:
\* the size is looked at by each thread before its line, not while it writes
\* (Utl_Log.cpp:265-268, 411-423).
SizesBounded ==
  LET Bounded(limit, n) == n < limit + Cardinality(Threads)
  IN  /\ MaxTotal # 0 => \A f \in DOMAIN size : Bounded(MaxFileSize, size[f])
      /\ special.listed => Bounded(SpecialMax, special.size)

\* The directory never keeps more files than allowed, over restarts and however
\* threads rotate (Utl_Log.cpp:516-533, 764-786).
FilesBounded == Cardinality(dir) <= MaxNumFiles

\* A file is closed only when it is full or the day has changed: threads that find
\* it full together replace it once (Utl_Log.cpp:429-443).
NoFileClosedEarly ==
  [][cur # NoFile /\ cur' # cur /\ ~Restart => size[cur] >= MaxFileSize \/ logDay' # logDay]_vars

\* Every call returns, whatever it has to rotate, once the other threads pause: no
\* thread waits for the write lock with the read lock held, or the other way round
\* (Utl_Log.cpp:425-426, 543-546).
EveryCallReturns == \A t \in Threads : pc[t] # "idle" ~> pc[t] = "idle"

=============================================================================

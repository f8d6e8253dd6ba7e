\* The mutex with three threads, two levels deep; the log with two threads, three
\* lines in files of one, two files kept, a special log of one line, midnight,
\* restarts, and files that cannot be opened.
\* Up to three threads of a process started at some real-time priorities or none.
\* An endpoint of up to three connections, two listens and two starts of its accept loop.
SPECIFICATION PartSpec
CONSTANTS
  Threads = {t1, t2, t3}
  NoThread = NoThread
  MaxDepth = 2
  LogThreads = {u1, u2}
  MaxFileSize = 1
  MinFiles = 2
  SetMax = NotCalled
  NotCalled = NotCalled
  SpecialMax = 1
  OpenMayFail = TRUE
  MaxDay = 1
  MaxLines = 3
  Native = {1, 50, 99}
  MaxThreads = 3
INVARIANTS
  TypeOK
  LockedSelfRight
  LogTypeOK
  NoWriteToClosedFile
  FilesBounded
  ThreadsRight
  EndpointRight
PROPERTIES
  LockSpec
  LockPassedOn
  NoFileClosedEarly
  EveryCallReturns
CHECK_DEADLOCK FALSE

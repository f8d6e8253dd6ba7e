----------------------------- MODULE StateReport -----------------------------
(***************************************************************************)
(* The report of tmate's state (MainSrc/WebSocketClient.cpp,               *)
(* Plugins/TmatePlugin.cpp, scripts/states).  NotifyDataThread runs a      *)
(* script that writes what tmate is doing to an output file, tells by the  *)
(* file's modification time, in whole seconds, whether it has changed, and *)
(* if so sends what the file says.  NotifyCommandThread runs the same      *)
(* script after every command, reads the same file for its                 *)
(* acknowledgement, and asks the data thread for a report by a global      *)
(* flag.  No lock guards files or flags.                                   *)
(*                                                                         *)
(* One of the five state files, over one client while it is connected.     *)
(* The script keeps the output file until its result differs: it writes to *)
(* a second file and renames that one.  An open descriptor follows the     *)
(* file, not the name, so files are nodes here and the two names refer to  *)
(* them.                                                                   *)
(*                                                                         *)
(* A definition X_Y marked as a mutant is X with a bug (README.md).        *)
(***************************************************************************)
EXTENDS Naturals, FiniteSets

CONSTANTS
  Values,   \* what tmate's state may be
  Period,   \* turns of the data thread between two checks; 20 in the code
  Overlaps, \* bound: may a command be executed during a check, or in the same second?
  Quiet,    \* bound: if it may, does everything but the two threads keep still?
  Signal    \* bound: may the user stop the plugIN, if commands and checks keep apart?

ASSUME ReportAssumption ==
  /\ Period \in Nat \ {0, 1}
  /\ Overlaps \subseteq BOOLEAN /\ Quiet \in BOOLEAN /\ Signal \in BOOLEAN
  /\ {"", "torn", "unknown"} \cap Values = {}

Threads == {"data", "command"}

\* A name that refers to no file.  Three files are enough: the one behind each
\* name and one more that a script may still hold open.
Missing == 0
Nodes == 1..3

VARIABLES
  overlap,   \* whether commands and checks may overlap, for the whole behaviour
  truth,     \* what tmate is doing
  content,   \* what each file says; "" when it has been truncated
  mtime,     \* the second it was last written in
  current,   \* the file named <state>.current
  output,    \* the file named <state>.output
  spc,       \* where each thread's run of the script is
  fd,        \* the file it writes to
  now,       \* the current second
  stamp,     \* statusTime, versionTime ...: the mtime last seen
  dpc,       \* where NotifyDataThread is
  changed,   \* fileChanges
  count,     \* stateCount, modulo Period
  cpc,       \* where NotifyCommandThread is after a command's own script
  read,      \* what each thread has read from the output file
  needCheck, \* needCheckStates
  needSend,  \* needSendStates
  updated,   \* IsUpdated()
  sigint,    \* gotSigInt
  ended,     \* m_endWebSocket
  stopped,   \* main has closed the session
  reported   \* what the agent was told last

fileVars   == <<content, mtime, current, output, now, stamp>>
scriptVars == <<spc, fd>>
dataVars   == <<dpc, changed, count>>
flagVars   == <<needCheck, needSend>>
stopVars   == <<overlap, sigint, ended, stopped>>
vars == <<truth, fileVars, scriptVars, dataVars, cpc, read, flagVars, updated, stopVars, reported>>

\* What may overlap is explored with one text of tmate's, any other left in the
\* output file, a registration that lasts and no update that asks for a check.
Alone == Quiet /\ overlap

\* An output file may be left from an earlier run of the plugIN.
Init ==
  /\ overlap \in Overlaps
  /\ truth \in Values /\ (Alone => truth = CHOOSE v \in Values : TRUE)
  /\ \/ output = Missing /\ content = [n \in Nodes |-> ""]
     \/ output = 1 /\ \E v \in Values : content = [n \in Nodes |-> IF n = 1 THEN v ELSE ""]
  /\ mtime = [n \in Nodes |-> IF n = output THEN 1 ELSE 0]
  /\ now = 2 /\ stamp = 0
  /\ current = Missing
  /\ spc = [t \in Threads |-> "idle"] /\ fd = [t \in Threads |-> Missing]
  /\ dpc = "turn" /\ changed = FALSE /\ count = 0
  /\ cpc = "idle" /\ read = [t \in Threads |-> ""]
  /\ needCheck = FALSE /\ needSend = FALSE /\ updated = FALSE
  /\ sigint = FALSE /\ ended = FALSE /\ stopped = FALSE
  /\ reported = "unknown"

-----------------------------------------------------------------------------

\* Seconds matter only by their order, so that those in use are renumbered from
\* 0 whenever the clock moves and the clock needs no bound.
Seconds == {stamp} \cup {mtime[n] : n \in Nodes}
Rank(s) == Cardinality({u \in Seconds : u < s})

SecondPasses ==
  /\ stamp' = Rank(stamp)
  /\ mtime' = [n \in Nodes |-> Rank(mtime[n])]
  /\ now' = Cardinality(Seconds)

\* Writing v to file n.
Write(n, v) ==
  /\ content' = [content EXCEPT ![n] = v]
  /\ mtime' = [mtime EXCEPT ![n] = now]

-----------------------------------------------------------------------------
(***************************************************************************)
(* A run of the script by thread t: UpdateStates, RunStatesScript.         *)
(***************************************************************************)

ScriptGoto(t, from, to) == ~stopped /\ spc[t] = from /\ spc' = [spc EXCEPT ![t] = to]

\* exec > CURRENT truncates the file of that name or creates one.
ScriptOpens(t) ==
  /\ ScriptGoto(t, "open", "write")
  /\ LET inUse == {output} \cup {fd[u] : u \in Threads}
         n == IF current # Missing THEN current
              ELSE CHOOSE m \in Nodes : m \notin inUse
     IN Write(n, "") /\ current' = n /\ fd' = [fd EXCEPT ![t] = n]
  /\ UNCHANGED <<truth, output, now, stamp, dataVars, cpc, read, flagVars, updated, stopVars, reported>>

\* What tmate is doing now is written from the start of the file; over another
\* text that a second run has put there, the two may mix.
ScriptWrites(t) ==
  /\ ScriptGoto(t, "write", "compare")
  /\ \/ Write(fd[t], truth)
     \/ content[fd[t]] \notin {"", truth} /\ Write(fd[t], "torn")
  /\ UNCHANGED <<truth, current, output, fd, now, stamp, dataVars, cpc, read, flagVars,
                 updated, stopVars, reported>>

\* A file that is missing differs.
ScriptCompares(t) ==
  /\ LET same == output # Missing /\ current # Missing /\ content[output] = content[current]
     IN \/ same /\ ScriptGoto(t, "compare", "done")
        \/ ~same /\ ScriptGoto(t, "compare", "move")
  /\ UNCHANGED <<truth, fileVars, fd, dataVars, cpc, read, flagVars, updated, stopVars, reported>>

\* What file n says no longer matters: no name refers to it.
Forget(n) ==
  /\ content' = [m \in Nodes |-> IF m = n THEN "" ELSE content[m]]
  /\ mtime' = [m \in Nodes |-> IF m = n THEN 0 ELSE mtime[m]]

\* Mutant: the output file is deleted first, whether or not there is one to move.
ScriptMoves_Deleting(t) ==
  /\ ScriptGoto(t, "move", "done")
  /\ Forget(output) /\ output' = current /\ current' = Missing
  /\ UNCHANGED <<truth, now, stamp, fd, dataVars, cpc, read, flagVars, updated, stopVars, reported>>

\* mv does nothing when a second run has already moved the file away.
ScriptMoves(t) ==
  /\ ScriptGoto(t, "move", "done")
  /\ \/ current # Missing /\ output' = current /\ Forget(output)
     \/ current = Missing /\ UNCHANGED <<output, content, mtime>>
  /\ current' = Missing
  /\ UNCHANGED <<truth, now, stamp, fd, dataVars, cpc, read, flagVars, updated, stopVars, reported>>

ScriptStep(t) ==
  ScriptOpens(t) \/ ScriptWrites(t) \/ ScriptCompares(t) \/ ScriptMoves(t)

\* Mutant: the thread that runs the script is detached.
Joins_Not(t) ==
  /\ spc' = [spc EXCEPT ![t] = "idle"]
  /\ fd' = [fd EXCEPT ![t] = Missing]

\* th1.join()
Joins(t) ==
  /\ spc[t] = "done"
  /\ spc' = [spc EXCEPT ![t] = "idle"]
  /\ fd' = [fd EXCEPT ![t] = Missing]

\* GetStatesOutput: a file that is missing reads as the empty text.
Reads(t) == read' = [read EXCEPT ![t] = IF output = Missing THEN "" ELSE content[output]]

-----------------------------------------------------------------------------
(***************************************************************************)
(* NotifyDataThread                                                        *)
(***************************************************************************)

DataGoto(from, to) == ~stopped /\ dpc = from /\ dpc' = to

CheckDue == count = 1 \/ needCheck

DataBegins ==
  /\ \/ /\ updated /\ CheckDue
        /\ overlap \/ cpc = "idle"
        /\ DataGoto("turn", "scripts")
        /\ spc' = [spc EXCEPT !["data"] = "open"]
     \/ /\ updated /\ ~CheckDue
        /\ DataGoto("turn", "test")
        /\ UNCHANGED spc
     \/ /\ ~updated
        /\ DataGoto("turn", "end")
        /\ UNCHANGED spc
  /\ changed' = FALSE
  /\ UNCHANGED <<truth, fileVars, fd, count, cpc, read, flagVars, updated, stopVars, reported>>

DataJoins ==
  /\ DataGoto("scripts", "stat")
  /\ Joins("data")
  /\ UNCHANGED <<truth, fileVars, changed, count, cpc, read, flagVars, updated, stopVars, reported>>

\* Mutant: a change is noted but no report is asked for.
DataStats_Silently ==
  /\ DataGoto("stat", "checked")
  /\ output # Missing
  /\ changed' = (mtime[output] > stamp)
  /\ stamp' = IF changed' THEN mtime[output] ELSE stamp
  /\ UNCHANGED <<needSend, truth, content, mtime, current, output, now, scriptVars, count, cpc, read,
                 needCheck, updated, stopVars, reported>>

\* IsStateFilesChanged.  FileIsModified exits the program when there is no such
\* file; see OutputThere.
DataStats ==
  /\ DataGoto("stat", "checked")
  /\ output # Missing
  /\ changed' = (mtime[output] > stamp)
  /\ stamp' = IF changed' THEN mtime[output] ELSE stamp
  /\ needSend' = (needSend \/ changed')
  /\ UNCHANGED <<truth, content, mtime, current, output, now, scriptVars, count, cpc, read,
                 needCheck, updated, stopVars, reported>>

DataClearsCheck ==
  /\ DataGoto("checked", "test")
  /\ needCheck' = FALSE
  /\ UNCHANGED <<truth, fileVars, scriptVars, changed, count, cpc, read, needSend, updated,
                 stopVars, reported>>

\* SendNotifyPluginStates returns at once when nothing has changed in this turn.
DataTests ==
  /\ \/ sigint /\ changed /\ DataGoto("test", "lastRead")
     \/ sigint /\ ~changed /\ DataGoto("test", "end")
     \/ ~sigint /\ needSend /\ changed /\ DataGoto("test", "read")
     \/ ~sigint /\ needSend /\ ~changed /\ DataGoto("test", "flag")
     \/ ~sigint /\ ~needSend /\ DataGoto("test", "end")
  /\ UNCHANGED <<truth, fileVars, scriptVars, changed, count, cpc, read, flagVars, updated,
                 stopVars, reported>>

DataReads ==
  /\ DataGoto("read", "send") \/ DataGoto("lastRead", "lastSend")
  /\ Reads("data")
  /\ UNCHANGED <<truth, fileVars, scriptVars, changed, count, cpc, flagVars, updated, stopVars, reported>>

DataSends ==
  /\ DataGoto("send", "flag") \/ DataGoto("lastSend", "end")
  /\ reported' = read["data"]
  /\ read' = [read EXCEPT !["data"] = ""]
  /\ UNCHANGED <<truth, fileVars, scriptVars, changed, count, cpc, flagVars, updated, stopVars>>

DataClearsSend ==
  /\ DataGoto("flag", "end")
  /\ needSend' = FALSE
  /\ UNCHANGED <<truth, fileVars, scriptVars, changed, count, cpc, read, needCheck, updated,
                 stopVars, reported>>

\* The signal is passed on to the client.
DataEnds ==
  /\ DataGoto("end", "sleep")
  /\ ended' = (ended \/ sigint)
  /\ UNCHANGED <<truth, fileVars, scriptVars, changed, count, cpc, read, flagVars, updated, overlap,
                 sigint, stopped, reported>>

\* Mutant: stateCount is never brought back.
DataSleeps_Counting ==
  /\ DataGoto("sleep", "turn")
  /\ SecondPasses
  /\ count' = count + 1
  /\ UNCHANGED <<truth, content, current, output, scriptVars, changed, cpc, read, flagVars,
                 updated, stopVars, reported>>

\* sleep(3)
DataSleeps ==
  /\ DataGoto("sleep", "turn")
  /\ SecondPasses
  /\ count' = (count + 1) % Period
  /\ UNCHANGED <<truth, content, current, output, scriptVars, changed, cpc, read, flagVars,
                 updated, stopVars, reported>>

DataStep ==
  \/ DataBegins \/ DataJoins \/ DataStats \/ DataClearsCheck \/ DataTests
  \/ DataReads \/ DataSends \/ DataClearsSend \/ DataEnds \/ DataSleeps

-----------------------------------------------------------------------------
(***************************************************************************)
(* NotifyCommandThread, from the execution of a command on                 *)
(* (SendNotifyPluginCommandAcks, lines 91-118).                            *)
(***************************************************************************)

CommandGoto(from, to) == ~stopped /\ cpc = from /\ cpc' = to

\* The command's own script does to tmate what it likes.
CommandExecutes ==
  /\ CommandGoto("idle", "scripts")
  /\ updated
  /\ overlap \/ (dpc = "sleep" /\ stamp < now)
  /\ ~sigint
  /\ truth' \in Values /\ (Alone => truth' = truth)
  /\ spc' = [spc EXCEPT !["command"] = "open"]
  /\ UNCHANGED <<fileVars, fd, dataVars, read, flagVars, updated, stopVars, reported>>

CommandJoins ==
  /\ CommandGoto("scripts", "read")
  /\ Joins("command")
  /\ UNCHANGED <<truth, fileVars, dataVars, read, flagVars, updated, stopVars, reported>>

CommandReads ==
  /\ CommandGoto("read", "ack")
  /\ Reads("command")
  /\ UNCHANGED <<truth, fileVars, scriptVars, dataVars, flagVars, updated, stopVars, reported>>

\* Only the acknowledgement of a success carries the states.
CommandAcknowledges ==
  /\ CommandGoto("ack", "flag")
  /\ reported' \in {reported, read["command"]}
  /\ read' = [read EXCEPT !["command"] = ""]
  /\ UNCHANGED <<truth, fileVars, scriptVars, dataVars, flagVars, updated, stopVars>>

CommandAsksForReport ==
  /\ CommandGoto("flag", "idle")
  /\ needSend' = TRUE
  /\ UNCHANGED <<truth, fileVars, scriptVars, dataVars, read, needCheck, updated, stopVars, reported>>

CommandStep ==
  CommandJoins \/ CommandReads \/ CommandAcknowledges \/ CommandAsksForReport

-----------------------------------------------------------------------------
(***************************************************************************)
(* The others                                                              *)
(***************************************************************************)

\* The registration thread sets the flag, an error -32000 clears it.
RegistrationChanges ==
  /\ ~stopped /\ ~(Alone /\ updated)
  /\ updated' = ~updated
  /\ UNCHANGED <<truth, fileVars, scriptVars, dataVars, cpc, read, flagVars, stopVars, reported>>

\* NotifyUpdateThread after an update it sent.
UpdateAsksForCheck ==
  /\ ~stopped /\ ~Alone /\ updated
  /\ needCheck' = TRUE
  /\ UNCHANGED <<truth, fileVars, scriptVars, dataVars, cpc, read, needSend, updated, stopVars, reported>>

\* The user of the device opens or closes a session.  stopPlugin.sh closes it
\* before it sends the signal; nothing changes afterwards.
TmateChanges ==
  /\ ~stopped /\ ~Alone /\ ~sigint
  /\ truth' \in Values \ {truth}
  /\ UNCHANGED <<fileVars, scriptVars, dataVars, cpc, read, flagVars, updated, stopVars, reported>>

ClockTicks ==
  /\ ~stopped
  /\ SecondPasses
  /\ UNCHANGED <<truth, content, current, output, scriptVars, dataVars, cpc, read, flagVars,
                 updated, stopVars, reported>>

Interrupt ==
  /\ Signal /\ ~overlap /\ ~stopped /\ ~sigint
  /\ sigint' = TRUE
  /\ UNCHANGED <<truth, fileVars, scriptVars, dataVars, cpc, read, flagVars, updated, overlap,
                 ended, stopped, reported>>

\* main leaves its loop and closes the session.
MainStops ==
  /\ ended /\ ~stopped
  /\ stopped' = TRUE
  /\ UNCHANGED <<truth, fileVars, scriptVars, dataVars, cpc, read, flagVars, updated, overlap,
                 sigint, ended, reported>>

Next ==
  \/ DataStep
  \/ CommandExecutes \/ CommandStep
  \/ \E t \in Threads : ScriptStep(t)
  \/ RegistrationChanges \/ UpdateAsksForCheck \/ TmateChanges \/ ClockTicks
  \/ Interrupt \/ MainStops

Spec == Init /\ [][Next]_vars

\* The scheduler runs the threads and the scripts.  Nothing is assumed of the
\* agent, of the user and of tmate.
FairSpec ==
  /\ Spec
  /\ WF_vars(DataStep) /\ WF_vars(CommandStep)
  /\ \A t \in Threads : WF_vars(ScriptStep(t))

-----------------------------------------------------------------------------
(***************************************************************************)
(* Properties                                                              *)
(***************************************************************************)

Texts == Values \cup {"", "torn"}

\* Every variable of the report holds a value of its type.
TypeOK ==
  /\ overlap \in BOOLEAN /\ truth \in Values
  /\ content \in [Nodes -> Texts] /\ mtime \in [Nodes -> 0..4]
  /\ now \in 0..4 /\ stamp \in 0..4
  /\ current \in Nodes \cup {Missing} /\ output \in Nodes \cup {Missing}
  /\ spc \in [Threads -> {"idle", "open", "write", "compare", "move", "done"}]
  /\ fd \in [Threads -> Nodes \cup {Missing}]
  /\ dpc \in {"turn", "scripts", "stat", "checked", "test", "read", "send", "lastRead",
              "lastSend", "flag", "end", "sleep"}
  /\ changed \in BOOLEAN /\ count \in 0..(Period - 1)
  /\ cpc \in {"idle", "scripts", "read", "ack", "flag"}
  /\ read \in [Threads -> Texts]
  /\ needCheck \in BOOLEAN /\ needSend \in BOOLEAN /\ updated \in BOOLEAN
  /\ sigint \in BOOLEAN /\ ended \in BOOLEAN /\ stopped \in BOOLEAN
  /\ reported \in Texts \cup {"unknown"}

\* The output file is there when the data thread asks for its mtime, whatever
\* the command thread's run of the script does to the two names meanwhile:
\* FileIsModified (TmatePlugin.cpp:492-496) exits the program when it is not.
OutputThere == dpc = "stat" => output # Missing

\* README.md:99 says "status.sh - To get the tmate current status, i.e. Not
\* running, Open and Closed": what the agent is told is one of these, not what a
\* file says that is missing, was just truncated or was written by two runs of
\* the script (TmatePlugin.cpp:362-382 against 150-186).
ReportsWhole == reported \in Values \cup {"unknown"}

\* So it is when a command's run of the script is not at work during the data
\* thread's: whoever reads then reads what a finished run has left
\* (WebSocketClient.cpp:91-118, 519-560).
WholeIfApart == ~overlap => ReportsWhole

\* README.md:77 says "_states_ will be updated [...] every 60 seconds during the
\* plugIN is alive": what tmate is doing is reported if it goes on long enough
\* and the plugIN stays registered (WebSocketClient.cpp:519-560).  When runs of
\* the script overlap, it need not be: a change within the second of the last
\* look leaves the mtime that was seen.
ChangeReported ==
  \A v \in Values :
    (~overlap /\ truth = v /\ updated) ~> (reported = v \/ truth # v \/ ~updated \/ stopped)

\* README.md:77 says "_states_ will be updated once the plugIN is running and
\* before it was stopped", and WebSocketClient.cpp:543 of the turn that sees the
\* signal "Update the latest states status and exit the program": a plugIN that
\* is registered and has reported before, and has seen the signal when its last
\* turn begins, reports in that turn what tmate has done since.
ReportedBeforeStop ==
  \A v \in Values :
    (/\ ~overlap /\ updated /\ reported # "unknown" /\ truth = v
     /\ dpc = "turn" /\ sigint /\ ~ended)
      ~> (reported = v \/ ~updated)
=============================================================================

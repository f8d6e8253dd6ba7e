--------------------------- MODULE StateReport_proofs ---------------------------
(***************************************************************************)
(* What holds of StateReport for any set of texts and any period of the     *)
(* checks: always, and when a command and a check keep out of each other's  *)
(* way.                                                                    *)
(***************************************************************************)
EXTENDS StateReport, FiniteSetTheorems, TLAPS

\* A thread has its script run while it waits for it, and the script has a file
\* open from its first redirection on.
ScriptInv ==
  /\ spc["data"] # "idle" <=> dpc = "scripts"
  /\ spc["command"] # "idle" <=> cpc = "scripts"
  /\ \A t \in Threads : fd[t] = Missing <=> spc[t] \in {"idle", "open"}

\* A run of the script leaves an output file, its own or that of the other run:
\* the name only passes from one file to the next.
OutputInv ==
  /\ \A t \in Threads :
       /\ spc[t] \in {"write", "compare", "move"} => current # Missing \/ output # Missing
       /\ spc[t] = "done" => output # Missing
  /\ OutputThere

IInv == TypeOK /\ ScriptInv /\ OutputInv

\* One script at a time: what it writes is not yet under the name that is read.
WritingInv ==
  /\ dpc = "scripts" => cpc = "idle"
  /\ current # Missing => current # output
  /\ \A t \in Threads :
       /\ spc[t] \in {"write", "compare", "move"} => current # Missing /\ fd[t] = current
       /\ spc[t] = "write" => content[current] = ""
       /\ spc[t] \in {"compare", "move"} => content[current] \in Values

\* What is read is what a script has written, and so is what is sent.
ReadingInv ==
  /\ output # Missing => content[output] \in Values
  /\ changed => output # Missing
  /\ dpc \in {"read", "lastRead"} => changed
  /\ cpc = "read" => output # Missing
  /\ dpc \in {"send", "lastSend"} => read["data"] \in Values
  /\ cpc = "ack" => read["command"] \in Values
  /\ ReportsWhole

ApartInv == ~overlap => WritingInv /\ ReadingInv

-----------------------------------------------------------------------------

\* At most four seconds are in use, and they are renumbered below four.
LEMMA SecondsFew ==
  /\ IsFiniteSet(Seconds) /\ Cardinality(Seconds) \in 0..4
  /\ \A s : Rank(s) \in 0..4
<1>1. Seconds = {stamp, mtime[1], mtime[2], mtime[3]}
  BY DEF Seconds, Nodes
<1>2. IsFiniteSet({stamp}) /\ Cardinality({stamp}) = 1
  BY FS_Singleton
<1>3. IsFiniteSet({stamp, mtime[1]}) /\ Cardinality({stamp, mtime[1]}) \in 0..2
  <2>1. {stamp, mtime[1]} = {stamp} \cup {mtime[1]}
    OBVIOUS
  <2> QED
    BY <1>2, <2>1, FS_AddElement
<1>4. IsFiniteSet({stamp, mtime[1], mtime[2]}) /\ Cardinality({stamp, mtime[1], mtime[2]}) \in 0..3
  <2>1. {stamp, mtime[1], mtime[2]} = {stamp, mtime[1]} \cup {mtime[2]}
    OBVIOUS
  <2> QED
    BY <1>3, <2>1, FS_AddElement
<1>5. IsFiniteSet(Seconds) /\ Cardinality(Seconds) \in 0..4
  <2>1. Seconds = {stamp, mtime[1], mtime[2]} \cup {mtime[3]}
    BY <1>1
  <2> QED
    BY <1>4, <2>1, FS_AddElement
<1>6. ASSUME NEW s PROVE Rank(s) \in 0..4
  <2>1. {u \in Seconds : u < s} \subseteq Seconds
    OBVIOUS
  <2>2. /\ IsFiniteSet({u \in Seconds : u < s})
        /\ Cardinality({u \in Seconds : u < s}) <= Cardinality(Seconds)
    BY <1>5, <2>1, FS_Subset
  <2>3. Cardinality({u \in Seconds : u < s}) \in Nat
    BY <2>2, FS_CardinalityType
  <2> QED
    BY <1>5, <2>2, <2>3 DEF Rank
<1> QED
  BY <1>5, <1>6

LEMMA NoNode == Missing \notin Nodes /\ 1 \in Nodes /\ 1 # Missing
  BY DEF Missing, Nodes

\* A script opens the file named <state>.current or one that nobody uses.
LEMMA Opened ==
  ASSUME TypeOK, ScriptInv, NEW t \in Threads, ScriptOpens(t)
  PROVE  /\ spc[t] = "open" /\ spc' = [spc EXCEPT ![t] = "write"]
         /\ current' \in Nodes /\ fd' = [fd EXCEPT ![t] = current']
         /\ current # Missing => current' = current
         /\ current = Missing => current' # output
         /\ content' = [content EXCEPT ![current'] = ""]
         /\ mtime' = [mtime EXCEPT ![current'] = now]
         /\ UNCHANGED <<truth, output, now, stamp, dpc, changed, count, cpc, read, needCheck,
                        needSend, updated, overlap, sigint, ended, stopped, reported>>
<1> DEFINE inUse == {output} \cup {fd[u] : u \in Threads}
           free == CHOOSE m \in Nodes : m \notin inUse
<1>1. spc[t] = "open" /\ fd[t] = Missing
  BY DEF ScriptOpens, ScriptGoto, ScriptInv
<1>2. PICK a : inUse \subseteq {output, Missing, a}
  BY <1>1 DEF Threads
<1>3. \E m \in Nodes : m \notin inUse
  BY <1>2 DEF Nodes, Missing
<1>4. free \in Nodes /\ free \notin inUse
  BY <1>3
<1>5. \E n \in Nodes :
        /\ n = IF current # Missing THEN current ELSE free
        /\ Write(n, "") /\ current' = n /\ fd' = [fd EXCEPT ![t] = n]
  BY <1>4 DEF ScriptOpens, TypeOK
<1> HIDE DEF inUse, free
<1>6. output \in inUse
  BY DEF inUse
<1> QED
  BY <1>1, <1>4, <1>5, <1>6 DEF ScriptOpens, ScriptGoto, Write, dataVars, flagVars, stopVars

LEMMA ReadsType ==
  ASSUME TypeOK, NEW t \in Threads, Reads(t)
  PROVE  read' \in [Threads -> Texts]
<1>1. output # Missing => content[output] \in Texts
  BY DEF TypeOK
<1>2. "" \in Texts
  BY DEF Texts
<1> QED
  BY <1>1, <1>2 DEF TypeOK, Reads

\* Forgetting a file leaves every file a text and a second.
LEMMA ForgetType ==
  ASSUME NEW n
  PROVE  TypeOK /\ Forget(n) => content' \in [Nodes -> Texts] /\ mtime' \in [Nodes -> 0..4]
<1> SUFFICES ASSUME TypeOK, Forget(n)
             PROVE  content' \in [Nodes -> Texts] /\ mtime' \in [Nodes -> 0..4]
  OBVIOUS
<1>1. "" \in Texts /\ content \in [Nodes -> Texts]
  BY DEF Texts, TypeOK
<1>2. 0 \in 0..4 /\ mtime \in [Nodes -> 0..4]
  BY DEF TypeOK
<1>3. /\ content' = [m \in Nodes |-> IF m = n THEN "" ELSE content[m]]
      /\ mtime' = [m \in Nodes |-> IF m = n THEN 0 ELSE mtime[m]]
  BY DEF Forget
<1>4. content' \in [Nodes -> Texts]
  BY <1>1, <1>3
<1>5. mtime' \in [Nodes -> 0..4]
  BY <1>2, <1>3
<1> QED
  BY <1>4, <1>5

\* The types in five parts, of which a step changes one or two.
FileTypes ==
  /\ content \in [Nodes -> Texts] /\ mtime \in [Nodes -> 0..4]
  /\ now \in 0..4 /\ stamp \in 0..4
  /\ current \in Nodes \cup {Missing} /\ output \in Nodes \cup {Missing}
ScriptTypes ==
  /\ spc \in [Threads -> {"idle", "open", "write", "compare", "move", "done"}]
  /\ fd \in [Threads -> Nodes \cup {Missing}]
DataTypes ==
  /\ dpc \in {"turn", "scripts", "stat", "checked", "test", "read", "send", "lastRead",
              "lastSend", "flag", "end", "sleep"}
  /\ changed \in BOOLEAN /\ count \in 0..(Period - 1)
ReadTypes == read \in [Threads -> Texts] /\ reported \in Texts \cup {"unknown"}
FlagTypes ==
  /\ overlap \in BOOLEAN /\ truth \in Values
  /\ cpc \in {"idle", "scripts", "read", "ack", "flag"}
  /\ needCheck \in BOOLEAN /\ needSend \in BOOLEAN /\ updated \in BOOLEAN
  /\ sigint \in BOOLEAN /\ ended \in BOOLEAN /\ stopped \in BOOLEAN

LEMMA TypeParts ==
  ASSUME TypeOK
  PROVE  FileTypes /\ ScriptTypes /\ DataTypes /\ ReadTypes /\ FlagTypes
BY DEF TypeOK, FileTypes, ScriptTypes, DataTypes, ReadTypes, FlagTypes

LEMMA TypeMoves ==
  ASSUME TypeOK,
         UNCHANGED fileVars \/ FileTypes',
         UNCHANGED scriptVars \/ ScriptTypes',
         UNCHANGED dataVars \/ DataTypes',
         UNCHANGED <<read, reported>> \/ ReadTypes',
         UNCHANGED <<truth, cpc, flagVars, updated, stopVars>> \/ FlagTypes'
  PROVE  TypeOK'
<1>0. FileTypes /\ ScriptTypes /\ DataTypes /\ ReadTypes /\ FlagTypes
  BY TypeParts
<1>1. FileTypes'
  BY <1>0 DEF FileTypes, fileVars
<1>2. ScriptTypes'
  BY <1>0 DEF ScriptTypes, scriptVars
<1>3. DataTypes'
  BY <1>0 DEF DataTypes, dataVars
<1>4. ReadTypes'
  BY <1>0 DEF ReadTypes
<1>5. FlagTypes'
  BY <1>0 DEF FlagTypes, flagVars, stopVars
<1> QED
  BY <1>1, <1>2, <1>3, <1>4, <1>5
     DEF TypeOK, FileTypes, ScriptTypes, DataTypes, ReadTypes, FlagTypes

\* The seconds stay few when they are renumbered.
LEMMA SecondsType ==
  ASSUME TypeOK, SecondPasses, UNCHANGED <<content, current, output>> PROVE FileTypes'
BY SecondsFew, TypeParts DEF SecondPasses, FileTypes

LEMMA TypeStep == TypeOK /\ ScriptInv /\ [Next]_vars => TypeOK'
<1> SUFFICES ASSUME TypeOK, ScriptInv, [Next]_vars PROVE TypeOK'
  OBVIOUS
<1>0. /\ FileTypes /\ ScriptTypes /\ DataTypes /\ ReadTypes /\ FlagTypes
      /\ "data" \in Threads /\ "command" \in Threads /\ "" \in Texts
  BY TypeParts DEF Threads, Texts
<1>1. CASE DataBegins
  <2>1. ScriptTypes' /\ UNCHANGED count
    BY <1>0, <1>1 DEF DataBegins, ScriptTypes, scriptVars
  <2>2. DataTypes'
    BY <1>0, <1>1, <2>1 DEF DataBegins, DataGoto, DataTypes
  <2> QED
    BY <1>1, <2>1, <2>2, TypeMoves DEF DataBegins
<1>2. CASE DataJoins
  <2>1. ScriptTypes'
    BY <1>0, <1>2 DEF DataJoins, Joins, ScriptTypes
  <2>2. DataTypes'
    BY <1>0, <1>2 DEF DataJoins, DataGoto, DataTypes
  <2> QED
    BY <1>2, <2>1, <2>2, TypeMoves DEF DataJoins
<1>3. CASE DataStats
  <2>1. FileTypes'
    BY <1>0, <1>3 DEF DataStats, FileTypes
  <2>4. dpc' = "checked" /\ changed' \in BOOLEAN /\ needSend' \in BOOLEAN /\ UNCHANGED count
    BY <1>3 DEF DataStats, DataGoto
  <2>2. DataTypes'
    BY <1>0, <2>4 DEF DataTypes
  <2>3. FlagTypes'
    BY <1>0, <1>3, <2>4 DEF DataStats, FlagTypes, stopVars
  <2> QED
    BY <1>3, <2>1, <2>2, <2>3, TypeMoves DEF DataStats
<1>4. CASE DataClearsCheck
  <2>1. DataTypes'
    BY <1>0, <1>4 DEF DataClearsCheck, DataGoto, DataTypes
  <2>2. FlagTypes'
    BY <1>0, <1>4 DEF DataClearsCheck, FlagTypes, stopVars
  <2> QED
    BY <1>4, <2>1, <2>2, TypeMoves DEF DataClearsCheck
<1>5. CASE DataTests
  <2>1. DataTypes'
    BY <1>0, <1>5 DEF DataTests, DataGoto, DataTypes
  <2> QED
    BY <1>5, <2>1, TypeMoves DEF DataTests
<1>6. CASE DataReads
  <2>1. DataTypes'
    BY <1>0, <1>6 DEF DataReads, DataGoto, DataTypes
  <2>2. read' \in [Threads -> Texts]
    BY <1>0, <1>6, ReadsType DEF DataReads
  <2>3. ReadTypes'
    BY <1>0, <1>6, <2>2 DEF DataReads, ReadTypes
  <2> QED
    BY <1>6, <2>1, <2>3, TypeMoves DEF DataReads
<1>7. CASE DataSends
  <2>1. DataTypes'
    BY <1>0, <1>7 DEF DataSends, DataGoto, DataTypes
  <2>2. ReadTypes'
    BY <1>0, <1>7 DEF DataSends, ReadTypes
  <2> QED
    BY <1>7, <2>1, <2>2, TypeMoves DEF DataSends
<1>8. CASE DataClearsSend
  <2>1. DataTypes'
    BY <1>0, <1>8 DEF DataClearsSend, DataGoto, DataTypes
  <2>2. FlagTypes'
    BY <1>0, <1>8 DEF DataClearsSend, FlagTypes, stopVars
  <2> QED
    BY <1>8, <2>1, <2>2, TypeMoves DEF DataClearsSend
<1>9. CASE DataEnds
  <2>1. DataTypes'
    BY <1>0, <1>9 DEF DataEnds, DataGoto, DataTypes
  <2>2. FlagTypes'
    BY <1>0, <1>9 DEF DataEnds, FlagTypes, flagVars
  <2> QED
    BY <1>9, <2>1, <2>2, TypeMoves DEF DataEnds
<1>10. CASE DataSleeps
  <2>1. FileTypes'
    BY <1>10, SecondsType DEF DataSleeps
  <2>2. count' \in 0..(Period - 1)
    <3>1. Period \in Nat \ {0}
      BY ReportAssumption
    <3>4. count \in 0..(Period - 1)
      BY <1>0 DEF DataTypes
    <3>2. count \in Nat
      BY <3>1, <3>4
    <3>3. count' = (count + 1) % Period
      BY <1>10 DEF DataSleeps
    <3> QED
      BY <3>1, <3>2, <3>3
  <2>3. DataTypes'
    BY <1>0, <1>10, <2>2 DEF DataSleeps, DataGoto, DataTypes
  <2> QED
    BY <1>10, <2>1, <2>3, TypeMoves DEF DataSleeps
<1>11. CASE CommandExecutes
  <2>1. ScriptTypes'
    BY <1>0, <1>11 DEF CommandExecutes, ScriptTypes
  <2>2. FlagTypes'
    BY <1>0, <1>11 DEF CommandExecutes, CommandGoto, FlagTypes, flagVars, stopVars
  <2> QED
    BY <1>11, <2>1, <2>2, TypeMoves DEF CommandExecutes
<1>12. CASE CommandJoins
  <2>1. ScriptTypes'
    BY <1>0, <1>12 DEF CommandJoins, Joins, ScriptTypes
  <2>2. FlagTypes'
    BY <1>0, <1>12 DEF CommandJoins, CommandGoto, FlagTypes, flagVars, stopVars
  <2> QED
    BY <1>12, <2>1, <2>2, TypeMoves DEF CommandJoins
<1>13. CASE CommandReads
  <2>1. FlagTypes'
    BY <1>0, <1>13 DEF CommandReads, CommandGoto, FlagTypes, flagVars, stopVars
  <2>2. read' \in [Threads -> Texts]
    BY <1>0, <1>13, ReadsType DEF CommandReads
  <2>3. ReadTypes'
    BY <1>0, <1>13, <2>2 DEF CommandReads, ReadTypes
  <2> QED
    BY <1>13, <2>1, <2>3, TypeMoves DEF CommandReads
<1>14. CASE CommandAcknowledges
  <2>1. FlagTypes'
    BY <1>0, <1>14 DEF CommandAcknowledges, CommandGoto, FlagTypes, flagVars, stopVars
  <2>2. ReadTypes'
    BY <1>0, <1>14 DEF CommandAcknowledges, ReadTypes
  <2> QED
    BY <1>14, <2>1, <2>2, TypeMoves DEF CommandAcknowledges
<1>15. CASE CommandAsksForReport
  <2>1. FlagTypes'
    BY <1>0, <1>15 DEF CommandAsksForReport, CommandGoto, FlagTypes, stopVars
  <2> QED
    BY <1>15, <2>1, TypeMoves DEF CommandAsksForReport
<1>16. CASE RegistrationChanges
  <2>1. FlagTypes'
    BY <1>0, <1>16 DEF RegistrationChanges, FlagTypes, flagVars, stopVars
  <2> QED
    BY <1>16, <2>1, TypeMoves DEF RegistrationChanges
<1>17. CASE UpdateAsksForCheck
  <2>1. FlagTypes'
    BY <1>0, <1>17 DEF UpdateAsksForCheck, FlagTypes, stopVars
  <2> QED
    BY <1>17, <2>1, TypeMoves DEF UpdateAsksForCheck
<1>18. CASE TmateChanges
  <2>1. FlagTypes'
    BY <1>0, <1>18 DEF TmateChanges, FlagTypes, flagVars, stopVars
  <2> QED
    BY <1>18, <2>1, TypeMoves DEF TmateChanges
<1>19. CASE ClockTicks
  <2>1. FileTypes'
    BY <1>19, SecondsType DEF ClockTicks
  <2> QED
    BY <1>19, <2>1, TypeMoves DEF ClockTicks
<1>20. CASE Interrupt
  <2>1. FlagTypes'
    BY <1>0, <1>20 DEF Interrupt, FlagTypes, flagVars
  <2> QED
    BY <1>20, <2>1, TypeMoves DEF Interrupt
<1>21. CASE MainStops
  <2>1. FlagTypes'
    BY <1>0, <1>21 DEF MainStops, FlagTypes, flagVars
  <2> QED
    BY <1>21, <2>1, TypeMoves DEF MainStops
<1>22. ASSUME NEW t \in Threads, ScriptOpens(t) PROVE TypeOK'
  <2>1. /\ spc' = [spc EXCEPT ![t] = "write"] /\ fd' = [fd EXCEPT ![t] = current']
        /\ current' \in Nodes
        /\ content' = [content EXCEPT ![current'] = ""]
        /\ mtime' = [mtime EXCEPT ![current'] = now]
    BY <1>22, Opened
  <2>2. UNCHANGED <<truth, output, now, stamp, dpc, changed, count, cpc, read, needCheck, needSend,
                    updated, overlap, sigint, ended, stopped, reported>>
    BY <1>22, Opened
  <2>3. ScriptTypes'
    BY <1>0, <2>1 DEF ScriptTypes
  <2>4. FileTypes'
    BY <1>0, <2>1, <2>2 DEF FileTypes
  <2> QED
    BY <2>2, <2>3, <2>4, TypeMoves DEF dataVars, flagVars, stopVars
<1>23. ASSUME NEW t \in Threads, ScriptWrites(t) PROVE TypeOK'
  <2>1. PICK v \in Texts : Write(fd[t], v)
    BY <1>0, <1>23 DEF ScriptWrites, Texts, FlagTypes
  <2>2. UNCHANGED <<current, output, now, stamp>>
    BY <1>23 DEF ScriptWrites
  <2>3. FileTypes'
    BY <1>0, <2>1, <2>2 DEF FileTypes, Write
  <2>4. ScriptTypes'
    BY <1>0, <1>23 DEF ScriptWrites, ScriptGoto, ScriptTypes
  <2> QED
    BY <1>23, <2>3, <2>4, TypeMoves DEF ScriptWrites
<1>24. ASSUME NEW t \in Threads, ScriptCompares(t) PROVE TypeOK'
  <2>1. ScriptTypes'
    BY <1>0, <1>24 DEF ScriptCompares, ScriptGoto, ScriptTypes
  <2> QED
    BY <1>24, <2>1, TypeMoves DEF ScriptCompares
<1>25. ASSUME NEW t \in Threads, ScriptMoves(t) PROVE TypeOK'
  <2>1. content' \in [Nodes -> Texts] /\ mtime' \in [Nodes -> 0..4]
    <3>1. Forget(output) \/ UNCHANGED <<content, mtime>>
      BY <1>25 DEF ScriptMoves
    <3> QED
      BY <1>0, <3>1, ForgetType DEF FileTypes
  <2>2. ScriptTypes'
    BY <1>0, <1>25 DEF ScriptMoves, ScriptGoto, ScriptTypes
  <2>3. /\ output' \in Nodes \cup {Missing} /\ current' \in Nodes \cup {Missing}
        /\ UNCHANGED <<now, stamp>>
    BY <1>0, <1>25 DEF ScriptMoves, FileTypes
  <2>4. FileTypes'
    BY <1>0, <2>1, <2>3 DEF FileTypes
  <2> QED
    BY <1>25, <2>2, <2>4, TypeMoves DEF ScriptMoves
<1>26. CASE UNCHANGED vars
  BY <1>26, TypeMoves DEF vars
<1> QED
  BY <1>1, <1>2, <1>3, <1>4, <1>5, <1>6, <1>7, <1>8, <1>9, <1>10, <1>11, <1>12, <1>13, <1>14,
     <1>15, <1>16, <1>17, <1>18, <1>19, <1>20, <1>21, <1>22, <1>23, <1>24, <1>25, <1>26
     DEF Next, DataStep, CommandStep, ScriptStep

LEMMA ScriptsStep == TypeOK /\ ScriptInv /\ [Next]_vars => ScriptInv'
<1> SUFFICES ASSUME TypeOK, ScriptInv, [Next]_vars PROVE ScriptInv'
  OBVIOUS
<1> USE DEF TypeOK, ScriptInv, Threads,
            fileVars, scriptVars, dataVars, flagVars, stopVars
<1>1. CASE DataBegins
  BY <1>1 DEF DataBegins, DataGoto
<1>2. CASE DataJoins
  BY <1>2 DEF DataJoins, DataGoto, Joins
<1>3. CASE DataStats
  BY <1>3 DEF DataStats, DataGoto
<1>4. CASE DataClearsCheck
  BY <1>4 DEF DataClearsCheck, DataGoto
<1>5. CASE DataTests
  BY <1>5 DEF DataTests, DataGoto
<1>6. CASE DataReads
  BY <1>6 DEF DataReads, DataGoto, Reads
<1>7. CASE DataSends
  BY <1>7 DEF DataSends, DataGoto
<1>8. CASE DataClearsSend
  BY <1>8 DEF DataClearsSend, DataGoto
<1>9. CASE DataEnds
  BY <1>9 DEF DataEnds, DataGoto
<1>10. CASE DataSleeps
  BY <1>10 DEF DataSleeps, DataGoto, SecondPasses
<1>11. CASE CommandExecutes
  BY <1>11 DEF CommandExecutes, CommandGoto
<1>12. CASE CommandJoins
  BY <1>12 DEF CommandJoins, CommandGoto, Joins
<1>13. CASE CommandReads
  BY <1>13 DEF CommandReads, CommandGoto, Reads
<1>14. CASE CommandAcknowledges
  BY <1>14 DEF CommandAcknowledges, CommandGoto
<1>15. CASE CommandAsksForReport
  BY <1>15 DEF CommandAsksForReport, CommandGoto
<1>16. CASE RegistrationChanges
  BY <1>16 DEF RegistrationChanges
<1>17. CASE UpdateAsksForCheck
  BY <1>17 DEF UpdateAsksForCheck
<1>18. CASE TmateChanges
  BY <1>18 DEF TmateChanges
<1>19. CASE ClockTicks
  BY <1>19 DEF ClockTicks, SecondPasses
<1>20. CASE Interrupt
  BY <1>20 DEF Interrupt
<1>21. CASE MainStops
  BY <1>21 DEF MainStops
<1>22. ASSUME NEW t \in Threads, ScriptOpens(t) PROVE ScriptInv'
  <2>1. current' \in Nodes
    BY <1>22, Opened
  <2>2. current' # Missing
    BY <2>1, NoNode
  <2> QED
    BY <1>22, <2>2, Opened
<1>23. ASSUME NEW t \in Threads, ScriptWrites(t) PROVE ScriptInv'
  BY <1>23 DEF ScriptWrites, ScriptGoto, Write
<1>24. ASSUME NEW t \in Threads, ScriptCompares(t) PROVE ScriptInv'
  BY <1>24 DEF ScriptCompares, ScriptGoto
<1>25. ASSUME NEW t \in Threads, ScriptMoves(t) PROVE ScriptInv'
  BY <1>25 DEF ScriptMoves, ScriptGoto, Forget
<1>26. CASE UNCHANGED vars
  BY <1>26 DEF vars
<1> QED
  BY <1>1, <1>2, <1>3, <1>4, <1>5, <1>6, <1>7, <1>8, <1>9, <1>10, <1>11, <1>12, <1>13, <1>14,
     <1>15, <1>16, <1>17, <1>18, <1>19, <1>20, <1>21, <1>22, <1>23, <1>24, <1>25, <1>26
     DEF Next, DataStep, CommandStep, ScriptStep

LEMMA OutputStep == TypeOK /\ ScriptInv /\ OutputInv /\ [Next]_vars => OutputInv'
<1> SUFFICES ASSUME TypeOK, ScriptInv, OutputInv, [Next]_vars PROVE OutputInv'
  OBVIOUS
<1> USE DEF TypeOK, ScriptInv, OutputInv, OutputThere, Threads,
            fileVars, scriptVars, dataVars, flagVars, stopVars
<1>1. CASE DataBegins
  BY <1>1 DEF DataBegins, DataGoto
<1>2. CASE DataJoins
  BY <1>2 DEF DataJoins, DataGoto, Joins
<1>3. CASE DataStats
  BY <1>3 DEF DataStats, DataGoto
<1>4. CASE DataClearsCheck
  BY <1>4 DEF DataClearsCheck, DataGoto
<1>5. CASE DataTests
  BY <1>5 DEF DataTests, DataGoto
<1>6. CASE DataReads
  BY <1>6 DEF DataReads, DataGoto, Reads
<1>7. CASE DataSends
  BY <1>7 DEF DataSends, DataGoto
<1>8. CASE DataClearsSend
  BY <1>8 DEF DataClearsSend, DataGoto
<1>9. CASE DataEnds
  BY <1>9 DEF DataEnds, DataGoto
<1>10. CASE DataSleeps
  BY <1>10 DEF DataSleeps, DataGoto, SecondPasses
<1>11. CASE CommandExecutes
  BY <1>11 DEF CommandExecutes, CommandGoto
<1>12. CASE CommandJoins
  BY <1>12 DEF CommandJoins, CommandGoto, Joins
<1>13. CASE CommandReads
  BY <1>13 DEF CommandReads, CommandGoto, Reads
<1>14. CASE CommandAcknowledges
  BY <1>14 DEF CommandAcknowledges, CommandGoto
<1>15. CASE CommandAsksForReport
  BY <1>15 DEF CommandAsksForReport, CommandGoto
<1>16. CASE RegistrationChanges
  BY <1>16 DEF RegistrationChanges
<1>17. CASE UpdateAsksForCheck
  BY <1>17 DEF UpdateAsksForCheck
<1>18. CASE TmateChanges
  BY <1>18 DEF TmateChanges
<1>19. CASE ClockTicks
  BY <1>19 DEF ClockTicks, SecondPasses
<1>20. CASE Interrupt
  BY <1>20 DEF Interrupt
<1>21. CASE MainStops
  BY <1>21 DEF MainStops
<1>22. ASSUME NEW t \in Threads, ScriptOpens(t) PROVE OutputInv'
  <2>1. current' \in Nodes
    BY <1>22, Opened
  <2>2. current' # Missing
    BY <2>1, NoNode
  <2> QED
    BY <1>22, <2>2, Opened
<1>23. ASSUME NEW t \in Threads, ScriptWrites(t) PROVE OutputInv'
  BY <1>23 DEF ScriptWrites, ScriptGoto, Write
<1>24. ASSUME NEW t \in Threads, ScriptCompares(t) PROVE OutputInv'
  BY <1>24 DEF ScriptCompares, ScriptGoto
<1>25. ASSUME NEW t \in Threads, ScriptMoves(t) PROVE OutputInv'
  BY <1>25 DEF ScriptMoves, ScriptGoto, Forget
<1>26. CASE UNCHANGED vars
  BY <1>26 DEF vars
<1> QED
  BY <1>1, <1>2, <1>3, <1>4, <1>5, <1>6, <1>7, <1>8, <1>9, <1>10, <1>11, <1>12, <1>13, <1>14,
     <1>15, <1>16, <1>17, <1>18, <1>19, <1>20, <1>21, <1>22, <1>23, <1>24, <1>25, <1>26
     DEF Next, DataStep, CommandStep, ScriptStep

LEMMA Initially == Init => IInv /\ ApartInv
<1> SUFFICES ASSUME Init PROVE IInv /\ ApartInv
  OBVIOUS
<1>1. /\ output \in {Missing, 1} /\ current = Missing /\ Missing \notin Nodes /\ 1 \in Nodes
      /\ content \in [Nodes -> Texts]
      /\ output # Missing => content[output] \in Values
  <2>1. "" \in Texts /\ Values \subseteq Texts
    BY DEF Texts
  <2>0. current = Missing /\ Missing \notin Nodes /\ 1 \in Nodes /\ 1 # Missing
    BY NoNode DEF Init
  <2>2. CASE output = Missing /\ content = [n \in Nodes |-> ""]
    BY <2>1, <2>2, <2>0
  <2>3. CASE output = 1 /\ \E v \in Values : content = [n \in Nodes |-> IF n = 1 THEN v ELSE ""]
    <3>1. PICK v \in Values : content = [n \in Nodes |-> IF n = 1 THEN v ELSE ""]
      BY <2>3
    <3> QED
      BY <2>1, <2>3, <2>0, <3>1
  <2> QED
    BY <2>2, <2>3 DEF Init
<1>2. TypeOK
  <2>1. mtime \in [Nodes -> 0..4]
    <3>1. 0 \in 0..4 /\ 1 \in 0..4
      OBVIOUS
    <3> QED
      BY <3>1 DEF Init
  <2>2. now \in 0..4 /\ stamp \in 0..4 /\ count \in 0..(Period - 1)
    <3>1. now = 2 /\ stamp = 0 /\ count = 0 /\ Period \in Nat \ {0}
      BY ReportAssumption DEF Init
    <3> QED
      BY <3>1
  <2>3. /\ read \in [Threads -> Texts]
        /\ fd \in [Threads -> Nodes \cup {Missing}]
        /\ spc \in [Threads -> {"idle", "open", "write", "compare", "move", "done"}]
    BY DEF Init, Texts
  <2>4. overlap \in BOOLEAN
    BY ReportAssumption DEF Init
  <2> QED
    BY <1>1, <2>1, <2>2, <2>3, <2>4 DEF Init, TypeOK
<1>3. /\ \A t \in Threads : spc[t] = "idle" /\ fd[t] = Missing
      /\ "data" \in Threads /\ "command" \in Threads
      /\ dpc = "turn" /\ cpc = "idle" /\ changed = FALSE /\ reported = "unknown"
  BY DEF Init, Threads
<1>4. ScriptInv /\ OutputInv
  BY <1>3 DEF ScriptInv, OutputInv, OutputThere
<1>5. WritingInv /\ ReadingInv
  BY <1>1, <1>3 DEF WritingInv, ReadingInv, ReportsWhole
<1> QED
  BY <1>2, <1>4, <1>5 DEF IInv, ApartInv

-----------------------------------------------------------------------------
(***************************************************************************)
(* A command and a check that keep out of each other's way                 *)
(***************************************************************************)

LEMMA WritingStep == ~overlap /\ TypeOK /\ ScriptInv /\ OutputInv /\ WritingInv /\ [Next]_vars => WritingInv'
<1> SUFFICES ASSUME ~overlap, TypeOK, ScriptInv, OutputInv, WritingInv, [Next]_vars PROVE WritingInv'
  OBVIOUS
<1> USE DEF TypeOK, ScriptInv, WritingInv, Threads,
            fileVars, scriptVars, dataVars, flagVars, stopVars
<1>1. CASE DataBegins
  BY <1>1 DEF DataBegins, DataGoto
<1>2. CASE DataJoins
  BY <1>2 DEF DataJoins, DataGoto, Joins
<1>3. CASE DataStats
  BY <1>3 DEF DataStats, DataGoto
<1>4. CASE DataClearsCheck
  BY <1>4 DEF DataClearsCheck, DataGoto
<1>5. CASE DataTests
  BY <1>5 DEF DataTests, DataGoto
<1>6. CASE DataReads
  BY <1>6 DEF DataReads, DataGoto, Reads
<1>7. CASE DataSends
  BY <1>7 DEF DataSends, DataGoto
<1>8. CASE DataClearsSend
  BY <1>8 DEF DataClearsSend, DataGoto
<1>9. CASE DataEnds
  BY <1>9 DEF DataEnds, DataGoto
<1>10. CASE DataSleeps
  BY <1>10 DEF DataSleeps, DataGoto, SecondPasses
<1>11. CASE CommandExecutes
  BY <1>11 DEF CommandExecutes, CommandGoto
<1>12. CASE CommandJoins
  BY <1>12 DEF CommandJoins, CommandGoto, Joins
<1>13. CASE CommandReads
  BY <1>13 DEF CommandReads, CommandGoto, Reads
<1>14. CASE CommandAcknowledges
  BY <1>14 DEF CommandAcknowledges, CommandGoto
<1>15. CASE CommandAsksForReport
  BY <1>15 DEF CommandAsksForReport, CommandGoto
<1>16. CASE RegistrationChanges
  BY <1>16 DEF RegistrationChanges
<1>17. CASE UpdateAsksForCheck
  BY <1>17 DEF UpdateAsksForCheck
<1>18. CASE TmateChanges
  BY <1>18 DEF TmateChanges
<1>19. CASE ClockTicks
  BY <1>19 DEF ClockTicks, SecondPasses
<1>20. CASE Interrupt
  BY <1>20 DEF Interrupt
<1>21. CASE MainStops
  BY <1>21 DEF MainStops
<1>22. ASSUME NEW t \in Threads, ScriptOpens(t) PROVE WritingInv'
  <2>0. \A u \in Threads : u # t => spc[u] \notin {"write", "compare", "move"}
    BY <1>22, Opened
  <2>1. current' \in Nodes
    BY <1>22, Opened
  <2>2. current' # Missing /\ current' # output
    <3>1. current' # output
      BY <1>22, Opened
    <3> QED
      BY <2>1, <3>1, NoNode
  <2>3. content'[current'] = "" /\ (output \in Nodes => content'[output] = content[output])
    BY <1>22, <2>1, <2>2, Opened
  <2> QED
    BY <1>22, <2>0, <2>2, <2>3, Opened
<1>23. ASSUME NEW t \in Threads, ScriptWrites(t) PROVE WritingInv'
  BY <1>23 DEF ScriptWrites, ScriptGoto, Write
<1>24. ASSUME NEW t \in Threads, ScriptCompares(t) PROVE WritingInv'
  BY <1>24 DEF ScriptCompares, ScriptGoto
<1>25. ASSUME NEW t \in Threads, ScriptMoves(t) PROVE WritingInv'
  BY <1>25 DEF ScriptMoves, ScriptGoto, Forget
<1>26. CASE UNCHANGED vars
  BY <1>26 DEF vars
<1> QED
  BY <1>1, <1>2, <1>3, <1>4, <1>5, <1>6, <1>7, <1>8, <1>9, <1>10, <1>11, <1>12, <1>13, <1>14,
     <1>15, <1>16, <1>17, <1>18, <1>19, <1>20, <1>21, <1>22, <1>23, <1>24, <1>25, <1>26
     DEF Next, DataStep, CommandStep, ScriptStep

LEMMA ReadingStep == ~overlap /\ TypeOK /\ ScriptInv /\ OutputInv /\ WritingInv /\ ReadingInv /\ [Next]_vars => ReadingInv'
<1> SUFFICES ASSUME ~overlap, TypeOK, ScriptInv, OutputInv, WritingInv, ReadingInv, [Next]_vars PROVE ReadingInv'
  OBVIOUS
<1> USE DEF TypeOK, ScriptInv, OutputInv, OutputThere, WritingInv, ReadingInv, ReportsWhole, Threads,
            fileVars, scriptVars, dataVars, flagVars, stopVars
<1>1. CASE DataBegins
  BY <1>1 DEF DataBegins, DataGoto
<1>2. CASE DataJoins
  BY <1>2 DEF DataJoins, DataGoto, Joins
<1>3. CASE DataStats
  BY <1>3 DEF DataStats, DataGoto
<1>4. CASE DataClearsCheck
  BY <1>4 DEF DataClearsCheck, DataGoto
<1>5. CASE DataTests
  BY <1>5 DEF DataTests, DataGoto
<1>6. CASE DataReads
  BY <1>6 DEF DataReads, DataGoto, Reads
<1>7. CASE DataSends
  BY <1>7 DEF DataSends, DataGoto
<1>8. CASE DataClearsSend
  BY <1>8 DEF DataClearsSend, DataGoto
<1>9. CASE DataEnds
  BY <1>9 DEF DataEnds, DataGoto
<1>10. CASE DataSleeps
  BY <1>10 DEF DataSleeps, DataGoto, SecondPasses
<1>11. CASE CommandExecutes
  BY <1>11 DEF CommandExecutes, CommandGoto
<1>12. CASE CommandJoins
  BY <1>12 DEF CommandJoins, CommandGoto, Joins
<1>13. CASE CommandReads
  BY <1>13 DEF CommandReads, CommandGoto, Reads
<1>14. CASE CommandAcknowledges
  BY <1>14 DEF CommandAcknowledges, CommandGoto
<1>15. CASE CommandAsksForReport
  BY <1>15 DEF CommandAsksForReport, CommandGoto
<1>16. CASE RegistrationChanges
  BY <1>16 DEF RegistrationChanges
<1>17. CASE UpdateAsksForCheck
  BY <1>17 DEF UpdateAsksForCheck
<1>18. CASE TmateChanges
  BY <1>18 DEF TmateChanges
<1>19. CASE ClockTicks
  BY <1>19 DEF ClockTicks, SecondPasses
<1>20. CASE Interrupt
  BY <1>20 DEF Interrupt
<1>21. CASE MainStops
  BY <1>21 DEF MainStops
<1>22. ASSUME NEW t \in Threads, ScriptOpens(t) PROVE ReadingInv'
  <2>1. current' \in Nodes
    BY <1>22, Opened
  <2>2. current' # output
    BY <1>22, Opened
  <2>3. output # Missing => content'[output] = content[output]
    BY <1>22, <2>1, <2>2, Opened
  <2> QED
    BY <1>22, <2>3, Opened
<1>23. ASSUME NEW t \in Threads, ScriptWrites(t) PROVE ReadingInv'
  BY <1>23 DEF ScriptWrites, ScriptGoto, Write
<1>24. ASSUME NEW t \in Threads, ScriptCompares(t) PROVE ReadingInv'
  BY <1>24 DEF ScriptCompares, ScriptGoto
<1>25. ASSUME NEW t \in Threads, ScriptMoves(t) PROVE ReadingInv'
  BY <1>25, ZenonT(60) DEF ScriptMoves, ScriptGoto, Forget
<1>26. CASE UNCHANGED vars
  BY <1>26 DEF vars
<1> QED
  BY <1>1, <1>2, <1>3, <1>4, <1>5, <1>6, <1>7, <1>8, <1>9, <1>10, <1>11, <1>12, <1>13, <1>14,
     <1>15, <1>16, <1>17, <1>18, <1>19, <1>20, <1>21, <1>22, <1>23, <1>24, <1>25, <1>26
     DEF Next, DataStep, CommandStep, ScriptStep

-----------------------------------------------------------------------------

\* Whether commands and checks may overlap is settled at the start.
LEMMA OverlapKept == [Next]_vars => overlap' = overlap
BY DEF Next, DataStep, CommandStep, ScriptStep, vars, stopVars, DataBegins, DataJoins, DataStats,
       DataClearsCheck, DataTests, DataReads, DataSends, DataClearsSend, DataEnds, DataSleeps,
       CommandExecutes, CommandJoins, CommandReads, CommandAcknowledges, CommandAsksForReport,
       ScriptOpens, ScriptWrites, ScriptCompares, ScriptMoves, RegistrationChanges,
       UpdateAsksForCheck, TmateChanges, ClockTicks, Interrupt, MainStops

LEMMA Stepwise == IInv /\ ApartInv /\ [Next]_vars => IInv' /\ ApartInv'
  BY TypeStep, ScriptsStep, OutputStep, WritingStep, ReadingStep, OverlapKept DEF IInv, ApartInv

\* The inductive invariant holds in every reachable state of the report.
THEOREM Invariance == Spec => [](IInv /\ ApartInv)
  BY Initially, Stepwise, PTL DEF Spec

\* Every variable of the report keeps its type: three files and four seconds are
\* enough, whatever the texts and the period (scripts/states/common.sh,
\* WebSocketClient.cpp:519-560).
THEOREM TypeCorrect == Spec => []TypeOK
  BY Invariance, PTL DEF IInv

\* The data thread never asks for the mtime of a file that is not there, even
\* when a command's run of the script moves the files under its own run
\* (TmatePlugin.cpp:492-496).
THEOREM OutputStays == Spec => []OutputThere
  BY Invariance, PTL DEF IInv, OutputInv

\* As long as no command is executed during a check, nor a check begun while one
\* is, the agent is told nothing but what tmate did (TmatePlugin.cpp:362-382
\* against 150-186).
THEOREM WholeWhenApart == Spec => []WholeIfApart
<1>1. IInv /\ ApartInv => WholeIfApart
  BY DEF ApartInv, ReadingInv, WholeIfApart
<1> QED
  BY <1>1, Invariance, PTL
=============================================================================

--------------------------- MODULE CommandAcks_proofs ---------------------------
(***************************************************************************)
(* What holds of CommandAcks for any set of commands, any number of items   *)
(* and any agents.                                                         *)
(***************************************************************************)
EXTENDS CommandAcks, SequenceTheorems, TLAPS

Handling == tpc \in {"item", "execute", "answer", "delete"}

\* Between the two deleting statements cmd may be gone already, but it was one.
CommandInv ==
  /\ IF Handling \/ tpc = "null" THEN cmd \in Commands ELSE cmd = NoCommand
  /\ \A c \in Commands : store[c] = "none" => c # slot /\ c # cmd
  /\ NoUseAfterDelete
  /\ SlotNotDeleted

\* Where the thread is in the list of the command's items.
PlaceInv ==
  /\ tpc = "item" => pos \in 1..(Len(items[cmd]) + 1)
  /\ tpc \in {"execute", "answer"} => pos \in 1..Len(items[cmd])
  /\ tpc = "answer" => state \in {"REJECTED", "ACKED", "ERRORED"}

\* Nothing has been done about a command that has not been taken out of the slot.
FreshInv ==
  \A c \in Commands :
    (store[c] = "none" \/ c = slot) /\ c # cmd => acks[c] = <<>> /\ ran[c] = <<>>

\* The items before the current one are those that may have been executed.
RanInv ==
  /\ ExecutedOnceInOrder
  /\ tpc \in {"item", "execute"} => \A j \in 1..Len(ran[cmd]) : ran[cmd][j] < pos
  /\ tpc = "answer" => /\ \A j \in 1..Len(ran[cmd]) : ran[cmd][j] <= pos
                       /\ \E k \in 1..Len(ran[cmd]) : ran[cmd][k] = pos

\* An item is executed only when its acceptance has gone out, unless the session
\* is over, in which case no outcome will go out either.
ToldInv ==
  /\ OutcomeAfterAcceptance
  /\ tpc \in {"execute", "answer"} /\ opened =>
       \E j \in 1..Len(acks[cmd]) : acks[cmd][j] = [item |-> pos, state |-> "ACCEPTED"]

IInv == TypeOK /\ CommandInv /\ PlaceInv /\ FreshInv /\ RanInv /\ ToldInv

-----------------------------------------------------------------------------

\* The types in four parts, of which a step changes one or two.
SlotTypes ==
  /\ slot \in Commands \cup {NoCommand}
  /\ store \in [Commands -> {"none", "allocated", "deleted"}]
  /\ items \in [Commands -> ItemLists]
AckTypes ==
  /\ acks \in [Commands -> Seq([item : 1..MaxItems, state : AckStates])]
  /\ ran \in [Commands -> Seq(1..MaxItems)]
ThreadTypes ==
  /\ tpc \in {"loop", "registered", "flag", "take", "item", "execute", "answer",
              "delete", "null", "reset", "ended"}
  /\ cmd \in Commands \cup {NoCommand} /\ pos \in 1..(MaxItems + 1)
  /\ state \in AckStates \cup {""}
WorldTypes ==
  /\ agent \in Agents /\ flag \in BOOLEAN /\ iopc \in {"run", "flag"}
  /\ working \in BOOLEAN /\ opened \in BOOLEAN /\ updated \in BOOLEAN
  /\ statesDue \in BOOLEAN

LEMMA TypeMoves ==
  ASSUME TypeOK,
         UNCHANGED <<slot, store, items>> \/ SlotTypes',
         UNCHANGED <<acks, ran>> \/ AckTypes',
         UNCHANGED <<tpc, cmd, pos, state>> \/ ThreadTypes',
         UNCHANGED <<agent, flag, iopc, working, opened, updated, statesDue>> \/ WorldTypes'
  PROVE  TypeOK'
<1>1. SlotTypes /\ AckTypes /\ ThreadTypes /\ WorldTypes
  BY DEF TypeOK, SlotTypes, AckTypes, ThreadTypes, WorldTypes
<1>2. SlotTypes'
  BY <1>1 DEF SlotTypes
<1>3. AckTypes'
  BY <1>1 DEF AckTypes
<1>4. ThreadTypes'
  BY <1>1 DEF ThreadTypes
<1>5. WorldTypes'
  BY <1>1 DEF WorldTypes
<1> QED
  BY <1>2, <1>3, <1>4, <1>5 DEF TypeOK, SlotTypes, AckTypes, ThreadTypes, WorldTypes

\* What the types say of the part a step works on.
LEMMA TypeParts ==
  ASSUME IInv
  PROVE  TypeOK /\ SlotTypes /\ AckTypes /\ ThreadTypes /\ WorldTypes
BY DEF IInv, TypeOK, SlotTypes, AckTypes, ThreadTypes, WorldTypes

\* A command's list has from none to MaxItems items.
LEMMA ItemListLen ==
  ASSUME NEW list \in ItemLists
  PROVE  Len(list) \in 0..MaxItems
<1>1. PICK n \in 0..MaxItems : list \in [1..n -> Kinds]
  BY DEF ItemLists
<1>2. n \in Nat /\ list \in Seq(Kinds)
  BY <1>1, CommandsAssumption, SeqDef
<1> QED
  BY <1>1, <1>2, LenProperties

LEMMA Initially == Init => IInv
<1> SUFFICES ASSUME Init PROVE IInv
  OBVIOUS
<1>1. <<>> \in ItemLists
  <2>1. <<>> \in [1..0 -> Kinds]
    OBVIOUS
  <2> QED
    BY <2>1, CommandsAssumption DEF ItemLists
<1>2. /\ [c \in Commands |-> <<>>] \in [Commands -> ItemLists]
      /\ [c \in Commands |-> <<>>] \in [Commands -> Seq([item : 1..MaxItems, state : AckStates])]
      /\ [c \in Commands |-> <<>>] \in [Commands -> Seq(1..MaxItems)]
  BY <1>1
<1>3. TypeOK
  <2>1. /\ items \in [Commands -> ItemLists]
        /\ acks \in [Commands -> Seq([item : 1..MaxItems, state : AckStates])]
        /\ ran \in [Commands -> Seq(1..MaxItems)]
    BY <1>2 DEF Init
  <2>2. store \in [Commands -> {"none", "allocated", "deleted"}]
    BY DEF Init
  <2>3. pos \in 1..(MaxItems + 1)
    <3>1. pos = 1 /\ MaxItems \in Nat
      BY CommandsAssumption DEF Init
    <3> QED
      BY <3>1
  <2> QED
    BY <2>1, <2>2, <2>3 DEF Init, TypeOK
<1>4. CommandInv /\ PlaceInv /\ FreshInv
  BY CommandsAssumption
     DEF Init, CommandInv, PlaceInv, FreshInv, Handling, NoUseAfterDelete, SlotNotDeleted
<1>5. tpc = "loop" /\ \A c \in Commands : Len(acks[c]) = 0 /\ Len(ran[c]) = 0
  BY DEF Init
<1>6. RanInv
  BY <1>5 DEF RanInv, ExecutedOnceInOrder
<1>7. ToldInv
  BY <1>5 DEF ToldInv, OutcomeAfterAcceptance
<1> QED
  BY <1>3, <1>4, <1>6, <1>7 DEF IInv

-----------------------------------------------------------------------------
(***************************************************************************)
(* The steps that leave alone what the commands are about                  *)
(***************************************************************************)

Idle == {"loop", "registered", "flag", "reset", "ended"}

LEMMA Elsewhere ==
  ASSUME IInv,
         UNCHANGED <<slot, store, items, cmd, pos, state, acks, ran>>,
         tpc' = tpc \/ (tpc \in Idle /\ tpc' \in Idle) \/ (tpc = "flag" /\ tpc' = "take"),
         opened' => opened
  PROVE  CommandInv' /\ PlaceInv' /\ FreshInv' /\ RanInv' /\ ToldInv'
<1> USE DEF Idle
<1>1. CommandInv'
  BY DEF IInv, CommandInv, Handling, NoUseAfterDelete, SlotNotDeleted
<1>2. PlaceInv'
  BY DEF IInv, PlaceInv
<1>3. FreshInv'
  BY DEF IInv, FreshInv
<1>4. RanInv'
  BY DEF IInv, RanInv, ExecutedOnceInOrder
<1>5. ToldInv'
  BY DEF IInv, ToldInv, OutcomeAfterAcceptance
<1> QED
  BY <1>1, <1>2, <1>3, <1>4, <1>5

LEMMA IoRaises == IInv /\ IoRaisesFlag => IInv'
<1> SUFFICES ASSUME IInv, IoRaisesFlag PROVE IInv'
  OBVIOUS
<1>1. UNCHANGED <<slot, store, items, tpc, cmd, pos, state, agent, working, opened, updated,
                  statesDue, acks, ran>>
  BY DEF IoRaisesFlag, threadVars, envVars, wireVars
<1>2. WorldTypes'
  BY <1>1, TypeParts DEF WorldTypes, IoRaisesFlag
<1>3. TypeOK'
  BY <1>1, <1>2, TypeParts, TypeMoves
<1> QED
  BY <1>1, <1>3, Elsewhere DEF IInv

LEMMA IoLoses == IInv /\ IoLosesSession => IInv'
<1> SUFFICES ASSUME IInv, IoLosesSession PROVE IInv'
  OBVIOUS
<1>1. UNCHANGED <<agent, slot, flag, store, items, iopc, tpc, cmd, pos, state, updated,
                  statesDue, acks, ran>>
  BY DEF IoLosesSession, ioVars, threadVars, wireVars
<1>2. WorldTypes'
  BY <1>1, TypeParts DEF WorldTypes, IoLosesSession
<1>3. TypeOK'
  BY <1>1, <1>2, TypeParts, TypeMoves
<1> QED
  BY <1>1, <1>3, Elsewhere DEF IInv, IoLosesSession

LEMMA Registration == IInv /\ RegistrationChanges => IInv'
<1> SUFFICES ASSUME IInv, RegistrationChanges PROVE IInv'
  OBVIOUS
<1>1. UNCHANGED <<agent, slot, flag, store, items, iopc, tpc, cmd, pos, state, working, opened,
                  statesDue, acks, ran>>
  BY DEF RegistrationChanges, ioVars, threadVars, wireVars
<1>2. WorldTypes'
  BY <1>1, TypeParts DEF WorldTypes, RegistrationChanges
<1>3. TypeOK'
  BY <1>1, <1>2, TypeParts, TypeMoves
<1> QED
  BY <1>1, <1>3, Elsewhere DEF IInv

LEMMA DataThread == IInv /\ DataThreadReports => IInv'
<1> SUFFICES ASSUME IInv, DataThreadReports PROVE IInv'
  OBVIOUS
<1>1. UNCHANGED <<agent, slot, flag, store, items, iopc, tpc, cmd, pos, state, working, opened,
                  updated, acks, ran>>
  BY DEF DataThreadReports, ioVars, threadVars, envVars, wireVars
<1>2. WorldTypes'
  BY <1>1, TypeParts DEF WorldTypes, DataThreadReports
<1>3. TypeOK'
  BY <1>1, <1>2, TypeParts, TypeMoves
<1> QED
  BY <1>1, <1>3, Elsewhere DEF IInv

LEMMA Polls == IInv /\ ThreadPolls => IInv'
<1> SUFFICES ASSUME IInv, ThreadPolls PROVE IInv'
  OBVIOUS
<1>1. UNCHANGED <<agent, slot, flag, store, items, iopc, cmd, pos, state, working, opened,
                  updated, statesDue, acks, ran>>
  BY DEF ThreadPolls, ioVars, envVars, wireVars
<1>2. (tpc \in Idle /\ tpc' \in Idle) \/ (tpc = "flag" /\ tpc' = "take")
  BY DEF ThreadPolls, ThreadGoto, Idle
<1>3. ThreadTypes'
  BY <1>1, <1>2, TypeParts DEF ThreadTypes, Idle
<1>4. TypeOK'
  BY <1>1, <1>3, TypeParts, TypeMoves
<1> QED
  BY <1>1, <1>2, <1>4, Elsewhere DEF IInv

LEMMA ResetsFlag == IInv /\ ThreadResetsFlag => IInv'
<1> SUFFICES ASSUME IInv, ThreadResetsFlag PROVE IInv'
  OBVIOUS
<1>1. UNCHANGED <<agent, slot, store, items, iopc, cmd, pos, state, working, opened,
                  updated, statesDue, acks, ran>>
  BY DEF ThreadResetsFlag, ioVars, envVars, wireVars
<1>2. tpc \in Idle /\ tpc' \in Idle
  BY DEF ThreadResetsFlag, ThreadGoto, Idle
<1>3. ThreadTypes'
  BY <1>1, <1>2, TypeParts DEF ThreadTypes, Idle
<1>4. WorldTypes'
  BY <1>1, TypeParts DEF WorldTypes, ThreadResetsFlag
<1>5. TypeOK'
  BY <1>1, <1>3, <1>4, TypeParts, TypeMoves
<1> QED
  BY <1>1, <1>2, <1>5, Elsewhere DEF IInv

LEMMA Stutter == IInv /\ UNCHANGED vars => IInv'
<1> SUFFICES ASSUME IInv, UNCHANGED vars PROVE IInv'
  OBVIOUS
<1>1. UNCHANGED <<agent, slot, flag, store, items, iopc, tpc, cmd, pos, state, working, opened,
                  updated, statesDue, acks, ran>>
  BY DEF vars, ioVars, threadVars, envVars, wireVars
<1>2. TypeOK'
  BY <1>1, TypeParts, TypeMoves
<1> QED
  BY <1>1, <1>2, Elsewhere DEF IInv

-----------------------------------------------------------------------------
(***************************************************************************)
(* The steps about a command                                               *)
(***************************************************************************)

LEMMA Receives ==
  ASSUME IInv, NEW c \in Commands, IoReceives(c)
  PROVE  IInv'
<1> USE CommandsAssumption
<1>1. PICK list \in ItemLists : items' = [items EXCEPT ![c] = list]
  BY DEF IoReceives
<1>2. /\ c # slot /\ c # cmd /\ slot' \in {slot, c}
      /\ acks[c] = <<>> /\ ran[c] = <<>>
      /\ store' \in {[store EXCEPT ![c] = "deleted"], [store EXCEPT ![c] = "allocated"]}
      /\ slot' = c => store' = [store EXCEPT ![c] = "allocated"]
      /\ iopc' \in {"run", "flag"}
      /\ UNCHANGED <<agent, flag, tpc, cmd, pos, state, working, opened, updated, statesDue, acks, ran>>
  BY DEF IoReceives, IInv, CommandInv, FreshInv, TypeOK, threadVars, envVars, wireVars
<1>3. TypeOK'
  <2>1. SlotTypes'
    BY <1>1, <1>2, TypeParts DEF SlotTypes
  <2>2. WorldTypes'
    BY <1>2, TypeParts DEF WorldTypes
  <2> QED
    BY <1>2, <2>1, <2>2, TypeParts, TypeMoves
<1>4. CommandInv'
  BY <1>1, <1>2 DEF IInv, TypeOK, CommandInv, Handling, NoUseAfterDelete, SlotNotDeleted
<1>5. PlaceInv'
  BY <1>1, <1>2 DEF IInv, TypeOK, CommandInv, PlaceInv, Handling
<1>6. FreshInv'
  BY <1>1, <1>2 DEF IInv, TypeOK, FreshInv
<1>7. RanInv'
  BY <1>1, <1>2 DEF IInv, TypeOK, RanInv, ExecutedOnceInOrder
<1>8. ToldInv'
  <2>1. OutcomeAfterAcceptance'
    <3> SUFFICES ASSUME NEW d \in Commands, NEW i \in 1..Len(acks[d])
                 PROVE (LET ack == acks[d][i] IN
                         items[d][ack.item] # "empty" /\ ack.state # "ACCEPTED" =>
                           /\ \E j \in 1..(i - 1) : acks[d][j] = [item |-> ack.item, state |-> "ACCEPTED"]
                           /\ \E k \in 1..Len(ran[d]) : ran[d][k] = ack.item)'
      BY <1>2 DEF OutcomeAfterAcceptance
    <3>1. d # c
      BY <1>2
    <3>2. items'[d] = items[d]
      BY <1>1, <3>1 DEF IInv, TypeOK
    <3> QED
      BY <1>2, <3>2 DEF IInv, ToldInv, OutcomeAfterAcceptance
  <2> QED
    BY <1>2, <2>1 DEF IInv, ToldInv
<1> QED
  BY <1>3, <1>4, <1>5, <1>6, <1>7, <1>8 DEF IInv

LEMMA Takes == IInv /\ ThreadTakesCommand => IInv'
<1> SUFFICES ASSUME IInv, ThreadTakesCommand PROVE IInv'
  OBVIOUS
<1> USE CommandsAssumption
<1>1. /\ tpc = "take" /\ tpc' \in {"reset", "item"}
      /\ (tpc' = "reset" <=> slot = NoCommand)
      /\ cmd = NoCommand /\ cmd' = slot /\ pos' = 1
      /\ UNCHANGED <<agent, slot, flag, store, items, iopc, state, working, opened, updated,
                     statesDue, acks, ran>>
  BY DEF IInv, CommandInv, Handling, ThreadTakesCommand, ThreadGoto, ioVars, envVars, wireVars
<1>2. TypeOK'
  <2>0. pos' \in 1..(MaxItems + 1)
    BY <1>1
  <2>1. ThreadTypes'
    BY <1>1, <2>0, TypeParts DEF ThreadTypes, SlotTypes
  <2> QED
    BY <1>1, <2>1, TypeParts, TypeMoves
<1>3. CommandInv'
  BY <1>1 DEF IInv, TypeOK, CommandInv, Handling, NoUseAfterDelete, SlotNotDeleted
<1>4. PlaceInv'
  <2>1. CASE slot = NoCommand
    BY <1>1, <2>1 DEF PlaceInv
  <2>2. CASE slot \in Commands
    <3>1. items[slot] \in ItemLists
      BY <2>2 DEF IInv, TypeOK
    <3>2. Len(items[slot]) \in Nat
      BY <3>1, ItemListLen
    <3> QED
      BY <1>1, <2>2, <3>2 DEF PlaceInv
  <2> QED
    BY <2>1, <2>2 DEF IInv, TypeOK
<1>5. FreshInv'
  BY <1>1 DEF IInv, TypeOK, FreshInv
<1>6. RanInv'
  <2>1. slot \in Commands => Len(ran[slot]) = 0
    BY <1>1 DEF IInv, FreshInv
  <2>2. tpc' = "item" => slot \in Commands
    BY <1>1 DEF IInv, TypeOK
  <2> QED
    BY <1>1, <2>1, <2>2 DEF IInv, RanInv, ExecutedOnceInOrder
<1>7. ToldInv'
  BY <1>1 DEF IInv, ToldInv, OutcomeAfterAcceptance
<1> QED
  BY <1>2, <1>3, <1>4, <1>5, <1>6, <1>7 DEF IInv

\* What appending to one sequence of a family does to the family.
LEMMA Appended ==
  ASSUME NEW S, NEW T, NEW f \in [T -> Seq(S)], NEW t \in T, NEW x \in S,
         NEW g, g = [f EXCEPT ![t] = Append(@, x)]
  PROVE  /\ g \in [T -> Seq(S)]
         /\ \A u \in T : u # t => g[u] = f[u]
         /\ Len(f[t]) \in Nat
         /\ Len(g[t]) = Len(f[t]) + 1
         /\ g[t][Len(g[t])] = x
         /\ \A i \in 1..Len(f[t]) : g[t][i] = f[t][i]
<1>1. f[t] \in Seq(S) /\ g[t] = Append(f[t], x)
  OBVIOUS
<1> QED
  BY <1>1

LEMMA Executes == IInv /\ ThreadExecutes => IInv'
<1> SUFFICES ASSUME IInv, ThreadExecutes PROVE IInv'
  OBVIOUS
<1> USE CommandsAssumption
<1>1. /\ tpc = "execute" /\ tpc' = "answer"
      /\ state' \in {"REJECTED", "ACKED", "ERRORED"}
      /\ ran' = [ran EXCEPT ![cmd] = Append(@, pos)]
      /\ UNCHANGED <<agent, slot, flag, store, items, iopc, cmd, pos, working, opened, updated,
                     statesDue, acks>>
  BY DEF ThreadExecutes, ThreadGoto, ioVars, envVars
<1>2. cmd \in Commands /\ store[cmd] = "allocated" /\ pos \in 1..Len(items[cmd])
  BY <1>1 DEF IInv, CommandInv, Handling, NoUseAfterDelete, PlaceInv
<1>3. pos \in 1..MaxItems
  <2>1. items[cmd] \in ItemLists
    BY <1>2 DEF IInv, TypeOK
  <2> QED
    BY <1>2, <2>1, ItemListLen
<1>4. ran \in [Commands -> Seq(1..MaxItems)]
  BY DEF IInv, TypeOK
<1>5. /\ ran' \in [Commands -> Seq(1..MaxItems)]
      /\ \A c \in Commands : c # cmd => ran'[c] = ran[c]
      /\ Len(ran[cmd]) \in Nat
      /\ Len(ran'[cmd]) = Len(ran[cmd]) + 1
      /\ ran'[cmd][Len(ran'[cmd])] = pos
      /\ \A i \in 1..Len(ran[cmd]) : ran'[cmd][i] = ran[cmd][i]
  BY <1>1, <1>2, <1>3, <1>4, Appended
<1>6. TypeOK'
  <2>1. AckTypes'
    BY <1>1, <1>5, TypeParts DEF AckTypes
  <2>2. ThreadTypes'
    BY <1>1, TypeParts DEF ThreadTypes, AckStates
  <2> QED
    BY <1>1, <2>1, <2>2, TypeParts, TypeMoves
<1>7. CommandInv'
  BY <1>1 DEF IInv, CommandInv, Handling, NoUseAfterDelete, SlotNotDeleted
<1>8. PlaceInv'
  BY <1>1, <1>2 DEF PlaceInv
<1>9. FreshInv'
  BY <1>1, <1>5 DEF IInv, FreshInv
<1>10. RanInv'
  <2>1. \A j \in 1..Len(ran[cmd]) : ran[cmd][j] < pos
    BY <1>1 DEF IInv, RanInv
  <2>2. \A j \in 1..Len(ran[cmd]) : ran[cmd][j] \in Nat
    BY <1>2, <1>4
  <2>3. ExecutedOnceInOrder'
    <3> SUFFICES ASSUME NEW c \in Commands, NEW i \in 1..Len(ran'[c]), NEW j \in 1..Len(ran'[c]), i < j
                 PROVE  ran'[c][i] < ran'[c][j]
      BY DEF ExecutedOnceInOrder
    <3>1. CASE c # cmd
      BY <1>5, <3>1 DEF IInv, RanInv, ExecutedOnceInOrder
    <3>2. CASE c = cmd /\ j = Len(ran'[cmd])
      <4>1. i \in 1..Len(ran[cmd])
        BY <1>5, <3>2
      <4>2. ran'[cmd][i] < pos
        BY <1>5, <2>1, <4>1
      <4> QED
        BY <1>5, <3>2, <4>2
    <3>3. CASE c = cmd /\ j # Len(ran'[cmd])
      <4>1. i \in 1..Len(ran[cmd]) /\ j \in 1..Len(ran[cmd])
        BY <1>5, <3>3, SMTT(30)
      <4> QED
        BY <1>5, <3>3, <4>1 DEF IInv, RanInv, ExecutedOnceInOrder
    <3> QED
      BY <3>1, <3>2, <3>3
  <2>4. \A j \in 1..Len(ran'[cmd]) : ran'[cmd][j] <= pos
    <3> TAKE j \in 1..Len(ran'[cmd])
    <3>1. CASE j = Len(ran'[cmd])
      BY <1>3, <1>5, <3>1
    <3>2. CASE j \in 1..Len(ran[cmd])
      <4>1. ran'[cmd][j] = ran[cmd][j] /\ ran[cmd][j] \in Nat /\ ran[cmd][j] < pos
        BY <1>5, <2>1, <2>2, <3>2
      <4> QED
        BY <1>3, <4>1
    <3> QED
      BY <1>5, <3>1, <3>2
  <2>5. \E k \in 1..Len(ran'[cmd]) : ran'[cmd][k] = pos
    <3>1. Len(ran'[cmd]) \in 1..Len(ran'[cmd])
      BY <1>5
    <3> QED
      BY <1>5, <3>1
  <2> QED
    BY <1>1, <2>3, <2>4, <2>5 DEF RanInv
<1>11. ToldInv'
  <2>1. OutcomeAfterAcceptance'
    <3> SUFFICES ASSUME NEW c \in Commands, NEW i \in 1..Len(acks[c]),
                        items[c][acks[c][i].item] # "empty", acks[c][i].state # "ACCEPTED"
                 PROVE  /\ \E j \in 1..(i - 1) :
                             acks[c][j] = [item |-> acks[c][i].item, state |-> "ACCEPTED"]
                        /\ \E k \in 1..Len(ran'[c]) : ran'[c][k] = acks[c][i].item
      BY <1>1 DEF OutcomeAfterAcceptance
    <3>1. /\ \E j \in 1..(i - 1) :
               acks[c][j] = [item |-> acks[c][i].item, state |-> "ACCEPTED"]
          /\ \E k \in 1..Len(ran[c]) : ran[c][k] = acks[c][i].item
      BY DEF IInv, ToldInv, OutcomeAfterAcceptance
    <3>2. PICK k \in 1..Len(ran[c]) : ran[c][k] = acks[c][i].item
      BY <3>1
    <3>3. k \in 1..Len(ran'[c]) /\ ran'[c][k] = ran[c][k]
      <4>1. CASE c = cmd
        BY <1>5, <3>2, <4>1
      <4>2. CASE c # cmd
        BY <1>5, <3>2, <4>2
      <4> QED
        BY <4>1, <4>2
    <3> QED
      BY <3>1, <3>2, <3>3
  <2> QED
    BY <1>1, <2>1 DEF IInv, ToldInv
<1> QED
  BY <1>6, <1>7, <1>8, <1>9, <1>10, <1>11 DEF IInv

\* An acknowledgement that goes out, or would if the session were still open.
LEMMA Sent ==
  ASSUME IInv, cmd \in Commands, pos \in 1..MaxItems, NEW s \in AckStates, Send(s),
         UNCHANGED <<items, ran>>,
         opened /\ items[cmd][pos] # "empty" /\ s # "ACCEPTED" =>
           /\ \E j \in 1..Len(acks[cmd]) : acks[cmd][j] = [item |-> pos, state |-> "ACCEPTED"]
           /\ \E k \in 1..Len(ran[cmd]) : ran[cmd][k] = pos
  PROVE  /\ acks' \in [Commands -> Seq([item : 1..MaxItems, state : AckStates])]
         /\ \A c \in Commands : c # cmd => acks'[c] = acks[c]
         /\ opened => \E j \in 1..Len(acks'[cmd]) : acks'[cmd][j] = [item |-> pos, state |-> s]
         /\ OutcomeAfterAcceptance'
<1> DEFINE Ack == [item |-> pos, state |-> s]
           AckRecords == [item : 1..MaxItems, state : AckStates]
<1>1. acks \in [Commands -> Seq(AckRecords)]
  BY DEF IInv, TypeOK
<1>2. Ack \in AckRecords
  OBVIOUS
<1>3. OutcomeAfterAcceptance
  BY DEF IInv, ToldInv
<1>4. CASE ~opened
  <2>1. acks' = acks
    BY <1>4 DEF Send
  <2> QED
    BY <1>1, <1>3, <1>4, <2>1 DEF OutcomeAfterAcceptance
<1>5. CASE opened
  <2>1. acks' = [acks EXCEPT ![cmd] = Append(@, Ack)]
    BY <1>5 DEF Send
  <2> HIDE DEF Ack, AckRecords
  <2>0. acks' \in [Commands -> Seq(AckRecords)]
    BY <1>1, <1>2, <2>1, Appended
  <2>2. /\ \A c \in Commands : c # cmd => acks'[c] = acks[c]
        /\ Len(acks[cmd]) \in Nat
        /\ Len(acks'[cmd]) = Len(acks[cmd]) + 1
        /\ acks'[cmd][Len(acks'[cmd])] = Ack
        /\ \A i \in 1..Len(acks[cmd]) : acks'[cmd][i] = acks[cmd][i]
    BY <1>1, <1>2, <2>1, Appended
  <2>3. \E j \in 1..Len(acks'[cmd]) : acks'[cmd][j] = Ack
    <3>1. Len(acks'[cmd]) \in 1..Len(acks'[cmd])
      BY <2>2
    <3> QED
      BY <2>2, <3>1
  <2>4. OutcomeAfterAcceptance'
    <3> SUFFICES ASSUME NEW c \in Commands, NEW i \in 1..Len(acks'[c]),
                        items[c][acks'[c][i].item] # "empty", acks'[c][i].state # "ACCEPTED"
                 PROVE  /\ \E j \in 1..(i - 1) :
                             acks'[c][j] = [item |-> acks'[c][i].item, state |-> "ACCEPTED"]
                        /\ \E k \in 1..Len(ran[c]) : ran[c][k] = acks'[c][i].item
      BY DEF OutcomeAfterAcceptance
    <3>1. CASE c # cmd
      <4>1. acks'[c] = acks[c]
        BY <2>2, <3>1
      <4> QED
        BY <1>3, <4>1 DEF OutcomeAfterAcceptance
    <3>2. CASE c = cmd /\ i \in 1..Len(acks[cmd])
      <4>1. acks'[c][i] = acks[c][i]
        BY <2>2, <3>2
      <4>2. /\ \E j \in 1..(i - 1) : acks[c][j] = [item |-> acks[c][i].item, state |-> "ACCEPTED"]
            /\ \E k \in 1..Len(ran[c]) : ran[c][k] = acks[c][i].item
        <5>1. items[c][acks[c][i].item] # "empty" /\ acks[c][i].state # "ACCEPTED"
          BY <4>1
        <5>2. i \in 1..Len(acks[c])
          BY <3>2
        <5> QED
          BY <1>3, <5>1, <5>2 DEF OutcomeAfterAcceptance
      <4>3. PICK j \in 1..(i - 1) : acks[c][j] = [item |-> acks[c][i].item, state |-> "ACCEPTED"]
        BY <4>2
      <4>4. acks'[c][j] = acks[c][j]
        <5>1. j \in 1..Len(acks[cmd])
          BY <2>2, <3>2, <4>3
        <5> QED
          BY <2>2, <3>2, <5>1
      <4> QED
        BY <4>1, <4>2, <4>3, <4>4
    <3>3. CASE c = cmd /\ i = Len(acks'[cmd])
      <4>1. acks'[c][i] = Ack /\ i - 1 = Len(acks[c])
        BY <2>2, <3>3
      <4>2. Ack.item = pos /\ Ack.state = s
        BY DEF Ack
      <4>3. /\ \E j \in 1..Len(acks[cmd]) : acks[cmd][j] = [item |-> pos, state |-> "ACCEPTED"]
            /\ \E k \in 1..Len(ran[cmd]) : ran[cmd][k] = pos
        BY <1>5, <3>3, <4>1, <4>2
      <4>4. PICK j \in 1..Len(acks[cmd]) : acks[cmd][j] = [item |-> pos, state |-> "ACCEPTED"]
        BY <4>3
      <4>5. acks'[c][j] = acks[c][j]
        BY <2>2, <3>3, <4>4
      <4> QED
        BY <3>3, <4>1, <4>2, <4>3, <4>4, <4>5
    <3>4. c = cmd => i \in 1..Len(acks[cmd]) \/ i = Len(acks'[cmd])
      BY <2>2
    <3> QED
      BY <3>1, <3>2, <3>3, <3>4
  <2> QED
    BY <2>0, <2>2, <2>3, <2>4 DEF Ack, AckRecords
<1> QED
  BY <1>4, <1>5

LEMMA Deletes == IInv /\ ThreadDeletes => IInv'
<1> SUFFICES ASSUME IInv, ThreadDeletes PROVE IInv'
  OBVIOUS
<1> USE CommandsAssumption
<1>1. /\ tpc \in {"item", "delete"} /\ tpc' = "null"
      /\ store' = IF slot = NoCommand THEN store ELSE [store EXCEPT ![slot] = "deleted"]
      /\ UNCHANGED <<agent, slot, flag, items, iopc, cmd, pos, state, working, opened, updated,
                     statesDue, acks, ran>>
  BY DEF ThreadDeletes, ThreadGoto, envVars, wireVars
<1>2. /\ store' \in [Commands -> {"none", "allocated", "deleted"}]
      /\ \A c \in Commands : store'[c] = "none" <=> store[c] = "none"
  BY <1>1 DEF IInv, TypeOK, CommandInv
<1>3. TypeOK'
  <2>1. SlotTypes' /\ ThreadTypes' /\ WorldTypes'
    BY <1>1, <1>2, TypeParts DEF SlotTypes, ThreadTypes, WorldTypes
  <2> QED
    BY <1>1, <2>1, TypeParts, TypeMoves
<1>4. CommandInv'
  BY <1>1, <1>2 DEF IInv, CommandInv, Handling, NoUseAfterDelete, SlotNotDeleted
<1>5. PlaceInv'
  BY <1>1 DEF PlaceInv
<1>6. FreshInv'
  BY <1>1, <1>2 DEF IInv, FreshInv
<1>7. RanInv'
  BY <1>1 DEF IInv, RanInv, ExecutedOnceInOrder
<1>8. ToldInv'
  BY <1>1 DEF IInv, ToldInv, OutcomeAfterAcceptance
<1> QED
  BY <1>3, <1>4, <1>5, <1>6, <1>7, <1>8 DEF IInv

LEMMA Empties == IInv /\ ThreadEmptiesSlot => IInv'
<1> SUFFICES ASSUME IInv, ThreadEmptiesSlot PROVE IInv'
  OBVIOUS
<1> USE CommandsAssumption
<1>1. /\ tpc = "null" /\ tpc' = "reset" /\ slot' = NoCommand /\ cmd' = NoCommand /\ pos' = 1
      /\ UNCHANGED <<agent, flag, store, items, iopc, state, working, opened, updated,
                     statesDue, acks, ran>>
  BY DEF ThreadEmptiesSlot, ThreadGoto, ioVars, envVars, wireVars
<1>2. TypeOK'
  <2>0. pos' \in 1..(MaxItems + 1)
    BY <1>1
  <2>1. ThreadTypes'
    BY <1>1, <2>0, TypeParts DEF ThreadTypes
  <2>2. SlotTypes'
    BY <1>1, TypeParts DEF SlotTypes
  <2> QED
    BY <1>1, <2>1, <2>2, TypeParts, TypeMoves
<1>3. CommandInv'
  BY <1>1 DEF IInv, CommandInv, Handling, NoUseAfterDelete, SlotNotDeleted
<1>4. PlaceInv'
  BY <1>1 DEF PlaceInv
<1>5. FreshInv'
  BY <1>1 DEF IInv, CommandInv, FreshInv
<1>6. RanInv'
  BY <1>1 DEF IInv, RanInv, ExecutedOnceInOrder
<1>7. ToldInv'
  BY <1>1 DEF IInv, ToldInv, OutcomeAfterAcceptance
<1> QED
  BY <1>2, <1>3, <1>4, <1>5, <1>6, <1>7 DEF IInv

LEMMA Accepts == IInv /\ ThreadAccepts => IInv'
<1> SUFFICES ASSUME IInv, ThreadAccepts PROVE IInv'
  OBVIOUS
<1> USE CommandsAssumption
<1>1. /\ tpc = "item" /\ pos <= Len(items[cmd])
      /\ UNCHANGED <<agent, slot, flag, store, items, iopc, cmd, state, working, opened, updated,
                     statesDue, ran>>
  BY DEF ThreadAccepts, ThreadGoto, ioVars, envVars
<1>2. cmd \in Commands /\ store[cmd] = "allocated" /\ pos \in 1..Len(items[cmd])
  <2>1. /\ cmd \in Commands /\ store[cmd] = "allocated"
        /\ pos \in 1..(Len(items[cmd]) + 1)
    BY <1>1 DEF IInv, CommandInv, Handling, NoUseAfterDelete, PlaceInv
  <2>2. items[cmd] \in ItemLists
    BY <2>1 DEF IInv, TypeOK
  <2>3. Len(items[cmd]) \in Nat
    BY <2>2, ItemListLen
  <2> QED
    BY <1>1, <2>1, <2>3
<1>3. pos \in 1..MaxItems /\ Len(items[cmd]) \in 0..MaxItems
  <2>1. items[cmd] \in ItemLists
    BY <1>2 DEF IInv, TypeOK
  <2> QED
    BY <1>2, <2>1, ItemListLen
<1>4. \A j \in 1..Len(ran[cmd]) : ran[cmd][j] < pos /\ ran[cmd][j] \in Nat
  <2>1. ran[cmd] \in Seq(1..MaxItems)
    BY <1>2 DEF IInv, TypeOK
  <2> QED
    BY <1>1, <2>1 DEF IInv, RanInv
<1>5. \/ /\ tpc' = "execute" /\ pos' = pos /\ Send("ACCEPTED")
      \/ /\ tpc' = "item" /\ pos' = pos + 1 /\ items[cmd][pos] = "empty" /\ Send("REJECTED")
      \/ /\ tpc' = "item" /\ pos' = pos + 1 /\ acks' = acks
  BY DEF ThreadAccepts, ThreadGoto
<1>6. /\ acks' \in [Commands -> Seq([item : 1..MaxItems, state : AckStates])]
      /\ \A c \in Commands : c # cmd => acks'[c] = acks[c]
      /\ OutcomeAfterAcceptance'
      /\ tpc' = "execute" /\ opened =>
           \E j \in 1..Len(acks'[cmd]) : acks'[cmd][j] = [item |-> pos, state |-> "ACCEPTED"]
  <2> "ACCEPTED" \in AckStates /\ "REJECTED" \in AckStates
    BY DEF AckStates
  <2>1. CASE Send("ACCEPTED")
    BY <1>1, <1>2, <1>3, <1>5, <2>1, Sent
  <2>2. CASE tpc' = "item" /\ items[cmd][pos] = "empty" /\ Send("REJECTED")
    BY <1>1, <1>2, <1>3, <2>2, Sent
  <2>3. CASE tpc' = "item" /\ acks' = acks
    <3>1. acks \in [Commands -> Seq([item : 1..MaxItems, state : AckStates])]
      BY DEF IInv, TypeOK
    <3>2. OutcomeAfterAcceptance'
      BY <1>1, <2>3 DEF IInv, ToldInv, OutcomeAfterAcceptance
    <3> QED
      BY <2>3, <3>1, <3>2
  <2> QED
    BY <1>5, <2>1, <2>2, <2>3
<1>7. TypeOK'
  <2>1. tpc' \in {"item", "execute"} /\ pos' \in 1..(MaxItems + 1)
    BY <1>3, <1>5
  <2>2. AckTypes'
    BY <1>1, <1>6, TypeParts DEF AckTypes
  <2>3. ThreadTypes'
    BY <1>1, <2>1, TypeParts DEF ThreadTypes
  <2> QED
    BY <1>1, <2>2, <2>3, TypeParts, TypeMoves
<1>8. CommandInv'
  BY <1>1, <1>5 DEF IInv, CommandInv, Handling, NoUseAfterDelete, SlotNotDeleted
<1>9. PlaceInv'
  BY <1>1, <1>2, <1>3, <1>5 DEF PlaceInv
<1>10. FreshInv'
  BY <1>1, <1>6 DEF IInv, FreshInv
<1>11. RanInv'
  <2>1. \A j \in 1..Len(ran[cmd]) : ran[cmd][j] < pos'
    BY <1>3, <1>4, <1>5
  <2> QED
    BY <1>1, <1>5, <2>1 DEF IInv, RanInv, ExecutedOnceInOrder
<1>12. ToldInv'
  BY <1>1, <1>5, <1>6 DEF ToldInv
<1> QED
  BY <1>7, <1>8, <1>9, <1>10, <1>11, <1>12 DEF IInv

LEMMA Answers == IInv /\ ThreadAnswers => IInv'
<1> SUFFICES ASSUME IInv, ThreadAnswers PROVE IInv'
  OBVIOUS
<1> USE CommandsAssumption
<1>1. /\ tpc = "answer" /\ state' = ""
      /\ UNCHANGED <<agent, slot, flag, store, items, iopc, cmd, working, opened, updated, ran>>
  BY DEF ThreadAnswers, ThreadGoto, ioVars, envVars
<1>2. /\ cmd \in Commands /\ store[cmd] = "allocated"
      /\ pos \in 1..Len(items[cmd]) /\ state \in {"REJECTED", "ACKED", "ERRORED"}
  BY <1>1 DEF IInv, CommandInv, Handling, NoUseAfterDelete, PlaceInv
<1>3. pos \in 1..MaxItems /\ Len(items[cmd]) \in 0..MaxItems
  <2>1. items[cmd] \in ItemLists
    BY <1>2 DEF IInv, TypeOK
  <2> QED
    BY <1>2, <2>1, ItemListLen
<1>4. \A j \in 1..Len(ran[cmd]) : ran[cmd][j] <= pos /\ ran[cmd][j] \in Nat
  <2>1. ran[cmd] \in Seq(1..MaxItems)
    BY <1>2 DEF IInv, TypeOK
  <2>2. \A j \in 1..Len(ran[cmd]) : ran[cmd][j] <= pos
    BY <1>1 DEF IInv, RanInv
  <2> QED
    BY <2>1, <2>2
<1>5. \/ /\ tpc' = "item" /\ pos' = pos + 1 /\ statesDue' = TRUE /\ Send(state)
      \/ /\ tpc' = "delete" /\ pos' = pos /\ statesDue' = statesDue /\ acks' = acks
  BY DEF ThreadAnswers, ThreadGoto
<1>6. /\ acks' \in [Commands -> Seq([item : 1..MaxItems, state : AckStates])]
      /\ \A c \in Commands : c # cmd => acks'[c] = acks[c]
      /\ OutcomeAfterAcceptance'
  <2>1. CASE Send(state)
    <3>1. state \in AckStates
      BY <1>2 DEF AckStates
    <3>2. opened => \E j \in 1..Len(acks[cmd]) : acks[cmd][j] = [item |-> pos, state |-> "ACCEPTED"]
      BY <1>1 DEF IInv, ToldInv
    <3>3. \E k \in 1..Len(ran[cmd]) : ran[cmd][k] = pos
      BY <1>1 DEF IInv, RanInv
    <3> QED
      BY <1>1, <1>2, <1>3, <2>1, <3>1, <3>2, <3>3, Sent
  <2>2. CASE acks' = acks
    <3>1. acks \in [Commands -> Seq([item : 1..MaxItems, state : AckStates])]
      BY DEF IInv, TypeOK
    <3>2. OutcomeAfterAcceptance'
      BY <1>1, <2>2 DEF IInv, ToldInv, OutcomeAfterAcceptance
    <3> QED
      BY <2>2, <3>1, <3>2
  <2> QED
    BY <1>5, <2>1, <2>2
<1>7. TypeOK'
  <2>1. tpc' \in {"item", "delete"} /\ pos' \in 1..(MaxItems + 1)
    BY <1>3, <1>5
  <2>2. AckTypes'
    BY <1>1, <1>6, TypeParts DEF AckTypes
  <2>3. ThreadTypes'
    BY <1>1, <2>1, TypeParts DEF ThreadTypes
  <2>4. WorldTypes'
    BY <1>1, <1>5, TypeParts DEF WorldTypes
  <2> QED
    BY <1>1, <2>2, <2>3, <2>4, TypeParts, TypeMoves
<1>8. CommandInv'
  BY <1>1, <1>5 DEF IInv, CommandInv, Handling, NoUseAfterDelete, SlotNotDeleted
<1>9. PlaceInv'
  <2>1. pos + 1 \in 1..(Len(items[cmd]) + 1)
    BY <1>2, <1>3
  <2> QED
    BY <1>1, <1>5, <2>1 DEF PlaceInv
<1>10. FreshInv'
  BY <1>1, <1>6 DEF IInv, FreshInv
<1>11. RanInv'
  <2>1. tpc' = "item" => \A j \in 1..Len(ran[cmd]) : ran[cmd][j] < pos'
    BY <1>3, <1>4, <1>5
  <2> QED
    BY <1>1, <1>5, <2>1 DEF IInv, RanInv, ExecutedOnceInOrder
<1>12. ToldInv'
  BY <1>5, <1>6 DEF ToldInv
<1> QED
  BY <1>7, <1>8, <1>9, <1>10, <1>11, <1>12 DEF IInv

-----------------------------------------------------------------------------

LEMMA Stepwise == IInv /\ [Next]_vars => IInv'
  BY Receives, IoRaises, IoLoses, Registration, DataThread, Polls, Takes, Accepts, Executes,
     Answers, Deletes, Empties, ResetsFlag, Stutter
     DEF Next, ThreadStep

\* The inductive invariant holds in every reachable state of the exchange.
THEOREM Invariance == Spec => []IInv
  BY Initially, Stepwise, PTL DEF Spec

\* Every variable of the command exchange keeps its type, however many commands
\* arrive and however many items they carry (WebSocketClient.cpp:48-121, 244-257).
THEOREM TypeCorrect == Spec => []TypeOK
  BY Invariance, PTL DEF IInv

\* NotifyCommandThread works through no deleted command (WebSocketClient.cpp:48-121
\* against 255).
THEOREM CommandStays == Spec => []NoUseAfterDelete
  BY Invariance, PTL DEF IInv, CommandInv

\* No command is deleted a second time through the slot (WebSocketClient.h:73).
THEOREM DeletedOnce == Spec => []SlotNotDeleted
  BY Invariance, PTL DEF IInv, CommandInv

\* No item of any command is executed twice, nor before one that precedes it
\* (WebSocketClient.cpp:59-120, 445-447).
THEOREM InOrder == Spec => []ExecutedOnceInOrder
  BY Invariance, PTL DEF IInv, RanInv

\* The agent is told of no outcome before the acceptance, and of none of an item
\* that has not run (WebSocketClient.cpp:82-115).
THEOREM ToldFirst == Spec => []OutcomeAfterAcceptance
  BY Invariance, PTL DEF IInv, ToldInv
=============================================================================

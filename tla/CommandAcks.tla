----------------------------- MODULE CommandAcks -----------------------------
(***************************************************************************)
(* Commands from the agent and their acknowledgements                      *)
(* (MainSrc/WebSocketClient.cpp).  The io thread leaves a received command *)
(* in a slot of the client, m_receivedCommand, and raises the global flag  *)
(* needSendCmdAcks; NotifyCommandThread polls the flag, takes what is in   *)
(* the slot, runs its items one by one, acknowledging each when it is      *)
(* accepted and when it is done, and empties slot and flag.  No lock       *)
(* guards either.                                                          *)
(*                                                                         *)
(* This is one client, from its connection to the loss of it.              *)
(*                                                                         *)
(* A definition X_Y marked as a mutant is X with a bug (README.md).        *)
(***************************************************************************)
EXTENDS Naturals, Sequences

CONSTANTS
  Commands,   \* command objects; each arrives at most once
  NoCommand,  \* the null m_receivedCommand
  MaxItems,   \* bound: items in one command
  Agents      \* the kinds of agent considered

\* When the agent sends the next command.  eager: at any time, and some of its
\* commands get no acknowledgement built (SetNotifyCommandAcks returns NULL);
\* sequential: once the last item of every command before is answered;
\* patient: once the plugIN is back to polling with nothing to do.
AgentKinds == {"eager", "sequential", "patient"}

ASSUME CommandsAssumption ==
  /\ NoCommand \notin Commands
  /\ MaxItems \in Nat
  /\ Agents \subseteq AgentKinds

\* What a command's item may name: one of start, stop, install and uninstall,
\* something else, or nothing.
Kinds == {"known", "unknown", "empty"}
ItemLists == UNION {[1..n -> Kinds] : n \in 0..MaxItems}

VARIABLES
  agent,     \* the agent of this session
  slot,      \* m_receivedCommand
  flag,      \* needSendCmdAcks
  store,     \* every command object: not there yet, allocated, deleted
  items,     \* the items it carries
  iopc,      \* where the io thread is in the command branch of On_message
  tpc,       \* where NotifyCommandThread is
  cmd, pos,  \* its locals: receivedCommand and the iterator over the items
  state,     \* execState of the item it has run
  working,   \* m_threadstart
  opened,    \* the session is open
  updated,   \* IsUpdated()
  statesDue, \* needSendStates
  acks,      \* the acknowledgements the session took, per command
  ran        \* the items executed, per command, in order

ioVars     == <<iopc, store, items>>
threadVars == <<tpc, cmd, pos, state>>
envVars    == <<agent, working, opened, updated>>
wireVars   == <<acks, ran>>
vars == <<slot, flag, ioVars, threadVars, envVars, statesDue, wireVars>>

Init ==
  /\ agent \in Agents
  /\ slot = NoCommand /\ flag = FALSE
  /\ store = [c \in Commands |-> "none"]
  /\ items = [c \in Commands |-> <<>>]
  /\ iopc = "run"
  /\ tpc = "loop" /\ cmd = NoCommand /\ pos = 1 /\ state = ""
  /\ working = TRUE /\ opened = TRUE /\ updated = FALSE
  /\ statesDue = FALSE
  /\ acks = [c \in Commands |-> <<>>]
  /\ ran = [c \in Commands |-> <<>>]

-----------------------------------------------------------------------------
(***************************************************************************)
(* The io thread                                                           *)
(***************************************************************************)

Received == {c \in Commands : store[c] # "none"}

\* The last thing the session took about c is the outcome of its last item.
Answered(c) ==
  /\ acks[c] # <<>>
  /\ LET last == acks[c][Len(acks[c])]
     IN  last.item = Len(items[c]) /\ last.state # "ACCEPTED"

Polling == tpc \in {"loop", "registered", "flag"} /\ slot = NoCommand /\ ~flag

BuildFails == agent = "eager"

AgentSends ==
  CASE agent = "eager"      -> TRUE
    [] agent = "sequential" -> \A c \in Received : Answered(c)
    [] agent = "patient"    -> Polling

\* Mutant: the command in the slot is deleted when another one arrives.
IoReceives_DeletesOld(c) ==
  /\ iopc = "run" /\ opened /\ store[c] = "none" /\ AgentSends
  /\ \E list \in ItemLists : items' = [items EXCEPT ![c] = list]
  /\ store' = [d \in Commands |-> IF d = c THEN "allocated"
                                  ELSE IF d = slot THEN "deleted" ELSE store[d]]
  /\ slot' = c
  /\ iopc' = "flag"
  /\ UNCHANGED <<flag, threadVars, envVars, statesDue, wireVars>>

\* A command with an invalid signature is deleted on the spot; a valid one
\* replaces whatever the slot holds, which is not deleted.
IoReceives(c) ==
  /\ iopc = "run" /\ opened /\ store[c] = "none" /\ AgentSends
  /\ \E list \in ItemLists : items' = [items EXCEPT ![c] = list]
  /\ \/ /\ store' = [store EXCEPT ![c] = "deleted"]
        /\ UNCHANGED <<slot, iopc>>
     \/ /\ store' = [store EXCEPT ![c] = "allocated"]
        /\ slot' = c
        /\ iopc' = "flag"
  /\ UNCHANGED <<flag, threadVars, envVars, statesDue, wireVars>>

IoRaisesFlag ==
  /\ iopc = "flag"
  /\ flag' = TRUE
  /\ iopc' = "run"
  /\ UNCHANGED <<slot, store, items, threadVars, envVars, statesDue, wireVars>>

\* The session ends, and with it the client's work.
IoLosesSession ==
  /\ iopc = "run" /\ opened
  /\ opened' = FALSE /\ working' = FALSE
  /\ UNCHANGED <<agent, slot, flag, ioVars, threadVars, updated, statesDue, wireVars>>

\* The registration thread sets the flag, an error -32000 clears it.
RegistrationChanges ==
  /\ opened
  /\ updated' = ~updated
  /\ UNCHANGED <<agent, slot, flag, ioVars, threadVars, working, opened, statesDue, wireVars>>

\* NotifyDataThread of an updated client.
DataThreadReports ==
  /\ working /\ updated /\ statesDue
  /\ statesDue' = FALSE
  /\ UNCHANGED <<slot, flag, ioVars, threadVars, envVars, wireVars>>

-----------------------------------------------------------------------------
(***************************************************************************)
(* NotifyCommandThread and SendNotifyPluginCommandAcks                     *)
(***************************************************************************)

ThreadGoto(from, to) == tpc = from /\ tpc' = to

ThreadPolls ==
  /\ \/ ThreadGoto("loop", "registered") /\ working
     \/ ThreadGoto("loop", "ended") /\ ~working
     \/ ThreadGoto("registered", "flag") /\ updated
     \/ ThreadGoto("registered", "loop") /\ ~updated
     \/ ThreadGoto("flag", "take") /\ flag
     \/ ThreadGoto("flag", "loop") /\ ~flag
  /\ UNCHANGED <<slot, flag, ioVars, cmd, pos, state, envVars, statesDue, wireVars>>

ThreadTakesCommand ==
  /\ \/ ThreadGoto("take", "item") /\ slot # NoCommand
     \/ ThreadGoto("take", "reset") /\ slot = NoCommand
  /\ cmd' = slot /\ pos' = 1
  /\ UNCHANGED <<slot, flag, ioVars, state, envVars, statesDue, wireVars>>

\* A closed session takes nothing; the result of the send is not looked at.
Send(s) ==
  acks' = IF opened
          THEN [acks EXCEPT ![cmd] = Append(@, [item |-> pos, state |-> s])]
          ELSE acks

\* Mutant: an item whose acknowledgement cannot be built is skipped together
\* with the next one.
ThreadAccepts_SkipsTwo ==
  /\ tpc = "item" /\ pos <= Len(items[cmd])
  /\ \/ /\ ThreadGoto("item", "execute")
        /\ Send("ACCEPTED")
        /\ UNCHANGED pos
     \/ /\ BuildFails
        /\ ThreadGoto("item", "item")
        /\ pos' = pos + 2
        /\ UNCHANGED acks
  /\ UNCHANGED <<slot, flag, ioVars, cmd, state, envVars, statesDue, ran>>

\* Mutant: an item is executed although its first acknowledgement could not be
\* built.
ThreadAccepts_Anyway ==
  /\ tpc = "item" /\ pos <= Len(items[cmd])
  /\ ThreadGoto("item", "execute")
  /\ Send("ACCEPTED") \/ (BuildFails /\ UNCHANGED acks)
  /\ UNCHANGED <<slot, flag, ioVars, cmd, pos, state, envVars, statesDue, ran>>

\* AcceptReceivedCommand rejects only an item without a name.
ThreadAccepts ==
  /\ tpc = "item" /\ pos <= Len(items[cmd])
  /\ \/ /\ items[cmd][pos] # "empty"
        /\ ThreadGoto("item", "execute")
        /\ Send("ACCEPTED")
        /\ UNCHANGED pos
     \/ /\ items[cmd][pos] = "empty"
        /\ ThreadGoto("item", "item")
        /\ Send("REJECTED")
        /\ pos' = pos + 1
     \/ /\ BuildFails
        /\ ThreadGoto("item", "item")
        /\ pos' = pos + 1
        /\ UNCHANGED acks
  /\ UNCHANGED <<slot, flag, ioVars, cmd, state, envVars, statesDue, ran>>

\* ExecuteReceivedCommand: a script that succeeds or not, and nothing at all
\* for a name it does not know.
ThreadExecutes ==
  /\ ThreadGoto("execute", "answer")
  /\ state' \in IF items[cmd][pos] = "known" THEN {"ACKED", "ERRORED"} ELSE {"REJECTED"}
  /\ ran' = [ran EXCEPT ![cmd] = Append(@, pos)]
  /\ UNCHANGED <<slot, flag, ioVars, cmd, pos, envVars, statesDue, acks>>

\* Mutant: only the first item of a command is handled.
ThreadAnswers_Once ==
  /\ ThreadGoto("answer", "delete")
  /\ Send(state)
  /\ statesDue' = TRUE
  /\ state' = ""
  /\ UNCHANGED <<slot, flag, ioVars, cmd, pos, envVars, ran>>

\* An acknowledgement that cannot be built ends the whole command.
ThreadAnswers ==
  /\ \/ /\ ThreadGoto("answer", "item")
        /\ Send(state)
        /\ statesDue' = TRUE
        /\ pos' = pos + 1
     \/ /\ BuildFails
        /\ ThreadGoto("answer", "delete")
        /\ UNCHANGED <<acks, statesDue, pos>>
  /\ state' = ""
  /\ UNCHANGED <<slot, flag, ioVars, cmd, envVars, ran>>

\* ClearReceivedCommand deletes what the slot holds by then, which need not be
\* the command just handled ...
ThreadDeletes ==
  /\ \/ ThreadGoto("item", "null") /\ pos > Len(items[cmd])
     \/ ThreadGoto("delete", "null")
  /\ store' = IF slot = NoCommand THEN store ELSE [store EXCEPT ![slot] = "deleted"]
  /\ UNCHANGED <<slot, flag, iopc, items, cmd, pos, state, envVars, statesDue, wireVars>>

\* Mutant: the slot is left as it is.
ThreadEmptiesSlot_Not ==
  /\ ThreadGoto("null", "reset")
  /\ cmd' = NoCommand /\ pos' = 1
  /\ UNCHANGED <<slot, flag, ioVars, state, envVars, statesDue, wireVars>>

\* ... and empties the slot.
ThreadEmptiesSlot ==
  /\ ThreadGoto("null", "reset")
  /\ slot' = NoCommand
  /\ cmd' = NoCommand /\ pos' = 1
  /\ UNCHANGED <<flag, ioVars, state, envVars, statesDue, wireVars>>

ThreadResetsFlag ==
  /\ ThreadGoto("reset", "loop")
  /\ flag' = FALSE
  /\ UNCHANGED <<slot, ioVars, cmd, pos, state, envVars, statesDue, wireVars>>

ThreadStep ==
  \/ ThreadPolls \/ ThreadTakesCommand \/ ThreadAccepts \/ ThreadExecutes
  \/ ThreadAnswers \/ ThreadDeletes \/ ThreadEmptiesSlot \/ ThreadResetsFlag

-----------------------------------------------------------------------------

Next ==
  \/ \E c \in Commands : IoReceives(c)
  \/ IoRaisesFlag \/ IoLosesSession \/ RegistrationChanges \/ DataThreadReports
  \/ ThreadStep

Spec == Init /\ [][Next]_vars

\* The scheduler runs both threads; nothing is assumed of the agent.
FairSpec == Spec /\ WF_vars(IoRaisesFlag) /\ WF_vars(ThreadStep)

-----------------------------------------------------------------------------
(***************************************************************************)
(* Properties                                                              *)
(***************************************************************************)

AckStates == {"ACCEPTED", "REJECTED", "ACKED", "ERRORED"}

\* Every variable of the command exchange holds a value of its type.
TypeOK ==
  /\ agent \in Agents
  /\ slot \in Commands \cup {NoCommand} /\ flag \in BOOLEAN
  /\ store \in [Commands -> {"none", "allocated", "deleted"}]
  /\ items \in [Commands -> ItemLists]
  /\ iopc \in {"run", "flag"}
  /\ tpc \in {"loop", "registered", "flag", "take", "item", "execute", "answer",
              "delete", "null", "reset", "ended"}
  /\ cmd \in Commands \cup {NoCommand} /\ pos \in 1..(MaxItems + 1)
  /\ state \in AckStates \cup {""}
  /\ working \in BOOLEAN /\ opened \in BOOLEAN /\ updated \in BOOLEAN
  /\ statesDue \in BOOLEAN
  /\ acks \in [Commands -> Seq([item : 1..MaxItems, state : AckStates])]
  /\ ran \in [Commands -> Seq(1..MaxItems)]

\* The thread works through a command object nobody has deleted, although the
\* io thread may put another one into the slot meanwhile
\* (WebSocketClient.cpp:48-121 against 255).
NoUseAfterDelete ==
  tpc \in {"item", "execute", "answer", "delete"} => store[cmd] = "allocated"

\* The slot holds a command that has not been deleted, except between the two
\* statements of ClearReceivedCommand (WebSocketClient.h:73): it is deleted once.
SlotNotDeleted == slot # NoCommand /\ tpc # "null" => store[slot] = "allocated"

\* However the flag and the slot are raced for, no item is executed twice and
\* the items of a command are executed in its order (WebSocketClient.cpp:59-120,
\* 445-447).
ExecutedOnceInOrder ==
  \A c \in Commands : \A i, j \in 1..Len(ran[c]) : i < j => ran[c][i] < ran[c][j]

\* The outcome of an item goes out after the item has run, and after its
\* ACCEPTED went out (WebSocketClient.cpp:82-115): the agent never sees a
\* result of something it was not told about.
OutcomeAfterAcceptance ==
  \A c \in Commands : \A i \in 1..Len(acks[c]) :
    LET ack == acks[c][i] IN
    items[c][ack.item] # "empty" /\ ack.state # "ACCEPTED" =>
      /\ \E j \in 1..(i - 1) : acks[c][j] = [item |-> ack.item, state |-> "ACCEPTED"]
      /\ \E k \in 1..Len(ran[c]) : ran[c][k] = ack.item

Taken(c) == store[c] = "allocated" /\ items[c] # <<>>

\* README.md:79 says a "_command_ ack will be sent after received a command and
\* when the command executed": a command with a valid signature is answered, as
\* long as the plugIN stays connected and registered, to an agent that waits for
\* it before it sends the next one.
CommandAnswered ==
  \A c \in Commands :
    Taken(c) /\ agent # "eager" ~> (Answered(c) \/ ~opened \/ ~updated)

=============================================================================

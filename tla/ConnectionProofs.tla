-------------------------- MODULE ConnectionProofs --------------------------
(***************************************************************************)
(* Theorems about Connection, for every capacity, limit and bound: its     *)
(* types, its safety, what becomes of accepted messages, the refinement of *)
(* OrderedDelivery, and that an end is reported.                           *)
(***************************************************************************)
EXTENDS Connection, TLAPS

(* The reports of the worker's branches are sequences of reports. *)
LEMMA ReportSequences ==
  /\ <<>> \in Seq(Reports) /\ <<"note">> \in Seq(Reports)
  /\ <<"info">> \in Seq(Reports) /\ <<"closed">> \in Seq(Reports)
  /\ <<"disconnected">> \in Seq(Reports) /\ <<"note", "info">> \in Seq(Reports)
  /\ <<"note", "info", "note">> \in Seq(Reports)
  /\ <<"note", "refused">> \in Seq(Reports) /\ <<"note", "closed">> \in Seq(Reports)
  /\ <<"note", "disconnected">> \in Seq(Reports)
  /\ <<"note", "info", "note", "disconnected">> \in Seq(Reports)
  /\ <<"note", "info", "note", "note", "disconnected">> \in Seq(Reports)
  BY DEF Reports, Terminal

(* So are those that begin with the loss of held commands. *)
LEMMA ReportHeldType ==
  ASSUME NEW reports \in Seq(Reports)
  PROVE  ReportHeld \o reports \in Seq(Reports)
<1>1. ReportHeld \in Seq(Reports)
  BY ReportSequences, Zenon DEF ReportHeld
<1> QED BY <1>1

(* The messages of a command are numbers of messages. *)
LEMMA CommandIds ==
  ASSUME NEW command \in Commands
  PROVE  command.ids \in Seq(Nat) /\ Range(command.ids) \subseteq Nat
  BY DEF Commands, Range

(* The numbers in a queue of commands are numbers of messages. *)
LEMMA QueueIds ==
  ASSUME NEW queue \in Seq(Commands)
  PROVE  IdsIn(queue) \subseteq Nat
<1> SUFFICES ASSUME NEW i \in DOMAIN queue PROVE Range(queue[i].ids) \subseteq Nat
  BY DEF IdsIn
<1>1. queue[i] \in Commands
  OBVIOUS
<1> QED BY <1>1, CommandIds

(* The first element of a queue, and what is left of it. *)
LEMMA HeadAndTail ==
  ASSUME NEW S, NEW queue \in Seq(S), queue # <<>>
  PROVE  /\ Head(queue) \in S /\ Tail(queue) \in Seq(S)
         /\ Len(Tail(queue)) = Len(queue) - 1 /\ Len(queue) \in Nat \ {0}
  OBVIOUS

-----------------------------------------------------------------------------
(* TypeOK over the calls of the UI thread. *)

(* A command the handle submits. *)
LEMMA EnqueueType ==
  ASSUME QueuesOK, NEW command \in Commands, Enqueue(command)
  PROVE  commands' \in Seq(Commands) /\ Len(commands') <= CommandCapacity
  BY ConnectionAssumption DEF QueuesOK, Enqueue

(* A call that gives its messages fresh numbers makes a command. *)
LEMMA NewCommandType ==
  ASSUME NEW op \in Kinds, NEW k \in Nat, nextId \in Nat,
         op = "message" => k # 0
  PROVE  Command(op, [i \in 1..k |-> nextId + i - 1]) \in Commands
<1>1. [i \in 1..k |-> nextId + i - 1] \in Seq(Nat)
  OBVIOUS
<1>2. k # 0 => [i \in 1..k |-> nextId + i - 1] # <<>>
  OBVIOUS
<1> QED BY <1>1, <1>2 DEF Command, Commands

(* A command without messages is a command. *)
LEMMA EmptyCommandType ==
  ASSUME NEW op \in Kinds \ {"message"}
  PROVE  Command(op, <<>>) \in Commands
<1>1. <<>> \in Seq(Nat)
  OBVIOUS
<1> QED BY <1>1 DEF Command, Commands

(* Submit keeps the types. *)
LEMMA SubmitType ==
  ASSUME TypeOK, NEW op \in Kinds, NEW k \in Nat, op = "message" => k # 0,
         Submit(op, k)
  PROVE  TypeOK'
<1> USE DEF TypeOK, vars, handleVars, uiVars, regVars, paceVars,
      serverVars, linkVars, callVars, workerVars
<1>1. commands' \in Seq(Commands) /\ Len(commands') <= CommandCapacity
  BY NewCommandType, EnqueueType DEF Submit, CountersOK
<1>2. UNCHANGED <<handleVars, uiVars, asked, workerVars>>
  BY DEF Submit
<1>11. FlagsOK'
  BY <1>2, ZenonT(60) DEF FlagsOK
<1>12. QueuesOK'
  BY <1>1 DEF Submit, QueuesOK
<1>13. StatesOK'
  BY DEF Submit, StatesOK
<1>14. CountersOK'
  BY ConnectionAssumption DEF Submit, Call, CountersOK
<1> QED BY <1>11, <1>12, <1>13, <1>14

(* SubmitOther keeps the types. *)
LEMMA SubmitOtherType ==
  ASSUME TypeOK, NEW op \in Kinds \ {"message"}, SubmitOther(op)
  PROVE  TypeOK'
<1> USE DEF TypeOK, vars, handleVars, uiVars, regVars, paceVars,
      serverVars, linkVars, callVars, workerVars
<1>1. commands' \in Seq(Commands) /\ Len(commands') <= CommandCapacity
  BY EmptyCommandType, EnqueueType DEF SubmitOther
<1>2. UNCHANGED <<handleVars, uiVars, asked, workerVars>>
  BY DEF SubmitOther
<1>11. FlagsOK'
  BY <1>2, ZenonT(60) DEF FlagsOK
<1>12. QueuesOK'
  BY <1>1 DEF SubmitOther, QueuesOK
<1>13. StatesOK'
  BY DEF SubmitOther, StatesOK
<1>14. CountersOK'
  BY ConnectionAssumption DEF SubmitOther, Call, CountersOK
<1> QED BY <1>11, <1>12, <1>13, <1>14

(* QuitCommand keeps the types. *)
LEMMA QuitCommandType ==
  ASSUME TypeOK, QuitCommand
  PROVE  TypeOK'
<1> USE DEF TypeOK, vars, handleVars, uiVars, regVars, paceVars,
      serverVars, linkVars, callVars, workerVars
<1>1. commands' \in Seq(Commands) /\ Len(commands') <= CommandCapacity
  BY EmptyCommandType, EnqueueType DEF QuitCommand, Kinds
<1>11. FlagsOK'
  BY Zenon DEF QuitCommand, Call, FlagsOK
<1>12. QueuesOK'
  BY <1>1 DEF QuitCommand, Call, QueuesOK
<1>13. StatesOK'
  BY DEF QuitCommand, Call, StatesOK
<1>14. CountersOK'
  BY ConnectionAssumption DEF QuitCommand, Call, CountersOK
<1> QED BY <1>11, <1>12, <1>13, <1>14

(* Disconnect keeps the types. *)
LEMMA DisconnectType ==
  ASSUME TypeOK, Disconnect
  PROVE  TypeOK'
<1> USE DEF TypeOK, vars, handleVars, uiVars, regVars, paceVars,
      serverVars, linkVars, callVars, workerVars
<1>1. commands' \in Seq(Commands) /\ Len(commands') <= CommandCapacity
  BY EmptyCommandType, EnqueueType DEF Disconnect, Kinds, QueuesOK
<1>11. FlagsOK'
  BY Zenon DEF Disconnect, Call, FlagsOK
<1>12. QueuesOK'
  BY <1>1 DEF Disconnect, Call, QueuesOK
<1>13. StatesOK'
  BY DEF Disconnect, Call, StatesOK
<1>14. CountersOK'
  BY ConnectionAssumption DEF Disconnect, Call, CountersOK
<1> QED BY <1>11, <1>12, <1>13, <1>14

(* Shutdown keeps the types. *)
LEMMA ShutdownType ==
  ASSUME TypeOK, Shutdown
  PROVE  TypeOK'
<1> USE DEF TypeOK, vars, handleVars, uiVars, regVars, paceVars,
      serverVars, linkVars, callVars, workerVars
<1>11. FlagsOK'
  BY Zenon DEF Shutdown, Call, FlagsOK
<1>12. QueuesOK'
  BY DEF Shutdown, Call, QueuesOK
<1>13. StatesOK'
  BY DEF Shutdown, Call, StatesOK
<1>14. CountersOK'
  BY ConnectionAssumption DEF Shutdown, Call, CountersOK
<1> QED BY <1>11, <1>12, <1>13, <1>14

(* Sleep keeps the types. *)
LEMMA SleepType ==
  ASSUME TypeOK, Sleep
  PROVE  TypeOK'
<1> USE DEF TypeOK, vars, handleVars, uiVars, regVars, paceVars,
      serverVars, linkVars, callVars, workerVars
<1>11. FlagsOK'
  BY Zenon DEF Sleep, Call, FlagsOK
<1>12. QueuesOK'
  BY DEF Sleep, Call, QueuesOK
<1>13. StatesOK'
  BY DEF Sleep, Call, StatesOK
<1>14. CountersOK'
  BY ConnectionAssumption DEF Sleep, Call, CountersOK
<1> QED BY <1>11, <1>12, <1>13, <1>14

(* DropHandle keeps the types. *)
LEMMA DropHandleType ==
  ASSUME TypeOK, DropHandle
  PROVE  TypeOK'
<1> USE DEF TypeOK, vars, handleVars, uiVars, regVars, paceVars,
      serverVars, linkVars, callVars, workerVars
<1>11. FlagsOK'
  BY Zenon DEF DropHandle, Call, FlagsOK
<1>12. QueuesOK'
  BY DEF DropHandle, Call, QueuesOK
<1>13. StatesOK'
  BY DEF DropHandle, Call, StatesOK
<1>14. CountersOK'
  BY ConnectionAssumption DEF DropHandle, Call, CountersOK
<1> QED BY <1>11, <1>12, <1>13, <1>14

(* DropReceiver keeps the types. *)
LEMMA DropReceiverType ==
  ASSUME TypeOK, DropReceiver
  PROVE  TypeOK'
<1> USE DEF TypeOK, vars, handleVars, uiVars, regVars, paceVars,
      serverVars, linkVars, callVars, workerVars
<1>11. FlagsOK'
  BY Zenon DEF DropReceiver, Call, FlagsOK
<1>12. QueuesOK'
  BY ReportSequences, ConnectionAssumption DEF DropReceiver, Call, QueuesOK
<1>13. StatesOK'
  BY DEF DropReceiver, Call, StatesOK
<1>14. CountersOK'
  BY ConnectionAssumption DEF DropReceiver, Call, CountersOK
<1> QED BY <1>11, <1>12, <1>13, <1>14

(* TakeEvent keeps the types. *)
LEMMA TakeEventType ==
  ASSUME TypeOK, TakeEvent
  PROVE  TypeOK'
<1> USE DEF TypeOK, vars, handleVars, uiVars, regVars, paceVars,
      serverVars, linkVars, callVars, workerVars
<1>1. Head(events) \in Reports /\ Tail(events) \in Seq(Reports) /\ Len(Tail(events)) <= EventCapacity
  BY HeadAndTail, ConnectionAssumption DEF TakeEvent, QueuesOK
<1>11. FlagsOK'
  BY Zenon DEF TakeEvent, FlagsOK
<1>12. QueuesOK'
  BY <1>1 DEF TakeEvent, QueuesOK
<1>13. StatesOK'
  BY DEF TakeEvent, StatesOK
<1>14. CountersOK'
  BY ConnectionAssumption DEF TakeEvent, CountersOK
<1> QED BY <1>11, <1>12, <1>13, <1>14

-----------------------------------------------------------------------------
(* TypeOK over the steps of the worker. *)

(* Emit keeps the types. *)
LEMMA EmitType ==
  ASSUME TypeOK, Emit
  PROVE  TypeOK'
<1> USE DEF TypeOK, vars, handleVars, uiVars, regVars, paceVars,
      serverVars, linkVars, callVars, workerVars
<1>1. Head(out) \in Reports /\ Tail(out) \in Seq(Reports)
  BY HeadAndTail DEF Emit, QueuesOK
<1>2. out' \in Seq(Reports)
  BY <1>1, ReportSequences DEF Emit, Reported, EndWorker
<1>5. events' = events \/ (events' = Append(events, Head(out)) /\ Len(events) < EventCapacity)
  BY DEF Emit
<1>6. events \in Seq(Reports) /\ Len(events) <= EventCapacity
  BY DEF QueuesOK
<1>3. events' \in Seq(Reports) /\ Len(events') <= EventCapacity
  <2>1. CASE events' = events
    BY <1>6, <2>1
  <2>2. CASE events' = Append(events, Head(out)) /\ Len(events) < EventCapacity
    BY <1>1, <1>6, <2>2, ConnectionAssumption
  <2> QED BY <1>5, <2>1, <2>2
<1>4. UNCHANGED <<commands, held, paced, written, refused>>
  BY DEF Emit
<1>11. FlagsOK'
  BY ZenonT(30) DEF Emit, Reported, EndWorker, Phases, FlagsOK
<1>12. QueuesOK'
  BY <1>2, <1>3, <1>4 DEF Emit, Reported, EndWorker, Phases, QueuesOK
<1>13. StatesOK'
  BY DEF Emit, Reported, EndWorker, Phases, StatesOK
<1>14. CountersOK'
  BY ConnectionAssumption DEF Emit, Reported, EndWorker, Phases, CountersOK
<1> QED BY <1>11, <1>12, <1>13, <1>14

(* Resolved keeps the types. *)
LEMMA ResolvedType ==
  ASSUME TypeOK, Resolved
  PROVE  TypeOK'
<1> USE DEF TypeOK, vars, handleVars, uiVars, regVars, paceVars,
      serverVars, linkVars, callVars, workerVars
<1>11. FlagsOK'
  BY ZenonT(30) DEF Resolved, OnlyReports, Phases, FlagsOK
<1>12. QueuesOK'
  BY ReportSequences DEF Resolved, OnlyReports, Phases, QueuesOK
<1>13. StatesOK'
  BY DEF Resolved, OnlyReports, Phases, StatesOK
<1>14. CountersOK'
  BY ConnectionAssumption DEF Resolved, OnlyReports, Phases, CountersOK
<1> QED BY <1>11, <1>12, <1>13, <1>14

(* OpenFailed keeps the types. *)
LEMMA OpenFailedType ==
  ASSUME TypeOK, OpenFailed
  PROVE  TypeOK'
<1> USE DEF TypeOK, vars, handleVars, uiVars, regVars, paceVars,
      serverVars, linkVars, callVars, workerVars
<1>1. /\ UNCHANGED <<commands, handleVars, events, uiVars, regVars, aliveCheck, held,
                     paceVars, serverVars, linkVars, callVars, written, refused,
                     checkedDead>>
      /\ out' \in Seq(Reports)
  BY ReportSequences, Zenon DEF OpenFailed, OnlyReports
<1>11. FlagsOK'
  BY <1>1, ZenonT(30) DEF FlagsOK
<1>12. QueuesOK'
  BY <1>1 DEF QueuesOK
<1>13. StatesOK'
  BY DEF OpenFailed, OnlyReports, StatesOK
<1>14. CountersOK'
  BY ConnectionAssumption DEF OpenFailed, OnlyReports, CountersOK
<1> QED BY <1>11, <1>12, <1>13, <1>14

(* QueueClosed keeps the types. *)
LEMMA QueueClosedType ==
  ASSUME TypeOK, QueueClosed
  PROVE  TypeOK'
<1> USE DEF TypeOK, vars, handleVars, uiVars, regVars, paceVars,
      serverVars, linkVars, callVars, workerVars
<1>11. FlagsOK'
  BY ZenonT(30) DEF QueueClosed, OnlyReports, Phases, FlagsOK
<1>12. QueuesOK'
  BY ReportSequences DEF QueueClosed, OnlyReports, Phases, QueuesOK
<1>13. StatesOK'
  BY DEF QueueClosed, OnlyReports, Phases, StatesOK
<1>14. CountersOK'
  BY ConnectionAssumption DEF QueueClosed, OnlyReports, Phases, CountersOK
<1> QED BY <1>11, <1>12, <1>13, <1>14

(* Drained keeps the types. *)
LEMMA DrainedType ==
  ASSUME TypeOK, Drained
  PROVE  TypeOK'
<1> USE DEF TypeOK, vars, handleVars, uiVars, regVars, paceVars,
      serverVars, linkVars, callVars, workerVars
<1>11. FlagsOK'
  BY ZenonT(30) DEF Drained, OnlyReports, FlagsOK
<1>12. QueuesOK'
  BY ReportSequences DEF Drained, OnlyReports, QueuesOK
<1>13. StatesOK'
  BY DEF Drained, OnlyReports, StatesOK
<1>14. CountersOK'
  BY ConnectionAssumption DEF Drained, OnlyReports, CountersOK
<1> QED BY <1>11, <1>12, <1>13, <1>14

(* Opened keeps the types. *)
LEMMA OpenedType ==
  ASSUME TypeOK, Opened
  PROVE  TypeOK'
<1> USE DEF TypeOK, vars, handleVars, uiVars, regVars, paceVars,
      serverVars, linkVars, callVars, workerVars
<1>11. FlagsOK'
  BY ZenonT(30) DEF Opened, Phases, FlagsOK
<1>12. QueuesOK'
  BY ReportSequences DEF Opened, Phases, QueuesOK
<1>13. StatesOK'
  BY DEF Opened, Phases, StatesOK
<1>14. CountersOK'
  BY ConnectionAssumption DEF Opened, Phases, CountersOK
<1> QED BY <1>11, <1>12, <1>13, <1>14

(* Cancelled keeps the types. *)
LEMMA CancelledType ==
  ASSUME TypeOK, Cancelled
  PROVE  TypeOK'
<1> USE DEF TypeOK, vars, handleVars, uiVars, regVars, paceVars,
      serverVars, linkVars, callVars, workerVars
<1>11. FlagsOK'
  BY ZenonT(30) DEF Cancelled, FlagsOK
<1>12. QueuesOK'
  BY ReportSequences DEF Cancelled, QueuesOK
<1>13. StatesOK'
  BY DEF Cancelled, StatesOK
<1>14. CountersOK'
  BY ConnectionAssumption DEF Cancelled, CountersOK
<1> QED BY <1>11, <1>12, <1>13, <1>14

(* PacedTimer keeps the types. *)
LEMMA PacedTimerType ==
  ASSUME TypeOK, PacedTimer
  PROVE  TypeOK'
<1> USE DEF TypeOK, vars, handleVars, uiVars, regVars, paceVars,
      serverVars, linkVars, callVars, workerVars
<1>11. FlagsOK'
  BY ZenonT(30) DEF PacedTimer, FlagsOK
<1>12. QueuesOK'
  BY ReportSequences DEF PacedTimer, QueuesOK
<1>13. StatesOK'
  BY DEF PacedTimer, StatesOK
<1>14. CountersOK'
  BY ConnectionAssumption DEF PacedTimer, CountersOK
<1> QED BY <1>11, <1>12, <1>13, <1>14

(* IntervalPasses keeps the types. *)
LEMMA IntervalPassesType ==
  ASSUME TypeOK, IntervalPasses
  PROVE  TypeOK'
<1> USE DEF TypeOK, vars, handleVars, uiVars, regVars, paceVars,
      serverVars, linkVars, callVars, workerVars
<1>11. FlagsOK'
  BY ZenonT(30) DEF IntervalPasses, FlagsOK
<1>12. QueuesOK'
  BY ReportSequences DEF IntervalPasses, QueuesOK
<1>13. StatesOK'
  BY DEF IntervalPasses, StatesOK
<1>14. CountersOK'
  BY ConnectionAssumption DEF IntervalPasses, CountersOK
<1> QED BY <1>11, <1>12, <1>13, <1>14

(* TakeQuit keeps the types. *)
LEMMA TakeQuitType ==
  ASSUME TypeOK, TakeQuit
  PROVE  TypeOK'
<1> USE DEF TypeOK, vars, handleVars, uiVars, regVars, paceVars,
      serverVars, linkVars, callVars, workerVars
<1>11. FlagsOK'
  BY ZenonT(30) DEF TakeQuit, Phases, FlagsOK
<1>12. QueuesOK'
  BY ReportSequences DEF TakeQuit, Phases, QueuesOK
<1>13. StatesOK'
  BY DEF TakeQuit, Phases, StatesOK
<1>14. CountersOK'
  BY ConnectionAssumption DEF TakeQuit, Phases, CountersOK
<1> QED BY <1>11, <1>12, <1>13, <1>14

(* ReadLine keeps the types. *)
LEMMA ReadLineType ==
  ASSUME TypeOK, ReadLine
  PROVE  TypeOK'
<1> USE DEF TypeOK, vars, handleVars, uiVars, regVars, paceVars,
      serverVars, linkVars, callVars, workerVars
<1>11. FlagsOK'
  BY ZenonT(30) DEF ReadLine, Read, Readable, FlagsOK
<1>12. QueuesOK'
  BY ReportSequences DEF ReadLine, Read, Readable, QueuesOK
<1>13. StatesOK'
  BY DEF ReadLine, Read, Readable, StatesOK
<1>14. CountersOK'
  BY ConnectionAssumption DEF ReadLine, Read, Readable, CountersOK
<1> QED BY <1>11, <1>12, <1>13, <1>14

(* ReadWelcome keeps the types. *)
LEMMA ReadWelcomeType ==
  ASSUME TypeOK, ReadWelcome
  PROVE  TypeOK'
<1> USE DEF TypeOK, vars, handleVars, uiVars, regVars, paceVars,
      serverVars, linkVars, callVars, workerVars
<1>11. FlagsOK'
  BY ZenonT(30) DEF ReadWelcome, Read, Readable, FlagsOK
<1>12. QueuesOK'
  BY ReportSequences DEF ReadWelcome, Read, Readable, QueuesOK
<1>13. StatesOK'
  BY DEF ReadWelcome, Read, Readable, StatesOK
<1>14. CountersOK'
  BY ConnectionAssumption DEF ReadWelcome, Read, Readable, CountersOK
<1> QED BY <1>11, <1>12, <1>13, <1>14

(* ReadRefusal keeps the types. *)
LEMMA ReadRefusalType ==
  ASSUME TypeOK, ReadRefusal
  PROVE  TypeOK'
<1> USE DEF TypeOK, vars, handleVars, uiVars, regVars, paceVars,
      serverVars, linkVars, callVars, workerVars
<1>11. FlagsOK'
  BY ZenonT(30) DEF ReadRefusal, Read, Readable, FlagsOK
<1>12. QueuesOK'
  BY ReportSequences DEF ReadRefusal, Read, Readable, QueuesOK
<1>13. StatesOK'
  BY DEF ReadRefusal, Read, Readable, StatesOK
<1>14. CountersOK'
  BY ConnectionAssumption DEF ReadRefusal, Read, Readable, CountersOK
<1> QED BY <1>11, <1>12, <1>13, <1>14

(* ReadNickRejected keeps the types. *)
LEMMA ReadNickRejectedType ==
  ASSUME TypeOK, ReadNickRejected
  PROVE  TypeOK'
<1> USE DEF TypeOK, vars, handleVars, uiVars, regVars, paceVars,
      serverVars, linkVars, callVars, workerVars
<1>11. FlagsOK'
  BY ZenonT(30) DEF ReadNickRejected, Read, Readable, FlagsOK
<1>12. QueuesOK'
  BY ReportSequences DEF ReadNickRejected, Read, Readable, QueuesOK
<1>13. StatesOK'
  BY DEF ReadNickRejected, Read, Readable, StatesOK
<1>14. CountersOK'
  BY ConnectionAssumption DEF ReadNickRejected, Read, Readable, CountersOK
<1> QED BY <1>11, <1>12, <1>13, <1>14

(* ReadFatal keeps the types. *)
LEMMA ReadFatalType ==
  ASSUME TypeOK, ReadFatal
  PROVE  TypeOK'
<1> USE DEF TypeOK, vars, handleVars, uiVars, regVars, paceVars,
      serverVars, linkVars, callVars, workerVars
<1>11. FlagsOK'
  BY ZenonT(30) DEF ReadFatal, Read, Readable, FlagsOK
<1>12. QueuesOK'
  BY ReportSequences DEF ReadFatal, Read, Readable, QueuesOK
<1>13. StatesOK'
  BY DEF ReadFatal, Read, Readable, StatesOK
<1>14. CountersOK'
  BY ConnectionAssumption DEF ReadFatal, Read, Readable, CountersOK
<1> QED BY <1>11, <1>12, <1>13, <1>14

(* ReadPong keeps the types. *)
LEMMA ReadPongType ==
  ASSUME TypeOK, ReadPong
  PROVE  TypeOK'
<1> USE DEF TypeOK, vars, handleVars, uiVars, regVars, paceVars,
      serverVars, linkVars, callVars, workerVars
<1>11. FlagsOK'
  BY ZenonT(30) DEF ReadPong, Read, Readable, FlagsOK
<1>12. QueuesOK'
  BY ReportSequences DEF ReadPong, Read, Readable, QueuesOK
<1>13. StatesOK'
  BY DEF ReadPong, Read, Readable, StatesOK
<1>14. CountersOK'
  BY ConnectionAssumption DEF ReadPong, Read, Readable, CountersOK
<1> QED BY <1>11, <1>12, <1>13, <1>14

(* StreamEnded keeps the types. *)
LEMMA StreamEndedType ==
  ASSUME TypeOK, StreamEnded
  PROVE  TypeOK'
<1> USE DEF TypeOK, vars, handleVars, uiVars, regVars, paceVars,
      serverVars, linkVars, callVars, workerVars
<1>1. <<"note", IF refusal THEN "refused" ELSE "disconnected">> \in Seq(Reports)
  BY ReportSequences, Zenon
<1>2. out' \in Seq(Reports)
  BY <1>1, ReportHeldType DEF StreamEnded
<1>3. refused' \subseteq Nat /\ held' \in Seq(Commands)
  <2>1. IdsIn(held) \subseteq Nat
    BY QueueIds DEF QueuesOK
  <2>2. refused' = refused \cup IdsIn(held) /\ held' = <<>>
    BY DEF StreamEnded, DropHeld
  <2>3. refused \subseteq Nat
    BY DEF QueuesOK
  <2>4. <<>> \in Seq(Commands)
    OBVIOUS
  <2> QED BY <2>1, <2>2, <2>3, <2>4, Zenon
<1>11. FlagsOK'
  BY ZenonT(30) DEF StreamEnded, DropHeld, FlagsOK
<1>12. QueuesOK'
  BY <1>2, <1>3 DEF StreamEnded, DropHeld, QueuesOK
<1>13. StatesOK'
  BY DEF StreamEnded, DropHeld, StatesOK
<1>14. CountersOK'
  BY ConnectionAssumption DEF StreamEnded, DropHeld, CountersOK
<1> QED BY <1>11, <1>12, <1>13, <1>14

(* AliveDeadline keeps the types. *)
LEMMA AliveDeadlineType ==
  ASSUME TypeOK, AliveDeadline
  PROVE  TypeOK'
<1> USE DEF TypeOK, vars, handleVars, uiVars, regVars, paceVars,
      serverVars, linkVars, callVars, workerVars
<1>2. out' \in Seq(Reports)
  BY ReportSequences, ReportHeldType DEF AliveDeadline
<1>3. refused' \subseteq Nat /\ held' \in Seq(Commands)
  <2>1. IdsIn(held) \subseteq Nat
    BY QueueIds DEF QueuesOK
  <2>2. refused' = refused \cup IdsIn(held) /\ held' = <<>>
    BY DEF AliveDeadline, DropHeld
  <2>3. refused \subseteq Nat
    BY DEF QueuesOK
  <2>4. <<>> \in Seq(Commands)
    OBVIOUS
  <2> QED BY <2>1, <2>2, <2>3, <2>4, Zenon
<1>11. FlagsOK'
  BY ZenonT(30) DEF AliveDeadline, DropHeld, FlagsOK
<1>12. QueuesOK'
  BY <1>2, <1>3 DEF AliveDeadline, DropHeld, QueuesOK
<1>13. StatesOK'
  BY DEF AliveDeadline, DropHeld, StatesOK
<1>14. CountersOK'
  BY ConnectionAssumption DEF AliveDeadline, DropHeld, CountersOK
<1> QED BY <1>11, <1>12, <1>13, <1>14

(* RegistrationTimeout keeps the types. *)
LEMMA RegistrationTimeoutType ==
  ASSUME TypeOK, RegistrationTimeout
  PROVE  TypeOK'
<1> USE DEF TypeOK, vars, handleVars, uiVars, regVars, paceVars,
      serverVars, linkVars, callVars, workerVars
<1>1. <<"note", IF refusal THEN "refused" ELSE "disconnected">> \in Seq(Reports)
  BY ReportSequences, Zenon
<1>11. FlagsOK'
  BY ZenonT(30) DEF RegistrationTimeout, FlagsOK
<1>12. QueuesOK'
  BY <1>1 DEF RegistrationTimeout, QueuesOK
<1>13. StatesOK'
  BY DEF RegistrationTimeout, StatesOK
<1>14. CountersOK'
  BY ConnectionAssumption DEF RegistrationTimeout, CountersOK
<1> QED BY <1>11, <1>12, <1>13, <1>14

(* NickAccepted keeps the types. *)
LEMMA NickAcceptedType ==
  ASSUME TypeOK, NickAccepted
  PROVE  TypeOK'
<1> USE DEF TypeOK, vars, handleVars, uiVars, regVars, paceVars,
      serverVars, linkVars, callVars, workerVars
<1>11. FlagsOK'
  BY ZenonT(30) DEF NickAccepted, FlagsOK
<1>12. QueuesOK'
  BY DEF NickAccepted, QueuesOK
<1>13. StatesOK'
  BY DEF NickAccepted, StatesOK
<1>14. CountersOK'
  BY ConnectionAssumption DEF NickAccepted, CountersOK
<1> QED BY <1>11, <1>12, <1>13, <1>14

(* LinkDies keeps the types. *)
LEMMA LinkDiesType ==
  ASSUME TypeOK, LinkDies
  PROVE  TypeOK'
<1> USE DEF TypeOK, vars, handleVars, uiVars, regVars, paceVars,
      serverVars, linkVars, callVars, workerVars
<1>11. FlagsOK'
  BY ZenonT(30) DEF LinkDies, FlagsOK
<1>12. QueuesOK'
  BY DEF LinkDies, QueuesOK
<1>13. StatesOK'
  BY DEF LinkDies, StatesOK
<1>14. CountersOK'
  BY ConnectionAssumption DEF LinkDies, CountersOK
<1> QED BY <1>11, <1>12, <1>13, <1>14

(* What Perform leaves of the types of all it can change. *)
WorkOK ==
  /\ out' \in Seq(Reports) /\ pc' \in Phases
  /\ paced' \in Seq(Nat) /\ written' \in Seq(Nat) /\ refused' \subseteq Nat
  /\ burst' \in 0..PacedBurst /\ inInterval' \in Nat /\ nicks' \in Nat

WorkFlagsOK ==
  /\ registered' \in BOOLEAN /\ awaitingNick' \in BOOLEAN /\ refusal' \in BOOLEAN
  /\ pacedReady' \in BOOLEAN /\ pacing' \in BOOLEAN

(* Send keeps the types. *)
LEMMA SendType ==
  ASSUME QueuesOK, NEW id \in Nat, Send(id)
  PROVE  out' \in Seq(Reports) /\ written' \in Seq(Nat) /\ refused' \subseteq Nat
<1>1. written \in Seq(Nat) /\ refused \subseteq Nat
  BY DEF QueuesOK
<1>2. Append(written, id) \in Seq(Nat) /\ refused \cup {id} \subseteq Nat
  BY <1>1
<1> QED BY <1>1, <1>2, ReportSequences, Zenon DEF Send

(* QueueLines keeps the types. *)
LEMMA QueueLinesType ==
  ASSUME TypeOK, NEW ids \in Seq(Nat), QueueLines(ids), UNCHANGED <<pc, regVars, nicks>>
  PROVE  WorkOK /\ WorkFlagsOK
<1> USE DEF TypeOK, regVars, paceVars
<1>1. CASE Len(paced) + Len(ids) > MaxPaced
  <2>1. refused' = refused \cup Range(ids) /\ out' = <<"info">>
        /\ UNCHANGED <<paceVars, written>>
    BY <1>1 DEF QueueLines
  <2>2. refused' \subseteq Nat
    <3>1. Range(ids) \subseteq Nat
      BY DEF Range
    <3> QED BY <2>1, <3>1, Zenon DEF QueuesOK
  <2>3. WorkOK
    BY <2>1, <2>2, ReportSequences DEF WorkOK, QueuesOK, StatesOK, CountersOK
  <2>4. WorkFlagsOK
    BY <2>1, ZenonT(30) DEF WorkFlagsOK, FlagsOK
  <2> QED BY <2>3, <2>4
<1>2. CASE ~(Len(paced) + Len(ids) > MaxPaced)
  <2>1. /\ burst' = IF paced = <<>> /\ pacedReady THEN PacedBurst ELSE burst
        /\ paced' = paced \o ids /\ pacing' = TRUE
        /\ UNCHANGED <<pacedReady, inInterval, written, refused, out>>
    BY <1>2 DEF QueueLines
  <2>2. paced' \in Seq(Nat)
    BY <2>1 DEF QueuesOK
  <2>3. WorkOK
    BY <2>1, <2>2, ConnectionAssumption DEF WorkOK, QueuesOK, StatesOK, CountersOK
  <2>4. WorkFlagsOK
    BY <2>1, ZenonT(30) DEF WorkFlagsOK, FlagsOK
  <2> QED BY <2>3, <2>4
<1> QED BY <1>1, <1>2

(* Perform keeps the types. *)
LEMMA PerformType ==
  ASSUME TypeOK, NEW command \in Commands, Perform(command)
  PROVE  WorkOK /\ WorkFlagsOK
<1> USE DEF TypeOK, regVars, paceVars
<1>1. CASE /\ QueueLines(command.ids)
           /\ UNCHANGED <<pc, regVars, nicks>>
  BY <1>1, CommandIds, QueueLinesType
<1>2. CASE /\ command.kind = "message" /\ Send(command.ids[1])
           /\ UNCHANGED <<pc, regVars, nicks, paceVars>>
  <2>1. command.ids[1] \in Nat
    BY <1>2 DEF Commands
  <2>2. out' \in Seq(Reports) /\ written' \in Seq(Nat) /\ refused' \subseteq Nat
    BY <1>2, <2>1, SendType
  <2>3. WorkOK
    BY <1>2, <2>2 DEF WorkOK, QueuesOK, StatesOK, CountersOK
  <2>4. WorkFlagsOK
    BY <1>2, ZenonT(30) DEF WorkFlagsOK, FlagsOK
  <2> QED BY <2>3, <2>4
<1>3. CASE SendNick /\ UNCHANGED <<pc, paceVars, written, refused>>
  <2>1. WorkOK
    <3>1. out' = out \/ out' = <<"info">>
      BY <1>3 DEF SendNick
    <3>2. nicks' = nicks + 1 \/ nicks' = nicks
      BY <1>3 DEF SendNick
    <3>3. out' \in Seq(Reports)
      BY <3>1, ReportSequences DEF QueuesOK
    <3> QED BY <1>3, <3>2, <3>3 DEF WorkOK, QueuesOK, StatesOK, CountersOK
  <2>2. WorkFlagsOK
    BY <1>3, ZenonT(30) DEF SendNick, WorkFlagsOK, FlagsOK
  <2> QED BY <2>1, <2>2
<1>4. CASE /\ out' \in {<<>>, <<"info">>, <<"disconnected">>}
           /\ UNCHANGED <<pc, regVars, nicks, paceVars, written, refused>>
  <2>1. WorkOK
    BY <1>4, ReportSequences DEF WorkOK, QueuesOK, StatesOK, CountersOK
  <2>2. WorkFlagsOK
    BY <1>4, ZenonT(30) DEF WorkFlagsOK, FlagsOK
  <2> QED BY <2>1, <2>2
<1>5. CASE /\ pc' = "draining"
           /\ UNCHANGED <<out, regVars, nicks, paceVars, written, refused>>
  <2>1. WorkOK
    BY <1>5 DEF WorkOK, Phases, QueuesOK, StatesOK, CountersOK
  <2>2. WorkFlagsOK
    BY <1>5, ZenonT(30) DEF WorkFlagsOK, FlagsOK
  <2> QED BY <2>1, <2>2
<1> QED BY <1>1, <1>2, <1>3, <1>4, <1>5 DEF Perform

(* PaceStep keeps the types. *)
LEMMA PaceStepType ==
  ASSUME TypeOK, PaceStep
  PROVE  TypeOK'
<1> USE DEF TypeOK, vars, handleVars, uiVars, regVars, paceVars,
      serverVars, linkVars, callVars, workerVars
<1>1. CASE PacedDue
  <2>1. /\ paced' = Tail(paced) /\ burst' = IF burst > 0 THEN burst - 1 ELSE 0
        /\ pacedReady' = FALSE /\ inInterval' = inInterval + 1
        /\ Send(Head(paced)) /\ UNCHANGED pacing /\ paced # <<>>
    BY <1>1 DEF PaceStep, PacedDue
  <2>2. UNCHANGED <<commands, handleVars, events, uiVars, pc, regVars, aliveCheck,
                    held, serverVars, linkVars, callVars, checkedDead>>
    BY DEF PaceStep
  <2>3. Head(paced) \in Nat /\ Tail(paced) \in Seq(Nat)
    BY <2>1, HeadAndTail DEF QueuesOK
  <2>4. out' \in Seq(Reports) /\ written' \in Seq(Nat) /\ refused' \subseteq Nat
    BY <2>1, <2>3, SendType
  <2>11. FlagsOK'
    BY <2>1, <2>2, ZenonT(30) DEF FlagsOK
  <2>12. QueuesOK'
    BY <2>1, <2>2, <2>3, <2>4 DEF QueuesOK
  <2>13. StatesOK'
    BY <2>2 DEF StatesOK
  <2>14. CountersOK'
    BY <2>1, <2>2, ConnectionAssumption DEF CountersOK
  <2> QED BY <2>11, <2>12, <2>13, <2>14
<1>2. CASE ~PacedDue
  <2>1. /\ pacing' = FALSE
        /\ UNCHANGED <<paced, burst, pacedReady, inInterval, written, refused, out>>
        /\ UNCHANGED <<commands, handleVars, events, uiVars, pc, regVars, aliveCheck,
                       held, serverVars, linkVars, callVars, checkedDead>>
    BY <1>2 DEF PaceStep
  <2>11. FlagsOK'
    BY <2>1, ZenonT(30) DEF FlagsOK
  <2>12. QueuesOK'
    BY <2>1 DEF QueuesOK
  <2>13. StatesOK'
    BY <2>1 DEF StatesOK
  <2>14. CountersOK'
    BY <2>1 DEF CountersOK
  <2> QED BY <2>11, <2>12, <2>13, <2>14
<1> QED BY <1>1, <1>2

(* FlushStep keeps the types. *)
LEMMA FlushStepType ==
  ASSUME TypeOK, FlushStep
  PROVE  TypeOK'
<1> USE DEF TypeOK, vars, handleVars, uiVars, regVars, paceVars,
      serverVars, linkVars, callVars, workerVars
<1>1. Head(held) \in Commands /\ Tail(held) \in Seq(Commands)
  BY HeadAndTail DEF FlushStep, QueuesOK
<1>2. WorkOK /\ WorkFlagsOK
  BY <1>1, PerformType DEF FlushStep
<1>3. /\ held' = Tail(held)
      /\ UNCHANGED <<commands, handleVars, events, uiVars, aliveCheck, checkedDead,
                     named, linkVars, callVars>>
  BY DEF FlushStep
<1>11. FlagsOK'
  BY <1>2, <1>3, ZenonT(30) DEF FlagsOK, WorkFlagsOK
<1>12. QueuesOK'
  BY <1>1, <1>2, <1>3 DEF QueuesOK, WorkOK
<1>13. StatesOK'
  BY <1>2, <1>3 DEF StatesOK, WorkOK
<1>14. CountersOK'
  BY <1>2, <1>3 DEF CountersOK, WorkOK
<1> QED BY <1>11, <1>12, <1>13, <1>14

(* TakeCommand keeps the types. *)
LEMMA TakeCommandType ==
  ASSUME TypeOK, TakeCommand
  PROVE  TypeOK'
<1> USE DEF TypeOK, vars, handleVars, uiVars, regVars, paceVars,
      serverVars, linkVars, callVars, workerVars
<1> DEFINE command == Head(commands)
<1>1. /\ command \in Commands /\ commands' = Tail(commands)
      /\ commands' \in Seq(Commands) /\ Len(commands') <= CommandCapacity
  BY HeadAndTail, ConnectionAssumption DEF TakeCommand, QueuesOK
<1>2. UNCHANGED <<handleVars, events, uiVars, named, linkVars, callVars>>
  BY DEF TakeCommand
<1>3. CASE StartAliveCheck
  <2>1. out' \in Seq(Reports)
    BY <1>3, ReportSequences DEF StartAliveCheck, QueuesOK
  <2>2. /\ aliveCheck' \in BOOLEAN /\ checkedDead' \in BOOLEAN
        /\ UNCHANGED <<pc, regVars, held, paceVars, nicks, written, refused>>
    BY <1>3, ZenonT(30) DEF StartAliveCheck, FlagsOK
  <2>11. FlagsOK'
    BY <1>2, <2>2, ZenonT(30) DEF FlagsOK
  <2>12. QueuesOK'
    BY <1>1, <1>2, <2>1, <2>2 DEF QueuesOK
  <2>13. StatesOK'
    BY <1>2, <2>2 DEF StatesOK
  <2>14. CountersOK'
    BY <1>2, <2>2 DEF CountersOK
  <2> QED BY <2>11, <2>12, <2>13, <2>14
<1>4. CASE Hold(command)
  <2>1. UNCHANGED <<pc, regVars, aliveCheck, checkedDead, paceVars, nicks, written>>
    BY <1>4 DEF Hold
  <2>2. out' \in Seq(Reports)
    BY <1>4, ReportSequences DEF Hold, QueuesOK
  <2>3. held' \in Seq(Commands)
    <3>1. held \in Seq(Commands)
      BY DEF QueuesOK
    <3>2. Append(held, command) \in Seq(Commands)
      BY <1>1, <3>1
    <3> QED BY <1>4, <3>1, <3>2, Zenon DEF Hold
  <2>4. refused' \subseteq Nat
    BY <1>1, <1>4, CommandIds DEF Hold, QueuesOK
  <2>11. FlagsOK'
    BY <1>2, <2>1, ZenonT(30) DEF FlagsOK
  <2>12. QueuesOK'
    BY <1>1, <1>2, <2>1, <2>2, <2>3, <2>4 DEF QueuesOK
  <2>13. StatesOK'
    BY <1>2, <2>1 DEF StatesOK
  <2>14. CountersOK'
    BY <1>2, <2>1 DEF CountersOK
  <2> QED BY <2>11, <2>12, <2>13, <2>14
<1>5. CASE Perform(command) /\ UNCHANGED <<held, aliveCheck, checkedDead>>
  <2>1. WorkOK /\ WorkFlagsOK
    BY <1>1, <1>5, PerformType
  <2>11. FlagsOK'
    BY <1>2, <1>5, <2>1, ZenonT(30) DEF FlagsOK, WorkFlagsOK
  <2>12. QueuesOK'
    BY <1>1, <1>2, <1>5, <2>1 DEF QueuesOK, WorkOK
  <2>13. StatesOK'
    BY <1>2, <2>1 DEF StatesOK, WorkOK
  <2>14. CountersOK'
    BY <1>2, <2>1 DEF CountersOK, WorkOK
  <2> QED BY <2>11, <2>12, <2>13, <2>14
<1> QED BY <1>3, <1>4, <1>5 DEF TakeCommand

-----------------------------------------------------------------------------
(* The specification keeps its types: queues, backlogs, counters and flags *)
(* stay in their ranges, and the two mpsc queues within their capacities.  *)
LEMMA InitType == Init => TypeOK
<1> SUFFICES ASSUME Init PROVE TypeOK
  OBVIOUS
<1>1. FlagsOK
  BY DEF Init, FlagsOK
<1>2. QueuesOK
  BY ReportSequences, ConnectionAssumption DEF Init, QueuesOK
<1>3. StatesOK
  BY DEF Init, StatesOK, Phases
<1>4. CountersOK
  BY ConnectionAssumption DEF Init, CountersOK
<1> QED BY <1>1, <1>2, <1>3, <1>4 DEF TypeOK

(* No call of the handle leaves the types. *)
LEMMA UiCallType == TypeOK /\ UiCall => TypeOK'
<1> SUFFICES ASSUME TypeOK, UiCall PROVE TypeOK'
  OBVIOUS
<1>1. CASE SendMessage
  BY <1>1, SubmitType DEF SendMessage, Kinds
<1>2. CASE SendLines
  <2>1. PICK k \in 1..MaxSendLines : Submit("lines", k)
    BY <1>2 DEF SendLines
  <2>2. k \in Nat /\ "lines" \in Kinds
    BY ConnectionAssumption DEF Kinds
  <2> QED BY <2>1, <2>2, SubmitType
<1>3. CASE ChangeNickname
  BY <1>3, SubmitOtherType DEF ChangeNickname, Kinds
<1>4. CASE SendCommand
  BY <1>4, SubmitOtherType DEF SendCommand, Kinds
<1>5. CASE CheckAlive
  BY <1>5, SubmitOtherType DEF CheckAlive, Kinds
<1> QED
  BY <1>1, <1>2, <1>3, <1>4, <1>5, QuitCommandType, DisconnectType, ShutdownType,
     SleepType, DropHandleType, DropReceiverType DEF UiCall

(* No step of the worker leaves the types. *)
LEMMA WorkerStepType == TypeOK /\ WorkerStep => TypeOK'
  BY EmitType, ResolvedType, OpenedType, OpenFailedType, CancelledType,
     PaceStepType, PacedTimerType, FlushStepType, TakeCommandType, TakeQuitType,
     QueueClosedType, DrainedType, ReadLineType, ReadWelcomeType, ReadRefusalType,
     ReadNickRejectedType, ReadFatalType, ReadPongType, StreamEndedType,
     AliveDeadlineType, RegistrationTimeoutType DEF WorkerStep

(* A step that changes nothing keeps the types. *)
LEMMA StutterType == TypeOK /\ UNCHANGED vars => TypeOK'
<1> SUFFICES ASSUME TypeOK, UNCHANGED vars PROVE TypeOK'
  OBVIOUS
<1> USE DEF TypeOK, vars, handleVars, uiVars, regVars, paceVars, serverVars, linkVars,
      callVars
<1>1. FlagsOK'
  BY ZenonT(30) DEF FlagsOK
<1>2. QueuesOK'
  BY DEF QueuesOK
<1>3. StatesOK'
  BY DEF StatesOK
<1>4. CountersOK'
  BY DEF CountersOK
<1> QED BY <1>1, <1>2, <1>3, <1>4

(* No step leaves the types. *)
LEMMA StepType == TypeOK /\ [Next]_vars => TypeOK'
  BY UiCallType, TakeEventType, WorkerStepType, IntervalPassesType,
     NickAcceptedType, LinkDiesType, StutterType DEF Next

(* TypeOK holds in every reachable state: the type invariant of the        *)
(* worker, its handle, its queues and the link.                            *)
THEOREM TypeCorrect == Spec => []TypeOK
  BY InitType, StepType, PTL DEF Spec

-----------------------------------------------------------------------------

Ending(reports) == \A i \in DOMAIN reports : reports[i] \in Terminal => i = Len(reports)

(* The branch that runs ends the connection. *)
IsEnding == out # <<>> /\ out[Len(out)] \in Terminal

(* A terminal event is prepared last, leaves the worker ended, and is the  *)
(* only one the UI can get.                                                *)
EndInv ==
    /\ Ending(out)
    /\ pc = "ended" => out = <<>>
    /\ pc # "ended" => verdict = "none"
                       /\ \A i \in DOMAIN events : events[i] \notin Terminal
    /\ TerminalEventIsLast

(* Of the lines one interval allows, the burst is what is left. *)
FloodInv ==
    IF pacedReady
    THEN inInterval = 0
    ELSE \/ inInterval + burst <= PacedBurst
         \/ burst = 0 /\ inInterval <= 1

(* A check runs only over an open transport, and one over a dead link lasts *)
(* until the connection ends.                                               *)
CheckInv ==
    /\ aliveCheck => pc \notin {"resolving", "opening"}
    /\ checkedDead => aliveCheck \/ pc \in {"draining", "ended"} \/ IsEnding

(* Whatever can make the worker report closed was asked for. *)
AskedInv ==
    /\ cancel \/ quitRequested \/ pc = "draining" => asked
    /\ \A i \in DOMAIN commands : commands[i].kind = "quit" => asked
    /\ \A i \in DOMAIN held : held[i].kind # "quit"
    /\ \A i \in DOMAIN events : events[i] = "closed" => asked
    /\ \A i \in DOMAIN out : out[i] = "closed" => asked
    /\ verdict = "closed" => asked

-----------------------------------------------------------------------------
(* One terminal event, the last. *)

(* The lists of reports a worker step can leave end as they should. *)
LEMMA EndingReports ==
  /\ Ending(<<>>) /\ Ending(<<"note">>) /\ Ending(<<"info">>)
  /\ Ending(<<"closed">>) /\ Ending(<<"disconnected">>)
  /\ Ending(<<"note", "info">>) /\ Ending(<<"note", "info", "note">>)
  /\ Ending(<<"note", "refused">>) /\ Ending(<<"note", "closed">>)
  /\ Ending(<<"note", "disconnected">>)
  /\ Ending(<<"note", "info", "note", "disconnected">>)
  /\ Ending(<<"note", "info", "note", "note", "disconnected">>)
  BY DEF Ending, Terminal

(* So do those that begin with what was held (report_held). *)
LEMMA EndingAfterHeld ==
  ASSUME NEW end
  PROVE  Ending(ReportHeld \o <<"note", end>>)
<1>1. <<>> \o <<"note", end>> = <<"note", end>>
  OBVIOUS
<1> DEFINE long == <<"info">> \o <<"note", end>>
<1>2. DOMAIN long = 1..3 /\ Len(long) = 3 /\ long[1] = "info" /\ long[2] = "note"
  OBVIOUS
<1>3. Ending(<<"note", end>>) /\ Ending(long)
  BY <1>2 DEF Ending, Terminal
<1> QED BY <1>1, <1>3, Zenon DEF ReportHeld

(* A branch of the living worker that reports properly. *)
LEMMA BranchEnd ==
  ASSUME EndInv, pc # "ended", UNCHANGED <<events, verdict>>,
         Ending(out'), pc' = "ended" => out' = <<>>
  PROVE  EndInv'
  BY DEF EndInv, TerminalEventIsLast, Ending

(* A step that leaves all reports alone. *)
LEMMA OtherEnd ==
  ASSUME EndInv, UNCHANGED <<pc, out, events, verdict>>
  PROVE  EndInv'
  BY DEF EndInv, TerminalEventIsLast, Ending

(* No command reports an end at once: /quit and Disconnect drain first. *)
LEMMA PerformEnd ==
  ASSUME out = <<>>, pc = "running", NEW command, Perform(command)
  PROVE  Ending(out') /\ pc' # "ended"
  BY EndingReports DEF Perform, QueueLines, Send, SendNick

(* A call of the handle keeps EndInv. *)
LEMMA UiCallEnd == TypeOK /\ EndInv /\ UiCall => EndInv'
<1> SUFFICES ASSUME TypeOK, EndInv, UiCall PROVE EndInv'
  OBVIOUS
<1> USE DEF handleVars, uiVars, workerVars
<1>1. CASE DropReceiver
  <2>1. events' = <<>> /\ UNCHANGED <<pc, out, verdict>>
    BY <1>1 DEF DropReceiver
  <2> QED BY <2>1 DEF EndInv, TerminalEventIsLast, Ending
<1>2. CASE ~DropReceiver
  <2>1. UNCHANGED <<pc, out, events, verdict>>
    BY <1>2 DEF UiCall, SendMessage, SendLines, Submit, ChangeNickname, SendCommand,
                CheckAlive, SubmitOther, QuitCommand, Disconnect, Shutdown, Sleep,
                DropHandle
  <2> QED BY <2>1, OtherEnd
<1> QED BY <1>1, <1>2

(* The UI taking an event keeps EndInv. *)
LEMMA TakeEventEnd == TypeOK /\ EndInv /\ TakeEvent => EndInv'
<1> SUFFICES ASSUME TypeOK, EndInv, TakeEvent PROVE EndInv'
  OBVIOUS
<1>1. /\ events \in Seq(Reports) /\ events # <<>> /\ events' = Tail(events)
      /\ UNCHANGED <<pc, out>>
      /\ verdict' = IF Head(events) \in Terminal THEN Head(events) ELSE verdict
  BY DEF TypeOK, QueuesOK, TakeEvent, workerVars
<1>2. /\ Len(events') = Len(events) - 1 /\ Len(events) \in Nat \ {0}
      /\ DOMAIN events' = 1..(Len(events) - 1) /\ DOMAIN events = 1..Len(events)
      /\ \A i \in DOMAIN events' : events'[i] = events[i + 1]
  BY <1>1
<1>3. CASE events[1] \in Terminal
  <2>1. Len(events) = 1 /\ pc = "ended"
    BY <1>2, <1>3 DEF EndInv, TerminalEventIsLast
  <2>2. events' = <<>>
    BY <1>1, <2>1
  <2> QED BY <1>1, <2>1, <2>2 DEF EndInv, TerminalEventIsLast, Ending
<1>4. CASE events[1] \notin Terminal
  <2>1. verdict' = verdict
    BY <1>1, <1>4
  <2>2. \A i \in DOMAIN events' : events'[i] \in Terminal =>
           i = Len(events') /\ pc = "ended" /\ verdict = "none"
    BY <1>2 DEF EndInv, TerminalEventIsLast
  <2>3. verdict' = "none"
    BY <1>1, <2>1 DEF EndInv, TerminalEventIsLast
  <2>4. pc # "ended" => \A i \in DOMAIN events' : events'[i] \notin Terminal
    BY <2>2
  <2> QED BY <1>1, <2>1, <2>2, <2>3, <2>4 DEF EndInv, TerminalEventIsLast, Ending
<1> QED BY <1>3, <1>4

(* Emitting the next report keeps EndInv: the worker ends with its last. *)
LEMMA EmitEnd == TypeOK /\ EndInv /\ Emit => EndInv'
<1> SUFFICES ASSUME TypeOK, EndInv, Emit PROVE EndInv'
  OBVIOUS
<1>1. /\ out \in Seq(Reports) /\ out # <<>> /\ events \in Seq(Reports)
      /\ pc # "ended" /\ verdict = "none"
      /\ \A i \in DOMAIN events : events[i] \notin Terminal
  BY DEF TypeOK, QueuesOK, Emit, EndInv
<1>2. verdict' = verdict
  BY DEF Emit, uiVars
<1>3. Ending(Tail(out))
  BY <1>1 DEF EndInv, Ending
<1>4. CASE Reported
  <2>1. CASE Head(out) \in Terminal
    <3>1. pc' = "ended" /\ out' = <<>>
      BY <1>4, <2>1 DEF Reported, EndWorker
    <3>2. events' = events \/ events' = Append(events, Head(out))
      BY DEF Emit
    <3>3. \A i \in DOMAIN events' : events'[i] \in Terminal => i = Len(events')
      BY <1>1, <3>2
    <3> QED BY <1>1, <1>2, <3>1, <3>3 DEF EndInv, TerminalEventIsLast, Ending
  <2>2. CASE Head(out) \notin Terminal
    <3>1. UNCHANGED pc /\ out' = Tail(out)
      BY <1>4, <2>2 DEF Reported
    <3>2. events' = events \/ events' = Append(events, Head(out))
      BY DEF Emit
    <3>3. \A i \in DOMAIN events' : events'[i] \notin Terminal
      BY <1>1, <2>2, <3>2
    <3> QED BY <1>1, <1>2, <1>3, <3>1, <3>3 DEF EndInv, TerminalEventIsLast
  <2> QED BY <2>1, <2>2
<1>5. CASE ~Reported
  <2>1. pc' = "ended" /\ out' = <<>> /\ events' = events
    BY <1>5 DEF Emit, EndWorker
  <2> QED BY <1>1, <1>2, <2>1 DEF EndInv, TerminalEventIsLast, Ending
<1> QED BY <1>4, <1>5

(* Every branch of the worker keeps EndInv. *)
LEMMA BranchesEnd == TypeOK /\ EndInv /\ WorkerStep => EndInv'
<1> SUFFICES ASSUME TypeOK, EndInv, WorkerStep, ~Emit PROVE EndInv'
  BY EmitEnd
<1>1. pc # "ended"
  BY DEF WorkerStep, Resolved, Opened, OpenFailed, Cancelled, PaceStep, PacedTimer,
         FlushStep, TakeCommand, TakeQuit, QueueClosed, Drained, ReadLine, ReadWelcome,
         ReadRefusal, ReadNickRejected, ReadFatal, ReadPong, StreamEnded,
         AliveDeadline, RegistrationTimeout, Read, Readable, AtSelect, Idle
<1>2. UNCHANGED <<events, verdict>>
  BY DEF WorkerStep, Resolved, Opened, OpenFailed, Cancelled, PaceStep, PacedTimer,
         FlushStep, TakeCommand, TakeQuit, QueueClosed, Drained, ReadLine, ReadWelcome,
         ReadRefusal, ReadNickRejected, ReadFatal, ReadPong, StreamEnded,
         AliveDeadline, RegistrationTimeout, OnlyReports, uiVars
<1>3. Ending(out') /\ (pc' = "ended" => out' = <<>>)
  <2>1. CASE Resolved \/ Opened \/ Cancelled \/ Drained \/ QueueClosed
    BY <1>1, <2>1, EndingReports
       DEF Resolved, Opened, Cancelled, Drained, QueueClosed, OnlyReports
  <2>8. CASE OpenFailed
    BY <1>1, <2>8, EndingReports, Zenon DEF OpenFailed, OnlyReports
  <2>2. CASE PaceStep \/ PacedTimer \/ TakeQuit
    BY <1>1, <2>2, EndingReports
       DEF PaceStep, PacedTimer, TakeQuit, Send, AtSelect, Idle
  <2>3. CASE FlushStep
    BY <2>3, PerformEnd DEF FlushStep, Idle
  <2>4. CASE TakeCommand
    <3>1. out = <<>> /\ pc = "running"
      BY <2>4 DEF TakeCommand, AtSelect, Idle
    <3>2. CASE StartAliveCheck \/ Hold(Head(commands))
      BY <3>1, <3>2, EndingReports DEF StartAliveCheck, Hold
    <3>3. CASE Perform(Head(commands))
      BY <3>1, <3>3, PerformEnd
    <3> QED BY <2>4, <3>2, <3>3 DEF TakeCommand
  <2>5. CASE ReadLine \/ ReadWelcome \/ ReadRefusal \/ ReadNickRejected \/ ReadFatal
             \/ ReadPong
    BY <1>1, <2>5, EndingReports
       DEF ReadLine, ReadWelcome, ReadRefusal, ReadNickRejected, ReadFatal, ReadPong
  <2>6. CASE StreamEnded \/ AliveDeadline
    BY <1>1, <2>6, EndingAfterHeld DEF StreamEnded, AliveDeadline
  <2>7. CASE RegistrationTimeout
    BY <1>1, <2>7, EndingReports DEF RegistrationTimeout
  <2> QED
    BY <2>1, <2>2, <2>3, <2>4, <2>5, <2>6, <2>7, <2>8 DEF WorkerStep
<1> QED BY <1>1, <1>2, <1>3, BranchEnd

(* EndInv is an invariant. *)
LEMMA EndCorrect == Spec => []EndInv
<1>1. Init => EndInv
  BY EndingReports DEF Init, EndInv, TerminalEventIsLast
<1>2. TypeOK /\ EndInv /\ [Next]_vars => EndInv'
  <2> SUFFICES ASSUME TypeOK, EndInv, [Next]_vars PROVE EndInv'
    OBVIOUS
  <2>1. CASE IntervalPasses \/ NickAccepted \/ LinkDies \/ UNCHANGED vars
    BY <2>1, OtherEnd DEF IntervalPasses, NickAccepted, LinkDies, vars, uiVars
  <2> QED BY <2>1, UiCallEnd, TakeEventEnd, BranchesEnd DEF Next
<1> QED BY <1>1, <1>2, TypeCorrect, PTL DEF Spec

(* TerminalEventIsLast: what the UI does on the end of a connection, it    *)
(* does once.                                                              *)
THEOREM TerminalOnce == Spec => []TerminalEventIsLast
<1>1. EndInv => TerminalEventIsLast
  BY DEF EndInv
<1> QED BY <1>1, EndCorrect, PTL

-----------------------------------------------------------------------------
(* What the steps that neither write nor take a command leave alone. *)

(* Only three steps write a message or touch the paced and held ones. *)
LEMMA OtherSteps ==
  ASSUME [Next]_vars, ~PaceStep, ~FlushStep, ~TakeCommand
  PROVE  /\ written' = written
         /\ paced' = paced
         /\ held' = held \/ StreamEnded \/ AliveDeadline
<1>1. CASE UiCall \/ TakeEvent \/ IntervalPasses \/ NickAccepted \/ LinkDies
           \/ UNCHANGED vars
  BY <1>1 DEF UiCall, SendMessage, SendLines, Submit, ChangeNickname, SendCommand,
              CheckAlive, SubmitOther, QuitCommand, Disconnect, Shutdown, Sleep,
              DropHandle, DropReceiver, TakeEvent, IntervalPasses, NickAccepted,
              LinkDies, vars, workerVars, paceVars
<1>2. CASE WorkerStep
  BY <1>2 DEF WorkerStep, Emit, Resolved, Opened, OpenFailed, Cancelled, PacedTimer,
              TakeQuit, QueueClosed, Drained, ReadLine, ReadWelcome, ReadRefusal,
              ReadNickRejected, ReadFatal, ReadPong, StreamEnded, AliveDeadline,
              RegistrationTimeout, OnlyReports, paceVars
<1> QED BY <1>1, <1>2 DEF Next

-----------------------------------------------------------------------------
(* The flood limit. *)

BurstVars == <<burst, pacedReady, inInterval>>

NewBurst == /\ pacedReady /\ burst' = PacedBurst
            /\ UNCHANGED <<pacedReady, inInterval>>

(* A command leaves the burst alone, or is granted a new one. *)
LEMMA PerformBurst ==
  ASSUME NEW command, Perform(command)
  PROVE  UNCHANGED BurstVars \/ NewBurst
  BY DEF Perform, QueueLines, paceVars, BurstVars, NewBurst

(* Only four steps touch what an interval allows. *)
LEMMA BurstSteps ==
  ASSUME [Next]_vars
  PROVE  PaceStep \/ IntervalPasses \/ UNCHANGED BurstVars \/ NewBurst
<1> USE DEF BurstVars, paceVars
<1>1. CASE UiCall \/ TakeEvent \/ NickAccepted \/ LinkDies \/ UNCHANGED vars
  BY <1>1 DEF UiCall, SendMessage, SendLines, Submit, ChangeNickname, SendCommand,
              CheckAlive, SubmitOther, QuitCommand, Disconnect, Shutdown, Sleep,
              DropHandle, DropReceiver, TakeEvent, NickAccepted, LinkDies, vars,
              workerVars
<1>2. CASE FlushStep
  BY <1>2, PerformBurst DEF FlushStep
<1>3. CASE TakeCommand
  <2>1. CASE Perform(Head(commands))
    BY <2>1, PerformBurst
  <2>2. CASE StartAliveCheck \/ Hold(Head(commands))
    BY <2>2 DEF StartAliveCheck, Hold
  <2> QED BY <1>3, <2>1, <2>2 DEF TakeCommand
<1>4. CASE Emit \/ Resolved \/ Opened \/ OpenFailed \/ Cancelled \/ PacedTimer \/ TakeQuit
           \/ QueueClosed \/ Drained \/ ReadLine \/ ReadWelcome \/ ReadRefusal
           \/ ReadNickRejected \/ ReadFatal \/ ReadPong \/ StreamEnded
           \/ AliveDeadline \/ RegistrationTimeout
  BY <1>4 DEF Emit, Resolved, Opened, OpenFailed, Cancelled, PacedTimer, TakeQuit,
              QueueClosed, Drained, ReadLine, ReadWelcome, ReadRefusal,
              ReadNickRejected, ReadFatal, ReadPong, StreamEnded, AliveDeadline,
              RegistrationTimeout, OnlyReports
<1> QED BY <1>1, <1>2, <1>3, <1>4 DEF Next, WorkerStep

(* FloodLimited: a paste never goes out faster than the burst allows.      *)
THEOREM FloodNeverExceeded == Spec => []FloodLimited
<1>1. Init => FloodInv
  BY DEF Init, FloodInv
<1>2. TypeOK /\ FloodInv /\ [Next]_vars => FloodInv'
  <2> SUFFICES ASSUME TypeOK, FloodInv, [Next]_vars PROVE FloodInv'
    OBVIOUS
  <2> USE ConnectionAssumption
  <2>1. burst \in 0..PacedBurst /\ inInterval \in Nat
    BY DEF TypeOK, CountersOK
  <2>2. CASE PaceStep /\ PacedDue
    <3>1. /\ burst' = IF burst > 0 THEN burst - 1 ELSE 0
          /\ pacedReady' = FALSE /\ inInterval' = inInterval + 1
          /\ burst > 0 \/ pacedReady
      BY <2>2 DEF PaceStep, PacedDue
    <3> QED BY <2>1, <3>1 DEF FloodInv
  <2>3. CASE PaceStep /\ ~PacedDue
    BY <2>3 DEF PaceStep, FloodInv
  <2>4. CASE IntervalPasses
    BY <2>4 DEF IntervalPasses, FloodInv
  <2>5. CASE UNCHANGED BurstVars
    BY <2>5 DEF BurstVars, FloodInv
  <2>6. CASE NewBurst
    BY <2>6 DEF NewBurst, FloodInv
  <2> QED BY <2>2, <2>3, <2>4, <2>5, <2>6, BurstSteps
<1>3. TypeOK /\ FloodInv => FloodLimited
  BY ConnectionAssumption DEF TypeOK, CountersOK, FloodInv, FloodLimited
<1> QED BY <1>1, <1>2, <1>3, TypeCorrect, PTL DEF Spec

-----------------------------------------------------------------------------
(* Wake-up checks. *)

(* The steps that may write a message or a NICK. *)
LEMMA WritingSteps ==
  ASSUME TypeOK, CheckInv, aliveCheck, [Next]_vars
  PROVE  written' = written /\ nicks' <= nicks
<1> USE DEF serverVars
<1>1. nicks \in Nat /\ pc \notin {"resolving", "opening"}
  BY DEF TypeOK, CountersOK, CheckInv
<1>2. CASE UiCall \/ TakeEvent \/ IntervalPasses \/ LinkDies \/ UNCHANGED vars
  <2>1. written' = written /\ nicks' = nicks
    BY <1>2 DEF UiCall, SendMessage, SendLines, Submit, ChangeNickname, SendCommand,
                CheckAlive, SubmitOther, QuitCommand, Disconnect, Shutdown, Sleep,
                DropHandle, DropReceiver, TakeEvent, IntervalPasses, LinkDies, vars,
                workerVars
  <2> QED BY <1>1, <2>1
<1>3. CASE NickAccepted
  BY <1>1, <1>3 DEF NickAccepted
<1>4. CASE PaceStep
  BY <1>1, <1>4 DEF PaceStep, PacedDue
<1>5. CASE TakeCommand
  <2>1. CASE StartAliveCheck \/ Hold(Head(commands))
    <3>1. written' = written /\ nicks' = nicks
      BY <2>1 DEF StartAliveCheck, Hold
    <3> QED BY <1>1, <3>1
  <2>2. CASE Perform(Head(commands)) /\ Head(commands).kind = "quit"
    BY <1>1, <2>2 DEF Perform
  <2> QED BY <1>5, <2>1, <2>2 DEF TakeCommand
<1>6. CASE Emit \/ Resolved \/ OpenFailed \/ Cancelled \/ PacedTimer \/ TakeQuit
           \/ QueueClosed \/ Drained \/ ReadLine \/ ReadWelcome \/ ReadRefusal
           \/ ReadFatal \/ ReadPong \/ StreamEnded \/ AliveDeadline
           \/ RegistrationTimeout
  <2>1. written' = written /\ nicks' = nicks
    BY <1>6 DEF Emit, Resolved, OpenFailed, Cancelled, PacedTimer, TakeQuit,
                QueueClosed, Drained, ReadLine, ReadWelcome, ReadRefusal, ReadFatal,
                ReadPong, StreamEnded, AliveDeadline, RegistrationTimeout, OnlyReports
  <2> QED BY <1>1, <2>1
<1>7. CASE ReadNickRejected
  BY <1>1, <1>7 DEF ReadNickRejected
<1>8. CASE Opened \/ FlushStep
  BY <1>1, <1>8 DEF Opened, FlushStep
<1> QED
  BY <1>2, <1>3, <1>4, <1>5, <1>6, <1>7, <1>8 DEF Next, WorkerStep

(* A branch that ends an alive check over a dead link, or leaves it in the *)
(* course of the connection's end, keeps CheckInv.                         *)
LEMMA CheckKept ==
  ASSUME CheckInv, UNCHANGED <<aliveCheck, checkedDead, pc, out>>
  PROVE  CheckInv'
  BY DEF CheckInv, IsEnding

(* A step that leaves the alive check alone keeps CheckInv. *)
LEMMA CheckKeptRunning ==
  ASSUME CheckInv, out = <<>>, pc = "running", UNCHANGED <<aliveCheck, checkedDead>>,
         pc' \in {"running", "draining", "ended"}
  PROVE  CheckInv'
  BY DEF CheckInv, IsEnding

(* A command leaves the worker running, or draining. *)
LEMMA PerformPhase ==
  ASSUME NEW command, pc = "running", Perform(command)
  PROVE  pc' \in {"running", "draining"}
  BY DEF Perform

(* The reports of a failed check end with the terminal event. *)
LEMMA LastOfReports ==
  /\ LET end == <<"note", "disconnected">> IN end # <<>> /\ end[Len(end)] \in Terminal
  /\ LET end == ReportHeld \o <<"note", "disconnected">>
     IN  end # <<>> /\ end[Len(end)] \in Terminal
<1> DEFINE short == <<"note", "disconnected">>
           long == <<"info">> \o <<"note", "disconnected">>
<1>1. <<>> \o short = short
  OBVIOUS
<1>2. short # <<>> /\ short[Len(short)] \in Terminal
  BY DEF Terminal
<1>3. long # <<>> /\ long[Len(long)] \in Terminal
  BY DEF Terminal
<1> QED BY <1>1, <1>2, <1>3, Zenon DEF ReportHeld

(* A queue keeps its last element when its first is taken. *)
LEMMA TailKeepsLast ==
  ASSUME NEW S, NEW queue \in Seq(S), NEW n \in Nat, Len(queue) = n, n > 1
  PROVE  /\ Tail(queue) # <<>>
         /\ Tail(queue)[Len(Tail(queue))] = queue[Len(queue)]
<1>1. Len(Tail(queue)) = n - 1 /\ Len(Tail(queue)) > 0
  OBVIOUS
<1>2. ~(Len(<<>>) > 0)
  OBVIOUS
<1>3. Tail(queue) # <<>>
  BY <1>1, <1>2, Zenon
<1>4. Tail(queue)[n - 1] = queue[n]
  OBVIOUS
<1> QED BY <1>1, <1>3, <1>4

(* Emitting a report keeps CheckInv. *)
LEMMA EmitCheck == TypeOK /\ EndInv /\ CheckInv /\ Emit => CheckInv'
<1> SUFFICES ASSUME TypeOK, EndInv, CheckInv, Emit PROVE CheckInv'
  OBVIOUS
<1>1. /\ out \in Seq(Reports) /\ out # <<>> /\ UNCHANGED <<aliveCheck, checkedDead>>
      /\ Reported \/ EndWorker
  BY DEF TypeOK, QueuesOK, Emit
<1>2. CASE pc' = "ended"
  BY <1>1, <1>2 DEF CheckInv
<1>3. CASE pc' = pc /\ out' = Tail(out) /\ Head(out) \notin Terminal
  <2>1. IsEnding => IsEnding'
    <3> SUFFICES ASSUME IsEnding PROVE out' # <<>> /\ out'[Len(out')] \in Terminal
      BY DEF IsEnding
    <3> DEFINE n == Len(out)
    <3>1. n \in Nat /\ n # 0 /\ n # 1
      BY <1>1, <1>3 DEF IsEnding
    <3> HIDE DEF n
    <3>2. n > 1
      BY <3>1
    <3>3. Len(out) = n
      BY DEF n
    <3> QED BY <1>1, <1>3, <3>1, <3>2, <3>3, TailKeepsLast DEF IsEnding
  <2> QED BY <1>1, <1>3, <2>1 DEF CheckInv
<1> QED BY <1>1, <1>2, <1>3 DEF Reported, EndWorker

(* Every step keeps CheckInv. *)
LEMMA CheckStep == TypeOK /\ EndInv /\ CheckInv /\ [Next]_vars => CheckInv'
<1> SUFFICES ASSUME TypeOK, EndInv, CheckInv, [Next]_vars PROVE CheckInv'
  OBVIOUS
<1>1. CASE UiCall \/ TakeEvent \/ IntervalPasses \/ NickAccepted \/ LinkDies \/ PacedTimer
           \/ UNCHANGED vars
  <2>1. UNCHANGED <<aliveCheck, checkedDead, pc, out>>
    BY <1>1 DEF UiCall, SendMessage, SendLines, Submit, ChangeNickname, SendCommand,
                CheckAlive, SubmitOther, QuitCommand, Disconnect, Shutdown, Sleep,
                DropHandle, DropReceiver, TakeEvent, IntervalPasses, NickAccepted,
                LinkDies, PacedTimer, vars, workerVars
  <2> QED BY <2>1, CheckKept
<1>2. CASE Resolved \/ Opened \/ OpenFailed \/ Cancelled
  <2>1. (~aliveCheck /\ ~checkedDead) \/ IsEnding
    BY <1>2 DEF CheckInv, Resolved, Opened, OpenFailed, Cancelled
  <2>2. out = <<>> /\ UNCHANGED <<aliveCheck, checkedDead>>
    BY <1>2 DEF Resolved, Opened, OpenFailed, Cancelled, OnlyReports
  <2> QED BY <2>1, <2>2 DEF CheckInv, IsEnding
<1>3. CASE Drained
  BY <1>3 DEF Drained, OnlyReports, CheckInv
<1>4. CASE PaceStep \/ TakeQuit \/ QueueClosed \/ ReadLine \/ ReadWelcome \/ ReadRefusal
           \/ ReadNickRejected \/ ReadFatal \/ StreamEnded \/ RegistrationTimeout
  <2>1. /\ out = <<>> /\ pc = "running" /\ UNCHANGED <<aliveCheck, checkedDead>>
        /\ pc' \in {"running", "draining", "ended"}
    BY <1>4 DEF PaceStep, TakeQuit, QueueClosed, ReadLine, ReadWelcome, ReadRefusal,
                ReadNickRejected, ReadFatal, StreamEnded, RegistrationTimeout,
                OnlyReports, Read, Readable, AtSelect, Idle
  <2> QED BY <2>1, CheckKeptRunning
<1>5. CASE FlushStep
  <2>1. out = <<>> /\ pc = "running" /\ UNCHANGED <<aliveCheck, checkedDead>>
    BY <1>5 DEF FlushStep, Idle
  <2> QED BY <1>5, <2>1, PerformPhase, CheckKeptRunning DEF FlushStep
<1>6. CASE TakeCommand
  <2>1. out = <<>> /\ pc = "running"
    BY <1>6 DEF TakeCommand, AtSelect, Idle
  <2>2. CASE StartAliveCheck
    <3>1. pc' = "running"
      BY <2>1, <2>2 DEF StartAliveCheck
    <3>2. aliveCheck' = TRUE \/ UNCHANGED <<aliveCheck, checkedDead>>
      BY <2>2 DEF StartAliveCheck
    <3>3. CASE aliveCheck' = TRUE
      BY <3>1, <3>3 DEF CheckInv
    <3>4. CASE UNCHANGED <<aliveCheck, checkedDead>>
      BY <2>1, <3>1, <3>4, CheckKeptRunning
    <3> QED BY <3>2, <3>3, <3>4
  <2>3. CASE Hold(Head(commands))
    <3>1. UNCHANGED <<aliveCheck, checkedDead, pc>>
      BY <2>3 DEF Hold
    <3> QED BY <2>1, <3>1, CheckKeptRunning
  <2>4. CASE Perform(Head(commands)) /\ UNCHANGED <<held, aliveCheck, checkedDead>>
    BY <2>1, <2>4, PerformPhase, CheckKeptRunning
  <2> QED BY <1>6, <2>2, <2>3, <2>4 DEF TakeCommand
<1>7. CASE ReadPong
  BY <1>7 DEF ReadPong, CheckInv
<1>8. CASE AliveDeadline
  <2>1. /\ aliveCheck' = FALSE /\ UNCHANGED <<pc, checkedDead>>
        /\ out' = ReportHeld \o <<"note", "disconnected">>
    BY <1>8 DEF AliveDeadline
  <2>2. IsEnding'
    BY <2>1, LastOfReports DEF IsEnding
  <2> QED BY <2>1, <2>2 DEF CheckInv
<1> QED
  BY <1>1, <1>2, <1>3, <1>4, <1>5, <1>6, <1>7, <1>8, EmitCheck DEF Next, WorkerStep

(* CheckInv is an invariant, with EndInv. *)
LEMMA CheckCorrect == Spec => [](TypeOK /\ EndInv /\ CheckInv)
<1>1. Init => CheckInv
  BY DEF Init, CheckInv
<1> QED BY <1>1, CheckStep, TypeCorrect, EndCorrect, PTL DEF Spec

(* NothingSentDuringCheck: no message and no NICK goes out during a check. *)
THEOREM SilentDuringCheck == Spec => NothingSentDuringCheck
<1>1. TypeOK /\ EndInv /\ CheckInv /\ [Next]_vars
      => [aliveCheck => written' = written /\ nicks' <= nicks]_vars
  BY WritingSteps
<1> QED BY <1>1, CheckCorrect, PTL DEF Spec, NothingSentDuringCheck

(* NothingSentToDeadLink: after a wake-up over a dead link, no message is  *)
(* ever written to it.                                                     *)
THEOREM DeadLinkSilent == Spec => NothingSentToDeadLink
<1>1. ASSUME TypeOK, CheckInv, checkedDead, [Next]_vars PROVE written' = written
  <2>1. CASE aliveCheck
    BY <1>1, <2>1, WritingSteps
  <2>2. CASE pc \in {"draining", "ended"} \/ IsEnding
    <3>1. ~PaceStep /\ ~FlushStep /\ ~TakeCommand
      BY <2>2 DEF IsEnding, PaceStep, FlushStep, TakeCommand, AtSelect, Idle
    <3> QED BY <1>1, <3>1, OtherSteps
  <2> QED BY <1>1, <2>1, <2>2 DEF CheckInv
<1>2. TypeOK /\ EndInv /\ CheckInv /\ [Next]_vars
      => [checkedDead => written' = written]_vars
  BY <1>1
<1> QED BY <1>2, CheckCorrect, PTL DEF Spec, NothingSentToDeadLink

-----------------------------------------------------------------------------
(* The backlogs. *)

(* A command keeps the paced lines within their limit. *)
LEMMA PerformPaced ==
  ASSUME TypeOK, NEW command \in Commands, Perform(command), Len(paced) <= MaxPaced
  PROVE  Len(paced') <= MaxPaced
<1>1. paced \in Seq(Nat) /\ command.ids \in Seq(Nat)
  BY CommandIds DEF TypeOK, QueuesOK
<1>2. CASE QueueLines(command.ids)
  <2>1. \/ paced' = paced
        \/ ~(Len(paced) + Len(command.ids) > MaxPaced) /\ paced' = paced \o command.ids
    BY <1>2 DEF QueueLines, paceVars
  <2>2. Len(paced \o command.ids) = Len(paced) + Len(command.ids)
    BY <1>1
  <2> QED BY <1>1, <2>1, <2>2, ConnectionAssumption
<1>3. CASE UNCHANGED paceVars
  BY <1>3 DEF paceVars
<1> QED BY <1>2, <1>3 DEF Perform

(* BacklogBounded: the held and the paced backlog keep their limits.       *)
THEOREM BacklogsBounded == Spec => []BacklogBounded
<1>1. Init => BacklogBounded
  BY ConnectionAssumption DEF Init, BacklogBounded
<1>2. TypeOK /\ BacklogBounded /\ [Next]_vars => BacklogBounded'
  <2> SUFFICES ASSUME TypeOK, BacklogBounded, [Next]_vars PROVE BacklogBounded'
    OBVIOUS
  <2> USE ConnectionAssumption
  <2>1. held \in Seq(Commands) /\ paced \in Seq(Nat) /\ commands \in Seq(Commands)
    BY DEF TypeOK, QueuesOK
  <2>2. CASE PaceStep
    <3>1. held' = held
      BY <2>2 DEF PaceStep
    <3>2. CASE PacedDue
      <4>1. paced' = Tail(paced) /\ paced # <<>>
        BY <2>2, <3>2 DEF PaceStep, PacedDue
      <4>2. Len(paced') = Len(paced) - 1
        BY <2>1, <4>1, HeadAndTail
      <4> QED BY <2>1, <3>1, <4>2 DEF BacklogBounded
    <3>3. CASE ~PacedDue
      BY <2>2, <3>1, <3>3 DEF PaceStep, BacklogBounded
    <3> QED BY <3>2, <3>3
  <2>3. CASE FlushStep
    <3>1. held # <<>> /\ held' = Tail(held) /\ Perform(Head(held))
      BY <2>3 DEF FlushStep
    <3>2. Head(held) \in Commands /\ Len(held') = Len(held) - 1 /\ Len(held) \in Nat
      BY <2>1, <3>1, HeadAndTail
    <3>3. Len(paced') <= MaxPaced
      BY <3>1, <3>2, PerformPaced DEF BacklogBounded
    <3> QED BY <3>2, <3>3 DEF BacklogBounded
  <2>4. CASE TakeCommand
    <3>1. Head(commands) \in Commands
      BY <2>1, <2>4, HeadAndTail DEF TakeCommand
    <3>2. CASE StartAliveCheck
      BY <3>2 DEF StartAliveCheck, paceVars, BacklogBounded
    <3>3. CASE Hold(Head(commands))
      <4>1. /\ paced' = paced
            /\ \/ held' = held
               \/ ~(Len(held) >= MaxHeld) /\ held' = Append(held, Head(commands))
        BY <3>3 DEF Hold, paceVars
      <4>2. Len(Append(held, Head(commands))) = Len(held) + 1 /\ Len(held) \in Nat
        BY <2>1
      <4> QED BY <4>1, <4>2 DEF BacklogBounded
    <3>4. CASE Perform(Head(commands)) /\ UNCHANGED <<held, aliveCheck, checkedDead>>
      BY <3>1, <3>4, PerformPaced DEF BacklogBounded
    <3> QED BY <2>4, <3>2, <3>3, <3>4 DEF TakeCommand
  <2>5. CASE StreamEnded \/ AliveDeadline
    BY <2>5 DEF StreamEnded, AliveDeadline, DropHeld, paceVars, BacklogBounded
  <2>6. CASE ~PaceStep /\ ~FlushStep /\ ~TakeCommand /\ ~StreamEnded /\ ~AliveDeadline
    BY <2>6, OtherSteps DEF BacklogBounded
  <2> QED BY <2>2, <2>3, <2>4, <2>5, <2>6
<1> QED BY <1>1, <1>2, TypeCorrect, PTL DEF Spec

-----------------------------------------------------------------------------
(* Closed only for an end that was asked for. *)

NotClosed(reports) == \A i \in DOMAIN reports : reports[i] # "closed"

(* The lists of reports of branches that do not end as asked hold no       *)
(* closed.                                                                 *)
LEMMA NotClosedReports ==
  /\ NotClosed(<<>>) /\ NotClosed(<<"note">>) /\ NotClosed(<<"info">>)
  /\ NotClosed(<<"disconnected">>) /\ NotClosed(<<"note", "info">>)
  /\ NotClosed(<<"note", "info", "note">>) /\ NotClosed(<<"note", "refused">>)
  /\ NotClosed(<<"note", "disconnected">>)
  /\ NotClosed(<<"note", "info", "note", "disconnected">>)
  /\ NotClosed(<<"note", "info", "note", "note", "disconnected">>)
  BY DEF NotClosed

(* Nor do those that begin with what was held. *)
LEMMA NotClosedAfterHeld ==
  ASSUME NEW end, end # "closed"
  PROVE  NotClosed(ReportHeld \o <<"note", end>>)
<1> DEFINE long == <<"info">> \o <<"note", end>>
<1>1. <<>> \o <<"note", end>> = <<"note", end>>
  OBVIOUS
<1>2. /\ DOMAIN long = 1..3
      /\ long[1] = "info" /\ long[2] = "note" /\ long[3] = end
  OBVIOUS
<1>3. NotClosed(<<"note", end>>) /\ NotClosed(long)
  BY <1>2 DEF NotClosed
<1> QED BY <1>1, <1>3, Zenon DEF ReportHeld

(* A call of the UI: it may ask, and put a quit in the queue then. *)
LEMMA UiCallAsked == TypeOK /\ AskedInv /\ UiCall => AskedInv'
<1> SUFFICES ASSUME TypeOK, AskedInv, UiCall PROVE AskedInv'
  OBVIOUS
<1> USE DEF handleVars, uiVars, callVars, workerVars
<1>1. CASE QuitCommand \/ Disconnect \/ Shutdown \/ Sleep
  <2>1. asked' /\ UNCHANGED <<held>>
    BY <1>1 DEF QuitCommand, Disconnect, Shutdown, Sleep
  <2> QED BY <2>1 DEF AskedInv
<1>2. CASE DropHandle
  BY <1>2 DEF DropHandle, AskedInv
<1>3. CASE DropReceiver
  BY <1>3 DEF DropReceiver, AskedInv
<1>4. ASSUME NEW op \in Kinds, NEW ids, op # "quit", Enqueue(Command(op, ids)),
             UNCHANGED <<handleVars, events, uiVars, asked, workerVars>>
      PROVE  AskedInv'
  <2>1. commands \in Seq(Commands) /\ commands' = Append(commands, Command(op, ids))
    BY <1>4 DEF TypeOK, QueuesOK, Enqueue
  <2>2. Command(op, ids).kind = op
    BY DEF Command
  <2>3. \A i \in DOMAIN commands' : commands'[i].kind = "quit" => asked
    BY <1>4, <2>1, <2>2 DEF AskedInv
  <2> QED BY <1>4, <2>3 DEF AskedInv
<1>5. CASE SendMessage \/ SendLines
  BY <1>4, <1>5 DEF SendMessage, SendLines, Submit, Kinds
<1>6. CASE ChangeNickname \/ SendCommand \/ CheckAlive
  BY <1>4, <1>6 DEF ChangeNickname, SendCommand, CheckAlive, SubmitOther, Kinds
<1> QED BY <1>1, <1>2, <1>3, <1>5, <1>6 DEF UiCall

(* The UI taking an event keeps AskedInv. *)
LEMMA TakeEventAsked == TypeOK /\ AskedInv /\ TakeEvent => AskedInv'
<1> SUFFICES ASSUME TypeOK, AskedInv, TakeEvent PROVE AskedInv'
  OBVIOUS
<1> USE DEF handleVars, callVars, workerVars
<1>1. /\ events \in Seq(Reports) /\ events # <<>> /\ events' = Tail(events)
      /\ verdict' = IF Head(events) \in Terminal THEN Head(events) ELSE verdict
      /\ UNCHANGED <<commands, cancel, quitRequested, pc, asked, held, out>>
  BY DEF TypeOK, QueuesOK, TakeEvent
<1>2. /\ \A i \in DOMAIN events' : events'[i] = events[i + 1] /\ i + 1 \in DOMAIN events
      /\ Head(events) = events[1] /\ 1 \in DOMAIN events
  BY <1>1
<1> QED BY <1>1, <1>2 DEF AskedInv

(* Emitting a report keeps AskedInv. *)
LEMMA EmitAsked == TypeOK /\ AskedInv /\ Emit => AskedInv'
<1> SUFFICES ASSUME TypeOK, AskedInv, Emit PROVE AskedInv'
  OBVIOUS
<1>1. /\ out \in Seq(Reports) /\ out # <<>> /\ events \in Seq(Reports)
      /\ events' = events \/ events' = Append(events, Head(out))
      /\ out' = <<>> \/ out' = Tail(out)
      /\ pc' = "ended" \/ pc' = pc
      /\ UNCHANGED <<commands, cancel, quitRequested, asked, held, verdict>>
  BY DEF TypeOK, QueuesOK, Emit, Reported, EndWorker, handleVars, uiVars, callVars
<1>2. Head(out) = out[1] /\ 1 \in DOMAIN out
  BY <1>1
<1>3. \A i \in DOMAIN out' : out'[i] = "closed" => asked
  BY <1>1 DEF AskedInv
<1>4. \A i \in DOMAIN events' : events'[i] = "closed" => asked
  BY <1>1, <1>2 DEF AskedInv
<1> QED BY <1>1, <1>3, <1>4 DEF AskedInv

(* Only a quit drains, and no command reports closed at once. *)
LEMMA PerformAsked ==
  ASSUME out = <<>>, pc = "running", NEW command, Perform(command)
  PROVE  NotClosed(out') /\ (pc' = "draining" => command.kind = "quit")
  BY NotClosedReports DEF Perform, QueueLines, Send, SendNick

(* A branch that neither reports closed nor starts to drain. *)
LEMMA BranchAsked ==
  ASSUME AskedInv, UNCHANGED <<events, verdict, asked, cancel, quitRequested>>,
         pc' = "draining" => asked, NotClosed(out') \/ asked,
         \A i \in DOMAIN commands' : commands'[i].kind = "quit" => asked,
         \A i \in DOMAIN held' : held'[i].kind # "quit"
  PROVE  AskedInv'
  BY DEF AskedInv, NotClosed

(* Taking a command keeps AskedInv. *)
LEMMA TakeCommandAsked == TypeOK /\ AskedInv /\ TakeCommand => AskedInv'
<1> SUFFICES ASSUME TypeOK, AskedInv, TakeCommand PROVE AskedInv'
  OBVIOUS
<1> DEFINE command == Head(commands)
<1>1. /\ commands \in Seq(Commands) /\ held \in Seq(Commands)
      /\ out = <<>> /\ pc = "running" /\ commands # <<>> /\ commands' = Tail(commands)
      /\ UNCHANGED <<events, verdict, asked, cancel, quitRequested>>
  BY DEF TypeOK, QueuesOK, TakeCommand, AtSelect, Idle, handleVars, uiVars, callVars
<1>2. /\ command = commands[1] /\ 1 \in DOMAIN commands
      /\ \A i \in DOMAIN commands' : commands'[i].kind = "quit" => asked
  <2>1. \A i \in DOMAIN commands' : commands'[i] = commands[i + 1] /\ i + 1 \in DOMAIN commands
    BY <1>1
  <2> QED BY <1>1, <2>1 DEF AskedInv
<1>3. CASE StartAliveCheck
  <2>1. held' = held /\ pc' = pc /\ NotClosed(out')
    BY <1>1, <1>3, NotClosedReports DEF StartAliveCheck
  <2> QED BY <1>1, <1>2, <2>1, BranchAsked DEF AskedInv
<1>4. CASE Hold(command) /\ command.kind \notin {"check", "quit"}
  <2>1. /\ pc' = pc /\ NotClosed(out')
        /\ held' = held \/ held' = Append(held, command)
    BY <1>1, <1>4, NotClosedReports DEF Hold
  <2>2. \A i \in DOMAIN held' : held'[i].kind # "quit"
    BY <1>1, <1>4, <2>1 DEF AskedInv
  <2> QED BY <1>1, <1>2, <2>1, <2>2, BranchAsked
<1>5. CASE Perform(command) /\ UNCHANGED <<held, aliveCheck, checkedDead>>
  <2>1. NotClosed(out') /\ (pc' = "draining" => command.kind = "quit")
    BY <1>1, <1>5, PerformAsked
  <2>2. pc' = "draining" => asked
    BY <1>2, <2>1 DEF AskedInv
  <2> QED BY <1>1, <1>2, <1>5, <2>1, <2>2, BranchAsked DEF AskedInv
<1> QED BY <1>3, <1>4, <1>5 DEF TakeCommand

(* Flushing a held command keeps AskedInv. *)
LEMMA FlushStepAsked == TypeOK /\ AskedInv /\ FlushStep => AskedInv'
<1> SUFFICES ASSUME TypeOK, AskedInv, FlushStep PROVE AskedInv'
  OBVIOUS
<1>1. /\ held \in Seq(Commands) /\ held # <<>> /\ held' = Tail(held)
      /\ out = <<>> /\ pc = "running" /\ Perform(Head(held))
      /\ UNCHANGED <<commands, events, verdict, asked, cancel, quitRequested>>
  BY DEF TypeOK, QueuesOK, FlushStep, Idle, handleVars, uiVars, callVars
<1>2. /\ Head(held) = held[1] /\ 1 \in DOMAIN held
      /\ \A i \in DOMAIN held' : held'[i] = held[i + 1] /\ i + 1 \in DOMAIN held
  BY <1>1
<1>3. NotClosed(out') /\ pc' # "draining"
  BY <1>1, <1>2, PerformAsked DEF AskedInv
<1> QED BY <1>1, <1>2, <1>3, BranchAsked DEF AskedInv

(* Every branch of the worker keeps AskedInv. *)
LEMMA BranchesAsked == TypeOK /\ AskedInv /\ WorkerStep => AskedInv'
<1> SUFFICES ASSUME TypeOK, AskedInv, WorkerStep, ~Emit, ~TakeCommand, ~FlushStep
             PROVE  AskedInv'
  BY EmitAsked, TakeCommandAsked, FlushStepAsked
<1> USE DEF handleVars, uiVars, callVars
<1>1. CASE Cancelled \/ TakeQuit \/ Drained
  <2>1. asked /\ UNCHANGED <<events, verdict, asked, commands, held>>
    BY <1>1 DEF AskedInv, Cancelled, TakeQuit, Drained, OnlyReports
  <2> QED BY <2>1 DEF AskedInv
<1>2. CASE Resolved \/ Opened \/ OpenFailed \/ QueueClosed \/ PaceStep \/ PacedTimer
           \/ ReadLine \/ ReadWelcome \/ ReadRefusal \/ ReadNickRejected \/ ReadFatal
           \/ ReadPong \/ StreamEnded \/ AliveDeadline \/ RegistrationTimeout
  <2>1. UNCHANGED <<events, verdict, asked, cancel, quitRequested, commands>>
    BY <1>2 DEF Resolved, Opened, OpenFailed, QueueClosed, PaceStep, PacedTimer,
                ReadLine, ReadWelcome, ReadRefusal, ReadNickRejected, ReadFatal,
                ReadPong, StreamEnded, AliveDeadline, RegistrationTimeout, OnlyReports
  <2>2. held' = held \/ held' = <<>>
    BY <1>2 DEF Resolved, Opened, OpenFailed, QueueClosed, PaceStep, PacedTimer,
                ReadLine, ReadWelcome, ReadRefusal, ReadNickRejected, ReadFatal,
                ReadPong, StreamEnded, AliveDeadline, RegistrationTimeout, OnlyReports,
                DropHeld
  <2>3. pc' = "draining" => asked
    BY <1>2 DEF AskedInv, Resolved, Opened, OpenFailed, QueueClosed, PaceStep,
                PacedTimer, ReadLine, ReadWelcome, ReadRefusal, ReadNickRejected,
                ReadFatal, ReadPong, StreamEnded, AliveDeadline, RegistrationTimeout,
                OnlyReports
  <2>4. NotClosed(out') \/ asked
    <3>1. CASE StreamEnded \/ AliveDeadline
      BY <3>1, NotClosedAfterHeld DEF StreamEnded, AliveDeadline
    <3>2. CASE PaceStep \/ PacedTimer
      BY <3>2, NotClosedReports DEF PaceStep, PacedTimer, Send, AtSelect, Idle
    <3>3. CASE Resolved \/ Opened \/ QueueClosed \/ ReadLine
               \/ ReadWelcome \/ ReadRefusal \/ ReadNickRejected \/ ReadFatal
               \/ ReadPong \/ RegistrationTimeout
      BY <3>3, NotClosedReports
         DEF Resolved, Opened, QueueClosed, ReadLine, ReadWelcome,
             ReadRefusal, ReadNickRejected, ReadFatal, ReadPong, RegistrationTimeout,
             OnlyReports
    <3>4. CASE OpenFailed
      BY <3>4, NotClosedReports, Zenon DEF OpenFailed, OnlyReports
    <3> QED BY <1>2, <3>1, <3>2, <3>3, <3>4
  <2> QED BY <2>1, <2>2, <2>3, <2>4, BranchAsked DEF AskedInv
<1> QED BY <1>1, <1>2 DEF WorkerStep

(* ClosedOnlyWhenAsked: the UI does not give up on a connection nobody     *)
(* asked to end.                                                           *)
THEOREM ClosedWasAsked == Spec => []ClosedOnlyWhenAsked
<1>1. Init => AskedInv
  BY NotClosedReports DEF Init, AskedInv, NotClosed
<1>2. TypeOK /\ AskedInv /\ [Next]_vars => AskedInv'
  <2> SUFFICES ASSUME TypeOK, AskedInv, [Next]_vars PROVE AskedInv'
    OBVIOUS
  <2>1. CASE IntervalPasses \/ NickAccepted \/ LinkDies \/ UNCHANGED vars
    BY <2>1 DEF IntervalPasses, NickAccepted, LinkDies, vars, handleVars, uiVars,
                callVars, AskedInv
  <2> QED BY <2>1, UiCallAsked, TakeEventAsked, BranchesAsked DEF Next
<1>3. TypeOK /\ AskedInv => ClosedOnlyWhenAsked
  BY DEF TypeOK, QueuesOK, AskedInv, ClosedOnlyWhenAsked, Range
<1> QED BY <1>1, <1>2, <1>3, TypeCorrect, PTL DEF Spec
-----------------------------------------------------------------------------
(* What becomes of the messages a Connection accepts: none is lost or      *)
(* written twice while the worker lives, and they are written in the order *)
(* in which they were accepted, so that a Connection is an                 *)
(* OrderedDelivery.  A worker that ends says why.                          *)

Ordered(ids) == \A i, j \in DOMAIN ids : i < j => ids[i] < ids[j]

Before(S, T) == \A a \in S, b \in T : a < b

(* A typed message is one line; only messages and pastes carry any.        *)
Carries(command) ==
    /\ command.kind = "message" => Len(command.ids) = 1
    /\ command.kind \notin {"message", "lines"} => command.ids = <<>>

QueueInOrder(queue) ==
    /\ \A i \in DOMAIN queue : Ordered(queue[i].ids) /\ Carries(queue[i])
    /\ \A i, j \in DOMAIN queue :
          i < j => Before(Range(queue[i].ids), Range(queue[j].ids))

(* Each backlog is in order, and the paced lines come before what is held, *)
(* which comes before what the worker has not taken yet.                   *)
OrderInv ==
    /\ Ordered(paced) /\ QueueInOrder(held) /\ QueueInOrder(commands)
    /\ Before(Range(paced), IdsIn(held) \cup IdsIn(commands))
    /\ Before(IdsIn(held), IdsIn(commands))
    /\ \A id \in Waiting : id < nextId

-----------------------------------------------------------------------------
(* Sequences of numbers and queues of commands. *)

LEMMA RangeOfAppend ==
  ASSUME NEW S, NEW s \in Seq(S), NEW e
  PROVE  Range(Append(s, e)) = Range(s) \cup {e}
<1>1. /\ DOMAIN Append(s, e) = 1..(Len(s) + 1) /\ DOMAIN s = 1..Len(s) /\ Len(s) \in Nat
      /\ \A i \in DOMAIN s : Append(s, e)[i] = s[i]
      /\ Append(s, e)[Len(s) + 1] = e
  OBVIOUS
<1>2. \A i \in 1..(Len(s) + 1) : i \in 1..Len(s) \/ i = Len(s) + 1
  BY <1>1
<1> HIDE <1>1
<1> QED BY <1>1, <1>2 DEF Range

LEMMA RangeOfConcat ==
  ASSUME NEW S, NEW s \in Seq(S), NEW t \in Seq(S)
  PROVE  Range(s \o t) = Range(s) \cup Range(t)
<1>1. /\ DOMAIN (s \o t) = 1..(Len(s) + Len(t)) /\ DOMAIN s = 1..Len(s)
      /\ DOMAIN t = 1..Len(t) /\ Len(s) \in Nat /\ Len(t) \in Nat
      /\ \A i \in 1..Len(s) : (s \o t)[i] = s[i]
      /\ \A i \in 1..Len(t) : (s \o t)[Len(s) + i] = t[i]
  OBVIOUS
<1>2. ASSUME NEW i \in 1..(Len(s) + Len(t))
      PROVE  (s \o t)[i] \in Range(s) \cup Range(t)
  <2>1. CASE i <= Len(s)
    BY <1>1, <2>1 DEF Range
  <2>2. CASE i > Len(s)
    <3>1. i - Len(s) \in 1..Len(t) /\ Len(s) + (i - Len(s)) = i
      BY <1>1, <2>2
    <3> QED BY <1>1, <3>1 DEF Range
  <2> QED BY <1>1, <2>1, <2>2
<1>3. \A i \in 1..Len(s) : s[i] \in Range(s \o t)
  <2>1. \A i \in 1..Len(s) : i \in 1..(Len(s) + Len(t))
    BY <1>1
  <2> QED BY <1>1, <2>1 DEF Range
<1>4. \A i \in 1..Len(t) : t[i] \in Range(s \o t)
  <2>1. \A i \in 1..Len(t) : Len(s) + i \in 1..(Len(s) + Len(t))
    BY <1>1
  <2> QED BY <1>1, <2>1 DEF Range
<1> QED BY <1>1, <1>2, <1>3, <1>4 DEF Range

(* The first element and the rest, by index.                               *)
LEMMA TailByIndex ==
  ASSUME NEW S, NEW s \in Seq(S), s # <<>>
  PROVE  /\ Head(s) = s[1] /\ 1 \in DOMAIN s
         /\ DOMAIN Tail(s) = 1..(Len(s) - 1) /\ DOMAIN s = 1..Len(s) /\ Len(s) \in Nat
         /\ \A i \in DOMAIN Tail(s) : Tail(s)[i] = s[i + 1] /\ i + 1 \in DOMAIN s
         /\ \A i \in DOMAIN s : i = 1 \/ (i - 1 \in DOMAIN Tail(s) /\ Tail(s)[i - 1] = s[i])
  OBVIOUS

LEMMA RangeOfTail ==
  ASSUME NEW S, NEW s \in Seq(S), s # <<>>
  PROVE  Range(s) = {Head(s)} \cup Range(Tail(s))
<1>1. ASSUME NEW i \in DOMAIN s
      PROVE  s[i] \in {Head(s)} \cup Range(Tail(s))
  <2>1. i = 1 \/ (i - 1 \in DOMAIN Tail(s) /\ Tail(s)[i - 1] = s[i])
    BY TailByIndex
  <2> QED BY <2>1, TailByIndex DEF Range
<1>2. ASSUME NEW i \in DOMAIN Tail(s)
      PROVE  Tail(s)[i] \in Range(s)
  <2>1. Tail(s)[i] = s[i + 1] /\ i + 1 \in DOMAIN s
    BY TailByIndex
  <2> QED BY <2>1 DEF Range
<1>3. Head(s) \in Range(s)
  BY TailByIndex DEF Range
<1> QED BY <1>1, <1>2, <1>3 DEF Range

LEMMA OrderedTail ==
  ASSUME NEW s \in Seq(Nat), s # <<>>, Ordered(s)
  PROVE  /\ Ordered(Tail(s)) /\ Head(s) \in Nat
         /\ \A id \in Range(Tail(s)) : Head(s) < id
<1>1. Ordered(Tail(s))
  BY TailByIndex DEF Ordered
<1>2. \A i \in DOMAIN Tail(s) : Head(s) < Tail(s)[i]
  <2>1. \A i \in DOMAIN Tail(s) : 1 < i + 1
    BY TailByIndex
  <2> QED BY <2>1, TailByIndex DEF Ordered
<1> QED BY <1>1, <1>2 DEF Range

LEMMA OrderedConcat ==
  ASSUME NEW s \in Seq(Nat), NEW t \in Seq(Nat), Ordered(s), Ordered(t),
         Before(Range(s), Range(t))
  PROVE  Ordered(s \o t)
<1>1. /\ DOMAIN (s \o t) = 1..(Len(s) + Len(t)) /\ DOMAIN s = 1..Len(s)
      /\ DOMAIN t = 1..Len(t) /\ Len(s) \in Nat /\ Len(t) \in Nat
      /\ \A i \in 1..Len(s) : (s \o t)[i] = s[i]
      /\ \A i \in 1..(Len(s) + Len(t)) :
            i > Len(s) => i - Len(s) \in 1..Len(t) /\ (s \o t)[i] = t[i - Len(s)]
  OBVIOUS
<1> SUFFICES ASSUME NEW i \in 1..(Len(s) + Len(t)), NEW j \in 1..(Len(s) + Len(t)), i < j
             PROVE  (s \o t)[i] < (s \o t)[j]
  BY <1>1 DEF Ordered
<1>2. CASE j <= Len(s)
  BY <1>1, <1>2 DEF Ordered
<1>3. CASE i > Len(s)
  <2>1. i - Len(s) < j - Len(s) /\ j > Len(s)
    BY <1>1, <1>3
  <2> QED BY <1>1, <1>3, <2>1 DEF Ordered
<1>4. CASE i <= Len(s) /\ j > Len(s)
  <2>1. i \in DOMAIN s /\ j - Len(s) \in DOMAIN t
    BY <1>1, <1>4
  <2>2. s[i] \in Range(s) /\ t[j - Len(s)] \in Range(t)
    BY <2>1 DEF Range
  <2> QED BY <1>1, <1>4, <2>2 DEF Before
<1> QED BY <1>1, <1>2, <1>3, <1>4

LEMMA IdsOfAppend ==
  ASSUME NEW queue \in Seq(Commands), NEW command
  PROVE  IdsIn(Append(queue, command)) = IdsIn(queue) \cup Range(command.ids)
<1> DEFINE longer == Append(queue, command)
<1>1. /\ DOMAIN longer = 1..(Len(queue) + 1) /\ DOMAIN queue = 1..Len(queue)
      /\ Len(queue) \in Nat
      /\ \A i \in DOMAIN queue : longer[i] = queue[i] /\ i \in DOMAIN longer
      /\ longer[Len(queue) + 1] = command /\ Len(queue) + 1 \in DOMAIN longer
      /\ \A i \in DOMAIN longer : i \in DOMAIN queue \/ i = Len(queue) + 1
  OBVIOUS
<1> HIDE DEF longer
<1>2. \A id : id \in IdsIn(longer) <=> \E i \in DOMAIN longer : id \in Range(longer[i].ids)
  BY DEF IdsIn
<1>3. \A id : id \in IdsIn(queue) <=> \E i \in DOMAIN queue : id \in Range(queue[i].ids)
  BY DEF IdsIn
<1>4. \A id : id \in IdsIn(longer) <=> id \in IdsIn(queue) \/ id \in Range(command.ids)
  BY <1>1, <1>2, <1>3
<1> QED BY <1>4 DEF longer

LEMMA IdsOfTail ==
  ASSUME NEW queue \in Seq(Commands), queue # <<>>
  PROVE  IdsIn(queue) = Range(Head(queue).ids) \cup IdsIn(Tail(queue))
<1>1. \A id : id \in IdsIn(queue) <=> \E i \in DOMAIN queue : id \in Range(queue[i].ids)
  BY DEF IdsIn
<1>2. \A id : id \in IdsIn(Tail(queue))
                <=> \E i \in DOMAIN Tail(queue) : id \in Range(Tail(queue)[i].ids)
  BY DEF IdsIn
<1>3. ASSUME NEW id \in IdsIn(queue)
      PROVE  id \in Range(Head(queue).ids) \/ id \in IdsIn(Tail(queue))
  <2>1. PICK i \in DOMAIN queue : id \in Range(queue[i].ids)
    BY <1>1
  <2>2. i = 1 \/ (i - 1 \in DOMAIN Tail(queue) /\ Tail(queue)[i - 1] = queue[i])
    BY TailByIndex
  <2> QED BY <1>2, <2>1, <2>2, TailByIndex
<1>4. ASSUME NEW id, id \in IdsIn(Tail(queue))
      PROVE  id \in IdsIn(queue)
  <2>1. PICK i \in DOMAIN Tail(queue) : id \in Range(Tail(queue)[i].ids)
    BY <1>2, <1>4
  <2>2. Tail(queue)[i] = queue[i + 1] /\ i + 1 \in DOMAIN queue
    BY TailByIndex
  <2> QED BY <1>1, <2>1, <2>2
<1>5. ASSUME NEW id, id \in Range(Head(queue).ids)
      PROVE  id \in IdsIn(queue)
  BY <1>1, <1>5, TailByIndex
<1> QED BY <1>3, <1>4, <1>5

LEMMA NoIds == IdsIn(<<>>) = {} /\ Range(<<>>) = {} /\ QueueInOrder(<<>>) /\ Ordered(<<>>)
  BY DEF IdsIn, Range, QueueInOrder, Ordered

LEMMA QueueInOrderTail ==
  ASSUME NEW queue \in Seq(Commands), queue # <<>>, QueueInOrder(queue)
  PROVE  /\ QueueInOrder(Tail(queue))
         /\ Ordered(Head(queue).ids) /\ Carries(Head(queue))
         /\ Before(Range(Head(queue).ids), IdsIn(Tail(queue)))
<1>1. QueueInOrder(Tail(queue))
  BY TailByIndex DEF QueueInOrder
<1>2. Ordered(Head(queue).ids) /\ Carries(Head(queue))
  BY TailByIndex DEF QueueInOrder
<1>3. ASSUME NEW i \in DOMAIN Tail(queue)
      PROVE  Before(Range(Head(queue).ids), Range(Tail(queue)[i].ids))
  <2>1. 1 < i + 1
    BY TailByIndex
  <2> QED BY <2>1, TailByIndex DEF QueueInOrder
<1>4. \A id \in IdsIn(Tail(queue)) :
         \E i \in DOMAIN Tail(queue) : id \in Range(Tail(queue)[i].ids)
  BY DEF IdsIn
<1> QED BY <1>1, <1>2, <1>3, <1>4 DEF Before

LEMMA QueueInOrderAppend ==
  ASSUME NEW queue \in Seq(Commands), QueueInOrder(queue), NEW command,
         Ordered(command.ids), Carries(command), Before(IdsIn(queue), Range(command.ids))
  PROVE  QueueInOrder(Append(queue, command))
<1> DEFINE longer == Append(queue, command)
<1>1. /\ DOMAIN longer = 1..(Len(queue) + 1) /\ DOMAIN queue = 1..Len(queue)
      /\ Len(queue) \in Nat
      /\ \A i \in DOMAIN queue : longer[i] = queue[i]
      /\ longer[Len(queue) + 1] = command
      /\ \A i \in DOMAIN longer : i \in DOMAIN queue \/ i = Len(queue) + 1
  OBVIOUS
<1> HIDE DEF longer
<1>2. \A i \in DOMAIN queue : Range(queue[i].ids) \subseteq IdsIn(queue)
  BY DEF IdsIn
<1>3. ASSUME NEW i \in DOMAIN longer, NEW j \in DOMAIN longer, i < j
      PROVE  Before(Range(longer[i].ids), Range(longer[j].ids))
  <2>1. i \in DOMAIN queue
    BY <1>1, <1>3
  <2>2. CASE j \in DOMAIN queue
    BY <1>1, <1>3, <2>1, <2>2 DEF QueueInOrder
  <2>3. CASE j = Len(queue) + 1
    BY <1>1, <1>2, <2>1, <2>3 DEF Before
  <2> QED BY <1>1, <2>2, <2>3
<1>4. \A i \in DOMAIN longer : Ordered(longer[i].ids) /\ Carries(longer[i])
  BY <1>1 DEF QueueInOrder
<1> QED BY <1>3, <1>4 DEF QueueInOrder, longer

-----------------------------------------------------------------------------
(* What a step does to the messages. *)

(* The next k numbers arrive. *)
Accepts(k) ==
    /\ k = 0 \/ nextId + k <= MaxIds + 1
    /\ nextId' = nextId + k
    /\ Waiting' = Waiting \cup nextId..(nextId + k - 1)
    /\ UNCHANGED <<written, refused>>

(* Of what waits, the oldest message is written or some are refused. *)
Settles(waiting, left) ==
    \/ \E id \in waiting :
          /\ \A other \in waiting : id <= other
          /\ left = waiting \ {id}
          /\ written' = Append(written, id) /\ UNCHANGED refused
    \/ \E ids \in SUBSET waiting :
          /\ left = waiting \ ids
          /\ refused' = refused \cup ids /\ UNCHANGED written

(* All that a step may do to the messages.                                 *)
MessageStep ==
    \/ \E k \in Nat : Accepts(k)
    \/ UNCHANGED nextId /\ Settles(Waiting, Waiting')

messageVars == <<commands, held, paced, written, refused, nextId>>

(* A command put into the queue: the handle numbers its k messages.        *)
Arrives(k) ==
    /\ k = 0 \/ nextId + k <= MaxIds + 1
    /\ nextId' = nextId + k
    /\ \E kind \in Kinds :
          LET command == Command(kind, [i \in 1..k |-> nextId + i - 1]) IN
          Carries(command) /\ commands' = Append(commands, command)
    /\ UNCHANGED <<held, paced, written, refused>>

(* What Perform makes of the messages of a command.                        *)
Performed(command) ==
    \/ refused' = refused \cup Range(command.ids) /\ UNCHANGED <<paced, written>>
    \/ paced' = paced \o command.ids /\ UNCHANGED <<written, refused>>
    \/ /\ paced = <<>>
       /\ \E id : command.ids = <<id>> /\ written' = Append(written, id)
       /\ UNCHANGED <<paced, refused>>

(* Perform, of a command that carries what it should.                      *)
LEMMA PerformMessages ==
  ASSUME TypeOK, NEW command \in Commands, Carries(command), Perform(command)
  PROVE  Performed(command)
<1>1. command.ids \in Seq(Nat) /\ paced \in Seq(Nat)
  BY DEF Commands, TypeOK, QueuesOK
<1>2. CASE QueueLines(command.ids)
  BY <1>2 DEF QueueLines, Performed, paceVars
<1>3. CASE command.kind = "message" /\ paced = <<>> /\ Send(command.ids[1])
           /\ UNCHANGED paced
  <2>1. command.ids = <<command.ids[1]>> /\ Range(command.ids) = {command.ids[1]}
    <3>1. Len(command.ids) = 1
      BY <1>3 DEF Carries
    <3>2. command.ids = <<command.ids[1]>> /\ DOMAIN command.ids = {1}
      BY <1>1, <3>1
    <3> QED BY <3>2 DEF Range
  <2> QED BY <1>3, <2>1 DEF Send, Performed
<1>4. CASE command.kind \notin {"message", "lines"} /\ UNCHANGED <<paced, written, refused>>
  <2>1. Range(command.ids) = {}
    BY <1>4, NoIds DEF Carries
  <2> QED BY <1>4, <2>1 DEF Performed
<1> QED BY <1>2, <1>3, <1>4 DEF Perform, paceVars

-----------------------------------------------------------------------------
(* The steps one by one. *)

LEMMA BeforeIsApart ==
  ASSUME NEW S \in SUBSET Nat, NEW T, Before(S, T)
  PROVE  S \cap T = {}
<1>1. \A a \in S : ~(a < a)
  OBVIOUS
<1> QED BY <1>1 DEF Before

(* The numbers of an arriving command are new, in order and the next ones. *)
LEMMA NewIds ==
  ASSUME NEW n \in Nat, NEW k \in Nat
  PROVE  LET ids == [i \in 1..k |-> n + i - 1] IN
         ids \in Seq(Nat) /\ Ordered(ids) /\ Range(ids) = n..(n + k - 1)
<1> DEFINE ids == [i \in 1..k |-> n + i - 1]
<1>1. /\ DOMAIN ids = 1..k /\ \A i \in 1..k : ids[i] = n + i - 1
      /\ ids \in Seq(Nat)
  OBVIOUS
<1> HIDE DEF ids
<1>2. Ordered(ids)
  BY <1>1 DEF Ordered
<1>3. \A id \in n..(n + k - 1) : id - n + 1 \in 1..k /\ ids[id - n + 1] = id
  BY <1>1
<1>4. \A i \in 1..k : ids[i] \in n..(n + k - 1)
  BY <1>1
<1>5. Range(ids) = n..(n + k - 1)
  BY <1>1, <1>3, <1>4 DEF Range
<1> QED BY <1>1, <1>2, <1>5 DEF ids

(* The head of a queue is performed.  What comes later keeps its order, and *)
(* of what waits nothing is gone that is not written, as the first, or     *)
(* refused.                                                                *)
LEMMA HeadPerformed ==
  ASSUME NEW queue \in Seq(Commands), queue # <<>>, QueueInOrder(queue),
         paced \in Seq(Nat), Ordered(paced),
         NEW later \in SUBSET Nat, Before(IdsIn(queue), later),
         Before(Range(paced), IdsIn(queue) \cup later),
         Performed(Head(queue))
  PROVE  LET waiting == Range(paced) \cup IdsIn(queue) \cup later
             rest == IdsIn(Tail(queue)) \cup later
             left == Range(paced') \cup rest
         IN  /\ Ordered(paced') /\ Before(Range(paced'), rest)
             /\ Settles(waiting, left)
<1> DEFINE mine == Head(queue).ids
           rest == IdsIn(Tail(queue)) \cup later
           waiting == Range(paced) \cup IdsIn(queue) \cup later
<1>1. /\ IdsIn(queue) = Range(mine) \cup IdsIn(Tail(queue))
      /\ Ordered(mine) /\ Before(Range(mine), IdsIn(Tail(queue)))
      /\ mine \in Seq(Nat) /\ Range(mine) \subseteq Nat /\ Tail(queue) \in Seq(Commands)
      /\ IdsIn(Tail(queue)) \subseteq Nat /\ Range(paced) \subseteq Nat
  <2>1. Head(queue) \in Commands /\ Tail(queue) \in Seq(Commands)
    BY HeadAndTail
  <2>2. Range(paced) \subseteq Nat
    BY DEF Range
  <2> QED BY <2>1, <2>2, IdsOfTail, QueueInOrderTail, CommandIds, QueueIds
<1>2. /\ Performed(Head(queue)) <=>
           \/ refused' = refused \cup Range(mine) /\ UNCHANGED <<paced, written>>
           \/ paced' = paced \o mine /\ UNCHANGED <<written, refused>>
           \/ /\ paced = <<>>
              /\ \E id : mine = <<id>> /\ written' = Append(written, id)
              /\ UNCHANGED <<paced, refused>>
  BY DEF Performed
<1> HIDE DEF mine
<1>3. /\ Before(Range(mine), rest) /\ Before(Range(paced), rest)
      /\ Before(Range(paced), Range(mine))
      /\ waiting = Range(paced) \cup Range(mine) \cup rest
  BY <1>1 DEF Before
<1>4. Range(mine) \cap (Range(paced) \cup rest) = {}
  BY <1>1, <1>3, BeforeIsApart
<1> HIDE DEF rest, waiting
<1>5. CASE refused' = refused \cup Range(mine) /\ UNCHANGED <<paced, written>>
  <2>1. Range(mine) \in SUBSET waiting /\ Range(paced') \cup rest = waiting \ Range(mine)
    BY <1>3, <1>4, <1>5
  <2>2. Settles(waiting, Range(paced') \cup rest)
    BY <1>5, <2>1 DEF Settles
  <2> QED BY <1>3, <1>5, <2>2 DEF rest, waiting
<1>6. CASE paced' = paced \o mine /\ UNCHANGED <<written, refused>>
  <2>1. Range(paced') = Range(paced) \cup Range(mine)
    BY <1>1, <1>6, RangeOfConcat
  <2>2. Ordered(paced')
    BY <1>1, <1>3, <1>6, OrderedConcat
  <2>3. Before(Range(paced'), rest) /\ Range(paced') \cup rest = waiting
    BY <1>3, <2>1 DEF Before
  <2>4. Range(paced') \cup rest = waiting \ {} /\ refused' = refused \cup {}
    BY <1>6, <2>3
  <2>5. {} \in SUBSET waiting
    OBVIOUS
  <2>6. Settles(waiting, Range(paced') \cup rest)
    BY <1>6, <2>4, <2>5, Zenon DEF Settles
  <2> QED BY <2>2, <2>3, <2>6 DEF rest, waiting
<1>7. ASSUME paced = <<>>, NEW id, mine = <<id>>, written' = Append(written, id),
             UNCHANGED <<paced, refused>>
      PROVE  /\ Ordered(paced') /\ Before(Range(paced'), rest)
             /\ Settles(waiting, Range(paced') \cup rest)
  <2>1. Range(mine) = {id} /\ Range(paced) = {} /\ id \in Nat
    <3>1. DOMAIN <<id>> = {1} /\ <<id>>[1] = id
      OBVIOUS
    <3>2. Range(mine) = {id} /\ Range(paced) = {}
      BY <1>7, <3>1, NoIds DEF Range
    <3> QED BY <1>1, <3>2
  <2>2. ASSUME NEW other \in waiting PROVE id <= other
    <3>1. CASE other = id
      BY <2>1, <3>1
    <3>2. CASE other \in rest
      <4>1. id < other /\ other \in Nat
        BY <1>1, <1>3, <2>1, <3>2 DEF Before, rest
      <4> QED BY <2>1, <4>1
    <3> QED BY <1>3, <2>1, <3>1, <3>2
  <2>3. id \in waiting /\ Range(paced') \cup rest = waiting \ {id}
    BY <1>3, <1>4, <1>7, <2>1
  <2>4. Settles(waiting, Range(paced') \cup rest)
    BY <1>7, <2>2, <2>3 DEF Settles
  <2> QED BY <1>3, <1>7, <2>4
<1> QED BY <1>2, <1>5, <1>6, <1>7 DEF rest, waiting

(* Each call that submits a command lets it arrive.                        *)
LEMMA CallArrives ==
  ASSUME TypeOK,
         SendMessage \/ SendLines \/ ChangeNickname \/ SendCommand \/ CheckAlive
           \/ QuitCommand \/ (Disconnect /\ commands' # commands)
  PROVE  \E k \in Nat : Arrives(k)
<1> USE DEF workerVars, paceVars
<1>1. nextId \in Nat
  BY DEF TypeOK, CountersOK
<1>2. ASSUME NEW op \in {"message", "lines"}, NEW k \in Nat, op = "message" => k = 1,
             Submit(op, k)
      PROVE  Arrives(k)
  <2> DEFINE ids == [i \in 1..k |-> nextId + i - 1]
  <2>1. Len(ids) = k
    OBVIOUS
  <2>2. Carries(Command(op, ids)) /\ op \in Kinds
    BY <1>2, <2>1 DEF Carries, Command, Kinds
  <2> HIDE DEF ids
  <2>3. /\ nextId + k <= MaxIds + 1 /\ nextId' = nextId + k
        /\ commands' = Append(commands, Command(op, ids))
        /\ UNCHANGED <<held, paced, written, refused>>
    BY <1>2 DEF Submit, Enqueue, ids
  <2> QED BY <2>2, <2>3 DEF Arrives, ids
<1>3. ASSUME NEW op \in Kinds \ {"message", "lines"}, Enqueue(Command(op, <<>>)),
             UNCHANGED <<held, paced, written, refused, nextId>>
      PROVE  Arrives(0)
  <2> DEFINE ids == [i \in 1..0 |-> nextId + i - 1]
  <2>1. ids = <<>>
    OBVIOUS
  <2>2. Carries(Command(op, ids)) /\ op \in Kinds
    BY <2>1 DEF Carries, Command
  <2> HIDE DEF ids
  <2>3. nextId' = nextId + 0
    BY <1>1, <1>3
  <2>4. commands' = Append(commands, Command(op, ids))
    BY <1>3, <2>1 DEF Enqueue
  <2> QED BY <1>3, <2>2, <2>3, <2>4 DEF Arrives, ids
<1>4. CASE SendMessage
  BY <1>2, <1>4 DEF SendMessage
<1>5. CASE SendLines
  BY <1>2, <1>5, ConnectionAssumption DEF SendLines
<1>6. CASE ChangeNickname \/ SendCommand \/ CheckAlive
  BY <1>3, <1>6 DEF ChangeNickname, SendCommand, CheckAlive, SubmitOther, Kinds
<1>7. CASE QuitCommand \/ (Disconnect /\ commands' # commands)
  BY <1>3, <1>7 DEF QuitCommand, Disconnect, Kinds
<1> QED BY <1>4, <1>5, <1>6, <1>7

(* Only these steps move a message. *)
LEMMA MovingSteps ==
  ASSUME TypeOK, [Next]_vars
  PROVE  \/ \E k \in Nat : Arrives(k)
         \/ TakeCommand \/ FlushStep \/ PaceStep
         \/ DropHeld /\ UNCHANGED <<commands, paced, written, nextId>>
         \/ UNCHANGED messageVars
<1> USE DEF messageVars, paceVars, callVars, workerVars
<1>1. CASE SendMessage \/ SendLines \/ ChangeNickname \/ SendCommand \/ CheckAlive
             \/ QuitCommand \/ (Disconnect /\ commands' # commands)
  BY <1>1, CallArrives
<1>2. CASE (Disconnect /\ commands' = commands) \/ Shutdown \/ Sleep \/ DropHandle
             \/ DropReceiver \/ TakeEvent \/ IntervalPasses \/ NickAccepted \/ LinkDies
             \/ UNCHANGED vars
  BY <1>2 DEF Disconnect, Shutdown, Sleep, DropHandle, DropReceiver, TakeEvent,
              IntervalPasses, NickAccepted, LinkDies, vars
<1>3. CASE StreamEnded \/ AliveDeadline
  BY <1>3 DEF StreamEnded, AliveDeadline
<1>4. CASE Emit \/ Resolved \/ Opened \/ OpenFailed \/ Cancelled \/ PacedTimer \/ TakeQuit
           \/ QueueClosed \/ Drained \/ ReadLine \/ ReadWelcome \/ ReadRefusal
           \/ ReadNickRejected \/ ReadFatal \/ ReadPong \/ RegistrationTimeout
  BY <1>4 DEF Emit, Resolved, Opened, OpenFailed, Cancelled, PacedTimer, TakeQuit,
              QueueClosed, Drained, ReadLine, ReadWelcome, ReadRefusal,
              ReadNickRejected, ReadFatal, ReadPong, RegistrationTimeout, OnlyReports
<1> QED BY <1>1, <1>2, <1>3, <1>4 DEF Next, UiCall, WorkerStep

(* A command that arrives comes after everything. *)
LEMMA ArrivesOrder ==
  ASSUME TypeOK, OrderInv, NEW k \in Nat, Arrives(k)
  PROVE  OrderInv' /\ Accepts(k)
<1> DEFINE ids == [i \in 1..k |-> nextId + i - 1]
<1>1. /\ nextId \in Nat /\ commands \in Seq(Commands) /\ held \in Seq(Commands)
      /\ paced \in Seq(Nat)
  BY DEF TypeOK, CountersOK, QueuesOK
<1>2. PICK kind \in Kinds : /\ Carries(Command(kind, ids))
                            /\ commands' = Append(commands, Command(kind, ids))
  BY DEF Arrives
<1>3. ids \in Seq(Nat) /\ Ordered(ids) /\ Range(ids) = nextId..(nextId + k - 1)
  BY <1>1, NewIds
<1> HIDE DEF ids
<1>4. /\ k = 0 \/ nextId + k <= MaxIds + 1
      /\ nextId' = nextId + k /\ UNCHANGED <<held, paced, written, refused>>
  BY DEF Arrives
<1>5. Command(kind, ids).ids = ids
  BY DEF Command
<1>6. IdsIn(commands') = IdsIn(commands) \cup Range(ids)
  BY <1>1, <1>2, <1>5, IdsOfAppend
<1>7. /\ IdsIn(commands) \subseteq Nat /\ IdsIn(held) \subseteq Nat
      /\ Range(paced) \subseteq Nat
  BY <1>1, QueueIds DEF Range
<1>8. /\ \A id \in IdsIn(commands) \cup IdsIn(held) \cup Range(paced) : id < nextId
      /\ QueueInOrder(commands)
  BY DEF OrderInv, Waiting
<1>9. Before(IdsIn(commands) \cup IdsIn(held) \cup Range(paced), Range(ids))
  BY <1>1, <1>3, <1>7, <1>8 DEF Before
<1>10. QueueInOrder(commands')
  <2>1. Before(IdsIn(commands), Range(ids))
    BY <1>9 DEF Before
  <2> QED BY <1>1, <1>2, <1>3, <1>5, <1>8, <2>1, QueueInOrderAppend
<1>11. Waiting' = Waiting \cup nextId..(nextId + k - 1)
  BY <1>3, <1>4, <1>6 DEF Waiting
<1>12. \A id \in Waiting' : id < nextId'
  BY <1>1, <1>4, <1>7, <1>8, <1>11 DEF Waiting
<1>13. /\ Before(Range(paced), IdsIn(held) \cup IdsIn(commands'))
       /\ Before(IdsIn(held), IdsIn(commands'))
  BY <1>6, <1>9 DEF OrderInv, Before
<1> QED BY <1>4, <1>10, <1>11, <1>12, <1>13 DEF OrderInv, Accepts

(* A held command is performed. *)
LEMMA FlushOrder ==
  ASSUME TypeOK, OrderInv, FlushStep
  PROVE  OrderInv' /\ MessageStep
<1>1. /\ nextId \in Nat /\ commands \in Seq(Commands) /\ held \in Seq(Commands)
      /\ paced \in Seq(Nat) /\ held # <<>> /\ Head(held) \in Commands
      /\ held' = Tail(held) /\ UNCHANGED <<commands, nextId>>
      /\ Perform(Head(held))
  BY HeadAndTail DEF TypeOK, CountersOK, QueuesOK, FlushStep, callVars
<1>2. QueueInOrder(Tail(held)) /\ Carries(Head(held))
  BY <1>1, QueueInOrderTail DEF OrderInv
<1>3. Performed(Head(held))
  BY <1>1, <1>2, PerformMessages
<1>4. IdsIn(commands) \in SUBSET Nat
  BY <1>1, QueueIds
<1>5. IdsIn(Tail(held)) \subseteq IdsIn(held)
  BY <1>1, IdsOfTail
<1>6. /\ Ordered(paced') /\ Before(Range(paced'), IdsIn(Tail(held)) \cup IdsIn(commands))
      /\ Settles(Range(paced) \cup IdsIn(held) \cup IdsIn(commands),
                 Range(paced') \cup (IdsIn(Tail(held)) \cup IdsIn(commands)))
  <2>1. /\ QueueInOrder(held) /\ Ordered(paced) /\ Before(IdsIn(held), IdsIn(commands))
        /\ Before(Range(paced), IdsIn(held) \cup IdsIn(commands))
    BY DEF OrderInv
  <2> QED BY <1>1, <1>3, <1>4, <2>1, HeadPerformed
<1>7. /\ Waiting = Range(paced) \cup IdsIn(held) \cup IdsIn(commands)
      /\ Waiting' = Range(paced') \cup (IdsIn(Tail(held)) \cup IdsIn(commands))
  BY <1>1 DEF Waiting
<1>8. MessageStep
  BY <1>1, <1>6, <1>7 DEF MessageStep
<1>9. \A id \in Waiting' : id \in Waiting
  BY <1>6, <1>7 DEF Settles
<1>10. Before(IdsIn(Tail(held)), IdsIn(commands))
  BY <1>5 DEF OrderInv, Before
<1> QED BY <1>1, <1>2, <1>6, <1>8, <1>9, <1>10 DEF OrderInv

(* A step that moves no message. *)
LEMMA SameMessages ==
  ASSUME OrderInv, UNCHANGED <<nextId, written, refused, paced>>,
         IdsIn(held') \cup IdsIn(commands') = IdsIn(held) \cup IdsIn(commands),
         QueueInOrder(held'), QueueInOrder(commands'),
         Before(IdsIn(held'), IdsIn(commands'))
  PROVE  OrderInv' /\ MessageStep
<1>1. Waiting' = Waiting
  BY DEF Waiting
<1>2. {} \in SUBSET Waiting /\ Waiting' = Waiting \ {} /\ refused' = refused \cup {}
  BY <1>1
<1>3. MessageStep
  BY <1>2, Zenon DEF MessageStep, Settles
<1>4. Before(Range(paced'), IdsIn(held') \cup IdsIn(commands'))
  BY DEF OrderInv
<1> QED BY <1>1, <1>3, <1>4 DEF OrderInv

(* A command is taken from the queue: looked at, held or performed. *)
LEMMA TakeOrder ==
  ASSUME TypeOK, OrderInv, TakeCommand
  PROVE  OrderInv' /\ MessageStep
<1> DEFINE command == Head(commands)
           rest == Tail(commands)
<1>1. /\ nextId \in Nat /\ commands \in Seq(Commands) /\ held \in Seq(Commands)
      /\ paced \in Seq(Nat) /\ commands # <<>> /\ command \in Commands
      /\ rest \in Seq(Commands) /\ commands' = rest /\ nextId' = nextId
  BY HeadAndTail DEF TypeOK, CountersOK, QueuesOK, TakeCommand, callVars
<1>2. /\ IdsIn(commands) = Range(command.ids) \cup IdsIn(rest)
      /\ QueueInOrder(rest) /\ Ordered(command.ids) /\ Carries(command)
      /\ Before(Range(command.ids), IdsIn(rest))
  BY <1>1, IdsOfTail, QueueInOrderTail DEF OrderInv
<1>3. /\ QueueInOrder(held) /\ QueueInOrder(commands) /\ Ordered(paced)
      /\ Before(IdsIn(held), IdsIn(commands))
      /\ Before(Range(paced), IdsIn(held) \cup IdsIn(commands))
      /\ \A id \in Waiting : id < nextId
  BY DEF OrderInv
<1>4. \/ command.kind = "check" /\ StartAliveCheck
      \/ Hold(command)
      \/ command.kind = "quit" /\ Perform(command) /\ UNCHANGED held
      \/ ~aliveCheck /\ Perform(command) /\ UNCHANGED held
  BY DEF TakeCommand
<1>5. aliveCheck \/ held = <<>>
  BY DEF TakeCommand, AtSelect
<1> HIDE DEF command, rest
<1>6. Before(IdsIn(held), IdsIn(rest))
  BY <1>2, <1>3 DEF Before
<1>7. ASSUME command.kind \notin {"message", "lines"}, UNCHANGED <<held, paced, written, refused>>
      PROVE  OrderInv' /\ MessageStep
  <2>1. IdsIn(commands') = IdsIn(commands)
    BY <1>1, <1>2, <1>7, NoIds DEF Carries
  <2> QED BY <1>1, <1>2, <1>3, <1>6, <1>7, <2>1, SameMessages
<1>8. CASE command.kind = "check" /\ StartAliveCheck
  BY <1>7, <1>8 DEF StartAliveCheck, paceVars
<1>9. CASE command.kind = "quit" /\ Perform(command) /\ UNCHANGED held
  BY <1>7, <1>9 DEF Perform, paceVars
<1>10. CASE Hold(command) /\ held' = Append(held, command)
  <2>1. UNCHANGED <<paced, written, refused>>
    <3>1. Len(held) \in Nat /\ held' # held
      BY <1>1, <1>10
    <3> QED BY <1>10, <3>1 DEF Hold, paceVars
  <2>2. IdsIn(held') = IdsIn(held) \cup Range(command.ids)
    BY <1>1, <1>10, IdsOfAppend
  <2>3. Before(IdsIn(held), Range(command.ids))
    BY <1>2, <1>3 DEF Before
  <2>4. QueueInOrder(held')
    BY <1>1, <1>2, <1>3, <1>10, <2>3, QueueInOrderAppend
  <2>5. Before(IdsIn(held'), IdsIn(commands'))
    BY <1>1, <1>2, <1>6, <2>2 DEF Before
  <2>6. IdsIn(held') \cup IdsIn(commands') = IdsIn(held) \cup IdsIn(commands)
    BY <1>1, <1>2, <2>2
  <2> QED BY <1>1, <1>2, <2>1, <2>4, <2>5, <2>6, SameMessages
<1>11. CASE Hold(command) /\ held' # Append(held, command)
  <2>1. refused' = refused \cup Range(command.ids) /\ UNCHANGED <<held, paced, written>>
    BY <1>11 DEF Hold, paceVars
  <2>2. /\ IdsIn(commands) \subseteq Nat /\ IdsIn(held) \subseteq Nat
        /\ Range(paced) \subseteq Nat
    BY <1>1, QueueIds DEF Range
  <2>3. Range(command.ids) \cap (Range(paced) \cup IdsIn(held) \cup IdsIn(rest)) = {}
    <3>1. /\ Range(command.ids) \cap IdsIn(rest) = {}
          /\ Range(paced) \cap Range(command.ids) = {}
          /\ IdsIn(held) \cap Range(command.ids) = {}
      <4>1. /\ Before(Range(paced), Range(command.ids))
            /\ Before(IdsIn(held), Range(command.ids))
        BY <1>2, <1>3 DEF Before
      <4> QED BY <1>2, <2>2, <4>1, BeforeIsApart
    <3> QED BY <3>1
  <2>4. /\ Range(command.ids) \in SUBSET Waiting
        /\ Waiting' = Waiting \ Range(command.ids)
    BY <1>1, <1>2, <2>1, <2>3 DEF Waiting
  <2>5. MessageStep
    BY <1>1, <2>1, <2>4 DEF MessageStep, Settles
  <2>6. Before(Range(paced), IdsIn(held) \cup IdsIn(rest))
    BY <1>2, <1>3 DEF Before
  <2> QED BY <1>1, <1>2, <1>3, <1>6, <2>1, <2>4, <2>5, <2>6 DEF OrderInv
<1>12. CASE held = <<>> /\ Perform(command) /\ UNCHANGED held
  <2>1. Performed(command)
    BY <1>1, <1>2, <1>12, PerformMessages
  <2>2. IdsIn(held) = {} /\ {} \in SUBSET Nat
    BY <1>12, NoIds
  <2>3. Before(IdsIn(commands), {}) /\ Before(Range(paced), IdsIn(commands) \cup {})
    BY <1>3, <2>2 DEF Before
  <2>4. /\ Ordered(paced') /\ Before(Range(paced'), IdsIn(rest) \cup {})
        /\ Settles(Range(paced) \cup IdsIn(commands) \cup {},
                   Range(paced') \cup (IdsIn(rest) \cup {}))
    BY <1>1, <1>3, <2>1, <2>2, <2>3, HeadPerformed DEF command, rest
  <2>5. /\ Waiting = Range(paced) \cup IdsIn(commands) \cup {}
        /\ Waiting' = Range(paced') \cup (IdsIn(rest) \cup {})
    BY <1>1, <1>12, <2>2 DEF Waiting
  <2>6. MessageStep
    BY <1>1, <2>4, <2>5 DEF MessageStep
  <2>7. \A id \in Waiting' : id \in Waiting
    BY <2>4, <2>5 DEF Settles
  <2>8. Before(Range(paced'), IdsIn(held') \cup IdsIn(commands'))
    BY <1>1, <1>12, <2>2, <2>4 DEF Before
  <2> QED BY <1>1, <1>2, <1>3, <1>6, <1>12, <2>4, <2>6, <2>7, <2>8 DEF OrderInv
<1> QED BY <1>4, <1>5, <1>8, <1>9, <1>10, <1>11, <1>12

(* The loop of send_paced writes, or fails to write, the first paced line. *)
LEMMA PaceOrder ==
  ASSUME TypeOK, OrderInv, PaceStep
  PROVE  OrderInv' /\ MessageStep
<1>1. /\ nextId \in Nat /\ commands \in Seq(Commands) /\ held \in Seq(Commands)
      /\ paced \in Seq(Nat) /\ UNCHANGED <<commands, held, nextId>>
  BY DEF TypeOK, CountersOK, QueuesOK, PaceStep, callVars
<1>2. /\ QueueInOrder(held) /\ QueueInOrder(commands) /\ Ordered(paced)
      /\ Before(IdsIn(held), IdsIn(commands))
      /\ Before(Range(paced), IdsIn(held) \cup IdsIn(commands))
      /\ \A id \in Waiting : id < nextId
  BY DEF OrderInv
<1>3. CASE UNCHANGED <<paced, written, refused>>
  BY <1>1, <1>2, <1>3, SameMessages
<1>4. CASE paced # <<>> /\ paced' = Tail(paced) /\ Send(Head(paced))
  <2> DEFINE id == Head(paced)
             later == IdsIn(held) \cup IdsIn(commands)
  <2>1. /\ Ordered(Tail(paced)) /\ id \in Nat /\ Range(paced) \subseteq Nat
        /\ \A other \in Range(Tail(paced)) : id < other
        /\ Range(paced) = {id} \cup Range(Tail(paced))
        /\ later \subseteq Nat
    <3>1. Range(paced) \subseteq Nat
      BY <1>1 DEF Range
    <3> QED BY <1>1, <1>2, <1>4, <3>1, OrderedTail, RangeOfTail, QueueIds
  <2>2. Send(id) <=> Send(Head(paced))
    OBVIOUS
  <2> HIDE DEF id
  <2>3. \A other \in later : id < other
    BY <1>2, <2>1 DEF Before
  <2>4. /\ Waiting = {id} \cup Range(Tail(paced)) \cup later
        /\ Waiting' = Range(Tail(paced)) \cup later
    BY <1>1, <1>4, <2>1 DEF Waiting
  <2>5. \A other \in Range(Tail(paced)) \cup later : other \in Nat /\ id < other
    BY <2>1, <2>3
  <2>6. id \notin Waiting'
    <3>1. ~(id < id)
      BY <2>1
    <3> QED BY <2>4, <2>5, <3>1
  <2>7. id \in Waiting /\ Waiting' = Waiting \ {id}
    BY <2>4, <2>6
  <2>8. \A other \in Waiting : id <= other
    BY <2>1, <2>4, <2>5
  <2>9. MessageStep
    <3>1. CASE written' = Append(written, id) /\ UNCHANGED refused
      BY <1>1, <2>7, <2>8, <3>1 DEF MessageStep, Settles
    <3>2. CASE refused' = refused \cup {id} /\ UNCHANGED written
      BY <1>1, <2>7, <3>2 DEF MessageStep, Settles
    <3> QED BY <1>4, <2>2, <3>1, <3>2 DEF Send
  <2>10. Before(Range(Tail(paced)), later)
    BY <1>2, <2>1 DEF Before
  <2> QED BY <1>1, <1>2, <1>4, <2>1, <2>7, <2>9, <2>10 DEF OrderInv
<1> QED BY <1>3, <1>4 DEF PaceStep, PacedDue

(* What is held is dropped when the link ends under a check. *)
LEMMA DropOrder ==
  ASSUME TypeOK, OrderInv, DropHeld, UNCHANGED <<commands, paced, written, nextId>>
  PROVE  OrderInv' /\ MessageStep
<1>1. /\ commands \in Seq(Commands) /\ held \in Seq(Commands) /\ paced \in Seq(Nat)
      /\ held' = <<>> /\ refused' = refused \cup IdsIn(held)
  BY DEF TypeOK, QueuesOK, DropHeld
<1>2. /\ QueueInOrder(commands) /\ Ordered(paced)
      /\ Before(IdsIn(held), IdsIn(commands))
      /\ Before(Range(paced), IdsIn(held) \cup IdsIn(commands))
      /\ \A id \in Waiting : id < nextId
  BY DEF OrderInv
<1>3. IdsIn(held') = {} /\ QueueInOrder(held')
  BY <1>1, NoIds
<1>4. IdsIn(held) \cap (Range(paced) \cup IdsIn(commands)) = {}
  <2>1. IdsIn(held) \subseteq Nat /\ Range(paced) \subseteq Nat
    BY <1>1, QueueIds DEF Range
  <2>2. Before(Range(paced), IdsIn(held))
    BY <1>2 DEF Before
  <2>3. IdsIn(held) \cap IdsIn(commands) = {} /\ Range(paced) \cap IdsIn(held) = {}
    BY <1>2, <2>1, <2>2, BeforeIsApart
  <2> QED BY <2>3
<1>5. IdsIn(held) \in SUBSET Waiting /\ Waiting' = Waiting \ IdsIn(held)
  BY <1>3, <1>4 DEF Waiting
<1>6. MessageStep
  BY <1>1, <1>5 DEF MessageStep, Settles
<1>7. /\ Before(Range(paced), IdsIn(held') \cup IdsIn(commands))
      /\ Before(IdsIn(held'), IdsIn(commands))
  BY <1>2, <1>3 DEF Before
<1> QED BY <1>2, <1>3, <1>5, <1>6, <1>7 DEF OrderInv

(* Every step keeps the order, and does no more to the messages than a     *)
(* delivery may.                                                           *)
LEMMA OrderStep == TypeOK /\ OrderInv /\ [Next]_vars => OrderInv' /\ MessageStep
<1> SUFFICES ASSUME TypeOK, OrderInv, [Next]_vars PROVE OrderInv' /\ MessageStep
  OBVIOUS
<1>1. ASSUME NEW k \in Nat, Arrives(k) PROVE OrderInv' /\ MessageStep
  BY <1>1, ArrivesOrder DEF MessageStep
<1>2. CASE UNCHANGED messageVars
  <2>1. /\ QueueInOrder(held) /\ QueueInOrder(commands)
        /\ Before(IdsIn(held), IdsIn(commands))
    BY DEF OrderInv
  <2> QED BY <1>2, <2>1, SameMessages DEF messageVars
<1> QED BY <1>1, <1>2, MovingSteps, TakeOrder, FlushOrder, PaceOrder, DropOrder

(* The messages are always in order. *)
LEMMA OrderCorrect == Spec => []OrderInv
<1>1. Init => OrderInv
  <2> SUFFICES ASSUME Init PROVE OrderInv
    OBVIOUS
  <2>1. commands = <<>> /\ held = <<>> /\ paced = <<>>
    BY DEF Init
  <2> QED BY <2>1, NoIds DEF OrderInv, Before, Waiting
<1> QED BY <1>1, OrderStep, TypeCorrect, PTL DEF Spec

-----------------------------------------------------------------------------
(* No message is lost or written twice. *)

(* A worker that has ended does nothing any more, and no call reaches it. *)
LEMMA EndedSteps ==
  ASSUME TypeOK, EndInv, pc = "ended", [Next]_vars
  PROVE  pc' = "ended" /\ UNCHANGED <<nextId, written>>
<1>1. out = <<>>
  BY DEF EndInv
<1>2. CASE UiCall \/ TakeEvent \/ IntervalPasses \/ NickAccepted \/ LinkDies
             \/ UNCHANGED vars
  BY <1>2 DEF UiCall, SendMessage, SendLines, Submit, ChangeNickname, SendCommand,
              CheckAlive, SubmitOther, QuitCommand, Disconnect, Enqueue, Shutdown,
              Sleep, DropHandle, DropReceiver, TakeEvent, IntervalPasses,
              NickAccepted, LinkDies, vars, workerVars, callVars
<1>3. ~WorkerStep
  BY <1>1 DEF WorkerStep, Emit, Resolved, Opened, OpenFailed, Cancelled, PaceStep,
              PacedTimer, FlushStep, TakeCommand, TakeQuit, QueueClosed, Drained,
              ReadLine, ReadWelcome, ReadRefusal, ReadNickRejected, ReadFatal,
              ReadPong, StreamEnded, AliveDeadline, RegistrationTimeout, Read,
              Readable, AtSelect, Idle
<1> QED BY <1>2, <1>3 DEF Next

(* The step with which the worker ends: its last report, or the closed     *)
(* queue.                                                                  *)
LEMMA EndingStep ==
  ASSUME pc # "ended", pc' = "ended", [Next]_vars
  PROVE  Emit \/ QueueClosed
<1>1. CASE UiCall \/ TakeEvent \/ IntervalPasses \/ NickAccepted \/ LinkDies
             \/ UNCHANGED vars
  BY <1>1 DEF UiCall, SendMessage, SendLines, Submit, ChangeNickname, SendCommand,
              CheckAlive, SubmitOther, QuitCommand, Disconnect, Shutdown,
              Sleep, DropHandle, DropReceiver, TakeEvent, IntervalPasses,
              NickAccepted, LinkDies, vars, workerVars
<1>2. CASE Resolved \/ Opened \/ OpenFailed \/ Cancelled \/ PaceStep \/ PacedTimer
           \/ TakeQuit \/ Drained \/ ReadLine \/ ReadWelcome \/ ReadRefusal
           \/ ReadNickRejected \/ ReadFatal \/ ReadPong \/ StreamEnded
           \/ AliveDeadline \/ RegistrationTimeout
  BY <1>2 DEF Resolved, Opened, OpenFailed, Cancelled, PaceStep, PacedTimer, TakeQuit,
              Drained, ReadLine, ReadWelcome, ReadRefusal, ReadNickRejected,
              ReadFatal, ReadPong, StreamEnded, AliveDeadline, RegistrationTimeout,
              OnlyReports, AtSelect, Idle
<1>3. CASE FlushStep \/ TakeCommand
  <2>1. pc = "running"
    BY <1>3 DEF FlushStep, TakeCommand, AtSelect, Idle
  <2>2. CASE StartAliveCheck \/ Hold(Head(commands))
    BY <2>1, <2>2 DEF StartAliveCheck, Hold
  <2>3. CASE Perform(Head(commands)) \/ Perform(Head(held))
    BY <2>1, <2>3, PerformPhase
  <2> QED BY <1>3, <2>2, <2>3 DEF FlushStep, TakeCommand
<1> QED BY <1>1, <1>2, <1>3 DEF Next, WorkerStep

(* The messages of a delivery: written, refused or waiting. *)
Accounted ==
    /\ Range(written) \cup refused \cup Waiting = 1..(nextId - 1)
    /\ Range(written) \cap Waiting = {}
    /\ refused \cap (Range(written) \cup Waiting) = {}
    /\ IsInjective(written)

LEMMA InjectiveAppend ==
  ASSUME NEW s \in Seq(Nat), IsInjective(s), NEW e, e \notin Range(s)
  PROVE  IsInjective(Append(s, e))
<1> DEFINE longer == Append(s, e)
<1>1. /\ DOMAIN longer = 1..(Len(s) + 1) /\ DOMAIN s = 1..Len(s) /\ Len(s) \in Nat
      /\ \A i \in DOMAIN s : longer[i] = s[i]
      /\ longer[Len(s) + 1] = e
      /\ \A i \in DOMAIN longer : i \in DOMAIN s \/ i = Len(s) + 1
  OBVIOUS
<1> HIDE DEF longer
<1>2. \A i \in DOMAIN s : s[i] # e
  BY DEF Range
<1> SUFFICES ASSUME NEW i \in DOMAIN longer, NEW j \in DOMAIN longer, longer[i] = longer[j]
             PROVE  i = j
  BY DEF IsInjective, longer
<1>3. CASE i \in DOMAIN s /\ j \in DOMAIN s
  BY <1>1, <1>3 DEF IsInjective
<1> QED BY <1>1, <1>2, <1>3

(* A step of a delivery keeps the account. *)
LEMMA AccountedStep ==
  ASSUME TypeOK, Accounted, MessageStep
  PROVE  Accounted'
<1>1. nextId \in Nat \ {0} /\ written \in Seq(Nat)
  BY DEF TypeOK, CountersOK, QueuesOK
<1>2. ASSUME NEW k \in Nat, Accepts(k) PROVE Accounted'
  <2>1. /\ 1..(nextId' - 1) = 1..(nextId - 1) \cup nextId..(nextId + k - 1)
        /\ 1..(nextId - 1) \cap nextId..(nextId + k - 1) = {}
    BY <1>1, <1>2 DEF Accepts
  <2>2. /\ Waiting' = Waiting \cup nextId..(nextId + k - 1)
        /\ UNCHANGED <<written, refused>>
    BY <1>2 DEF Accepts
  <2> QED BY <2>1, <2>2 DEF Accounted
<1>3. ASSUME UNCHANGED nextId, NEW id \in Waiting, Waiting' = Waiting \ {id},
             written' = Append(written, id), UNCHANGED refused
      PROVE  Accounted'
  <2>1. Range(written') = Range(written) \cup {id}
    BY <1>1, <1>3, RangeOfAppend
  <2>2. IsInjective(written')
    BY <1>1, <1>3, InjectiveAppend DEF Accounted
  <2>3. /\ Range(written) \cup refused \cup Waiting = 1..(nextId - 1)
        /\ Range(written) \cap Waiting = {}
        /\ refused \cap (Range(written) \cup Waiting) = {}
    BY DEF Accounted
  <2> QED BY <1>3, <2>1, <2>2, <2>3 DEF Accounted
<1>4. ASSUME UNCHANGED nextId, NEW ids \in SUBSET Waiting, Waiting' = Waiting \ ids,
             refused' = refused \cup ids, UNCHANGED written
      PROVE  Accounted'
  <2>1. /\ Range(written) \cup refused \cup Waiting = 1..(nextId - 1)
        /\ Range(written) \cap Waiting = {}
        /\ refused \cap (Range(written) \cup Waiting) = {}
        /\ IsInjective(written)
    BY DEF Accounted
  <2> QED BY <1>4, <2>1 DEF Accounted
<1> QED BY <1>2, <1>3, <1>4 DEF MessageStep, Settles

(* EveryMessageAccounted: through the command queue, the held and the      *)
(* paced backlog, no accepted message is lost, refused though written, or  *)
(* written twice while the worker lives.                                   *)
THEOREM MessagesAccounted == Spec => []EveryMessageAccounted
<1> DEFINE Inv == pc # "ended" => Accounted
<1>1. Init => Inv
  <2> SUFFICES ASSUME Init PROVE Accounted
    OBVIOUS
  <2>1. /\ commands = <<>> /\ held = <<>> /\ paced = <<>> /\ written = <<>>
        /\ refused = {} /\ nextId = 1
    BY DEF Init
  <2>2. Waiting = {} /\ Range(written) = {} /\ 1..(nextId - 1) = {}
    BY <2>1, NoIds DEF Waiting
  <2>3. IsInjective(written)
    BY <2>1 DEF IsInjective
  <2> QED BY <2>1, <2>2, <2>3 DEF Accounted
<1>2. TypeOK /\ EndInv /\ OrderInv /\ Inv /\ [Next]_vars => Inv'
  BY OrderStep, EndedSteps, AccountedStep
<1>3. Inv => EveryMessageAccounted
  BY DEF Accounted, EveryMessageAccounted
<1> HIDE DEF Inv
<1> QED
  BY <1>1, <1>2, <1>3, TypeCorrect, EndCorrect, OrderCorrect, PTL DEF Spec

-----------------------------------------------------------------------------
(* A connection is an ordered delivery. *)

(* A step of the connection is a step of the delivery, or a stutter. *)
LEMMA DeliveryStep ==
  ASSUME TypeOK, EndInv, OrderInv, [Next]_vars
  PROVE  [Delivery!DeliveryNext]_(Delivery!deliveryVars)
<1> USE DEF Delivery!DeliveryNext, Delivery!deliveryVars
<1>1. CASE pc = "ended"
  <2>1. pc' = "ended" /\ UNCHANGED <<nextId, written>>
    BY <1>1, EndedSteps
  <2> QED BY <1>1, <2>1
<1>2. CASE pc # "ended" /\ pc' = "ended"
  <2>1. UNCHANGED <<nextId, written>>
    BY <1>2, EndingStep DEF Emit, QueueClosed, OnlyReports, callVars
  <2> QED BY <1>2, <2>1 DEF Delivery!Stop
<1>3. CASE pc # "ended" /\ pc' # "ended"
  <2>1. nextId \in Nat \ {0} /\ MaxIds \in Nat
    BY ConnectionAssumption DEF TypeOK, CountersOK
  <2>2. MessageStep
    BY OrderStep
  <2>3. ASSUME NEW k \in Nat, Accepts(k)
        PROVE  (\E j \in 1..MaxIds : Delivery!Accept(j)) \/ UNCHANGED Delivery!deliveryVars
    <3>1. CASE k = 0
      <4>1. Waiting' = Waiting /\ UNCHANGED <<nextId, written>>
        BY <2>1, <2>3, <3>1 DEF Accepts
      <4> QED BY <1>3, <4>1
    <3>2. CASE k # 0
      <4>1. k \in 1..MaxIds
        BY <2>1, <2>3, <3>2 DEF Accepts
      <4>2. Delivery!Accept(k)
        BY <1>3, <2>3, <3>2 DEF Accepts, Delivery!Accept
      <4> QED BY <4>1, <4>2
    <3> QED BY <3>1, <3>2
  <2>4. ASSUME UNCHANGED nextId, NEW id \in Waiting, \A other \in Waiting : id <= other,
               Waiting' = Waiting \ {id}, written' = Append(written, id)
        PROVE  Delivery!Write(id)
    BY <1>3, <2>4 DEF Delivery!Write
  <2>5. ASSUME UNCHANGED nextId, NEW ids \in SUBSET Waiting, Waiting' = Waiting \ ids,
               UNCHANGED written
        PROVE  Delivery!Refuse(ids)
    BY <1>3, <2>5 DEF Delivery!Refuse
  <2> QED BY <1>3, <2>2, <2>3, <2>4, <2>5 DEF MessageStep, Settles
<1> QED BY <1>1, <1>2, <1>3

(* ImplementsDelivery: what the queues, the pacing and the checks do to    *)
(* the messages is an ordered delivery.                                    *)
THEOREM ConnectionDelivers == Spec => ImplementsDelivery
<1>1. Init => Delivery!DeliveryInit
  <2> SUFFICES ASSUME Init PROVE Delivery!DeliveryInit
    OBVIOUS
  <2>1. /\ commands = <<>> /\ held = <<>> /\ paced = <<>> /\ written = <<>>
        /\ nextId = 1 /\ pc = "resolving"
    BY DEF Init
  <2>2. Waiting = {}
    BY <2>1, NoIds DEF Waiting
  <2> QED BY <2>1, <2>2 DEF Delivery!DeliveryInit
<1> QED
  BY <1>1, DeliveryStep, TypeCorrect, EndCorrect, OrderCorrect, PTL
     DEF Spec, ImplementsDelivery, Delivery!DeliverySpec

-----------------------------------------------------------------------------
(* The end is reported. *)

(* EndIsReported: the UI that still listens is told why the worker ended.  *)
THEOREM EndAlwaysReported == Spec => []EndIsReported
<1>1. Init => EndIsReported
  BY DEF Init, EndIsReported
<1>2. TypeOK /\ EndInv /\ EndIsReported /\ [Next]_vars => EndIsReported'
  <2> SUFFICES ASSUME TypeOK, EndInv, EndIsReported, [Next]_vars,
                      pc' = "ended", receiver', handle', ~quitRequested'
               PROVE  \/ verdict' # "none"
                      \/ \E i \in DOMAIN events' : events'[i] \in Terminal
    BY DEF EndIsReported
  <2>1. receiver /\ handle /\ ~quitRequested
    <3> USE DEF handleVars, uiVars, workerVars
    <3>1. CASE Shutdown \/ Sleep
      <4>1. quitRequested' = TRUE
        BY <3>1 DEF Shutdown, Sleep
      <4> QED BY <4>1
    <3>2. CASE DropHandle \/ DropReceiver
      <4>1. handle' = FALSE \/ receiver' = FALSE
        BY <3>2 DEF DropHandle, DropReceiver
      <4> QED BY <4>1
    <3>3. CASE SendMessage \/ SendLines \/ ChangeNickname \/ SendCommand \/ CheckAlive
                 \/ QuitCommand \/ Disconnect \/ TakeEvent \/ IntervalPasses
                 \/ NickAccepted \/ LinkDies \/ UNCHANGED vars
      <4>1. UNCHANGED <<handle, receiver, quitRequested>>
        BY <3>3 DEF SendMessage, SendLines, Submit, ChangeNickname, SendCommand,
           CheckAlive, SubmitOther, QuitCommand, Disconnect, TakeEvent, IntervalPasses,
           NickAccepted, LinkDies, vars
      <4> QED BY <4>1
    <3>4. CASE WorkerStep
      <4>1. UNCHANGED <<handle, receiver, quitRequested>>
        BY <3>4 DEF WorkerStep, Emit, Resolved, Opened, OpenFailed, Cancelled, PaceStep,
           PacedTimer, FlushStep, TakeCommand, TakeQuit, QueueClosed, Drained, ReadLine,
           ReadWelcome, ReadRefusal, ReadNickRejected, ReadFatal, ReadPong, StreamEnded,
           AliveDeadline, RegistrationTimeout, OnlyReports
      <4> QED BY <4>1
    <3> QED BY <3>1, <3>2, <3>3, <3>4 DEF Next, UiCall
  <2>2. CASE pc # "ended"
    <3>1. Emit
      BY <2>1, <2>2, EndingStep DEF QueueClosed
    <3>2. Head(out) \in Terminal /\ events' = Append(events, Head(out))
      BY <2>1, <2>2, <3>1 DEF Emit, Reported
    <3>3. events \in Seq(Reports) /\ Len(events) + 1 \in DOMAIN Append(events, Head(out))
          /\ Append(events, Head(out))[Len(events) + 1] = Head(out)
      <4>1. events \in Seq(Reports)
        BY DEF TypeOK, QueuesOK
      <4> QED BY <4>1
    <3> QED BY <3>2, <3>3
  <2>3. CASE pc = "ended"
    <3>1. verdict # "none" \/ \E i \in DOMAIN events : events[i] \in Terminal
      BY <2>1, <2>3 DEF EndIsReported
    <3>2. CASE TakeEvent
      <4>1. /\ events \in Seq(Reports) /\ events # <<>> /\ events' = Tail(events)
            /\ verdict' = IF Head(events) \in Terminal THEN Head(events) ELSE verdict
        BY <3>2 DEF TypeOK, QueuesOK, TakeEvent
      <4>2. CASE Head(events) \in Terminal
        BY <4>1, <4>2 DEF Terminal
      <4>3. CASE Head(events) \notin Terminal /\ verdict = "none"
        <5>1. PICK i \in DOMAIN events : events[i] \in Terminal
          BY <3>1, <4>3
        <5>2. i - 1 \in DOMAIN Tail(events) /\ Tail(events)[i - 1] = events[i]
          BY <4>1, <4>3, <5>1, TailByIndex
        <5> QED BY <4>1, <5>1, <5>2
      <4> QED BY <4>1, <4>2, <4>3
    <3>3. CASE ~TakeEvent
      <4>1. UNCHANGED <<events, verdict>>
        <5>1. ~WorkerStep
          BY <2>3 DEF EndInv, WorkerStep, Emit, Resolved, Opened, OpenFailed,
             Cancelled, PaceStep, PacedTimer, FlushStep, TakeCommand, TakeQuit,
             QueueClosed, Drained, ReadLine, ReadWelcome, ReadRefusal,
             ReadNickRejected, ReadFatal, ReadPong, StreamEnded, AliveDeadline,
             RegistrationTimeout, Read, Readable, AtSelect, Idle
        <5>2. ~DropReceiver
          BY DEF DropReceiver
        <5> QED BY <3>3, <5>1, <5>2 DEF Next, UiCall, SendMessage, SendLines, Submit,
               ChangeNickname, SendCommand, CheckAlive, SubmitOther, QuitCommand,
               Disconnect, Shutdown, Sleep, DropHandle, IntervalPasses, NickAccepted,
               LinkDies, vars, uiVars
      <4> QED BY <3>1, <4>1
    <3> QED BY <3>2, <3>3
  <2> QED BY <2>2, <2>3
<1> QED BY <1>1, <1>2, TypeCorrect, EndCorrect, PTL DEF Spec
=============================================================================

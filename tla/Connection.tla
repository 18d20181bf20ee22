----------------------------- MODULE Connection -----------------------------
(***************************************************************************)
(* One server connection of crates/irc-core/src/lib.rs: the Connection     *)
(* handle the UI thread holds, the bounded command and event queues, and   *)
(* the worker thread (run_cancellable and struct Worker).  The UI puts     *)
(* commands in with try_send; the worker's select! loop takes them, reads  *)
(* the server and fires its timers, one branch at a time; every event it   *)
(* reports may block on a full event queue.                                *)
(*                                                                         *)
(* A message is its number, given in the order of submission.  The worker  *)
(* is between two branches of its loop when AtSelect holds; otherwise it   *)
(* is inside one, with events still to report (out) or in one of its two   *)
(* send loops (pacing: send_paced; held commands left: flush_held).        *)
(* Timers are actions that are enabled while the timer runs.               *)
(***************************************************************************)
EXTENDS Naturals, Sequences, Functions

CONSTANTS CommandCapacity,   \* COMMAND_CAPACITY
          EventCapacity,     \* EVENT_CAPACITY
          MaxHeld,           \* MAX_HELD_COMMANDS
          MaxPaced,          \* MAX_PACED_LINES
          PacedBurst,        \* PACED_BURST
          MaxSendLines,      \* MAX_SEND_LINES
          Operations,        \* what the UI does in this instance
          MaxIds,            \* bound: messages submitted
          MaxCalls,          \* bound: calls of the handle
          MaxBuffered        \* bound: lines in the socket buffer of a dead link

ASSUME ConnectionAssumption ==
    /\ CommandCapacity \in Nat \ {0}
    /\ EventCapacity \in Nat \ {0}
    /\ MaxHeld \in Nat
    /\ MaxPaced \in Nat
    /\ PacedBurst \in Nat
    /\ MaxSendLines \in Nat
    /\ MaxIds \in Nat
    /\ MaxCalls \in Nat
    /\ MaxBuffered \in Nat

VARIABLES
    \* The handle and what it shares with the worker.
    commands,      \* mpsc queue of commands, UI to worker
    handle,        \* the Connection has not been dropped
    cancel,        \* permit of the cancel Notify
    quitRequested, \* QuitSignal.requested
    sleepReason,   \* QuitSignal.sleep_reason is set
    events,        \* mpsc queue of events, worker to UI
    receiver,      \* the UI still holds the event receiver
    verdict,       \* the terminal event the UI has received
    \* The worker.
    pc,            \* which part of run_cancellable runs
    out,           \* events the running branch has still to report
    registered, awaitingNick, refusal,
    aliveCheck,    \* an alive check is running
    held, paced, burst, pacedReady,
    pacing,        \* inside the loop of send_paced
    \* The server and the link.
    nicks,         \* NICK commands the server has not answered
    named,         \* the server has accepted a nickname
    link, buffered,
    \* History.
    nextId, calls, written, refused,
    checkedDead,   \* an alive check started after the link had died
    inInterval,    \* paced lines sent since PACED_INTERVAL last passed
    asked          \* the user asked for the end of this connection

handleVars == <<handle, cancel, quitRequested, sleepReason>>
uiVars     == <<receiver, verdict>>
regVars    == <<registered, awaitingNick, refusal>>
paceVars   == <<paced, burst, pacedReady, pacing, inInterval>>
serverVars == <<nicks, named>>
linkVars   == <<link, buffered>>
callVars   == <<nextId, calls, asked>>
vars == <<commands, handleVars, events, uiVars, pc, out, regVars, aliveCheck,
          held, paceVars, serverVars, linkVars, callVars, written, refused,
          checkedDead>>

Terminal == {"closed", "disconnected", "refused"}
Reports  == Terminal \cup {"info", "note"}
Phases   == {"resolving", "opening", "running", "draining", "ended"}
Kinds    == {"message", "lines", "nick", "command", "check", "quit"}
Commands == {command \in [kind : Kinds, ids : Seq(Nat)] :
                command.kind = "message" => command.ids # <<>>}

Command(kind, ids) == [kind |-> kind, ids |-> ids]

(* The numbers of the messages in a queue of commands. *)
IdsIn(queue) == UNION {Range(queue[i].ids) : i \in DOMAIN queue}

Init ==
    /\ commands = <<>> /\ handle = TRUE /\ cancel = FALSE
    /\ quitRequested = FALSE /\ sleepReason = FALSE
    /\ events = <<>> /\ receiver = TRUE /\ verdict = "none"
    /\ pc = "resolving" /\ out = <<"note">>
    /\ registered = FALSE /\ awaitingNick = FALSE /\ refusal = FALSE
    /\ aliveCheck = FALSE /\ held = <<>>
    /\ paced = <<>> /\ burst = PacedBurst /\ pacedReady = TRUE /\ pacing = FALSE
    /\ inInterval = 0
    /\ nicks = 0 /\ named = FALSE
    /\ link = "up" /\ buffered = 0
    /\ nextId = 1 /\ calls = 0 /\ asked = FALSE
    /\ written = <<>> /\ refused = {} /\ checkedDead = FALSE

-----------------------------------------------------------------------------
(* The UI thread.  A try_send on a full queue, or to a worker that has     *)
(* ended, returns an error and changes nothing: no action.                 *)

Call(op) ==
    /\ op \in Operations
    /\ handle
    /\ calls < MaxCalls
    /\ calls' = calls + 1

Enqueue(command) ==
    /\ pc # "ended"
    /\ Len(commands) < CommandCapacity
    /\ commands' = Append(commands, command)

workerVars == <<pc, out, regVars, aliveCheck, held, paceVars, serverVars,
                linkVars, written, refused, checkedDead>>

(* Connection::send_message, send_private_message (k = 1) and send_lines: *)
(* all lines of a paste are one command.                                  *)
Submit(op, k) ==
    /\ Call(op)
    /\ nextId + k <= MaxIds + 1
    /\ Enqueue(Command(op, [i \in 1..k |-> nextId + i - 1]))
    /\ nextId' = nextId + k
    /\ UNCHANGED <<handleVars, events, uiVars, asked, workerVars>>

SendMessage == Submit("message", 1)
SendLines   == \E k \in 1..MaxSendLines : Submit("lines", k)

(* change_nickname, check_alive, and the other commands: the effects of    *)
(* those on metadata, history and CTCP are their own components' matter.   *)
SubmitOther(op) ==
    /\ Call(op)
    /\ Enqueue(Command(op, <<>>))
    /\ UNCHANGED <<handleVars, events, uiVars, nextId, asked, workerVars>>

ChangeNickname == SubmitOther("nick")
SendCommand    == SubmitOther("command")
CheckAlive     == SubmitOther("check")

(* send_command with /quit reason: no cancel, only the queue. *)
QuitCommand ==
    /\ Call("quit")
    /\ Enqueue(Command("quit", <<>>))
    /\ asked' = TRUE
    /\ UNCHANGED <<handleVars, events, uiVars, nextId, workerVars>>

(* Connection::disconnect: the permit is given even if the queue is full. *)
Disconnect ==
    /\ Call("disconnect")
    /\ cancel' = TRUE
    /\ \/ Enqueue(Command("quit", <<>>))
       \/ /\ \/ pc = "ended"
             \/ Len(commands) >= CommandCapacity
          /\ UNCHANGED commands
    /\ asked' = TRUE
    /\ UNCHANGED <<handle, quitRequested, sleepReason, events, uiVars, nextId,
                   workerVars>>

(* Connection::shutdown. *)
Shutdown ==
    /\ Call("shutdown")
    /\ cancel' = TRUE
    /\ sleepReason' = FALSE
    /\ quitRequested' = TRUE
    /\ asked' = TRUE
    /\ UNCHANGED <<commands, handle, events, uiVars, nextId, workerVars>>

(* Connection::sleep: the reason is kept unless a quit was already asked. *)
Sleep ==
    /\ Call("sleep")
    /\ cancel' = TRUE
    /\ sleepReason' = IF quitRequested THEN sleepReason ELSE TRUE
    /\ quitRequested' = TRUE
    /\ asked' = TRUE
    /\ UNCHANGED <<commands, handle, events, uiVars, nextId, workerVars>>

(* The Connection is dropped: the worker sees the end of the queue. *)
DropHandle ==
    /\ Call("drop")
    /\ handle' = FALSE
    /\ UNCHANGED <<commands, cancel, quitRequested, sleepReason, events, uiVars,
                   nextId, asked, workerVars>>

(* The UI's event pump takes one event. *)
TakeEvent ==
    /\ receiver
    /\ events # <<>>
    /\ events' = Tail(events)
    /\ verdict' = IF Head(events) \in Terminal THEN Head(events) ELSE verdict
    /\ UNCHANGED <<commands, handleVars, receiver, callVars, workerVars>>

(* The pump of an abandoned connection stops and drops its receiver. *)
DropReceiver ==
    /\ Call("dropReceiver")
    /\ receiver
    /\ receiver' = FALSE
    /\ events' = <<>>
    /\ UNCHANGED <<commands, handleVars, verdict, nextId, asked, workerVars>>

UiCall ==
    \/ SendMessage \/ SendLines \/ ChangeNickname \/ SendCommand \/ CheckAlive
    \/ QuitCommand \/ Disconnect \/ Shutdown \/ Sleep \/ DropHandle \/ DropReceiver

-----------------------------------------------------------------------------
(* EventSender::send, once for every event a branch reports.  A full queue *)
(* blocks the worker; once a shutdown or sleep was requested it no longer  *)
(* waits, and the event may be dropped (the select! of send takes either   *)
(* arm when both are ready).  With the receiver gone, emit ends the loop,  *)
(* while note and the terminal events ignore the error.                    *)

EndWorker == pc' = "ended" /\ out' = <<>>

(* Slip: the loop goes on after a terminal event. *)
ReportedAndGoOn == out' = Tail(out) /\ UNCHANGED pc

Reported ==
    IF Head(out) \in Terminal
    THEN EndWorker
    ELSE out' = Tail(out) /\ UNCHANGED pc

(* Slip: the queue is waited for even once a quit was requested. *)
EmitAlwaysWaiting ==
    /\ out # <<>>
    /\ \/ /\ receiver
          /\ Len(events) < EventCapacity
          /\ events' = Append(events, Head(out))
          /\ Reported
       \/ /\ ~receiver
          /\ IF Head(out) = "info" THEN EndWorker ELSE Reported
          /\ UNCHANGED events
    /\ UNCHANGED <<commands, handleVars, uiVars, regVars, aliveCheck, held,
                   paceVars, serverVars, linkVars, callVars, written, refused,
                   checkedDead>>

Emit ==
    /\ out # <<>>
    /\ \/ /\ receiver
          /\ Len(events) < EventCapacity
          /\ events' = Append(events, Head(out))
          /\ Reported
       \/ /\ quitRequested
          /\ Reported
          /\ UNCHANGED events
       \/ /\ ~receiver /\ ~quitRequested
          /\ IF Head(out) = "info" THEN EndWorker ELSE Reported
          /\ UNCHANGED events
    /\ UNCHANGED <<commands, handleVars, uiVars, regVars, aliveCheck, held,
                   paceVars, serverVars, linkVars, callVars, written, refused,
                   checkedDead>>

(* Nothing but the worker's program counter and its reports changes. *)
OnlyReports(report) ==
    /\ out' = report
    /\ UNCHANGED <<commands, handleVars, events, uiVars, regVars, aliveCheck,
                   held, paceVars, serverVars, linkVars, callVars, written,
                   refused, checkedDead>>

(* DNS lookup: its result, failure or time-out is noted, and the transport *)
(* is tried in any case.                                                   *)
Resolved ==
    /\ pc = "resolving" /\ out = <<>>
    /\ pc' = "opening"
    /\ OnlyReports(<<"note">>)

(* TCP and TLS are up: TransportConnected, then CAP LS, PASS, NICK and     *)
(* USER are sent.                                                          *)
Opened ==
    /\ pc = "opening" /\ out = <<>>
    /\ pc' = "running"
    /\ out' = <<"note", "info", "note">>
    /\ nicks' = 1
    /\ UNCHANGED <<commands, handleVars, events, uiVars, regVars, aliveCheck,
                   held, paceVars, named, linkVars, callVars, written, refused,
                   checkedDead>>

(* Slip: a transport that fails is reported like a cancelled one. *)
OpenFailedAsClosed ==
    /\ pc = "opening" /\ out = <<>>
    /\ UNCHANGED pc
    /\ OnlyReports(<<"note", "closed">>)

(* The transport failed or timed out; or it came up, and then the stream   *)
(* could not be opened, or a registration command not be sent.             *)
OpenFailed ==
    /\ pc = "opening" /\ out = <<>>
    /\ UNCHANGED pc
    /\ \/ OnlyReports(<<"note", "disconnected">>)
       \/ OnlyReports(<<"note", "info", "note", "disconnected">>)
       \/ OnlyReports(<<"note", "info", "note", "note", "disconnected">>)

(* The cancel permit is seen while resolving or opening. *)
Cancelled ==
    /\ pc \in {"resolving", "opening"} /\ out = <<>>
    /\ cancel
    /\ cancel' = FALSE
    /\ out' = <<"closed">>
    /\ UNCHANGED <<commands, handle, quitRequested, sleepReason, events, uiVars,
                   pc, regVars, aliveCheck, held, paceVars, serverVars,
                   linkVars, callVars, written, refused, checkedDead>>

-----------------------------------------------------------------------------
(* The worker's own helpers.  Each says what becomes of the message and    *)
(* pacing state; OnCommand adds what stays.                                *)

(* send_message: written, or refused with SendFailed. *)
Send(id) ==
    /\ \/ written' = Append(written, id) /\ UNCHANGED refused
       \/ refused' = refused \cup {id} /\ UNCHANGED written
    /\ out' = <<"info">>

(* Slip: every paste gets a new burst. *)
QueueLinesNewBurst(ids) ==
    IF Len(paced) + Len(ids) > MaxPaced
    THEN /\ refused' = refused \cup Range(ids)
         /\ out' = <<"info">>
         /\ UNCHANGED <<paceVars, written>>
    ELSE /\ burst' = PacedBurst
         /\ paced' = paced \o ids
         /\ pacing' = TRUE
         /\ UNCHANGED <<pacedReady, inInterval, written, refused, out>>

(* queue_lines: all or nothing; the burst is new only after a pause. *)
QueueLines(ids) ==
    IF Len(paced) + Len(ids) > MaxPaced
    THEN /\ refused' = refused \cup Range(ids)
         /\ out' = <<"info">>
         /\ UNCHANGED <<paceVars, written>>
    ELSE /\ burst' = IF paced = <<>> /\ pacedReady THEN PacedBurst ELSE burst
         /\ paced' = paced \o ids
         /\ pacing' = TRUE
         /\ UNCHANGED <<pacedReady, inInterval, written, refused, out>>

(* Slip: the paced timer runs through an alive check. *)
PacedDueDuringCheck ==
    /\ paced # <<>> /\ registered
    /\ burst > 0 \/ pacedReady

(* Slip: only the burst is ever due. *)
PacedDueBurstOnly ==
    /\ paced # <<>> /\ registered /\ ~aliveCheck
    /\ burst > 0

(* paced_deadline is set and has come. *)
PacedDue ==
    /\ paced # <<>> /\ registered /\ ~aliveCheck
    /\ burst > 0 \/ pacedReady

Idle == out = <<>> /\ pc = "running"

(* flush_held runs after every branch once no check runs. *)
AtSelect == Idle /\ ~pacing /\ (aliveCheck \/ held = <<>>)

(* One iteration of the loop of send_paced. *)
PaceStep ==
    /\ Idle /\ pacing
    /\ IF PacedDue
       THEN /\ paced' = Tail(paced)
            /\ burst' = IF burst > 0 THEN burst - 1 ELSE 0
            /\ pacedReady' = FALSE
            /\ inInterval' = inInterval + 1
            /\ Send(Head(paced))
            /\ UNCHANGED pacing
       ELSE /\ pacing' = FALSE
            /\ UNCHANGED <<paced, burst, pacedReady, inInterval, written, refused,
                            out>>
    /\ UNCHANGED <<commands, handleVars, events, uiVars, pc, regVars, aliveCheck,
                   held, serverVars, linkVars, callVars, checkedDead>>

(* The timer of the next waiting line. *)
PacedTimer ==
    /\ AtSelect /\ PacedDue
    /\ pacing' = TRUE
    /\ UNCHANGED <<commands, handleVars, events, uiVars, pc, out, regVars,
                   aliveCheck, held, paced, burst, pacedReady, inInterval,
                   serverVars, linkVars, callVars, written, refused, checkedDead>>

(* PACED_INTERVAL has passed since the last line. *)
IntervalPasses ==
    /\ ~pacedReady
    /\ pacedReady' = TRUE
    /\ inInterval' = 0
    /\ UNCHANGED <<commands, handleVars, events, uiVars, pc, out, regVars,
                   aliveCheck, held, paced, burst, pacing, serverVars, linkVars,
                   callVars, written, refused, checkedDead>>

(* send_raw of NICK: before registration it ends the pause for another     *)
(* nickname, forgets a refusal and restarts the registration timer.        *)
SendNick ==
    \/ /\ nicks' = nicks + 1
       /\ IF registered
          THEN UNCHANGED regVars
          ELSE awaitingNick' = FALSE /\ refusal' = FALSE /\ UNCHANGED registered
       /\ UNCHANGED out
    \/ out' = <<"info">> /\ UNCHANGED <<nicks, regVars>>

(* Slip: a typed message does not queue behind waiting pasted lines. *)
PerformOvertaking(command) ==
    \/ /\ command.kind = "lines"
       /\ QueueLines(command.ids)
       /\ UNCHANGED <<pc, regVars, nicks>>
    \/ /\ command.kind = "message"
       /\ Send(command.ids[1])
       /\ UNCHANGED <<pc, regVars, nicks, paceVars>>
    \/ /\ command.kind = "quit"
       /\ pc' = "draining"
       /\ UNCHANGED <<out, regVars, nicks, paceVars, written, refused>>

(* on_command past the alive check.  A message goes behind waiting pasted  *)
(* lines; quit writes QUIT and then only drains the stream; another        *)
(* command may report an outcome, or find that the link has failed.        *)
Perform(command) ==
    \/ /\ \/ command.kind = "lines"
          \/ command.kind = "message" /\ paced # <<>>
       /\ QueueLines(command.ids)
       /\ UNCHANGED <<pc, regVars, nicks>>
    \/ /\ command.kind = "message" /\ paced = <<>>
       /\ Send(command.ids[1])
       /\ UNCHANGED <<pc, regVars, nicks, paceVars>>
    \/ /\ command.kind = "nick"
       /\ SendNick
       /\ UNCHANGED <<pc, paceVars, written, refused>>
    \/ /\ command.kind = "command"
       /\ out' \in {<<>>, <<"info">>, <<"disconnected">>}
       /\ UNCHANGED <<pc, regVars, nicks, paceVars, written, refused>>
    \/ /\ command.kind = "quit"
       /\ pc' = "draining"
       /\ UNCHANGED <<out, regVars, nicks, paceVars, written, refused>>

(* start_alive_check: ignored before registration and while one runs.  A   *)
(* PING that cannot be written ends the connection.                        *)
StartAliveCheck ==
    /\ IF registered /\ ~aliveCheck
       THEN \/ /\ aliveCheck' = TRUE
               /\ checkedDead' = (link = "dead")
               /\ out' = <<"note">>
            \/ /\ out' = <<"disconnected">>
               /\ UNCHANGED <<aliveCheck, checkedDead>>
       ELSE UNCHANGED <<aliveCheck, checkedDead, out>>
    /\ UNCHANGED <<pc, regVars, held, paceVars, nicks, written, refused>>

(* Slip: a full backlog drops its oldest command. *)
HoldDroppingOldest(command) ==
    /\ IF Len(held) >= MaxHeld
       THEN held' = Append(Tail(held), command) /\ out' = <<"info">>
       ELSE held' = Append(held, command) /\ UNCHANGED out
    /\ UNCHANGED <<pc, regVars, aliveCheck, checkedDead, paceVars, nicks, written,
                   refused>>

(* A command during an alive check: held, or refused with an event. *)
Hold(command) ==
    /\ IF Len(held) >= MaxHeld
       THEN /\ refused' = refused \cup Range(command.ids)
            /\ out' = <<"info">>
            /\ UNCHANGED held
       ELSE /\ held' = Append(held, command)
            /\ UNCHANGED <<refused, out>>
    /\ UNCHANGED <<pc, regVars, aliveCheck, checkedDead, paceVars, nicks, written>>

(* Slip: a check holds QUIT back like any other command. *)
TakeCommandHoldingQuit ==
    /\ AtSelect
    /\ ~quitRequested
    /\ commands # <<>>
    /\ commands' = Tail(commands)
    /\ LET command == Head(commands) IN
       \/ command.kind = "check" /\ StartAliveCheck
       \/ aliveCheck /\ command.kind # "check" /\ Hold(command)
       \/ /\ command.kind # "check" /\ ~aliveCheck
          /\ Perform(command)
          /\ UNCHANGED <<held, aliveCheck, checkedDead>>
    /\ UNCHANGED <<handleVars, events, uiVars, named, linkVars, callVars>>

(* next_command takes from the queue only when no quit is requested. *)
TakeCommand ==
    /\ AtSelect
    /\ ~quitRequested
    /\ commands # <<>>
    /\ commands' = Tail(commands)
    /\ LET command == Head(commands) IN
       \/ command.kind = "check" /\ StartAliveCheck
       \/ aliveCheck /\ command.kind \notin {"check", "quit"} /\ Hold(command)
       \/ /\ \/ command.kind = "quit"
             \/ command.kind # "check" /\ ~aliveCheck
          /\ Perform(command)
          /\ UNCHANGED <<held, aliveCheck, checkedDead>>
    /\ UNCHANGED <<handleVars, events, uiVars, named, linkVars, callVars>>

(* One iteration of flush_held. *)
FlushStep ==
    /\ Idle /\ ~pacing /\ ~aliveCheck
    /\ held # <<>>
    /\ held' = Tail(held)
    /\ Perform(Head(held))
    /\ UNCHANGED <<commands, handleVars, events, uiVars, aliveCheck, checkedDead,
                   named, linkVars, callVars>>

(* next_command with a quit requested, biased before the queue: a sleep    *)
(* before registration closes without QUIT.                                *)
TakeQuit ==
    /\ AtSelect
    /\ quitRequested
    /\ sleepReason' = FALSE
    /\ IF sleepReason /\ ~registered
       THEN out' = <<"closed">> /\ UNCHANGED pc
       ELSE pc' = "draining" /\ UNCHANGED out
    /\ UNCHANGED <<commands, handle, cancel, quitRequested, events, uiVars,
                   regVars, aliveCheck, held, paceVars, serverVars, linkVars,
                   callVars, written, refused, checkedDead>>

(* next_command after the handle was dropped and the queue drained. *)
QueueClosed ==
    /\ AtSelect
    /\ ~quitRequested /\ ~handle /\ commands = <<>>
    /\ pc' = "ended"
    /\ OnlyReports(<<>>)

(* Worker::quit after QUIT: the server closed, or the flush limit passed. *)
Drained ==
    /\ pc = "draining" /\ out = <<>>
    /\ UNCHANGED pc
    /\ OnlyReports(<<"closed">>)

-----------------------------------------------------------------------------
(* Lines from the server, read by the worker one at a time (on_incoming).  *)
(* A dead link delivers only what was already in the socket buffer.        *)

Readable == AtSelect /\ (link = "up" \/ buffered > 0)

Read ==
    /\ Readable
    /\ buffered' = IF link = "up" THEN 0 ELSE buffered - 1
    /\ UNCHANGED link

(* Slip: any line counts as the answer to a check. *)
ReadLineAsAnswer ==
    /\ Read
    /\ aliveCheck' = FALSE
    /\ out' = <<"info">>
    /\ UNCHANGED <<commands, handleVars, events, uiVars, pc, regVars, held,
                   paceVars, serverVars, callVars, written, refused, checkedDead>>

(* Any line that leaves this component's state alone. *)
ReadLine ==
    /\ Read
    /\ out' = <<"info">>
    /\ UNCHANGED <<commands, handleVars, events, uiVars, pc, regVars, aliveCheck,
                   held, paceVars, serverVars, callVars, written, refused,
                   checkedDead>>

(* 001: the server has a nickname for us.  It may reject the negotiation   *)
(* instead (CapNegotiation::registered, a SASL failure).                   *)
ReadWelcome ==
    /\ Read
    /\ named /\ ~registered
    /\ \/ registered' = TRUE /\ out' = <<"note", "info">>
       \/ UNCHANGED registered /\ out' = <<"note", "refused">>
    /\ UNCHANGED <<commands, handleVars, events, uiVars, pc, awaitingNick, refusal,
                   aliveCheck, held, paceVars, serverVars, callVars, written,
                   refused, checkedDead>>

(* 464 or 465 before registration: the reason of the end that follows, for *)
(* the server closes the link after it.                                    *)
ReadRefusal ==
    /\ Readable
    /\ ~registered
    /\ link' = "dead" /\ buffered' = 0
    /\ refusal' = TRUE
    /\ out' = <<"info">>
    /\ UNCHANGED <<commands, handleVars, events, uiVars, pc, registered,
                   awaitingNick, aliveCheck, held, paceVars, serverVars, callVars,
                   written, refused, checkedDead>>

(* 432/433 to the oldest unanswered NICK. *)
ReadNickRejected ==
    /\ Read
    /\ nicks > 0
    /\ nicks' = nicks - 1
    /\ IF registered
       THEN out' = <<"info">> /\ UNCHANGED regVars
       ELSE /\ awaitingNick' = TRUE
            /\ refusal' = TRUE
            /\ out' = <<"note", "info">>
            /\ UNCHANGED registered
    /\ UNCHANGED <<commands, handleVars, events, uiVars, pc, aliveCheck, held,
                   paceVars, named, callVars, written, refused, checkedDead>>

(* A terminal refusal: UTF8ONLY with another encoding, or SASL. *)
ReadFatal ==
    /\ Read
    /\ out' = <<"note", "refused">>
    /\ UNCHANGED <<commands, handleVars, events, uiVars, pc, regVars, aliveCheck,
                   held, paceVars, serverVars, callVars, written, refused,
                   checkedDead>>

(* The PONG with the token of the running check (alive_check_answered).    *)
(* None exists for a PING written to a dead link.                          *)
ReadPong ==
    /\ Read
    /\ aliveCheck /\ ~checkedDead
    /\ aliveCheck' = FALSE
    /\ out' = <<"note", "info">>
    /\ UNCHANGED <<commands, handleVars, events, uiVars, pc, regVars, held,
                   paceVars, serverVars, callVars, written, refused, checkedDead>>

(* report_held: one line tells how many held commands were dropped. *)
ReportHeld == IF held = <<>> THEN <<>> ELSE <<"info">>

(* report_held drops the commands; their messages count as refused. *)
DropHeld ==
    /\ held' = <<>>
    /\ refused' = refused \cup IdsIn(held)

(* The stream ends or fails: Refused if a refusal is on record. *)
StreamEnded ==
    /\ AtSelect
    /\ DropHeld
    /\ out' = ReportHeld \o
              <<"note", IF refusal THEN "refused" ELSE "disconnected">>
    /\ refusal' = FALSE
    /\ UNCHANGED <<commands, handleVars, events, uiVars, pc, registered,
                   awaitingNick, aliveCheck, paceVars, serverVars, linkVars,
                   callVars, written, checkedDead>>

(* on_alive_deadline. *)
AliveDeadline ==
    /\ AtSelect
    /\ aliveCheck
    /\ aliveCheck' = FALSE
    /\ DropHeld
    /\ out' = ReportHeld \o <<"note", "disconnected">>
    /\ UNCHANGED <<commands, handleVars, events, uiVars, pc, regVars, paceVars,
                   serverVars, linkVars, callVars, written, checkedDead>>

(* Slip: the loop is left without a terminal event. *)
RegistrationTimeoutSilent ==
    /\ AtSelect
    /\ ~registered /\ ~awaitingNick
    /\ refusal' = FALSE
    /\ EndWorker
    /\ UNCHANGED <<commands, handleVars, events, uiVars, registered, awaitingNick,
                   aliveCheck, held, paceVars, serverVars, linkVars, callVars,
                   written, refused, checkedDead>>

(* on_registration_timeout; paused while another nickname is asked for. *)
RegistrationTimeout ==
    /\ AtSelect
    /\ ~registered /\ ~awaitingNick
    /\ out' = <<"note", IF refusal THEN "refused" ELSE "disconnected">>
    /\ refusal' = FALSE
    /\ UNCHANGED <<commands, handleVars, events, uiVars, pc, registered,
                   awaitingNick, aliveCheck, held, paceVars, serverVars, linkVars,
                   callVars, written, refused, checkedDead>>

-----------------------------------------------------------------------------
(* The server and the network. *)

(* The server takes the oldest unanswered NICK. *)
NickAccepted ==
    /\ pc = "running" /\ link = "up"
    /\ nicks > 0
    /\ nicks' = nicks - 1
    /\ named' = TRUE
    /\ UNCHANGED <<commands, handleVars, events, uiVars, pc, out, regVars,
                   aliveCheck, held, paceVars, linkVars, callVars, written,
                   refused, checkedDead>>

(* The link dies silently, as over a machine's sleep; some lines are still *)
(* in the socket buffer.                                                   *)
LinkDies ==
    /\ pc = "running" /\ link = "up"
    /\ link' = "dead"
    /\ buffered' \in 0..MaxBuffered
    /\ UNCHANGED <<commands, handleVars, events, uiVars, pc, out, regVars,
                   aliveCheck, held, paceVars, serverVars, callVars, written,
                   refused, checkedDead>>

WorkerStep ==
    \/ Emit \/ Resolved \/ Opened \/ OpenFailed \/ Cancelled
    \/ PaceStep \/ PacedTimer \/ FlushStep
    \/ TakeCommand \/ TakeQuit \/ QueueClosed \/ Drained
    \/ ReadLine \/ ReadWelcome \/ ReadRefusal \/ ReadNickRejected \/ ReadFatal
    \/ ReadPong \/ StreamEnded \/ AliveDeadline \/ RegistrationTimeout

Next == UiCall \/ TakeEvent \/ WorkerStep \/ IntervalPasses \/ NickAccepted \/ LinkDies

Spec == Init /\ [][Next]_vars

-----------------------------------------------------------------------------
(* Fairness.  The worker thread runs while it can, and each timer fires.   *)
(* tokio::select! polls its ready branches in random order, so a branch    *)
(* that is ready again and again is taken: strong fairness for those.      *)
(* Nothing is assumed of the server, the network or the user.              *)
WorkerFairness ==
    /\ WF_vars(Emit)
    /\ WF_vars(Resolved \/ Opened \/ OpenFailed)
    /\ WF_vars(PaceStep) /\ WF_vars(FlushStep) /\ WF_vars(Drained)
    /\ WF_vars(IntervalPasses)
    /\ SF_vars(PacedTimer) /\ SF_vars(TakeCommand) /\ SF_vars(TakeQuit)
    /\ SF_vars(AliveDeadline)

(* The UI thread may stop taking events: the properties that need its      *)
(* event pump say so.                                                      *)
FairSpec == Spec /\ WorkerFairness
Pumped   == WF_vars(TakeEvent)

-----------------------------------------------------------------------------
(* Properties. *)

FlagsOK ==
    /\ handle \in BOOLEAN /\ cancel \in BOOLEAN
    /\ quitRequested \in BOOLEAN /\ sleepReason \in BOOLEAN
    /\ receiver \in BOOLEAN /\ registered \in BOOLEAN
    /\ awaitingNick \in BOOLEAN /\ refusal \in BOOLEAN
    /\ aliveCheck \in BOOLEAN /\ pacedReady \in BOOLEAN /\ pacing \in BOOLEAN
    /\ named \in BOOLEAN /\ asked \in BOOLEAN /\ checkedDead \in BOOLEAN

QueuesOK ==
    /\ commands \in Seq(Commands) /\ Len(commands) <= CommandCapacity
    /\ events \in Seq(Reports) /\ Len(events) <= EventCapacity
    /\ out \in Seq(Reports) /\ held \in Seq(Commands)
    /\ paced \in Seq(Nat) /\ written \in Seq(Nat) /\ refused \subseteq Nat

StatesOK ==
    /\ verdict \in Terminal \cup {"none"}
    /\ pc \in Phases
    /\ link \in {"up", "dead"}

CountersOK ==
    /\ burst \in 0..PacedBurst /\ inInterval \in Nat
    /\ nicks \in Nat /\ buffered \in 0..MaxBuffered
    /\ nextId \in Nat \ {0} /\ calls \in 0..MaxCalls

(* The type invariant, with the bounds of the two mpsc queues. *)
TypeOK == FlagsOK /\ QueuesOK /\ StatesOK /\ CountersOK

(* Messages that wait somewhere between the handle and the wire. *)
Waiting == IdsIn(commands) \cup IdsIn(held) \cup Range(paced)

(* The held and the paced backlog keep their limits however the commands   *)
(* of a check, a paste and typed messages mix (MAX_HELD_COMMANDS,          *)
(* MAX_PACED_LINES).                                                       *)
BacklogBounded == Len(held) <= MaxHeld /\ Len(paced) <= MaxPaced

(* While the worker lives, every accepted message is written, refused with *)
(* an event, or waiting, and only one of the three: none is lost or sent   *)
(* twice on its way through the command queue, the held and the paced ones. *)
EveryMessageAccounted ==
    pc # "ended" =>
        /\ Range(written) \cup refused \cup Waiting = 1..(nextId - 1)
        /\ Range(written) \cap Waiting = {}
        /\ refused \cap (Range(written) \cup Waiting) = {}
        /\ IsInjective(written)

(* The UI gets at most one terminal event, as the last event of all: what  *)
(* it does on it (schedule a retry, ask for a password) happens once.      *)
TerminalEventIsLast ==
    /\ \A i \in DOMAIN events : events[i] \in Terminal =>
          i = Len(events) /\ pc = "ended" /\ verdict = "none"
    /\ verdict # "none" => events = <<>> /\ pc = "ended"

(* A worker that ends while the UI still listens has told it why, unless a *)
(* shutdown or sleep was requested (its events may be dropped) or the      *)
(* handle is gone.                                                         *)
EndIsReported ==
    pc = "ended" /\ receiver /\ handle /\ ~quitRequested =>
        verdict # "none" \/ \E i \in DOMAIN events : events[i] \in Terminal

(* Closed, which stops the UI from reconnecting, is reported only for an   *)
(* end the user or the application asked for.                              *)
ClosedOnlyWhenAsked ==
    "closed" \in Range(events) \cup Range(out) \cup {verdict} => asked

(* A paste is never written faster than the burst allows between two       *)
(* passings of PACED_INTERVAL, also when pastes overlap or a check stops   *)
(* the pacing in between.                                                  *)
FloodLimited == inInterval <= IF PacedBurst = 0 THEN 1 ELSE PacedBurst

(* While an alive check runs, no message and no NICK is written: neither a *)
(* new command, nor a held one, nor a paced line whose timer fires.        *)
NothingSentDuringCheck ==
    [][aliveCheck => written' = written /\ nicks' <= nicks]_vars

(* Once a check runs over a link that had already died, no message is ever *)
(* written to it: lines buffered from before the sleep do not end the      *)
(* check.                                                                  *)
NothingSentToDeadLink == [][checkedDead => written' = written]_vars

(* A connection is an ordered delivery (OrderedDelivery.tla).              *)
Delivery == INSTANCE OrderedDelivery WITH
    pending <- IF pc = "ended" THEN {} ELSE Waiting,
    open    <- pc # "ended"
ImplementsDelivery == Delivery!DeliverySpec

(* Connection::shutdown and sleep end the worker even when both queues are *)
(* full and the UI takes no event any more.                                *)
QuitAlwaysEnds == quitRequested ~> pc = "ended"

(* An accepted Disconnect ends the worker while the UI takes its events,   *)
(* whatever is held, paced or flooding in before it.                       *)
DisconnectEnds ==
    Pumped =>
        ((\E i \in DOMAIN commands : commands[i].kind = "quit") ~> pc = "ended")

(* On a registered connection every accepted message is written or refused *)
(* in the end, through checks and pacing, unless the connection ends.      *)
MessagesSettle ==
    Pumped =>
        \A id \in 1..MaxIds :
            registered /\ id \in Waiting ~> id \notin Waiting \/ pc = "ended"

(* What check_alive's comment says of commands held during a check: written *)
(* after the answer, or reported as not sent.  The code drops them without  *)
(* a report when the user quits during the check.                           *)
HeldCommandsReported == pc = "ended" => held = <<>>

(* What Event::Refused's comment says: the server rejected the credentials  *)
(* or the configuration.  The end of a registered link is no such refusal.  *)
LinkLossIsNotRefused ==
    [][StreamEnded /\ registered => out'[Len(out')] = "disconnected"]_vars
=============================================================================

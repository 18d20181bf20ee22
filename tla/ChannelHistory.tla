--------------------------- MODULE ChannelHistory ---------------------------
(***************************************************************************)
(* Channel history end to end: the chat window's log (Timeline), the       *)
(* worker's requests (HistoryRequests), and a server that answers them     *)
(* late, in any order of lines, with a failure or not at all, while        *)
(* channels are joined and left, the capability comes and goes and the     *)
(* link is lost.                                                           *)
(*                                                                         *)
(* Four queues connect them: the window's commands, the worker's events    *)
(* and the two directions of the link.  Each keeps its order.              *)
(***************************************************************************)
EXTENDS HistoryRequests, Timeline, FiniteSets, Functions

CONSTANTS OlderLimit,     \* OLDER_PAGE_LIMIT
          MaxCommands,    \* the command queue of the connection
          MaxEvents,      \* room in the event queue
          MaxLines,       \* bound: lines said in a channel
          MaxOnWay,       \* bound: lines of the server on the way as somebody speaks
          MaxActs         \* bound: acts of the user, of the server and of the link

ASSUME ChannelHistoryAssumption ==
    /\ OlderLimit \in Nat \ {0} /\ MaxEvents \in Nat \ {0}
    /\ MaxCommands \in Nat /\ MaxLines \in Nat /\ MaxOnWay \in Nat /\ MaxActs \in Nat

VARIABLES
    h,                    \* Worker.history
    enabled,              \* Worker.history_enabled
    present,              \* the channels the worker is in
    up,                   \* the worker runs
    commands, events,     \* between the window and the worker
    toServer, toClient,   \* the link
    said, members,        \* the server: lines of a channel, channels we are in
    offered,              \* the server has the capability
    view,                 \* the application: a Timeline for each channel
    paging,               \* history_paging
    connected,            \* the window has a connection
    acts,
    \* History.
    asked,                \* requests sent on this connection
    sentAs,               \* the number of the outstanding request
    gaveUp                \* a channel whose missed lines nobody asks for

workerVars == <<h, enabled, present, up, sentAs>>
serverVars == <<said, members, offered>>
windowVars == <<view, paging, connected, gaveUp>>
vars == <<workerVars, commands, events, toServer, toClient, serverVars, windowVars,
          acts, asked>>

(* Lines of the server, commands and events share one shape.               *)
Note(kind, c) == [kind |-> kind, channel |-> c, number |-> 0, line |-> 0, flag |-> FALSE]
Numbered(kind, c, number) == [Note(kind, c) EXCEPT !.number = number]

AnyChannel == CHOOSE c \in Channels : TRUE

NothingToResume == [c \in Channels |-> 0]

Init ==
    /\ h = WithResume(NothingToResume)
    /\ enabled = FALSE
    /\ present = {}
    /\ up = FALSE
    /\ commands = <<>> /\ events = <<>> /\ toServer = <<>> /\ toClient = <<>>
    /\ said = [c \in Channels |-> 1]
    /\ members = {}
    /\ offered \in BOOLEAN
    /\ view = [c \in Channels |-> Empty]
    /\ paging = FALSE
    /\ connected = FALSE
    /\ acts = 0
    /\ asked = 0
    /\ sentAs = 0
    /\ gaveUp = {}

-----------------------------------------------------------------------------
(* The worker.                                                             *)

(* The event that reports a request's end; the line tells gaveUp that it   *)
(* failed, which the window is told of older pages only.                   *)
EndEvent(finished) ==
    LET recent == finished.page \in Recent
    IN  [Numbered(IF recent THEN "recentEnd" ELSE "olderEnd", finished.channel, finished.number)
            EXCEPT !.flag = IF recent THEN finished.incomplete ELSE OlderStatus(finished) # "more",
                   !.line = IF finished.failed THEN 1 ELSE 0]

EndEvents(ended) == [i \in DOMAIN ended |-> EndEvent(ended[i])]

(* The worker goes on with new requests after telling news: the next       *)
(* request goes out if none is being answered, and recent history is told. *)
SendNext(new, news, sent) ==
    IF ~Idle(new) \/ new.queue = <<>>
    THEN /\ h' = new
         /\ events' = events \o news
         /\ toServer' = toServer \o sent
         /\ UNCHANGED <<asked, sentAs>>
    ELSE LET r == Head(new.queue)
             line == [Numbered("chathistory", r.channel, asked + 1)
                        EXCEPT !.line = r.line, !.flag = r.page = "before"]
         IN  /\ h' = NextRequest(new)
             /\ asked' = asked + 1
             /\ sentAs' = asked + 1
             /\ toServer' = toServer \o sent \o <<line>>
             /\ events' = events \o news \o
                    (IF r.page = "before" THEN <<>>
                     ELSE <<[Note("requested", r.channel) EXCEPT !.flag = r.page = "resume"]>>)

(* Without the capability nothing is sent.                                 *)
Deliver(new, news) ==
    IF enabled' THEN SendNext(new, news, <<>>)
    ELSE h' = new /\ events' = events \o news /\ UNCHANGED <<toServer, asked, sentAs>>

(* A line that is not part of one of our replies.  A line of somebody      *)
(* else's batch is shown as replayed, one without a batch as live.         *)
ReceiveOrdinary(m) ==
    /\ UNCHANGED enabled
    /\ CASE m.kind = "joined" ->
              /\ present' = present \union {m.channel}
              /\ Deliver(IF enabled THEN Enqueue(h, m.channel) ELSE h,
                         <<Note("joined", m.channel)>>)
         [] m.kind = "parted" ->
              /\ present' = present \ {m.channel}
              /\ Deliver(IF enabled THEN Forget(h, m.channel) ELSE h,
                         EndEvents(IF enabled THEN Forgotten(h, m.channel) ELSE <<>>)
                            \o <<Note("parted", m.channel)>>)
         [] m.kind = "line" ->
              /\ UNCHANGED present
              /\ Deliver(h, <<[Note("line", m.channel) EXCEPT !.line = m.line]>>)
         [] m.kind \in {"open", "close", "fail"} ->
              UNCHANGED present /\ Deliver(h, <<>>)

Observe(m) ==
    CASE ~enabled -> Unrelated(h)
      [] enabled /\ m.kind = "open" -> ObserveOpen(h, m.number, m.channel, m.flag)
      [] enabled /\ m.kind = "close" -> ObserveClose(h, m.number)
      [] enabled /\ m.kind = "line" -> ObserveLine(h, m.number)
      [] enabled /\ m.kind = "fail" -> ObserveFail(h)
      [] OTHER -> Unrelated(h)

(* consume_own_replies *)
ReceiveReply(m) ==
    LET seen == Observe(m)
        o == h.outstanding
    IN  /\ UNCHANGED <<enabled, present>>
        /\ CASE seen.what = "unrelated" -> ReceiveOrdinary(m)
             [] seen.what = "consumed" ->
                  h' = seen.h /\ UNCHANGED <<events, toServer, asked, sentAs>>
             [] seen.what = "message" ->
                  /\ h' = seen.h
                  /\ events' = Append(events,
                        [Numbered("historyLine", o.request.channel, o.request.number)
                            EXCEPT !.line = m.line])
                  /\ UNCHANGED <<toServer, asked, sentAs>>
             [] seen.what = "finished" ->
                  SendNext(seen.h, <<EndEvent(seen.finished)>>, <<>>)

(* CAP DEL: everything asked for ends without lines.  CAP NEW, taken with  *)
(* its answers as one step: the channels we are in get their history.      *)
ReceiveCapability(m) ==
    LET EnqueueAll[left \in SUBSET Channels] ==
            IF left = {} THEN h
            ELSE LET c == CHOOSE c \in left : TRUE IN Enqueue(EnqueueAll[left \ {c}], c)
        told == [Note("available", AnyChannel) EXCEPT !.flag = m.flag]
    IN  /\ enabled' = m.flag
        /\ UNCHANGED present
        /\ CASE enabled /\ ~m.flag -> Deliver(Reset(h), EndEvents(EndedByReset(h)) \o <<told>>)
             [] ~enabled /\ m.flag -> Deliver(EnqueueAll[present], <<told>>)
             [] enabled = m.flag -> Deliver(h, <<>>)

(* The worker waits for the window while the event queue is full.          *)
Room == Len(events) < MaxEvents

Receive ==
    /\ up /\ toClient # <<>> /\ Room
    /\ LET m == Head(toClient)
       IN  CASE m.kind \in {"open", "close", "line", "fail"} -> ReceiveReply(m)
             [] m.kind \in {"joined", "parted"} -> ReceiveOrdinary(m)
             [] m.kind = "capability" -> ReceiveCapability(m)
    /\ toClient' = Tail(toClient)
    /\ UNCHANGED <<up, commands, serverVars, windowVars, acts>>

(* older_history, and JOIN and PART as typed.                              *)
TakeCommand ==
    /\ up /\ commands # <<>> /\ Room
    /\ LET k == Head(commands)
           r == Request(k.channel, "before", k.number, k.line)
       IN  CASE k.kind # "older" ->
                  /\ toServer' = Append(toServer, k)
                  /\ UNCHANGED <<h, events, asked, sentAs>>
             [] k.kind = "older" /\ enabled /\ MayEnqueueOlder(h, k.channel) ->
                  SendNext(EnqueueOlder(h, k.channel, k.number, k.line), <<>>, <<>>)
             [] OTHER ->
                  /\ events' = Append(events, EndEvent(Failed(r, 0)))
                  /\ UNCHANGED <<h, toServer, asked, sentAs>>
    /\ commands' = Tail(commands)
    /\ UNCHANGED <<enabled, present, up, toClient, serverVars, windowVars, acts>>

(* Slip: no timer for an older page. *)
TimeoutRecentOnly ==
    /\ up /\ enabled /\ Room /\ h.outstanding.page \in Recent
    /\ SendNext(Tick(h), <<EndEvent(Failed(h.outstanding.request, h.outstanding.kept))>>, <<>>)
    /\ UNCHANGED <<enabled, present, up, commands, toClient, serverVars, windowVars, acts>>

(* on_history_deadline *)
Timeout ==
    /\ up /\ enabled /\ ~Idle(h) /\ Room
    /\ SendNext(Tick(h), <<EndEvent(Failed(h.outstanding.request, h.outstanding.kept))>>, <<>>)
    /\ UNCHANGED <<enabled, present, up, commands, toClient, serverVars, windowVars, acts>>

-----------------------------------------------------------------------------
(* The server and the link.                                                *)

Tell(line) == toClient' = Append(toClient, line)

(* The newest lines after a reference (0: of all), or those right before   *)
(* it.                                                                     *)
Answer(request) ==
    LET n == said[request.channel]
        last  == IF request.flag THEN request.line - 1 ELSE n
        room  == IF request.flag THEN OlderLimit ELSE Limit
        least == IF request.flag THEN 1 ELSE request.line + 1
        first == IF last - room + 1 > least THEN last - room + 1 ELSE least
    IN  [lines |-> [i \in 1 .. (IF last >= first THEN last - first + 1 ELSE 0) |-> first + i - 1],
         complete |-> first = least]

Batch(request, lines, end) ==
    LET piece(kind) == Numbered(kind, request.channel, request.number)
    IN  <<[piece("open") EXCEPT !.flag = end]>>
        \o [i \in DOMAIN lines |-> [piece("line") EXCEPT !.line = lines[i]]]
        \o <<piece("close")>>

(* The server answers in full, in one of two orders and with or without    *)
(* the end tag, or with FAIL, or not at all.                               *)
ServeHistory ==
    /\ toServer # <<>> /\ Head(toServer).kind = "chathistory"
    /\ LET r == Head(toServer)
           a == Answer(r)
       IN  \/ \E lines \in {a.lines, Reverse(a.lines)}, end \in {FALSE, a.complete} :
                toClient' = toClient \o Batch(r, lines, end)
           \/ Tell(Note("fail", r.channel))
           \/ UNCHANGED toClient
    /\ toServer' = Tail(toServer)
    /\ UNCHANGED <<workerVars, commands, events, serverVars, windowVars, acts, asked>>

ServeMembership ==
    /\ toServer # <<>> /\ Head(toServer).kind \in {"join", "part"}
    /\ LET k == Head(toServer)
           change == (k.kind = "join") # (k.channel \in members)
       IN  /\ members' = IF k.kind = "join" THEN members \union {k.channel}
                         ELSE members \ {k.channel}
           /\ IF change THEN Tell(Note(IF k.kind = "join" THEN "joined" ELSE "parted", k.channel))
              ELSE UNCHANGED toClient
    /\ toServer' = Tail(toServer)
    /\ UNCHANGED <<workerVars, commands, events, said, offered, windowVars, acts, asked>>

(* Somebody speaks.                                                        *)
Speak(c) ==
    /\ said[c] < MaxLines /\ Len(toClient) < MaxOnWay
    /\ said' = [said EXCEPT ![c] = @ + 1]
    /\ IF up /\ c \in members THEN Tell([Note("line", c) EXCEPT !.line = said[c] + 1])
       ELSE UNCHANGED toClient
    /\ UNCHANGED <<workerVars, commands, events, toServer, members, offered, windowVars,
                   acts, asked>>

Act == acts < MaxActs /\ acts' = acts + 1

(* CAP DEL or CAP NEW.                                                     *)
ChangeCapability ==
    /\ Act
    /\ up
    /\ offered' = ~offered
    /\ Tell([Note("capability", AnyChannel) EXCEPT !.flag = ~offered])
    /\ UNCHANGED <<workerVars, commands, events, toServer, said, members, windowVars, asked>>

Kick(c) ==
    /\ Act
    /\ up /\ c \in members
    /\ members' = members \ {c}
    /\ Tell(Note("parted", c))
    /\ UNCHANGED <<workerVars, commands, events, toServer, said, offered, windowVars, asked>>

(* The connection ends; what is on the way is lost with it.                *)
LoseLink ==
    /\ Act
    /\ up
    /\ up' = FALSE
    /\ commands' = <<>> /\ toServer' = <<>> /\ toClient' = <<>>
    /\ events' = Append(events, Note("disconnected", AnyChannel))
    /\ members' = {}
    /\ h' = WithResume(NothingToResume)
    /\ present' = {}
    /\ enabled' = FALSE
    /\ asked' = 0 /\ sentAs' = 0
    /\ UNCHANGED <<said, offered, windowVars>>

-----------------------------------------------------------------------------
(* The window.                                                             *)

(* Registered, and the configured channels are joined.                     *)
Connect ==
    /\ ~connected /\ ~up /\ events = <<>>
    /\ connected' = TRUE
    /\ up' = TRUE
    /\ h' = WithResume([c \in Channels |-> view[c].cut])
    /\ enabled' = offered
    /\ events' = IF offered THEN <<[Note("available", AnyChannel) EXCEPT !.flag = TRUE]>>
                 ELSE <<>>
    /\ \E order \in SetToSeqs(Channels) :
            toServer' = [i \in DOMAIN order |-> Note("join", order[i])]
    /\ UNCHANGED <<present, sentAs, commands, toClient, serverVars, view, paging, gaveUp,
                   acts, asked>>

Command(k) == commands' = Append(commands, k)

(* load_older_history, while the user scrolls to the top.                  *)
Scroll(c) ==
    /\ Act
    /\ connected
    /\ MayAskOlder(view[c], paging)
    /\ IF Len(commands) < MaxCommands /\ up
       THEN /\ view' = [view EXCEPT ![c] = AskOlder(@, acts + 1)]
            /\ Command([Numbered("older", c, acts + 1) EXCEPT !.line = OlderReference(view[c])])
       ELSE /\ view' = [view EXCEPT ![c] = FinishOlder(AskOlder(@, acts + 1), acts + 1, TRUE)]
            /\ UNCHANGED commands
    /\ UNCHANGED <<workerVars, events, toServer, toClient, serverVars, paging, connected,
                   gaveUp, asked>>

JoinOrPart(c, kind) ==
    /\ Act
    /\ connected /\ up /\ Len(commands) < MaxCommands
    /\ Command(Note(kind, c))
    /\ UNCHANGED <<workerVars, events, toServer, toClient, serverVars, windowVars, asked>>

(* What an event does to the log of its channel.                           *)
Shown(t, e) ==
    CASE e.kind = "joined" -> Joined(t)
      [] e.kind = "parted" -> Parted(t)
      [] e.kind = "line" -> AppendLine(t, e.line)
      [] e.kind = "requested" /\ e.flag -> HistoryResumed(t)
      [] e.kind = "requested" /\ ~e.flag -> HistoryRequested(t)
      [] e.kind = "historyLine" /\ e.number = 0 -> PushHistoryLine(t, e.line)
      [] e.kind = "historyLine" /\ e.number # 0 -> PushOlderLine(t, e.number, e.line)
      [] e.kind = "recentEnd" -> FinishHistory(t, e.flag)
      [] e.kind = "olderEnd" -> FinishOlder(t, e.number, e.flag)

(* A channel stops waiting for the lines it missed: it was left, its       *)
(* latest lines are asked for instead, or the request for them failed.     *)
Abandons(t, e) ==
    \/ e.kind = "parted"
    \/ e.kind = "requested" /\ ~e.flag /\ t.cut # 0
    \/ e.kind \in {"recentEnd", "olderEnd"} /\ e.line = 1

HandleEvent ==
    /\ events # <<>>
    /\ LET e == Head(events)
       IN  CASE e.kind = "available" ->
                  paging' = e.flag /\ UNCHANGED <<view, connected, gaveUp>>
             [] e.kind = "disconnected" ->
                  /\ view' = [c \in Channels |-> Disconnected(view[c], paging)]
                  /\ paging' = FALSE
                  /\ connected' = FALSE
                  /\ gaveUp' = gaveUp \union 
                        {c \in Channels : view[c].active /\ (~paging \/ view[c].flight # 0)}
             [] OTHER ->
                  /\ view' = [view EXCEPT ![e.channel] = Shown(@, e)]
                  /\ gaveUp' = IF Abandons(view[e.channel], e) THEN gaveUp \union {e.channel}
                               ELSE gaveUp
                  /\ UNCHANGED <<paging, connected>>
    /\ events' = Tail(events)
    /\ UNCHANGED <<workerVars, commands, toServer, toClient, serverVars, acts, asked>>

-----------------------------------------------------------------------------
Next ==
    \/ Receive \/ TakeCommand \/ Timeout
    \/ ServeHistory \/ ServeMembership \/ ChangeCapability \/ LoseLink
    \/ Connect \/ HandleEvent
    \/ \E c \in Channels :
          \/ Speak(c) \/ Kick(c) \/ Scroll(c)
          \/ JoinOrPart(c, "join") \/ JoinOrPart(c, "part")

(* The worker and the window go on with what they have, and a request's    *)
(* time runs out.  The server owes nothing.                                *)
Fairness ==
    WF_vars(Receive) /\ WF_vars(TakeCommand) /\ WF_vars(Timeout) /\ WF_vars(HandleEvent)

Spec == Init /\ [][Next]_vars /\ Fairness

-----------------------------------------------------------------------------
(* Types, and the limits of the queue and of the abandoned requests, which *)
(* falling back and giving up could pass.                                  *)
TypeOK ==
    /\ enabled \in BOOLEAN /\ up \in BOOLEAN /\ paging \in BOOLEAN /\ connected \in BOOLEAN
    /\ present \subseteq Channels /\ members \subseteq Channels /\ gaveUp \subseteq Channels
    /\ said \in [Channels -> 0 .. MaxLines]
    /\ h.outstanding.page \in Pages \union {"none"}
    /\ \A i \in DOMAIN h.queue : h.queue[i].page \in Pages
    /\ Len(h.queue) <= MaxQueued /\ Len(h.abandoned) <= MaxAbandoned
    /\ Len(commands) <= MaxCommands
    /\ \A c \in Channels : Lines(view[c]) \subseteq 1 .. said[c]

CountOf(seq, Test(_)) == Cardinality({i \in DOMAIN seq : Test(seq[i])})

(* Where the page the window waits for is. *)
OlderRequests(c) ==
    LET r == view[c].flight
    IN  CountOf(commands, LAMBDA k : k.kind = "older" /\ k.number = r)
        + CountOf(h.queue, LAMBDA q : q.page = "before" /\ q.number = r)
        + (IF h.outstanding.page = "before" /\ h.outstanding.request.number = r THEN 1 ELSE 0)
        + CountOf(events, LAMBDA e : e.kind = "olderEnd" /\ e.number = r)

(* Every older page ends in exactly one OlderChannelHistory (spec/         *)
(* architecture.md, Older pages), through leaving the channel, losing the  *)
(* capability, failures and timeouts: while the window waits for a page    *)
(* and its worker runs, the page is at one place between the two.          *)
OlderPageAnsweredOnce ==
    \A c \in Channels : view[c].flight # 0 /\ up => OlderRequests(c) = 1

(* A log that holds back the lines of recent history, and refuses older    *)
(* pages meanwhile (request_older_history), gets the end of that reply.    *)
RecentIsAnswered ==
    \A c \in Channels : view[c].waiting /\ up =>
        \/ h.outstanding.page \in Recent /\ h.outstanding.request.channel = c
        \/ \E i \in DOMAIN events : events[i].kind = "recentEnd" /\ events[i].channel = c

(* The worker asks whenever it may: no request waits while none is being   *)
(* answered, whichever handler ended the last one (send_next_history).     *)
QueueIsServed == Idle(h) => h.queue = <<>>

(* Nothing about the channel is on its way to its log. *)
Settled(c) ==
    /\ view[c].active /\ ~view[c].waiting /\ view[c].flight = 0 /\ view[c].cut = 0
    /\ \A i \in DOMAIN events : events[i].channel # c

(* Lines the log has without the line that follows them. *)
Holes(t) == {n \in Lines(t) : n # Max(Lines(t)) /\ n + 1 \notin Lines(t)}

(* Lines missed while disconnected are in the log, or the log says that    *)
(* some are not (HISTORY_GAP_NOTE), over disconnects in the middle of a    *)
(* recovery, lines that arrive live meanwhile and replies cut short by the *)
(* limit; except where the code gives up (gaveUp).                         *)
NoSilentGap ==
    \A c \in Channels \ gaveUp : Settled(c) =>
        Cardinality(Holes(view[c])) <= CountOf(view[c].log, LAMBDA n : n = Gap)

(* An older page ends, so that the user can ask for another: whatever the  *)
(* server does, the timer or the connection's end ends it.                 *)
OlderPageEnds == \A c \in Channels : view[c].flight # 0 ~> view[c].flight = 0

(* Recent history ends, and what was held back is shown. *)
RecentEnds == \A c \in Channels : view[c].waiting ~> ~view[c].waiting

(* A late reply is swallowed "rather than shown as live or as another      *)
(* request's reply" (spec/architecture.md:1716): the batch taken for the   *)
(* reply is the one of the request being answered.                         *)
LateReplyIsNotAnothers ==
    h.outstanding.page # "none" /\ h.outstanding.ref # 0 => h.outstanding.ref = sentAs

(* "Lines the conversation already has are skipped by the duplicate        *)
(* filter" (crates/app/src/lib.rs:1552).                                   *)
NoLineTwice ==
    \A c \in Channels : \A i, j \in DOMAIN view[c].log :
        i # j /\ view[c].log[i] # Gap => view[c].log[i] # view[c].log[j]

=============================================================================

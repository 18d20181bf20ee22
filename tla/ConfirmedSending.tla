-------------------------- MODULE ConfirmedSending --------------------------
(***************************************************************************)
(* Sending with echo-message and labeled-response: the worker's pending    *)
(* messages (crates/irc-core/echo.rs), the window's own lines that wait    *)
(* for their echo and the conversation log that holds them back            *)
(* (crates/ui/main.rs, conversation_log.rs, crates/app), a server that     *)
(* may rewrite, refuse, lose or acknowledge a message, name it by its      *)
(* label or by a batch, and take either capability away and offer it       *)
(* again, and another client of the same nickname.                         *)
(*                                                                         *)
(* A message is its number; `of` on lines and events tells which message   *)
(* they are about and is read by the properties only, as the code has no   *)
(* such mark (0: another client's).  A target is a channel or a person.    *)
(***************************************************************************)
EXTENDS Integers, Sequences, SequencesExt, FiniteSets, Functions

CONSTANTS
    Targets, Texts,
    MaxPending,     \* MAX_PENDING, messages waiting for their echo
    MaxBatches,     \* MAX_BATCHES, label batches followed at once
    HeldLimit,      \* PENDING_LIMIT, own messages the log holds back
    Followed,       \* own lines the window finds again (64)
    Replaces,       \* a new connection may come while the old one runs
    MaxSends,       \* bound: messages sent
    MaxTurns,       \* bound: what the server, the user and the link do besides
    MaxOnWay,       \* bound: lines on the way when somebody sends another
    MaxEvents       \* room in the event queue

AsSent == 0

ASSUME ConfirmedSendingAssumption ==
    /\ Targets # {} /\ Texts # {} /\ AsSent \notin Texts
    /\ MaxPending \in Nat \ {0} /\ MaxBatches \in Nat \ {0}
    /\ HeldLimit \in Nat
    /\ Followed \in Nat /\ MaxPending <= Followed
    /\ Replaces \in BOOLEAN
    /\ MaxSends \in Nat /\ MaxTurns \in Nat /\ MaxOnWay \in Nat
    /\ MaxEvents \in Nat \ {0}

VARIABLES
    worker,      \* the worker of the connection, see NewWorker
    events,      \* from the worker to the window
    toServer, toClient,
    server,      \* the capabilities as the server has them
    lines,       \* the conversation: own lines and lines received
    following,   \* pending_sends: local id to line
    held,        \* ConversationLogs.pending: local id to record
    logging,     \* the targets whose conversations are logged
    log,         \* how often it says that a text was said, as a confirmed line
    relayed,     \* history: how often the server delivered it to the target
    sends, turns

windowVars == <<lines, following, held, logging, log>>
vars == <<worker, events, toServer, toClient, server, windowVars, relayed, sends, turns>>

Capability == {"echo", "label"}
Offers == {Capability, {"echo"}}

NewWorker ==
    [up |-> TRUE,
     enabled |-> Capability,
     pending |-> <<>>,        \* Echoes.pending
     nextLabel |-> 0,
     batches |-> <<>>,        \* Echoes.batches, by the label they carry
     nextId |-> 0]            \* next_local_id

(* Everything on the link, in either direction.                            *)
Line(kind, of, target, text, label) ==
    [kind |-> kind, of |-> of, target |-> target, text |-> text, label |-> label,
     batch |-> 0, cap |-> ""]
AnyTarget == CHOOSE t \in Targets : TRUE
AnyText == CHOOSE t \in Texts : TRUE
Bare(kind, label) == Line(kind, 0, AnyTarget, AnyText, label)
CapLine(kind, cap) == [Bare(kind, 0) EXCEPT !.cap = cap]

(* Everything the worker tells the window.                                 *)
Event(kind, id, of, target, text) ==
    [kind |-> kind, id |-> id, of |-> of, target |-> target, text |-> text]

NoMore == [kind |-> "disconnected", id |-> 0, of |-> 0, target |-> AnyTarget, text |-> AnyText]
Failed(p) == Event("failed", p.id, p.of, p.target, p.text)

NoneSaid == [target \in Targets |-> [text \in Texts |-> 0]]
Once(said, target, text) == [said EXCEPT ![target][text] = @ + 1]

Init ==
    /\ worker \in {[NewWorker EXCEPT !.enabled = e] : e \in Offers}
    /\ events = <<>> /\ toServer = <<>> /\ toClient = <<>>
    /\ server = worker.enabled
    /\ lines = <<>>
    /\ following = << >>
    /\ held = << >>
    /\ logging = Targets
    /\ log = NoneSaid
    /\ relayed = NoneSaid
    /\ sends = 0 /\ turns = 0

Turn == turns < MaxTurns /\ turns' = turns + 1
Room == Len(events) < MaxEvents
ServerMaySend == Len(toClient) < MaxOnWay

-----------------------------------------------------------------------------
(* Echoes: operators on the worker.                                        *)

Labeled(w) == "label" \in w.enabled

Tracks(w) == "echo" \in w.enabled /\ Len(w.pending) < MaxPending

(* track: only what is tracked takes a label.                              *)
Track(w, of, target, text) ==
    LET label == IF Labeled(w) THEN w.nextLabel + 1 ELSE 0
        p == [id |-> w.nextId, of |-> of, target |-> target, text |-> text, label |-> label]
    IN  IF Tracks(w)
        THEN [w EXCEPT !.pending = Append(@, p),
                       !.nextLabel = IF Labeled(w) THEN @ + 1 ELSE @]
        ELSE w

(* Slip: the oldest goes, whichever was answered. *)
TakeOldest(w, i) == [w EXCEPT !.pending = Tail(@)]

Take(w, i) == [w EXCEPT !.pending = RemoveAt(@, i)]

(* The start of a labelled batch is followed while its message is pending, *)
(* its end always.                                                         *)
Framing(m) == m.kind \in {"open", "close"}

Frames(w, m) ==
    IF m.kind = "open" THEN \E i \in DOMAIN w.pending : w.pending[i].label = m.label
    ELSE m.label \in ToSet(w.batches)

Frame(w, m) ==
    LET kept == IF Len(w.batches) >= MaxBatches THEN Tail(w.batches) ELSE w.batches
    IN  [w EXCEPT !.batches = IF m.kind = "open" THEN Append(RemoveFirst(kept, m.label), m.label)
                              ELSE RemoveFirst(@, m.label)]

(* The label that names a line: its own, or the one of its batch.          *)
LabelOf(w, m) ==
    IF m.label # 0 THEN m.label
    ELSE IF m.batch # 0 /\ m.batch \in ToSet(w.batches) THEN m.batch ELSE 0

(* Slip: labels never fall back to texts. *)
ResemblesUnlabeledOnly(w, m, p) ==
    p.label = 0 /\ p.target = m.target /\ p.text = m.text

(* By target and text: while labels are on, messages sent without one.     *)
Resembles(w, m, p) ==
    (p.label = 0 \/ ~Labeled(w)) /\ p.target = m.target /\ p.text = m.text

(* The pending message a line belongs to, 0: none.                         *)
Belongs(w, m, p) ==
    /\ m.kind \in {"text", "ack", "error"}
    /\ IF LabelOf(w, m) # 0 THEN p.label = LabelOf(w, m)
       ELSE m.kind = "text" /\ Resembles(w, m, p)

Matching(w, m) == SelectInSeq(w.pending, LAMBDA p : Belongs(w, m, p))

(* Slip: any labelled answer confirms. *)
AnswerConfirms(p, m) ==
    Event("confirmed", p.id, p.of, p.target,
          IF m.kind # "text" \/ m.text = p.text THEN AsSent ELSE m.text)

(* An ACK confirms a line as it stands; an echo carries the server's text  *)
(* if it is another one.                                                   *)
Answer(p, m) ==
    IF m.kind = "error" THEN Failed(p)
    ELSE Event("confirmed", p.id, p.of, p.target,
               IF m.kind = "ack" \/ m.text = p.text THEN AsSent ELSE m.text)

(* observe: the worker after the line, and what it tells.  A line that is  *)
(* no answer is shown, an error or an ACK not as a message.                *)
Observe(w, m) ==
    LET i == Matching(w, m)
    IN  IF Framing(m) THEN [w |-> IF Frames(w, m) THEN Frame(w, m) ELSE w, tells |-> <<>>]
        ELSE IF i # 0 THEN [w |-> Take(w, i), tells |-> <<Answer(w.pending[i], m)>>]
        ELSE [w |-> w, tells |-> IF m.kind = "text"
                                 THEN <<Event("message", 0, m.of, m.target, m.text)>>
                                 ELSE <<>>]

Reset(w) == [w EXCEPT !.pending = <<>>, !.batches = <<>>]

-----------------------------------------------------------------------------
(* The worker.                                                             *)

(* send_message: the message is tracked before it is written, and not any  *)
(* longer if it cannot be.  The window learns the local id of a tracked    *)
(* one, which its answer will carry.                                       *)
Send(target, text, written) ==
    LET w == [worker EXCEPT !.nextId = @ + 1]
        new == Track(w, sends + 1, target, text)
        label == IF new.pending # w.pending THEN Last(new.pending).label ELSE 0
        id == IF new.pending # w.pending THEN w.nextId ELSE 0
    IN  /\ worker.up /\ Room /\ sends < MaxSends /\ Len(toServer) < MaxOnWay
        /\ sends' = sends + 1
        /\ IF written
           THEN /\ worker' = new
                /\ toServer' = Append(toServer, Line("text", sends + 1, target, text, label))
                /\ events' = Append(events, Event("accepted", id, sends + 1, target, text))
           ELSE /\ worker' = [new EXCEPT !.pending = w.pending]
                /\ UNCHANGED <<toServer, events>>
        /\ UNCHANGED <<toClient, server, windowVars, relayed, turns>>

(* CAP DEL, NEW and ACK; what was offered again is asked for.              *)
Negotiate(w, m) ==
    [w EXCEPT !.enabled = IF m.kind = "del" THEN @ \ {m.cap}
                          ELSE IF m.kind = "granted" THEN @ \union {m.cap} ELSE @]

(* observe_echoes: without echo-message nothing stays pending.             *)
Receive ==
    LET m == Head(toClient)
        w == Negotiate(worker, m)
        stops == "echo" \notin w.enabled /\ w.pending # <<>>
        seen == Observe(IF stops THEN Reset(w) ELSE w, m)
        failures == IF stops THEN [i \in DOMAIN w.pending |-> Failed(w.pending[i])] ELSE <<>>
    IN  /\ worker.up /\ Room /\ toClient # <<>>
        /\ toClient' = Tail(toClient)
        /\ worker' = seen.w
        /\ events' = events \o failures \o seen.tells
        /\ toServer' = IF m.kind = "new" THEN Append(toServer, CapLine("req", m.cap))
                       ELSE toServer
        /\ UNCHANGED <<server, windowVars, relayed, sends, turns>>

(* on_echo_deadline: PENDING_TTL passes for the oldest.                    *)
Expire ==
    /\ worker.up /\ Room /\ worker.pending # <<>>
    /\ worker' = [worker EXCEPT !.pending = Tail(@)]
    /\ events' = Append(events, Failed(Head(worker.pending)))
    /\ UNCHANGED <<toServer, toClient, server, windowVars, relayed, sends, turns>>

-----------------------------------------------------------------------------
(* The server and another client.                                          *)

(* The echo of a message, alone or in a batch that carries the label.      *)
Echo(m, text, label, batched) ==
    LET line == Line("text", m.of, m.target, text, label)
    IN  IF batched
        THEN <<Bare("open", label), [line EXCEPT !.label = 0, !.batch = label],
               Bare("close", label)>>
        ELSE <<line>>

NextTaken ==
    /\ toServer # <<>> /\ ServerMaySend
    /\ toServer' = Tail(toServer)
    /\ UNCHANGED <<worker, events, windowVars, sends>>

Says(m) == IF "label" \in server THEN m.label ELSE 0

Deliver(text, batched) ==
    LET m == Head(toServer)
    IN  /\ NextTaken /\ m.kind = "text"
        /\ batched => Says(m) # 0
        /\ relayed' = Once(relayed, m.target, text)
        /\ toClient' = IF "echo" \in server
                       THEN toClient \o Echo(m, text, Says(m), batched) ELSE toClient
        /\ UNCHANGED <<server, turns>>

Acknowledge ==
    LET m == Head(toServer)
    IN  /\ NextTaken /\ m.kind = "text" /\ Says(m) # 0
        /\ relayed' = Once(relayed, m.target, m.text)
        /\ toClient' = Append(toClient, Bare("ack", Says(m)))
        /\ UNCHANGED <<server, turns>>

(* Without a label nobody can tell what an error is about.                 *)
Refuse ==
    LET m == Head(toServer)
    IN  /\ NextTaken /\ m.kind = "text"
        /\ toClient' = Append(toClient, Bare("error", Says(m)))
        /\ UNCHANGED <<server, relayed, turns>>

Grant ==
    LET m == Head(toServer)
    IN  /\ NextTaken /\ m.kind = "req"
        /\ server' = server \union {m.cap}
        /\ toClient' = Append(toClient, CapLine("granted", m.cap))
        /\ UNCHANGED <<relayed, turns>>

Withdraw(cap) ==
    /\ worker.up /\ cap \in server /\ ServerMaySend /\ Turn
    /\ server' = server \ {cap}
    /\ toClient' = Append(toClient, CapLine("del", cap))
    /\ UNCHANGED <<worker, events, toServer, windowVars, relayed, sends>>

Offer(cap) ==
    /\ worker.up /\ cap \notin server /\ ServerMaySend /\ Turn
    /\ toClient' = Append(toClient, CapLine("new", cap))
    /\ UNCHANGED <<worker, events, toServer, server, windowVars, relayed, sends>>

OtherClientSends(target, text) ==
    /\ worker.up /\ ServerMaySend /\ Turn
    /\ relayed' = Once(relayed, target, text)
    /\ toClient' = Append(toClient, Line("text", 0, target, text, 0))
    /\ UNCHANGED <<worker, events, toServer, server, windowVars, sends>>

(* The link ends; the server may still take what it has received.          *)
Amount(s, target, text, P(_)) ==
    Cardinality({i \in DOMAIN s : s[i].target = target /\ s[i].text = text /\ P(s[i])})

StillTaken(k) ==
    relayed' = [target \in Targets |-> [text \in Texts |->
                  relayed[target][text]
                    + Amount(SubSeq(toServer, 1, k), target, text, LAMBDA m : m.kind = "text")]]

LinkEnds ==
    /\ worker.up /\ Room /\ Turn
    /\ \E k \in 0..Len(toServer) : StillTaken(k)
    /\ worker' = [worker EXCEPT !.up = FALSE]
    /\ events' = Append(events, NoMore)
    /\ toServer' = <<>> /\ toClient' = <<>>
    /\ UNCHANGED <<server, windowVars, sends>>

-----------------------------------------------------------------------------
(* The window.                                                             *)

(* connection_starting: the events of an earlier connection are not taken  *)
(* any more, and its lines not followed.                                   *)
Connect ==
    /\ IF Replaces THEN Turn ELSE ~worker.up /\ events = <<>> /\ UNCHANGED turns
    /\ \E k \in 0..Len(toServer) : StillTaken(k)
    /\ \E e \in Offers :
          worker' = [NewWorker EXCEPT !.enabled = e] /\ server' = e
    /\ events' = <<>> /\ toServer' = <<>> /\ toClient' = <<>>
    /\ following' = << >>
    /\ UNCHANGED <<lines, held, logging, log, sends>>

(* A changed setting drops what is held for a log that is now off.         *)
SetLogging(targets) ==
    /\ Turn
    /\ logging' = targets
    /\ held' = RestrictDomain(held, LAMBDA id : held[id].target \in targets)
    /\ UNCHANGED <<worker, events, toServer, toClient, server, lines, following, log,
                   relayed, sends>>

Without(f, id) == RestrictDomain(f, LAMBDA x : x # id)
With(f, id, value) == [x \in {id} \cup DOMAIN f |-> IF x = id THEN value ELSE f[x]]
Shown(e, own, status) ==
    [of |-> e.of, target |-> e.target, text |-> e.text, id |-> e.id, own |-> own,
     status |-> status]

(* write_log: if its conversation is logged now.                           *)
Write(target, text) ==
    log' = IF target \in logging THEN Once(log, target, text) ELSE log

(* Our own line is logged once it is confirmed.  One that no echo will     *)
(* confirm is logged at once, which log does not count.                    *)
Accepted(e) ==
    /\ lines' = Append(lines, Shown(e, TRUE, "sent"))
    /\ following' = IF e.id # 0 /\ Cardinality(DOMAIN following) < Followed
                    THEN With(following, e.id, Len(lines) + 1) ELSE following
    /\ held' = IF e.id # 0 /\ e.target \in logging /\ Cardinality(DOMAIN held) < HeldLimit
               THEN With(held, e.id, [target |-> e.target, text |-> e.text]) ELSE held
    /\ UNCHANGED log

FinalText(shown, e) == IF e.text = AsSent THEN shown.text ELSE e.text

(* release_own_message, confirm_message                                    *)
Confirmed(e) ==
    /\ IF e.id \in DOMAIN held THEN Write(held[e.id].target, FinalText(held[e.id], e))
       ELSE UNCHANGED log
    /\ held' = Without(held, e.id)
    /\ lines' = IF e.id \in DOMAIN following
                THEN [lines EXCEPT ![following[e.id]].status = "confirmed",
                                   ![following[e.id]].text =
                                       FinalText(lines[following[e.id]], e)]
                ELSE lines
    /\ following' = Without(following, e.id)

(* drop_own_message, fail_message                                          *)
NotConfirmed(e) ==
    /\ held' = Without(held, e.id)
    /\ lines' = IF e.id \in DOMAIN following
                THEN [lines EXCEPT ![following[e.id]].status = "failed"] ELSE lines
    /\ following' = Without(following, e.id)
    /\ UNCHANGED log

MessageShown(e) ==
    /\ lines' = Append(lines, Shown(e, FALSE, "received"))
    /\ Write(e.target, e.text)
    /\ UNCHANGED <<following, held>>

(* Slip: lines that waited stay as they are. *)
DisconnectedQuietly == following' = << >> /\ held' = << >> /\ UNCHANGED <<lines, log>>

Disconnected ==
    /\ lines' = [i \in DOMAIN lines |-> IF i \in Range(following)
                                        THEN [lines[i] EXCEPT !.status = "failed"]
                                        ELSE lines[i]]
    /\ following' = << >> /\ held' = << >>
    /\ UNCHANGED log

HandleEvent ==
    LET e == Head(events)
    IN  /\ events # <<>>
        /\ events' = Tail(events)
        /\ \/ e.kind = "accepted" /\ Accepted(e)
           \/ e.kind = "confirmed" /\ Confirmed(e)
           \/ e.kind = "failed" /\ NotConfirmed(e)
           \/ e.kind = "message" /\ MessageShown(e)
           \/ e.kind = "disconnected" /\ Disconnected
        /\ UNCHANGED <<worker, toServer, toClient, server, logging, relayed, sends, turns>>

-----------------------------------------------------------------------------
Serve ==
    \/ \E text \in Texts, batched \in BOOLEAN : Deliver(text, batched)
    \/ Acknowledge \/ Refuse \/ Grant

Next ==
    \/ \E target \in Targets, text \in Texts, written \in BOOLEAN : Send(target, text, written)
    \/ Receive \/ Expire \/ HandleEvent
    \/ Serve
    \/ \E cap \in Capability : Withdraw(cap) \/ Offer(cap)
    \/ \E target \in Targets, text \in Texts : OtherClientSends(target, text)
    \/ \E targets \in SUBSET Targets : SetLogging(targets)
    \/ LinkEnds \/ Connect

(* The timer of the oldest pending message runs, the window pumps events.  *)
(* The server owes nothing.                                                *)
Fairness == WF_vars(Expire) /\ WF_vars(HandleEvent)

Spec == Init /\ [][Next]_vars /\ Fairness

-----------------------------------------------------------------------------
(* Properties.                                                             *)

Ids(kinds) == {events[i].id : i \in {j \in DOMAIN events : events[j].kind \in kinds}} \ {0}

(* The window still waits for exactly the messages the worker still has    *)
(* pending, if it is told of what is on the way: no answer comes for a     *)
(* line the window does not find again, and none is waited for that        *)
(* cannot come (Echoes.pending and ServerSession.pending_sends).           *)
FollowedAsTracked ==
    worker.up =>
      (DOMAIN following \union Ids({"accepted"})) \ Ids({"confirmed", "failed"})
        = {worker.pending[i].id : i \in DOMAIN worker.pending}

(* The conversation shows as delivered no more lines with a text than the  *)
(* server delivered, and a text that is not the one we sent is what it     *)
(* made of this message (Echoes::observe, AppState::confirm_message).      *)
ShownAsDelivered ==
    \A target \in Targets, text \in Texts :
      Amount(lines, target, text, LAMBDA l : l.status \in {"confirmed", "received"})
        <= relayed[target][text]

(* The echo of a message that the server did not change never appears as   *)
(* a line of its own while the line of that message waits for it           *)
(* (Echoes::observe).  A message beyond MAX_PENDING, and one sent before   *)
(* the capability was granted again, is not waited for.                    *)
NeverTwice ==
    \A i, j \in DOMAIN lines :
      ~ /\ lines[i].status = "received" /\ lines[j].status = "sent" /\ lines[j].id # 0
        /\ lines[i].of = lines[j].of /\ lines[i].text = lines[j].text

(* The log never says more often that a text was said than it was          *)
(* delivered; an own line that no echo will confirm is logged unseen       *)
(* (ChatWindow::hold_own_message, release_own_message).                    *)
LogIsTrue ==
    \A target \in Targets, text \in Texts :
      log[target][text] <= relayed[target][text]

(* A line that waits for its echo is confirmed or marked as not delivered  *)
(* at last, whatever the server and the link do (PENDING_TTL, the end of   *)
(* the connection).                                                        *)
Waiting(n) ==
    \E i \in DOMAIN lines : lines[i].of = n /\ lines[i].own /\ lines[i].status = "sent" /\ lines[i].id # 0
EveryLineSettles == \A n \in 1..MaxSends : Waiting(n) ~> ~Waiting(n)

=============================================================================

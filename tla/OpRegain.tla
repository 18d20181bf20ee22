------------------------------ MODULE OpRegain ------------------------------
(***************************************************************************)
(* Getting operator status back (crates/irc-core/src/regain.rs): a client  *)
(* left alone in a channel without being its operator parts and joins it   *)
(* again, which on networks where the creator of a channel becomes         *)
(* operator gets the status back, and puts the flags and the topic back.   *)
(*                                                                         *)
(* The worker feeds the state machine with what the server says and sends  *)
(* what it asks for (handle events, poll_regain and apply_regain of        *)
(* lib.rs), while the user joins and parts and others come and go.  The    *)
(* two directions of the link keep their order and take any time.          *)
(* What the server knows of a channel is gone with its last member.        *)
(***************************************************************************)
EXTENDS Integers, Sequences, FiniteSets, SequencesExt

CONSTANTS Channels,
          MaxRejoins,     \* MAX_REJOINS_PER_POLL
          SlowServer,     \* a PART may be answered later than STABLE
          MaxActs         \* bound: acts of the user and of others

ASSUME OpRegainAssumption ==
    /\ IsFiniteSet(Channels)
    /\ MaxRejoins \in Nat \ {0} /\ SlowServer \in BOOLEAN /\ MaxActs \in Nat

VARIABLES
    channel,              \* OpRegain.channels, a record for each
    known,                \* ChannelModes.flags
    toServer, toClient,   \* the link
    members, ops, flags, topic,     \* the server
    acts,
    \* History.
    told,                 \* the last OpRegainStatus of a channel still tracked
    left,                 \* the user left it, and has not joined it since
    credit,               \* attempts a channel has earned and not had
    before                \* what the server had as an attempt began

clientVars  == <<channel, known, told>>
serverVars  == <<members, ops, flags, topic>>
historyVars == <<left, credit, before>>
vars == <<clientVars, toServer, toClient, serverVars, acts, historyVars>>

Topics == {"none", "short", "long"}
Stages == {"watching", "settling", "attempt", "restoring"}
Results == {"regained", "restoreFailed", "topicTooLong", "notRegained", "rejoinFailed"}

Untracked == [tracked |-> FALSE, tried |-> FALSE, inChannel |-> FALSE,
              synced |-> FALSE, op |-> FALSE, alone |-> FALSE, topic |-> "none",
              stage |-> "watching", parted |-> FALSE, joined |-> FALSE,
              keepFlags |-> FALSE, keepTopic |-> "none", topicSeen |-> FALSE]

(* What an attempt must bring back, unless somebody else interferes. *)
Unknown == [sure |-> FALSE, flags |-> FALSE, topic |-> "none"]

Line(kind, c) == [kind |-> kind, channel |-> c, flags |-> FALSE, topic |-> "none",
                  users |-> {}, ops |-> {}, complete |-> FALSE, user |-> FALSE]

Init ==
    /\ channel = [c \in Channels |-> Untracked]
    /\ known = [c \in Channels |-> "unknown"]
    /\ toServer = <<>> /\ toClient = <<>>
    /\ members \in [Channels -> {{}, {"other"}}]
    /\ ops = members
    /\ topic \in {t \in [Channels -> Topics] :
                    \A c \in Channels : members[c] = {} => t[c] = "none"}
    /\ flags = [c \in Channels |-> members[c] # {}]
    /\ acts = 0
    /\ told = [c \in Channels |-> "none"]
    /\ left = [c \in Channels |-> TRUE]
    /\ credit = [c \in Channels |-> 0]
    /\ before = [c \in Channels |-> Unknown]

-----------------------------------------------------------------------------
(* The client takes a line of the server. *)

(* Slip: a JOIN of ours starts the channel anew. *)
JoinedAfresh(old) ==
    [Untracked EXCEPT !.tracked = TRUE, !.inChannel = TRUE,
        !.stage = IF old.stage = "attempt" /\ old.parted THEN "attempt" ELSE "watching",
        !.parted = old.parted, !.joined = old.stage = "attempt" /\ old.parted,
        !.keepFlags = old.keepFlags, !.keepTopic = old.keepTopic]

(* joined: the roster and the topic are yet to come. *)
Joined(old) ==
    LET ours == old.stage = "attempt" /\ old.parted
    IN  [old EXCEPT !.tracked = TRUE, !.inChannel = TRUE, !.synced = FALSE,
            !.op = FALSE, !.alone = FALSE, !.topic = "none",
            !.stage = IF ours THEN "attempt" ELSE "watching", !.joined = ours]

ReceiveJoined(line) ==
    LET c == line.channel
    IN  /\ line.kind = "joined"
        /\ channel' = [channel EXCEPT ![c] = Joined(@)]
        /\ known' = [known EXCEPT ![c] = "unknown"]
        /\ toServer' = Append(toServer, Line("query", c))
        /\ UNCHANGED told

(* parted: the first one of an attempt lets the JOIN go; any other forgets *)
(* the channel.                                                            *)
ReceiveParted(line) ==
    LET c == line.channel
        awaited == channel[c].stage = "attempt" /\ ~channel[c].parted /\ ~channel[c].joined
    IN  /\ line.kind = "parted"
        /\ known' = [known EXCEPT ![c] = "unknown"]
        /\ IF awaited
           THEN /\ channel' = [channel EXCEPT ![c].parted = TRUE, ![c].inChannel = FALSE]
                /\ toServer' = Append(toServer, Line("join", c))
                /\ UNCHANGED told
           ELSE /\ channel' = [channel EXCEPT ![c] = Untracked]
                /\ told' = [told EXCEPT ![c] = "none"]
                /\ UNCHANGED toServer

ReceiveTopic(line) ==
    LET c == line.channel
    IN  /\ line.kind = "topic"
        /\ channel' = IF ~channel[c].tracked THEN channel
                      ELSE [channel EXCEPT ![c].topic = line.topic,
                              ![c].topicSeen = @ \/ /\ channel[c].stage = "restoring"
                                                    /\ channel[c].keepTopic = line.topic]
        /\ UNCHANGED <<known, told, toServer>>

(* 324 or a MODE; a MODE before the 324 has no baseline. *)
ReceiveModes(line) ==
    LET c == line.channel
    IN  /\ line.kind = "modes"
        /\ known' = IF line.complete \/ known[c] # "unknown"
                    THEN [known EXCEPT ![c] = IF line.flags THEN "flags" ELSE "none"]
                    ELSE known
        /\ UNCHANGED <<channel, told, toServer>>

ReceiveRefused(line) ==
    LET c == line.channel
    IN  /\ line.kind = "refused"
        /\ IF channel[c].stage = "attempt"
           THEN /\ channel' = [channel EXCEPT ![c].stage = "watching",
                                              ![c].inChannel = FALSE]
                /\ told' = [told EXCEPT ![c] = "rejoinFailed"]
           ELSE UNCHANGED <<channel, told>>
        /\ UNCHANGED <<known, toServer>>

(* The roster as the channel knows it after this line. *)
WithRoster(old, line) ==
    LET op == "me" \in line.ops
    IN  [old EXCEPT !.synced = TRUE, !.op = op, !.alone = line.users = {"me"},
                    !.tried = @ /\ ~op]

(* What a complete roster after our JOIN says of the attempt. *)
Judged(new) ==
    IF new.op /\ (new.keepFlags \/ new.keepTopic # "none")
    THEN [new EXCEPT !.stage = "restoring", !.topicSeen = FALSE]
    ELSE [new EXCEPT !.stage = "watching"]

(* roster_changed. *)
ReceiveNames(line) ==
    LET c   == line.channel
        old == channel[c]
        new == WithRoster(old, line)
        judges == old.stage = "attempt" /\ old.joined /\ line.complete
    IN  /\ line.kind = "names"
        /\ IF ~old.tracked \/ ~old.inChannel \/ ~(old.synced \/ line.complete)
           THEN UNCHANGED <<channel, told, toServer>>
           ELSE IF judges
           THEN /\ channel' = [channel EXCEPT ![c] = Judged(new)]
                /\ IF Judged(new).stage = "restoring"
                   THEN /\ toServer' = Append(toServer,
                               [Line("restore", c) EXCEPT !.flags = new.keepFlags,
                                                          !.topic = new.keepTopic])
                        /\ UNCHANGED told
                   ELSE /\ told' = [told EXCEPT ![c] = IF new.op THEN "regained"
                                                               ELSE "notRegained"]
                        /\ UNCHANGED toServer
           ELSE /\ channel' = [channel EXCEPT ![c] =
                        IF old.stage \in {"attempt", "restoring"} THEN new
                        ELSE [new EXCEPT !.stage =
                               IF ~new.tried /\ new.alone /\ ~new.op
                               THEN "settling" ELSE "watching"]]
                /\ UNCHANGED <<told, toServer>>
        /\ UNCHANGED known

Receive ==
    /\ toClient # <<>>
    /\ LET line == Head(toClient)
       IN  \/ ReceiveJoined(line) \/ ReceiveParted(line) \/ ReceiveTopic(line)
           \/ ReceiveModes(line) \/ ReceiveRefused(line) \/ ReceiveNames(line)
    /\ toClient' = Tail(toClient)
    /\ UNCHANGED <<serverVars, acts, historyVars>>

-----------------------------------------------------------------------------
(* The timers. *)

(* Slip: an attempt has no deadline. *)
TimedWithoutAttempts(c) == channel[c].stage \in {"settling", "restoring"}

(* touch: the stages something is due in. *)
Timed(c) == channel[c].stage \in {"settling", "attempt", "restoring"}

(* STABLE does not pass before a server that is not slow has answered a    *)
(* PART of the user.                                                       *)
Passes(c) ==
    channel[c].stage = "settling" /\ ~SlowServer =>
        /\ \A i \in DOMAIN toServer :
              ~(toServer[i].kind = "part" /\ toServer[i].user /\ toServer[i].channel = c)
        /\ \A i \in DOMAIN toClient :
              ~(toClient[i].kind = "parted" /\ toClient[i].channel = c)

(* Whether the channel still is as it was when it began to settle. *)
Qualifies(c) ==
    LET chan == channel[c]
    IN  ~chan.tried /\ chan.alone /\ ~chan.op /\ chan.synced /\ chan.inChannel

(* Slip: what the new channel will lack is not noted. *)
AttemptForgetting(c) ==
    [channel[c] EXCEPT !.stage = "attempt", !.tried = TRUE, !.parted = FALSE,
        !.joined = FALSE, !.keepFlags = FALSE, !.keepTopic = "none"]

(* The attempt begins; known flags and topic are to be put back. *)
Attempt(c) ==
    [channel[c] EXCEPT !.stage = "attempt", !.tried = TRUE, !.parted = FALSE,
        !.joined = FALSE, !.keepFlags = known[c] = "flags", !.keepTopic = channel[c].topic]

(* What is reported when the time of an attempt, or of restoring, is over. *)
Outcome(c) ==
    LET chan == channel[c]
        shown == /\ chan.keepFlags => known[c] = "flags"
                 /\ chan.keepTopic # "none" => chan.topicSeen
    IN  CASE chan.stage = "attempt" -> IF chan.inChannel THEN "notRegained" ELSE "rejoinFailed"
          [] chan.stage = "restoring" -> IF shown THEN "regained" ELSE "restoreFailed"

(* Nothing of the channel is on its way to us, and no PART of ours from us. *)
Quiet(c) ==
    /\ \A i \in DOMAIN toClient : toClient[i].channel # c
    /\ \A i \in DOMAIN toServer : ~(toServer[i].kind = "part" /\ toServer[i].channel = c)

(* poll, when the time of these channels has come.  ready: registered, no  *)
(* alive check and no nickname dialog.  At most MaxRejoins channels are    *)
(* rejoined; the others go on settling.                                    *)
Poll(due, ready) ==
    LET settled  == {c \in due : channel[c].stage = "settling"}
        acting   == {c \in settled : ready /\ known[c] # "unknown"}
        tooLong  == {c \in acting : Qualifies(c) /\ channel[c].topic = "long"}
        eligible == {c \in acting : Qualifies(c) /\ channel[c].topic # "long"}
    IN  \E rejoined \in SUBSET eligible :
          /\ Cardinality(rejoined) <= MaxRejoins
          /\ rejoined = eligible \/ Cardinality(rejoined) = MaxRejoins
          /\ channel' = [c \in Channels |->
                CASE c \in rejoined -> Attempt(c)
                  [] c \in tooLong -> [channel[c] EXCEPT !.tried = TRUE, !.stage = "watching"]
                  [] c \in acting /\ ~Qualifies(c) -> [channel[c] EXCEPT !.stage = "watching"]
                  [] c \in due \ settled ->
                        [channel[c] EXCEPT !.stage =
                            IF @ = "restoring" /\ Qualifies(c) THEN "settling" ELSE "watching"]
                  [] OTHER -> channel[c]]
          /\ told' = [c \in Channels |->
                CASE c \in rejoined -> "rejoining"
                  [] c \in tooLong -> "topicTooLong"
                  [] c \in due \ settled -> Outcome(c)
                  [] OTHER -> told[c]]
          /\ toServer' = toServer \o SetToSeq({Line("part", c) : c \in rejoined})
          /\ credit' = [c \in Channels |-> IF c \in rejoined THEN credit[c] - 1 ELSE credit[c]]
          /\ before' = [c \in Channels |->
                IF c \notin rejoined THEN before[c]
                ELSE [sure |-> Quiet(c),
                      flags |-> flags[c], topic |-> topic[c]]]

PollWith(c) ==
    /\ \E due \in SUBSET {d \in Channels : Timed(d) /\ Passes(d)}, ready \in BOOLEAN :
          c \in due /\ Poll(due, ready)
    /\ UNCHANGED <<known, toClient, serverVars, acts, left>>

-----------------------------------------------------------------------------
(* The user. *)

Act == acts < MaxActs /\ acts' = acts + 1

UserJoin(c) ==
    /\ Act
    /\ toServer' = Append(toServer, Line("join", c))
    /\ left' = [left EXCEPT ![c] = FALSE]
    /\ credit' = [credit EXCEPT ![c] = @ + 1]
    /\ UNCHANGED <<clientVars, toClient, serverVars, before>>

(* Slip: a PART of the user does not end an attempt. *)
LeavingLater(c) == UNCHANGED <<channel, told>>

(* leaving. *)
Leaving(c) ==
    /\ channel' = [channel EXCEPT ![c] = Untracked]
    /\ told' = [told EXCEPT ![c] = "none"]

UserPart(c) ==
    /\ Act
    /\ toServer' = Append(toServer, [Line("part", c) EXCEPT !.user = TRUE])
    /\ Leaving(c)
    /\ left' = [left EXCEPT ![c] = TRUE]
    /\ before' = [before EXCEPT ![c] = Unknown]
    /\ UNCHANGED <<known, toClient, serverVars, credit>>

-----------------------------------------------------------------------------
(* The server and the others in the channel. *)

(* The channel with these members and operators; an empty one is gone. *)
ServerChannel(c, now, nowOps) ==
    /\ members' = [members EXCEPT ![c] = now]
    /\ ops' = [ops EXCEPT ![c] = nowOps]
    /\ flags' = [flags EXCEPT ![c] = @ /\ now # {}]
    /\ topic' = [topic EXCEPT ![c] = IF now = {} THEN "none" ELSE @]

Roster(c, complete) ==
    [Line("names", c) EXCEPT !.users = members'[c], !.ops = ops'[c], !.complete = complete]

(* A JOIN is refused, admitted, or not answered at all: we are in the      *)
(* channel, or a bouncer drops it.                                         *)
ServeJoin(line) ==
    LET c == line.channel
    IN  /\ line.kind = "join"
        /\ \/ UNCHANGED <<serverVars, toClient, credit>>
           \/ /\ "me" \notin members[c]
              /\ toClient' = Append(toClient, Line("refused", c))
              /\ UNCHANGED <<serverVars, credit>>
           \/ \E created \in BOOLEAN :
              /\ "me" \notin members[c]
              /\ created => members[c] = {}
              /\ ServerChannel(c, members[c] \cup {"me"},
                               ops[c] \cup IF created THEN {"me"} ELSE {})
              /\ credit' = [credit EXCEPT ![c] = IF created THEN @ + 1 ELSE @]
              /\ toClient' = toClient
                    \o <<Line("joined", c)>>
                    \o (IF topic[c] = "none" THEN <<>>
                        ELSE <<[Line("topic", c) EXCEPT !.topic = topic[c]]>>)
                    \o <<Roster(c, TRUE)>>

ServePart(line) ==
    LET c == line.channel
    IN  /\ line.kind = "part"
        /\ IF "me" \in members[c]
           THEN /\ ServerChannel(c, members[c] \ {"me"}, ops[c] \ {"me"})
                /\ toClient' = Append(toClient, Line("parted", c))
           ELSE UNCHANGED <<serverVars, toClient>>
        /\ UNCHANGED credit

ServeQuery(line) ==
    LET c == line.channel
    IN  /\ line.kind = "query"
        /\ toClient' = IF "me" \notin members[c] THEN toClient
                       ELSE Append(toClient, [Line("modes", c) EXCEPT !.flags = flags[c],
                                                                      !.complete = TRUE])
        /\ UNCHANGED <<serverVars, credit>>

ServeRestore(line) ==
    LET c == line.channel
    IN  /\ line.kind = "restore"
        /\ IF "me" \in ops[c]
           THEN /\ flags' = [flags EXCEPT ![c] = @ \/ line.flags]
                /\ topic' = [topic EXCEPT ![c] = IF line.topic = "none" THEN @ ELSE line.topic]
                /\ toClient' = toClient
                      \o (IF ~line.flags THEN <<>>
                          ELSE <<[Line("modes", c) EXCEPT !.flags = TRUE]>>)
                      \o (IF line.topic = "none" THEN <<>>
                          ELSE <<[Line("topic", c) EXCEPT !.topic = line.topic]>>)
           ELSE UNCHANGED <<flags, topic, toClient>>
        /\ UNCHANGED <<members, ops, credit>>

Serve ==
    /\ toServer # <<>>
    /\ LET line == Head(toServer)
       IN  ServeJoin(line) \/ ServePart(line) \/ ServeQuery(line) \/ ServeRestore(line)
    /\ toServer' = Tail(toServer)
    /\ UNCHANGED <<clientVars, acts, left, before>>

(* Someone else acts in the channel. *)
Others(c) ==
    /\ Act
    /\ before' = [before EXCEPT ![c] = Unknown]
    /\ UNCHANGED <<clientVars, toServer, left>>

(* Members and operators change; we are told if we are there. *)
RosterChanges(c, now, nowOps) ==
    /\ ServerChannel(c, now, nowOps)
    /\ toClient' = IF "me" \in now THEN Append(toClient, Roster(c, FALSE)) ELSE toClient

OtherJoins(c) ==
    /\ Others(c)
    /\ "other" \notin members[c]
    /\ \E op \in SUBSET {"other"} : RosterChanges(c, members[c] \cup {"other"}, ops[c] \cup op)
    /\ UNCHANGED credit

OtherLeaves(c) ==
    /\ Others(c)
    /\ "other" \in members[c]
    /\ RosterChanges(c, members[c] \ {"other"}, ops[c] \ {"other"})
    /\ UNCHANGED credit

(* Services, or another operator, make us operator, or take it from us. *)
GiveOrTakeOp(c) ==
    /\ Others(c)
    /\ "me" \in members[c]
    /\ \E op \in SUBSET {"me"} :
          /\ op # ops[c] \cap {"me"}
          /\ RosterChanges(c, members[c], (ops[c] \ {"me"}) \cup op)
          /\ credit' = [credit EXCEPT ![c] = @ + Cardinality(op)]

OtherKicks(c) ==
    /\ Others(c)
    /\ "me" \in members[c] /\ "other" \in ops[c]
    /\ ServerChannel(c, members[c] \ {"me"}, ops[c] \ {"me"})
    /\ toClient' = Append(toClient, Line("parted", c))
    /\ UNCHANGED credit

Next ==
    \/ Receive \/ Serve
    \/ \E c \in Channels :
          \/ PollWith(c) \/ UserJoin(c) \/ UserPart(c)
          \/ OtherJoins(c) \/ OtherLeaves(c) \/ GiveOrTakeOp(c) \/ OtherKicks(c)

Spec == Init /\ [][Next]_vars

(* The worker reads the link and polls whatever is due, and the server     *)
(* answers.                                                                *)
FairSpec ==
    Spec /\ WF_vars(Receive) /\ WF_vars(Serve) /\ \A c \in Channels : WF_vars(PollWith(c))

-----------------------------------------------------------------------------
(* Properties. *)

(* The type invariant. *)
TypeOK ==
    /\ \A c \in Channels :
          /\ channel[c].stage \in Stages /\ channel[c].topic \in Topics
          /\ ~channel[c].tracked => channel[c] = Untracked
          /\ channel[c].joined => channel[c].parted
    /\ known \in [Channels -> {"unknown", "none", "flags"}]
    /\ told \in [Channels -> Results \cup {"none", "rejoining"}]
    /\ members \in [Channels -> SUBSET {"me", "other"}] /\ topic \in [Channels -> Topics]
    /\ flags \in [Channels -> BOOLEAN] /\ left \in [Channels -> BOOLEAN]
    /\ \A c \in Channels : ops[c] \subseteq members[c] /\ credit[c] \in Int
    /\ acts \in 0..MaxActs

(* A channel is rejoined at most once for each time the user joined it or  *)
(* the server made us operator: a network where rejoining does not help is *)
(* not rejoined over and over, however echoes, refusals, kicks and         *)
(* timeouts of an attempt mix.                                             *)
AttemptsAreEarned == \A c \in Channels : credit[c] >= 0

(* What the user left stays left: no attempt under way, and no late echo   *)
(* of one, joins the channel again once the server has the user's PART.    *)
UserLeaveStays ==
    \A c \in Channels :
        left[c] /\ (\A i \in DOMAIN toServer : toServer[i].channel # c)
            => "me" \notin members[c]

(* If nobody else acts, the user is told that operator status is back only *)
(* when the channel has the flags and the topic it had before: what was    *)
(* noted before the PART against what the server says later.  Nothing of   *)
(* the channel may be on its way when the attempt begins (Quiet).          *)
RegainedRestoresAll ==
    [][\A c \in Channels :
          told'[c] = "regained" /\ told[c] # "regained" /\ before[c].sure
              => /\ before[c].flags => flags[c]
                 /\ before[c].topic = topic[c]]_vars

(* Every attempt ends with a result, or the channel is forgotten.          *)
AttemptsConclude ==
    \A c \in Channels : told[c] = "rejoining" ~> told[c] # "rejoining"
=============================================================================

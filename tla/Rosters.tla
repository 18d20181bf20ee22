------------------------------- MODULE Rosters -------------------------------
(***************************************************************************)
(* Member lists, presences, roles and accounts of the people we share a    *)
(* channel with: the server's truth, the lines it sends, the worker that   *)
(* keeps four views of them (the library's list, the published roster with *)
(* its roles, the index of presences, the accounts), and the window that   *)
(* shows the rosters, keeps a choice of members and mirrors the accounts.  *)
(*                                                                         *)
(* People are told apart by the model, nicknames are all the program sees. *)
(* Each line carries, for the properties only, the names and accounts      *)
(* (`at`) that were true when the server sent it.                          *)
(***************************************************************************)
EXTENDS Integers, Sequences, FiniteSets, SequencesExt, FiniteSetsExt

CONSTANTS
    People, Nicks, Channels, Logins,
    Regulars,        \* people logged in, and perhaps with roles, at the start
    Levels,          \* roles in a channel, numbered by rank
    ExtendedJoin,    \* a JOIN tells the account
    Open,            \* the conversations the window's part is followed for
    MaxMoves, MaxOwn, MaxTimeouts, MaxLink, MaxQueued

P == INSTANCE PresenceIndex
A == INSTANCE UserAccounts

NoNick == P!NoNick
Nobody == "nobody"
NoLevel == 0

ASSUME RostersAssumption ==
    /\ IsFiniteSet(Nicks) /\ NoNick \notin Nicks /\ NoNick \notin Channels
    /\ IsFiniteSet(People) /\ Nobody \notin People
    /\ Cardinality(People) <= Cardinality(Nicks)
    /\ {A!LoggedOut, A!Unsaid} \intersect Logins = {}
    /\ Regulars \subseteq People /\ (Regulars # {} => Logins # {})
    /\ Open \subseteq Channels
    /\ IsFiniteSet(Levels) /\ Levels \subseteq Nat \ {NoLevel}
    /\ ExtendedJoin \in BOOLEAN
    /\ \A bound \in {MaxMoves, MaxOwn, MaxTimeouts, MaxLink, MaxQueued} : bound \in Nat

VARIABLES
    world,     \* the server: names, channels, accounts and roles; our channels;
               \* chunks: other lines may come between those of a WHO reply
    link,      \* lines from the server
    whoReply,  \* lines of a WHO reply the server has made and not sent
    out,       \* commands to the server
    worker,    \* list, level: the library's; ranked, renamed, index, accounts: ours;
               \* tracked: the server's "User accounts" is on
    events,    \* rosters and departures on their way to the window
    shown,     \* what the window shows of each channel
    chosen,    \* the member chosen in the window
    mirror,    \* the window's copy of the accounts
    ghost,     \* what the lines have told, and who each presence was made for
    spent      \* moves, own commands and timeouts so far

vars == <<world, link, whoReply, out, worker, events, shown, chosen, mirror,
          ghost, spent>>

At(w) == [nick |-> w.nick, login |-> w.login, meIn |-> w.meIn,
          in |-> [p \in People |-> w.in[p] \intersect w.meIn]]

Holder(at, n) ==
    IF \E p \in People : at.nick[p] = n THEN CHOOSE p \in People : at.nick[p] = n
    ELSE Nobody

Highest(levels) == Max(levels \union {NoLevel})

NoRole == [n \in Nicks |-> NoLevel]
NobodyChosen == [channel |-> "-", nick |-> NoNick, person |-> Nobody]

Init ==
    /\ \E in \in [People -> SUBSET Channels], roled \in SUBSET Regulars,
          chunks \in BOOLEAN :
          world = [chunks |-> chunks,
                   nick |-> CHOOSE f \in [People -> Nicks] : IsInjective(f),
                   in |-> in,
                   login |-> [p \in People |-> IF p \in Regulars
                                               THEN CHOOSE login \in Logins : TRUE
                                               ELSE A!LoggedOut],
                   roles |-> [c \in Channels |-> [p \in People |->
                       IF p \in roled /\ c \in in[p] THEN Levels ELSE {}]],
                   meIn |-> {}]
    /\ link = <<>> /\ whoReply = <<>> /\ out = <<>>
    /\ \E tracked \in {world.chunks, TRUE} :
       worker = [listed |-> {},
                 list |-> [c \in Channels |-> {}],
                 level |-> [c \in Channels |-> [n \in Nicks |-> {}]],
                 ranked |-> [c \in Channels |-> NoRole],
                 renamed |-> [c \in Channels |-> NoRole],
                 index |-> P!EmptyIndex,
                 accounts |-> A!NoAccounts,
                 tracked |-> tracked]
    /\ events = <<>>
    /\ shown = [c \in Channels |-> [nicks |-> {}, at |-> At(world).nick]]
    /\ chosen = NobodyChosen
    /\ mirror = [n \in Nicks |-> A!Unknown]
    /\ ghost = [seen |-> At(world),
                owner |-> [i \in P!Ids |-> Nobody],
                told |-> [c \in Channels |-> [p \in People |-> {}]],
                strayed |-> {}, reused |-> {}]
    /\ spent = [moves |-> 0, own |-> 0, timeouts |-> 0]

(***************************************************************************)
(* The server and the people on it (external).                             *)
(***************************************************************************)
Line(kind, c, n, w) ==
    [kind |-> kind, channel |-> c, nick |-> n, to |-> NoNick, account |-> A!Unsaid,
     level |-> NoLevel, grant |-> FALSE, token |-> 0, names |-> NoRole, at |-> At(w)]

ServerIsFree == Len(link) < MaxLink /\ (world.chunks \/ whoReply = <<>>)

Moves(w, lines) ==
    /\ ServerIsFree
    /\ spent.moves < MaxMoves
    /\ world' = w
    /\ link' = link \o lines
    /\ spent' = [spent EXCEPT !.moves = @ + 1]
    /\ UNCHANGED <<whoReply, out, worker, events, shown, chosen, mirror, ghost>>

Taken == {world.nick[p] : p \in People}
Shares(p) == world.in[p] \intersect world.meIn # {}

PersonJoins(p, c, n) ==
    /\ n = world.nick[p] \/ (world.nick[p] = NoNick /\ n \notin Taken)
    /\ c \notin world.in[p]
    /\ LET w == [world EXCEPT !.nick[p] = n, !.in[p] = @ \union {c}]
           line == [Line("join", c, n, w) EXCEPT
                       !.account = IF ExtendedJoin THEN w.login[p] ELSE @]
       IN Moves(w, IF c \in world.meIn THEN <<line>> ELSE <<>>)

(* PART or KICK.                                                           *)
PersonLeaves(p, c) ==
    /\ c \in world.in[p]
    /\ LET w == [world EXCEPT !.in[p] = @ \ {c}, !.roles[c][p] = {}]
       IN Moves(w, IF c \in world.meIn THEN <<Line("part", c, world.nick[p], w)>> ELSE <<>>)

PersonQuits(p) ==
    /\ world.nick[p] # NoNick
    /\ LET w == [world EXCEPT !.nick[p] = NoNick, !.in[p] = {},
                              !.login[p] = A!LoggedOut,
                              !.roles = [c \in Channels |-> [@[c] EXCEPT ![p] = {}]]]
       IN Moves(w, IF Shares(p) THEN <<Line("quit", "-", world.nick[p], w)>> ELSE <<>>)

PersonRenames(p, n) ==
    /\ world.nick[p] # NoNick /\ n \notin Taken
    /\ LET w == [world EXCEPT !.nick[p] = n]
           line == [Line("nick", "-", world.nick[p], w) EXCEPT !.to = n]
       IN Moves(w, IF Shares(p) THEN <<line>> ELSE <<>>)

PersonLogsIn(p, login) ==
    /\ world.nick[p] # NoNick /\ login # world.login[p]
    /\ LET w == [world EXCEPT !.login[p] = login]
           line == [Line("account", "-", world.nick[p], w) EXCEPT !.account = login]
       IN Moves(w, IF Shares(p) THEN <<line>> ELSE <<>>)

RoleChanges(p, c, level) ==
    /\ c \in world.in[p]
    /\ LET grant == level \notin world.roles[c][p]
           w == [world EXCEPT !.roles[c][p] =
                                 IF grant THEN @ \union {level} ELSE @ \ {level}]
           line == [Line("mode", c, world.nick[p], w) EXCEPT !.level = level,
                                                             !.grant = grant]
       IN Moves(w, IF c \in world.meIn THEN <<line>> ELSE <<>>)

(* We are kicked, or made to leave.                                        *)
RemovesUs(c, kind) ==
    /\ c \in world.meIn
    /\ LET w == [world EXCEPT !.meIn = @ \ {c}]
       IN Moves(w, <<Line(kind, c, NoNick, w)>>)

MembersLine(c, w) ==
    [Line("names", c, NoNick, w) EXCEPT
        !.names = [n \in Nicks |-> LET p == Holder(At(w), n) IN
                       IF p = Nobody THEN -1
                       ELSE IF c \in w.in[p] THEN Highest(w.roles[c][p]) ELSE -1]]

WhoLines(c, token, w) ==
    LET about(p) == [Line("who", c, w.nick[p], w) EXCEPT !.account = w.login[p],
                                                         !.token = token]
    IN Append([i \in 1 .. Cardinality({p \in People : c \in w.in[p]}) |->
                   about(SetToSeq({p \in People : c \in w.in[p]})[i])],
              Line("whoend", c, NoNick, w))

ServerTakes ==
    /\ out # <<>> /\ whoReply = <<>> /\ Len(link) < MaxLink
    /\ out' = Tail(out)
    /\ LET c == Head(out).channel
           joined == [world EXCEPT !.meIn = @ \union {c}]
           parted == [world EXCEPT !.meIn = @ \ {c}]
           lines == WhoLines(c, Head(out).token, world)
       IN CASE Head(out).kind = "join" /\ c \notin world.meIn ->
                  /\ world' = joined
                  /\ link' = link \o <<Line("me_join", c, NoNick, joined),
                                       MembersLine(c, joined)>>
                  /\ UNCHANGED whoReply
            [] Head(out).kind = "part" /\ c \in world.meIn ->
                  /\ world' = parted
                  /\ link' = Append(link, Line("me_part", c, NoNick, parted))
                  /\ UNCHANGED whoReply
            [] Head(out).kind = "who" ->
                  /\ whoReply' = lines
                  /\ UNCHANGED <<world, link>>
            [] OTHER -> UNCHANGED <<world, link, whoReply>>
    /\ UNCHANGED <<worker, events, shown, chosen, mirror, ghost, spent>>

ServerSendsWho ==
    /\ whoReply # <<>> /\ Len(link) < MaxLink
    /\ link' = Append(link, [Head(whoReply) EXCEPT !.at = At(world)])
    /\ whoReply' = Tail(whoReply)
    /\ UNCHANGED <<world, out, worker, events, shown, chosen, mirror, ghost, spent>>

(***************************************************************************)
(* The library's lists.  Our own JOIN starts one; the PART we send and our *)
(* KICK drop it.  A new nickname starts without levels.                    *)
(***************************************************************************)
NoLevels == [n \in Nicks |-> {}]

Emptied(w, c, listed) ==
    [w EXCEPT !.listed = listed, !.list[c] = {}, !.level[c] = NoLevels]

LeavesList(w, c, n) == [w EXCEPT !.list[c] = @ \ {n}, !.level[c][n] = {}]

LeavesLists(w, n) ==
    [w EXCEPT !.list = [d \in Channels |-> @[d] \ {n}],
              !.level = [d \in Channels |-> [@[d] EXCEPT ![n] = {}]]]

NewName(w, old, new) ==
    [w EXCEPT !.list = [d \in Channels |-> IF old \notin @[d] THEN @[d]
                                           ELSE (@[d] \ {old}) \union {new}],
              !.level = [d \in Channels |-> IF old \notin w.list[d] THEN @[d]
                                            ELSE [@[d] EXCEPT ![old] = {}, ![new] = {}]]]

Filled(w, c, names) ==
    [w EXCEPT !.list[c] = {n \in Nicks : names[n] >= 0},
              !.level[c] = [n \in Nicks |-> {names[n]} \ {-1, NoLevel}]]

Listed(w, m) ==
    LET c == m.channel
    IN IF m.kind = "me_join" THEN Emptied(w, c, w.listed \union {c})
       ELSE IF m.kind = "me_kick" THEN Emptied(w, c, w.listed \ {c})
       ELSE IF c \in Channels \ w.listed THEN w
       ELSE CASE m.kind = "join" -> [w EXCEPT !.list[c] = @ \union {m.nick}]
              [] m.kind = "part" -> LeavesList(w, c, m.nick)
              [] m.kind = "quit" -> LeavesLists(w, m.nick)
              [] m.kind = "nick" -> NewName(w, m.nick, m.to)
              [] m.kind = "mode" /\ m.nick \in w.list[c] ->
                    [w EXCEPT !.level[c][m.nick] = IF m.grant THEN @ \union {m.level}
                                                   ELSE @ \ {m.level}]
              [] m.kind = "names" -> Filled(w, c, m.names)
              [] OTHER -> w

(***************************************************************************)
(* RosterTracker: a role is carried over a change of nickname.             *)
(***************************************************************************)
RenameRoles(w, old, new) ==
    [w EXCEPT !.renamed = [c \in Channels |->
        LET role == IF @[c][old] # NoLevel THEN @[c][old] ELSE w.ranked[c][old]
        IN IF c \notin w.listed THEN @[c]
           ELSE IF role = NoLevel THEN [@[c] EXCEPT ![old] = NoLevel]
           ELSE [@[c] EXCEPT ![old] = NoLevel, ![new] = role]]]

ClearNoTarget(w, c, n) == w        \* variant

ClearModeTarget(w, c, n) == [w EXCEPT !.renamed[c][n] = NoLevel]

ForgetRoster(w, c) ==
    [w EXCEPT !.ranked[c] = NoRole, !.renamed[c] = NoRole,
              !.index = P!RemoveChannel(@, c)]

AcceptNames(w, c) == [w EXCEPT !.renamed[c] = NoRole]

(* names_snapshot: the roster of a channel that has a list is published.   *)
Snapshot(w, c) ==
    IF c \notin w.listed THEN w
    ELSE LET kept == [n \in Nicks |-> IF n \in w.list[c] THEN w.renamed[c][n]
                                      ELSE NoLevel]
             role == [n \in Nicks |-> IF n \notin w.list[c] THEN NoLevel
                                      ELSE IF kept[n] # NoLevel THEN kept[n]
                                      ELSE Highest(w.level[c][n])]
         IN [w EXCEPT !.renamed[c] = kept, !.ranked[c] = role,
                      !.index = P!ReplaceChannel(@, c, w.list[c]),
                      !.accounts = IF w.tracked THEN A!Names(@, c, w.list[c]) ELSE @]

(***************************************************************************)
(* The worker handles a line.                                              *)
(***************************************************************************)
Accounted(w, m) ==
    LET a == w.accounts
    IN CASE m.kind = "join" -> A!SomeoneJoined(a, m.nick, m.channel, m.account)
         [] m.kind = "part" -> A!SomeoneLeft(a, m.nick, m.channel)
         [] m.kind = "quit" -> A!SomeoneQuit(a, m.nick)
         [] m.kind = "nick" -> A!SomeoneRenamed(a, m.nick, m.to)
         [] m.kind = "account" ->
               A!AccountChanged(a, m.nick, m.account, P!ChannelKeysOf(w.index, m.nick))
         [] m.kind \in {"me_part", "me_kick"} -> A!ForgetChannel(a, m.channel)
         [] m.kind = "who" -> A!WhoLine(a, m.token, m.nick, m.account)
         [] m.kind = "whoend" -> A!WhoEnd(a, m.channel)
         [] m.kind = "me_join" -> A!Joined(a, m.channel)
         [] OTHER -> a

Tracked(w, m) ==
    CASE m.kind = "nick" ->
            [RenameRoles(w, m.nick, m.to) EXCEPT !.index = P!Rename(@, m.nick, m.to)]
      [] m.kind = "quit" -> [w EXCEPT !.index = P!Quit(@, m.nick)]
      [] m.kind = "mode" -> ClearModeTarget(w, m.channel, m.nick)
      [] m.kind \in {"me_part", "me_kick"} -> ForgetRoster(w, m.channel)
      [] m.kind = "names" -> AcceptNames(w, m.channel)
      [] OTHER -> w

(* The rosters a line changes; NICK and QUIT only those that had the       *)
(* member in the roster published before.                                  *)
Changed(w, m) ==
    CASE m.kind \in {"join", "part", "mode", "names", "me_join"} -> {m.channel}
      [] m.kind \in {"quit", "nick"} ->
            {c \in w.listed : P!InChannel(w.index, c, m.nick)}
      [] OTHER -> {}

Published(w, m) ==
    LET accounted == IF w.tracked THEN [w EXCEPT !.accounts = Accounted(w, m)] ELSE w
    IN FoldSet(LAMBDA c, v : Snapshot(v, c), Tracked(accounted, m), Changed(w, m))

(* Events of the line: departures first, then the rosters.                 *)
Sent(w, m) ==
    (IF m.kind \in {"me_part", "me_kick"} /\ m.channel \in Open
     THEN <<[kind |-> "parted", channel |-> m.channel, nicks |-> {}, at |-> m.at.nick]>>
     ELSE <<>>)
    \o SetToSeq({[kind |-> "names", channel |-> c, nicks |-> w.list[c],
                  at |-> m.at.nick] : c \in Changed(w, m) \intersect w.listed \intersect Open})

(* What the line has told, by person; presences of people who left a       *)
(* channel while its list was gone already; and nicknames somebody took    *)
(* with a NICK while a WHO reply was awaited, as long as it or what it     *)
(* taught of them lasts.                                                   *)
Remembered(w, new, m) ==
    LET p == Holder(m.at, m.nick)
        told == ghost.told
        c == m.channel
        left == IF m.kind = "part" /\ c \notin w.listed THEN {w.index.byNick[m.nick]}
                ELSE {}
        asked == new.accounts.query # A!NoQuery
        taken == IF m.kind = "nick" /\ (asked \/ m.nick \in ghost.reused) THEN {m.to}
                 ELSE {}
    IN [seen |-> m.at,
        owner |-> [i \in P!Ids |->
                      IF i \notin P!LiveIds(new.index) THEN Nobody
                      ELSE IF i \in P!LiveIds(w.index) THEN ghost.owner[i]
                      ELSE Holder(m.at, new.index.key[i])],
        strayed |-> (ghost.strayed \union left) \intersect P!LiveIds(new.index),
        reused |-> {n \in ghost.reused \union taken : asked \/ A!IsKnown(new.accounts, n)},
        told |->
          CASE m.kind = "mode" ->
                  [told EXCEPT ![c][p] = IF m.grant THEN @ \union {m.level}
                                         ELSE @ \ {m.level}]
            [] m.kind \in {"part", "quit"} ->
                  [d \in Channels |->
                     [q \in People |-> IF d \in {c} \/ m.kind = "quit"
                                       THEN IF ghost.seen.nick[q] = m.nick THEN {}
                                            ELSE told[d][q]
                                       ELSE told[d][q]]]
            [] m.kind = "names" ->
                  [told EXCEPT ![c] = [q \in People |->
                      LET n == m.at.nick[q]
                      IN IF n = NoNick THEN {} ELSE {m.names[n]} \ {-1, NoLevel}]]
            [] m.kind \in {"me_part", "me_kick"} ->
                  [told EXCEPT ![c] = [q \in People |-> {}]]
            [] OTHER -> told]

Handle(w, m, expired) ==
    LET new == Published(w, m)
        asks == A!AsksNext(new.accounts, expired)
        next == A!NextWho(new.accounts, expired)
    IN /\ worker' = [new EXCEPT !.accounts = [next EXCEPT !.events = <<>>]]
       /\ mirror' = FoldLeft(A!Mirrored, mirror, new.accounts.events)
       /\ out' = IF asks THEN Append(out, [kind |-> "who", channel |-> next.query.channel,
                                           token |-> next.token])
                 ELSE out
       /\ events' = events \o Sent(w, m)
       /\ ghost' = Remembered(w, new, m)

Deliver(expired) ==
    /\ link # <<>> /\ Len(events) <= MaxQueued
    /\ expired => worker.accounts.query # A!NoQuery /\ spent.timeouts < MaxTimeouts
    /\ Handle(Listed(worker, Head(link)), Head(link), expired)
    /\ link' = Tail(link)
    /\ spent' = [spent EXCEPT !.timeouts = IF expired THEN @ + 1 ELSE @]
    /\ UNCHANGED <<world, whoReply, shown, chosen>>

(***************************************************************************)
(* Our own commands.  A PART that is sent drops the library's list at once.*)
(***************************************************************************)
Says(kind, c) ==
    /\ spent.own < MaxOwn
    /\ out' = Append(out, [kind |-> kind, channel |-> c, token |-> 0])
    /\ spent' = [spent EXCEPT !.own = @ + 1]
    /\ UNCHANGED <<world, link, whoReply, events, shown, chosen, mirror, ghost>>

WePart(c) ==
    /\ worker' = Emptied(worker, c, worker.listed \ {c})
    /\ Says("part", c)

WeJoin(c) ==
    /\ \/ c \notin world.meIn
       \/ \E i \in DOMAIN out : out[i].kind = "part" /\ out[i].channel = c
    /\ ~\E i \in DOMAIN out : out[i].kind = "join" /\ out[i].channel = c
    /\ UNCHANGED worker
    /\ Says("join", c)

(***************************************************************************)
(* The window takes everything that is queued as one batch.  A roster that *)
(* a later one of the batch replaces is not shown, but still drops who     *)
(* left from the choice.                                                   *)
(***************************************************************************)
Superseded(batch, i) ==
    /\ batch[i].kind = "names"
    /\ \E j \in DOMAIN batch : /\ j > i /\ batch[j].kind = "names"
                               /\ batch[j].channel = batch[i].channel

RetainPresent(choice, e) ==
    IF choice.channel = e.channel /\ choice.nick \notin e.nicks THEN NobodyChosen
    ELSE choice

(* Variant: a roster that is not shown drops nobody.                       *)
HandleBatchSkipping ==
    /\ events # <<>>
    /\ LET show(s, i) == IF Superseded(events, i) THEN s
                         ELSE [s EXCEPT ![events[i].channel] =
                                  [nicks |-> events[i].nicks, at |-> events[i].at]]
           keep(choice, i) == IF events[i].kind = "names" /\ ~Superseded(events, i)
                              THEN RetainPresent(choice, events[i]) ELSE choice
           order == [i \in DOMAIN events |-> i]
       IN /\ shown' = FoldLeft(show, shown, order)
          /\ chosen' = FoldLeft(keep, chosen, order)
    /\ events' = <<>>
    /\ UNCHANGED <<world, link, whoReply, out, worker, mirror, ghost, spent>>

HandleBatch ==
    /\ events # <<>>
    /\ LET show(s, i) == IF Superseded(events, i) THEN s
                         ELSE [s EXCEPT ![events[i].channel] =
                                  [nicks |-> events[i].nicks, at |-> events[i].at]]
           keep(choice, i) == IF events[i].kind = "names"
                              THEN RetainPresent(choice, events[i]) ELSE choice
           order == [i \in DOMAIN events |-> i]
       IN /\ shown' = FoldLeft(show, shown, order)
          /\ chosen' = FoldLeft(keep, chosen, order)
    /\ events' = <<>>
    /\ UNCHANGED <<world, link, whoReply, out, worker, mirror, ghost, spent>>

Choose(c, n) ==
    /\ chosen = NobodyChosen
    /\ n \in shown[c].nicks
    /\ chosen' = [channel |-> c, nick |-> n,
                  person |-> Holder([nick |-> shown[c].at], n)]
    /\ UNCHANGED <<world, link, whoReply, out, worker, events, shown, mirror, ghost,
                   spent>>

Next ==
    \/ \E p \in People, c \in Channels, n \in Nicks : PersonJoins(p, c, n)
    \/ \E p \in People, c \in Channels : PersonLeaves(p, c)
    \/ \E p \in People : PersonQuits(p)
    \/ \E p \in People, n \in Nicks : PersonRenames(p, n)
    \/ \E p \in People, login \in Logins \union {A!LoggedOut} : PersonLogsIn(p, login)
    \/ \E p \in People, c \in Channels, level \in Levels : RoleChanges(p, c, level)
    \/ \E c \in Channels, kind \in {"me_part", "me_kick"} : RemovesUs(c, kind)
    \/ ServerTakes
    \/ ServerSendsWho
    \/ \E expired \in BOOLEAN : Deliver(expired)
    \/ \E c \in Channels : WePart(c) \/ WeJoin(c)
    \/ HandleBatch
    \/ \E c \in Channels, n \in Nicks : Choose(c, n)

Spec == Init /\ [][Next]_vars

(***************************************************************************)
(* Properties.                                                             *)
(***************************************************************************)

TypeOK ==
    /\ worker.index \in P!Indexes
    /\ worker.listed \subseteq Channels
    /\ \A c \in Channels : worker.list[c] \subseteq Nicks
    /\ worker.ranked \in [Channels -> [Nicks -> Levels \union {NoLevel}]]
    /\ worker.accounts.users \in [Nicks -> A!Entries]
    /\ ghost.strayed \subseteq P!LiveIds(worker.index)
    /\ mirror \in [Nicks -> A!Entries]

(* Channels whose list is one the server keeps up to date for us.          *)
Followed == worker.listed \intersect ghost.seen.meIn

Now(n) == Holder(ghost.seen, n)

(* The index agrees with itself in both directions (presence.rs:330), and  *)
(* in every channel we are in with the list it was built from, whatever    *)
(* order of NICK, QUIT, PART, KICK and our own coming and going led there. *)
IndexAgrees ==
    /\ P!Consistent(worker.index)
    /\ \A c \in Followed :
          {worker.index.key[i] : i \in worker.index.members[c]} = worker.list[c]

(* A presence stands for the person it was made for and for nobody else    *)
(* (presence.rs:7-10); apart from people who left a channel after we had   *)
(* sent our own PART, whose departure reaches no roster.                   *)
PresenceIsOnePerson ==
    \A i \in P!LiveIds(worker.index) \ ghost.strayed :
        ghost.owner[i] = Now(worker.index.key[i])

(* Without that exception: "a nickname that reappears after QUIT or after  *)
(* leaving every channel we share is a new presence".                      *)
EachPresenceIsOne ==
    \A i \in P!LiveIds(worker.index) :
        Now(worker.index.key[i]) \in {Nobody, ghost.owner[i]}

(* A person keeps the presence through any line that leaves them in one of *)
(* our channels: a new roster, a change of nickname, somebody else's       *)
(* leaving.                                                                *)
PresenceIsKept ==
    [][\A i \in P!LiveIds(worker.index) \ ghost.strayed :
          LET n == ghost'.seen.nick[ghost.owner[i]]
          IN n # NoNick /\ worker'.index.byNick[n] # P!NoId
             => worker'.index.byNick[n] = i]_vars

(* Nobody is shown with a role the server has not given to that person:    *)
(* a role carried over a change of nickname never ends with whoever takes  *)
(* the old or the new nickname later.                                      *)
NoRoleInvented ==
    \A c \in Followed : \A n \in worker.list[c] :
        worker.ranked[c][n] \in {NoLevel} \union
            (IF Now(n) = Nobody THEN {} ELSE ghost.told[c][Now(n)])

(* The account recorded for a nickname is that of the person who holds it, *)
(* when the server sends its WHO replies in one go; apart from people who  *)
(* left a channel after we had sent our own PART: an ACCOUNT of theirs     *)
(* takes that channel from a roster that nobody keeps any more, and keeps  *)
(* them known when nothing more is heard of them.                          *)
AccountsAreTrue ==
    ~world.chunks =>
        \A n \in Nicks :
            A!IsKnown(worker.accounts, n) /\ worker.index.byNick[n] \notin ghost.strayed =>
               /\ Now(n) # Nobody
               /\ worker.accounts.users[n].account = ghost.seen.login[Now(n)]

(* A WHO reply never brings back somebody who left after it was made, even *)
(* when their PART, QUIT or NICK comes between its lines (accounts.rs:67): *)
(* whoever is known is in the channels they are known for; unless somebody *)
(* took the nickname with a NICK meanwhile.                                *)
KnownWhereNoted ==
    \A n \in Nicks \ ghost.reused :
        \A c \in worker.accounts.users[n].channels \intersect Followed :
            P!InChannel(worker.index, c, n)

(* Without that exception: "A user is remembered only while they share a   *)
(* channel with us" (accounts.rs:9).                                       *)
KnownArePresent ==
    \A n \in Nicks :
        worker.accounts.users[n].channels \intersect Followed # {}
            => worker.index.byNick[n] # P!NoId

(* The window's copy of the accounts is the worker's: every change is told *)
(* by an event, in the order that leaves the same thing (accounts.rs:25).  *)
MirrorAgrees ==
    \A n \in Nicks :
        mirror[n] = [worker.accounts.users[n] EXCEPT !.channels = {}]

(* A chosen member that is shown is the person that was chosen, though     *)
(* rosters in between were dropped from the batch (member_selection.rs:    *)
(* "nicknames are reused").                                                *)
ChosenIsThePerson ==
    chosen # NobodyChosen /\ chosen.nick \in shown[chosen.channel].nicks
        => shown[chosen.channel].at[chosen.person] = chosen.nick

(* The role shown is the highest the lines have told ("so a NICK change    *)
(* can carry the role over").                                              *)
RoleIsTheHighest ==
    \A c \in Followed : \A n \in worker.list[c] :
        Now(n) # Nobody => worker.ranked[c][n] = Highest(ghost.told[c][Now(n)])

(* "PART, KICK and QUIT forget users who no longer share a channel": one   *)
(* who still does stays known.                                             *)
KnownWhileShared ==
    [][\A n \in Nicks :
          LET p == Now(n)
              next == ghost'.seen.nick[p]
          IN /\ A!IsKnown(worker.accounts, n) /\ p # Nobody
             /\ worker.accounts.users[n].account # A!LoggedOut
             /\ ghost'.seen.login[p] # A!LoggedOut
             /\ next # NoNick /\ worker'.index.byNick[next] # P!NoId
             /\ worker.index.byNick[n] = worker'.index.byNick[next]
             /\ worker.index.byNick[n] \notin ghost'.strayed
             => A!IsKnown(worker'.accounts, next)]_vars
==============================================================================

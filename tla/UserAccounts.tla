---------------------------- MODULE UserAccounts ----------------------------
(***************************************************************************)
(* The services accounts of the people we share a channel with             *)
(* (irc-core/accounts.rs), as operators on the record the worker keeps:    *)
(* what is known of a nickname, the channels still to be asked about, and  *)
(* the query that is out.  Every operator that changes what is known       *)
(* appends the events that tell the window.                                *)
(*                                                                         *)
(* A real name is only known or not.  The limits on users, queued channels *)
(* and nicknames that left (4,096, 64 and 4,096) are beyond the instances. *)
(***************************************************************************)
EXTENDS Naturals, Sequences, FiniteSets, SequencesExt

CONSTANTS Channels, Nicks, Logins

LoggedOut == "*"
Unsaid == "unsaid"       \* the line says nothing of the account

Unknown == [account |-> LoggedOut, real |-> FALSE, channels |-> {}]
NoQuery == [channel |-> "-", token |-> 0, departed |-> {}]

Entries == [account : Logins \union {LoggedOut}, real : BOOLEAN,
            channels : SUBSET Channels]

NoAccounts == [users |-> [n \in Nicks |-> Unknown], queue |-> <<>>,
               query |-> NoQuery, token |-> 0, events |-> <<>>]

IsKnown(a, n) == a.users[n] # Unknown
Keeps(entry) == entry.account # LoggedOut \/ entry.real

Said(a, n, entry) ==
    [a EXCEPT !.events = Append(@, [kind |-> "account", nick |-> n,
                                    account |-> entry.account, real |-> entry.real])]

ForgetUser(a, n) ==
    IF ~IsKnown(a, n) THEN a
    ELSE [a EXCEPT !.users[n] = Unknown,
                   !.events = Append(@, [kind |-> "forgotten", nick |-> n])]

Learn(a, n, account, real, channels) ==
    LET before == a.users[n]
        after == [account |-> IF account = Unsaid THEN before.account ELSE account,
                  real |-> before.real \/ real,
                  channels |-> before.channels \union channels]
        saved == [a EXCEPT !.users[n] = after]
    IN IF ~IsKnown(a, n) /\ channels = {} THEN a
       ELSE IF ~Keeps(after) THEN ForgetUser(a, n)
       ELSE IF before.account = after.account /\ before.real = after.real THEN saved
       ELSE Said(saved, n, after)

LeaveChannel(a, n, c) ==
    IF a.users[n].channels \subseteq {c} THEN ForgetUser(a, n)
    ELSE [a EXCEPT !.users[n].channels = @ \ {c}]

DepartedUnnoted(a, n, channels) == a   \* variant: every line is believed

(* A nickname left the channel asked about: its late line is not trusted.  *)
Departed(a, n, channels) ==
    IF a.query.channel \in channels THEN [a EXCEPT !.query.departed = @ \union {n}]
    ELSE a

Returned(a, n, channels) ==
    IF a.query.channel \in channels THEN [a EXCEPT !.query.departed = @ \ {n}] ELSE a

SomeoneJoined(a, n, c, account) ==
    LET b == Returned(a, n, {c})
    IN IF account # Unsaid THEN Learn(b, n, account, TRUE, {c})
       ELSE IF IsKnown(b, n) THEN [b EXCEPT !.users[n].channels = @ \union {c}]
       ELSE b

SomeoneLeft(a, n, c) == LeaveChannel(Departed(a, n, {c}), n, c)

SomeoneQuit(a, n) == ForgetUser(Departed(a, n, Channels), n)

(* Variant: the window is told of the new name only.                       *)
SomeoneRenamedSilently(a, old, new) ==
    LET moved == a.users[old]
        b == Returned(Departed(a, old, Channels), new, Channels)
        c == ForgetUser([b EXCEPT !.users[old] = Unknown], new)
    IN IF ~IsKnown(a, old) THEN c ELSE Said([c EXCEPT !.users[new] = moved], new, moved)

SomeoneRenamed(a, old, new) ==
    LET moved == a.users[old]
        b == Returned(Departed(a, old, Channels), new, Channels)
        \* the entry is taken out, then a stale holder of the new name goes
        c == ForgetUser([b EXCEPT !.users[old] = Unknown], new)
    IN IF ~IsKnown(a, old) THEN c
       ELSE Said([c EXCEPT !.users[new] = moved,
                           !.events = Append(@, [kind |-> "forgotten", nick |-> old])],
                 new, moved)

(* Variant: a logout teaches nothing.                                      *)
AccountGained(a, n, account, shared) ==
    Learn(a, n, IF account = LoggedOut THEN Unsaid ELSE account, FALSE, shared)

AccountChanged(a, n, account, shared) == Learn(a, n, account, FALSE, shared)

LeaveAll(a, nicks, c) == FoldSet(LAMBDA n, b : LeaveChannel(b, n, c), a, nicks)

Without(queue, c) ==
    FoldLeft(LAMBDA kept, d : IF d = c THEN kept ELSE Append(kept, d), <<>>, queue)

(* We left the channel.                                                    *)
ForgetChannel(a, c) ==
    LeaveAll([a EXCEPT !.queue = Without(@, c),
                       !.query = IF @.channel = c THEN NoQuery ELSE @],
             Nicks, c)

Noted(entry, c) == [entry EXCEPT !.channels = @ \union {c}]

(* A member list was published.                                            *)
Names(a, c, present) ==
    LeaveAll([a EXCEPT !.users = [n \in Nicks |-> IF n \in present /\ IsKnown(a, n)
                                                 THEN Noted(@[n], c) ELSE @[n]]],
             {n \in Nicks \ present : c \in a.users[n].channels}, c)

(* We joined: the members' accounts are asked for.                         *)
Joined(a, c) ==
    IF a.query.channel = c \/ c \in ToSet(a.queue) THEN a
    ELSE [a EXCEPT !.queue = Append(@, c)]

(* The next query, when none is out; `expired`: the one that is out has    *)
(* been waiting for WHO_TIMEOUT.                                           *)
AsksNext(a, expired) == a.queue # <<>> /\ (a.query = NoQuery \/ expired)

NextWho(a, expired) ==
    LET free == IF expired THEN [a EXCEPT !.query = NoQuery] ELSE a
        token == (a.token % 999) + 1
    IN IF ~AsksNext(a, expired) THEN free
       ELSE [free EXCEPT !.queue = Tail(@), !.token = token,
                         !.query = [channel |-> Head(a.queue), token |-> token,
                                    departed |-> {}]]

WhoLine(a, token, n, account) ==
    IF token = a.query.token /\ n \notin a.query.departed
    THEN Learn(a, n, account, TRUE, {a.query.channel})
    ELSE a

WhoEnd(a, c) == IF a.query.channel = c THEN [a EXCEPT !.query = NoQuery] ELSE a

(* What the window holds after an event.                                   *)
Mirrored(mirror, e) ==
    [mirror EXCEPT ![e.nick] = IF e.kind = "forgotten" THEN Unknown
                               ELSE [account |-> e.account, real |-> e.real,
                                     channels |-> {}]]
==============================================================================

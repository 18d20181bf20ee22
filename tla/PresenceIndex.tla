---------------------------- MODULE PresenceIndex ----------------------------
(***************************************************************************)
(* Who is present in which joined channel, indexed both ways               *)
(* (irc-core/presence.rs), as operators on an index.                       *)
(*                                                                         *)
(* The program numbers presences and never uses a number again; here a new *)
(* presence gets a number that is free in the index, which keeps the       *)
(* states few and tells the same presences apart.                          *)
(***************************************************************************)
EXTENDS Naturals, FiniteSets

CONSTANTS Channels, Nicks

NoId == 0
NoNick == "-"
Ids == 1 .. Cardinality(Nicks) + 1

Indexes == [byNick : [Nicks -> Ids \union {NoId}],
            key : [Ids -> Nicks \union {NoNick}],
            channelsOf : [Ids -> SUBSET Channels],
            members : [Channels -> SUBSET Ids]]

EmptyIndex == [byNick |-> [n \in Nicks |-> NoId],
               key |-> [i \in Ids |-> NoNick],
               channelsOf |-> [i \in Ids |-> {}],
               members |-> [c \in Channels |-> {}]]

LiveIds(x) == {i \in Ids : x.key[i] # NoNick}

InChannel(x, c, n) == x.byNick[n] \in x.members[c]

ChannelKeysOf(x, n) ==
    IF x.byNick[n] = NoId THEN {} ELSE x.channelsOf[x.byNick[n]]

(* forget, for a set of presences.                                         *)
Forget(x, gone) ==
    [x EXCEPT !.byNick = [n \in Nicks |-> IF \E i \in gone : x.key[i] = n
                                          THEN NoId ELSE @[n]],
              !.key = [i \in Ids |-> IF i \in gone THEN NoNick ELSE @[i]],
              !.channelsOf = [i \in Ids |-> IF i \in gone THEN {} ELSE @[i]],
              !.members = [c \in Channels |->
                              @[c] \ {i \in gone : c \in x.channelsOf[i]}]]

(* leave, for a set of presences: who is in no other channel is forgotten. *)
Leave(x, leaving, c) ==
    Forget([x EXCEPT !.channelsOf = [i \in Ids |-> IF i \in leaving
                                                   THEN @[i] \ {c} ELSE @[i]]],
           {i \in leaving : x.channelsOf[i] \subseteq {c}})

(* Numbers for the nicknames that have none.                               *)
Numbered(x, nicks) ==
    LET fresh == {n \in nicks : x.byNick[n] = NoId}
        new == CHOOSE f \in [fresh -> Ids \ LiveIds(x)] :
                   \A a, b \in fresh : f[a] = f[b] => a = b
    IN [x EXCEPT !.byNick = [n \in Nicks |-> IF n \in fresh THEN new[n] ELSE @[n]],
                 !.key = [i \in Ids |-> IF \E n \in fresh : new[n] = i
                                        THEN CHOOSE n \in fresh : new[n] = i
                                        ELSE @[i]]]

ReplaceChannel(x, c, nicks) ==
    LET y == Numbered(x, nicks)
        present == {y.byNick[n] : n \in nicks}
    IN Leave([y EXCEPT !.channelsOf = [i \in Ids |-> IF i \in present
                                                     THEN @[i] \union {c} ELSE @[i]],
                       !.members[c] = present],
             x.members[c] \ present, c)

RemoveChannel(x, c) == Leave([x EXCEPT !.members[c] = {}], x.members[c], c)

Quit(x, n) == IF x.byNick[n] = NoId THEN x ELSE Forget(x, {x.byNick[n]})

(* Variants: the old nickname still finds the presence; the nickname       *)
(* change is left to the next roster.                                      *)
RenameKeepingOld(x, old, new) ==
    LET id == x.byNick[old]
    IN IF id = NoId THEN x ELSE [x EXCEPT !.byNick[new] = id, !.key[id] = new]

RenameByRoster(x, old, new) == x

Rename(x, old, new) ==
    LET id == x.byNick[old]
        taken == [x EXCEPT !.byNick[old] = NoId, !.byNick[new] = NoId]
        stale == x.byNick[new]
    IN IF id = NoId THEN x
       ELSE [Forget(taken, {stale} \ {id, NoId}) EXCEPT !.byNick[new] = id,
                                                        !.key[id] = new]

(* A nickname finds its presence and a presence bears its nickname; each   *)
(* presence is in some channel; both directions agree.                     *)
Named(x) ==
    /\ \A i \in LiveIds(x) : x.byNick[x.key[i]] = i
    /\ \A n \in Nicks : x.byNick[n] # NoId => x.key[x.byNick[n]] = n

Placed(x) == \A i \in Ids : i \in LiveIds(x) <=> x.channelsOf[i] # {}

Mutual(x) ==
    \A i \in Ids, c \in Channels : i \in x.members[c] <=> c \in x.channelsOf[i]

Consistent(x) == Named(x) /\ Placed(x) /\ Mutual(x)
==============================================================================

---------------------------- MODULE OpRegainProofs ----------------------------
(***************************************************************************)
(* Theorems about OpRegain, for every set of channels and every number of  *)
(* rejoins in a poll, with a server that answers a PART of the user before *)
(* STABLE has passed.                                                      *)
(***************************************************************************)
EXTENDS OpRegain, FiniteSetTheorems, FunctionTheorems, TLAPS

People == {"me", "other"}
ServerKinds == {"joined", "parted", "topic", "modes", "refused", "names"}
ClientKinds == {"join", "part", "query", "restore"}
LinesOf(kinds) ==
    [kind : kinds, channel : Channels, flags : BOOLEAN, topic : Topics,
     users : SUBSET People, ops : SUBSET People, complete : BOOLEAN, user : BOOLEAN]
Tracking ==
    [tracked : BOOLEAN, tried : BOOLEAN, inChannel : BOOLEAN, synced : BOOLEAN,
     op : BOOLEAN, alone : BOOLEAN, topic : Topics, stage : Stages, parted : BOOLEAN,
     joined : BOOLEAN, keepFlags : BOOLEAN, keepTopic : Topics, topicSeen : BOOLEAN]

(* The types of TypeOK in full.                                            *)
Shape ==
    /\ channel \in [Channels -> Tracking]
    /\ known \in [Channels -> {"unknown", "none", "flags"}]
    /\ told \in [Channels -> Results \cup {"none", "rejoining"}]
    /\ toServer \in Seq(LinesOf(ClientKinds)) /\ toClient \in Seq(LinesOf(ServerKinds))
    /\ members \in [Channels -> SUBSET People] /\ ops \in [Channels -> SUBSET People]
    /\ flags \in [Channels -> BOOLEAN] /\ topic \in [Channels -> Topics]
    /\ acts \in 0..MaxActs
    /\ left \in [Channels -> BOOLEAN] /\ credit \in [Channels -> Int]
    /\ \A c \in Channels : ops[c] \subseteq members[c]

(* The lines about a channel on their way.                                 *)
About(lines, c, kind) == {i \in DOMAIN lines : lines[i].kind = kind /\ lines[i].channel = c}
Leaves(c) == {i \in About(toServer, c, "part") : toServer[i].user}
Joinings(c) == About(toClient, c, "joined")
Partings(c) == About(toClient, c, "parted")
Rosters(c) == About(toClient, c, "names")

(* The stages of a channel and what else its record says.                  *)
Awaiting(c) == channel[c].stage = "attempt" /\ ~channel[c].parted /\ ~channel[c].joined
Staged(c) ==
    /\ ~channel[c].tracked => channel[c] = Untracked
    /\ channel[c].joined => channel[c].parted
    /\ channel[c].tried => ~channel[c].op
    /\ channel[c].stage = "attempt" =>
          (channel[c].inChannel <=> ~channel[c].parted \/ channel[c].joined)

(* A JOIN of ours is still to come that no PART follows.                   *)
Joining(c) == \E j \in Joinings(c) : \A p \in Partings(c) : p < j

(* The link says in its order what the server did: a JOIN and what ends it *)
(* take turns.                                                             *)
InTurn(c) ==
    /\ "me" \in members[c] =>
          /\ Partings(c) # {} => Joining(c)
          /\ channel[c].inChannel \/ Joinings(c) # {} \/ Leaves(c) # {}
    /\ "me" \notin members[c] =>
          /\ \A j \in Joinings(c) : \E p \in Partings(c) : j < p
          /\ channel[c].inChannel => Partings(c) # {}
    /\ \A j \in Joinings(c) \cup About(toClient, c, "refused") :
          /\ channel[c].inChannel => \E p \in Partings(c) : p < j
          /\ \A i \in Joinings(c) : i < j => \E p \in Partings(c) : i < p /\ p < j

(* What the user left, the client leaves, too.                             *)
LeftAlone(c) ==
    /\ left[c] =>
          /\ \A i \in About(toServer, c, "join") : \E l \in Leaves(c) : i < l
          /\ "me" \in members[c] => Leaves(c) # {}
          /\ channel[c].stage # "attempt"
    /\ Leaves(c) # {} =>
          /\ channel[c].stage # "attempt"
          /\ channel[c].tracked => channel[c].inChannel

(* The operator status as the lines tell it.                               *)
Statuses(c) == Joinings(c) \cup Rosters(c)
OpIn(i) == toClient[i].kind = "names" /\ "me" \in toClient[i].ops
Follows(c, k, i) == k < i /\ \A s \in Statuses(c) : ~(k < s /\ s < i)
First(c, i) == \A s \in Statuses(c) : i <= s

StatusTold(c) ==
    /\ \A j \in Joinings(c) :
          \E n \in Rosters(c) : toClient[n].complete /\ Follows(c, j, n)
    /\ channel[c].inChannel /\ ~channel[c].synced =>
          \E n \in Rosters(c) : toClient[n].complete /\ First(c, n)
    /\ "me" \in members[c] =>
          /\ \A i \in Statuses(c) :
                (\A s \in Statuses(c) : s <= i) => (OpIn(i) <=> "me" \in ops[c])
          /\ Statuses(c) = {} /\ channel[c].inChannel => (channel[c].op <=> "me" \in ops[c])

(* What a channel may yet try: the JOINs of the user that no PART follows, *)
(* lines that will say we became operator, and its own state.              *)
Joins(c) == {i \in About(toServer, c, "join") : \A l \in Leaves(c) : l < i}
Rises(c) ==
    {i \in Rosters(c) :
        /\ OpIn(i)
        /\ \/ \E k \in Statuses(c) : ~OpIn(k) /\ Follows(c, k, i)
           \/ First(c, i) /\ channel[c].inChannel /\ ~channel[c].op}
Twice(c) == \E p, r \in Partings(c) : p < r
One(b) == IF b THEN 1 ELSE 0

Rest(c) ==
    IF Leaves(c) # {} THEN 0
    ELSE IF Partings(c) # {}
    THEN One(Joining(c))
         + IF ~Awaiting(c) THEN 0
           ELSE One(~channel[c].tried \/ Twice(c))
    ELSE IF channel[c].inChannel THEN One(~channel[c].tried)
    ELSE IF channel[c].tracked
    THEN One(Joining(c)) - One(Joining(c) \/ Cardinality(Joins(c)) > 0) + One(~channel[c].tried)
    ELSE One(Joining(c))

Earned(c) == credit[c] >= Cardinality(Joins(c)) + Cardinality(Rises(c)) + Rest(c)

OfChannel(c) == Staged(c) /\ InTurn(c) /\ LeftAlone(c) /\ StatusTold(c) /\ Earned(c)

RegainInv == Shape /\ \A c \in Channels : OfChannel(c)

-----------------------------------------------------------------------------
(* Lines on their way. *)

LEMMA AboutType ==
  ASSUME NEW S, NEW q \in Seq(S), NEW c, NEW kind
  PROVE  /\ Len(q) \in Nat /\ About(q, c, kind) \subseteq 1..Len(q)
         /\ IsFiniteSet(1..Len(q))
         /\ \A i \in About(q, c, kind) : i \in Int /\ 1 <= i /\ i <= Len(q)
<1>1. Len(q) \in Nat /\ DOMAIN q = 1..Len(q)
  OBVIOUS
<1> QED BY <1>1, FS_Interval DEF About

(* The first line is taken. *)
LEMMA AboutTail ==
  ASSUME NEW S, NEW q \in Seq(S), q # <<>>, NEW c, NEW kind
  PROVE  /\ \A i \in About(Tail(q), c, kind) :
               /\ i \in Int /\ 1 <= i
               /\ i + 1 \in About(q, c, kind) /\ Tail(q)[i] = q[i + 1]
         /\ \A i \in About(q, c, kind) :
               i # 1 => i - 1 \in About(Tail(q), c, kind) /\ Tail(q)[i - 1] = q[i]
         /\ 1 \in About(q, c, kind) <=> Head(q).kind = kind /\ Head(q).channel = c
<1>1. /\ Len(q) \in Nat \ {0} /\ DOMAIN q = 1..Len(q) /\ DOMAIN Tail(q) = 1..(Len(q) - 1)
      /\ \A i \in 1..(Len(q) - 1) : Tail(q)[i] = q[i + 1]
      /\ Head(q) = q[1]
  OBVIOUS
<1>2. ASSUME NEW i \in About(q, c, kind), i # 1
      PROVE  i - 1 \in 1..(Len(q) - 1) /\ (i - 1) + 1 = i
  BY <1>1, <1>2 DEF About
<1>3. ASSUME NEW i \in About(q, c, kind), i # 1
      PROVE  i - 1 \in About(Tail(q), c, kind) /\ Tail(q)[i - 1] = q[i]
  <2>1. Tail(q)[i - 1] = q[i]
    BY <1>1, <1>2, <1>3
  <2> QED BY <1>1, <1>2, <1>3, <2>1 DEF About
<1>4. ASSUME NEW i \in About(Tail(q), c, kind)
      PROVE  /\ i \in Int /\ 1 <= i
             /\ i + 1 \in About(q, c, kind) /\ Tail(q)[i] = q[i + 1]
  BY <1>1, <1>4 DEF About
<1>5. 1 \in About(q, c, kind) <=> Head(q).kind = kind /\ Head(q).channel = c
  BY <1>1 DEF About
<1> QED BY <1>3, <1>4, <1>5

(* Lines are sent. *)
LEMMA AboutConcat ==
  ASSUME NEW S, NEW q \in Seq(S), NEW s \in Seq(S), NEW c, NEW kind
  PROVE  /\ q \o s \in Seq(S) /\ Len(q) \in Nat /\ Len(q \o s) = Len(q) + Len(s)
         /\ \A i \in 1..Len(q) : (q \o s)[i] = q[i]
         /\ \A i \in 1..Len(s) : (q \o s)[Len(q) + i] = s[i]
         /\ \A i : i \in About(q \o s, c, kind) <=>
               \/ i \in About(q, c, kind)
               \/ i \in Int /\ i > Len(q) /\ i - Len(q) \in About(s, c, kind)
<1>1. /\ q \o s \in Seq(S) /\ Len(q) \in Nat /\ Len(s) \in Nat
      /\ Len(q \o s) = Len(q) + Len(s)
      /\ DOMAIN q = 1..Len(q) /\ DOMAIN s = 1..Len(s) /\ DOMAIN (q \o s) = 1..(Len(q) + Len(s))
      /\ \A i \in 1..(Len(q) + Len(s)) :
            (q \o s)[i] = IF i <= Len(q) THEN q[i] ELSE s[i - Len(q)]
  OBVIOUS
<1>2. \A i \in 1..Len(q) : (q \o s)[i] = q[i]
  BY <1>1
<1>3. \A i \in 1..Len(s) : (q \o s)[Len(q) + i] = s[i]
  BY <1>1
<1>4. ASSUME NEW i
      PROVE  i \in About(q \o s, c, kind) <=>
               \/ i \in About(q, c, kind)
               \/ i \in Int /\ i > Len(q) /\ i - Len(q) \in About(s, c, kind)
  <2>1. CASE i \in 1..Len(q)
    <3>1. i \in Int /\ ~(i > Len(q)) /\ i \in 1..(Len(q) + Len(s)) /\ (q \o s)[i] = q[i]
      BY <1>1, <1>2, <2>1
    <3> QED BY <1>1, <2>1, <3>1 DEF About
  <2>2. CASE i \in Int /\ i > Len(q) /\ i <= Len(q) + Len(s)
    <3>1. /\ i - Len(q) \in 1..Len(s) /\ i \in 1..(Len(q) + Len(s)) /\ i \notin 1..Len(q)
          /\ (q \o s)[i] = s[i - Len(q)]
      BY <1>1, <2>2
    <3> QED BY <1>1, <2>2, <3>1 DEF About
  <2>3. CASE i \notin 1..(Len(q) + Len(s))
    <3>1. i \notin 1..Len(q) /\ (i \in Int /\ i > Len(q) => i - Len(q) \notin 1..Len(s))
      BY <1>1, <2>3
    <3> QED BY <1>1, <2>3, <3>1 DEF About
  <2> QED BY <1>1, <2>1, <2>2, <2>3
<1> QED BY <1>1, <1>2, <1>3, <1>4

LEMMA AboutAppend ==
  ASSUME NEW S, NEW q \in Seq(S), NEW e \in S, NEW c, NEW kind
  PROVE  /\ Append(q, e) \in Seq(S) /\ Len(q) \in Nat /\ Len(Append(q, e)) = Len(q) + 1
         /\ \A i \in 1..Len(q) : Append(q, e)[i] = q[i]
         /\ Append(q, e)[Len(q) + 1] = e
         /\ e.kind = kind /\ e.channel = c =>
               About(Append(q, e), c, kind) = About(q, c, kind) \cup {Len(q) + 1}
         /\ ~(e.kind = kind /\ e.channel = c) =>
               About(Append(q, e), c, kind) = About(q, c, kind)
<1>1. /\ Append(q, e) \in Seq(S) /\ Len(q) \in Nat /\ Len(Append(q, e)) = Len(q) + 1
      /\ DOMAIN q = 1..Len(q) /\ DOMAIN Append(q, e) = 1..(Len(q) + 1)
      /\ \A i \in 1..Len(q) : Append(q, e)[i] = q[i]
      /\ Append(q, e)[Len(q) + 1] = e
  OBVIOUS
<1>2. \A i : i \in 1..(Len(q) + 1) <=> i \in 1..Len(q) \/ i = Len(q) + 1
  BY <1>1
<1> QED BY <1>1, <1>2 DEF About

(* The lines of a poll, one for each channel that is rejoined.             *)
LEMMA SetToSeqIs ==
  ASSUME NEW S, IsFiniteSet(S)
  PROVE  SetToSeq(S) \in Seq(S)
<1>1. PICK f \in [1..Cardinality(S) -> S] : IsInjective(f)
  <2>1. ExistsBijection(1..Cardinality(S), S) /\ Cardinality(S) \in Nat
    BY FS_NatBijection, FS_CardinalityType, FS_CountingElements
  <2>2. PICK f : f \in Bijection(1..Cardinality(S), S)
    BY <2>1 DEF ExistsBijection
  <2> QED BY <2>2 DEF Bijection, Injection, IsInjective
<1>2. SetToSeq(S) \in [1..Cardinality(S) -> S]
  BY <1>1 DEF SetToSeq
<1>3. Cardinality(S) \in Nat
  BY FS_CardinalityType
<1> QED BY <1>2, <1>3

LEMMA FewAreFinite ==
  ASSUME NEW n \in Nat, NEW A \in SUBSET (1..n)
  PROVE  IsFiniteSet(A) /\ Cardinality(A) \in Nat
<1>1. 1 \in Int /\ n \in Int
  OBVIOUS
<1>2. IsFiniteSet(1..n)
  BY <1>1, FS_Interval
<1> QED BY <1>2, FS_Subset, FS_CardinalityType

(* How many lines there are, when lines are taken or sent.                 *)
LEMMA FewerLines ==
  ASSUME NEW n \in Nat, NEW A \in SUBSET (1..n), NEW B, NEW d \in Int,
         \A i \in B : i \in Int /\ i + d \in A
  PROVE  /\ Cardinality(B) \in Nat /\ Cardinality(A) \in Nat
         /\ Cardinality(B) <= Cardinality(A)
         /\ \A x \in A : (\A i \in B : i + d # x) => Cardinality(B) < Cardinality(A)
<1>1. IsFiniteSet(A) /\ Cardinality(A) \in Nat
  BY FewAreFinite
<1> DEFINE f == [i \in B |-> i + d]
<1>2. ASSUME NEW C, IsFiniteSet(C), \A i \in B : i + d \in C
      PROVE  IsFiniteSet(B) /\ Cardinality(B) <= Cardinality(C)
  <2>1. f \in [B -> C]
    BY <1>2
  <2>2. \A i, j \in B : f[i] = f[j] => i = j
    OBVIOUS
  <2> HIDE DEF f
  <2>3. f \in Injection(B, C)
    BY <2>1, <2>2 DEF Injection, IsInjective
  <2> QED BY <1>2, <2>3, FS_Injection DEF ExistsInjection
<1>3. IsFiniteSet(B) /\ Cardinality(B) <= Cardinality(A)
  BY <1>1, <1>2
<1>4. ASSUME NEW x \in A, \A i \in B : i + d # x
      PROVE  Cardinality(B) < Cardinality(A)
  <2>1. IsFiniteSet(A \ {x}) /\ Cardinality(A \ {x}) = Cardinality(A) - 1
    BY <1>1, <1>4, FS_RemoveElement
  <2>2. Cardinality(B) <= Cardinality(A \ {x})
    BY <1>2, <1>4, <2>1
  <2>3. Cardinality(B) \in Nat
    BY <1>3, FS_CardinalityType
  <2> QED BY <1>1, <2>1, <2>2, <2>3
<1> QED BY <1>1, <1>3, <1>4, FS_CardinalityType

LEMMA MoreLines ==
  ASSUME NEW n \in Nat, NEW A \in SUBSET (1..n), NEW x
  PROVE  /\ Cardinality(A \cup {x}) \in Nat /\ Cardinality(A) \in Nat
         /\ Cardinality(A \cup {x}) <= Cardinality(A) + 1
<1>1. IsFiniteSet(A) /\ Cardinality(A) \in Nat
  BY FewAreFinite
<1>2. CASE x \in A
  <2>1. A \cup {x} = A
    BY <1>2
  <2>2. Cardinality(A \cup {x}) = Cardinality(A)
    BY <2>1
  <2> QED BY <1>1, <2>2
<1>3. CASE x \notin A
  <2>1. Cardinality(A \cup {x}) = Cardinality(A) + 1
    BY <1>1, <1>3, FS_AddElement
  <2> QED BY <1>1, <2>1
<1> QED BY <1>2, <1>3

-----------------------------------------------------------------------------
(* What each step makes of a channel. *)

(* The parts of a channel that the invariant is about.                     *)
SameChannel(c) ==
    /\ channel'[c].tracked = channel[c].tracked /\ channel'[c].tried = channel[c].tried
    /\ channel'[c].inChannel = channel[c].inChannel /\ channel'[c].synced = channel[c].synced
    /\ channel'[c].op = channel[c].op /\ channel'[c].stage = channel[c].stage
    /\ channel'[c].parted = channel[c].parted /\ channel'[c].joined = channel[c].joined
    /\ ~channel[c].tracked => channel'[c] = channel[c]

LEMMA UntrackedIs ==
  /\ Untracked \in Tracking
  /\ ~Untracked.tracked /\ ~Untracked.tried /\ ~Untracked.inChannel /\ ~Untracked.synced
  /\ ~Untracked.op /\ Untracked.stage = "watching" /\ ~Untracked.parted /\ ~Untracked.joined
  BY DEF Untracked, Tracking, Topics, Stages

LEMMA ReceiveIs ==
  ASSUME Shape, Receive
  PROVE  LET line == Head(toClient)
         IN  /\ line \in LinesOf(ServerKinds) /\ toClient # <<>>
             /\ toClient' = Tail(toClient) /\ toClient' \in Seq(LinesOf(ServerKinds))
             /\ line.channel \in Channels
             /\ \A c \in Channels : c # line.channel => channel'[c] = channel[c]
             /\ channel' = [c \in Channels |-> channel'[c]]
             /\ UNCHANGED <<members, ops, flags, topic, acts, left, credit, before>>
<1>1. /\ toClient # <<>> /\ toClient' = Tail(toClient) /\ toClient \in Seq(LinesOf(ServerKinds))
      /\ UNCHANGED <<members, ops, flags, topic, acts, left, credit, before>>
  BY DEF Receive, Shape, serverVars, historyVars
<1>2. /\ Head(toClient) \in LinesOf(ServerKinds) /\ toClient' \in Seq(LinesOf(ServerKinds))
  BY <1>1
<1>3. Head(toClient).channel \in Channels
  BY <1>2 DEF LinesOf
<1> DEFINE line == Head(toClient)
<1>4. ReceiveJoined(line) \/ ReceiveParted(line) \/ ReceiveTopic(line)
        \/ ReceiveModes(line) \/ ReceiveRefused(line) \/ ReceiveNames(line)
  BY DEF Receive
<1> HIDE DEF line
<1>5. /\ \A c \in Channels : c # line.channel => channel'[c] = channel[c]
      /\ channel' = [c \in Channels |-> channel'[c]]
  <2>1. channel \in [Channels -> Tracking]
    BY DEF Shape
  <2>2. CASE ReceiveJoined(line)
    BY <2>1, <2>2 DEF ReceiveJoined
  <2>3. CASE ReceiveParted(line)
    BY <2>1, <2>3 DEF ReceiveParted
  <2>4. CASE ReceiveTopic(line)
    BY <2>1, <2>4 DEF ReceiveTopic
  <2>5. CASE ReceiveModes(line) \/ ReceiveRefused(line)
    BY <2>1, <2>5 DEF ReceiveModes, ReceiveRefused
  <2>6. CASE ReceiveNames(line)
    BY <2>1, <2>6 DEF ReceiveNames
  <2> QED BY <1>4, <2>2, <2>3, <2>4, <2>5, <2>6
<1> QED BY <1>1, <1>2, <1>3, <1>5 DEF line

LEMMA JoinedIs ==
  ASSUME Shape, NEW line, line.channel \in Channels, ReceiveJoined(line)
  PROVE  LET c == line.channel
             old == channel[c]
             ours == old.stage = "attempt" /\ old.parted
         IN  /\ line.kind = "joined"
             /\ toServer' = Append(toServer, Line("query", c))
             /\ channel'[c] \in Tracking
             /\ channel'[c].tracked /\ channel'[c].inChannel
             /\ ~channel'[c].synced /\ ~channel'[c].op
             /\ channel'[c].tried = old.tried /\ channel'[c].parted = old.parted
             /\ channel'[c].joined <=> ours
             /\ channel'[c].stage = "attempt" <=> ours
<1> DEFINE c == line.channel
<1> DEFINE old == channel[c]
<1> DEFINE ours == old.stage = "attempt" /\ old.parted
<1> DEFINE stage == IF ours THEN "attempt" ELSE "watching"
<1>1. old \in Tracking /\ channel'[c] = Joined(old) /\ line.kind = "joined"
      /\ toServer' = Append(toServer, Line("query", c))
  BY DEF Shape, ReceiveJoined
<1>2. ours \in BOOLEAN /\ stage \in Stages /\ (stage = "attempt" <=> ours)
  <2>1. old.parted \in BOOLEAN
    BY <1>1 DEF Tracking
  <2>2. ours \in BOOLEAN
    BY <2>1, Zenon
  <2> HIDE DEF ours
  <2> QED BY <2>2 DEF Stages
<1>3. Joined(old) = [old EXCEPT !.tracked = TRUE, !.inChannel = TRUE, !.synced = FALSE,
                        !.op = FALSE, !.alone = FALSE, !.topic = "none",
                        !.stage = stage, !.joined = ours]
  BY DEF Joined
<1> HIDE DEF ours, stage, old
<1>4. "none" \in Topics
  BY DEF Topics
<1>5. /\ channel'[c] \in Tracking
      /\ channel'[c].tracked /\ channel'[c].inChannel
      /\ ~channel'[c].synced /\ ~channel'[c].op
      /\ channel'[c].tried = old.tried /\ channel'[c].parted = old.parted
      /\ channel'[c].joined = ours /\ channel'[c].stage = stage
  <2> DEFINE new == [old EXCEPT !.tracked = TRUE, !.inChannel = TRUE, !.synced = FALSE,
                        !.op = FALSE, !.alone = FALSE, !.topic = "none",
                        !.stage = stage, !.joined = ours]
  <2>1. /\ new \in Tracking
        /\ new.tracked /\ new.inChannel /\ ~new.synced /\ ~new.op
        /\ new.tried = old.tried /\ new.parted = old.parted
        /\ new.joined = ours /\ new.stage = stage
    BY <1>1, <1>2, <1>4 DEF Tracking
  <2> QED BY <1>1, <1>3, <2>1
<1> QED BY <1>1, <1>2, <1>5 DEF ours, old

LEMMA PartedIs ==
  ASSUME Shape, NEW line, line.channel \in Channels, ReceiveParted(line)
  PROVE  LET c == line.channel
         IN  /\ line.kind = "parted" /\ channel'[c] \in Tracking
             /\ Awaiting(c) =>
                   /\ toServer' = Append(toServer, Line("join", c))
                   /\ ~channel'[c].inChannel /\ channel'[c].parted
                   /\ channel'[c].tracked = channel[c].tracked
                   /\ channel'[c].tried = channel[c].tried
                   /\ channel'[c].synced = channel[c].synced
                   /\ channel'[c].op = channel[c].op
                   /\ channel'[c].stage = channel[c].stage
                   /\ channel'[c].joined = channel[c].joined
             /\ ~Awaiting(c) => toServer' = toServer /\ channel'[c] = Untracked
<1> DEFINE c == line.channel
<1>1. channel \in [Channels -> Tracking] /\ channel[c] \in Tracking /\ line.kind = "parted"
  BY DEF Shape, ReceiveParted
<1>2. ASSUME Awaiting(c)
      PROVE  /\ toServer' = Append(toServer, Line("join", c))
             /\ channel' = [channel EXCEPT ![c].parted = TRUE, ![c].inChannel = FALSE]
  BY <1>2 DEF ReceiveParted, Awaiting
<1>3. ASSUME Awaiting(c)
      PROVE  channel'[c] = [channel[c] EXCEPT !.parted = TRUE, !.inChannel = FALSE]
  BY <1>1, <1>2, <1>3
<1>4. ASSUME ~Awaiting(c)
      PROVE  toServer' = toServer /\ channel' = [channel EXCEPT ![c] = Untracked]
  BY <1>4 DEF ReceiveParted, Awaiting
<1>5. CASE Awaiting(c)
  BY <1>1, <1>2, <1>3, <1>5 DEF Tracking
<1>6. CASE ~Awaiting(c)
  BY <1>1, <1>4, <1>6, UntrackedIs
<1> QED BY <1>5, <1>6

LEMMA RefusedIs ==
  ASSUME Shape, NEW line, line.channel \in Channels, ReceiveRefused(line)
  PROVE  LET c == line.channel
             old == channel[c]
         IN  /\ line.kind = "refused" /\ toServer' = toServer /\ channel'[c] \in Tracking
             /\ old.stage = "attempt" =>
                   /\ channel'[c].stage = "watching" /\ ~channel'[c].inChannel
                   /\ channel'[c].tracked = old.tracked /\ channel'[c].tried = old.tried
                   /\ channel'[c].synced = old.synced /\ channel'[c].op = old.op
                   /\ channel'[c].parted = old.parted /\ channel'[c].joined = old.joined
             /\ old.stage # "attempt" => channel'[c] = old
<1> DEFINE c == line.channel
<1>1. channel \in [Channels -> Tracking] /\ channel[c] \in Tracking
  BY DEF Shape
<1>2. CASE channel[c].stage = "attempt"
  <2>1. /\ channel' = [channel EXCEPT ![c].stage = "watching", ![c].inChannel = FALSE]
        /\ line.kind = "refused" /\ toServer' = toServer
    BY <1>2 DEF ReceiveRefused
  <2>2. channel'[c] = [channel[c] EXCEPT !.stage = "watching", !.inChannel = FALSE]
    BY <1>1, <2>1
  <2> QED BY <1>1, <1>2, <2>1, <2>2 DEF Tracking, Stages
<1>3. CASE channel[c].stage # "attempt"
  BY <1>1, <1>3 DEF ReceiveRefused
<1> QED BY <1>2, <1>3

(* A roster is taken in, or it is about a channel we are not in.           *)
Ignored(c, line) ==
    \/ ~channel[c].tracked \/ ~channel[c].inChannel
    \/ ~(channel[c].synced \/ line.complete)

LEMMA NamesIs ==
  ASSUME Shape, NEW line \in LinesOf(ServerKinds), ReceiveNames(line)
  PROVE  LET c == line.channel
             old == channel[c]
         IN  /\ line.kind = "names" /\ channel'[c] \in Tracking
             /\ \/ toServer' = toServer
                \/ \E e \in LinesOf({"restore"}) : toServer' = Append(toServer, e) /\ ~e.user
             /\ Ignored(c, line) => channel'[c] = old
             /\ ~Ignored(c, line) =>
                   /\ channel'[c].synced /\ (channel'[c].op <=> "me" \in line.ops)
                   /\ channel'[c].tried <=> old.tried /\ "me" \notin line.ops
                   /\ channel'[c].tracked = old.tracked
                   /\ channel'[c].inChannel = old.inChannel
                   /\ channel'[c].parted = old.parted /\ channel'[c].joined = old.joined
                   /\ channel'[c].stage = "attempt" => old.stage = "attempt"
                   /\ old.stage = "attempt" =>
                         channel'[c].stage = "attempt" \/ old.joined
<1> DEFINE c == line.channel
<1> DEFINE old == channel[c]
<1>1. /\ channel \in [Channels -> Tracking] /\ old \in Tracking /\ line.complete \in BOOLEAN
      /\ c \in Channels
  BY DEF Shape, LinesOf
<1>2. CASE Ignored(c, line)
  BY <1>1, <1>2 DEF ReceiveNames, Ignored
<1>3. CASE ~Ignored(c, line)
  <2> DEFINE op == "me" \in line.ops
  <2> DEFINE alone == line.users = {"me"}
  <2> DEFINE tried == old.tried /\ ~op
  <2>1. op \in BOOLEAN /\ alone \in BOOLEAN /\ tried \in BOOLEAN
    <3>1. op \in BOOLEAN
      OBVIOUS
    <3>2. alone \in BOOLEAN
      BY Zenon
    <3> HIDE DEF op, alone, old
    <3>3. tried \in BOOLEAN
      BY Zenon
    <3> QED BY <3>1, <3>2, <3>3
  <2> DEFINE new == WithRoster(old, line)
  <2>2. new = [old EXCEPT !.synced = TRUE, !.op = op, !.alone = alone, !.tried = tried]
    BY <1>1 DEF WithRoster
  <2> HIDE DEF op, alone, tried, old
  <2>3. /\ new \in Tracking /\ new.synced /\ new.op = op /\ new.tried = tried
        /\ new.tracked = old.tracked /\ new.inChannel = old.inChannel
        /\ new.parted = old.parted /\ new.joined = old.joined /\ new.stage = old.stage
        /\ new.keepFlags \in BOOLEAN /\ new.keepTopic \in Topics
    BY <1>1, <2>1, <2>2 DEF Tracking
  <2> HIDE DEF new
  <2> DEFINE judges == old.stage = "attempt" /\ old.joined /\ line.complete
  <2>4. ASSUME NEW stage \in Stages, NEW seen \in BOOLEAN,
               channel'[c] = [new EXCEPT !.stage = stage, !.topicSeen = seen],
               stage = "attempt" => old.stage = "attempt",
               old.stage = "attempt" => stage = "attempt" \/ old.joined
        PROVE  /\ channel'[c] \in Tracking /\ channel'[c].synced
               /\ channel'[c].op = op /\ channel'[c].tried = tried
               /\ channel'[c].tracked = old.tracked /\ channel'[c].inChannel = old.inChannel
               /\ channel'[c].parted = old.parted /\ channel'[c].joined = old.joined
               /\ channel'[c].stage = "attempt" => old.stage = "attempt"
               /\ old.stage = "attempt" => channel'[c].stage = "attempt" \/ old.joined
    <3>1. /\ channel'[c] \in Tracking /\ channel'[c].synced
          /\ channel'[c].op = op /\ channel'[c].tried = tried
          /\ channel'[c].tracked = old.tracked /\ channel'[c].inChannel = old.inChannel
          /\ channel'[c].parted = old.parted /\ channel'[c].joined = old.joined
          /\ channel'[c].stage = stage
      BY <2>3, <2>4 DEF Tracking
    <3> QED BY <2>4, <3>1
  <2>5. CASE judges
    <3>1. /\ channel' = [channel EXCEPT ![c] = Judged(new)] /\ line.kind = "names"
          /\ \/ toServer' = toServer
             \/ toServer' = Append(toServer, [Line("restore", c) EXCEPT !.flags = new.keepFlags,
                                                                      !.topic = new.keepTopic])
      BY <1>3, <2>5 DEF ReceiveNames, Ignored, old, new
    <3>2. channel'[c] = Judged(new)
      BY <1>1, <3>1
    <3>3. \/ channel'[c] = [new EXCEPT !.stage = "restoring", !.topicSeen = FALSE]
          \/ channel'[c] = [new EXCEPT !.stage = "watching"]
      BY <3>2 DEF Judged
    <3>4. /\ new.topicSeen \in BOOLEAN
          /\ [new EXCEPT !.stage = "watching"] =
                [new EXCEPT !.stage = "watching", !.topicSeen = new.topicSeen]
      BY <2>3 DEF Tracking
    <3>5. "restoring" \in Stages /\ "watching" \in Stages /\ FALSE \in BOOLEAN
      BY DEF Stages
    <3>6. /\ [Line("restore", c) EXCEPT !.flags = new.keepFlags, !.topic = new.keepTopic]
                \in LinesOf({"restore"})
          /\ ~[Line("restore", c) EXCEPT !.flags = new.keepFlags, !.topic = new.keepTopic].user
      BY <1>1, <2>3 DEF Line, LinesOf
    <3>7. PICK stage \in Stages, seen \in BOOLEAN :
             channel'[c] = [new EXCEPT !.stage = stage, !.topicSeen = seen] /\ stage # "attempt"
      BY <3>3, <3>4, <3>5
    <3>8. old.stage = "attempt" /\ old.joined
      BY <2>5
    <3>9. /\ channel'[c] \in Tracking /\ channel'[c].synced
          /\ channel'[c].op = op /\ channel'[c].tried = tried
          /\ channel'[c].tracked = old.tracked /\ channel'[c].inChannel = old.inChannel
          /\ channel'[c].parted = old.parted /\ channel'[c].joined = old.joined
      BY <2>4, <3>7, <3>8
    <3> QED BY <1>3, <3>1, <3>6, <3>8, <3>9 DEF op, tried, old
  <2>6. CASE ~judges
    <3>1. /\ line.kind = "names" /\ toServer' = toServer
          /\ channel' = [channel EXCEPT ![c] =
                IF old.stage \in {"attempt", "restoring"} THEN new
                ELSE [new EXCEPT !.stage =
                        IF ~new.tried /\ new.alone /\ ~new.op THEN "settling" ELSE "watching"]]
      BY <1>3, <2>6 DEF ReceiveNames, Ignored, old, new
    <3>2. \/ channel'[c] = new /\ old.stage \in {"attempt", "restoring"}
          \/ \E stage \in {"settling", "watching"} :
               channel'[c] = [new EXCEPT !.stage = stage] /\ old.stage # "attempt"
      BY <1>1, <3>1
    <3>3. CASE channel'[c] = new
      BY <1>3, <2>3, <3>1, <3>3 DEF op, tried, old
    <3>4. ASSUME NEW stage \in {"settling", "watching"}, old.stage # "attempt",
                 channel'[c] = [new EXCEPT !.stage = stage]
          PROVE  /\ channel'[c] \in Tracking /\ channel'[c].synced
                 /\ channel'[c].op = op /\ channel'[c].tried = tried
                 /\ channel'[c].tracked = old.tracked /\ channel'[c].inChannel = old.inChannel
                 /\ channel'[c].parted = old.parted /\ channel'[c].joined = old.joined
                 /\ channel'[c].stage # "attempt"
      BY <2>3, <3>4 DEF Tracking, Stages
    <3> QED BY <1>3, <3>1, <3>2, <3>3, <3>4 DEF op, tried, old
  <2> QED BY <2>5, <2>6
<1> QED BY <1>2, <1>3

LEMMA OtherLineIs ==
  ASSUME Shape, NEW line \in LinesOf(ServerKinds), ReceiveTopic(line) \/ ReceiveModes(line)
  PROVE  LET c == line.channel
         IN  /\ line.kind \in {"topic", "modes"} /\ toServer' = toServer
             /\ channel'[c] \in Tracking /\ SameChannel(c)
<1> DEFINE c == line.channel
<1>1. /\ channel \in [Channels -> Tracking] /\ c \in Channels /\ channel[c] \in Tracking
      /\ line.topic \in Topics
  BY DEF Shape, LinesOf
<1>2. CASE channel' = channel
  BY <1>1, <1>2 DEF ReceiveTopic, ReceiveModes, SameChannel
<1>3. CASE channel' # channel
  <2> DEFINE seen == channel[c].topicSeen \/ /\ channel[c].stage = "restoring"
                                             /\ channel[c].keepTopic = line.topic
  <2>1. /\ line.kind = "topic" /\ toServer' = toServer /\ channel[c].tracked
        /\ channel' = [channel EXCEPT ![c].topic = line.topic,
                          ![c].topicSeen = @ \/ /\ channel[c].stage = "restoring"
                                                /\ channel[c].keepTopic = line.topic]
    BY <1>3 DEF ReceiveTopic, ReceiveModes
  <2>2. channel'[c] = [channel[c] EXCEPT !.topic = line.topic, !.topicSeen = seen]
    BY <1>1, <2>1
  <2>3. seen \in BOOLEAN
    BY Zenon
  <2> HIDE DEF seen
  <2>4. channel'[c] \in Tracking /\ SameChannel(c)
    BY <1>1, <2>1, <2>2, <2>3 DEF Tracking, SameChannel
  <2> QED BY <2>1, <2>4
<1> QED BY <1>2, <1>3

(* The lines of a poll. *)
LEMMA PollSends ==
  ASSUME NEW rejoined \in SUBSET Channels
  PROVE  LET s == SetToSeq({Line("part", c) : c \in rejoined})
         IN  s \in Seq(LinesOf({"part"})) /\ \A i \in DOMAIN s : ~s[i].user
<1> DEFINE S == {Line("part", c) : c \in rejoined}
<1>1. IsFiniteSet(rejoined)
  BY OpRegainAssumption, FS_Subset
<1>2. IsFiniteSet(S)
  <2> DEFINE f == [c \in rejoined |-> Line("part", c)]
  <2>1. f \in [rejoined -> S]
    OBVIOUS
  <2>2. \A l \in S : \E c \in rejoined : f[c] = l
    OBVIOUS
  <2> HIDE DEF f, S
  <2>3. f \in Surjection(rejoined, S)
    BY <2>1, <2>2, Fun_IsSurj
  <2> QED BY <1>1, <2>3, FS_Surjection
<1>3. \A l \in S : l \in LinesOf({"part"}) /\ ~l.user
  <2>1. ASSUME NEW c \in Channels
        PROVE  Line("part", c) \in LinesOf({"part"}) /\ ~Line("part", c).user
    BY DEF Line, LinesOf, Topics
  <2> QED BY <2>1
<1> HIDE DEF S
<1>4. SetToSeq(S) \in Seq(S)
  BY <1>2, SetToSeqIs
<1>5. S \subseteq LinesOf({"part"})
  BY <1>3
<1>6. SetToSeq(S) \in Seq(LinesOf({"part"})) /\ \A i \in DOMAIN SetToSeq(S) : SetToSeq(S)[i] \in S
  BY <1>4, <1>5
<1> QED BY <1>3, <1>6 DEF S

LEMMA PollIs ==
  ASSUME Shape, NEW d \in Channels, PollWith(d)
  PROVE  /\ UNCHANGED <<known, toClient, members, ops, flags, topic, acts, left>>
         /\ \E s \in Seq(LinesOf({"part"})) :
               toServer' = toServer \o s /\ \A i \in DOMAIN s : ~s[i].user
         /\ channel' = [c \in Channels |-> channel'[c]]
         /\ credit' = [c \in Channels |-> credit'[c]]
         /\ told' \in [Channels -> Results \cup {"none", "rejoining"}]
         /\ \A c \in Channels :
              /\ channel'[c] \in Tracking /\ credit'[c] \in Int
              /\ channel'[c].tracked = channel[c].tracked
              /\ channel'[c].inChannel = channel[c].inChannel
              /\ channel'[c].synced = channel[c].synced /\ channel'[c].op = channel[c].op
              /\ channel'[c] # channel[c] => channel[c].inChannel \/ channel[c].stage # "watching"
              /\ \/ /\ credit'[c] = credit[c] - 1
                    /\ channel[c].stage = "settling" /\ Qualifies(c) /\ Passes(c)
                    /\ channel'[c].tried /\ channel'[c].stage = "attempt"
                    /\ ~channel'[c].parted /\ ~channel'[c].joined
                 \/ /\ credit'[c] = credit[c]
                    /\ channel'[c].stage = channel[c].stage \/ channel'[c].stage # "attempt"
                    /\ channel'[c].tried = channel[c].tried \/ (channel'[c].tried /\ ~channel[c].op)
                    /\ channel'[c].parted = channel[c].parted
                    /\ channel'[c].joined = channel[c].joined
<1>1. PICK due \in SUBSET {c \in Channels : Timed(c) /\ Passes(c)}, ready \in BOOLEAN :
         Poll(due, ready)
  BY DEF PollWith
<1> DEFINE settled  == {c \in due : channel[c].stage = "settling"}
<1> DEFINE acting   == {c \in settled : ready /\ known[c] # "unknown"}
<1> DEFINE tooLong  == {c \in acting : Qualifies(c) /\ channel[c].topic = "long"}
<1> DEFINE eligible == {c \in acting : Qualifies(c) /\ channel[c].topic # "long"}
<1>2. PICK rejoined \in SUBSET eligible :
          /\ channel' = [c \in Channels |->
                CASE c \in rejoined -> Attempt(c)
                  [] c \in tooLong -> [channel[c] EXCEPT !.tried = TRUE, !.stage = "watching"]
                  [] c \in acting /\ ~Qualifies(c) -> [channel[c] EXCEPT !.stage = "watching"]
                  [] c \in due \ settled ->
                        [channel[c] EXCEPT !.stage =
                            IF @ = "restoring" /\ Qualifies(c) THEN "settling" ELSE "watching"]
                  [] OTHER -> channel[c]]
          /\ told' = [c \in Channels |->
                CASE c \in rejoined -> "rejoining"
                  [] c \in tooLong -> "topicTooLong"
                  [] c \in due \ settled -> Outcome(c)
                  [] OTHER -> told[c]]
          /\ toServer' = toServer \o SetToSeq({Line("part", c) : c \in rejoined})
          /\ credit' = [c \in Channels |-> IF c \in rejoined THEN credit[c] - 1 ELSE credit[c]]
  BY <1>1, Zenon DEF Poll
<1>3. rejoined \in SUBSET Channels
  OBVIOUS
<1>4. UNCHANGED <<known, toClient, members, ops, flags, topic, acts, left>>
  BY DEF PollWith, serverVars
<1>5. \E s \in Seq(LinesOf({"part"})) :
         toServer' = toServer \o s /\ \A i \in DOMAIN s : ~s[i].user
  BY <1>2, <1>3, PollSends
<1>6. told' \in [Channels -> Results \cup {"none", "rejoining"}]
  <2>1. told \in [Channels -> Results \cup {"none", "rejoining"}]
    BY DEF Shape
  <2>2. \A c \in due \ settled : Outcome(c) \in Results
    BY DEF Timed, Outcome, Results
  <2>3. ASSUME NEW c \in Channels PROVE told'[c] \in Results \cup {"none", "rejoining"}
    <3>1. \/ told'[c] \in {"rejoining", "topicTooLong"} \/ told'[c] = told[c]
          \/ c \in due \ settled /\ told'[c] = Outcome(c)
      BY <1>2, Zenon
    <3> QED BY <2>1, <2>2, <3>1 DEF Results
  <2>4. told' = [c \in Channels |-> told'[c]]
    BY <1>2
  <2> QED BY <2>3, <2>4
<1>7. channel' = [c \in Channels |-> channel'[c]] /\ credit' = [c \in Channels |-> credit'[c]]
  BY <1>2
<1>8. ASSUME NEW c \in Channels
      PROVE  \/ c \in rejoined /\ channel'[c] = Attempt(c) /\ credit'[c] = credit[c] - 1
             \/ /\ credit'[c] = credit[c]
                /\ \/ /\ channel'[c] = [channel[c] EXCEPT !.tried = TRUE, !.stage = "watching"]
                      /\ c \in tooLong
                   \/ /\ c \in due
                      /\ \E stage \in {"watching", "settling"} :
                            channel'[c] = [channel[c] EXCEPT !.stage = stage]
                   \/ channel'[c] = channel[c]
  <2>1. /\ channel'[c] =
                CASE c \in rejoined -> Attempt(c)
                  [] c \in tooLong -> [channel[c] EXCEPT !.tried = TRUE, !.stage = "watching"]
                  [] c \in acting /\ ~Qualifies(c) -> [channel[c] EXCEPT !.stage = "watching"]
                  [] c \in due \ settled ->
                        [channel[c] EXCEPT !.stage =
                            IF @ = "restoring" /\ Qualifies(c) THEN "settling" ELSE "watching"]
                  [] OTHER -> channel[c]
        /\ credit'[c] = IF c \in rejoined THEN credit[c] - 1 ELSE credit[c]
    BY <1>2
  <2>2. c \in acting => c \in due
    OBVIOUS
  <2>3. c \in rejoined => c \notin tooLong /\ c \in acting /\ Qualifies(c)
    OBVIOUS
  <2>4. c \in tooLong => c \in acting /\ Qualifies(c)
    OBVIOUS
  <2>5. c \in acting => c \notin due \ settled
    OBVIOUS
  <2> HIDE DEF acting, tooLong, settled
  <2>6. CASE c \in rejoined
    BY <2>1, <2>3, <2>5, <2>6
  <2>7. CASE c \notin rejoined /\ c \in tooLong
    BY <2>1, <2>4, <2>5, <2>7
  <2>8. CASE c \notin rejoined /\ c \notin tooLong
    BY <2>1, <2>2, <2>5, <2>8
  <2> QED BY <2>6, <2>7, <2>8
<1>9. ASSUME NEW c \in Channels
      PROVE
              /\ channel'[c] \in Tracking /\ credit'[c] \in Int
              /\ channel'[c].tracked = channel[c].tracked
              /\ channel'[c].inChannel = channel[c].inChannel
              /\ channel'[c].synced = channel[c].synced /\ channel'[c].op = channel[c].op
              /\ channel'[c] # channel[c] => channel[c].inChannel \/ channel[c].stage # "watching"
              /\ \/ /\ credit'[c] = credit[c] - 1
                    /\ channel[c].stage = "settling" /\ Qualifies(c) /\ Passes(c)
                    /\ channel'[c].tried /\ channel'[c].stage = "attempt"
                    /\ ~channel'[c].parted /\ ~channel'[c].joined
                 \/ /\ credit'[c] = credit[c]
                    /\ channel'[c].stage = channel[c].stage \/ channel'[c].stage # "attempt"
                    /\ channel'[c].tried = channel[c].tried \/ (channel'[c].tried /\ ~channel[c].op)
                    /\ channel'[c].parted = channel[c].parted
                    /\ channel'[c].joined = channel[c].joined
  <2>1. /\ channel[c] \in Tracking /\ credit[c] \in Int /\ known[c] \in {"unknown", "none", "flags"}
        /\ channel[c].topic \in Topics
    BY DEF Shape, Tracking
  <2>2. CASE c \in rejoined /\ channel'[c] = Attempt(c) /\ credit'[c] = credit[c] - 1
    <3>1. channel[c].stage = "settling" /\ Qualifies(c) /\ Passes(c)
      BY <2>2
    <3> DEFINE keep == known[c] = "flags"
    <3>2. keep \in BOOLEAN
      BY Zenon
    <3>3. channel'[c] = [channel[c] EXCEPT !.stage = "attempt", !.tried = TRUE, !.parted = FALSE,
                           !.joined = FALSE, !.keepFlags = keep, !.keepTopic = channel[c].topic]
      BY <2>2 DEF Attempt
    <3> HIDE DEF keep
    <3>4. /\ channel'[c] \in Tracking
          /\ channel'[c].tracked = channel[c].tracked
          /\ channel'[c].inChannel = channel[c].inChannel
          /\ channel'[c].synced = channel[c].synced /\ channel'[c].op = channel[c].op
          /\ channel'[c].tried /\ channel'[c].stage = "attempt"
          /\ ~channel'[c].parted /\ ~channel'[c].joined
      BY <2>1, <3>2, <3>3 DEF Tracking, Stages
    <3>5. channel[c].inChannel
      BY <3>1 DEF Qualifies
    <3> QED BY <2>1, <2>2, <3>1, <3>4, <3>5
  <2>3. CASE /\ channel'[c] = [channel[c] EXCEPT !.tried = TRUE, !.stage = "watching"]
             /\ c \in tooLong /\ credit'[c] = credit[c]
    <3>1. ~channel[c].op /\ channel[c].inChannel
      BY <2>3 DEF Qualifies
    <3> HIDE DEF tooLong
    <3> QED BY <2>1, <2>3, <3>1 DEF Tracking, Stages
  <2>4. ASSUME NEW stage \in {"watching", "settling"}, c \in due, credit'[c] = credit[c],
               channel'[c] = [channel[c] EXCEPT !.stage = stage]
        PROVE  /\ channel'[c] \in Tracking /\ credit'[c] \in Int
               /\ channel'[c].tracked = channel[c].tracked
               /\ channel'[c].inChannel = channel[c].inChannel
               /\ channel'[c].synced = channel[c].synced /\ channel'[c].op = channel[c].op
               /\ channel[c].stage # "watching" /\ channel'[c].stage # "attempt"
               /\ channel'[c].tried = channel[c].tried
               /\ channel'[c].parted = channel[c].parted
               /\ channel'[c].joined = channel[c].joined
    BY <2>1, <2>4 DEF Tracking, Stages, Timed
  <2>5. CASE channel'[c] = channel[c] /\ credit'[c] = credit[c]
    BY <2>1, <2>5
  <2> HIDE DEF tooLong
  <2> QED BY <1>8, <2>2, <2>3, <2>4, <2>5
<1> HIDE DEF tooLong, eligible, acting, settled
<1> QED BY <1>4, <1>5, <1>6, <1>7, <1>9

-----------------------------------------------------------------------------
(* Lines that only move to the front, or stay where they are. *)

Moved(old, new, d) ==
    /\ \A i \in new : i \in Int /\ 1 <= i /\ i + d \in old
    /\ \A i \in old : i \in Int /\ 1 <= i /\ (i # d => i - d \in new)

TurnsMove(c, d) ==
    /\ Moved(About(toClient, c, "joined"), About(toClient', c, "joined"), d)
    /\ Moved(About(toClient, c, "parted"), About(toClient', c, "parted"), d)
    /\ \A i \in About(toClient', c, "refused") :
          i \in Int /\ 1 <= i /\ i + d \in About(toClient, c, "refused")

RostersMove(c, d) ==
    /\ Moved(About(toClient, c, "names"), About(toClient', c, "names"), d)
    /\ \A i \in About(toClient', c, "names") : toClient'[i] = toClient[i + d]

RequestsMove(c, d) ==
    /\ \A i \in About(toServer', c, "join") :
          i \in Int /\ 1 <= i /\ i + d \in About(toServer, c, "join")
    /\ Moved(Leaves(c), Leaves(c)', d)

LEMMA ClientTakes ==
  ASSUME Shape, toClient # <<>>, toClient' = Tail(toClient), NEW c \in Channels
  PROVE  /\ TurnsMove(c, 1) /\ RostersMove(c, 1)
         /\ \A kind : 1 \in About(toClient, c, kind)
                         <=> Head(toClient).kind = kind /\ Head(toClient).channel = c
<1>1. toClient \in Seq(LinesOf(ServerKinds))
  BY DEF Shape
<1>2. ASSUME NEW kind
      PROVE  /\ Moved(About(toClient, c, kind), About(toClient', c, kind), 1)
             /\ \A i \in About(toClient', c, kind) : toClient'[i] = toClient[i + 1]
             /\ 1 \in About(toClient, c, kind)
                   <=> Head(toClient).kind = kind /\ Head(toClient).channel = c
  BY <1>1, AboutTail, AboutType DEF Moved
<1> QED BY <1>2 DEF TurnsMove, RostersMove, Moved

LEMMA ClientStays ==
  ASSUME Shape, toClient' = toClient, NEW c \in Channels
  PROVE  TurnsMove(c, 0) /\ RostersMove(c, 0)
<1>1. toClient \in Seq(LinesOf(ServerKinds))
  BY DEF Shape
<1>2. ASSUME NEW kind
      PROVE  /\ Moved(About(toClient, c, kind), About(toClient', c, kind), 0)
             /\ \A i \in About(toClient', c, kind) : i \in Int /\ toClient'[i] = toClient[i + 0]
  <2>1. \A i \in About(toClient, c, kind) : i \in Int /\ 1 <= i /\ i + 0 = i /\ i - 0 = i
    BY <1>1, AboutType
  <2> QED BY <2>1 DEF Moved
<1> QED BY <1>2 DEF TurnsMove, RostersMove, Moved

(* Lines of these kinds are about the channel. *)
Silent(lines, c, kinds) == \A kind \in kinds : About(lines, c, kind) = {}
TurnKinds == {"joined", "parted", "refused"}

LEMMA ClientGets ==
  ASSUME Shape, NEW s \in Seq(LinesOf(ServerKinds)), toClient' = toClient \o s,
         NEW c \in Channels
  PROVE  /\ toClient' \in Seq(LinesOf(ServerKinds))
         /\ Silent(s, c, TurnKinds) => TurnsMove(c, 0)
         /\ Silent(s, c, {"names"}) => RostersMove(c, 0)
<1>1. toClient \in Seq(LinesOf(ServerKinds))
  BY DEF Shape
<1>2. ASSUME NEW kind, About(s, c, kind) = {}
      PROVE  /\ Moved(About(toClient, c, kind), About(toClient', c, kind), 0)
             /\ \A i \in About(toClient', c, kind) : i \in Int /\ toClient'[i] = toClient[i + 0]
  <2>1. \A i \in About(toClient, c, kind) :
           i \in Int /\ 1 <= i /\ i \in 1..Len(toClient) /\ i + 0 = i /\ i - 0 = i
    BY <1>1, AboutType
  <2>2. \A i : i \in About(toClient', c, kind) <=> i \in About(toClient, c, kind)
    BY <1>1, <1>2, AboutConcat
  <2>3. \A i \in 1..Len(toClient) : toClient'[i] = toClient[i]
    BY <1>1, AboutConcat
  <2> QED BY <2>1, <2>2, <2>3 DEF Moved
<1>3. toClient' \in Seq(LinesOf(ServerKinds))
  BY <1>1
<1> QED BY <1>2, <1>3 DEF TurnsMove, RostersMove, Moved, Silent, TurnKinds

LEMMA LeavesType ==
  ASSUME Shape, NEW c \in Channels
  PROVE  /\ Len(toServer) \in Nat
         /\ About(toServer, c, "join") \in SUBSET (1..Len(toServer))
         /\ Leaves(c) \in SUBSET (1..Len(toServer))
         /\ Joins(c) \in SUBSET (1..Len(toServer))
         /\ Len(toClient) \in Nat
         /\ Joinings(c) \in SUBSET (1..Len(toClient))
         /\ Partings(c) \in SUBSET (1..Len(toClient))
         /\ Rosters(c) \in SUBSET (1..Len(toClient))
         /\ About(toClient, c, "refused") \in SUBSET (1..Len(toClient))
         /\ Rises(c) \in SUBSET (1..Len(toClient))
<1>1. toServer \in Seq(LinesOf(ClientKinds)) /\ toClient \in Seq(LinesOf(ServerKinds))
  BY DEF Shape
<1>2. Len(toServer) \in Nat /\ Len(toClient) \in Nat
  BY <1>1
<1>3. /\ \A kind : About(toServer, c, kind) \subseteq 1..Len(toServer)
      /\ \A kind : About(toClient, c, kind) \subseteq 1..Len(toClient)
  BY <1>1, AboutType
<1> QED BY <1>2, <1>3 DEF Leaves, Joins, Joinings, Partings, Rosters, Rises

LEMMA ServerTakes ==
  ASSUME Shape, toServer # <<>>, toServer' = Tail(toServer), NEW c \in Channels
  PROVE  /\ toServer' \in Seq(LinesOf(ClientKinds))
         /\ RequestsMove(c, 1)
         /\ 1 \in About(toServer, c, "join")
               <=> Head(toServer).kind = "join" /\ Head(toServer).channel = c
         /\ 1 \in Leaves(c) <=> /\ Head(toServer).kind = "part" /\ Head(toServer).channel = c
                                /\ Head(toServer).user
<1>1. toServer \in Seq(LinesOf(ClientKinds)) /\ Head(toServer) = toServer[1]
  BY DEF Shape
<1>2. ASSUME NEW kind
      PROVE  /\ Moved(About(toServer, c, kind), About(toServer', c, kind), 1)
             /\ \A i \in About(toServer', c, kind) : toServer'[i] = toServer[i + 1]
             /\ \A i \in About(toServer, c, kind) : i # 1 => toServer'[i - 1] = toServer[i]
             /\ 1 \in About(toServer, c, kind)
                   <=> Head(toServer).kind = kind /\ Head(toServer).channel = c
  BY <1>1, AboutTail, AboutType DEF Moved
<1>3. Moved(Leaves(c), Leaves(c)', 1)
  <2>1. ASSUME NEW i \in Leaves(c)'
        PROVE  i \in Int /\ 1 <= i /\ i + 1 \in Leaves(c)
    BY <1>2 DEF Leaves, Moved
  <2>2. ASSUME NEW i \in Leaves(c)
        PROVE  i \in Int /\ 1 <= i /\ (i # 1 => i - 1 \in Leaves(c)')
    BY <1>2 DEF Leaves, Moved
  <2> QED BY <2>1, <2>2 DEF Moved
<1>4. toServer' \in Seq(LinesOf(ClientKinds))
  BY <1>1
<1> QED BY <1>1, <1>2, <1>3, <1>4 DEF RequestsMove, Moved, Leaves

LEMMA ServerStays ==
  ASSUME Shape, toServer' = toServer, NEW c \in Channels
  PROVE  RequestsMove(c, 0)
<1>1. /\ \A i \in About(toServer, c, "join") : i \in Int /\ 1 <= i /\ i + 0 = i
      /\ \A i \in Leaves(c) : i \in Int /\ 1 <= i /\ i + 0 = i /\ i - 0 = i
  BY LeavesType
<1>2. Leaves(c)' = Leaves(c)
  BY DEF Leaves, About
<1> QED BY <1>1, <1>2 DEF RequestsMove, Moved

LEMMA ServerGets ==
  ASSUME Shape, NEW s \in Seq(LinesOf(ClientKinds)), toServer' = toServer \o s,
         NEW c \in Channels,
         About(s, c, "join") = {}, \A i \in DOMAIN s : ~s[i].user
  PROVE  RequestsMove(c, 0) /\ toServer' \in Seq(LinesOf(ClientKinds))
<1>1. /\ \A i \in About(toServer, c, "join") : i \in Int /\ 1 <= i /\ i + 0 = i
      /\ \A i \in Leaves(c) : i \in Int /\ 1 <= i /\ i + 0 = i /\ i - 0 = i
  BY LeavesType
<1>2. toServer \in Seq(LinesOf(ClientKinds)) /\ toServer' \in Seq(LinesOf(ClientKinds))
  BY DEF Shape
<1>3. \A i : i \in About(toServer', c, "join") <=> i \in About(toServer, c, "join")
  BY <1>2, AboutConcat
<1>4. ASSUME NEW i PROVE i \in Leaves(c)' <=> i \in Leaves(c)
  <2>1. i \in About(toServer', c, "part") <=>
               \/ i \in About(toServer, c, "part")
               \/ i \in Int /\ i > Len(toServer) /\ i - Len(toServer) \in About(s, c, "part")
    BY <1>2, AboutConcat
  <2>2. /\ \A k \in 1..Len(toServer) : toServer'[k] = toServer[k]
        /\ \A k \in 1..Len(s) : toServer'[Len(toServer) + k] = s[k]
        /\ Len(toServer) \in Nat
    BY <1>2, AboutConcat
  <2>3. CASE i \in About(toServer, c, "part")
    <3>1. i \in 1..Len(toServer)
      BY <1>2, <2>3, AboutType
    <3> QED BY <2>1, <2>2, <2>3, <3>1 DEF Leaves
  <2>4. CASE i \notin About(toServer, c, "part") /\ i \in About(toServer', c, "part")
    <3>1. i \in Int /\ i - Len(toServer) \in About(s, c, "part")
      BY <2>1, <2>4
    <3>2. i - Len(toServer) \in 1..Len(s) /\ i - Len(toServer) \in DOMAIN s
      BY <3>1, AboutType
    <3>3. toServer'[i] = s[i - Len(toServer)]
      BY <2>2, <3>1, <3>2
    <3> QED BY <2>4, <3>2, <3>3 DEF Leaves
  <2>5. CASE i \notin About(toServer', c, "part")
    BY <2>1, <2>5 DEF Leaves
  <2> QED BY <2>3, <2>4, <2>5
<1>5. Leaves(c)' = Leaves(c)
  BY <1>4
<1> QED BY <1>1, <1>2, <1>3, <1>5 DEF RequestsMove, Moved

(* One line is sent. *)
LEMMA ServerGetsOne ==
  ASSUME Shape, NEW e \in LinesOf(ClientKinds), toServer' = Append(toServer, e),
         NEW c \in Channels, ~e.user, ~(e.kind = "join" /\ e.channel = c)
  PROVE  RequestsMove(c, 0) /\ toServer' \in Seq(LinesOf(ClientKinds))
<1>1. toServer \in Seq(LinesOf(ClientKinds))
  BY DEF Shape
<1> DEFINE s == <<e>>
<1>2. /\ s \in Seq(LinesOf(ClientKinds)) /\ toServer' = toServer \o s
      /\ DOMAIN s = {1} /\ s[1] = e
  BY <1>1
<1> HIDE DEF s
<1>3. About(s, c, "join") = {} /\ \A i \in DOMAIN s : ~s[i].user
  BY <1>2 DEF About
<1> QED BY <1>2, <1>3, ServerGets

-----------------------------------------------------------------------------
(* What a step keeps that only moves the lines of a channel. *)

LEMMA TurnsKeep ==
  ASSUME Shape, NEW c \in Channels, NEW d \in {0, 1}, InTurn(c), TurnsMove(c, d),
         d \notin Joinings(c), d \notin Partings(c),
         channel'[c].inChannel => channel[c].inChannel,
         "me" \in members[c] =>
            channel'[c].inChannel \/ ~channel[c].inChannel \/ Leaves(c)' # {},
         "me" \in members'[c] <=> "me" \in members[c],
         "me" \in members[c] /\ Leaves(c) # {} => Leaves(c)' # {}
  PROVE  InTurn(c)'
<1>1. /\ \A i \in Joinings(c) : i \in Int /\ 1 <= i /\ i - d \in Joinings(c)'
      /\ \A i \in Partings(c) : i \in Int /\ 1 <= i /\ i - d \in Partings(c)'
      /\ \A i \in Joinings(c)' : i \in Int /\ 1 <= i /\ i + d \in Joinings(c)
      /\ \A i \in Partings(c)' : i \in Int /\ 1 <= i /\ i + d \in Partings(c)
      /\ \A i \in About(toClient', c, "refused") :
            i \in Int /\ 1 <= i /\ i + d \in About(toClient, c, "refused")
  BY DEF TurnsMove, Moved, Joinings, Partings
<1>2. d \in Int
  OBVIOUS
<1>3. ASSUME "me" \in members'[c], Partings(c)' # {}
      PROVE  Joining(c)'
  <2>1. Partings(c) # {}
    BY <1>1, <1>3
  <2>2. PICK j \in Joinings(c) : \A p \in Partings(c) : p < j
    BY <1>3, <2>1 DEF InTurn, Joining
  <2>3. j - d \in Joinings(c)' /\ \A p \in Partings(c)' : p < j - d
    BY <1>1, <1>2, <2>2
  <2> QED BY <2>3 DEF Joining
<1>4. ASSUME "me" \in members'[c]
      PROVE  channel'[c].inChannel \/ Joinings(c)' # {} \/ Leaves(c)' # {}
  BY <1>1, <1>4 DEF InTurn
<1>5. ASSUME "me" \notin members'[c]
      PROVE  /\ \A j \in Joinings(c)' : \E p \in Partings(c)' : j < p
             /\ channel'[c].inChannel => Partings(c)' # {}
  BY <1>1, <1>2, <1>5 DEF InTurn
<1>6. ASSUME NEW j \in Joinings(c)' \cup About(toClient', c, "refused")
      PROVE  /\ channel'[c].inChannel => \E p \in Partings(c)' : p < j
             /\ \A i \in Joinings(c)' : i < j => \E p \in Partings(c)' : i < p /\ p < j
  <2>1. j + d \in Joinings(c) \cup About(toClient, c, "refused") /\ j \in Int
    BY <1>1
  <2>2. /\ channel[c].inChannel => \E p \in Partings(c) : p < j + d
        /\ \A i \in Joinings(c) : i < j + d => \E p \in Partings(c) : i < p /\ p < j + d
    BY <2>1 DEF InTurn
  <2> QED BY <1>1, <1>2, <2>1, <2>2
<1> QED BY <1>3, <1>4, <1>5, <1>6 DEF InTurn

LEMMA LeftKeeps ==
  ASSUME Shape, NEW c \in Channels, NEW d \in {0, 1}, LeftAlone(c), RequestsMove(c, d),
         left'[c] = left[c],
         left[c] /\ "me" \in members'[c] => Leaves(c)' # {},
         channel'[c].stage = "attempt" => channel[c].stage = "attempt",
         Leaves(c) # {} /\ channel'[c].tracked => channel'[c].inChannel
  PROVE  LeftAlone(c)'
<1>1. /\ \A i \in About(toServer', c, "join") :
            i \in Int /\ 1 <= i /\ i + d \in About(toServer, c, "join")
      /\ \A i \in Leaves(c) : i \in Int /\ 1 <= i /\ (i # d => i - d \in Leaves(c)')
      /\ \A i \in Leaves(c)' : i \in Int /\ 1 <= i /\ i + d \in Leaves(c)
  BY DEF RequestsMove, Moved
<1>2. Leaves(c)' # {} => Leaves(c) # {}
  BY <1>1
<1>3. ASSUME left'[c], NEW i \in About(toServer', c, "join")
      PROVE  \E l \in Leaves(c)' : i < l
  <2>1. PICK l \in Leaves(c) : i + d < l
    BY <1>1, <1>3 DEF LeftAlone
  <2>2. l - d \in Leaves(c)' /\ i < l - d
    BY <1>1, <2>1
  <2> QED BY <2>2
<1> QED BY <1>2, <1>3 DEF LeftAlone

LEMMA StatusTypes ==
  ASSUME Shape, NEW c \in Channels
  PROVE  \A i \in Statuses(c) : i \in Int /\ 1 <= i /\ i <= Len(toClient)
  BY LeavesType DEF Statuses

LEMMA StatusesMove ==
  ASSUME Shape, NEW c \in Channels, NEW d \in {0, 1}, TurnsMove(c, d), RostersMove(c, d)
  PROVE  /\ Moved(Statuses(c), Statuses(c)', d)
         /\ Moved(Joinings(c), Joinings(c)', d) /\ Moved(Rosters(c), Rosters(c)', d)
         /\ \A i \in Rosters(c)' : toClient'[i] = toClient[i + d]
         /\ \A i \in Statuses(c)' : OpIn(i)' <=> OpIn(i + d)
<1>1. /\ Moved(Joinings(c), Joinings(c)', d) /\ Moved(Rosters(c), Rosters(c)', d)
      /\ \A i \in Rosters(c)' : toClient'[i] = toClient[i + d]
  BY DEF TurnsMove, RostersMove, Joinings, Rosters
<1>2. Moved(Statuses(c), Statuses(c)', d)
  BY <1>1 DEF Moved, Statuses
<1>3. ASSUME NEW i \in Statuses(c)'
      PROVE  OpIn(i)' <=> OpIn(i + d)
  <2>1. CASE i \in Rosters(c)'
    BY <1>1, <2>1 DEF OpIn
  <2>2. CASE i \in Joinings(c)'
    <3>1. i + d \in Joinings(c)
      BY <1>1, <2>2 DEF Moved
    <3> QED BY <2>2, <3>1 DEF OpIn, Joinings, About
  <2> QED BY <2>1, <2>2 DEF Statuses
<1> QED BY <1>1, <1>2, <1>3

LEMMA ToldKeeps ==
  ASSUME Shape, NEW c \in Channels, NEW d \in {0, 1}, TurnsMove(c, d), RostersMove(c, d),
         StatusTold(c), d \notin Statuses(c),
         channel'[c].inChannel =>
            /\ channel[c].inChannel /\ channel'[c].synced = channel[c].synced
            /\ channel'[c].op = channel[c].op,
         "me" \in members'[c] =>
            "me" \in members[c] /\ ("me" \in ops'[c] <=> "me" \in ops[c])
  PROVE  StatusTold(c)'
<1>1. /\ \A i \in Statuses(c) : i \in Int /\ 1 <= i /\ i - d \in Statuses(c)'
      /\ \A i \in Rosters(c) : i \in Int /\ 1 <= i /\ i - d \in Rosters(c)'
      /\ \A i \in Statuses(c)' : i \in Int /\ 1 <= i /\ i + d \in Statuses(c)
      /\ \A i \in Joinings(c)' : i \in Int /\ 1 <= i /\ i + d \in Joinings(c)
      /\ \A i \in Rosters(c)' : toClient'[i] = toClient[i + d]
      /\ \A i \in Statuses(c)' : OpIn(i)' <=> OpIn(i + d)
  BY StatusesMove DEF Moved, Statuses
<1>2. d \in Int /\ \A i \in Int : (i - d) + d = i
  OBVIOUS
<1>3. ASSUME NEW j \in Joinings(c)'
      PROVE  \E n \in Rosters(c)' : toClient'[n].complete /\ Follows(c, j, n)'
  <2>1. PICK n \in Rosters(c) : toClient[n].complete /\ Follows(c, j + d, n)
    BY <1>1 DEF StatusTold
  <2>2. n - d \in Rosters(c)' /\ toClient'[n - d] = toClient[n]
    BY <1>1, <1>2
  <2>3. Follows(c, j, n - d)'
    BY <1>1, <1>2, <2>1 DEF Follows
  <2> QED BY <2>1, <2>2, <2>3
<1>4. ASSUME channel'[c].inChannel, ~channel'[c].synced
      PROVE  \E n \in Rosters(c)' : toClient'[n].complete /\ First(c, n)'
  <2>1. PICK n \in Rosters(c) : toClient[n].complete /\ First(c, n)
    BY <1>4 DEF StatusTold
  <2>2. n - d \in Rosters(c)' /\ toClient'[n - d] = toClient[n]
    BY <1>1, <1>2
  <2>3. First(c, n - d)'
    BY <1>1, <1>2, <2>1 DEF First
  <2> QED BY <2>1, <2>2, <2>3
<1>5. ASSUME "me" \in members'[c], NEW i \in Statuses(c)', \A s \in Statuses(c)' : s <= i
      PROVE  OpIn(i)' <=> "me" \in ops'[c]
  <2>1. i + d \in Statuses(c) /\ \A s \in Statuses(c) : s <= i + d
    BY <1>1, <1>2, <1>5
  <2> QED BY <1>1, <1>5, <2>1 DEF StatusTold
<1>6. ASSUME "me" \in members'[c], Statuses(c)' = {}, channel'[c].inChannel
      PROVE  channel'[c].op <=> "me" \in ops'[c]
  BY <1>1, <1>6 DEF StatusTold
<1> QED BY <1>3, <1>4, <1>5, <1>6 DEF StatusTold

(* Lines that say we became operator are not made by moving them. *)
LEMMA RisesKeep ==
  ASSUME Shape, NEW c \in Channels, NEW d \in {0, 1}, TurnsMove(c, d), RostersMove(c, d),
         d \in Statuses(c) => d \in Joinings(c) \/ ~channel[c].inChannel,
         channel'[c].inChannel =>
            \/ channel[c].inChannel /\ channel'[c].op = channel[c].op
            \/ d \in Joinings(c)
  PROVE  /\ \A i \in Rises(c)' : i \in Int /\ i + d \in Rises(c)
         /\ Cardinality(Rises(c)') \in Nat /\ Cardinality(Rises(c)) \in Nat
         /\ Cardinality(Rises(c)') <= Cardinality(Rises(c))
<1>1. /\ \A i \in Statuses(c) : i \in Int /\ 1 <= i /\ (i # d => i - d \in Statuses(c)')
      /\ \A i \in Statuses(c)' : i \in Int /\ 1 <= i /\ i + d \in Statuses(c)
      /\ \A i \in Rosters(c)' : i \in Statuses(c)' /\ i + d \in Rosters(c)
      /\ \A i \in Statuses(c)' : OpIn(i)' <=> OpIn(i + d)
  BY StatusesMove DEF Moved, Statuses
<1>2. d \in Int /\ \A i \in Int : (i - d) + d = i
  OBVIOUS
<1>3. ASSUME NEW i \in Rises(c)'
      PROVE  i \in Int /\ i + d \in Rises(c)
  <2>1. i \in Rosters(c)' /\ OpIn(i)' /\ i \in Int /\ i + d \in Rosters(c) /\ OpIn(i + d)
    BY <1>1, <1>3 DEF Rises
  <2>2. CASE \E k \in Statuses(c)' : ~OpIn(k)' /\ Follows(c, k, i)'
    <3>1. PICK k \in Statuses(c)' : ~OpIn(k)' /\ Follows(c, k, i)'
      BY <2>2
    <3>2. k + d \in Statuses(c) /\ ~OpIn(k + d)
      BY <1>1, <3>1
    <3>3. Follows(c, k + d, i + d)
      BY <1>1, <1>2, <2>1, <3>1 DEF Follows
    <3> QED BY <2>1, <3>2, <3>3 DEF Rises
  <2>3. CASE First(c, i)' /\ channel'[c].inChannel /\ ~channel'[c].op
    <3>1. CASE d \in Joinings(c)
      <4>1. d \in Statuses(c) /\ ~OpIn(d)
        BY <3>1 DEF Statuses, OpIn, Joinings, About
      <4>2. Follows(c, d, i + d)
        BY <1>1, <1>2, <2>1, <2>3 DEF Follows, First
      <4> QED BY <2>1, <4>1, <4>2 DEF Rises
    <3>2. CASE d \notin Joinings(c)
      <4>1. d \notin Statuses(c) /\ channel[c].inChannel /\ ~channel[c].op
        BY <2>3, <3>2
      <4>2. First(c, i + d)
        BY <1>1, <1>2, <2>1, <2>3, <4>1 DEF First
      <4> QED BY <2>1, <4>1, <4>2 DEF Rises
    <3> QED BY <3>1, <3>2
  <2> QED BY <1>3, <2>1, <2>2, <2>3 DEF Rises
<1>4. Rises(c) \in SUBSET (1..Len(toClient)) /\ Len(toClient) \in Nat
  BY LeavesType
<1> QED BY <1>2, <1>3, <1>4, FewerLines

LEMMA JoinsKeep ==
  ASSUME Shape, NEW c \in Channels, NEW d \in {0, 1}, RequestsMove(c, d)
  PROVE  /\ Cardinality(Joins(c)') \in Nat /\ Cardinality(Joins(c)) \in Nat
         /\ Cardinality(Joins(c)') <= Cardinality(Joins(c))
         /\ d \in Joins(c) => Cardinality(Joins(c)') < Cardinality(Joins(c))
<1>1. Joins(c) \in SUBSET (1..Len(toServer)) /\ Len(toServer) \in Nat
  BY LeavesType
<1>2. d \in Int
  OBVIOUS
<1>3. ASSUME NEW i \in Joins(c)'
      PROVE  i \in Int /\ i + d \in Joins(c) /\ i + d # d
  <2>1. /\ i \in Int /\ 1 <= i /\ i + d \in About(toServer, c, "join")
        /\ \A l \in Leaves(c)' : l < i
        /\ \A l \in Leaves(c) : l \in Int /\ (l # d => l - d \in Leaves(c)')
    BY <1>3 DEF Joins, RequestsMove, Moved
  <2>2. \A l \in Leaves(c) : l < i + d
    BY <1>2, <2>1
  <2> QED BY <1>2, <2>1, <2>2 DEF Joins
<1> QED BY <1>1, <1>2, <1>3, FewerLines

(* The joins under way, as the lines of the link tell them. *)
LEMMA JoiningsKeep ==
  ASSUME Shape, NEW c \in Channels, NEW d \in {0, 1}, TurnsMove(c, d)
  PROVE  /\ Joining(c)' => Joining(c)
         /\ d \notin Joinings(c) /\ Joining(c) => Joining(c)'
         /\ Twice(c)' => Twice(c)
         /\ Partings(c)' # {} => Partings(c) # {}
         /\ d \notin Partings(c) /\ Partings(c) # {} => Partings(c)' # {}
<1>1. /\ \A i \in Joinings(c) : i \in Int /\ 1 <= i /\ (i # d => i - d \in Joinings(c)')
      /\ \A i \in Partings(c) : i \in Int /\ 1 <= i /\ (i # d => i - d \in Partings(c)')
      /\ \A i \in Joinings(c)' : i \in Int /\ 1 <= i /\ i + d \in Joinings(c)
      /\ \A i \in Partings(c)' : i \in Int /\ 1 <= i /\ i + d \in Partings(c)
  BY DEF TurnsMove, Moved, Joinings, Partings
<1>2. d \in Int
  OBVIOUS
<1>3. Joining(c)' => Joining(c)
  <2>1. ASSUME NEW j \in Joinings(c)', \A p \in Partings(c)' : p < j
        PROVE  j + d \in Joinings(c) /\ \A p \in Partings(c) : p < j + d
    BY <1>1, <1>2, <2>1
  <2> QED BY <2>1 DEF Joining
<1>4. d \notin Joinings(c) /\ Joining(c) => Joining(c)'
  <2>1. ASSUME NEW j \in Joinings(c), \A p \in Partings(c) : p < j, d \notin Joinings(c)
        PROVE  j - d \in Joinings(c)' /\ \A p \in Partings(c)' : p < j - d
    BY <1>1, <1>2, <2>1
  <2> QED BY <2>1 DEF Joining
<1>5. Twice(c)' => Twice(c)
  BY <1>1, <1>2 DEF Twice
<1> QED BY <1>1, <1>3, <1>4, <1>5

LEMMA RestKeeps ==
  ASSUME Shape, NEW c \in Channels, NEW d \in {0, 1}, NEW e \in {0, 1},
         TurnsMove(c, d), d \notin Partings(c), d \notin Joinings(c),
         RequestsMove(c, e), e \notin Leaves(c),
         channel'[c].inChannel = channel[c].inChannel,
         channel'[c].tracked = channel[c].tracked,
         channel[c].tried => channel'[c].tried,
         Awaiting(c)' => Awaiting(c)
  PROVE  /\ Rest(c)' \in Int /\ Rest(c) \in Int
         /\ Rest(c)' + Cardinality(Joins(c)') <= Rest(c) + Cardinality(Joins(c))
<1>1. /\ Cardinality(Joins(c)') \in Nat /\ Cardinality(Joins(c)) \in Nat
      /\ Cardinality(Joins(c)') <= Cardinality(Joins(c))
  BY JoinsKeep
<1>2. Leaves(c)' = {} <=> Leaves(c) = {}
  BY DEF RequestsMove, Moved
<1>3. /\ Partings(c)' = {} <=> Partings(c) = {}
      /\ Joining(c)' <=> Joining(c)
      /\ Twice(c)' => Twice(c)
  BY JoiningsKeep
<1> QED BY <1>1, <1>2, <1>3 DEF Rest, One

(* Nothing of what the invariant says of the channel changes. *)
Calm(c) ==
    /\ channel'[c].tracked = channel[c].tracked /\ channel'[c].inChannel = channel[c].inChannel
    /\ channel'[c].synced = channel[c].synced /\ channel'[c].op = channel[c].op
    /\ channel'[c].parted = channel[c].parted /\ channel'[c].joined = channel[c].joined
    /\ channel'[c].stage = "attempt" => channel[c].stage = "attempt"
    /\ channel[c].tried => channel'[c].tried
    /\ channel'[c].tried => channel[c].tried \/ ~channel[c].op
    /\ ~channel[c].tracked => channel'[c] = channel[c]

ServerSame(c) ==
    /\ "me" \in members'[c] <=> "me" \in members[c]
    /\ "me" \in ops'[c] <=> "me" \in ops[c]
    /\ left'[c] = left[c]


LEMMA StagedKeeps ==
  ASSUME NEW c \in Channels, Staged(c), Calm(c)
  PROVE  Staged(c)'
BY DEF Staged, Calm

LEMMA CalmKeeps ==
  ASSUME Shape, NEW c \in Channels, NEW d \in {0, 1}, NEW e \in {0, 1}, OfChannel(c),
         TurnsMove(c, d), RostersMove(c, d), RequestsMove(c, e),
         d \notin Partings(c), d \notin Statuses(c), e \notin Leaves(c),
         Calm(c), ServerSame(c), credit[c] \in Int, credit'[c] \in Int, credit'[c] >= credit[c]
  PROVE  OfChannel(c)'
<1>1. d \notin Joinings(c)
  BY DEF Statuses
<1>2. Staged(c)'
  BY StagedKeeps DEF OfChannel
<1>3. Leaves(c)' = {} <=> Leaves(c) = {}
  BY DEF RequestsMove, Moved
<1>4. InTurn(c)'
  BY <1>1, <1>3, TurnsKeep DEF OfChannel, Calm, ServerSame
<1>5. LeftAlone(c)'
  <2>1. /\ left[c] /\ "me" \in members'[c] => Leaves(c)' # {}
        /\ Leaves(c) # {} /\ channel'[c].tracked => channel'[c].inChannel
    BY <1>3 DEF OfChannel, LeftAlone, Calm, ServerSame
  <2> QED BY <2>1, LeftKeeps DEF OfChannel, Calm, ServerSame
<1>6. StatusTold(c)'
  BY ToldKeeps DEF OfChannel, Calm, ServerSame
<1>7. Earned(c)'
  <2>1. /\ Cardinality(Rises(c)') \in Nat /\ Cardinality(Rises(c)) \in Nat
        /\ Cardinality(Rises(c)') <= Cardinality(Rises(c))
    BY RisesKeep DEF Calm
  <2>2. Awaiting(c)' => Awaiting(c)
    BY DEF Awaiting, Calm
  <2>3. /\ Rest(c)' \in Int /\ Rest(c) \in Int
        /\ Rest(c)' + Cardinality(Joins(c)') <= Rest(c) + Cardinality(Joins(c))
    BY <1>1, <2>2, RestKeeps DEF Calm
  <2>4. Cardinality(Joins(c)') \in Nat /\ Cardinality(Joins(c)) \in Nat
    BY JoinsKeep
  <2> QED BY <2>1, <2>3, <2>4 DEF OfChannel, Earned
<1> QED BY <1>2, <1>4, <1>5, <1>6, <1>7 DEF OfChannel

-----------------------------------------------------------------------------
(* The client takes a line about the channel. *)

LEMMA TakesIs ==
  ASSUME Shape, Receive, NEW c \in Channels
  PROVE  LET line == Head(toClient)
         IN  /\ TurnsMove(c, 1) /\ RostersMove(c, 1)
             /\ \A kind : 1 \in About(toClient, c, kind) <=> line.kind = kind /\ line.channel = c
             /\ line = toClient[1]
             /\ ServerSame(c) /\ members' = members /\ ops' = ops /\ left' = left
             /\ credit' = credit /\ credit[c] \in Int
<1>1. credit[c] \in Int /\ toClient \in Seq(LinesOf(ServerKinds))
  BY DEF Shape
<1> QED BY <1>1, ReceiveIs, ClientTakes DEF ServerSame

LEMMA LineIs ==
  ASSUME NEW c \in Channels
  PROVE  /\ Line("query", c) \in LinesOf(ClientKinds) /\ Line("join", c) \in LinesOf(ClientKinds)
         /\ Line("query", c).kind = "query" /\ Line("join", c).kind = "join"
         /\ Line("query", c).channel = c /\ Line("join", c).channel = c
         /\ ~Line("query", c).user /\ ~Line("join", c).user
  BY DEF Line, LinesOf, Topics, ClientKinds

LEMMA RestoreIs ==
  ASSUME NEW e \in LinesOf({"restore"})
  PROVE  e \in LinesOf(ClientKinds) /\ e.kind = "restore"
  BY DEF LinesOf, ClientKinds

LEMMA JoinedKeeps ==
  ASSUME Shape, Receive, ReceiveJoined(Head(toClient)), NEW c \in Channels, OfChannel(c),
         Head(toClient).channel = c
  PROVE  OfChannel(c)'
<1> DEFINE ours == channel[c].stage = "attempt" /\ channel[c].parted
<1>1. /\ TurnsMove(c, 1) /\ RostersMove(c, 1) /\ 1 \in Joinings(c)
      /\ 1 \notin Partings(c)
      /\ members' = members /\ ops' = ops /\ left' = left /\ credit' = credit /\ credit[c] \in Int
  BY TakesIs, JoinedIs DEF Joinings, Partings
<1>2. /\ channel'[c].tracked /\ channel'[c].inChannel
      /\ ~channel'[c].synced /\ ~channel'[c].op
      /\ channel'[c].tried = channel[c].tried /\ channel'[c].parted = channel[c].parted
      /\ channel'[c].joined <=> ours
      /\ channel'[c].stage = "attempt" <=> ours
      /\ toServer' = Append(toServer, Line("query", c))
  BY JoinedIs
<1>3. RequestsMove(c, 0)
  BY <1>2, LineIs, ServerGetsOne
<1>4. Staged(c) /\ InTurn(c) /\ LeftAlone(c) /\ StatusTold(c) /\ Earned(c)
  BY DEF OfChannel
<1>5. /\ \A i \in Joinings(c) : i \in Int /\ 1 <= i /\ (i # 1 => i - 1 \in Joinings(c)')
      /\ \A i \in Partings(c) : i \in Int /\ 1 < i /\ i - 1 \in Partings(c)'
      /\ \A i \in Joinings(c)' : i \in Int /\ 1 <= i /\ i + 1 \in Joinings(c)
      /\ \A i \in Partings(c)' : i \in Int /\ 1 <= i /\ i + 1 \in Partings(c)
      /\ \A i \in About(toClient', c, "refused") :
            i \in Int /\ 1 <= i /\ i + 1 \in About(toClient, c, "refused")
  <2>1. \A i \in Partings(c) : i # 1
    BY <1>1
  <2> QED BY <1>1, <2>1 DEF TurnsMove, Moved, Joinings, Partings
<1>6. /\ \A i \in Statuses(c) : i \in Int /\ 1 <= i /\ (i # 1 => i - 1 \in Statuses(c)')
      /\ \A i \in Rosters(c) : i \in Int /\ 1 <= i /\ (i # 1 => i - 1 \in Rosters(c)')
      /\ \A i \in Statuses(c)' : i \in Int /\ 1 <= i /\ i + 1 \in Statuses(c)
      /\ \A i \in Rosters(c)' : toClient'[i] = toClient[i + 1]
      /\ \A i \in Statuses(c)' : OpIn(i)' <=> OpIn(i + 1)
      /\ 1 \in Statuses(c)
  BY <1>1, StatusesMove DEF Moved, Statuses
<1>7. ~channel[c].inChannel
  BY <1>1, <1>4, <1>5 DEF InTurn
<1>8. Staged(c)'
  BY <1>2 DEF Staged
<1>9. InTurn(c)'
  <2>1. ASSUME "me" \in members'[c], Partings(c)' # {}
        PROVE  Joining(c)'
    <3>1. PICK j \in Joinings(c) : \A p \in Partings(c) : p < j
      BY <1>1, <1>4, <1>5, <2>1 DEF InTurn, Joining
    <3>2. j # 1
      BY <1>5, <2>1, <3>1
    <3>3. j - 1 \in Joinings(c)' /\ \A p \in Partings(c)' : p < j - 1
      BY <1>5, <3>1, <3>2
    <3> QED BY <3>3 DEF Joining
  <2>2. ASSUME "me" \notin members'[c]
        PROVE  /\ \A j \in Joinings(c)' : \E p \in Partings(c)' : j < p
               /\ channel'[c].inChannel => Partings(c)' # {}
    BY <1>1, <1>4, <1>5, <2>2 DEF InTurn
  <2>3. ASSUME NEW j \in Joinings(c)' \cup About(toClient', c, "refused")
        PROVE  /\ channel'[c].inChannel => \E p \in Partings(c)' : p < j
               /\ \A i \in Joinings(c)' : i < j => \E p \in Partings(c)' : i < p /\ p < j
    <3>1. j + 1 \in Joinings(c) \cup About(toClient, c, "refused") /\ j \in Int /\ 1 < j + 1
      BY <1>5
    <3>2. \A i \in Joinings(c) : i < j + 1 => \E p \in Partings(c) : i < p /\ p < j + 1
      BY <1>4, <3>1 DEF InTurn
    <3> QED BY <1>1, <1>5, <3>1, <3>2
  <2> QED BY <1>2, <2>1, <2>2, <2>3 DEF InTurn
<1>10. LeftAlone(c)'
  <2>1. left[c] /\ "me" \in members'[c] => Leaves(c)' # {}
    BY <1>1, <1>3, <1>4 DEF LeftAlone, RequestsMove, Moved
  <2> QED BY <1>1, <1>2, <1>3, <1>4, <2>1, LeftKeeps
<1>11. StatusTold(c)'
  <2>1. ASSUME NEW j \in Joinings(c)'
        PROVE  \E n \in Rosters(c)' : toClient'[n].complete /\ Follows(c, j, n)'
    <3>1. PICK n \in Rosters(c) : toClient[n].complete /\ Follows(c, j + 1, n)
      BY <1>4, <1>5 DEF StatusTold
    <3>2. n - 1 \in Rosters(c)' /\ toClient'[n - 1] = toClient[n] /\ n \in Int
      BY <1>5, <1>6, <3>1 DEF Follows
    <3>3. Follows(c, j, n - 1)'
      BY <1>5, <1>6, <3>1, <3>2 DEF Follows
    <3> QED BY <3>1, <3>2, <3>3
  <2>2. PICK n \in Rosters(c) : toClient[n].complete /\ Follows(c, 1, n)
    BY <1>1, <1>4 DEF StatusTold
  <2>3. n - 1 \in Rosters(c)' /\ toClient'[n - 1] = toClient[n] /\ n \in Int
    BY <1>6, <2>2 DEF Follows
  <2>4. First(c, n - 1)'
    BY <1>6, <2>2, <2>3 DEF First, Follows
  <2>5. ASSUME "me" \in members'[c], NEW i \in Statuses(c)', \A s \in Statuses(c)' : s <= i
        PROVE  OpIn(i)' <=> "me" \in ops'[c]
    <3>1. i + 1 \in Statuses(c) /\ \A s \in Statuses(c) : s <= i + 1
      BY <1>6, <2>5
    <3> QED BY <1>1, <1>4, <1>6, <2>5, <3>1 DEF StatusTold
  <2>6. Statuses(c)' # {}
    BY <2>3 DEF Statuses
  <2> QED BY <2>1, <2>2, <2>3, <2>4, <2>5, <2>6 DEF StatusTold
<1>12. Earned(c)'
  <2>1. /\ Cardinality(Rises(c)') \in Nat /\ Cardinality(Rises(c)) \in Nat
        /\ Cardinality(Rises(c)') <= Cardinality(Rises(c))
    BY <1>1, RisesKeep
  <2>2. /\ Cardinality(Joins(c)') \in Nat /\ Cardinality(Joins(c)) \in Nat
        /\ Cardinality(Joins(c)') <= Cardinality(Joins(c))
    BY <1>3, JoinsKeep
  <2>3. Leaves(c)' = {} <=> Leaves(c) = {}
    BY <1>3, LeavesType DEF RequestsMove, Moved
  <2>4. /\ Partings(c)' = {} <=> Partings(c) = {}
        /\ Joining(c)' => Joining(c)
    BY <1>1, JoiningsKeep
  <2>5. ~Awaiting(c)'
    BY <1>2 DEF Awaiting
  <2>6. Partings(c) = {} => Joining(c)
    BY <1>1 DEF Joining
  <2>7. Rest(c)' \in Int /\ Rest(c) \in Int /\ Rest(c)' <= Rest(c)
    BY <1>2, <1>7, <2>3, <2>4, <2>5, <2>6 DEF Rest, One
  <2> QED BY <1>1, <1>4, <2>1, <2>2, <2>7 DEF Earned
<1> QED BY <1>8, <1>9, <1>10, <1>11, <1>12 DEF OfChannel

(* What a PART leaves when it was the first line. *)
LEMMA PartedLines ==
  ASSUME Shape, NEW c \in Channels, TurnsMove(c, 1), RostersMove(c, 1), 1 \in Partings(c),
         InTurn(c), StatusTold(c), ~channel'[c].inChannel,
         members' = members, ops' = ops
  PROVE  InTurn(c)' /\ StatusTold(c)'
<1>1. 1 \notin Statuses(c) /\ 1 \notin Joinings(c)
  BY DEF Statuses, Joinings, Rosters, Partings, About
<1>2. /\ \A i \in Joinings(c) : i \in Int /\ 1 < i /\ i - 1 \in Joinings(c)'
      /\ \A i \in Partings(c) : i \in Int /\ 1 <= i /\ (i # 1 => i - 1 \in Partings(c)')
      /\ \A i \in Joinings(c)' : i \in Int /\ 1 <= i /\ i + 1 \in Joinings(c)
      /\ \A i \in Partings(c)' : i \in Int /\ 1 <= i /\ i + 1 \in Partings(c)
      /\ \A i \in About(toClient', c, "refused") :
            i \in Int /\ 1 <= i /\ i + 1 \in About(toClient, c, "refused")
  <2>1. \A i \in Joinings(c) : i # 1
    BY <1>1
  <2> QED BY <2>1 DEF TurnsMove, Moved, Joinings, Partings
<1>3. "me" \in members[c] => \E j \in Joinings(c) : \A p \in Partings(c) : p < j
  BY DEF InTurn, Joining
<1>4. ASSUME "me" \in members'[c]
      PROVE  Joining(c)' /\ Joinings(c)' # {}
  <2>1. PICK j \in Joinings(c) : \A p \in Partings(c) : p < j
    BY <1>3, <1>4
  <2>2. j - 1 \in Joinings(c)' /\ \A p \in Partings(c)' : p < j - 1
    BY <1>2, <2>1
  <2> QED BY <2>2 DEF Joining
<1>5. ASSUME "me" \notin members'[c]
      PROVE  \A j \in Joinings(c)' : \E p \in Partings(c)' : j < p
  <2>1. \A j \in Joinings(c) : \E p \in Partings(c) : j < p
    BY <1>5 DEF InTurn
  <2>2. ASSUME NEW j \in Joinings(c)'
        PROVE  \E p \in Partings(c)' : j < p
    <3>1. PICK p \in Partings(c) : j + 1 < p
      BY <1>2, <2>1, <2>2
    <3> QED BY <1>2, <3>1
  <2> QED BY <2>2
<1>6. ASSUME NEW j \in Joinings(c)' \cup About(toClient', c, "refused"),
             NEW i \in Joinings(c)', i < j
      PROVE  \E p \in Partings(c)' : i < p /\ p < j
  <2>1. j + 1 \in Joinings(c) \cup About(toClient, c, "refused") /\ i + 1 \in Joinings(c)
        /\ j \in Int /\ i \in Int /\ 1 <= i
    BY <1>2
  <2>2. PICK p \in Partings(c) : i + 1 < p /\ p < j + 1
    BY <1>6, <2>1 DEF InTurn
  <2>3. p - 1 \in Partings(c)' /\ i < p - 1 /\ p - 1 < j
    BY <1>2, <2>1, <2>2
  <2> QED BY <2>3
<1>7. InTurn(c)'
  BY <1>4, <1>5, <1>6 DEF InTurn
<1> QED BY <1>1, <1>7, ToldKeeps

LEMMA PartedKeeps ==
  ASSUME Shape, Receive, ReceiveParted(Head(toClient)), NEW c \in Channels, OfChannel(c),
         Head(toClient).channel = c
  PROVE  OfChannel(c)'
<1>1. /\ TurnsMove(c, 1) /\ RostersMove(c, 1) /\ 1 \in Partings(c)
      /\ members' = members /\ ops' = ops /\ left' = left /\ credit' = credit /\ credit[c] \in Int
  BY TakesIs, PartedIs DEF Partings
<1>2. Staged(c) /\ InTurn(c) /\ LeftAlone(c) /\ StatusTold(c) /\ Earned(c)
  BY DEF OfChannel
<1>3. ~channel'[c].inChannel
  BY PartedIs, UntrackedIs
<1>4. InTurn(c)' /\ StatusTold(c)'
  BY <1>1, <1>2, <1>3, PartedLines
<1>5. /\ Cardinality(Rises(c)') \in Nat /\ Cardinality(Rises(c)) \in Nat
      /\ Cardinality(Rises(c)') <= Cardinality(Rises(c))
  <2>1. 1 \notin Statuses(c)
    BY <1>1 DEF Statuses, Joinings, Rosters, Partings, About
  <2> QED BY <1>1, <1>3, <2>1, RisesKeep
<1>6. /\ Joining(c)' => Joining(c)
      /\ Twice(c)' => Twice(c)
      /\ Partings(c) # {}
  BY <1>1, JoiningsKeep
<1>7. CASE Awaiting(c)
  <2>1. /\ toServer' = Append(toServer, Line("join", c))
        /\ channel'[c].parted
        /\ channel'[c].tracked = channel[c].tracked /\ channel'[c].tried = channel[c].tried
        /\ channel'[c].synced = channel[c].synced /\ channel'[c].op = channel[c].op
        /\ channel'[c].stage = channel[c].stage /\ channel'[c].joined = channel[c].joined
    BY <1>7, PartedIs
  <2>2. /\ channel[c].stage = "attempt" /\ ~channel[c].parted /\ ~channel[c].joined
        /\ channel[c].inChannel /\ channel[c].tracked
    BY <1>2, <1>7, UntrackedIs DEF Awaiting, Staged
  <2>3. ~left[c] /\ Leaves(c) = {}
    BY <1>2, <2>2 DEF LeftAlone
  <2>4. /\ Len(toServer) \in Nat
        /\ About(toServer', c, "join") = About(toServer, c, "join") \cup {Len(toServer) + 1}
        /\ About(toServer', c, "part") = About(toServer, c, "part")
        /\ \A i \in About(toServer, c, "part") : toServer'[i] = toServer[i]
    <3>1. toServer \in Seq(LinesOf(ClientKinds))
      BY DEF Shape
    <3>2. About(toServer, c, "part") \subseteq 1..Len(toServer)
      BY <3>1, AboutType
    <3>3. /\ Len(toServer) \in Nat
          /\ About(toServer', c, "join") = About(toServer, c, "join") \cup {Len(toServer) + 1}
      BY <2>1, <3>1, LineIs, AboutAppend
    <3>4. /\ About(toServer', c, "part") = About(toServer, c, "part")
          /\ \A i \in 1..Len(toServer) : toServer'[i] = toServer[i]
      BY <2>1, <3>1, LineIs, AboutAppend
    <3> QED BY <3>2, <3>3, <3>4
  <2>5. Leaves(c)' = {}
    BY <2>3, <2>4 DEF Leaves
  <2>6. Joins(c)' = Joins(c) \cup {Len(toServer) + 1}
    BY <2>3, <2>4, <2>5 DEF Joins
  <2>7. /\ Cardinality(Joins(c)') \in Nat /\ Cardinality(Joins(c)) \in Nat
        /\ Cardinality(Joins(c)') <= Cardinality(Joins(c)) + 1
        /\ Cardinality(Joins(c)') > 0
    <3>1. Joins(c) \in SUBSET (1..Len(toServer)) /\ Len(toServer) \in Nat
      BY LeavesType
    <3>2. /\ Cardinality(Joins(c)') \in Nat /\ Cardinality(Joins(c)) \in Nat
          /\ Cardinality(Joins(c)') <= Cardinality(Joins(c)) + 1
      BY <2>6, <3>1, MoreLines
    <3>3. Joins(c)' \in SUBSET (1..(Len(toServer) + 1)) /\ Len(toServer) + 1 \in Nat
      BY <2>6, <3>1
    <3>4. Len(toServer) + 1 \in Joins(c)'
      BY <2>6
    <3>5. IsFiniteSet(Joins(c)') /\ Joins(c)' # {}
      BY <3>3, <3>4, FewAreFinite
    <3> QED BY <3>2, <3>5, FS_EmptySet
  <2>8. Staged(c)'
    BY <1>2, <1>3, <2>1, <2>2 DEF Staged
  <2>9. LeftAlone(c)'
    BY <1>1, <2>3, <2>5 DEF LeftAlone
  <2>10. Partings(c)' # {} => Twice(c)
    <3>1. \A i \in Partings(c)' : i \in Int /\ 1 <= i /\ i + 1 \in Partings(c)
      BY <1>1 DEF TurnsMove, Moved, Partings
    <3> QED BY <1>1, <3>1 DEF Twice
  <2>11. /\ Rest(c)' \in Int /\ Rest(c) \in Int
         /\ Rest(c)' + Cardinality(Joins(c)') <= Rest(c) + Cardinality(Joins(c))
    <3>1. Awaiting(c) /\ ~Awaiting(c)'
      BY <1>7, <2>1 DEF Awaiting
    <3>2. CASE Partings(c)' = {}
      <4>1. Rest(c)' = One(Joining(c)') - 1 + One(~channel[c].tried)
        BY <1>3, <2>1, <2>2, <2>5, <2>7, <3>2 DEF Rest, One
      <4>2. Rest(c) = One(Joining(c)) + One(~channel[c].tried \/ Twice(c))
        BY <1>6, <2>3, <3>1 DEF Rest
      <4> QED BY <1>6, <2>7, <4>1, <4>2 DEF One
    <3>3. CASE Partings(c)' # {}
      <4>1. Rest(c)' = One(Joining(c)')
        BY <2>5, <3>1, <3>3 DEF Rest, One
      <4>2. Rest(c) = One(Joining(c)) + 1
        BY <1>6, <2>3, <2>10, <3>1, <3>3 DEF Rest, One
      <4> QED BY <1>6, <2>7, <4>1, <4>2 DEF One
    <3> QED BY <3>2, <3>3
  <2>12. Earned(c)'
    BY <1>1, <1>2, <1>5, <2>7, <2>11 DEF Earned
  <2> QED BY <1>4, <2>8, <2>9, <2>12 DEF OfChannel
<1>8. CASE ~Awaiting(c)
  <2>1. toServer' = toServer /\ channel'[c] = Untracked
    BY <1>8, PartedIs
  <2>2. RequestsMove(c, 0)
    BY <2>1, ServerStays
  <2>3. /\ ~channel'[c].tracked /\ ~channel'[c].tried /\ ~channel'[c].op
        /\ channel'[c].stage = "watching" /\ ~channel'[c].parted /\ ~channel'[c].joined
    BY <2>1, UntrackedIs
  <2>4. Staged(c)'
    BY <1>3, <2>1, <2>3 DEF Staged
  <2>5. Leaves(c)' = Leaves(c)
    BY <2>1 DEF Leaves, About
  <2>6. LeftAlone(c)'
    <3>1. left[c] /\ "me" \in members'[c] => Leaves(c)' # {}
      BY <1>1, <1>2, <2>5 DEF LeftAlone
    <3> QED BY <1>1, <1>2, <2>2, <2>3, <3>1, LeftKeeps
  <2>7. /\ Cardinality(Joins(c)') \in Nat /\ Cardinality(Joins(c)) \in Nat
        /\ Cardinality(Joins(c)') <= Cardinality(Joins(c))
    BY <2>2, JoinsKeep
  <2>8. Rest(c)' \in Int /\ Rest(c) \in Int /\ Rest(c)' <= Rest(c)
    <3>1. ~Awaiting(c)'
      BY <2>3 DEF Awaiting
    <3> QED BY <1>3, <1>6, <1>8, <2>3, <2>5, <3>1 DEF Rest, One
  <2>9. Earned(c)'
    BY <1>1, <1>2, <1>5, <2>7, <2>8 DEF Earned
  <2> QED BY <1>4, <2>4, <2>6, <2>9 DEF OfChannel
<1> QED BY <1>7, <1>8

(* A refusal ends an attempt that is not in the channel any more. *)
LEMMA RefusedKeeps ==
  ASSUME Shape, Receive, ReceiveRefused(Head(toClient)), NEW c \in Channels, OfChannel(c),
         Head(toClient).channel = c
  PROVE  OfChannel(c)'
<1>1. /\ TurnsMove(c, 1) /\ RostersMove(c, 1) /\ 1 \in About(toClient, c, "refused")
      /\ 1 \notin Partings(c) /\ 1 \notin Joinings(c) /\ 1 \notin Rosters(c)
      /\ ServerSame(c) /\ credit' = credit /\ credit[c] \in Int
  BY TakesIs, RefusedIs DEF Partings, Joinings, Rosters
<1>2. 1 \notin Statuses(c)
  BY <1>1 DEF Statuses
<1>3. ~channel[c].inChannel
  <2>1. \A p \in Partings(c) : p \in Int /\ 1 <= p
    BY LeavesType
  <2> QED BY <1>1, <2>1 DEF OfChannel, InTurn
<1>4. channel[c].stage = "attempt" => channel[c].tracked
  BY UntrackedIs DEF OfChannel, Staged
<1>5. Calm(c) /\ toServer' = toServer
  <2>1. channel[c].inChannel \in BOOLEAN /\ channel'[c].inChannel \in BOOLEAN
    BY RefusedIs DEF Shape, Tracking
  <2>2. channel[c].stage # "attempt" => channel'[c] = channel[c]
    BY RefusedIs
  <2>3. channel[c].stage = "attempt" =>
              /\ channel'[c].stage = "watching" /\ ~channel'[c].inChannel
              /\ channel'[c].tracked = channel[c].tracked
              /\ channel'[c].tried = channel[c].tried
              /\ channel'[c].synced = channel[c].synced /\ channel'[c].op = channel[c].op
              /\ channel'[c].parted = channel[c].parted
              /\ channel'[c].joined = channel[c].joined
    BY RefusedIs
  <2>4. toServer' = toServer
    BY RefusedIs
  <2> QED BY <1>3, <1>4, <2>1, <2>2, <2>3, <2>4 DEF Calm
<1>6. RequestsMove(c, 0) /\ 0 \notin Leaves(c)
  BY <1>5, ServerStays, LeavesType
<1> QED BY <1>1, <1>2, <1>5, <1>6, CalmKeeps

LEMMA NamesKeeps ==
  ASSUME Shape, Receive, ReceiveNames(Head(toClient)), NEW c \in Channels, OfChannel(c),
         Head(toClient).channel = c
  PROVE  OfChannel(c)'
<1> DEFINE line == Head(toClient)
<1>1. /\ TurnsMove(c, 1) /\ RostersMove(c, 1) /\ 1 \in Rosters(c)
      /\ 1 \notin Joinings(c) /\ 1 \notin Partings(c) /\ line = toClient[1]
      /\ ServerSame(c) /\ credit' = credit /\ credit[c] \in Int
      /\ members' = members /\ ops' = ops /\ left' = left
  BY TakesIs, NamesIs, ReceiveIs DEF Joinings, Partings, Rosters
<1>2. /\ line \in LinesOf(ServerKinds) /\ line.kind = "names"
  BY ReceiveIs, NamesIs
<1>3. RequestsMove(c, 0) /\ 0 \notin Leaves(c)
  <2>1. \/ toServer' = toServer
        \/ \E e \in LinesOf({"restore"}) : toServer' = Append(toServer, e) /\ ~e.user
    BY <1>2, NamesIs
  <2>2. CASE toServer' = toServer
    BY <2>2, ServerStays, LeavesType
  <2>3. ASSUME NEW e \in LinesOf({"restore"}), toServer' = Append(toServer, e), ~e.user
        PROVE  RequestsMove(c, 0)
    BY <2>3, RestoreIs, ServerGetsOne
  <2> QED BY <2>1, <2>2, <2>3, LeavesType
<1>4. Staged(c) /\ InTurn(c) /\ LeftAlone(c) /\ StatusTold(c) /\ Earned(c)
  BY DEF OfChannel
<1>5. /\ \A i \in Statuses(c) : i \in Int /\ 1 <= i /\ (i # 1 => i - 1 \in Statuses(c)')
      /\ \A i \in Rosters(c) : i \in Int /\ 1 <= i /\ (i # 1 => i - 1 \in Rosters(c)')
      /\ \A i \in Statuses(c)' : i \in Int /\ 1 <= i /\ i + 1 \in Statuses(c)
      /\ \A i \in Rosters(c)' : /\ i \in Statuses(c)' /\ i + 1 \in Rosters(c)
                                /\ toClient'[i] = toClient[i + 1]
      /\ \A i \in Joinings(c)' : i \in Int /\ 1 <= i /\ i + 1 \in Joinings(c)
      /\ \A i \in Statuses(c)' : OpIn(i)' <=> OpIn(i + 1)
      /\ 1 \in Statuses(c)
  BY <1>1, StatusesMove DEF Moved, Statuses
<1>6. \A j \in Joinings(c)' :
         \E n \in Rosters(c)' : toClient'[n].complete /\ Follows(c, j, n)'
  <2>1. ASSUME NEW j \in Joinings(c)'
        PROVE  \E n \in Rosters(c)' : toClient'[n].complete /\ Follows(c, j, n)'
    <3>1. PICK n \in Rosters(c) : toClient[n].complete /\ Follows(c, j + 1, n)
      BY <1>4, <1>5 DEF StatusTold
    <3>2. n - 1 \in Rosters(c)' /\ toClient'[n - 1] = toClient[n] /\ n \in Int
      BY <1>5, <3>1 DEF Follows
    <3>3. Follows(c, j, n - 1)'
      BY <1>5, <3>1, <3>2 DEF Follows
    <3> QED BY <3>1, <3>2, <3>3
  <2> QED BY <2>1
<1>7. ASSUME "me" \in members'[c], NEW i \in Statuses(c)', \A s \in Statuses(c)' : s <= i
      PROVE  OpIn(i)' <=> "me" \in ops'[c]
  <2>1. i + 1 \in Statuses(c) /\ \A s \in Statuses(c) : s <= i + 1
    BY <1>5, <1>7
  <2> QED BY <1>1, <1>4, <1>5, <1>7, <2>1 DEF StatusTold
<1>8. /\ Cardinality(Joins(c)') \in Nat /\ Cardinality(Joins(c)) \in Nat
      /\ Cardinality(Joins(c)') <= Cardinality(Joins(c))
  BY <1>3, JoinsKeep
<1>9. Leaves(c)' = {} <=> Leaves(c) = {}
  BY <1>3 DEF RequestsMove, Moved
<1>10. /\ Partings(c)' = {} <=> Partings(c) = {}
       /\ Joining(c)' <=> Joining(c)
       /\ Twice(c)' => Twice(c)
  BY <1>1, JoiningsKeep
<1>11. Rises(c) \in SUBSET (1..Len(toClient)) /\ Len(toClient) \in Nat
  BY LeavesType
<1>12. OpIn(1) <=> "me" \in line.ops
  BY <1>1, <1>2 DEF OpIn
<1>13. ASSUME NEW i \in Rises(c)', NEW k \in Statuses(c)', ~OpIn(k)', Follows(c, k, i)'
       PROVE  i + 1 \in Rises(c)
  <2>1. i \in Rosters(c)' /\ i + 1 \in Rosters(c) /\ OpIn(i + 1)
    BY <1>5, <1>13 DEF Rises
  <2>2. k + 1 \in Statuses(c) /\ ~OpIn(k + 1)
    BY <1>5, <1>13
  <2>3. Follows(c, k + 1, i + 1)
    BY <1>5, <1>13, <2>1 DEF Follows
  <2> QED BY <2>1, <2>2, <2>3 DEF Rises
<1>14. CASE Ignored(c, line)
  <2>1. channel'[c] = channel[c]
    BY <1>2, <1>14, NamesIs
  <2>2. ~channel[c].inChannel
    <3>1. CASE channel[c].inChannel /\ ~channel[c].synced
      <4>1. PICK n \in Rosters(c) : toClient[n].complete /\ First(c, n)
        BY <1>4, <3>1 DEF StatusTold
      <4>2. n = 1
        BY <1>5, <4>1 DEF First
      <4>3. line.complete
        BY <1>1, <4>1, <4>2
      <4> QED BY <1>4, <1>14, <3>1, <4>3, UntrackedIs DEF Ignored, Staged
    <3> QED BY <1>4, <1>14, <3>1, UntrackedIs DEF Ignored, Staged
  <2>3. Staged(c)'
    BY <1>4, <2>1 DEF Staged
  <2>4. InTurn(c)'
    BY <1>1, <1>4, <1>9, <2>1, TurnsKeep
  <2>5. LeftAlone(c)'
    <3>1. left[c] /\ "me" \in members'[c] => Leaves(c)' # {}
      BY <1>1, <1>4, <1>9 DEF LeftAlone
    <3>2. Leaves(c) # {} /\ channel'[c].tracked => channel'[c].inChannel
      BY <1>4, <2>1 DEF LeftAlone
    <3> QED BY <1>1, <1>3, <1>4, <2>1, <3>1, <3>2, LeftKeeps
  <2>6. StatusTold(c)'
    BY <1>6, <1>7, <2>1, <2>2 DEF StatusTold
  <2>7. /\ Cardinality(Rises(c)') \in Nat /\ Cardinality(Rises(c)) \in Nat
        /\ Cardinality(Rises(c)') <= Cardinality(Rises(c))
    BY <1>1, <2>1, <2>2, RisesKeep
  <2>8. /\ Rest(c)' \in Int /\ Rest(c) \in Int
        /\ Rest(c)' + Cardinality(Joins(c)') <= Rest(c) + Cardinality(Joins(c))
    <3>1. Awaiting(c)' => Awaiting(c)
      BY <2>1 DEF Awaiting
    <3> QED BY <1>1, <1>3, <2>1, <3>1, RestKeeps
  <2>9. Earned(c)'
    BY <1>1, <1>4, <1>8, <2>7, <2>8 DEF Earned
  <2> QED BY <2>3, <2>4, <2>5, <2>6, <2>9 DEF OfChannel
<1>15. CASE ~Ignored(c, line)
  <2>1. /\ channel'[c].synced /\ (channel'[c].op <=> "me" \in line.ops)
        /\ channel'[c].tried <=> channel[c].tried /\ "me" \notin line.ops
        /\ channel'[c].tracked = channel[c].tracked
        /\ channel'[c].inChannel = channel[c].inChannel
        /\ channel'[c].parted = channel[c].parted /\ channel'[c].joined = channel[c].joined
        /\ channel'[c].stage = "attempt" => channel[c].stage = "attempt"
        /\ channel[c].stage = "attempt" => channel'[c].stage = "attempt" \/ channel[c].joined
    BY <1>2, <1>15, NamesIs
  <2>2. channel[c].tracked /\ channel[c].inChannel
    BY <1>15 DEF Ignored
  <2>3. Staged(c)'
    BY <1>4, <2>1, <2>2 DEF Staged
  <2>4. InTurn(c)'
    BY <1>1, <1>4, <1>9, <2>1, TurnsKeep
  <2>5. LeftAlone(c)'
    <3>1. left[c] /\ "me" \in members'[c] => Leaves(c)' # {}
      BY <1>1, <1>4, <1>9 DEF LeftAlone
    <3>2. Leaves(c) # {} /\ channel'[c].tracked => channel'[c].inChannel
      BY <2>1, <2>2
    <3> QED BY <1>1, <1>3, <1>4, <2>1, <3>1, <3>2, LeftKeeps
  <2>6. StatusTold(c)'
    <3>1. ASSUME "me" \in members'[c], Statuses(c)' = {}
          PROVE  channel'[c].op <=> "me" \in ops'[c]
      <4>1. \A s \in Statuses(c) : s <= 1
        BY <1>5, <3>1
      <4>2. OpIn(1) <=> "me" \in ops[c]
        BY <1>1, <1>4, <1>5, <3>1, <4>1 DEF StatusTold
      <4> QED BY <1>1, <1>12, <2>1, <4>2
    <3> QED BY <1>6, <1>7, <2>1, <3>1 DEF StatusTold
  <2>7. ASSUME NEW i \in Rises(c)'
        PROVE  i \in Int /\ i + 1 \in Rises(c) /\ i + 1 # 1
    <3>1. i \in Rosters(c)' /\ OpIn(i)' /\ i \in Int /\ 1 <= i
      BY <1>5, <2>7 DEF Rises
    <3>2. CASE \E k \in Statuses(c)' : ~OpIn(k)' /\ Follows(c, k, i)'
      BY <1>13, <2>7, <3>1, <3>2
    <3>3. CASE First(c, i)' /\ ~channel'[c].op
      <4>1. ~OpIn(1) /\ i + 1 \in Rosters(c) /\ OpIn(i + 1)
        BY <1>5, <1>12, <2>1, <3>1, <3>3
      <4>2. Follows(c, 1, i + 1)
        BY <1>5, <3>1, <3>3 DEF Follows, First
      <4> QED BY <1>5, <3>1, <4>1, <4>2 DEF Rises
    <3> QED BY <2>7, <3>2, <3>3 DEF Rises
  <2>8. /\ Cardinality(Rises(c)') \in Nat /\ Cardinality(Rises(c)) \in Nat
        /\ Cardinality(Rises(c)') <= Cardinality(Rises(c))
        /\ 1 \in Rises(c) => Cardinality(Rises(c)') < Cardinality(Rises(c))
    <3>1. ASSUME NEW d \in Int, d = 1
          PROVE  /\ Cardinality(Rises(c)') \in Nat /\ Cardinality(Rises(c)) \in Nat
                 /\ Cardinality(Rises(c)') <= Cardinality(Rises(c))
                 /\ 1 \in Rises(c) => Cardinality(Rises(c)') < Cardinality(Rises(c))
      <4>1. \A i \in Rises(c)' : i \in Int /\ i + d \in Rises(c) /\ i + d # 1
        BY <2>7, <3>1
      <4> QED BY <1>11, <4>1, FewerLines
    <3> QED BY <3>1
  <2>9. channel[c].tried /\ ~channel'[c].tried => 1 \in Rises(c)
    <3>1. SUFFICES ASSUME channel[c].tried, ~channel'[c].tried PROVE 1 \in Rises(c)
      OBVIOUS
    <3>2. OpIn(1) /\ ~channel[c].op
      BY <1>4, <1>12, <2>1, <3>1 DEF Staged
    <3>3. First(c, 1)
      BY <1>5 DEF First
    <3> QED BY <1>1, <2>2, <3>2, <3>3 DEF Rises
  <2>10. Awaiting(c)' => Awaiting(c)
    BY <2>1 DEF Awaiting
  <2>11. /\ Rest(c)' \in Int /\ Rest(c) \in Int
         /\ Rest(c)' <= Rest(c) + One(channel[c].tried /\ ~channel'[c].tried)
    BY <1>9, <1>10, <2>1, <2>2, <2>10 DEF Rest, One
  <2>12. Earned(c)'
    BY <1>1, <1>4, <1>8, <2>8, <2>9, <2>11 DEF Earned, One
  <2> QED BY <2>3, <2>4, <2>5, <2>6, <2>12 DEF OfChannel
<1> QED BY <1>14, <1>15

(* What the client sends then. *)
LEMMA ReceiveSends ==
  ASSUME Shape, Receive
  PROVE  \/ toServer' = toServer
         \/ \E e \in LinesOf(ClientKinds) :
               /\ toServer' = Append(toServer, e) /\ ~e.user
               /\ e.kind = "join" => /\ e.channel = Head(toClient).channel
                                     /\ Head(toClient).kind = "parted"
<1> DEFINE line == Head(toClient)
<1>1. line \in LinesOf(ServerKinds) /\ line.channel \in Channels
  BY ReceiveIs
<1>2. ReceiveJoined(line) \/ ReceiveParted(line) \/ ReceiveTopic(line)
        \/ ReceiveModes(line) \/ ReceiveRefused(line) \/ ReceiveNames(line)
  BY DEF Receive
<1> HIDE DEF line
<1>3. CASE ReceiveJoined(line)
  BY <1>1, <1>3, LineIs, JoinedIs
<1>4. CASE ReceiveParted(line)
  BY <1>1, <1>4, LineIs, PartedIs DEF line
<1>5. CASE ReceiveTopic(line) \/ ReceiveModes(line) \/ ReceiveRefused(line)
  BY <1>5 DEF ReceiveTopic, ReceiveModes, ReceiveRefused
<1>6. CASE ReceiveNames(line)
  BY <1>1, <1>6, NamesIs, RestoreIs
<1> QED BY <1>2, <1>3, <1>4, <1>5, <1>6

(* The client takes a line. *)
LEMMA ReceiveKeeps ==
  ASSUME Shape, Receive, NEW c \in Channels, OfChannel(c)
  PROVE  OfChannel(c)'
<1> DEFINE line == Head(toClient)
<1>1. ReceiveJoined(line) \/ ReceiveParted(line) \/ ReceiveTopic(line)
        \/ ReceiveModes(line) \/ ReceiveRefused(line) \/ ReceiveNames(line)
  BY DEF Receive
<1>2. CASE line.channel = c /\ line.kind \notin {"topic", "modes"}
  <2>1. ReceiveJoined(line) \/ ReceiveParted(line) \/ ReceiveRefused(line) \/ ReceiveNames(line)
    BY <1>1, <1>2 DEF ReceiveTopic, ReceiveModes
  <2> QED BY <1>2, <2>1, JoinedKeeps, PartedKeeps, RefusedKeeps, NamesKeeps
<1>3. CASE line.channel # c \/ line.kind \in {"topic", "modes"}
  <2>1. /\ TurnsMove(c, 1) /\ RostersMove(c, 1)
        /\ 1 \notin Partings(c) /\ 1 \notin Joinings(c) /\ 1 \notin Rosters(c)
        /\ ServerSame(c) /\ credit' = credit /\ credit[c] \in Int
    BY <1>3, TakesIs DEF Partings, Joinings, Rosters
  <2>2. line \in LinesOf(ServerKinds) /\ line.channel \in Channels
    BY ReceiveIs
  <2>3. Calm(c)
    <3>1. CASE line.channel # c
      <4>1. channel'[c] = channel[c]
        BY <3>1, ReceiveIs
      <4> QED BY <4>1 DEF Calm
    <3>2. CASE line.channel = c
      <4>1. ReceiveTopic(line) \/ ReceiveModes(line)
        BY <1>1, <1>3, <3>2
           DEF ReceiveJoined, ReceiveParted, ReceiveRefused, ReceiveNames
      <4>2. SameChannel(c)
        BY <2>2, <3>2, <4>1, OtherLineIs
      <4> QED BY <4>2 DEF SameChannel, Calm
    <3> QED BY <3>1, <3>2
  <2>4. RequestsMove(c, 0)
    BY <1>3, ReceiveSends, ServerStays, ServerGetsOne
  <2>5. 0 \notin Leaves(c) /\ 1 \notin Statuses(c)
    BY <2>1, LeavesType DEF Statuses
  <2> QED BY <2>1, <2>3, <2>4, <2>5, CalmKeeps
<1> QED BY <1>2, <1>3

-----------------------------------------------------------------------------
(* The server answers. *)

(* More lines, and none of these kinds about the channel. *)
Extended(q, r, c, kinds) ==
    /\ r \in Seq(LinesOf(ServerKinds)) /\ Len(q) \in Nat /\ Len(r) \in Nat /\ Len(q) <= Len(r)
    /\ \A i \in 1..Len(q) : r[i] = q[i]
    /\ \A kind \in kinds : About(r, c, kind) = About(q, c, kind)
Telling == {"joined", "parted", "names"}

LEMMA ExtendedSame ==
  ASSUME NEW q \in Seq(LinesOf(ServerKinds)), NEW c, NEW kinds
  PROVE  Extended(q, q, c, kinds)
BY DEF Extended

LEMMA ExtendedMore ==
  ASSUME NEW q, NEW r, NEW c, NEW kinds, Extended(q, r, c, kinds),
         NEW e \in LinesOf(ServerKinds), e.channel # c \/ e.kind \notin kinds
  PROVE  Extended(q, Append(r, e), c, kinds)
<1>1. r \in Seq(LinesOf(ServerKinds)) /\ Len(q) \in Nat /\ Len(r) \in Nat /\ Len(q) <= Len(r)
  BY DEF Extended
<1>2. /\ Append(r, e) \in Seq(LinesOf(ServerKinds)) /\ Len(Append(r, e)) = Len(r) + 1
      /\ \A i \in 1..Len(r) : Append(r, e)[i] = r[i]
  BY <1>1
<1>3. \A kind \in kinds : About(Append(r, e), c, kind) = About(r, c, kind)
  BY <1>1, AboutAppend
<1>4. \A i \in 1..Len(q) : Append(r, e)[i] = q[i]
  BY <1>1, <1>2 DEF Extended
<1> QED BY <1>1, <1>2, <1>3, <1>4 DEF Extended

LEMMA ExtendedMoves ==
  ASSUME Shape, NEW c \in Channels, Extended(toClient, toClient', c, Telling)
  PROVE  /\ RostersMove(c, 0)
         /\ About(toClient', c, "refused") = About(toClient, c, "refused") => TurnsMove(c, 0)
         /\ Joinings(c)' = Joinings(c) /\ Partings(c)' = Partings(c) /\ Rosters(c)' = Rosters(c)
         /\ Statuses(c)' = Statuses(c) /\ \A i \in Statuses(c) : OpIn(i)' <=> OpIn(i)
<1>1. toClient \in Seq(LinesOf(ServerKinds))
  BY DEF Shape
<1>2. \A kind : \A i \in About(toClient, c, kind) :
         i \in Int /\ 1 <= i /\ i + 0 = i /\ i - 0 = i /\ i \in 1..Len(toClient)
  BY <1>1, AboutType
<1>3. /\ About(toClient', c, "joined") = About(toClient, c, "joined")
      /\ About(toClient', c, "parted") = About(toClient, c, "parted")
      /\ About(toClient', c, "names") = About(toClient, c, "names")
      /\ \A i \in 1..Len(toClient) : toClient'[i] = toClient[i]
  BY DEF Extended, Telling
<1>4. /\ Joinings(c)' = Joinings(c) /\ Partings(c)' = Partings(c) /\ Rosters(c)' = Rosters(c)
      /\ Statuses(c)' = Statuses(c)
  BY <1>3 DEF Joinings, Partings, Rosters, Statuses
<1>5. \A i \in Statuses(c) : OpIn(i)' <=> OpIn(i)
  BY <1>2, <1>3 DEF Statuses, Joinings, Rosters, OpIn
<1>6. RostersMove(c, 0)
  BY <1>2, <1>3 DEF RostersMove, Moved
<1>7. ASSUME About(toClient', c, "refused") = About(toClient, c, "refused")
      PROVE  TurnsMove(c, 0)
  BY <1>2, <1>3, <1>7 DEF TurnsMove, Moved
<1> QED BY <1>4, <1>5, <1>6, <1>7

LEMMA ServerChannelIs ==
  ASSUME Shape, NEW c \in Channels, NEW now \in SUBSET People, NEW nowOps \in SUBSET now,
         ServerChannel(c, now, nowOps)
  PROVE  /\ members' \in [Channels -> SUBSET People] /\ ops' \in [Channels -> SUBSET People]
         /\ flags' \in [Channels -> BOOLEAN] /\ topic' \in [Channels -> Topics]
         /\ \A d \in Channels : ops'[d] \subseteq members'[d]
         /\ members'[c] = now /\ ops'[c] = nowOps
         /\ \A d \in Channels : d # c => members'[d] = members[d] /\ ops'[d] = ops[d]
         /\ Roster(c, TRUE) \in LinesOf(ServerKinds) /\ Roster(c, FALSE) \in LinesOf(ServerKinds)
         /\ Roster(c, TRUE).kind = "names" /\ Roster(c, FALSE).kind = "names"
         /\ Roster(c, TRUE).channel = c /\ Roster(c, FALSE).channel = c
         /\ Roster(c, TRUE).ops = ops'[c] /\ Roster(c, FALSE).ops = ops'[c]
         /\ Roster(c, TRUE).complete
<1>1. /\ members \in [Channels -> SUBSET People] /\ ops \in [Channels -> SUBSET People]
      /\ flags \in [Channels -> BOOLEAN] /\ topic \in [Channels -> Topics]
      /\ \A d \in Channels : ops[d] \subseteq members[d]
  BY DEF Shape
<1>2. members' = [members EXCEPT ![c] = now] /\ ops' = [ops EXCEPT ![c] = nowOps]
  BY DEF ServerChannel
<1>3. /\ members' \in [Channels -> SUBSET People] /\ ops' \in [Channels -> SUBSET People]
      /\ \A d \in Channels : ops'[d] \subseteq members'[d]
      /\ members'[c] = now /\ ops'[c] = nowOps
      /\ \A d \in Channels : d # c => members'[d] = members[d] /\ ops'[d] = ops[d]
  BY <1>1, <1>2
<1>4. flags' \in [Channels -> BOOLEAN]
  <2>1. flags' = [flags EXCEPT ![c] = flags[c] /\ now # {}]
    BY DEF ServerChannel
  <2>2. (flags[c] /\ now # {}) \in BOOLEAN
    BY Zenon
  <2> QED BY <1>1, <2>1, <2>2
<1>5. topic' \in [Channels -> Topics]
  BY <1>1 DEF ServerChannel, Topics
<1>6. ASSUME NEW complete \in BOOLEAN
      PROVE  /\ Roster(c, complete) \in LinesOf(ServerKinds)
             /\ Roster(c, complete).kind = "names" /\ Roster(c, complete).channel = c
             /\ Roster(c, complete).ops = nowOps
             /\ Roster(c, complete).complete = complete
  <2>1. /\ now \in SUBSET People /\ nowOps \in SUBSET People
        /\ Roster(c, complete) =
              [Line("names", c) EXCEPT !.users = now, !.ops = nowOps, !.complete = complete]
    BY <1>3 DEF Roster
  <2>2. /\ Line("names", c) \in LinesOf(ServerKinds)
        /\ Line("names", c).kind = "names" /\ Line("names", c).channel = c
    BY DEF Line, LinesOf, Topics, ServerKinds
  <2> QED BY <2>1, <2>2 DEF LinesOf
<1> QED BY <1>3, <1>4, <1>5, <1>6

LEMMA AnswersAre ==
  ASSUME NEW c \in Channels, NEW t \in Topics
  PROVE  /\ Line("joined", c) \in LinesOf(ServerKinds)
         /\ Line("parted", c) \in LinesOf(ServerKinds)
         /\ Line("refused", c) \in LinesOf(ServerKinds)
         /\ [Line("topic", c) EXCEPT !.topic = t] \in LinesOf(ServerKinds)
         /\ Line("joined", c).kind = "joined" /\ Line("joined", c).channel = c
         /\ Line("parted", c).kind = "parted" /\ Line("parted", c).channel = c
         /\ Line("refused", c).kind = "refused" /\ Line("refused", c).channel = c
         /\ [Line("topic", c) EXCEPT !.topic = t].kind = "topic"
         /\ [Line("topic", c) EXCEPT !.topic = t].channel = c
<1>1. "none" \in Topics /\ FALSE \in BOOLEAN /\ {} \in SUBSET People
  BY DEF Topics
<1>2. /\ Line("joined", c) \in LinesOf(ServerKinds)
      /\ Line("parted", c) \in LinesOf(ServerKinds)
      /\ Line("refused", c) \in LinesOf(ServerKinds)
      /\ Line("joined", c).kind = "joined" /\ Line("joined", c).channel = c
      /\ Line("parted", c).kind = "parted" /\ Line("parted", c).channel = c
      /\ Line("refused", c).kind = "refused" /\ Line("refused", c).channel = c
  BY <1>1 DEF Line, LinesOf, ServerKinds
<1>3. /\ Line("topic", c) \in LinesOf(ServerKinds) /\ Line("modes", c) \in LinesOf(ServerKinds)
      /\ Line("topic", c).kind = "topic" /\ Line("topic", c).channel = c
      /\ Line("modes", c).kind = "modes" /\ Line("modes", c).channel = c
  BY <1>1 DEF Line, LinesOf, ServerKinds
<1>4. /\ [Line("topic", c) EXCEPT !.topic = t] \in LinesOf(ServerKinds)
      /\ [Line("topic", c) EXCEPT !.topic = t].kind = "topic"
      /\ [Line("topic", c) EXCEPT !.topic = t].channel = c
  BY <1>3 DEF LinesOf
<1> QED BY <1>2, <1>4

LEMMA ModesAre ==
  ASSUME NEW c \in Channels, NEW b \in BOOLEAN
  PROVE  /\ [Line("modes", c) EXCEPT !.flags = b, !.complete = TRUE] \in LinesOf(ServerKinds)
         /\ [Line("modes", c) EXCEPT !.flags = b] \in LinesOf(ServerKinds)
         /\ [Line("modes", c) EXCEPT !.flags = b, !.complete = TRUE].kind = "modes"
         /\ [Line("modes", c) EXCEPT !.flags = b, !.complete = TRUE].channel = c
         /\ [Line("modes", c) EXCEPT !.flags = b].kind = "modes"
         /\ [Line("modes", c) EXCEPT !.flags = b].channel = c
<1>1. /\ Line("modes", c) \in LinesOf(ServerKinds)
      /\ Line("modes", c).kind = "modes" /\ Line("modes", c).channel = c
  BY DEF Line, LinesOf, ServerKinds, Topics
<1> QED BY <1>1 DEF LinesOf

AllAbout == Telling \cup {"refused"}
ServerShape ==
    /\ members \in [Channels -> SUBSET People] /\ ops \in [Channels -> SUBSET People]
    /\ flags \in [Channels -> BOOLEAN] /\ topic \in [Channels -> Topics]
    /\ \A c \in Channels : ops[c] \subseteq members[c]
    /\ credit \in [Channels -> Int] /\ toClient \in Seq(LinesOf(ServerKinds))

(* The step is not about this channel. *)
Elsewhere(c) ==
    /\ Extended(toClient, toClient', c, AllAbout) /\ ServerSame(c) /\ credit'[c] = credit[c]

LEMMA ShapeOfServer ==
  ASSUME Shape
  PROVE  ServerShape
BY DEF Shape, ServerShape

(* A JOIN is admitted. *)
Admitted(c, m) ==
    /\ "me" \notin members[c] /\ "me" \in members'[c] /\ "me" \notin ops[c]
    /\ credit'[c] = credit[c] + One("me" \in ops'[c])
    /\ m \in Int /\ Len(toClient) + 1 < m
    /\ Joinings(c)' = Joinings(c) \cup {Len(toClient) + 1}
    /\ Partings(c)' = Partings(c)
    /\ About(toClient', c, "refused") = About(toClient, c, "refused")
    /\ Rosters(c)' = Rosters(c) \cup {m}
    /\ toClient'[m].complete /\ (OpIn(m)' <=> "me" \in ops'[c])
    /\ \A i \in 1..Len(toClient) : toClient'[i] = toClient[i]

Welcomed(c) ==
    toClient' = toClient
        \o <<Line("joined", c)>>
        \o (IF topic[c] = "none" THEN <<>>
            ELSE <<[Line("topic", c) EXCEPT !.topic = topic[c]]>>)
        \o <<Roster(c, TRUE)>>

LEMMA TwoOrThree ==
  ASSUME NEW S, NEW q \in Seq(S), NEW a \in S, NEW b \in S, NEW e \in S
  PROVE  /\ q \o <<a>> \o <<>> \o <<e>> = Append(Append(q, a), e)
         /\ q \o <<a>> \o <<b>> \o <<e>> = Append(Append(Append(q, a), b), e)
<1>1. ASSUME NEW r \in Seq(S), NEW x \in S
      PROVE  r \o <<x>> = Append(r, x) /\ Append(r, x) \in Seq(S) /\ r \o <<>> = r
  OBVIOUS
<1>2. q \o <<a>> = Append(q, a) /\ Append(q, a) \in Seq(S)
  BY <1>1
<1>3. Append(q, a) \o <<>> = Append(q, a)
  BY <1>1, <1>2
<1>4. Append(q, a) \o <<b>> = Append(Append(q, a), b) /\ Append(Append(q, a), b) \in Seq(S)
  BY <1>1, <1>2
<1>5. Append(q, a) \o <<e>> = Append(Append(q, a), e)
  BY <1>1, <1>2
<1>6. Append(Append(q, a), b) \o <<e>> = Append(Append(Append(q, a), b), e)
  BY <1>1, <1>4
<1> QED BY <1>2, <1>3, <1>4, <1>5, <1>6, Zenon

Admits(c, created) ==
    /\ left' = left /\ "me" \notin members[c]
    /\ ServerChannel(c, members[c] \cup {"me"}, ops[c] \cup IF created THEN {"me"} ELSE {})
    /\ credit' = [credit EXCEPT ![c] = IF created THEN @ + 1 ELSE @]
    /\ Welcomed(c)

LEMMA AdmittedIs ==
  ASSUME Shape, NEW c \in Channels, NEW created \in BOOLEAN, Admits(c, created)
  PROVE  /\ ServerShape' /\ \E m : Admitted(c, m)
         /\ \A d \in Channels : d # c => Elsewhere(d)
<1> DEFINE now == members[c] \cup {"me"}
<1> DEFINE nowOps == ops[c] \cup IF created THEN {"me"} ELSE {}
<1> DEFINE joined == Line("joined", c)
<1> DEFINE said == [Line("topic", c) EXCEPT !.topic = topic[c]]
<1> DEFINE roster == Roster(c, TRUE)
<1>1. /\ members[c] \in SUBSET People /\ ops[c] \in SUBSET members[c]
      /\ topic[c] \in Topics /\ credit \in [Channels -> Int]
      /\ toClient \in Seq(LinesOf(ServerKinds))
  BY DEF Shape
<1>2. /\ now \in SUBSET People /\ nowOps \in SUBSET now /\ "me" \notin ops[c]
      /\ ("me" \in nowOps <=> created) /\ "me" \in now
  BY <1>1 DEF People, Admits
<1>3. ServerChannel(c, now, nowOps) /\ left' = left /\ "me" \notin members[c]
  BY DEF Admits
<1> HIDE DEF now, nowOps
<1>4. /\ members' \in [Channels -> SUBSET People] /\ ops' \in [Channels -> SUBSET People]
      /\ flags' \in [Channels -> BOOLEAN] /\ topic' \in [Channels -> Topics]
      /\ \A d \in Channels : ops'[d] \subseteq members'[d]
      /\ members'[c] = now /\ ops'[c] = nowOps
      /\ \A d \in Channels : d # c => members'[d] = members[d] /\ ops'[d] = ops[d]
      /\ roster \in LinesOf(ServerKinds)
      /\ roster.kind = "names" /\ roster.channel = c /\ roster.ops = ops'[c] /\ roster.complete
  <2>1. /\ members' \in [Channels -> SUBSET People] /\ ops' \in [Channels -> SUBSET People]
        /\ flags' \in [Channels -> BOOLEAN] /\ topic' \in [Channels -> Topics]
        /\ \A d \in Channels : ops'[d] \subseteq members'[d]
    BY <1>2, <1>3, ServerChannelIs
  <2>2. now \in SUBSET People /\ nowOps \in SUBSET now
    BY <1>2
  <2>3. ServerChannel(c, now, nowOps)
    BY <1>3
  <2>4. members'[c] = now
    BY <2>2, <2>3, ServerChannelIs
  <2>5. ops'[c] = nowOps
    <3>1. ops' = [ops EXCEPT ![c] = nowOps] /\ ops \in [Channels -> SUBSET People]
      BY <2>3 DEF ServerChannel, Shape
    <3> QED BY <3>1
  <2>6. \A d \in Channels : d # c => members'[d] = members[d] /\ ops'[d] = ops[d]
    BY <2>2, <2>3, ServerChannelIs
  <2>7. /\ roster \in LinesOf(ServerKinds)
        /\ roster.kind = "names" /\ roster.channel = c /\ roster.complete
        /\ roster.ops = ops'[c]
    BY <2>2, <2>3, ServerChannelIs
  <2> QED BY <2>1, <2>4, <2>5, <2>6, <2>7
<1>5. /\ joined \in LinesOf(ServerKinds) /\ joined.kind = "joined" /\ joined.channel = c
      /\ said \in LinesOf(ServerKinds) /\ said.kind = "topic" /\ said.channel = c
  BY <1>1, AnswersAre
<1>6. \/ toClient' = Append(Append(toClient, joined), roster)
      \/ toClient' = Append(Append(Append(toClient, joined), said), roster)
  <2> HIDE DEF joined, said, roster
  <2>1. toClient' = toClient \o <<joined>> \o (IF topic[c] = "none" THEN <<>> ELSE <<said>>)
                             \o <<roster>>
    BY DEF joined, said, roster, Welcomed, Admits
  <2>2. /\ toClient \o <<joined>> \o <<>> \o <<roster>> = Append(Append(toClient, joined), roster)
        /\ toClient \o <<joined>> \o <<said>> \o <<roster>>
              = Append(Append(Append(toClient, joined), said), roster)
    BY <1>1, <1>4, <1>5, TwoOrThree
  <2>3. CASE topic[c] = "none"
    BY <2>1, <2>2, <2>3, Zenon
  <2>4. CASE topic[c] # "none"
    BY <2>1, <2>2, <2>4, Zenon
  <2> QED BY <2>3, <2>4
<1> HIDE DEF joined, said, roster
<1>7. /\ credit' \in [Channels -> Int]
      /\ credit'[c] = credit[c] + One(created)
      /\ \A d \in Channels : d # c => credit'[d] = credit[d]
  BY <1>1 DEF One, Admits
<1>8. PICK r \in Seq(LinesOf(ServerKinds)) :
         /\ toClient' = Append(r, roster)
         /\ r = Append(toClient, joined) \/ r = Append(Append(toClient, joined), said)
  <2>1. /\ toClient \in Seq(LinesOf(ServerKinds))
        /\ joined \in LinesOf(ServerKinds) /\ said \in LinesOf(ServerKinds)
    BY <1>1, <1>5
  <2>2. Append(toClient, joined) \in Seq(LinesOf(ServerKinds))
    BY <2>1
  <2>3. Append(Append(toClient, joined), said) \in Seq(LinesOf(ServerKinds))
    BY <2>1, <2>2
  <2> QED BY <1>6, <2>2, <2>3, Zenon
<1>9. toClient' \in Seq(LinesOf(ServerKinds))
  BY <1>4, <1>8
<1>10. ASSUME NEW d \in Channels, d # c
       PROVE  Elsewhere(d)
  <2>1. Extended(toClient, r, d, AllAbout)
    BY <1>1, <1>5, <1>8, <1>10, ExtendedSame, ExtendedMore
  <2>2. Extended(toClient, toClient', d, AllAbout)
    BY <1>4, <1>8, <1>10, <2>1, ExtendedMore
  <2> QED BY <1>3, <1>4, <1>7, <1>10, <2>2 DEF Elsewhere, ServerSame
<1>11. /\ Len(toClient) \in Nat /\ Len(r) \in Nat /\ Len(toClient) + 1 <= Len(r)
       /\ \A i \in 1..Len(toClient) : r[i] = toClient[i]
       /\ About(r, c, "joined") = About(toClient, c, "joined") \cup {Len(toClient) + 1}
       /\ About(r, c, "parted") = About(toClient, c, "parted")
       /\ About(r, c, "refused") = About(toClient, c, "refused")
       /\ About(r, c, "names") = About(toClient, c, "names")
  <2> DEFINE q == Append(toClient, joined)
  <2>1. /\ q \in Seq(LinesOf(ServerKinds)) /\ Len(toClient) \in Nat
        /\ Len(q) = Len(toClient) + 1
        /\ \A i \in 1..Len(toClient) : q[i] = toClient[i]
        /\ About(q, c, "joined") = About(toClient, c, "joined") \cup {Len(toClient) + 1}
        /\ About(q, c, "parted") = About(toClient, c, "parted")
        /\ About(q, c, "refused") = About(toClient, c, "refused")
        /\ About(q, c, "names") = About(toClient, c, "names")
    <3>1. /\ toClient \in Seq(LinesOf(ServerKinds))
          /\ joined \in LinesOf(ServerKinds) /\ joined.kind = "joined" /\ joined.channel = c
      BY <1>1, <1>5
    <3>2. /\ Append(toClient, joined) \in Seq(LinesOf(ServerKinds)) /\ Len(toClient) \in Nat
          /\ Len(Append(toClient, joined)) = Len(toClient) + 1
          /\ \A i \in 1..Len(toClient) : Append(toClient, joined)[i] = toClient[i]
      BY <3>1
    <3>3. ASSUME NEW kind
          PROVE  /\ kind = "joined" => About(Append(toClient, joined), c, kind)
                                          = About(toClient, c, kind) \cup {Len(toClient) + 1}
                 /\ kind # "joined" => About(Append(toClient, joined), c, kind)
                                          = About(toClient, c, kind)
      BY <3>1, AboutAppend
    <3> QED BY <3>2, <3>3
  <2> HIDE DEF q
  <2>2. CASE r = q
    BY <2>1, <2>2
  <2>3. CASE r = Append(q, said)
    <3>1. /\ Len(r) = Len(q) + 1
          /\ \A i \in 1..Len(q) : r[i] = q[i]
          /\ About(r, c, "joined") = About(q, c, "joined")
          /\ About(r, c, "parted") = About(q, c, "parted")
          /\ About(r, c, "refused") = About(q, c, "refused")
          /\ About(r, c, "names") = About(q, c, "names")
      BY <1>5, <2>1, <2>3, AboutAppend
    <3> QED BY <2>1, <3>1
  <2> QED BY <1>8, <2>2, <2>3 DEF q
<1> DEFINE m == Len(r) + 1
<1>12. /\ \A i \in 1..Len(r) : toClient'[i] = r[i]
       /\ toClient'[m] = roster
       /\ About(toClient', c, "joined") = About(r, c, "joined")
       /\ About(toClient', c, "parted") = About(r, c, "parted")
       /\ About(toClient', c, "refused") = About(r, c, "refused")
       /\ About(toClient', c, "names") = About(r, c, "names") \cup {m}
  <2>1. /\ r \in Seq(LinesOf(ServerKinds)) /\ toClient' = Append(r, roster)
        /\ roster \in LinesOf(ServerKinds) /\ roster.kind = "names" /\ roster.channel = c
    BY <1>4, <1>8
  <2>2. /\ \A i \in 1..Len(r) : toClient'[i] = r[i]
        /\ toClient'[m] = roster
    BY <2>1
  <2>3. /\ About(toClient', c, "joined") = About(r, c, "joined")
        /\ About(toClient', c, "parted") = About(r, c, "parted")
        /\ About(toClient', c, "refused") = About(r, c, "refused")
        /\ About(toClient', c, "names") = About(r, c, "names") \cup {m}
    <3>1. ASSUME NEW kind
          PROVE  /\ kind = "names" => About(toClient', c, kind) = About(r, c, kind) \cup {m}
                 /\ kind # "names" => About(toClient', c, kind) = About(r, c, kind)
      BY <2>1, AboutAppend
    <3> QED BY <3>1
  <2> QED BY <2>2, <2>3
<1>13. m \in Int /\ Len(toClient) + 1 < m
  BY <1>11
<1> HIDE DEF m
<1>14. OpIn(m)' <=> "me" \in ops'[c]
  BY <1>4, <1>12 DEF OpIn
<1>15. \A i \in 1..Len(toClient) : toClient'[i] = toClient[i]
  BY <1>11, <1>12
<1>16. /\ Joinings(c)' = Joinings(c) \cup {Len(toClient) + 1}
       /\ Partings(c)' = Partings(c)
       /\ About(toClient', c, "refused") = About(toClient, c, "refused")
       /\ Rosters(c)' = Rosters(c) \cup {m}
  BY <1>11, <1>12 DEF Joinings, Partings, Rosters
<1>17. credit'[c] = credit[c] + One("me" \in ops'[c])
  BY <1>2, <1>4, <1>7 DEF One
<1>18. Admitted(c, m)
  BY <1>2, <1>3, <1>4, <1>12, <1>13, <1>14, <1>15, <1>16, <1>17 DEF Admitted
<1> QED BY <1>4, <1>7, <1>9, <1>10, <1>18 DEF ServerShape

LEMMA ServeIs ==
  ASSUME Shape, Serve
  PROVE  LET line == Head(toServer)
         IN  /\ line \in LinesOf(ClientKinds) /\ line.channel \in Channels
             /\ toServer # <<>> /\ toServer' = Tail(toServer)
             /\ UNCHANGED <<channel, known, told, acts, left, before>>
             /\ ServeJoin(line) \/ ServePart(line) \/ ServeQuery(line) \/ ServeRestore(line)
<1>1. toServer # <<>> /\ toServer \in Seq(LinesOf(ClientKinds))
  BY DEF Serve, Shape
<1>2. Head(toServer) \in LinesOf(ClientKinds)
  BY <1>1
<1> QED BY <1>1, <1>2 DEF Serve, LinesOf, clientVars

(* Nothing is said, and nothing changes. *)
LEMMA NothingServed ==
  ASSUME Shape, UNCHANGED <<members, ops, flags, topic, toClient, credit, left>>
  PROVE  ServerShape' /\ \A d \in Channels : Elsewhere(d)
<1>1. ServerShape /\ toClient \in Seq(LinesOf(ServerKinds))
  BY ShapeOfServer DEF Shape
<1>2. ServerShape'
  BY <1>1 DEF ServerShape
<1>3. \A d \in Channels : Extended(toClient, toClient', d, AllAbout)
  BY <1>1, ExtendedSame
<1> QED BY <1>2, <1>3 DEF Elsewhere, ServerSame

(* One line of no consequence is said of a channel, and the server keeps   *)
(* who is in it.                                                           *)
LEMMA OneSaid ==
  ASSUME Shape, NEW e \in LinesOf(ServerKinds), toClient' = Append(toClient, e),
         UNCHANGED <<members, ops, credit, left>>
  PROVE  /\ toClient' \in Seq(LinesOf(ServerKinds))
         /\ \A d \in Channels : d # e.channel \/ e.kind \notin AllAbout => Elsewhere(d)
<1>1. toClient \in Seq(LinesOf(ServerKinds))
  BY DEF Shape
<1>2. toClient' \in Seq(LinesOf(ServerKinds))
  BY <1>1
<1>3. ASSUME NEW d \in Channels, d # e.channel \/ e.kind \notin AllAbout
      PROVE  Extended(toClient, toClient', d, AllAbout)
  BY <1>1, <1>3, ExtendedSame, ExtendedMore
<1> QED BY <1>2, <1>3 DEF Elsewhere, ServerSame

LEMMA QueryServed ==
  ASSUME Shape, NEW line, line.channel \in Channels, ServeQuery(line), left' = left
  PROVE  ServerShape' /\ \A d \in Channels : Elsewhere(d)
<1> DEFINE c == line.channel
<1>1. UNCHANGED <<members, ops, flags, topic, credit, left>> /\ ServerShape
  BY ShapeOfServer DEF ServeQuery, serverVars
<1>2. CASE toClient' = toClient
  BY <1>1, <1>2, NothingServed
<1>3. CASE toClient' # toClient
  <2> DEFINE e == [Line("modes", c) EXCEPT !.flags = flags[c], !.complete = TRUE]
  <2>1. toClient' = Append(toClient, e)
    BY <1>3 DEF ServeQuery
  <2>2. flags[c] \in BOOLEAN
    BY DEF Shape
  <2>3. e \in LinesOf(ServerKinds) /\ e.kind \notin AllAbout
    BY <2>2, ModesAre DEF AllAbout, Telling
  <2> HIDE DEF e
  <2>4. toClient' \in Seq(LinesOf(ServerKinds)) /\ \A d \in Channels : Elsewhere(d)
    BY <1>1, <2>1, <2>3, OneSaid
  <2> QED BY <1>1, <2>4 DEF ServerShape
<1> QED BY <1>2, <1>3

LEMMA RestoreServed ==
  ASSUME Shape, NEW line \in LinesOf(ClientKinds), ServeRestore(line), left' = left
  PROVE  ServerShape' /\ \A d \in Channels : Elsewhere(d)
<1> DEFINE c == line.channel
<1>1. UNCHANGED <<members, ops, credit, left>> /\ ServerShape /\ c \in Channels
      /\ line.topic \in Topics /\ line.flags \in BOOLEAN
  BY ShapeOfServer DEF ServeRestore, LinesOf
<1>2. CASE "me" \notin ops[c]
  BY <1>1, <1>2, NothingServed DEF ServeRestore
<1>3. CASE "me" \in ops[c]
  <2> DEFINE e == [Line("modes", c) EXCEPT !.flags = TRUE]
  <2> DEFINE f == [Line("topic", c) EXCEPT !.topic = line.topic]
  <2>1. /\ flags' = [flags EXCEPT ![c] = @ \/ line.flags]
        /\ topic' = [topic EXCEPT ![c] = IF line.topic = "none" THEN @ ELSE line.topic]
        /\ toClient' = toClient \o (IF ~line.flags THEN <<>> ELSE <<e>>)
                                \o (IF line.topic = "none" THEN <<>> ELSE <<f>>)
    BY <1>3 DEF ServeRestore
  <2>2. /\ e \in LinesOf(ServerKinds) /\ e.kind \notin AllAbout
        /\ f \in LinesOf(ServerKinds) /\ f.kind \notin AllAbout
    BY <1>1, ModesAre, AnswersAre DEF AllAbout, Telling
  <2> HIDE DEF e, f
  <2>3. flags' \in [Channels -> BOOLEAN]
    <3>1. (flags[c] \/ line.flags) \in BOOLEAN
      BY Zenon
    <3> QED BY <2>1, <3>1 DEF Shape
  <2>4. topic' \in [Channels -> Topics]
    BY <1>1, <2>1 DEF Shape
  <2>5. toClient \in Seq(LinesOf(ServerKinds))
    BY DEF Shape
  <2>6. \/ toClient' = toClient \/ toClient' = Append(toClient, e)
        \/ toClient' = Append(toClient, f) \/ toClient' = Append(Append(toClient, e), f)
    <3>1. ASSUME NEW r \in Seq(LinesOf(ServerKinds)), NEW x \in LinesOf(ServerKinds)
          PROVE  r \o <<x>> = Append(r, x) /\ Append(r, x) \in Seq(LinesOf(ServerKinds)) /\ r \o <<>> = r
      OBVIOUS
    <3>2. /\ toClient \o <<e>> = Append(toClient, e) /\ toClient \o <<f>> = Append(toClient, f)
          /\ toClient \o <<>> = toClient
          /\ Append(toClient, e) \o <<f>> = Append(Append(toClient, e), f)
          /\ Append(toClient, e) \o <<>> = Append(toClient, e)
      BY <2>2, <2>5, <3>1
    <3> DEFINE first == IF ~line.flags THEN <<>> ELSE <<e>>
    <3> DEFINE second == IF line.topic = "none" THEN <<>> ELSE <<f>>
    <3>3. (first = <<>> \/ first = <<e>>) /\ (second = <<>> \/ second = <<f>>)
      OBVIOUS
    <3>4. toClient' = toClient \o first \o second
      BY <2>1
    <3> HIDE DEF first, second
    <3> QED BY <3>2, <3>3, <3>4, Zenon
  <2>7. Append(toClient, e) \in Seq(LinesOf(ServerKinds))
    BY <2>2, <2>5
  <2>8. ASSUME NEW d \in Channels
        PROVE  Extended(toClient, toClient', d, AllAbout)
    <3>1. Extended(toClient, toClient, d, AllAbout)
      BY <2>5, ExtendedSame
    <3>2. /\ Extended(toClient, Append(toClient, e), d, AllAbout)
          /\ Extended(toClient, Append(toClient, f), d, AllAbout)
      BY <2>2, <3>1, ExtendedMore
    <3>3. Extended(toClient, Append(Append(toClient, e), f), d, AllAbout)
      BY <2>2, <3>2, ExtendedMore
    <3> QED BY <2>6, <3>1, <3>2, <3>3
  <2>9. toClient' \in Seq(LinesOf(ServerKinds))
    BY <2>2, <2>5, <2>6, <2>7
  <2> QED BY <1>1, <2>3, <2>4, <2>8, <2>9 DEF ServerShape, Elsewhere, ServerSame
<1> QED BY <1>2, <1>3

(* We are out of the channel, and told so. *)
PutOut(c) ==
    /\ "me" \in members[c] /\ "me" \notin members'[c]
    /\ toClient' = Append(toClient, Line("parted", c))
    /\ Joinings(c)' = Joinings(c) /\ Rosters(c)' = Rosters(c)
    /\ Partings(c)' = Partings(c) \cup {Len(toClient) + 1}
    /\ About(toClient', c, "refused") = About(toClient, c, "refused")
    /\ \A i \in 1..Len(toClient) : toClient'[i] = toClient[i]
    /\ credit'[c] = credit[c] /\ left'[c] = left[c]

Removes(c) ==
    /\ "me" \in members[c]
    /\ ServerChannel(c, members[c] \ {"me"}, ops[c] \ {"me"})
    /\ toClient' = Append(toClient, Line("parted", c)) /\ credit' = credit

LEMMA PutOutIs ==
  ASSUME Shape, NEW c \in Channels, Removes(c), left'[c] = left[c],
         \A d \in Channels : left'[d] = left[d] \/ d = c
  PROVE  /\ ServerShape' /\ PutOut(c)
         /\ \A d \in Channels : d # c => Elsewhere(d)
<1> DEFINE now == members[c] \ {"me"}
<1> DEFINE nowOps == ops[c] \ {"me"}
<1> DEFINE e == Line("parted", c)
<1>1. /\ now \in SUBSET People /\ nowOps \in SUBSET now /\ "me" \notin now
  BY DEF Shape
<1>2. ServerChannel(c, now, nowOps) /\ credit' = credit /\ "me" \in members[c]
  BY DEF Removes
<1>3. e \in LinesOf(ServerKinds) /\ e.kind = "parted" /\ e.channel = c
  <2>1. "none" \in Topics
    BY DEF Topics
  <2> QED BY <2>1, AnswersAre
<1>4. toClient' = Append(toClient, e)
  BY DEF Removes
<1>5. toClient \in Seq(LinesOf(ServerKinds)) /\ credit \in [Channels -> Int]
  BY DEF Shape
<1> HIDE DEF now, nowOps, e
<1>6. /\ members' \in [Channels -> SUBSET People] /\ ops' \in [Channels -> SUBSET People]
      /\ flags' \in [Channels -> BOOLEAN] /\ topic' \in [Channels -> Topics]
      /\ \A d \in Channels : ops'[d] \subseteq members'[d]
  BY <1>1, <1>2, ServerChannelIs
<1>7. members'[c] = now
  BY <1>1, <1>2, ServerChannelIs
<1>8. \A d \in Channels : d # c => members'[d] = members[d] /\ ops'[d] = ops[d]
  BY <1>1, <1>2, ServerChannelIs
<1>9. toClient' \in Seq(LinesOf(ServerKinds))
  BY <1>3, <1>4, <1>5
<1>10. /\ \A i \in 1..Len(toClient) : toClient'[i] = toClient[i]
       /\ \A kind : kind = "parted" => About(toClient', c, kind)
                                          = About(toClient, c, kind) \cup {Len(toClient) + 1}
       /\ \A kind : kind # "parted" => About(toClient', c, kind) = About(toClient, c, kind)
  <2>1. ASSUME NEW kind
        PROVE  /\ kind = "parted" => About(toClient', c, kind)
                                        = About(toClient, c, kind) \cup {Len(toClient) + 1}
               /\ kind # "parted" => About(toClient', c, kind) = About(toClient, c, kind)
    <3>1. /\ kind = "parted" => About(Append(toClient, e), c, kind)
                                   = About(toClient, c, kind) \cup {Len(toClient) + 1}
          /\ kind # "parted" => About(Append(toClient, e), c, kind) = About(toClient, c, kind)
      <4>1. e \in LinesOf(ServerKinds) /\ toClient \in Seq(LinesOf(ServerKinds))
        BY <1>3, <1>5
      <4>2. e.kind = "parted" /\ e.channel = c
        BY <1>3
      <4> QED BY <4>1, <4>2, AboutAppend, Z3
    <3> QED BY <1>4, <3>1, Zenon
  <2>2. \A i \in 1..Len(toClient) : toClient'[i] = toClient[i]
    BY <1>3, <1>4, <1>5, AboutAppend
  <2> QED BY <2>1, <2>2
<1>11. PutOut(c)
  BY <1>1, <1>2, <1>4, <1>7, <1>10 DEF PutOut, e, Joinings, Partings, Rosters
<1>12. ASSUME NEW d \in Channels, d # c
       PROVE  Elsewhere(d)
  <2>1. Extended(toClient, toClient', d, AllAbout)
    BY <1>3, <1>4, <1>5, <1>12, ExtendedSame, ExtendedMore
  <2> QED BY <1>2, <1>8, <1>12, <2>1 DEF Elsewhere, ServerSame
<1>13. ServerShape'
  BY <1>2, <1>5, <1>6, <1>9 DEF ServerShape
<1> QED BY <1>11, <1>12, <1>13

(* A JOIN is refused. *)
Refuses(c) ==
    /\ "me" \notin members[c] /\ ServerSame(c) /\ credit'[c] = credit[c]
    /\ Extended(toClient, toClient', c, Telling)
    /\ About(toClient', c, "refused") = About(toClient, c, "refused") \cup {Len(toClient) + 1}

LEMMA RefusesIs ==
  ASSUME Shape, NEW c \in Channels, "me" \notin members[c],
         toClient' = Append(toClient, Line("refused", c)),
         UNCHANGED <<members, ops, flags, topic, credit, left>>
  PROVE  /\ ServerShape' /\ Refuses(c)
         /\ \A d \in Channels : d # c => Elsewhere(d)
<1> DEFINE said == Line("refused", c)
<1>1. said \in LinesOf(ServerKinds) /\ said.kind = "refused" /\ said.channel = c
  <2>1. "none" \in Topics
    BY DEF Topics
  <2> QED BY <2>1, AnswersAre
<1>2. toClient' = Append(toClient, said)
  OBVIOUS
<1> HIDE DEF said
<1>3. /\ toClient' \in Seq(LinesOf(ServerKinds))
      /\ \A d \in Channels : d # c => Elsewhere(d)
  BY <1>1, <1>2, OneSaid
<1>4. ServerShape'
  BY <1>3, ShapeOfServer DEF ServerShape
<1>5. toClient \in Seq(LinesOf(ServerKinds))
  BY DEF Shape
<1>6. Extended(toClient, toClient', c, Telling)
  BY <1>1, <1>2, <1>5, ExtendedSame, ExtendedMore DEF Telling
<1>7. About(Append(toClient, said), c, "refused") = About(toClient, c, "refused") \cup {Len(toClient) + 1}
  BY <1>1, <1>5, AboutAppend, Z3
<1> QED BY <1>2, <1>3, <1>4, <1>6, <1>7 DEF Refuses, ServerSame

LEMMA Served ==
  ASSUME Shape, Serve
  PROVE  LET line == Head(toServer)
             c == line.channel
         IN  /\ ServerShape' /\ \A d \in Channels : d # c => Elsewhere(d)
             /\ \/ Elsewhere(c) /\ (line.kind = "part" => "me" \notin members[c])
                \/ line.kind = "join" /\ Refuses(c)
                \/ line.kind = "join" /\ \E m : Admitted(c, m)
                \/ line.kind = "part" /\ PutOut(c)
<1> DEFINE line == Head(toServer)
<1> DEFINE c == line.channel
<1>1. /\ line \in LinesOf(ClientKinds) /\ c \in Channels /\ left' = left
      /\ ServeJoin(line) \/ ServePart(line) \/ ServeQuery(line) \/ ServeRestore(line)
  BY ServeIs
<1> HIDE DEF line
<1>2. CASE ServeJoin(line)
  <2>1. line.kind = "join"
    BY <1>2 DEF ServeJoin
  <2>2. \/ UNCHANGED <<members, ops, flags, topic, toClient, credit>>
        \/ /\ "me" \notin members[c] /\ toClient' = Append(toClient, Line("refused", c))
           /\ UNCHANGED <<members, ops, flags, topic, credit>>
        \/ \E created \in BOOLEAN : Admits(c, created)
    BY <1>1, <1>2, Zenon DEF ServeJoin, serverVars, Admits, Welcomed
  <2>3. CASE UNCHANGED <<members, ops, flags, topic, toClient, credit>>
    BY <1>1, <2>1, <2>3, NothingServed DEF line
  <2>4. CASE /\ "me" \notin members[c] /\ toClient' = Append(toClient, Line("refused", c))
             /\ UNCHANGED <<members, ops, flags, topic, credit>>
    BY <1>1, <2>1, <2>4, RefusesIs DEF line
  <2>5. ASSUME NEW created \in BOOLEAN, Admits(c, created)
        PROVE  ServerShape' /\ (\E m : Admitted(c, m)) /\ \A d \in Channels : d # c => Elsewhere(d)
    BY <1>1, <2>5, AdmittedIs
  <2> QED BY <2>1, <2>2, <2>3, <2>4, <2>5 DEF line
<1>3. CASE ServePart(line)
  <2>1. line.kind = "part"
    BY <1>3 DEF ServePart
  <2>2. \/ Removes(c)
        \/ UNCHANGED <<members, ops, flags, topic, toClient, credit>> /\ "me" \notin members[c]
    <3>1. CASE "me" \in members[c]
      BY <1>3, <3>1 DEF ServePart, Removes
    <3>2. CASE "me" \notin members[c]
      BY <1>3, <3>2 DEF ServePart, serverVars
    <3> QED BY <3>1, <3>2
  <2>3. CASE Removes(c)
    BY <1>1, <2>1, <2>3, PutOutIs DEF line
  <2>4. CASE UNCHANGED <<members, ops, flags, topic, toClient, credit>> /\ "me" \notin members[c]
    BY <1>1, <2>1, <2>4, NothingServed DEF line
  <2> QED BY <2>2, <2>3, <2>4
<1>4. CASE ServeQuery(line)
  <2>1. line.kind # "part"
    BY <1>4 DEF ServeQuery
  <2>2. ServerShape' /\ \A d \in Channels : Elsewhere(d)
    BY <1>1, <1>4, QueryServed
  <2> QED BY <1>1, <2>1, <2>2 DEF line
<1>5. CASE ServeRestore(line)
  <2>1. line.kind # "part"
    BY <1>5 DEF ServeRestore
  <2>2. ServerShape' /\ \A d \in Channels : Elsewhere(d)
    BY <1>1, <1>5, RestoreServed
  <2> QED BY <1>1, <2>1, <2>2 DEF line
<1> QED BY <1>1, <1>2, <1>3, <1>4, <1>5

(* The server says nothing of the channel that the invariant is about. *)
LEMMA ElsewhereIs ==
  ASSUME Shape, NEW c \in Channels, Elsewhere(c)
  PROVE  /\ TurnsMove(c, 0) /\ RostersMove(c, 0) /\ ServerSame(c)
         /\ 0 \notin Partings(c) /\ 0 \notin Statuses(c) /\ 0 \notin Joinings(c) /\ 0 \notin Leaves(c)
         /\ credit[c] \in Int /\ credit'[c] = credit[c]
<1>1. Extended(toClient, toClient', c, Telling) /\ ServerSame(c) /\ credit'[c] = credit[c]
      /\ About(toClient', c, "refused") = About(toClient, c, "refused")
  BY DEF Elsewhere, Extended, AllAbout
<1>2. TurnsMove(c, 0) /\ RostersMove(c, 0)
  BY <1>1, ExtendedMoves
<1>3. 0 \notin Partings(c) /\ 0 \notin Statuses(c) /\ 0 \notin Leaves(c)
  BY LeavesType DEF Statuses
<1>4. credit[c] \in Int /\ 0 \notin Joinings(c)
  BY <1>3 DEF Shape, Statuses
<1> QED BY <1>1, <1>2, <1>3, <1>4

LEMMA SameIsCalm ==
  ASSUME NEW c \in Channels, channel'[c] = channel[c]
  PROVE  Calm(c)
BY DEF Calm

(* A PART of the user comes when we are out of the channel. *)
LEMMA IdlePartKeeps ==
  ASSUME Shape, NEW c \in Channels, OfChannel(c), Elsewhere(c), channel' = channel,
         "me" \notin members[c], RequestsMove(c, 1), 1 \in Leaves(c)
  PROVE  OfChannel(c)'
<1>1. /\ TurnsMove(c, 0) /\ RostersMove(c, 0) /\ ServerSame(c)
      /\ 0 \notin Partings(c) /\ 0 \notin Statuses(c) /\ 0 \notin Joinings(c)
      /\ credit[c] \in Int /\ credit'[c] = credit[c]
      /\ Staged(c) /\ InTurn(c) /\ LeftAlone(c) /\ StatusTold(c) /\ Earned(c)
  BY ElsewhereIs DEF OfChannel
<1>2. Staged(c)'
  BY <1>1 DEF Staged
<1>3. InTurn(c)'
  BY <1>1, TurnsKeep DEF ServerSame
<1>4. LeftAlone(c)'
  <2>1. "me" \notin members'[c] /\ left'[c] = left[c]
    BY <1>1 DEF ServerSame
  <2>2. Leaves(c) # {} /\ channel'[c].tracked => channel'[c].inChannel
    BY <1>1 DEF LeftAlone
  <2> QED BY <1>1, <2>1, <2>2, LeftKeeps
<1>5. StatusTold(c)'
  BY <1>1, ToldKeeps DEF ServerSame
<1>6. Earned(c)'
  <2>1. /\ Cardinality(Rises(c)') \in Nat /\ Cardinality(Rises(c)) \in Nat
        /\ Cardinality(Rises(c)') <= Cardinality(Rises(c))
    BY <1>1, RisesKeep
  <2>2. /\ Cardinality(Joins(c)') \in Nat /\ Cardinality(Joins(c)) \in Nat
        /\ Cardinality(Joins(c)') <= Cardinality(Joins(c))
    BY JoinsKeep
  <2>3. Rest(c) = 0
    BY DEF Rest
  <2>4. ~Joining(c)'
    <3>1. ~Joining(c)
      <4>1. \A j \in Joinings(c) : \E p \in Partings(c) : j < p
        BY <1>1 DEF InTurn
      <4>2. /\ \A j \in Joinings(c) : j \in Int
            /\ \A p \in Partings(c) : p \in Int
        BY LeavesType
      <4> QED BY <4>1, <4>2 DEF Joining
    <3> QED BY <1>1, <3>1, JoiningsKeep
  <2>5. /\ ~Awaiting(c)' /\ (Partings(c)' = {} => ~channel'[c].inChannel)
        /\ channel'[c].tracked => channel'[c].inChannel
    <3>1. /\ channel[c].stage # "attempt" /\ (channel[c].tracked => channel[c].inChannel)
          /\ channel[c].inChannel => Partings(c) # {}
      BY <1>1 DEF LeftAlone, InTurn
    <3>2. Partings(c) # {} => Partings(c)' # {}
      BY <1>1, JoiningsKeep
    <3> QED BY <3>1, <3>2 DEF Awaiting
  <2>6. Rest(c)' = 0
    BY <2>4, <2>5 DEF Rest, One
  <2> QED BY <1>1, <2>1, <2>2, <2>3, <2>6 DEF Earned
<1> QED BY <1>2, <1>3, <1>4, <1>5, <1>6 DEF OfChannel

(* A JOIN is refused. *)
LEMMA RefusesKeeps ==
  ASSUME Shape, NEW c \in Channels, OfChannel(c), Refuses(c), channel' = channel,
         RequestsMove(c, 1), 1 \notin Leaves(c)
  PROVE  OfChannel(c)'
<1>1. /\ Staged(c) /\ InTurn(c) /\ LeftAlone(c) /\ StatusTold(c) /\ Earned(c)
      /\ ServerSame(c) /\ credit'[c] = credit[c] /\ credit[c] \in Int
      /\ "me" \notin members[c] /\ "me" \notin members'[c]
  BY DEF OfChannel, Refuses, ServerSame, Shape
<1>2. /\ Extended(toClient, toClient', c, Telling)
      /\ About(toClient', c, "refused") = About(toClient, c, "refused") \cup {Len(toClient) + 1}
  BY DEF Refuses
<1>3. /\ Joinings(c)' = Joinings(c) /\ Partings(c)' = Partings(c) /\ Rosters(c)' = Rosters(c)
      /\ Statuses(c)' = Statuses(c) /\ \A i \in Statuses(c) : OpIn(i)' <=> OpIn(i)
      /\ \A i \in Rosters(c) : toClient'[i] = toClient[i]
  <2>1. \A i \in Rosters(c) : i \in 1..Len(toClient)
    BY LeavesType
  <2> QED BY <1>2, <2>1, ExtendedMoves DEF Extended
<1>4. Leaves(c)' = {} <=> Leaves(c) = {}
  BY DEF RequestsMove, Moved
<1>5. Staged(c)'
  BY <1>1 DEF Staged
<1>6. InTurn(c)'
  <2>1. ASSUME NEW j \in Joinings(c)' \cup About(toClient', c, "refused")
        PROVE  /\ channel'[c].inChannel => \E p \in Partings(c)' : p < j
               /\ \A i \in Joinings(c)' : i < j => \E p \in Partings(c)' : i < p /\ p < j
    <3>1. CASE j \in Joinings(c) \cup About(toClient, c, "refused")
      BY <1>1, <1>3, <3>1 DEF InTurn
    <3>2. CASE j = Len(toClient) + 1
      <4>1. /\ \A j2 \in Joinings(c) : \E p \in Partings(c) : j2 < p
            /\ channel[c].inChannel => Partings(c) # {}
        BY <1>1 DEF InTurn
      <4>2. \A p \in Partings(c) : p < Len(toClient) + 1
        BY LeavesType
      <4> QED BY <1>3, <3>2, <4>1, <4>2
    <3> QED BY <1>2, <1>3, <2>1, <3>1, <3>2
  <2>2. /\ \A j \in Joinings(c)' : \E p \in Partings(c)' : j < p
        /\ channel'[c].inChannel => Partings(c)' # {}
    BY <1>1, <1>3 DEF InTurn
  <2> QED BY <1>1, <2>1, <2>2 DEF InTurn
<1>7. LeftAlone(c)'
  <2>1. Leaves(c) # {} /\ channel'[c].tracked => channel'[c].inChannel
    BY <1>1 DEF LeftAlone
  <2> QED BY <1>1, <2>1, LeftKeeps DEF ServerSame
<1>8. Rises(c)' = Rises(c)
  BY <1>3 DEF Rises, Follows, First, Statuses
<1>9. StatusTold(c)'
  BY <1>1, <1>3 DEF StatusTold, Follows, First
<1>10. Earned(c)'
  <2>1. /\ Cardinality(Joins(c)') \in Nat /\ Cardinality(Joins(c)) \in Nat
        /\ Cardinality(Joins(c)') <= Cardinality(Joins(c))
    BY JoinsKeep
  <2>2. /\ Joining(c)' <=> Joining(c)
        /\ Twice(c)' <=> Twice(c)
        /\ Awaiting(c)' <=> Awaiting(c)
    BY <1>3 DEF Joining, Twice, Awaiting
  <2>3. /\ Rest(c)' \in Int /\ Rest(c) \in Int
        /\ Rest(c)' + Cardinality(Joins(c)') <= Rest(c) + Cardinality(Joins(c))
    BY <1>3, <1>4, <2>1, <2>2 DEF Rest, One
  <2>4. Cardinality(Rises(c)) \in Nat
    BY LeavesType, FewAreFinite
  <2> QED BY <1>1, <1>8, <2>1, <2>3, <2>4 DEF Earned
<1> QED BY <1>5, <1>6, <1>7, <1>9, <1>10 DEF OfChannel

(* We are out of the channel, by a PART or a KICK. *)
LEMMA PutOutKeeps ==
  ASSUME Shape, NEW c \in Channels, NEW d \in {0, 1}, OfChannel(c), PutOut(c),
         channel' = channel, RequestsMove(c, d)
  PROVE  OfChannel(c)'
<1>0. PICK n : n = Len(toClient)
  OBVIOUS
<1>1. /\ Staged(c) /\ InTurn(c) /\ LeftAlone(c) /\ StatusTold(c) /\ Earned(c)
      /\ "me" \in members[c] /\ "me" \notin members'[c]
      /\ credit[c] \in Int /\ credit'[c] = credit[c] /\ left'[c] = left[c]
  BY DEF OfChannel, PutOut, Shape
<1>2. /\ Joinings(c)' = Joinings(c) /\ Rosters(c)' = Rosters(c) /\ Statuses(c)' = Statuses(c)
      /\ Partings(c)' = Partings(c) \cup {n + 1}
      /\ About(toClient', c, "refused") = About(toClient, c, "refused")
  BY <1>0 DEF PutOut, Statuses
<1>3. /\ n \in Nat
      /\ \A i \in Joinings(c) : i \in Int /\ i < n + 1
      /\ \A i \in Partings(c) : i \in Int /\ i < n + 1
      /\ \A i \in About(toClient, c, "refused") : i \in Int /\ i < n + 1
      /\ \A i \in Statuses(c) : i \in Int /\ toClient'[i] = toClient[i]
  <2>1. \A i \in Statuses(c) : i \in 1..Len(toClient)
    BY LeavesType DEF Statuses
  <2> QED BY <1>0, <2>1, LeavesType DEF PutOut
<1>4. \A i \in Statuses(c) : OpIn(i)' <=> OpIn(i)
  BY <1>3 DEF OpIn
<1>5. Staged(c)'
  BY <1>1 DEF Staged
<1>6. InTurn(c)'
  <2>1. \A j \in Joinings(c)' : \E p \in Partings(c)' : j < p
    BY <1>2, <1>3
  <2>2. ASSUME NEW j \in Joinings(c)' \cup About(toClient', c, "refused")
        PROVE  /\ channel'[c].inChannel => \E p \in Partings(c)' : p < j
               /\ \A i \in Joinings(c)' : i < j => \E p \in Partings(c)' : i < p /\ p < j
    BY <1>1, <1>2, <2>2 DEF InTurn
  <2>3. Partings(c)' # {}
    BY <1>2
  <2> QED BY <1>1, <2>1, <2>2, <2>3 DEF InTurn
<1>7. LeftAlone(c)'
  <2>1. Leaves(c) # {} /\ channel'[c].tracked => channel'[c].inChannel
    BY <1>1 DEF LeftAlone
  <2> QED BY <1>1, <2>1, LeftKeeps
<1>8. StatusTold(c)'
  <2>1. \A j \in Joinings(c)' :
           \E k \in Rosters(c)' : toClient'[k].complete /\ Follows(c, j, k)'
    BY <1>1, <1>2, <1>3 DEF StatusTold, Follows, Statuses
  <2>2. channel'[c].inChannel /\ ~channel'[c].synced =>
           \E k \in Rosters(c)' : toClient'[k].complete /\ First(c, k)'
    BY <1>1, <1>2, <1>3 DEF StatusTold, First, Statuses
  <2> QED BY <1>1, <2>1, <2>2 DEF StatusTold
<1>9. Rises(c)' = Rises(c)
  BY <1>2, <1>4 DEF Rises, Follows, First, Statuses
<1>10. Earned(c)'
  <2>1. /\ Cardinality(Joins(c)') \in Nat /\ Cardinality(Joins(c)) \in Nat
        /\ Cardinality(Joins(c)') <= Cardinality(Joins(c))
    BY JoinsKeep
  <2>2. Cardinality(Rises(c)) \in Nat
    BY LeavesType, FewAreFinite
  <2>3. Leaves(c)' # {} => Leaves(c) # {}
    BY DEF RequestsMove, Moved
  <2>4. ~Joining(c)' /\ Partings(c)' # {}
    BY <1>2, <1>3 DEF Joining
  <2>5. Rest(c)' = IF Leaves(c)' = {} /\ Awaiting(c)
                   THEN One(~channel[c].tried \/ Twice(c)') ELSE 0
    BY <2>4 DEF Rest, One, Awaiting
  <2>6. Rest(c) \in Int /\ Rest(c) >= 0
    <3>1. Partings(c) = {} /\ ~channel[c].inChannel /\ Leaves(c) = {} => Joining(c)
      BY <1>1 DEF InTurn, Joining
    <3> QED BY <3>1 DEF Rest, One
  <2>7. CASE Leaves(c)' = {} /\ Awaiting(c)
    <3>1. Leaves(c) = {} /\ channel[c].inChannel
      BY <1>1, <2>7 DEF LeftAlone, Awaiting, Staged
    <3>2. CASE Partings(c) = {}
      <4>1. ~Twice(c)'
        BY <1>2, <1>3, <3>2 DEF Twice
      <4>2. Rest(c) = One(~channel[c].tried)
        BY <3>1, <3>2 DEF Rest
      <4> QED BY <1>1, <1>9, <2>1, <2>2, <2>5, <2>7, <4>1, <4>2 DEF Earned, One
    <3>3. CASE Partings(c) # {}
      <4>1. Joining(c)
        BY <1>1, <3>3 DEF InTurn
      <4>2. Rest(c) >= 1
        BY <2>7, <3>1, <3>3, <4>1 DEF Rest, One
      <4> QED BY <1>1, <1>9, <2>1, <2>2, <2>5, <2>6, <2>7, <4>2 DEF Earned, One
    <3> QED BY <3>2, <3>3
  <2>8. CASE ~(Leaves(c)' = {} /\ Awaiting(c))
    <3>1. Rest(c)' = 0
      BY <2>5, <2>8
    <3> QED BY <1>1, <1>9, <2>1, <2>2, <2>6, <3>1 DEF Earned
  <2> QED BY <2>7, <2>8
<1> QED BY <1>5, <1>6, <1>7, <1>8, <1>10 DEF OfChannel

(* A JOIN is admitted. *)
LEMMA AdmittedKeeps ==
  ASSUME Shape, NEW c \in Channels, NEW m, OfChannel(c), Admitted(c, m),
         channel' = channel, left' = left,
         RequestsMove(c, 1), 1 \in About(toServer, c, "join"), 1 \notin Leaves(c)
  PROVE  OfChannel(c)'
<1>0. PICK n : n = Len(toClient)
  OBVIOUS
<1>1. /\ Staged(c) /\ InTurn(c) /\ LeftAlone(c) /\ StatusTold(c) /\ Earned(c)
      /\ "me" \notin members[c] /\ "me" \in members'[c] /\ "me" \notin ops[c]
      /\ credit[c] \in Int /\ credit'[c] = credit[c] + One("me" \in ops'[c])
  BY DEF OfChannel, Admitted, Shape
<1>2. /\ Joinings(c)' = Joinings(c) \cup {n + 1} /\ Rosters(c)' = Rosters(c) \cup {m}
      /\ Statuses(c)' = Statuses(c) \cup {n + 1, m}
      /\ Partings(c)' = Partings(c)
      /\ About(toClient', c, "refused") = About(toClient, c, "refused")
      /\ m \in Int /\ n + 1 < m /\ toClient'[m].complete /\ (OpIn(m)' <=> "me" \in ops'[c])
  BY <1>0 DEF Admitted, Statuses
<1>3. /\ n \in Nat
      /\ \A i \in Joinings(c) : i \in Int /\ i < n + 1
      /\ \A i \in Partings(c) : i \in Int /\ i < n + 1
      /\ \A i \in About(toClient, c, "refused") : i \in Int /\ i < n + 1
      /\ \A i \in Statuses(c) : i \in Int /\ i < n + 1 /\ toClient'[i] = toClient[i]
  <2>1. \A i \in Statuses(c) : i \in 1..Len(toClient)
    BY LeavesType DEF Statuses
  <2> QED BY <1>0, <2>1, LeavesType DEF Admitted
<1>4. \A i \in Statuses(c) : OpIn(i)' <=> OpIn(i)
  BY <1>3 DEF OpIn
<1>5. /\ \A j \in Joinings(c) : \E p \in Partings(c) : j < p
      /\ channel[c].inChannel => Partings(c) # {}
  BY <1>1 DEF InTurn
<1>6. Staged(c)'
  BY <1>1 DEF Staged
<1>7. InTurn(c)'
  <2>1. Joining(c)' /\ Joinings(c)' # {}
    BY <1>2, <1>3 DEF Joining
  <2>2. ASSUME NEW j \in Joinings(c) \cup About(toClient, c, "refused")
        PROVE  /\ channel'[c].inChannel => \E p \in Partings(c)' : p < j
               /\ \A i \in Joinings(c)' : i < j => \E p \in Partings(c)' : i < p /\ p < j
    <3>1. j < n + 1 /\ j \in Int
      BY <1>3
    <3>2. \A i \in Joinings(c)' : i < j => i \in Joinings(c)
      BY <1>2, <1>3, <3>1
    <3> QED BY <1>1, <1>2, <3>2 DEF InTurn
  <2>3. /\ channel'[c].inChannel => \E p \in Partings(c)' : p < n + 1
        /\ \A i \in Joinings(c)' : i < n + 1 => \E p \in Partings(c)' : i < p /\ p < n + 1
    BY <1>2, <1>3, <1>5
  <2> QED BY <1>1, <1>2, <2>1, <2>2, <2>3 DEF InTurn
<1>8. Leaves(c)' = {} <=> Leaves(c) = {}
  BY DEF RequestsMove, Moved
<1>9. LeftAlone(c)'
  <2>1. left[c] => Leaves(c)' # {}
    BY <1>1, <1>8 DEF LeftAlone
  <2>2. Leaves(c) # {} /\ channel'[c].tracked => channel'[c].inChannel
    BY <1>1 DEF LeftAlone
  <2> QED BY <1>1, <2>1, <2>2, LeftKeeps
<1>10. \A i, k \in Statuses(c) : Follows(c, k, i) <=> Follows(c, k, i)'
  BY <1>2, <1>3 DEF Follows
<1>11. \A i \in Statuses(c) : First(c, i) <=> First(c, i)'
  BY <1>2, <1>3 DEF First
<1>12. StatusTold(c)'
  <2>1. ASSUME NEW j \in Joinings(c)
        PROVE  \E k \in Rosters(c)' : toClient'[k].complete /\ Follows(c, j, k)'
    <3>1. PICK k \in Rosters(c) : toClient[k].complete /\ Follows(c, j, k)
      BY <1>1 DEF StatusTold
    <3>2. k \in Statuses(c) /\ j \in Statuses(c)
      BY DEF Statuses
    <3> QED BY <1>2, <1>3, <1>10, <3>1, <3>2
  <2>2. Follows(c, n + 1, m)'
    BY <1>2, <1>3 DEF Follows
  <2>3. channel'[c].inChannel /\ ~channel'[c].synced =>
           \E k \in Rosters(c)' : toClient'[k].complete /\ First(c, k)'
    <3>1. SUFFICES ASSUME channel[c].inChannel, ~channel[c].synced
                   PROVE  \E k \in Rosters(c)' : toClient'[k].complete /\ First(c, k)'
      OBVIOUS
    <3>2. PICK k \in Rosters(c) : toClient[k].complete /\ First(c, k)
      BY <1>1, <3>1 DEF StatusTold
    <3>3. k \in Statuses(c)
      BY DEF Statuses
    <3> QED BY <1>2, <1>3, <1>11, <3>2, <3>3
  <2>4. ASSUME NEW i \in Statuses(c)', \A s \in Statuses(c)' : s <= i
        PROVE  OpIn(i)' <=> "me" \in ops'[c]
    <3>1. i = m
      BY <1>2, <1>3, <2>4
    <3> QED BY <1>2, <3>1
  <2>5. Statuses(c)' # {}
    BY <1>2
  <2> QED BY <1>2, <2>1, <2>2, <2>3, <2>4, <2>5 DEF StatusTold
<1>13. Earned(c)'
  <2>1. /\ Cardinality(Joins(c)') \in Nat /\ Cardinality(Joins(c)) \in Nat
        /\ Cardinality(Joins(c)') <= Cardinality(Joins(c))
        /\ 1 \in Joins(c) => Cardinality(Joins(c)') < Cardinality(Joins(c))
    BY JoinsKeep
  <2>2. ASSUME NEW i \in Rises(c)', i # m
        PROVE  i \in Rises(c)
    <3>1. i \in Rosters(c) /\ i \in Statuses(c) /\ OpIn(i) /\ i \in Int /\ i < n + 1
      BY <1>2, <1>3, <1>4, <2>2 DEF Rises, Statuses
    <3>2. CASE \E k \in Statuses(c)' : ~OpIn(k)' /\ Follows(c, k, i)'
      <4>1. PICK k \in Statuses(c)' : ~OpIn(k)' /\ Follows(c, k, i)'
        BY <3>2
      <4>2. k \in Statuses(c)
        BY <1>2, <1>3, <3>1, <4>1 DEF Follows
      <4> QED BY <1>4, <1>10, <3>1, <4>1, <4>2 DEF Rises
    <3>3. CASE First(c, i)' /\ channel'[c].inChannel /\ ~channel'[c].op
      BY <1>11, <3>1, <3>3 DEF Rises
    <3> QED BY <2>2, <3>2, <3>3 DEF Rises
  <2>3. m \in Rises(c)' => "me" \in ops'[c]
    BY <1>2 DEF Rises
  <2>4. /\ Cardinality(Rises(c)') \in Nat /\ Cardinality(Rises(c)) \in Nat
        /\ Cardinality(Rises(c)') <= Cardinality(Rises(c)) + One("me" \in ops'[c])
    <3>1. Rises(c) \in SUBSET (1..Len(toClient)) /\ Len(toClient) \in Nat
      BY LeavesType
    <3>2. CASE m \in Rises(c)'
      <4>1. Rises(c)' = (Rises(c)' \ {m}) \cup {m}
        BY <3>2
      <4>2. Rises(c)' \ {m} \in SUBSET (1..Len(toClient))
        BY <2>2, <3>1
      <4>3. /\ Cardinality(Rises(c)') \in Nat /\ Cardinality(Rises(c)' \ {m}) \in Nat
            /\ Cardinality(Rises(c)') <= Cardinality(Rises(c)' \ {m}) + 1
        BY <3>1, <4>1, <4>2, MoreLines
      <4>4. PICK z \in Int : \A i \in Rises(c)' \ {m} : i \in Int /\ i + z \in Rises(c)
        <5>1. \A i \in Rises(c)' \ {m} : i \in Int /\ i + 0 \in Rises(c)
          BY <2>2, <3>1
        <5> QED BY <5>1
      <4>5. Cardinality(Rises(c)' \ {m}) <= Cardinality(Rises(c)) /\ Cardinality(Rises(c)) \in Nat
        BY <3>1, <4>4, FewerLines
      <4> QED BY <2>3, <3>2, <4>3, <4>5 DEF One
    <3>3. CASE m \notin Rises(c)'
      <4>1. PICK z \in Int : \A i \in Rises(c)' : i \in Int /\ i + z \in Rises(c)
        <5>1. \A i \in Rises(c)' : i \in Int /\ i + 0 \in Rises(c)
          BY <2>2, <3>1, <3>3
        <5> QED BY <5>1
      <4>2. /\ Cardinality(Rises(c)') <= Cardinality(Rises(c)) /\ Cardinality(Rises(c)) \in Nat
            /\ Cardinality(Rises(c)') \in Nat
        BY <3>1, <4>1, FewerLines
      <4> QED BY <4>2 DEF One
    <3> QED BY <3>2, <3>3
  <2>5. Joining(c)'
    BY <1>2, <1>3 DEF Joining
  <2>6. ~Joining(c) \/ Partings(c) = {}
    BY <1>3, <1>5 DEF Joining
  <2>7. Twice(c)' <=> Twice(c)
    BY <1>2 DEF Twice
  <2>8. /\ Rest(c)' \in Int /\ Rest(c) \in Int
        /\ Rest(c)' + Cardinality(Joins(c)') <= Rest(c) + Cardinality(Joins(c))
    <3>1. CASE Leaves(c) # {}
      BY <1>8, <2>1, <3>1 DEF Rest
    <3>2. CASE Leaves(c) = {}
      <4>1. 1 \in Joins(c)
        BY <3>2 DEF Joins
      <4>2. Cardinality(Joins(c)') + 1 <= Cardinality(Joins(c))
        BY <2>1, <4>1
      <4>3. CASE Partings(c) # {}
        <5>1. /\ Rest(c)' = 1 + IF ~Awaiting(c) THEN 0 ELSE One(~channel[c].tried \/ Twice(c))
              /\ Rest(c) = 0 + IF ~Awaiting(c) THEN 0 ELSE One(~channel[c].tried \/ Twice(c))
          BY <1>2, <1>8, <2>5, <2>6, <2>7, <3>2, <4>3 DEF Rest, One, Awaiting
        <5> QED BY <2>1, <4>2, <5>1 DEF One
      <4>4. CASE Partings(c) = {}
        <5>1. ~channel[c].inChannel /\ ~Joining(c)
          BY <1>5, <4>4 DEF Joining
        <5>2. /\ Rest(c)' = IF channel[c].tracked THEN One(~channel[c].tried) ELSE 1
              /\ Rest(c) = IF channel[c].tracked THEN One(~channel[c].tried) - 1 ELSE 0
          BY <1>2, <1>8, <2>1, <2>5, <3>2, <4>2, <4>4, <5>1 DEF Rest, One
        <5> QED BY <2>1, <4>2, <5>2 DEF One
      <4> QED BY <4>3, <4>4
    <3> QED BY <3>1, <3>2
  <2> QED BY <1>1, <2>1, <2>4, <2>8 DEF Earned, One
<1> QED BY <1>6, <1>7, <1>9, <1>12, <1>13 DEF OfChannel

(* The server takes a line. *)
LEMMA ServeKeeps ==
  ASSUME Shape, Serve, NEW c \in Channels, OfChannel(c)
  PROVE  OfChannel(c)'
<1> DEFINE line == Head(toServer)
<1>1. /\ line.channel \in Channels /\ channel' = channel /\ left' = left
      /\ toServer # <<>> /\ toServer' = Tail(toServer)
  BY ServeIs
<1>2. /\ RequestsMove(c, 1)
      /\ 1 \in About(toServer, c, "join") <=> line.kind = "join" /\ line.channel = c
      /\ 1 \in Leaves(c) => line.kind = "part" /\ line.channel = c
  BY <1>1, ServerTakes
<1>3. /\ line.channel # c => Elsewhere(c)
      /\ line.channel = c =>
            \/ Elsewhere(c) /\ (line.kind = "part" => "me" \notin members[c])
            \/ line.kind = "join" /\ Refuses(c)
            \/ line.kind = "join" /\ \E m : Admitted(c, m)
            \/ line.kind = "part" /\ PutOut(c)
  BY Served
<1> HIDE DEF line
<1>4. CASE Elsewhere(c) /\ 1 \notin Leaves(c)
  <2>1. Calm(c)
    BY <1>1, SameIsCalm
  <2> QED BY <1>2, <1>4, <2>1, ElsewhereIs, CalmKeeps
<1>5. CASE Elsewhere(c) /\ 1 \in Leaves(c) /\ "me" \notin members[c]
  BY <1>1, <1>2, <1>5, IdlePartKeeps
<1>6. CASE line.channel = c /\ line.kind = "join" /\ Refuses(c)
  <2>1. 1 \notin Leaves(c)
    BY <1>2, <1>6
  <2> QED BY <1>1, <1>2, <1>6, <2>1, RefusesKeeps
<1>7. CASE line.channel = c /\ line.kind = "join" /\ \E m : Admitted(c, m)
  <2>1. 1 \notin Leaves(c) /\ 1 \in About(toServer, c, "join")
    BY <1>2, <1>7
  <2> QED BY <1>1, <1>2, <1>7, <2>1, AdmittedKeeps
<1>8. CASE PutOut(c)
  BY <1>1, <1>2, <1>8, PutOutKeeps
<1> QED BY <1>2, <1>3, <1>4, <1>5, <1>6, <1>7, <1>8

-----------------------------------------------------------------------------
(* The others in the channel. *)

(* Members and operators change, but not whether we are there.             *)
Reshuffles(c, now, nowOps) ==
    /\ RosterChanges(c, now, nowOps)
    /\ now \subseteq People /\ nowOps \subseteq now
    /\ "me" \in now <=> "me" \in members[c]
    /\ credit' \in [Channels -> Int]
    /\ credit'[c] = credit[c] + One("me" \in nowOps /\ "me" \notin ops[c])
    /\ \A d \in Channels : d # c => credit'[d] = credit[d]
    /\ left' = left /\ channel' = channel /\ toServer' = toServer

(* We are told the roster.                                                 *)
Announced(c) ==
    /\ "me" \in members[c] /\ "me" \in members'[c] /\ left'[c] = left[c]
    /\ credit'[c] = credit[c] + One("me" \in ops'[c] /\ "me" \notin ops[c])
    /\ Joinings(c)' = Joinings(c) /\ Partings(c)' = Partings(c)
    /\ About(toClient', c, "refused") = About(toClient, c, "refused")
    /\ Rosters(c)' = Rosters(c) \cup {Len(toClient) + 1}
    /\ \A i \in 1..Len(toClient) : toClient'[i] = toClient[i]
    /\ toClient'[Len(toClient) + 1].kind = "names"
    /\ toClient'[Len(toClient) + 1].ops = ops'[c]

LEMMA ReshufflesIs ==
  ASSUME Shape, NEW c \in Channels, NEW now, NEW nowOps, Reshuffles(c, now, nowOps)
  PROVE  /\ ServerShape' /\ (Announced(c) \/ Elsewhere(c))
         /\ \A d \in Channels : d # c => Elsewhere(d)
<1>1. /\ ServerChannel(c, now, nowOps) /\ now \in SUBSET People /\ nowOps \in SUBSET now
      /\ credit' \in [Channels -> Int] /\ left' = left
      /\ \A d \in Channels : d # c => credit'[d] = credit[d]
      /\ "me" \in now <=> "me" \in members[c]
      /\ credit'[c] = credit[c] + One("me" \in nowOps /\ "me" \notin ops[c])
  BY DEF Reshuffles, RosterChanges
<1>2. /\ members' \in [Channels -> SUBSET People] /\ ops' \in [Channels -> SUBSET People]
      /\ flags' \in [Channels -> BOOLEAN] /\ topic' \in [Channels -> Topics]
      /\ \A d \in Channels : ops'[d] \subseteq members'[d]
  BY <1>1, ServerChannelIs
<1>3. members'[c] = now
  <2>1. ServerChannel(c, now, nowOps) /\ now \in SUBSET People /\ nowOps \in SUBSET now
    BY <1>1
  <2> QED BY <2>1, ServerChannelIs
<1>4. ops'[c] = nowOps
  <2>1. ops' = [ops EXCEPT ![c] = nowOps] /\ ops \in [Channels -> SUBSET People]
    BY <1>1 DEF ServerChannel, Shape
  <2> QED BY <2>1
<1>5. \A d \in Channels : d # c => members'[d] = members[d] /\ ops'[d] = ops[d]
  BY <1>1, ServerChannelIs
<1> DEFINE roster == Roster(c, FALSE)
<1>6. /\ roster \in LinesOf(ServerKinds)
      /\ roster.kind = "names" /\ roster.channel = c /\ roster.ops = ops'[c]
  <2>1. ServerChannel(c, now, nowOps) /\ now \in SUBSET People /\ nowOps \in SUBSET now
    BY <1>1
  <2> QED BY <2>1, ServerChannelIs
<1>7. toClient' = IF "me" \in now THEN Append(toClient, roster) ELSE toClient
  BY DEF Reshuffles, RosterChanges
<1>8. /\ toClient \in Seq(LinesOf(ServerKinds)) /\ ops[c] \subseteq members[c]
      /\ credit[c] \in Int
  BY DEF Shape
<1> HIDE DEF roster
<1>9. /\ toClient' \in Seq(LinesOf(ServerKinds))
      /\ \A d \in Channels : d # c \/ "me" \notin now => Extended(toClient, toClient', d, AllAbout)
  <2>1. \A d : Extended(toClient, toClient, d, AllAbout)
    BY <1>8, ExtendedSame
  <2>2. CASE "me" \notin now
    <3>1. toClient' = toClient
      BY <1>7, <2>2
    <3> QED BY <1>8, <2>1, <3>1
  <2>3. CASE "me" \in now
    <3>1. toClient' = Append(toClient, roster)
      BY <1>7, <2>3
    <3>2. Append(toClient, roster) \in Seq(LinesOf(ServerKinds))
      BY <1>6, <1>8
    <3>3. ASSUME NEW d \in Channels, d # c
          PROVE  Extended(toClient, Append(toClient, roster), d, AllAbout)
      <4>1. roster \in LinesOf(ServerKinds) /\ roster.channel # d
        BY <1>6, <3>3
      <4>2. Extended(toClient, toClient, d, AllAbout)
        BY <2>1
      <4> QED BY ONLY <4>1, <4>2, ExtendedMore
    <3> QED BY <2>3, <3>1, <3>2, <3>3
  <2> QED BY <2>2, <2>3
<1>10. \A d \in Channels : d # c => Elsewhere(d)
  BY <1>1, <1>5, <1>9 DEF Elsewhere, ServerSame
<1>11. CASE "me" \notin now
  <2>1. "me" \notin nowOps /\ "me" \notin members[c] /\ "me" \notin ops[c]
    BY <1>1, <1>8, <1>11
  <2>2. Elsewhere(c)
    BY <1>1, <1>3, <1>4, <1>8, <1>9, <1>11, <2>1 DEF Elsewhere, ServerSame, One
  <2> QED BY <1>1, <1>2, <1>9, <1>10, <2>2 DEF ServerShape
<1>12. CASE "me" \in now
  <2>1. toClient' = Append(toClient, roster)
    BY <1>7, <1>12
  <2>2. /\ \A i \in 1..Len(toClient) : toClient'[i] = toClient[i]
        /\ toClient'[Len(toClient) + 1] = roster
    BY <1>6, <1>8, <2>1
  <2>3. ASSUME NEW kind
        PROVE  /\ kind = "names" => About(toClient', c, kind)
                                       = About(toClient, c, kind) \cup {Len(toClient) + 1}
               /\ kind # "names" => About(toClient', c, kind) = About(toClient, c, kind)
    <3>1. /\ kind = "names" => About(Append(toClient, roster), c, kind)
                                  = About(toClient, c, kind) \cup {Len(toClient) + 1}
          /\ kind # "names" => About(Append(toClient, roster), c, kind) = About(toClient, c, kind)
      <4>1. roster \in LinesOf(ServerKinds) /\ toClient \in Seq(LinesOf(ServerKinds))
        BY <1>6, <1>8
      <4>2. roster.kind = "names" /\ roster.channel = c
        BY <1>6
      <4> QED BY <4>1, <4>2, AboutAppend, Z3
    <3> QED BY <2>1, <3>1, Zenon
  <2>4. /\ Joinings(c)' = Joinings(c) /\ Partings(c)' = Partings(c)
        /\ About(toClient', c, "refused") = About(toClient, c, "refused")
        /\ Rosters(c)' = Rosters(c) \cup {Len(toClient) + 1}
    BY <2>3 DEF Joinings, Partings, Rosters
  <2>5. Announced(c)
    BY <1>1, <1>3, <1>4, <1>6, <1>12, <2>2, <2>4 DEF Announced
  <2> QED BY <1>1, <1>2, <1>9, <1>10, <2>5 DEF ServerShape
<1> QED BY <1>11, <1>12

LEMMA OthersReshuffle ==
  ASSUME Shape, NEW c \in Channels, OtherJoins(c) \/ OtherLeaves(c) \/ GiveOrTakeOp(c)
  PROVE  /\ \E now, nowOps : Reshuffles(c, now, nowOps)
         /\ acts' \in 0..MaxActs /\ UNCHANGED <<known, told>>
<1>1. /\ members[c] \in SUBSET People /\ ops[c] \in SUBSET members[c]
      /\ credit \in [Channels -> Int] /\ credit[c] \in Int /\ acts \in 0..MaxActs
  BY DEF Shape
<1>2. /\ acts < MaxActs /\ acts' = acts + 1
      /\ UNCHANGED <<channel, known, told, toServer, left>>
  BY DEF OtherJoins, OtherLeaves, GiveOrTakeOp, Others, Act, clientVars
<1>3. acts' \in 0..MaxActs
  BY <1>1, <1>2, OpRegainAssumption
<1>4. ASSUME NEW now, NEW nowOps, RosterChanges(c, now, nowOps), credit' = credit,
             now \subseteq People, nowOps \subseteq now,
             "me" \in now <=> "me" \in members[c],
             "me" \in nowOps <=> "me" \in ops[c]
      PROVE  Reshuffles(c, now, nowOps)
  BY <1>1, <1>2, <1>4 DEF Reshuffles, One
<1>5. CASE OtherJoins(c)
  <2>1. PICK op \in SUBSET {"other"} :
           RosterChanges(c, members[c] \cup {"other"}, ops[c] \cup op) /\ credit' = credit
    BY <1>5 DEF OtherJoins
  <2>2. Reshuffles(c, members[c] \cup {"other"}, ops[c] \cup op)
    <3>1. /\ members[c] \cup {"other"} \subseteq People
          /\ ops[c] \cup op \subseteq members[c] \cup {"other"}
          /\ "me" \in members[c] \cup {"other"} <=> "me" \in members[c]
          /\ "me" \in ops[c] \cup op <=> "me" \in ops[c]
      BY <1>1 DEF People
    <3> QED BY <1>4, <2>1, <3>1
  <2> QED BY <1>2, <1>3, <2>2
<1>6. CASE OtherLeaves(c)
  <2>1. RosterChanges(c, members[c] \ {"other"}, ops[c] \ {"other"}) /\ credit' = credit
    BY <1>6 DEF OtherLeaves
  <2>2. Reshuffles(c, members[c] \ {"other"}, ops[c] \ {"other"})
    <3>1. /\ members[c] \ {"other"} \subseteq People
          /\ ops[c] \ {"other"} \subseteq members[c] \ {"other"}
          /\ "me" \in members[c] \ {"other"} <=> "me" \in members[c]
          /\ "me" \in ops[c] \ {"other"} <=> "me" \in ops[c]
      BY <1>1
    <3> QED BY <1>4, <2>1, <3>1
  <2> QED BY <1>2, <1>3, <2>2
<1>7. CASE GiveOrTakeOp(c)
  <2>1. PICK op \in SUBSET {"me"} :
           /\ op # ops[c] \cap {"me"}
           /\ RosterChanges(c, members[c], (ops[c] \ {"me"}) \cup op)
           /\ credit' = [credit EXCEPT ![c] = @ + Cardinality(op)]
           /\ "me" \in members[c]
    BY <1>7 DEF GiveOrTakeOp
  <2> DEFINE nowOps == (ops[c] \ {"me"}) \cup op
  <2>2. /\ "me" \in nowOps <=> "me" \in op
        /\ nowOps \subseteq members[c]
    BY <1>1, <2>1
  <2>3. Cardinality(op) = One("me" \in nowOps /\ "me" \notin ops[c])
    <3>1. CASE op = {}
      <4>1. Cardinality(op) = 0
        BY <3>1, FS_EmptySet
      <4> QED BY <2>2, <3>1, <4>1 DEF One
    <3>2. CASE op = {"me"}
      <4>1. Cardinality(op) = 1
        BY <3>2, FS_Singleton
      <4>2. "me" \notin ops[c]
        BY <2>1, <3>2
      <4> QED BY <2>2, <3>2, <4>1, <4>2 DEF One
    <3> QED BY <3>1, <3>2
  <2>4. /\ Cardinality(op) \in Int
        /\ credit' \in [Channels -> Int] /\ credit'[c] = credit[c] + Cardinality(op)
        /\ \A d \in Channels : d # c => credit'[d] = credit[d]
    <3>1. Cardinality(op) \in Int
      BY <2>3 DEF One
    <3> QED BY <1>1, <2>1, <3>1
  <2>5. RosterChanges(c, members[c], nowOps)
    BY <2>1
  <2> HIDE DEF nowOps
  <2>6. Reshuffles(c, members[c], nowOps)
    BY <1>1, <1>2, <2>2, <2>3, <2>4, <2>5 DEF Reshuffles
  <2> QED BY <1>2, <1>3, <2>6
<1> QED BY <1>5, <1>6, <1>7

(* We are told the roster as it is now. *)
LEMMA AnnouncedKeeps ==
  ASSUME Shape, NEW c \in Channels, OfChannel(c), Announced(c), channel' = channel,
         RequestsMove(c, 0)
  PROVE  OfChannel(c)'
<1>0. PICK n : n = Len(toClient)
  OBVIOUS
<1>1. /\ Staged(c) /\ InTurn(c) /\ LeftAlone(c) /\ StatusTold(c) /\ Earned(c)
      /\ "me" \in members[c] /\ "me" \in members'[c] /\ left'[c] = left[c]
      /\ credit[c] \in Int
      /\ credit'[c] = credit[c] + One("me" \in ops'[c] /\ "me" \notin ops[c])
  BY DEF OfChannel, Announced, Shape
<1>2. /\ Joinings(c)' = Joinings(c) /\ Partings(c)' = Partings(c)
      /\ Rosters(c)' = Rosters(c) \cup {n + 1} /\ Statuses(c)' = Statuses(c) \cup {n + 1}
      /\ About(toClient', c, "refused") = About(toClient, c, "refused")
      /\ OpIn(n + 1)' <=> "me" \in ops'[c]
  BY <1>0 DEF Announced, Statuses, OpIn
<1>3. /\ n \in Nat
      /\ \A i \in Statuses(c) : i \in Int /\ i < n + 1 /\ toClient'[i] = toClient[i]
      /\ \A i \in Statuses(c) : OpIn(i)' <=> OpIn(i)
  <2>1. \A i \in Statuses(c) : i \in 1..Len(toClient)
    BY LeavesType DEF Statuses
  <2>2. \A i \in Statuses(c) : i \in Int /\ i < n + 1 /\ toClient'[i] = toClient[i]
    BY <1>0, <2>1 DEF Announced
  <2> QED BY <1>0, <2>2, LeavesType DEF OpIn
<1>4. /\ Joinings(c) \subseteq Statuses(c) /\ Rosters(c) \subseteq Statuses(c)
      /\ 0 \notin Leaves(c)
  BY LeavesType DEF Statuses
<1>5. Staged(c)'
  BY <1>1 DEF Staged
<1>6. Leaves(c)' = {} <=> Leaves(c) = {}
  BY <1>4 DEF RequestsMove, Moved
<1>7. InTurn(c)'
  BY <1>1, <1>2, <1>6 DEF InTurn, Joining
<1>8. LeftAlone(c)'
  <2>1. /\ left[c] /\ "me" \in members'[c] => Leaves(c)' # {}
        /\ Leaves(c) # {} /\ channel'[c].tracked => channel'[c].inChannel
    BY <1>1, <1>6 DEF LeftAlone
  <2> QED BY <1>1, <2>1, LeftKeeps
<1>9. \A k, i \in Statuses(c) : Follows(c, k, i)' <=> Follows(c, k, i)
  BY <1>2, <1>3 DEF Follows
<1>10. \A i \in Statuses(c) : First(c, i)' <=> First(c, i)
  BY <1>2, <1>3 DEF First
<1>11. StatusTold(c)'
  <2>1. ASSUME NEW j \in Joinings(c)'
        PROVE  \E k \in Rosters(c)' : toClient'[k].complete /\ Follows(c, j, k)'
    <3>1. PICK k \in Rosters(c) : toClient[k].complete /\ Follows(c, j, k)
      BY <1>1, <1>2 DEF StatusTold
    <3> QED BY <1>2, <1>3, <1>4, <1>9, <3>1
  <2>2. ASSUME channel'[c].inChannel, ~channel'[c].synced
        PROVE  \E k \in Rosters(c)' : toClient'[k].complete /\ First(c, k)'
    <3>1. PICK k \in Rosters(c) : toClient[k].complete /\ First(c, k)
      BY <1>1, <2>2 DEF StatusTold
    <3> QED BY <1>2, <1>3, <1>4, <1>10, <3>1
  <2>3. ASSUME NEW i \in Statuses(c)', \A s \in Statuses(c)' : s <= i
        PROVE  OpIn(i)' <=> "me" \in ops'[c]
    BY <1>2, <1>3, <2>3
  <2> QED BY <1>2, <2>1, <2>2, <2>3 DEF StatusTold
<1>12. Rises(c)' \subseteq Rises(c) \cup {n + 1}
  <2>1. ASSUME NEW i \in Rises(c)', i # n + 1
        PROVE  i \in Rises(c)
    <3>1. i \in Rosters(c) /\ i \in Statuses(c) /\ OpIn(i)
      BY <1>2, <1>3, <1>4, <2>1 DEF Rises
    <3>2. CASE \E k \in Statuses(c)' : ~OpIn(k)' /\ Follows(c, k, i)'
      <4>1. PICK k \in Statuses(c)' : ~OpIn(k)' /\ Follows(c, k, i)'
        BY <3>2
      <4>2. k \in Statuses(c)
        BY <1>2, <1>3, <3>1, <4>1 DEF Follows
      <4> QED BY <1>3, <1>9, <3>1, <4>1, <4>2 DEF Rises
    <3>3. CASE First(c, i)' /\ channel'[c].inChannel /\ ~channel'[c].op
      BY <1>10, <3>1, <3>3 DEF Rises
    <3> QED BY <2>1, <3>2, <3>3 DEF Rises
  <2> QED BY <2>1
<1>13. n + 1 \in Rises(c)' => "me" \in ops'[c] /\ "me" \notin ops[c]
  <2> SUFFICES ASSUME n + 1 \in Rises(c)'
               PROVE  "me" \in ops'[c] /\ "me" \notin ops[c]
    OBVIOUS
  <2>1. "me" \in ops'[c]
    BY <1>2 DEF Rises
  <2>2. CASE \E k \in Statuses(c)' : ~OpIn(k)' /\ Follows(c, k, n + 1)'
    <3>1. PICK k \in Statuses(c)' : ~OpIn(k)' /\ Follows(c, k, n + 1)'
      BY <2>2
    <3>2. k \in Statuses(c) /\ \A s \in Statuses(c) : s <= k
      BY <1>2, <1>3, <3>1 DEF Follows
    <3>3. OpIn(k) <=> "me" \in ops[c]
      BY <1>1, <3>2 DEF StatusTold
    <3> QED BY <1>3, <2>1, <3>1, <3>2, <3>3
  <2>3. CASE First(c, n + 1)' /\ channel'[c].inChannel /\ ~channel'[c].op
    <3>1. Statuses(c) = {}
      BY <1>2, <1>3, <2>3 DEF First
    <3>2. channel[c].op <=> "me" \in ops[c]
      BY <1>1, <2>3, <3>1 DEF StatusTold
    <3> QED BY <2>1, <2>3, <3>2
  <2> QED BY <2>2, <2>3 DEF Rises
<1>14. Earned(c)'
  <2>1. /\ Cardinality(Rises(c)') \in Nat /\ Cardinality(Rises(c)) \in Nat
        /\ Cardinality(Rises(c)')
             <= Cardinality(Rises(c)) + One("me" \in ops'[c] /\ "me" \notin ops[c])
    <3>1. Rises(c) \in SUBSET (1..n) /\ n \in Nat
      BY <1>0, LeavesType
    <3>2. CASE n + 1 \notin Rises(c)'
      <4>1. PICK z \in Int : z = 0
        OBVIOUS
      <4>2. \A i \in Rises(c)' : i \in Int /\ i + z \in Rises(c)
        BY <1>12, <3>1, <3>2, <4>1
      <4>3. /\ Cardinality(Rises(c)') \in Nat /\ Cardinality(Rises(c)) \in Nat
            /\ Cardinality(Rises(c)') <= Cardinality(Rises(c))
        BY <3>1, <4>2, FewerLines
      <4> QED BY <4>3 DEF One
    <3>3. CASE n + 1 \in Rises(c)'
      <4>1. /\ Cardinality(Rises(c) \cup {n + 1}) \in Nat /\ Cardinality(Rises(c)) \in Nat
            /\ Cardinality(Rises(c) \cup {n + 1}) <= Cardinality(Rises(c)) + 1
        BY <3>1, MoreLines
      <4>2. IsFiniteSet(Rises(c) \cup {n + 1})
        BY <3>1, FewAreFinite, FS_AddElement
      <4>3. /\ Cardinality(Rises(c)') <= Cardinality(Rises(c) \cup {n + 1})
            /\ Cardinality(Rises(c)') \in Nat
        BY <1>12, <4>2, FS_Subset, FS_CardinalityType
      <4> QED BY <1>13, <3>3, <4>1, <4>3 DEF One
    <3> QED BY <3>2, <3>3
  <2>2. /\ Cardinality(Joins(c)') \in Nat /\ Cardinality(Joins(c)) \in Nat
        /\ Cardinality(Joins(c)') <= Cardinality(Joins(c))
    BY JoinsKeep
  <2>3. /\ Joining(c)' <=> Joining(c)
        /\ Twice(c)' <=> Twice(c)
        /\ Awaiting(c)' <=> Awaiting(c)
    BY <1>2 DEF Joining, Twice, Awaiting
  <2>4. /\ Rest(c)' \in Int /\ Rest(c) \in Int
        /\ Rest(c)' + Cardinality(Joins(c)') <= Rest(c) + Cardinality(Joins(c))
    BY <1>2, <1>6, <2>2, <2>3 DEF Rest, One
  <2> QED BY <1>1, <2>1, <2>2, <2>4 DEF Earned, One
<1> QED BY <1>5, <1>7, <1>8, <1>11, <1>14 DEF OfChannel

(* Nothing of the channel changes. *)
LEMMA ElsewhereKeeps ==
  ASSUME Shape, NEW c \in Channels, OfChannel(c), Elsewhere(c), channel'[c] = channel[c],
         RequestsMove(c, 0)
  PROVE  OfChannel(c)'
<1>1. Calm(c)
  BY SameIsCalm
<1> QED BY <1>1, ElsewhereIs, CalmKeeps

LEMMA OthersKeep ==
  ASSUME Shape, NEW c \in Channels, NEW d \in Channels,
         OtherJoins(d) \/ OtherLeaves(d) \/ GiveOrTakeOp(d), OfChannel(c)
  PROVE  OfChannel(c)'
<1>1. PICK now, nowOps : Reshuffles(d, now, nowOps)
  BY OthersReshuffle
<1>2. channel' = channel /\ toServer' = toServer
  BY <1>1 DEF Reshuffles
<1>3. RequestsMove(c, 0)
  BY <1>2, ServerStays
<1>4. Announced(c) \/ Elsewhere(c)
  BY <1>1, ReshufflesIs
<1> QED BY <1>2, <1>3, <1>4, AnnouncedKeeps, ElsewhereKeeps

LEMMA KickIs ==
  ASSUME Shape, NEW d \in Channels, OtherKicks(d)
  PROVE  /\ Removes(d) /\ acts' \in 0..MaxActs
         /\ UNCHANGED <<channel, known, told, toServer, left>>
<1>1. acts \in 0..MaxActs
  BY DEF Shape
<1> QED BY <1>1, OpRegainAssumption DEF OtherKicks, Others, Act, clientVars, Removes

LEMMA KickKeeps ==
  ASSUME Shape, NEW c \in Channels, NEW d \in Channels, OtherKicks(d), OfChannel(c)
  PROVE  OfChannel(c)'
<1>1. Removes(d) /\ UNCHANGED <<channel, toServer, left>>
  BY KickIs
<1>2. RequestsMove(c, 0)
  BY <1>1, ServerStays
<1>3. PutOut(d) /\ (d # c => Elsewhere(c))
  BY <1>1, PutOutIs
<1> QED BY <1>1, <1>2, <1>3, PutOutKeeps, ElsewhereKeeps

-----------------------------------------------------------------------------
(* The user. *)

(* A line of the user is about its channel alone. *)
LEMMA OthersStay ==
  ASSUME Shape, NEW e \in LinesOf(ClientKinds), toServer' = Append(toServer, e),
         NEW c \in Channels, e.channel # c
  PROVE  RequestsMove(c, 0)
<1>1. toServer \in Seq(LinesOf(ClientKinds))
  BY DEF Shape
<1>2. /\ \A kind : About(Append(toServer, e), c, kind) = About(toServer, c, kind)
      /\ \A i \in 1..Len(toServer) : Append(toServer, e)[i] = toServer[i]
  BY <1>1, AboutAppend
<1>3. /\ About(toServer', c, "join") = About(toServer, c, "join")
      /\ About(toServer', c, "part") = About(toServer, c, "part")
      /\ \A i \in 1..Len(toServer) : toServer'[i] = toServer[i]
  BY <1>2
<1>4. \A i \in About(toServer, c, "part") : i \in 1..Len(toServer)
  BY <1>1, AboutType
<1>5. Leaves(c)' = Leaves(c)
  BY <1>3, <1>4 DEF Leaves
<1>6. /\ \A i \in About(toServer, c, "join") : i \in Int /\ 1 <= i /\ i + 0 = i
      /\ \A i \in Leaves(c) : i \in Int /\ 1 <= i /\ i + 0 = i /\ i - 0 = i
  BY LeavesType
<1> QED BY <1>3, <1>5, <1>6 DEF RequestsMove, Moved

LEMMA UserLineIs ==
  ASSUME Shape, NEW e \in LinesOf(ClientKinds), toServer' = Append(toServer, e),
         NEW c \in Channels, e.channel = c
  PROVE  /\ e.kind = "join" =>
               /\ Leaves(c)' = Leaves(c) /\ Joins(c)' = Joins(c) \cup {Len(toServer) + 1}
         /\ e.kind = "part" /\ e.user =>
               /\ About(toServer', c, "join") = About(toServer, c, "join")
               /\ Len(toServer) + 1 \in Leaves(c)' /\ Joins(c)' = {}
<1>1. toServer \in Seq(LinesOf(ClientKinds))
  BY DEF Shape
<1>0. PICK n : n = Len(toServer)
  OBVIOUS
<1>2. /\ n \in Nat /\ About(toServer, c, "join") \subseteq 1..n
      /\ About(toServer, c, "part") \subseteq 1..n /\ Leaves(c) \subseteq 1..n
  BY <1>0, <1>1, AboutType DEF Leaves
<1>3. /\ \A i \in 1..n : toServer'[i] = toServer[i]
      /\ toServer'[n + 1] = e
  BY <1>0, <1>1
<1>4. CASE e.kind = "join"
  <2>1. /\ About(Append(toServer, e), c, "join") = About(toServer, c, "join") \cup {Len(toServer) + 1}
        /\ About(Append(toServer, e), c, "part") = About(toServer, c, "part")
    BY <1>1, <1>4, AboutAppend, Z3
  <2>2. /\ About(toServer', c, "join") = About(toServer, c, "join") \cup {n + 1}
        /\ About(toServer', c, "part") = About(toServer, c, "part")
    BY <1>0, <2>1
  <2>3. Leaves(c)' = Leaves(c)
    BY <1>2, <1>3, <2>2 DEF Leaves
  <2>4. \A l \in Leaves(c) : l < n + 1
    BY <1>2
  <2>5. Joins(c)' = Joins(c) \cup {n + 1}
    BY <2>2, <2>3, <2>4 DEF Joins
  <2> QED BY <1>0, <1>4, <2>3, <2>5
<1>5. CASE e.kind = "part" /\ e.user
  <2>1. /\ About(Append(toServer, e), c, "part") = About(toServer, c, "part") \cup {Len(toServer) + 1}
        /\ About(Append(toServer, e), c, "join") = About(toServer, c, "join")
    BY <1>1, <1>5, AboutAppend, Z3
  <2>2. /\ About(toServer', c, "part") = About(toServer, c, "part") \cup {n + 1}
        /\ About(toServer', c, "join") = About(toServer, c, "join")
    BY <1>0, <2>1
  <2>3. n + 1 \in Leaves(c)'
    BY <1>3, <1>5, <2>2 DEF Leaves
  <2>4. \A i \in About(toServer', c, "join") : ~(n + 1 < i)
    BY <1>2, <2>2
  <2>5. Joins(c)' = {}
    BY <2>3, <2>4 DEF Joins
  <2> QED BY <1>0, <1>5, <2>2, <2>3, <2>5
<1> QED BY <1>4, <1>5

LEMMA UserJoinIs ==
  ASSUME Shape, NEW d \in Channels, UserJoin(d)
  PROVE  /\ \E e \in LinesOf(ClientKinds) :
               /\ toServer' = Append(toServer, e)
               /\ e.kind = "join" /\ e.channel = d
         /\ toServer' \in Seq(LinesOf(ClientKinds)) /\ acts' \in 0..MaxActs
         /\ left' \in [Channels -> BOOLEAN] /\ credit' \in [Channels -> Int]
         /\ ~left'[d] /\ credit'[d] = credit[d] + 1
         /\ \A c \in Channels : c # d => left'[c] = left[c] /\ credit'[c] = credit[c]
         /\ UNCHANGED <<channel, known, told, toClient, members, ops, flags, topic>>
<1>1. /\ acts \in 0..MaxActs /\ toServer \in Seq(LinesOf(ClientKinds))
      /\ left \in [Channels -> BOOLEAN] /\ credit \in [Channels -> Int]
  BY DEF Shape
<1>2. /\ toServer' = Append(toServer, Line("join", d)) /\ acts < MaxActs /\ acts' = acts + 1
      /\ left' = [left EXCEPT ![d] = FALSE]
      /\ credit' = [credit EXCEPT ![d] = @ + 1]
      /\ UNCHANGED <<channel, known, told, toClient, members, ops, flags, topic>>
  BY DEF UserJoin, Act, clientVars, serverVars
<1>3. /\ Line("join", d) \in LinesOf(ClientKinds)
      /\ Line("join", d).kind = "join" /\ Line("join", d).channel = d
  BY LineIs
<1>4. toServer' \in Seq(LinesOf(ClientKinds))
  BY <1>1, <1>2, <1>3
<1>5. acts' \in 0..MaxActs
  BY <1>1, <1>2, OpRegainAssumption
<1>6. /\ left' \in [Channels -> BOOLEAN] /\ credit' \in [Channels -> Int]
      /\ ~left'[d] /\ credit'[d] = credit[d] + 1
      /\ \A c \in Channels : c # d => left'[c] = left[c] /\ credit'[c] = credit[c]
  BY <1>1, <1>2
<1> QED BY <1>2, <1>3, <1>4, <1>5, <1>6

LEMMA UserPartIs ==
  ASSUME Shape, NEW d \in Channels, UserPart(d)
  PROVE  /\ \E e \in LinesOf(ClientKinds) :
               /\ toServer' = Append(toServer, e)
               /\ e.kind = "part" /\ e.user /\ e.channel = d
         /\ toServer' \in Seq(LinesOf(ClientKinds)) /\ acts' \in 0..MaxActs
         /\ left' \in [Channels -> BOOLEAN] /\ left'[d]
         /\ \A c \in Channels : c # d => left'[c] = left[c] /\ channel'[c] = channel[c]
         /\ channel' \in [Channels -> Tracking] /\ channel'[d] = Untracked
         /\ told' \in [Channels -> Results \cup {"none", "rejoining"}]
         /\ UNCHANGED <<known, toClient, members, ops, flags, topic, credit>>
<1>1. /\ acts \in 0..MaxActs /\ toServer \in Seq(LinesOf(ClientKinds))
      /\ left \in [Channels -> BOOLEAN] /\ channel \in [Channels -> Tracking]
      /\ told \in [Channels -> Results \cup {"none", "rejoining"}]
  BY DEF Shape
<1> DEFINE e == [Line("part", d) EXCEPT !.user = TRUE]
<1>2. /\ toServer' = Append(toServer, e) /\ acts < MaxActs /\ acts' = acts + 1
      /\ left' = [left EXCEPT ![d] = TRUE] /\ channel' = [channel EXCEPT ![d] = Untracked]
      /\ told' = [told EXCEPT ![d] = "none"]
      /\ UNCHANGED <<known, toClient, members, ops, flags, topic, credit>>
  BY DEF UserPart, Leaving, Act, clientVars, serverVars
<1>3. e \in LinesOf(ClientKinds) /\ e.kind = "part" /\ e.user /\ e.channel = d
  <2>1. Line("part", d) \in LinesOf(ClientKinds) /\ Line("part", d).kind = "part"
        /\ Line("part", d).channel = d
    BY DEF Line, LinesOf, Topics, ClientKinds
  <2> QED BY <2>1 DEF LinesOf
<1> HIDE DEF e
<1>4. toServer' \in Seq(LinesOf(ClientKinds))
  BY <1>1, <1>2, <1>3
<1>5. acts' \in 0..MaxActs
  BY <1>1, <1>2, OpRegainAssumption
<1>6. /\ left' \in [Channels -> BOOLEAN] /\ left'[d]
      /\ \A c \in Channels : c # d => left'[c] = left[c] /\ channel'[c] = channel[c]
      /\ channel'[d] = Untracked
      /\ told' \in [Channels -> Results \cup {"none", "rejoining"}]
  BY <1>1, <1>2
<1>7. channel' \in [Channels -> Tracking]
  BY <1>1, <1>2, UntrackedIs
<1> QED BY <1>2, <1>3, <1>4, <1>5, <1>6, <1>7

(* The user acts in another channel. *)
LEMMA UserElsewhereKeeps ==
  ASSUME Shape, NEW c \in Channels, NEW d \in Channels, d # c, UserJoin(d) \/ UserPart(d),
         OfChannel(c)
  PROVE  OfChannel(c)'
<1>1. /\ toClient' = toClient /\ members' = members /\ ops' = ops /\ left'[c] = left[c]
      /\ channel'[c] = channel[c] /\ credit'[c] = credit[c]
  BY UserJoinIs, UserPartIs
<1>2. PICK e \in LinesOf(ClientKinds) : toServer' = Append(toServer, e) /\ e.channel = d
  BY UserJoinIs, UserPartIs
<1>3. RequestsMove(c, 0)
  BY <1>2, OthersStay
<1>4. toClient \in Seq(LinesOf(ServerKinds))
  BY DEF Shape
<1>5. Elsewhere(c)
  BY <1>1, <1>4, ExtendedSame DEF Elsewhere, ServerSame
<1> QED BY <1>1, <1>3, <1>5, ElsewhereKeeps

LEMMA UserJoinKeeps ==
  ASSUME Shape, NEW c \in Channels, UserJoin(c), OfChannel(c)
  PROVE  OfChannel(c)'
<1>1. /\ UNCHANGED <<channel, toClient, members, ops>>
      /\ ~left'[c] /\ credit'[c] = credit[c] + 1 /\ credit[c] \in Int
  BY UserJoinIs DEF Shape
<1>0. PICK n : n = Len(toServer)
  OBVIOUS
<1>2. Leaves(c)' = Leaves(c) /\ Joins(c)' = Joins(c) \cup {n + 1}
  BY <1>0, UserJoinIs, UserLineIs
<1>3. Staged(c) /\ InTurn(c) /\ LeftAlone(c) /\ StatusTold(c) /\ Earned(c)
  BY DEF OfChannel
<1>4. /\ Joinings(c)' = Joinings(c) /\ Partings(c)' = Partings(c) /\ Rosters(c)' = Rosters(c)
      /\ Rises(c)' = Rises(c) /\ Statuses(c)' = Statuses(c)
      /\ About(toClient', c, "refused") = About(toClient, c, "refused")
  BY <1>1 DEF Joinings, Partings, Rosters, Rises, Statuses, About, OpIn, Follows, First
<1>5. Staged(c)' /\ StatusTold(c)'
  BY <1>1, <1>3 DEF Staged, StatusTold, Statuses, Joinings, Rosters, About, Follows, First, OpIn
<1>6. InTurn(c)'
  BY <1>1, <1>2, <1>3, <1>4 DEF InTurn, Joining
<1>7. LeftAlone(c)'
  BY <1>1, <1>2, <1>3 DEF LeftAlone
<1>8. Earned(c)'
  <2>1. Joins(c) \in SUBSET (1..n) /\ n \in Nat
    BY <1>0, LeavesType
  <2>2. /\ Cardinality(Joins(c)') \in Nat /\ Cardinality(Joins(c)) \in Nat
        /\ Cardinality(Joins(c)') <= Cardinality(Joins(c)) + 1
    BY <1>2, <2>1, MoreLines
  <2>3. Cardinality(Joins(c)) <= Cardinality(Joins(c)')
    <3>1. Joins(c) \cup {n + 1} \in SUBSET (1..(n + 1)) /\ n + 1 \in Nat
      BY <2>1
    <3>2. PICK z \in Int : z = 0
      OBVIOUS
    <3>3. \A i \in Joins(c) : i \in Int /\ i + z \in Joins(c) \cup {n + 1}
      BY <2>1, <3>2
    <3> QED BY <1>2, <3>1, <3>3, FewerLines
  <2>4. /\ Joining(c)' <=> Joining(c)
        /\ Twice(c)' <=> Twice(c)
        /\ Awaiting(c)' <=> Awaiting(c)
    BY <1>1, <1>4 DEF Joining, Twice, Awaiting
  <2>5. Rest(c)' \in Int /\ Rest(c) \in Int /\ Rest(c)' <= Rest(c)
    BY <1>1, <1>2, <1>4, <2>2, <2>3, <2>4 DEF Rest, One
  <2>6. Cardinality(Rises(c)) \in Nat
    BY LeavesType, FewAreFinite
  <2> QED BY <1>1, <1>3, <1>4, <2>2, <2>5, <2>6 DEF Earned
<1> QED BY <1>5, <1>6, <1>7, <1>8 DEF OfChannel

LEMMA UserPartKeeps ==
  ASSUME Shape, NEW c \in Channels, UserPart(c), OfChannel(c)
  PROVE  OfChannel(c)'
<1>1. /\ UNCHANGED <<toClient, members, ops>>
      /\ left'[c] /\ credit'[c] = credit[c] /\ credit[c] \in Int /\ channel'[c] = Untracked
  BY UserPartIs DEF Shape
<1>0. PICK n : n = Len(toServer)
  OBVIOUS
<1>2. /\ About(toServer', c, "join") = About(toServer, c, "join")
      /\ n + 1 \in Leaves(c)' /\ Joins(c)' = {}
  BY <1>0, UserPartIs, UserLineIs
<1>3. Staged(c) /\ InTurn(c) /\ LeftAlone(c) /\ StatusTold(c) /\ Earned(c)
  BY DEF OfChannel
<1>4. /\ Joinings(c)' = Joinings(c) /\ Partings(c)' = Partings(c) /\ Rosters(c)' = Rosters(c)
      /\ Statuses(c)' = Statuses(c) /\ \A i : OpIn(i)' <=> OpIn(i)
      /\ About(toClient', c, "refused") = About(toClient, c, "refused")
  BY <1>1 DEF Joinings, Partings, Rosters, Statuses, About, OpIn
<1>5. /\ ~channel'[c].tracked /\ ~channel'[c].tried /\ ~channel'[c].inChannel
      /\ channel'[c].stage = "watching" /\ ~channel'[c].joined
  BY <1>1, UntrackedIs
<1>6. Staged(c)'
  BY <1>1, <1>5 DEF Staged
<1>7. InTurn(c)'
  BY <1>1, <1>2, <1>3, <1>4, <1>5 DEF InTurn, Joining
<1>8. LeftAlone(c)'
  <2>1. \A i \in About(toServer', c, "join") : i < n + 1
    BY <1>0, <1>2, LeavesType
  <2> QED BY <1>2, <1>5, <2>1 DEF LeftAlone
<1>9. StatusTold(c)'
  BY <1>1, <1>3, <1>4, <1>5 DEF StatusTold, Follows, First
<1>10. Earned(c)'
  <2>1. Rises(c)' \subseteq Rises(c)
    BY <1>4, <1>5 DEF Rises, Follows
  <2>2. Rises(c) \in SUBSET (1..Len(toClient)) /\ Len(toClient) \in Nat
    BY LeavesType
  <2>3. /\ Cardinality(Rises(c)') \in Nat /\ Cardinality(Rises(c)) \in Nat
        /\ Cardinality(Rises(c)') <= Cardinality(Rises(c))
    <3>1. PICK z \in Int : z = 0
      OBVIOUS
    <3>2. \A i \in Rises(c)' : i \in Int /\ i + z \in Rises(c)
      BY <2>1, <2>2, <3>1
    <3> QED BY <2>2, <3>2, FewerLines
  <2>4. Cardinality(Joins(c)') = 0
    BY <1>2, FS_EmptySet
  <2>5. Cardinality(Joins(c)) \in Nat
    BY LeavesType, FewAreFinite
  <2>6. Rest(c)' = 0
    BY <1>2 DEF Rest
  <2>7. Rest(c) \in Int /\ Rest(c) + Cardinality(Joins(c)) >= 0
    BY <2>5 DEF Rest, One
  <2> QED BY <1>1, <1>3, <2>3, <2>4, <2>5, <2>6, <2>7 DEF Earned
<1> QED BY <1>6, <1>7, <1>8, <1>9, <1>10 DEF OfChannel

-----------------------------------------------------------------------------
(* The timers. *)

LEMMA PollRequests ==
  ASSUME Shape, NEW d \in Channels, PollWith(d)
  PROVE  /\ toServer' \in Seq(LinesOf(ClientKinds))
         /\ \A c \in Channels : RequestsMove(c, 0)
<1>1. PICK s \in Seq(LinesOf({"part"})) :
         toServer' = toServer \o s /\ \A i \in DOMAIN s : ~s[i].user
  BY PollIs
<1>2. LinesOf({"part"}) \subseteq LinesOf(ClientKinds)
  BY DEF LinesOf, ClientKinds
<1>3. s \in Seq(LinesOf(ClientKinds))
  BY <1>2
<1>4. \A i \in DOMAIN s : s[i].kind = "part"
  <2>1. \A i \in DOMAIN s : s[i] \in LinesOf({"part"})
    OBVIOUS
  <2> QED BY <2>1 DEF LinesOf
<1>5. \A c \in Channels : About(s, c, "join") = {}
  BY <1>4 DEF About
<1>6. toServer \in Seq(LinesOf(ClientKinds))
  BY DEF Shape
<1>7. toServer' \in Seq(LinesOf(ClientKinds))
  BY <1>1, <1>3, <1>6
<1> QED BY <1>1, <1>3, <1>5, <1>7, ServerGets

(* An attempt begins with nothing of the channel on its way that could put *)
(* us out of it, and takes what the channel had earned.                    *)
LEMMA AttemptKeeps ==
  ASSUME Shape, ~SlowServer, NEW d \in Channels, PollWith(d), NEW c \in Channels, OfChannel(c),
         channel[c].stage = "settling", Qualifies(c), Passes(c),
         credit'[c] = credit[c] - 1,
         channel'[c].tried, channel'[c].stage = "attempt",
         ~channel'[c].parted, ~channel'[c].joined
  PROVE  OfChannel(c)'
<1>1. /\ Staged(c) /\ InTurn(c) /\ LeftAlone(c) /\ StatusTold(c) /\ Earned(c)
      /\ credit[c] \in Int
  BY DEF OfChannel, Shape
<1>2. ~channel[c].tried /\ ~channel[c].op /\ channel[c].synced /\ channel[c].inChannel
  BY DEF Qualifies
<1>3. Leaves(c) = {} /\ Partings(c) = {}
  BY DEF Passes, Leaves, Partings, About
<1>4. /\ toClient' = toClient /\ members' = members /\ ops' = ops /\ left' = left
      /\ channel'[c].tracked = channel[c].tracked
      /\ channel'[c].inChannel = channel[c].inChannel
      /\ channel'[c].synced = channel[c].synced /\ channel'[c].op = channel[c].op
  BY PollIs
<1>5. RequestsMove(c, 0) /\ TurnsMove(c, 0) /\ RostersMove(c, 0)
  BY <1>4, PollRequests, ClientStays
<1>6. 0 \notin Partings(c) /\ 0 \notin Joinings(c) /\ 0 \notin Statuses(c) /\ 0 \notin Leaves(c)
  BY LeavesType DEF Statuses
<1>7. ~left[c]
  BY <1>1, <1>2, <1>3 DEF LeftAlone, InTurn
<1>8. Leaves(c)' = {} /\ Partings(c)' = {}
  BY <1>3, <1>4, <1>5 DEF RequestsMove, Moved, Partings, About
<1>9. Staged(c)'
  <2>1. channel[c].tracked
    BY <1>1, <1>2, UntrackedIs DEF Staged
  <2> QED BY <1>2, <1>4, <2>1 DEF Staged
<1>10. InTurn(c)'
  BY <1>1, <1>3, <1>4, <1>5, <1>6, TurnsKeep
<1>11. LeftAlone(c)'
  BY <1>4, <1>7, <1>8 DEF LeftAlone
<1>12. StatusTold(c)'
  BY <1>1, <1>4, <1>5, <1>6, ToldKeeps
<1>13. Earned(c)'
  <2>1. /\ Cardinality(Rises(c)') \in Nat /\ Cardinality(Rises(c)) \in Nat
        /\ Cardinality(Rises(c)') <= Cardinality(Rises(c))
    BY <1>4, <1>5, <1>6, RisesKeep
  <2>2. /\ Cardinality(Joins(c)') \in Nat /\ Cardinality(Joins(c)) \in Nat
        /\ Cardinality(Joins(c)') <= Cardinality(Joins(c))
    BY <1>5, JoinsKeep
  <2>3. Rest(c) = 1 /\ Rest(c)' = 0
    BY <1>2, <1>3, <1>4, <1>8 DEF Rest, One
  <2> QED BY <1>1, <2>1, <2>2, <2>3 DEF Earned
<1> QED BY <1>9, <1>10, <1>11, <1>12, <1>13 DEF OfChannel

LEMMA PollKeeps ==
  ASSUME Shape, ~SlowServer, NEW d \in Channels, PollWith(d), NEW c \in Channels, OfChannel(c)
  PROVE  OfChannel(c)'
<1>1. CASE /\ credit'[c] = credit[c] - 1
           /\ channel[c].stage = "settling" /\ Qualifies(c) /\ Passes(c)
           /\ channel'[c].tried /\ channel'[c].stage = "attempt"
           /\ ~channel'[c].parted /\ ~channel'[c].joined
  BY <1>1, AttemptKeeps
<1>2. CASE /\ credit'[c] = credit[c]
           /\ channel'[c].stage = channel[c].stage \/ channel'[c].stage # "attempt"
           /\ channel'[c].tried = channel[c].tried \/ (channel'[c].tried /\ ~channel[c].op)
           /\ channel'[c].parted = channel[c].parted
           /\ channel'[c].joined = channel[c].joined
  <2>1. /\ toClient' = toClient /\ members' = members /\ ops' = ops /\ left' = left
        /\ channel'[c].tracked = channel[c].tracked
        /\ channel'[c].inChannel = channel[c].inChannel
        /\ channel'[c].synced = channel[c].synced /\ channel'[c].op = channel[c].op
        /\ channel'[c] # channel[c] => channel[c].inChannel \/ channel[c].stage # "watching"
    BY PollIs
  <2>2. ~channel[c].tracked => channel'[c] = channel[c]
    BY <2>1, UntrackedIs DEF OfChannel, Staged
  <2>3. Calm(c)
    BY <1>2, <2>1, <2>2 DEF Calm
  <2>4. RequestsMove(c, 0) /\ TurnsMove(c, 0) /\ RostersMove(c, 0) /\ ServerSame(c)
    BY <2>1, PollRequests, ClientStays DEF ServerSame
  <2>5. 0 \notin Partings(c) /\ 0 \notin Statuses(c) /\ 0 \notin Leaves(c)
        /\ credit[c] \in Int /\ credit'[c] \in Int /\ credit'[c] >= credit[c]
    BY <1>2, LeavesType DEF Statuses, Shape
  <2> QED BY <2>3, <2>4, <2>5, CalmKeeps
<1> QED BY <1>1, <1>2, PollIs

-----------------------------------------------------------------------------
(* The types. *)

LEMMA ReceiveTypes ==
  ASSUME Shape, Receive
  PROVE  Shape'
<1> DEFINE line == Head(toClient)
<1>1. /\ line \in LinesOf(ServerKinds) /\ line.channel \in Channels
      /\ toClient' \in Seq(LinesOf(ServerKinds))
      /\ \A c \in Channels : c # line.channel => channel'[c] = channel[c]
      /\ channel' = [c \in Channels |-> channel'[c]]
      /\ UNCHANGED <<members, ops, flags, topic, acts, left, credit, before>>
  BY ReceiveIs
<1>2. ReceiveJoined(line) \/ ReceiveParted(line) \/ ReceiveTopic(line)
        \/ ReceiveModes(line) \/ ReceiveRefused(line) \/ ReceiveNames(line)
  BY DEF Receive
<1> HIDE DEF line
<1>3. channel'[line.channel] \in Tracking
  BY <1>1, <1>2, JoinedIs, PartedIs, OtherLineIs, RefusedIs, NamesIs
<1>4. channel' \in [Channels -> Tracking]
  <2>1. \A c \in Channels : channel'[c] \in Tracking
    BY <1>1, <1>3 DEF Shape
  <2> QED BY <1>1, <2>1
<1>5. known' \in [Channels -> {"unknown", "none", "flags"}]
  BY <1>1, <1>2 DEF Shape, ReceiveJoined, ReceiveParted, ReceiveTopic, ReceiveModes,
                    ReceiveRefused, ReceiveNames
<1>6. told' \in [Channels -> Results \cup {"none", "rejoining"}]
  <2>1. told \in [Channels -> Results \cup {"none", "rejoining"}]
    BY DEF Shape
  <2>2. CASE ReceiveNames(line)
    BY <1>1, <2>1, <2>2 DEF ReceiveNames, Results
  <2>3. CASE ~ReceiveNames(line)
    BY <1>1, <1>2, <2>1, <2>3 DEF ReceiveJoined, ReceiveParted, ReceiveTopic, ReceiveModes,
                                  ReceiveRefused, Results
  <2> QED BY <2>2, <2>3
<1>7. toServer' \in Seq(LinesOf(ClientKinds))
  <2>1. toServer \in Seq(LinesOf(ClientKinds))
    BY DEF Shape
  <2> QED BY <2>1, ReceiveSends
<1> QED BY <1>1, <1>4, <1>5, <1>6, <1>7 DEF Shape

LEMMA ShapeStep ==
  ASSUME Shape, [Next]_vars
  PROVE  Shape'
<1>1. CASE Receive
  BY <1>1, ReceiveTypes
<1>2. CASE Serve
  <2>1. /\ ServerShape' /\ UNCHANGED <<channel, known, told, acts, left>>
        /\ toServer # <<>> /\ toServer' = Tail(toServer)
    BY <1>2, Served, ServeIs
  <2>2. toServer' \in Seq(LinesOf(ClientKinds))
    BY <2>1 DEF Shape
  <2> QED BY <2>1, <2>2 DEF Shape, ServerShape
<1>3. ASSUME NEW d \in Channels, PollWith(d)
      PROVE  Shape'
  <2>1. /\ toServer' \in Seq(LinesOf(ClientKinds))
        /\ UNCHANGED <<known, toClient, members, ops, flags, topic, acts, left>>
        /\ channel' = [c \in Channels |-> channel'[c]]
        /\ credit' = [c \in Channels |-> credit'[c]]
        /\ told' \in [Channels -> Results \cup {"none", "rejoining"}]
        /\ \A c \in Channels : channel'[c] \in Tracking /\ credit'[c] \in Int
    BY <1>3, PollIs, PollRequests
  <2>2. channel' \in [Channels -> Tracking] /\ credit' \in [Channels -> Int]
    BY <2>1
  <2> QED BY <2>1, <2>2 DEF Shape
<1>4. ASSUME NEW d \in Channels, UserJoin(d)
      PROVE  Shape'
  BY <1>4, UserJoinIs DEF Shape
<1>5. ASSUME NEW d \in Channels, UserPart(d)
      PROVE  Shape'
  BY <1>5, UserPartIs DEF Shape
<1>6. ASSUME NEW d \in Channels, OtherJoins(d) \/ OtherLeaves(d) \/ GiveOrTakeOp(d)
      PROVE  Shape'
  <2>1. PICK now, nowOps : Reshuffles(d, now, nowOps)
    BY <1>6, OthersReshuffle
  <2>2. ServerShape' /\ left' = left /\ channel' = channel /\ toServer' = toServer
    BY <2>1, ReshufflesIs DEF Reshuffles
  <2>3. acts' \in 0..MaxActs /\ UNCHANGED <<known, told>>
    BY <1>6, OthersReshuffle
  <2> QED BY <2>2, <2>3 DEF Shape, ServerShape
<1>7. ASSUME NEW d \in Channels, OtherKicks(d)
      PROVE  Shape'
  <2>1. /\ Removes(d) /\ acts' \in 0..MaxActs
        /\ UNCHANGED <<channel, known, told, toServer, left>>
    BY <1>7, KickIs
  <2>2. ServerShape'
    BY <2>1, PutOutIs
  <2> QED BY <2>1, <2>2 DEF Shape, ServerShape
<1>8. CASE UNCHANGED vars
  BY <1>8 DEF vars, clientVars, serverVars, historyVars, Shape
<1> QED BY <1>1, <1>2, <1>3, <1>4, <1>5, <1>6, <1>7, <1>8 DEF Next

LEMMA ShapeInit == Init => Shape
<1> SUFFICES ASSUME Init PROVE Shape
  OBVIOUS
<1>1. /\ channel = [c \in Channels |-> Untracked]
      /\ known = [c \in Channels |-> "unknown"]
      /\ toServer = <<>> /\ toClient = <<>>
      /\ members \in [Channels -> {{}, {"other"}}] /\ ops = members
      /\ topic \in [Channels -> Topics]
      /\ flags = [c \in Channels |-> members[c] # {}]
      /\ acts = 0 /\ told = [c \in Channels |-> "none"]
      /\ left = [c \in Channels |-> TRUE] /\ credit = [c \in Channels |-> 0]
  BY DEF Init
<1>2. channel \in [Channels -> Tracking]
  BY <1>1, UntrackedIs
<1>3. members \in [Channels -> SUBSET People] /\ ops \in [Channels -> SUBSET People]
      /\ \A c \in Channels : ops[c] \subseteq members[c]
  BY <1>1 DEF People
<1>4. flags \in [Channels -> BOOLEAN]
  <2>1. \A c \in Channels : (members[c] # {}) \in BOOLEAN
    BY Zenon
  <2> QED BY <1>1, <2>1
<1>5. /\ known \in [Channels -> {"unknown", "none", "flags"}]
      /\ told \in [Channels -> Results \cup {"none", "rejoining"}]
      /\ left \in [Channels -> BOOLEAN] /\ credit \in [Channels -> Int]
      /\ acts \in 0..MaxActs
  BY <1>1, OpRegainAssumption
<1>6. toServer \in Seq(LinesOf(ClientKinds)) /\ toClient \in Seq(LinesOf(ServerKinds))
  BY <1>1
<1> QED BY <1>1, <1>2, <1>3, <1>4, <1>5, <1>6 DEF Shape

-----------------------------------------------------------------------------
(* The invariant, and what follows from it. *)

LEMMA OfChannelInit ==
  ASSUME Init, NEW c \in Channels
  PROVE  OfChannel(c)
<1>1. /\ channel[c] = Untracked /\ left[c] /\ credit[c] = 0 /\ "me" \notin members[c]
      /\ toServer = <<>> /\ toClient = <<>>
  BY DEF Init
<1>2. /\ \A kind : About(toServer, c, kind) = {} /\ About(toClient, c, kind) = {}
      /\ Leaves(c) = {}
  BY <1>1 DEF About, Leaves
<1>3. /\ Joinings(c) = {} /\ Partings(c) = {} /\ Rosters(c) = {} /\ Statuses(c) = {}
      /\ Rises(c) = {} /\ Joins(c) = {}
      /\ About(toServer, c, "join") = {} /\ About(toClient, c, "refused") = {}
  BY <1>2 DEF Joinings, Partings, Rosters, Statuses, Rises, Joins
<1>4. /\ ~channel[c].tracked /\ ~channel[c].tried /\ ~channel[c].inChannel
      /\ channel[c].stage = "watching" /\ ~channel[c].joined
  BY <1>1, UntrackedIs
<1>5. Staged(c)
  BY <1>1, <1>4 DEF Staged
<1>6. InTurn(c)
  BY <1>1, <1>3, <1>4 DEF InTurn
<1>7. LeftAlone(c)
  BY <1>1, <1>2, <1>3, <1>4 DEF LeftAlone
<1>8. StatusTold(c)
  BY <1>1, <1>3, <1>4 DEF StatusTold
<1>9. Earned(c)
  <2>1. Cardinality(Joins(c)) = 0 /\ Cardinality(Rises(c)) = 0
    BY <1>3, FS_EmptySet
  <2>2. Rest(c) = 0
    BY <1>2, <1>3, <1>4 DEF Rest, Joining, One
  <2> QED BY <1>1, <2>1, <2>2 DEF Earned
<1> QED BY <1>5, <1>6, <1>7, <1>8, <1>9 DEF OfChannel

LEMMA RegainStep ==
  ASSUME ~SlowServer, RegainInv, [Next]_vars
  PROVE  RegainInv'
<1>1. Shape /\ Shape'
  BY ShapeStep DEF RegainInv
<1>2. ASSUME NEW c \in Channels
      PROVE  OfChannel(c)'
  <2>1. OfChannel(c)
    BY DEF RegainInv
  <2>2. CASE Receive
    BY <1>1, <2>1, <2>2, ReceiveKeeps
  <2>3. CASE Serve
    BY <1>1, <2>1, <2>3, ServeKeeps
  <2>4. ASSUME NEW d \in Channels, PollWith(d)
        PROVE  OfChannel(c)'
    BY <1>1, <2>1, <2>4, PollKeeps
  <2>5. ASSUME NEW d \in Channels, UserJoin(d) \/ UserPart(d)
        PROVE  OfChannel(c)'
    BY <1>1, <2>1, <2>5, UserJoinKeeps, UserPartKeeps, UserElsewhereKeeps
  <2>6. ASSUME NEW d \in Channels, OtherJoins(d) \/ OtherLeaves(d) \/ GiveOrTakeOp(d)
        PROVE  OfChannel(c)'
    BY <1>1, <2>1, <2>6, OthersKeep
  <2>7. ASSUME NEW d \in Channels, OtherKicks(d)
        PROVE  OfChannel(c)'
    BY <1>1, <2>1, <2>7, KickKeeps
  <2>8. CASE UNCHANGED vars
    <3>1. UNCHANGED <<channel, toServer, toClient, members, ops, left, credit>>
      BY <2>8 DEF vars, clientVars, serverVars, historyVars
    <3>2. RequestsMove(c, 0)
      BY <1>1, <3>1, ServerStays
    <3>3. toClient \in Seq(LinesOf(ServerKinds))
      BY <1>1 DEF Shape
    <3>4. Elsewhere(c)
      BY <3>1, <3>3, ExtendedSame DEF Elsewhere, ServerSame
    <3> QED BY <1>1, <2>1, <3>1, <3>2, <3>4, ElsewhereKeeps
  <2> QED BY <2>2, <2>3, <2>4, <2>5, <2>6, <2>7, <2>8 DEF Next
<1> QED BY <1>1, <1>2 DEF RegainInv

LEMMA RegainInvHolds ==
  ASSUME ~SlowServer
  PROVE  Spec => []RegainInv
<1>1. Init => RegainInv
  BY ShapeInit, OfChannelInit DEF RegainInv
<1>2. RegainInv /\ [Next]_vars => RegainInv'
  BY RegainStep
<1> QED BY <1>1, <1>2, PTL DEF Spec

(* Every record, line and counter keeps its type, a channel that is not    *)
(* tracked has a record as new (remove of `channels`), and what an attempt *)
(* waits for comes in its order: the PART before the JOIN.                 *)
THEOREM RegainTypes ==
  ASSUME ~SlowServer
  PROVE  Spec => []TypeOK
<1>1. RegainInv => TypeOK
  <2> SUFFICES ASSUME RegainInv PROVE TypeOK
    OBVIOUS
  <2>1. Shape /\ \A c \in Channels : Staged(c)
    BY DEF RegainInv, OfChannel
  <2>2. \A c \in Channels : channel[c].stage \in Stages /\ channel[c].topic \in Topics
    BY <2>1 DEF Shape, Tracking
  <2> QED BY <2>1, <2>2 DEF TypeOK, Shape, Staged, People
<1> QED BY <1>1, RegainInvHolds, PTL

(* A channel is rejoined at most once for each time the user joined it or  *)
(* the server made us operator, however the echoes, refusals, kicks and    *)
(* timeouts of an attempt mix (`tried` of regain.rs).                      *)
THEOREM RejoinsAreEarned ==
  ASSUME ~SlowServer
  PROVE  Spec => []AttemptsAreEarned
<1>1. RegainInv => AttemptsAreEarned
  <2> SUFFICES ASSUME RegainInv, NEW c \in Channels PROVE credit[c] >= 0
    BY DEF AttemptsAreEarned
  <2>1. Shape /\ Earned(c) /\ credit[c] \in Int
    BY DEF RegainInv, OfChannel, Shape
  <2>2. Cardinality(Joins(c)) \in Nat /\ Cardinality(Rises(c)) \in Nat
    BY <2>1, LeavesType, FewAreFinite
  <2>3. Rest(c) \in Int /\ Rest(c) + Cardinality(Joins(c)) >= 0
    BY <2>2 DEF Rest, One
  <2> QED BY <2>1, <2>2, <2>3 DEF Earned
<1> QED BY <1>1, RegainInvHolds, PTL

(* What the user left stays left: once the server has the PART of the      *)
(* user, no attempt under way (`leaving` ends it) and no late echo of one  *)
(* has it join the channel again.                                          *)
THEOREM LeavesHold ==
  ASSUME ~SlowServer
  PROVE  Spec => []UserLeaveStays
<1>1. RegainInv => UserLeaveStays
  <2> SUFFICES ASSUME RegainInv, NEW c \in Channels, left[c],
                      \A i \in DOMAIN toServer : toServer[i].channel # c
               PROVE  "me" \notin members[c]
    BY DEF UserLeaveStays
  <2>1. Leaves(c) = {}
    BY DEF Leaves, About
  <2> QED BY <2>1 DEF RegainInv, OfChannel, LeftAlone
<1> QED BY <1>1, RegainInvHolds, PTL
=============================================================================

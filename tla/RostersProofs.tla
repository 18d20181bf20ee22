---------------------------- MODULE RostersProofs ----------------------------
(*****************************************************************************)
(* Rosters: what the lines tell, how the worker's views follow them, and   *)
(* the theorems, for any people, nicknames, channels, roles and bounds.    *)
(*****************************************************************************)
EXTENDS RostersLemmas

(* The names and places of people that are consistent with each other.     *)
Sane(v) ==
    /\ \A p, q \in People : v.nick[p] = v.nick[q] /\ v.nick[p] # NoNick => p = q
    /\ \A p \in People : v.in[p] \subseteq v.meIn /\ (v.in[p] # {} => v.nick[p] # NoNick)

Still(v, w, p) == w.in[p] = v.in[p] /\ (v.in[p] # {} => w.nick[p] = v.nick[p])

StillBut(v, w, p) == \A q \in People \ {p} : Still(v, w, q)

AllStill(v, w) == w.meIn = v.meIn /\ \A q \in People : Still(v, w, q)

InIt(v, c) == {v.nick[p] : p \in {q \in People : c \in v.in[q]}}

(* What a line tells: from what was seen before it to what is seen with it.*)
Tells(v, m) ==
    LET w == m.at
        c == m.channel
        n == m.nick
    IN CASE m.kind = "join" ->
                /\ w.meIn = v.meIn /\ c \in v.meIn
                /\ \E p \in People : /\ c \notin v.in[p] /\ w.in[p] = v.in[p] \union {c}
                                     /\ w.nick[p] = n
                                     /\ v.in[p] # {} => v.nick[p] = n
                                     /\ StillBut(v, w, p)
         [] m.kind = "part" ->
                /\ w.meIn = v.meIn
                /\ \E p \in People : /\ c \in v.in[p] /\ w.in[p] = v.in[p] \ {c}
                                     /\ v.nick[p] = n /\ w.nick[p] = n
                                     /\ StillBut(v, w, p)
         [] m.kind = "quit" ->
                /\ w.meIn = v.meIn
                /\ \E p \in People : /\ v.in[p] # {} /\ w.in[p] = {}
                                     /\ v.nick[p] = n /\ w.nick[p] = NoNick
                                     /\ StillBut(v, w, p)
         [] m.kind = "nick" ->
                /\ w.meIn = v.meIn
                /\ \E p \in People : /\ v.in[p] # {} /\ w.in[p] = v.in[p]
                                     /\ v.nick[p] = n /\ w.nick[p] = m.to /\ m.to # n
                                     /\ StillBut(v, w, p)
         [] m.kind = "mode" ->
                /\ AllStill(v, w)
                /\ \E p \in People : c \in v.in[p] /\ v.nick[p] = n
         [] m.kind \in {"me_part", "me_kick"} ->
                /\ c \in v.meIn /\ w.meIn = v.meIn \ {c}
                /\ \A q \in People : /\ w.in[q] = v.in[q] \ {c}
                                     /\ v.in[q] # {} => w.nick[q] = v.nick[q]
         [] m.kind = "me_join" ->
                /\ c \notin v.meIn /\ w.meIn = v.meIn \union {c}
                /\ \A q \in People : /\ w.in[q] \ {c} = v.in[q]
                                     /\ v.in[q] # {} => w.nick[q] = v.nick[q]
         [] m.kind = "names" ->
                /\ AllStill(v, w) /\ c \in v.meIn
                /\ {k \in Nicks : m.names[k] >= 0} = InIt(w, c)
         [] OTHER -> AllStill(v, w)

SeenBefore(i) == IF i = 1 THEN ghost.seen ELSE link[i - 1].at
LastSeen == IF link = <<>> THEN ghost.seen ELSE link[Len(link)].at

Awaits(l, c) == l # <<>> /\ Head(l).kind = "names" /\ Head(l).channel = c

LinesTell ==
    /\ Sane(ghost.seen)
    /\ \A i \in 1..Len(link) :
          /\ Sane(link[i].at) /\ Tells(SeenBefore(i), link[i])
          /\ link[i].kind = "me_join" =>
                /\ i < Len(link) /\ link[i + 1].kind = "names"
                /\ link[i + 1].channel = link[i].channel
    /\ Sane(At(world)) /\ AllStill(LastSeen, At(world))

ListTrue(c) ==
    \/ worker.list[c] = InIt(ghost.seen, c)
    \/ worker.list[c] = {} /\ Awaits(link, c)

Keys(x, c) == {x.key[i] : i \in x.members[c]}

(* People in the server's truth: no nickname is held twice, and who is in  *)
(* a channel has one.                                                      *)
WorldOK(w) ==
    /\ w \in Worlds
    /\ \A p, q \in People : w.nick[p] = w.nick[q] /\ w.nick[p] # NoNick => p = q
    /\ \A p \in People : w.in[p] # {} => w.nick[p] \in Nicks

GoodLines == {m \in Lines : LineOK(m)}
WhoLineSet == {m \in GoodLines : m.kind \in {"who", "whoend"}}

Commands == [kind : {"join", "part"}, channel : Channels, token : {0}]
            \union [kind : {"who"}, channel : Channels, token : 1..999]

LEMMA AtType ==
  ASSUME NEW w \in Worlds
  PROVE  At(w) \in Ats
BY DEF At, Ats, Worlds

LineFields(m, kind, c, n, to, account, level, grant, token, names, at) ==
    m = [kind |-> kind, channel |-> c, nick |-> n, to |-> to, account |-> account,
         level |-> level, grant |-> grant, token |-> token, names |-> names, at |-> at]

LEMMA FieldsMade ==
  ASSUME NEW kind, NEW c, NEW n, NEW to, NEW account, NEW level, NEW grant, NEW token,
         NEW names, NEW at, NEW m,
         LineFields(m, kind, c, n, to, account, level, grant, token, names, at),
         NEW x
  PROVE  /\ LineFields([m EXCEPT !.to = x], kind, c, n, x, account, level, grant, token, names, at)
         /\ LineFields([m EXCEPT !.account = x], kind, c, n, to, x, level, grant, token, names, at)
         /\ LineFields([m EXCEPT !.level = x], kind, c, n, to, account, x, grant, token, names, at)
         /\ LineFields([m EXCEPT !.grant = x], kind, c, n, to, account, level, x, token, names, at)
         /\ LineFields([m EXCEPT !.token = x], kind, c, n, to, account, level, grant, x, names, at)
         /\ LineFields([m EXCEPT !.names = x], kind, c, n, to, account, level, grant, token, x, at)
         /\ LineFields([m EXCEPT !.at = x], kind, c, n, to, account, level, grant, token, names, x)
BY DEF LineFields

NoGrant == FALSE

(* The fields of a line the server sends.                                  *)
LEMMA LineMade ==
  ASSUME NEW kind, NEW c, NEW n, NEW w, NEW x, NEW y
  PROVE  LET m == Line(kind, c, n, w)
         IN /\ LineFields(m, kind, c, n, NoNick, A!Unsaid, NoLevel, NoGrant, 0, NoRole, At(w))
            /\ LineFields([m EXCEPT !.to = x], kind, c, n, x, A!Unsaid, NoLevel, NoGrant, 0, NoRole, At(w))
            /\ LineFields([m EXCEPT !.account = x], kind, c, n, NoNick, x, NoLevel, NoGrant, 0, NoRole, At(w))
            /\ LineFields([m EXCEPT !.account = x, !.token = y],
                          kind, c, n, NoNick, x, NoLevel, NoGrant, y, NoRole, At(w))
            /\ LineFields([m EXCEPT !.level = x, !.grant = y],
                          kind, c, n, NoNick, A!Unsaid, x, y, 0, NoRole, At(w))
            /\ LineFields([m EXCEPT !.names = x], kind, c, n, NoNick, A!Unsaid, NoLevel, NoGrant, 0, x, At(w))
<1> DEFINE m == Line(kind, c, n, w)
           at == At(w)
<1>1. LineFields(m, kind, c, n, NoNick, A!Unsaid, NoLevel, NoGrant, 0, NoRole, at)
  BY DEF Line, LineFields, NoGrant
<1>2. [m EXCEPT !.account = x, !.token = y] = [[m EXCEPT !.account = x] EXCEPT !.token = y]
      /\ [m EXCEPT !.level = x, !.grant = y] = [[m EXCEPT !.level = x] EXCEPT !.grant = y]
  OBVIOUS
<1> HIDE DEF m, at
<1>3. LineFields([m EXCEPT !.account = x], kind, c, n, NoNick, x, NoLevel, NoGrant, 0, NoRole, at)
      /\ LineFields([m EXCEPT !.level = x], kind, c, n, NoNick, A!Unsaid, x, NoGrant, 0, NoRole, at)
  BY <1>1, FieldsMade
<1>4. LineFields([[m EXCEPT !.account = x] EXCEPT !.token = y],
                 kind, c, n, NoNick, x, NoLevel, NoGrant, y, NoRole, at)
  BY <1>3, FieldsMade
<1>5. LineFields([[m EXCEPT !.level = x] EXCEPT !.grant = y],
                 kind, c, n, NoNick, A!Unsaid, x, y, 0, NoRole, at)
  BY <1>3, FieldsMade
<1>6. LineFields([m EXCEPT !.to = x], kind, c, n, x, A!Unsaid, NoLevel, NoGrant, 0, NoRole, at)
      /\ LineFields([m EXCEPT !.names = x], kind, c, n, NoNick, A!Unsaid, NoLevel, NoGrant, 0, x, at)
  BY <1>1, FieldsMade
<1> QED BY <1>1, <1>2, <1>3, <1>4, <1>5, <1>6 DEF m, at

LineFit(kind, c, n, to, account, level, grant, token, names, at) ==
    /\ kind \in AboutChannel \union AboutNick /\ c \in Channels \union {"-"}
    /\ n \in Nicks \union {NoNick} /\ to \in Nicks \union {NoNick}
    /\ account \in Logins \union {A!LoggedOut, A!Unsaid}
    /\ level \in Levels \union {NoLevel} /\ grant \in BOOLEAN /\ token \in 0..999
    /\ names \in [Nicks -> Levels \union {NoLevel, -1}] /\ at \in Ats
    /\ kind \in AboutChannel => c \in Channels
    /\ kind \in AboutNick => n \in Nicks
    /\ kind \notin AboutChannel => c = "-"
    /\ kind = "nick" => to \in Nicks
    /\ kind = "mode" => level \in Levels
    /\ kind \in {"account", "who"} => account \in Logins \union {A!LoggedOut}
    /\ kind = "who" => token \in 1..999

LEMMA LineGood ==
  ASSUME NEW kind, NEW c, NEW n, NEW to, NEW account, NEW level, NEW grant, NEW token,
         NEW names, NEW at, NEW m,
         LineFields(m, kind, c, n, to, account, level, grant, token, names, at),
         LineFit(kind, c, n, to, account, level, grant, token, names, at)
  PROVE  m \in GoodLines /\ m.kind = kind /\ m.channel = c /\ m.nick = n /\ m.to = to
         /\ m.names = names /\ m.at = at /\ m.level = level /\ m.grant = grant
         /\ m.account = account /\ m.token = token
<1>1. /\ m.kind = kind /\ m.channel = c /\ m.nick = n /\ m.to = to /\ m.account = account
      /\ m.level = level /\ m.grant = grant /\ m.token = token /\ m.names = names /\ m.at = at
  BY DEF LineFields
<1>2. m \in Lines
  BY DEF LineFields, Lines, LineFit
<1>3. "-" \notin Channels
  BY FixedValues
<1>4. LineOK(m)
  BY <1>1, <1>2, <1>3 DEF LineOK, LineFit
<1> QED BY <1>1, <1>2, <1>4 DEF GoodLines

LEMMA PlainNames ==
  /\ NoRole \in [Nicks -> Levels \union {NoLevel, -1}]
  /\ NoNick \in Nicks \union {NoNick} /\ A!Unsaid \in Logins \union {A!LoggedOut, A!Unsaid}
  /\ NoLevel \in Levels \union {NoLevel} /\ 0 \in 0..999
BY DEF NoRole

(* A world after a move, its fields one by one.                            *)
WorldIs(w, u, nick, in, login, roles, meIn) ==
    /\ w \in Worlds /\ w.chunks = u.chunks
    /\ w.nick = nick /\ w.in = in /\ w.login = login /\ w.roles = roles /\ w.meIn = meIn

LEMMA WorldFields ==
  ASSUME NEW u \in Worlds,
         NEW nick \in [People -> Nicks \union {NoNick}], NEW in \in [People -> SUBSET Channels],
         NEW login \in [People -> Logins \union {A!LoggedOut}],
         NEW roles \in [Channels -> [People -> SUBSET Levels]], NEW meIn \in SUBSET Channels
  PROVE  /\ WorldIs([u EXCEPT !.nick = nick, !.in = in], u, nick, in, u.login, u.roles, u.meIn)
         /\ WorldIs([u EXCEPT !.in = in, !.roles = roles], u, u.nick, in, u.login, roles, u.meIn)
         /\ WorldIs([u EXCEPT !.nick = nick, !.in = in, !.login = login, !.roles = roles],
                    u, nick, in, login, roles, u.meIn)
         /\ WorldIs([u EXCEPT !.nick = nick], u, nick, u.in, u.login, u.roles, u.meIn)
         /\ WorldIs([u EXCEPT !.login = login], u, u.nick, u.in, login, u.roles, u.meIn)
         /\ WorldIs([u EXCEPT !.roles = roles], u, u.nick, u.in, u.login, roles, u.meIn)
         /\ WorldIs([u EXCEPT !.meIn = meIn], u, u.nick, u.in, u.login, u.roles, meIn)
<1>1. WorldIs([u EXCEPT !.nick = nick, !.in = in], u, nick, in, u.login, u.roles, u.meIn)
  BY DEF Worlds, WorldIs
<1>2. WorldIs([u EXCEPT !.in = in, !.roles = roles], u, u.nick, in, u.login, roles, u.meIn)
  BY DEF Worlds, WorldIs
<1>3. WorldIs([u EXCEPT !.nick = nick, !.in = in, !.login = login, !.roles = roles],
                    u, nick, in, login, roles, u.meIn)
  BY DEF Worlds, WorldIs
<1>4. WorldIs([u EXCEPT !.nick = nick], u, nick, u.in, u.login, u.roles, u.meIn)
  BY DEF Worlds, WorldIs
<1>5. WorldIs([u EXCEPT !.login = login], u, u.nick, u.in, login, u.roles, u.meIn)
  BY DEF Worlds, WorldIs
<1>6. WorldIs([u EXCEPT !.roles = roles], u, u.nick, u.in, u.login, roles, u.meIn)
  BY DEF Worlds, WorldIs
<1>7. WorldIs([u EXCEPT !.meIn = meIn], u, u.nick, u.in, u.login, u.roles, meIn)
  BY DEF Worlds, WorldIs
<1> QED BY <1>1, <1>2, <1>3, <1>4, <1>5, <1>6, <1>7

(* The elements of a finite set, in the order SetToSeq gives.              *)
LEMMA SequenceOfSet ==
  ASSUME NEW S, IsFiniteSet(S)
  PROVE  /\ Cardinality(S) \in Nat /\ SetToSeq(S) \in [1..Cardinality(S) -> S]
         /\ IsInjective(SetToSeq(S))
<1>1. Cardinality(S) \in Nat /\ Cardinality(1..Cardinality(S)) = Cardinality(S)
      /\ IsFiniteSet(1..Cardinality(S))
  BY FS_CardinalityType, FS_Interval
<1>2. \E f \in [1..Cardinality(S) -> S] : \A a, b \in 1..Cardinality(S) : f[a] = f[b] => a = b
  <2> DEFINE T == 1..Cardinality(S)
  <2>1. IsFiniteSet(T) /\ Cardinality(T) <= Cardinality(S)
    BY <1>1
  <2> HIDE DEF T
  <2>2. \E f \in [T -> S] : \A a, b \in T : f[a] = f[b] => a = b
    BY <2>1, InjectionExists
  <2> QED BY <2>2 DEF T
<1>3. \E f \in [1..Cardinality(S) -> S] : IsInjective(f)
  BY <1>2 DEF IsInjective
<1> QED BY <1>1, <1>3 DEF SetToSeq

LEMMA WhoLinesType ==
  ASSUME NEW w, WorldOK(w), NEW c \in Channels, NEW token \in 1..999
  PROVE  WhoLines(c, token, w) \in Seq(WhoLineSet)
<1> DEFINE S == {p \in People : c \in w.in[p]}
           n == Cardinality(S)
           s == SetToSeq(S)
           About(p) == [Line("who", c, w.nick[p], w) EXCEPT !.account = w.login[p],
                                                            !.token = token]
           f == [i \in 1..n |-> About(s[i])]
           e == Line("whoend", c, NoNick, w)
<1>1. WhoLines(c, token, w) = Append(f, e)
  BY DEF WhoLines
<1>2. n \in Nat /\ s \in [1..n -> S]
  <2>1. IsFiniteSet(S)
    BY RostersAssumption, FS_Subset
  <2> HIDE DEF S
  <2> QED BY <2>1, SequenceOfSet
<1>3. ASSUME NEW p \in S PROVE About(p) \in WhoLineSet
  <2>1. w.nick[p] \in Nicks /\ w.login[p] \in Logins \union {A!LoggedOut} /\ At(w) \in Ats
    BY AtType DEF WorldOK, Worlds
  <2>2. LineFields(About(p), "who", c, w.nick[p], NoNick, w.login[p], NoLevel, NoGrant, token,
                   NoRole, At(w))
    BY LineMade
  <2>3. "who" \in AboutChannel /\ "who" \in AboutNick /\ token \in 0..999
    BY DEF AboutChannel, AboutNick
  <2>4. LineFit("who", c, w.nick[p], NoNick, w.login[p], NoLevel, NoGrant, token, NoRole, At(w))
    BY <2>1, <2>3, PlainNames DEF LineFit, NoGrant
  <2>5. About(p) \in GoodLines /\ About(p).kind = "who"
    <3> DEFINE x == About(p)
               k == w.nick[p]
               l == w.login[p]
               at == At(w)
    <3>1. /\ LineFit("who", c, k, NoNick, l, NoLevel, NoGrant, token, NoRole, at)
          /\ LineFields(x, "who", c, k, NoNick, l, NoLevel, NoGrant, token, NoRole, at)
      BY <2>2, <2>4
    <3> HIDE DEF x, k, l, at
    <3>2. x \in GoodLines /\ x.kind = "who"
      BY <3>1, LineGood
    <3> QED BY <3>2 DEF x
  <2> QED BY <2>5 DEF WhoLineSet
<1>4. e \in WhoLineSet
  <2>1. LineFields(e, "whoend", c, NoNick, NoNick, A!Unsaid, NoLevel, NoGrant, 0, NoRole, At(w))
    BY LineMade
  <2>2. "whoend" \in AboutChannel /\ "whoend" \notin AboutNick /\ At(w) \in Ats
    BY AtType DEF AboutChannel, AboutNick, WorldOK
  <2> HIDE DEF e
  <2>3. e \in GoodLines /\ e.kind = "whoend"
    <3>1. LineFit("whoend", c, NoNick, NoNick, A!Unsaid, NoLevel, NoGrant, 0, NoRole, At(w))
      BY <2>2, PlainNames DEF LineFit, NoGrant
    <3> QED BY <2>1, <3>1, LineGood
  <2> QED BY <2>3 DEF WhoLineSet
<1> HIDE DEF s, n, About, e, S
<1>5. f \in Seq(WhoLineSet)
  <2>1. f \in [1..n -> WhoLineSet]
    BY <1>2, <1>3
  <2> HIDE DEF f
  <2> QED BY <1>2, <2>1
<1> HIDE DEF f
<1> QED BY <1>1, <1>4, <1>5

(* A move of the server's truth from u to w is reported by the lines.      *)
Reports(u, w, lines) ==
    /\ WorldOK(w) /\ w.chunks = u.chunks
    /\ \/ lines = <<>> /\ AllStill(At(u), At(w))
       \/ \E m \in GoodLines : /\ lines = <<m>> /\ m.at = At(w) /\ m.kind # "me_join"
                               /\ Tells(At(u), m)

LEMMA AtFields ==
  ASSUME NEW w
  PROVE  /\ At(w).nick = w.nick /\ At(w).meIn = w.meIn /\ At(w).login = w.login
         /\ \A p \in People : At(w).in[p] = w.in[p] \intersect w.meIn
BY DEF At

LEMMA StillAt ==
  ASSUME NEW u, NEW w, NEW p \in People,
         w.in[p] \intersect w.meIn = u.in[p] \intersect u.meIn,
         u.in[p] # {} => w.nick[p] = u.nick[p]
  PROVE  Still(At(u), At(w), p)
<1> DEFINE a == At(u)
           b == At(w)
<1>1. a.in[p] = u.in[p] \intersect u.meIn /\ b.in[p] = w.in[p] \intersect w.meIn
      /\ a.nick[p] = u.nick[p] /\ b.nick[p] = w.nick[p]
  BY AtFields
<1> HIDE DEF a, b
<1> QED BY <1>1 DEF Still, a, b

LEMMA NoNickIsNone ==
  \A w \in Worlds : \A p \in People :
     w.nick[p] \in Nicks \union {NoNick} /\ (w.nick[p] \in Nicks <=> w.nick[p] # NoNick)
BY FixedValues DEF Worlds

LEMMA JoinReports ==
  ASSUME NEW u, WorldOK(u), NEW p \in People, NEW c \in Channels, NEW n \in Nicks,
         n = u.nick[p] \/ (u.nick[p] = NoNick /\ \A q \in People : u.nick[q] # n),
         c \notin u.in[p]
  PROVE  LET w == [u EXCEPT !.nick[p] = n, !.in[p] = @ \union {c}]
             line == [Line("join", c, n, w) EXCEPT
                         !.account = IF ExtendedJoin THEN w.login[p] ELSE @]
         IN Reports(u, w, IF c \in u.meIn THEN <<line>> ELSE <<>>)
<1> DEFINE w == [u EXCEPT !.nick[p] = n, !.in[p] = @ \union {c}]
           l == IF ExtendedJoin THEN w.login[p] ELSE A!Unsaid
           line == [Line("join", c, n, w) EXCEPT
                         !.account = IF ExtendedJoin THEN w.login[p] ELSE @]
           m == [Line("join", c, n, w) EXCEPT !.account = l]
           nick == [u.nick EXCEPT ![p] = n]
           in == [u.in EXCEPT ![p] = @ \union {c}]
<1>1. u \in Worlds /\ nick \in [People -> Nicks \union {NoNick}]
      /\ in \in [People -> SUBSET Channels] /\ u.meIn \in SUBSET Channels
  BY DEF WorldOK, Worlds
<1>2. w = [u EXCEPT !.nick = nick, !.in = in]
  BY <1>1 DEF Worlds
<1>3. line = m
  BY DEF Line
<1> HIDE DEF w, line, m, nick, in
<1>4. WorldIs(w, u, nick, in, u.login, u.roles, u.meIn)
  BY <1>1, <1>2, WorldFields DEF Worlds
<1>5. /\ w \in Worlds /\ w.chunks = u.chunks /\ w.meIn = u.meIn
      /\ \A q \in People : /\ w.nick[q] = IF q = p THEN n ELSE u.nick[q]
                           /\ w.in[q] = IF q = p THEN u.in[p] \union {c} ELSE u.in[q]
  BY <1>1, <1>4 DEF WorldIs, nick, in, Worlds
<1>6. n # NoNick /\ (u.in[p] # {} => u.nick[p] = n)
  BY FixedValues DEF WorldOK
<1>7. WorldOK(w)
  BY <1>5, <1>6 DEF WorldOK
<1>8. /\ \A q \in People : q # p => Still(At(u), At(w), q)
      /\ At(u).in[p] # {} => u.nick[p] = n
  BY <1>5, <1>6, AtFields, StillAt
<1>9. CASE c \notin u.meIn
  <2>1. Still(At(u), At(w), p)
    BY <1>5, <1>6, <1>9, StillAt
  <2>2. AllStill(At(u), At(w))
    BY <1>5, <1>8, <2>1, AtFields DEF AllStill
  <2> QED BY <1>5, <1>7, <1>9, <2>2 DEF Reports, w, line
<1>10. CASE c \in u.meIn
  <2>1. l \in Logins \union {A!LoggedOut, A!Unsaid} /\ At(w) \in Ats
    BY <1>5, AtType, RostersAssumption DEF Worlds
  <2> HIDE DEF l
  <2>2. LineFields(m, "join", c, n, NoNick, l, NoLevel, NoGrant, 0, NoRole, At(w))
    BY LineMade DEF m
  <2>3. LineFit("join", c, n, NoNick, l, NoLevel, NoGrant, 0, NoRole, At(w))
    BY <2>1, PlainNames DEF LineFit, NoGrant, AboutChannel, AboutNick
  <2>4. m \in GoodLines /\ m.kind = "join" /\ m.channel = c /\ m.nick = n /\ m.at = At(w)
    BY <2>2, <2>3, LineGood
  <2>5. /\ At(w).meIn = At(u).meIn /\ c \in At(u).meIn
        /\ c \notin At(u).in[p] /\ At(w).in[p] = At(u).in[p] \union {c} /\ At(w).nick[p] = n
        /\ At(u).in[p] # {} => At(u).nick[p] = n
        /\ StillBut(At(u), At(w), p)
    BY <1>5, <1>8, <1>10, AtFields DEF StillBut
  <2>6. Tells(At(u), m)
    BY <2>4, <2>5 DEF Tells
  <2> QED BY <1>3, <1>5, <1>7, <1>10, <2>4, <2>6 DEF Reports, w, line
<1> QED BY <1>9, <1>10 DEF w, line

LEMMA LeaveReports ==
  ASSUME NEW u, WorldOK(u), NEW p \in People, NEW c \in u.in[p]
  PROVE  LET w == [u EXCEPT !.in[p] = @ \ {c}, !.roles[c][p] = {}]
         IN Reports(u, w, IF c \in u.meIn THEN <<Line("part", c, u.nick[p], w)>> ELSE <<>>)
<1> DEFINE w == [u EXCEPT !.in[p] = @ \ {c}, !.roles[c][p] = {}]
           n == u.nick[p]
           m == Line("part", c, n, w)
           r == [u.roles[c] EXCEPT ![p] = {}]
           roles == [u.roles EXCEPT ![c] = r]
           in == [u.in EXCEPT ![p] = @ \ {c}]
<1>1. u \in Worlds /\ in \in [People -> SUBSET Channels] /\ u.meIn \in SUBSET Channels
      /\ c \in Channels /\ u.roles \in [Channels -> [People -> SUBSET Levels]]
  BY DEF WorldOK, Worlds
<1>1r. r \in [People -> SUBSET Levels]
  BY <1>1
<1>2. w = [u EXCEPT !.in = in, !.roles = roles]
  BY <1>1 DEF Worlds
<1> HIDE DEF r
<1>1s. roles \in [Channels -> [People -> SUBSET Levels]]
  BY <1>1, <1>1r
<1> HIDE DEF w, m, roles, in
<1>4. WorldIs(w, u, u.nick, in, u.login, roles, u.meIn)
  BY <1>1, <1>1s, <1>2, WorldFields DEF Worlds
<1>5. /\ w \in Worlds /\ w.chunks = u.chunks /\ w.meIn = u.meIn /\ w.nick = u.nick
      /\ \A q \in People : w.in[q] = IF q = p THEN u.in[p] \ {c} ELSE u.in[q]
  BY <1>1, <1>4 DEF WorldIs, in, Worlds
<1>7. WorldOK(w)
  BY <1>5 DEF WorldOK
<1>8. \A q \in People : q # p => Still(At(u), At(w), q)
  BY <1>5, StillAt
<1>9. CASE c \notin u.meIn
  <2>1. Still(At(u), At(w), p)
    BY <1>5, <1>9, StillAt
  <2>2. AllStill(At(u), At(w))
    BY <1>5, <1>8, <2>1, AtFields DEF AllStill
  <2> QED BY <1>5, <1>7, <1>9, <2>2 DEF Reports, w
<1>10. CASE c \in u.meIn
  <2>1. At(w) \in Ats /\ n \in Nicks
    BY <1>5, AtType DEF WorldOK
  <2>2. LineFields(m, "part", c, n, NoNick, A!Unsaid, NoLevel, NoGrant, 0, NoRole, At(w))
    BY LineMade DEF m
  <2> HIDE DEF n
  <2>3. LineFit("part", c, n, NoNick, A!Unsaid, NoLevel, NoGrant, 0, NoRole, At(w))
    BY <1>1, <2>1, PlainNames DEF LineFit, NoGrant, AboutChannel, AboutNick
  <2>4. m \in GoodLines /\ m.kind = "part" /\ m.channel = c /\ m.nick = n /\ m.at = At(w)
    BY <2>2, <2>3, LineGood
  <2>5. /\ At(w).meIn = At(u).meIn
        /\ c \in At(u).in[p] /\ At(w).in[p] = At(u).in[p] \ {c}
        /\ At(w).nick[p] = n /\ At(u).nick[p] = n
        /\ StillBut(At(u), At(w), p)
    BY <1>5, <1>8, <1>10, AtFields DEF StillBut, n
  <2>6. Tells(At(u), m)
    BY <2>4, <2>5 DEF Tells
  <2> QED BY <1>5, <1>7, <1>10, <2>4, <2>6 DEF Reports, w, m, n
<1> QED BY <1>9, <1>10 DEF w, m

LEMMA QuitReports ==
  ASSUME NEW u, WorldOK(u), NEW p \in People, u.nick[p] # NoNick
  PROVE  LET w == [u EXCEPT !.nick[p] = NoNick, !.in[p] = {}, !.login[p] = A!LoggedOut,
                            !.roles = [c \in Channels |-> [@[c] EXCEPT ![p] = {}]]]
         IN Reports(u, w, IF u.in[p] \intersect u.meIn # {}
                          THEN <<Line("quit", "-", u.nick[p], w)>> ELSE <<>>)
<1> DEFINE w == [u EXCEPT !.nick[p] = NoNick, !.in[p] = {}, !.login[p] = A!LoggedOut,
                            !.roles = [c \in Channels |-> [@[c] EXCEPT ![p] = {}]]]
           n == u.nick[p]
           m == Line("quit", "-", n, w)
           nick == [u.nick EXCEPT ![p] = NoNick]
           in == [u.in EXCEPT ![p] = {}]
           login == [u.login EXCEPT ![p] = A!LoggedOut]
           roles == [c \in Channels |-> [u.roles[c] EXCEPT ![p] = {}]]
<1>1. u \in Worlds /\ nick \in [People -> Nicks \union {NoNick}]
      /\ in \in [People -> SUBSET Channels] /\ u.meIn \in SUBSET Channels
      /\ login \in [People -> Logins \union {A!LoggedOut}]
      /\ roles \in [Channels -> [People -> SUBSET Levels]]
  BY DEF WorldOK, Worlds
<1>2. w = [u EXCEPT !.nick = nick, !.in = in, !.login = login, !.roles = roles]
  BY <1>1 DEF Worlds
<1> HIDE DEF w, m, nick, in, login, roles
<1>4. WorldIs(w, u, nick, in, login, roles, u.meIn)
  BY <1>1, <1>2, WorldFields
<1>5. /\ w \in Worlds /\ w.chunks = u.chunks /\ w.meIn = u.meIn
      /\ \A q \in People : /\ w.nick[q] = IF q = p THEN NoNick ELSE u.nick[q]
                           /\ w.in[q] = IF q = p THEN {} ELSE u.in[q]
  BY <1>1, <1>4 DEF WorldIs, nick, in, Worlds
<1>6. n \in Nicks
  BY <1>1, NoNickIsNone
<1>7. WorldOK(w)
  BY <1>5 DEF WorldOK
<1>8. \A q \in People : q # p => Still(At(u), At(w), q)
  BY <1>5, StillAt
<1>9. CASE u.in[p] \intersect u.meIn = {}
  <2>1. Still(At(u), At(w), p)
    <3> DEFINE a == At(u)
               b == At(w)
    <3>1. a.in[p] = {} /\ b.in[p] = {}
      BY <1>5, <1>9, AtFields
    <3> HIDE DEF a, b
    <3> QED BY <3>1 DEF Still, a, b
  <2>2. AllStill(At(u), At(w))
    BY <1>5, <1>8, <2>1, AtFields DEF AllStill
  <2> QED BY <1>5, <1>7, <1>9, <2>2 DEF Reports, w
<1>10. CASE u.in[p] \intersect u.meIn # {}
  <2>1. At(w) \in Ats
    BY <1>5, AtType
  <2>2. LineFields(m, "quit", "-", n, NoNick, A!Unsaid, NoLevel, NoGrant, 0, NoRole, At(w))
    BY LineMade DEF m
  <2> HIDE DEF n
  <2>3. LineFit("quit", "-", n, NoNick, A!Unsaid, NoLevel, NoGrant, 0, NoRole, At(w))
    BY <1>6, <2>1, PlainNames DEF LineFit, NoGrant, AboutChannel, AboutNick
  <2>4. m \in GoodLines /\ m.kind = "quit" /\ m.nick = n /\ m.at = At(w)
    BY <2>2, <2>3, LineGood
  <2>5. /\ At(w).meIn = At(u).meIn
        /\ At(u).in[p] # {} /\ At(w).in[p] = {}
        /\ At(u).nick[p] = n /\ At(w).nick[p] = NoNick
        /\ StillBut(At(u), At(w), p)
    BY <1>5, <1>8, <1>10, AtFields DEF StillBut, n
  <2>6. Tells(At(u), m)
    BY <2>4, <2>5 DEF Tells
  <2> QED BY <1>5, <1>7, <1>10, <2>4, <2>6 DEF Reports, w, m, n
<1> QED BY <1>9, <1>10 DEF w, m

LEMMA RenameReports ==
  ASSUME NEW u, WorldOK(u), NEW p \in People, u.nick[p] # NoNick, NEW n \in Nicks,
         \A q \in People : u.nick[q] # n
  PROVE  LET w == [u EXCEPT !.nick[p] = n]
             line == [Line("nick", "-", u.nick[p], w) EXCEPT !.to = n]
         IN Reports(u, w, IF u.in[p] \intersect u.meIn # {} THEN <<line>> ELSE <<>>)
<1> DEFINE w == [u EXCEPT !.nick[p] = n]
           o == u.nick[p]
           m == [Line("nick", "-", o, w) EXCEPT !.to = n]
           nick == [u.nick EXCEPT ![p] = n]
<1>1. u \in Worlds /\ nick \in [People -> Nicks \union {NoNick}]
  BY DEF WorldOK, Worlds
<1>2. w = [u EXCEPT !.nick = nick]
  BY <1>1 DEF Worlds
<1> HIDE DEF w, m, nick
<1>4. WorldIs(w, u, nick, u.in, u.login, u.roles, u.meIn)
  BY <1>1, <1>2, WorldFields DEF Worlds
<1>5. /\ w \in Worlds /\ w.chunks = u.chunks /\ w.meIn = u.meIn /\ w.in = u.in
      /\ \A q \in People : w.nick[q] = IF q = p THEN n ELSE u.nick[q]
  BY <1>1, <1>4 DEF WorldIs, nick, Worlds
<1>6. o \in Nicks /\ n # o
  BY <1>1, NoNickIsNone
<1>7. WorldOK(w)
  BY <1>5 DEF WorldOK
<1>8. \A q \in People : q # p => Still(At(u), At(w), q)
  BY <1>5, StillAt
<1>9. CASE u.in[p] \intersect u.meIn = {}
  <2>1. Still(At(u), At(w), p)
    <3> DEFINE a == At(u)
               b == At(w)
    <3>1. a.in[p] = {} /\ b.in[p] = {}
      BY <1>5, <1>9, AtFields
    <3> HIDE DEF a, b
    <3> QED BY <3>1 DEF Still, a, b
  <2>2. AllStill(At(u), At(w))
    BY <1>5, <1>8, <2>1, AtFields DEF AllStill
  <2> QED BY <1>5, <1>7, <1>9, <2>2 DEF Reports, w
<1>10. CASE u.in[p] \intersect u.meIn # {}
  <2>1. At(w) \in Ats
    BY <1>5, AtType
  <2>2. LineFields(m, "nick", "-", o, n, A!Unsaid, NoLevel, NoGrant, 0, NoRole, At(w))
    BY LineMade DEF m
  <2> HIDE DEF o
  <2>3. LineFit("nick", "-", o, n, A!Unsaid, NoLevel, NoGrant, 0, NoRole, At(w))
    BY <1>6, <2>1, PlainNames DEF LineFit, NoGrant, AboutChannel, AboutNick
  <2>4. m \in GoodLines /\ m.kind = "nick" /\ m.nick = o /\ m.to = n /\ m.at = At(w)
    BY <2>2, <2>3, LineGood
  <2>5. /\ At(w).meIn = At(u).meIn
        /\ At(u).in[p] # {} /\ At(w).in[p] = At(u).in[p]
        /\ At(u).nick[p] = o /\ At(w).nick[p] = n /\ n # o
        /\ StillBut(At(u), At(w), p)
    BY <1>5, <1>6, <1>8, <1>10, AtFields, ZenonT(30) DEF StillBut, o
  <2>6. Tells(At(u), m)
    BY <2>4, <2>5 DEF Tells
  <2> QED BY <1>5, <1>7, <1>10, <2>4, <2>6 DEF Reports, w, m, o
<1> QED BY <1>9, <1>10 DEF w, m

LEMMA LogInReports ==
  ASSUME NEW u, WorldOK(u), NEW p \in People, u.nick[p] # NoNick,
         NEW login \in Logins \union {A!LoggedOut}
  PROVE  LET w == [u EXCEPT !.login[p] = login]
             line == [Line("account", "-", u.nick[p], w) EXCEPT !.account = login]
         IN Reports(u, w, IF u.in[p] \intersect u.meIn # {} THEN <<line>> ELSE <<>>)
<1> DEFINE w == [u EXCEPT !.login[p] = login]
           o == u.nick[p]
           m == [Line("account", "-", o, w) EXCEPT !.account = login]
           logins == [u.login EXCEPT ![p] = login]
<1>1. u \in Worlds /\ logins \in [People -> Logins \union {A!LoggedOut}]
  BY DEF WorldOK, Worlds
<1>2. w = [u EXCEPT !.login = logins]
  BY <1>1 DEF Worlds
<1> HIDE DEF w, m, logins
<1>4. WorldIs(w, u, u.nick, u.in, logins, u.roles, u.meIn)
  BY <1>1, <1>2, WorldFields DEF Worlds
<1>5. w \in Worlds /\ w.chunks = u.chunks /\ w.meIn = u.meIn /\ w.in = u.in /\ w.nick = u.nick
  BY <1>4 DEF WorldIs
<1>6. o \in Nicks
  BY <1>1, NoNickIsNone
<1>7. WorldOK(w)
  BY <1>5 DEF WorldOK
<1>8. \A q \in People : Still(At(u), At(w), q)
  BY <1>5, StillAt
<1>9. AllStill(At(u), At(w))
  BY <1>5, <1>8, AtFields DEF AllStill
<1>10. m \in GoodLines /\ m.kind = "account" /\ m.at = At(w)
  <2>1. At(w) \in Ats
    BY <1>5, AtType
  <2>2. LineFields(m, "account", "-", o, NoNick, login, NoLevel, NoGrant, 0, NoRole, At(w))
    BY LineMade DEF m
  <2> HIDE DEF o
  <2>3. LineFit("account", "-", o, NoNick, login, NoLevel, NoGrant, 0, NoRole, At(w))
    BY <1>6, <2>1, PlainNames DEF LineFit, NoGrant, AboutChannel, AboutNick
  <2> QED BY <2>2, <2>3, LineGood
<1>11. Tells(At(u), m)
  BY <1>9, <1>10 DEF Tells
<1> QED BY <1>5, <1>7, <1>9, <1>10, <1>11 DEF Reports, w, m

LEMMA RoleReports ==
  ASSUME NEW u, WorldOK(u), NEW p \in People, NEW c \in u.in[p], NEW level \in Levels
  PROVE  LET grant == level \notin u.roles[c][p]
             w == [u EXCEPT !.roles[c][p] = IF grant THEN @ \union {level} ELSE @ \ {level}]
             line == [Line("mode", c, u.nick[p], w) EXCEPT !.level = level, !.grant = grant]
         IN Reports(u, w, IF c \in u.meIn THEN <<line>> ELSE <<>>)
<1> DEFINE grant == level \notin u.roles[c][p]
           x == IF grant THEN u.roles[c][p] \union {level} ELSE u.roles[c][p] \ {level}
           w == [u EXCEPT !.roles[c][p] = IF grant THEN @ \union {level} ELSE @ \ {level}]
           n == u.nick[p]
           m == [Line("mode", c, n, w) EXCEPT !.level = level, !.grant = grant]
           r == [u.roles[c] EXCEPT ![p] = x]
           roles == [u.roles EXCEPT ![c] = r]
<1>1. /\ u \in Worlds /\ c \in Channels /\ n \in Nicks /\ grant \in BOOLEAN
      /\ u.roles \in [Channels -> [People -> SUBSET Levels]]
  BY DEF WorldOK, Worlds
<1>2. w = [u EXCEPT !.roles = roles]
  BY <1>1 DEF Worlds
<1>3. x \in SUBSET Levels
  BY <1>1
<1> HIDE DEF grant, x
<1>3r. r \in [People -> SUBSET Levels]
  BY <1>1, <1>3
<1> HIDE DEF r
<1>3s. roles \in [Channels -> [People -> SUBSET Levels]]
  BY <1>1, <1>3r
<1> HIDE DEF w, m, roles
<1>4. WorldIs(w, u, u.nick, u.in, u.login, roles, u.meIn)
  BY <1>1, <1>2, <1>3s, WorldFields DEF Worlds
<1>5. w \in Worlds /\ w.chunks = u.chunks /\ w.meIn = u.meIn /\ w.in = u.in /\ w.nick = u.nick
  BY <1>4 DEF WorldIs
<1>7. WorldOK(w)
  BY <1>5 DEF WorldOK
<1>8. \A q \in People : Still(At(u), At(w), q)
  BY <1>5, StillAt
<1>9. AllStill(At(u), At(w))
  BY <1>5, <1>8, AtFields DEF AllStill
<1>10. m \in GoodLines /\ m.kind = "mode" /\ m.at = At(w) /\ m.nick = n /\ m.channel = c
  <2>1. At(w) \in Ats
    BY <1>5, AtType
  <2>2. LineFields(m, "mode", c, n, NoNick, A!Unsaid, level, grant, 0, NoRole, At(w))
    BY LineMade DEF m
  <2> HIDE DEF n
  <2>3. LineFit("mode", c, n, NoNick, A!Unsaid, level, grant, 0, NoRole, At(w))
    BY <1>1, <2>1, PlainNames DEF LineFit, AboutChannel, AboutNick
  <2> QED BY <2>2, <2>3, LineGood
<1>11. c \in u.meIn => c \in At(u).in[p] /\ At(u).nick[p] = n
  BY AtFields
<1>12. c \in u.meIn => Tells(At(u), m)
  BY <1>9, <1>10, <1>11 DEF Tells
<1> QED BY <1>5, <1>7, <1>9, <1>10, <1>12 DEF Reports, w, m, grant

LEMMA RemovedReports ==
  ASSUME NEW u, WorldOK(u), NEW c \in u.meIn, NEW kind \in {"me_part", "me_kick"}
  PROVE  LET w == [u EXCEPT !.meIn = @ \ {c}]
         IN Reports(u, w, <<Line(kind, c, NoNick, w)>>)
<1> DEFINE w == [u EXCEPT !.meIn = @ \ {c}]
           m == Line(kind, c, NoNick, w)
           meIn == u.meIn \ {c}
<1>1. u \in Worlds /\ meIn \in SUBSET Channels /\ c \in Channels
  BY DEF WorldOK, Worlds
<1>2. w = [u EXCEPT !.meIn = meIn]
  BY <1>1 DEF Worlds
<1> HIDE DEF w, m, meIn
<1>4. WorldIs(w, u, u.nick, u.in, u.login, u.roles, meIn)
  BY <1>1, <1>2, WorldFields DEF Worlds
<1>5. w \in Worlds /\ w.chunks = u.chunks /\ w.meIn = meIn /\ w.in = u.in /\ w.nick = u.nick
  BY <1>4 DEF WorldIs
<1>7. WorldOK(w)
  BY <1>5 DEF WorldOK
<1>8. /\ c \in At(u).meIn /\ At(w).meIn = At(u).meIn \ {c}
      /\ \A q \in People : /\ At(w).in[q] = At(u).in[q] \ {c}
                           /\ At(w).nick[q] = At(u).nick[q]
  BY <1>5, AtFields DEF meIn
<1>10. m \in GoodLines /\ m.kind = kind /\ m.at = At(w) /\ m.channel = c
  <2>1. At(w) \in Ats
    BY <1>5, AtType
  <2>2. LineFields(m, kind, c, NoNick, NoNick, A!Unsaid, NoLevel, NoGrant, 0, NoRole, At(w))
    BY LineMade DEF m
  <2>3. LineFit(kind, c, NoNick, NoNick, A!Unsaid, NoLevel, NoGrant, 0, NoRole, At(w))
    BY <1>1, <2>1, PlainNames DEF LineFit, NoGrant, AboutChannel, AboutNick
  <2> QED BY <2>2, <2>3, LineGood
<1>11. Tells(At(u), m)
  BY <1>8, <1>10 DEF Tells
<1> QED BY <1>5, <1>7, <1>10, <1>11 DEF Reports, w, m

(* The holder of a nickname holds it.                                      *)
LEMMA HolderIs ==
  ASSUME NEW at, NEW n
  PROVE  /\ \A p \in People : at.nick[p] = n =>
               Holder(at, n) \in People /\ at.nick[Holder(at, n)] = n
         /\ (\A p \in People : at.nick[p] # n) => Holder(at, n) = Nobody
         /\ Holder(at, n) \in People \union {Nobody}
         /\ Holder(at, n) \in People => at.nick[Holder(at, n)] = n
<1>1. Nobody \notin People
  BY RostersAssumption
<1> QED BY <1>1 DEF Holder

LEMMA JoinedReports ==
  ASSUME NEW u, WorldOK(u), NEW c \in Channels, c \notin u.meIn
  PROVE  LET w == [u EXCEPT !.meIn = @ \union {c}]
             a == Line("me_join", c, NoNick, w)
             b == MembersLine(c, w)
         IN /\ WorldOK(w) /\ w.chunks = u.chunks
            /\ a \in GoodLines /\ a.kind = "me_join" /\ a.channel = c /\ a.at = At(w)
            /\ b \in GoodLines /\ b.kind = "names" /\ b.channel = c /\ b.at = At(w)
            /\ Tells(At(u), a) /\ Tells(At(w), b)
<1> DEFINE w == [u EXCEPT !.meIn = @ \union {c}]
           a == Line("me_join", c, NoNick, w)
           N(n) == LET p == Holder(At(w), n) IN
                   IF p = Nobody THEN -1
                   ELSE IF c \in w.in[p] THEN Highest(w.roles[c][p]) ELSE -1
           names == [n \in Nicks |-> N(n)]
           b == [Line("names", c, NoNick, w) EXCEPT !.names = names]
           meIn == u.meIn \union {c}
<1>1. u \in Worlds /\ meIn \in SUBSET Channels
  BY DEF WorldOK, Worlds
<1>2. w = [u EXCEPT !.meIn = meIn] /\ b = MembersLine(c, w)
  BY <1>1 DEF Worlds, MembersLine
<1> HIDE DEF w, a, meIn, names, b
<1>4. WorldIs(w, u, u.nick, u.in, u.login, u.roles, meIn)
  BY <1>1, <1>2, WorldFields DEF Worlds
<1>5. w \in Worlds /\ w.chunks = u.chunks /\ w.meIn = meIn /\ w.in = u.in /\ w.nick = u.nick
  BY <1>4 DEF WorldIs
<1>7. WorldOK(w)
  BY <1>5 DEF WorldOK
<1>8. /\ c \notin At(u).meIn /\ At(w).meIn = At(u).meIn \union {c}
      /\ \A q \in People : /\ At(w).in[q] \ {c} = At(u).in[q]
                           /\ At(w).nick[q] = At(u).nick[q]
  BY <1>5, AtFields DEF meIn
<1>9. At(w) \in Ats
  BY <1>5, AtType
<1>10. a \in GoodLines /\ a.kind = "me_join" /\ a.at = At(w) /\ a.channel = c
  <2>2. LineFields(a, "me_join", c, NoNick, NoNick, A!Unsaid, NoLevel, NoGrant, 0, NoRole, At(w))
    BY LineMade DEF a
  <2>3. LineFit("me_join", c, NoNick, NoNick, A!Unsaid, NoLevel, NoGrant, 0, NoRole, At(w))
    BY <1>9, PlainNames DEF LineFit, NoGrant, AboutChannel, AboutNick
  <2> QED BY <2>2, <2>3, LineGood
<1>11. Tells(At(u), a)
  BY <1>8, <1>10 DEF Tells
<1>12. \A p \in People : /\ Highest(w.roles[c][p]) \in Levels \union {NoLevel}
                         /\ Highest(w.roles[c][p]) >= 0
                         /\ c \in At(w).in[p] <=> c \in w.in[p]
  <2> TAKE p \in People
  <2>1. w.roles[c][p] \in SUBSET Levels
    BY <1>5 DEF Worlds
  <2>2. Highest(w.roles[c][p]) \in Levels \union {NoLevel}
    BY <2>1, HighestIs
  <2>3. \A x \in Levels \union {NoLevel} : x >= 0
    BY RostersAssumption DEF NoLevel
  <2>4. c \in At(w).in[p] <=> c \in w.in[p]
    BY <1>5, AtFields DEF meIn
  <2> QED BY <2>2, <2>3, <2>4
<1>13. \A n \in Nicks : N(n) \in Levels \union {NoLevel, -1}
  BY <1>12, HolderIs
<1>14. \A n \in Nicks : N(n) >= 0 <=> \E p \in People : c \in At(w).in[p] /\ At(w).nick[p] = n
  <2> TAKE n \in Nicks
  <2> DEFINE p == Holder(At(w), n)
             at == At(w)
  <2>0. at.nick = w.nick
    BY AtFields
  <2>1. p = Nobody => \A q \in People : at.nick[q] # n
    BY HolderIs, RostersAssumption
  <2>2. p # Nobody => p \in People /\ at.nick[p] = n /\ \A q \in People : at.nick[q] = n => q = p
    <3>1. n # NoNick
      BY FixedValues
    <3>2. p # Nobody => p \in People /\ at.nick[p] = n
      BY HolderIs
    <3>3. \A r, q \in People : at.nick[r] = at.nick[q] /\ at.nick[r] # NoNick => r = q
      BY <1>7, <2>0 DEF WorldOK
    <3> HIDE DEF p, at
    <3> QED BY <3>1, <3>2, <3>3
  <2>3. N(n) = IF p = Nobody THEN -1 ELSE IF c \in w.in[p] THEN Highest(w.roles[c][p]) ELSE -1
    OBVIOUS
  <2>4. p \in People => Highest(w.roles[c][p]) >= 0 /\ (c \in at.in[p] <=> c \in w.in[p])
    BY <1>12
  <2> HIDE DEF p, N, at
  <2>5. N(n) >= 0 <=> \E q \in People : c \in at.in[q] /\ at.nick[q] = n
    BY <2>1, <2>2, <2>3, <2>4
  <2> QED BY <2>5 DEF at
<1> HIDE DEF N
<1>15. b \in GoodLines /\ b.kind = "names" /\ b.at = At(w) /\ b.channel = c /\ b.names = names
  <2>2. LineFields(b, "names", c, NoNick, NoNick, A!Unsaid, NoLevel, NoGrant, 0, names, At(w))
    BY LineMade DEF b
  <2>4. names \in [Nicks -> Levels \union {NoLevel, -1}]
    BY <1>13 DEF names
  <2>3. LineFit("names", c, NoNick, NoNick, A!Unsaid, NoLevel, NoGrant, 0, names, At(w))
    BY <1>9, <2>4, PlainNames DEF LineFit, NoGrant, AboutChannel, AboutNick
  <2> QED BY <2>2, <2>3, LineGood
<1>16. {k \in Nicks : names[k] >= 0} = InIt(At(w), c)
  <2> DEFINE at == At(w)
  <2>1. \A n \in Nicks : names[n] >= 0 <=> \E p \in People : c \in at.in[p] /\ at.nick[p] = n
    BY <1>14 DEF names
  <2>2. \A p \in People : c \in at.in[p] => at.nick[p] \in Nicks
    BY <1>7, AtFields DEF WorldOK
  <2> HIDE DEF at
  <2>3. {k \in Nicks : names[k] >= 0} = InIt(at, c)
    BY <2>1, <2>2 DEF InIt
  <2> QED BY <2>3 DEF at
<1>17. Tells(At(w), b)
  <2>1. AllStill(At(w), At(w)) /\ c \in At(w).meIn
    BY <1>5, AtFields DEF AllStill, Still, meIn
  <2> QED BY <1>15, <1>16, <2>1 DEF Tells
<1> QED BY <1>2, <1>5, <1>7, <1>10, <1>11, <1>15, <1>17 DEF w, a

(* The type invariant.                                                     *)
Typed ==
    /\ WorldOK(world)
    /\ link \in Seq(GoodLines) /\ whoReply \in Seq(WhoLineSet) /\ out \in Seq(Commands)
    /\ WorkerOK(worker) /\ worker.accounts.events = <<>>
    /\ mirror \in Mirrors /\ mirror = Plain(worker.accounts.users)
    /\ ghost.seen \in Ats /\ ghost.strayed \subseteq P!LiveIds(worker.index)
    /\ ghost.owner \in [P!Ids -> People \union {Nobody}]
    /\ ghost.told \in [Channels -> [People -> SUBSET Levels]]

LEMMA InitTyped ==
  Init => Typed
<1> SUFFICES ASSUME Init PROVE Typed
  OBVIOUS
<1>1. PICK in \in [People -> SUBSET Channels], roled \in SUBSET Regulars, chunks \in BOOLEAN :
          world = [chunks |-> chunks,
                   nick |-> CHOOSE f \in [People -> Nicks] : IsInjective(f),
                   in |-> in,
                   login |-> [p \in People |-> IF p \in Regulars
                                               THEN CHOOSE login \in Logins : TRUE
                                               ELSE A!LoggedOut],
                   roles |-> [c \in Channels |-> [p \in People |->
                       IF p \in roled /\ c \in in[p] THEN Levels ELSE {}]],
                   meIn |-> {}]
  BY DEF Init
<1>2. WorldOK(world)
  <2>1. /\ world.nick \in [People -> Nicks]
        /\ \A p, q \in People : world.nick[p] = world.nick[q] => p = q
    <3>1. \E f \in [People -> Nicks] : \A a, b \in People : f[a] = f[b] => a = b
      BY RostersAssumption, InjectionExists
    <3>2. \E f \in [People -> Nicks] : IsInjective(f)
      BY <3>1 DEF IsInjective
    <3> DEFINE f == CHOOSE f \in [People -> Nicks] : IsInjective(f)
    <3>3. f \in [People -> Nicks] /\ IsInjective(f)
      BY <3>2
    <3>4. world.nick = f
      BY <1>1
    <3> HIDE DEF f
    <3> QED BY <3>3, <3>4 DEF IsInjective
  <2>2. world.login \in [People -> Logins \union {A!LoggedOut}]
    <3> DEFINE L(p) == IF p \in Regulars THEN CHOOSE login \in Logins : TRUE ELSE A!LoggedOut
    <3>1. \A p \in People : L(p) \in Logins \union {A!LoggedOut}
      BY RostersAssumption
    <3>2. world.login = [p \in People |-> L(p)]
      BY <1>1
    <3> HIDE DEF L
    <3> QED BY <3>1, <3>2
  <2>3. world.roles \in [Channels -> [People -> SUBSET Levels]]
    BY <1>1
  <2> DEFINE n == world.nick
             l == world.login
             r == world.roles
  <2>4. world = [chunks |-> chunks, nick |-> n, in |-> in, login |-> l, roles |-> r,
                 meIn |-> {}]
    BY <1>1
  <2>5. n \in [People -> Nicks] /\ l \in [People -> Logins \union {A!LoggedOut}]
        /\ r \in [Channels -> [People -> SUBSET Levels]]
    BY <2>1, <2>2, <2>3
  <2> HIDE DEF n, l, r
  <2>6. world \in Worlds
    BY <2>4, <2>5 DEF Worlds
  <2> QED BY <2>1, <2>6 DEF WorldOK
<1>3. link \in Seq(GoodLines) /\ whoReply \in Seq(WhoLineSet) /\ out \in Seq(Commands)
  BY DEF Init
<1>4. PICK tracked \in BOOLEAN :
       worker = [listed |-> {},
                 list |-> [c \in Channels |-> {}],
                 level |-> [c \in Channels |-> [n \in Nicks |-> {}]],
                 ranked |-> [c \in Channels |-> NoRole],
                 renamed |-> [c \in Channels |-> NoRole],
                 index |-> P!EmptyIndex,
                 accounts |-> A!NoAccounts,
                 tracked |-> tracked]
  BY <1>1 DEF Init
<1>5. A!NoAccounts \in AccountRecords /\ A!NoAccounts.events = <<>>
      /\ A!NoAccounts.users = [n \in Nicks |-> A!Unknown]
  <2>1. A!Unknown \in A!Entries
    BY DEF A!Unknown, A!Entries
  <2>2. A!NoQuery \in Queries
    BY DEF Queries
  <2> DEFINE k == A!Unknown
             q == A!NoQuery
             u == [n \in Nicks |-> k]
  <2>3. A!NoAccounts = [users |-> u, queue |-> <<>>, query |-> q, token |-> 0, events |-> <<>>]
    BY DEF A!NoAccounts
  <2> HIDE DEF k, q
  <2>4. u \in Mirrors /\ q \in Queries
    BY <2>1, <2>2 DEF Mirrors, k, q
  <2>6. u = [n \in Nicks |-> A!Unknown]
    BY DEF k
  <2> HIDE DEF u
  <2>5. A!NoAccounts \in AccountRecords
    BY <2>3, <2>4 DEF AccountRecords
  <2> QED BY <2>3, <2>5, <2>6
<1>6. P!EmptyIndex \in P!Indexes /\ P!Consistent(P!EmptyIndex)
  BY OperationsKeepAgreement, FixedValues
<1>7. WorkerOK(worker) /\ worker.accounts = A!NoAccounts /\ worker.index = P!EmptyIndex
  <2> DEFINE x == P!EmptyIndex
             a == A!NoAccounts
             e == [c \in Channels |-> {}]
             v == [c \in Channels |-> [n \in Nicks |-> {}]]
             r == [c \in Channels |-> NoRole]
  <2>1. worker = [listed |-> {}, list |-> e, level |-> v, ranked |-> r, renamed |-> r,
                  index |-> x, accounts |-> a, tracked |-> tracked]
    BY <1>4
  <2>2. e \in [Channels -> SUBSET Nicks] /\ v \in [Channels -> [Nicks -> SUBSET Levels]]
        /\ r \in [Channels -> Names]
    BY NoRoleIsNames
  <2>3. x \in P!Indexes /\ a \in AccountRecords /\ P!Consistent(x)
    BY <1>5, <1>6
  <2> HIDE DEF x, a, e, v, r
  <2>4. worker \in Workers
    BY <2>1, <2>2, <2>3 DEF Workers
  <2>5. IsFiniteSet({})
    BY FS_EmptySet
  <2>6. worker.listed = {} /\ worker.index = x /\ worker.accounts = a
    BY <2>1
  <2> QED BY <2>3, <2>4, <2>5, <2>6 DEF WorkerOK, x, a
<1>8. mirror = [n \in Nicks |-> A!Unknown]
  BY DEF Init
<1>9. mirror \in Mirrors /\ mirror = Plain(worker.accounts.users)
  <2>1. A!Unknown \in A!Entries /\ Bare(A!Unknown) = A!Unknown
    BY DEF A!Unknown, A!Entries, Bare
  <2>2. mirror \in Mirrors
    BY <1>8, <2>1 DEF Mirrors
  <2>3. \A n \in Nicks : Plain(mirror)[n] = Bare(mirror[n])
    BY <2>2, PlainEntries
  <2>4. \A n \in Nicks : Plain(mirror)[n] = A!Unknown
    BY <1>8, <2>1, <2>3
  <2>5. Plain(mirror) = [n \in Nicks |-> Plain(mirror)[n]]
    BY DEF Plain
  <2>6. Plain(mirror) = mirror
    BY <1>8, <2>4, <2>5
  <2> QED BY <1>5, <1>7, <1>8, <2>2, <2>6
<1>10. /\ ghost.seen = At(world) /\ ghost.strayed = {}
       /\ ghost.owner \in [P!Ids -> People \union {Nobody}]
       /\ ghost.told \in [Channels -> [People -> SUBSET Levels]]
  BY DEF Init
<1>11. ghost.seen \in Ats
  BY <1>2, <1>10, AtType DEF WorldOK
<1> QED BY <1>2, <1>3, <1>5, <1>7, <1>9, <1>10, <1>11 DEF Typed

(* What the worker keeps once it has asked what there is to be asked.      *)
Asked(a, expired) == [A!NextWho(a, expired) EXCEPT !.events = <<>>]

Asks(a, next, expired) ==
    /\ A!AsksNext(a, expired) =>
          /\ next.query.channel \in Channels /\ next.token \in 1..999
          /\ next.query = [channel |-> Head(a.queue), token |-> next.token, departed |-> {}]
          /\ next.queue = Tail(a.queue) /\ next.token = (a.token % 999) + 1
    /\ ~A!AsksNext(a, expired) =>
          /\ next.query = IF expired THEN A!NoQuery ELSE a.query
          /\ next.queue = a.queue /\ next.token = a.token

AccountsAre(a, users, queue, query, token, told) ==
    a = [users |-> users, queue |-> queue, query |-> query, token |-> token, events |-> told]

LEMMA AccountsMade ==
  ASSUME NEW users, NEW queue, NEW query, NEW token, NEW told, NEW a,
         AccountsAre(a, users, queue, query, token, told), NEW x
  PROVE  /\ AccountsAre([a EXCEPT !.queue = x], users, x, query, token, told)
         /\ AccountsAre([a EXCEPT !.query = x], users, queue, x, token, told)
         /\ AccountsAre([a EXCEPT !.token = x], users, queue, query, x, told)
BY DEF AccountsAre

LEMMA NextWhoFields ==
  ASSUME NEW a \in AccountRecords, NEW expired \in BOOLEAN
  PROVE  LET next == A!NextWho(a, expired)
             z == Asked(a, expired)
         IN /\ next \in AccountRecords /\ next.users = a.users
            /\ z \in AccountRecords /\ z.users = a.users /\ z.events = <<>>
            /\ z.query = next.query /\ z.token = next.token /\ z.queue = next.queue
            /\ Asks(a, next, expired)
<1> DEFINE token == (a.token % 999) + 1
           q == [channel |-> Head(a.queue), token |-> token, departed |-> {}]
           next == A!NextWho(a, expired)
           z == [next EXCEPT !.events = <<>>]
           k == IF A!AsksNext(a, expired) THEN q ELSE IF expired THEN A!NoQuery ELSE a.query
           t == IF A!AsksNext(a, expired) THEN token ELSE a.token
           u == IF A!AsksNext(a, expired) THEN Tail(a.queue) ELSE a.queue
<1>1. a.queue \in Seq(Channels) /\ a.token \in 0..999 /\ a.query \in Queries
  BY DEF AccountRecords
<1>2. token \in 1..999
  <2>1. a.token \in 0..999
    BY <1>1
  <2> QED BY <2>1
<1>3. A!AsksNext(a, expired) => a.queue # <<>>
  BY DEF A!AsksNext
<1> HIDE DEF token
<1>4. k \in Queries /\ t \in 0..999 /\ u \in Seq(Channels)
  <2>1. CASE A!AsksNext(a, expired)
    BY <1>1, <1>2, <1>3, <2>1 DEF Queries
  <2>2. CASE ~A!AsksNext(a, expired)
    BY <1>1, <2>2 DEF Queries
  <2> QED BY <2>1, <2>2
<1>4a. a = [users |-> a.users, queue |-> a.queue, query |-> a.query, token |-> a.token,
            events |-> a.events]
  BY DEF AccountRecords
<1>5. next = [users |-> a.users, queue |-> u, query |-> k, token |-> t, events |-> a.events]
  <2> DEFINE f == IF expired THEN A!NoQuery ELSE a.query
             free == IF expired THEN [a EXCEPT !.query = A!NoQuery] ELSE a
  <2>1. free = [users |-> a.users, queue |-> a.queue, query |-> f, token |-> a.token,
                events |-> a.events]
    BY <1>4a
  <2>2. next = IF ~A!AsksNext(a, expired) THEN free
               ELSE [free EXCEPT !.queue = Tail(@), !.token = token, !.query = q]
    BY DEF A!NextWho, token
  <2>3. free.queue = a.queue
    BY <2>1
  <2> HIDE DEF free, q, f
  <2>4. [free EXCEPT !.queue = Tail(@), !.token = token, !.query = q]
           = [users |-> a.users, queue |-> Tail(a.queue), query |-> q, token |-> token,
              events |-> a.events]
    <3> DEFINE h == Tail(a.queue)
               r == [free EXCEPT !.queue = h]
               s == [r EXCEPT !.token = token]
               x == [s EXCEPT !.query = q]
    <3>1. [free EXCEPT !.queue = Tail(@), !.token = token, !.query = q] = x
      BY <2>3
    <3> HIDE DEF h
    <3>a. AccountsAre(free, a.users, a.queue, f, a.token, a.events)
      BY <2>1 DEF AccountsAre
    <3>2. AccountsAre(r, a.users, h, f, a.token, a.events)
      BY <3>a, AccountsMade
    <3> HIDE DEF r
    <3>3. AccountsAre(s, a.users, h, f, token, a.events)
      BY <3>2, AccountsMade
    <3> HIDE DEF s
    <3>4. AccountsAre(x, a.users, h, q, token, a.events)
      BY <3>3, AccountsMade
    <3> HIDE DEF x
    <3>5. x = [users |-> a.users, queue |-> h, query |-> q, token |-> token,
               events |-> a.events]
      BY <3>4 DEF AccountsAre
    <3> QED BY <3>1, <3>5 DEF h
  <2> QED BY <2>1, <2>2, <2>4 DEF f
<1> HIDE DEF next
<1>6. /\ next \in AccountRecords /\ next.query = k /\ next.token = t /\ next.queue = u
      /\ next.users = a.users
  <2>1. a.users \in Mirrors /\ a.events \in Seq(AccountEvents)
    BY DEF AccountRecords
  <2> HIDE DEF k, t, u
  <2> QED BY <1>4, <1>5, <2>1 DEF AccountRecords
<1>7. /\ z \in AccountRecords /\ z.users = next.users /\ z.events = <<>>
      /\ z.query = next.query /\ z.token = next.token /\ z.queue = next.queue
  <2>1. <<>> \in Seq(AccountEvents)
    OBVIOUS
  <2> QED BY <1>6, <2>1, ZenonT(30) DEF AccountRecords
<1>8. ASSUME A!AsksNext(a, expired)
      PROVE  /\ next.query.channel \in Channels /\ next.token \in 1..999
             /\ next.query = [channel |-> Head(a.queue), token |-> next.token, departed |-> {}]
             /\ next.queue = Tail(a.queue) /\ next.token = (a.token % 999) + 1
  <2>1. next.query = q /\ next.token = token /\ next.queue = Tail(a.queue)
    BY <1>6, <1>8
  <2>2. Head(a.queue) \in Channels
    BY <1>1, <1>3, <1>8
  <2> QED BY <1>2, <2>1, <2>2, SMTT(30) DEF token
<1>9. ASSUME ~A!AsksNext(a, expired)
      PROVE  /\ next.query = IF expired THEN A!NoQuery ELSE a.query
             /\ next.queue = a.queue /\ next.token = a.token
  BY <1>6, <1>9
<1>10. Asks(a, next, expired)
  BY <1>8, <1>9 DEF Asks
<1> QED BY <1>6, <1>7, <1>10 DEF next, Asked

(* What a line leaves of the worker and tells the window.                  *)
HandledWorker(w, m, expired) ==
    [Published(w, m) EXCEPT
        !.accounts = Asked(Published(w, m).accounts, expired)]

LEMMA HandledFields ==
  ASSUME NEW w, WorkerOK(w), NEW m, LineOK(m), NEW expired \in BOOLEAN
  PROVE  LET v == HandledWorker(w, m, expired)
             new == Published(w, m)
         IN /\ WorkerOK(v) /\ SameLists(new, v) /\ WorkerOK(new)
            /\ v.ranked = new.ranked /\ v.renamed = new.renamed /\ v.index = new.index
            /\ v.accounts = Asked(new.accounts, expired)
            /\ v.accounts.users = new.accounts.users /\ v.accounts.events = <<>>
<1> DEFINE new == Published(w, m)
           z == Asked(new.accounts, expired)
           v == HandledWorker(w, m, expired)
<1>1. WorkerOK(new) /\ new \in Workers
  BY PublishedType DEF WorkerOK
<1>2. v = [new EXCEPT !.accounts = z]
  BY DEF HandledWorker
<1> HIDE DEF new, v
<1>3. new.accounts \in AccountRecords
  BY <1>1 DEF Workers
<1>4. z \in AccountRecords /\ z.users = new.accounts.users /\ z.events = <<>>
  BY <1>3, NextWhoFields
<1> HIDE DEF z
<1>5. Ours(new, v, new.ranked, new.renamed, new.index, z)
  BY <1>1, <1>2, <1>4, OurFields DEF Workers
<1>6. WorkerOK(v)
  BY <1>1, <1>5 DEF Ours, WorkerOK, SameLists
<1> QED BY <1>1, <1>4, <1>5, <1>6 DEF Ours, new, v, z

(* Taking a line keeps the variables what they are.                        *)
LEMMA DeliverTyped ==
  ASSUME Typed, NEW expired \in BOOLEAN, Deliver(expired)
  PROVE  Typed'
<1> DEFINE m == Head(link)
           w == Listed(worker, m)
           new == Published(w, m)
           next == A!NextWho(new.accounts, expired)
<1>1. m \in GoodLines /\ LineOK(m) /\ link' \in Seq(GoodLines)
  <2>1. link # <<>> /\ link \in Seq(GoodLines) /\ link' = Tail(link)
    BY DEF Deliver, Typed
  <2> QED BY <2>1 DEF GoodLines
<1>2. /\ WorkerOK(w) /\ SameOurs(worker, w)
  BY <1>1, ListedType DEF Typed
<1>3. Handle(w, m, expired) /\ UNCHANGED <<world, whoReply, shown, chosen>>
  BY DEF Deliver
<1>4. /\ worker' = HandledWorker(w, m, expired)
      /\ mirror' = FoldLeft(A!Mirrored, mirror, new.accounts.events)
      /\ out' = IF A!AsksNext(new.accounts, expired)
                THEN Append(out, [kind |-> "who", channel |-> next.query.channel,
                                  token |-> next.token])
                ELSE out
      /\ ghost' = Remembered(w, new, m)
  BY <1>3 DEF Handle, HandledWorker, Asked
<1> HIDE DEF m, w
<1>5. /\ WorkerOK(new) /\ Follows(w.accounts, new.accounts) /\ new.accounts \in AccountRecords
  BY <1>1, <1>2, PublishedType DEF WorkerOK, Workers
<1> HIDE DEF new, next
<1>6. /\ WorkerOK(worker') /\ worker'.index = new.index
      /\ worker'.accounts.users = new.accounts.users /\ worker'.accounts.events = <<>>
  <2>1. LineOK(m) /\ WorkerOK(w) /\ worker' = HandledWorker(w, m, expired)
    BY <1>1, <1>2, <1>4
  <2> QED BY <2>1, HandledFields DEF new
<1>7. mirror' \in Mirrors /\ mirror' = Plain(new.accounts.users)
  <2> DEFINE a == worker.accounts
  <2>1. a.events = <<>> /\ mirror \in Mirrors /\ mirror = Plain(a.users) /\ Accounts(a)
        /\ w.accounts = a
    BY <1>2, Records DEF Typed, WorkerOK, Workers, SameOurs
  <2> HIDE DEF a
  <2>2. FoldLeft(A!Mirrored, mirror, <<>>) = mirror
    BY <2>1, MirrorAppend DEF Accounts
  <2>3. Told(mirror, a)
    BY <2>1, <2>2 DEF Told
  <2>4. Told(mirror, new.accounts)
    BY <1>5, <2>1, <2>3 DEF Follows
  <2>5. mirror' = Plain(new.accounts.users) /\ new.accounts.users \in Mirrors
    BY <1>4, <2>4 DEF Told, Accounts
  <2> QED BY <2>5, PlainIsMirror
<1>8. out' \in Seq(Commands)
  <2>1. A!AsksNext(new.accounts, expired) => next.query.channel \in Channels /\ next.token \in 1..999
    <3>1. Asks(new.accounts, next, expired)
      BY <1>5, NextWhoFields DEF next
    <3> QED BY <3>1 DEF Asks
  <2>2. A!AsksNext(new.accounts, expired) =>
           [kind |-> "who", channel |-> next.query.channel, token |-> next.token] \in Commands
    BY <2>1 DEF Commands
  <2>3. out \in Seq(Commands)
    BY DEF Typed
  <2> QED BY <1>4, <2>2, <2>3
<1>9. /\ ghost'.seen \in Ats /\ ghost'.strayed \subseteq P!LiveIds(new.index)
      /\ ghost'.owner \in [P!Ids -> People \union {Nobody}]
      /\ ghost'.told \in [Channels -> [People -> SUBSET Levels]]
  <2> DEFINE p == Holder(m.at, m.nick)
             told == ghost.told
             c == m.channel
             D == [d \in Channels |->
                     [q \in People |-> IF d \in {c} \/ m.kind = "quit"
                                       THEN IF ghost.seen.nick[q] = m.nick THEN {}
                                            ELSE told[d][q]
                                       ELSE told[d][q]]]
             N == [q \in People |-> LET n == m.at.nick[q]
                                    IN IF n = NoNick THEN {} ELSE {m.names[n]} \ {-1, NoLevel}]
             E == [q \in People |-> {}]
             M == [told EXCEPT ![c][p] = IF m.grant THEN @ \union {m.level} ELSE @ \ {m.level}]
             T == [Channels -> [People -> SUBSET Levels]]
  <2>1. ghost'.seen = m.at /\ ghost'.strayed \subseteq P!LiveIds(new.index)
    BY <1>4 DEF Remembered
  <2>2. m.at \in Ats /\ (m.kind = "mode" => m.level \in Levels)
        /\ m.names \in [Nicks -> Levels \union {NoLevel, -1}]
    BY <1>1 DEF LineOK, Lines
  <2>3. ghost'.owner = [i \in P!Ids |->
                      IF i \notin P!LiveIds(new.index) THEN Nobody
                      ELSE IF i \in P!LiveIds(w.index) THEN ghost.owner[i]
                      ELSE Holder(m.at, new.index.key[i])]
    BY <1>4 DEF Remembered
  <2>4. ghost.owner \in [P!Ids -> People \union {Nobody}] /\ told \in T
    BY DEF Typed
  <2>5. ghost'.owner \in [P!Ids -> People \union {Nobody}]
    <3> DEFINE O(i) == IF i \notin P!LiveIds(new.index) THEN Nobody
                       ELSE IF i \in P!LiveIds(w.index) THEN ghost.owner[i]
                       ELSE Holder(m.at, new.index.key[i])
    <3>1. \A i \in P!Ids : O(i) \in People \union {Nobody}
      BY <2>4, HolderIs
    <3>2. ghost'.owner = [i \in P!Ids |-> O(i)]
      BY <2>3
    <3> HIDE DEF O
    <3> QED BY <3>1, <3>2
  <2>6. ghost'.told = CASE m.kind = "mode" -> M
                        [] m.kind \in {"part", "quit"} -> D
                        [] m.kind = "names" -> [told EXCEPT ![c] = N]
                        [] m.kind \in {"me_part", "me_kick"} -> [told EXCEPT ![c] = E]
                        [] OTHER -> told
    BY <1>4 DEF Remembered
  <2>7. D \in T /\ [told EXCEPT ![c] = E] \in T
    BY <2>4
  <2>8. [told EXCEPT ![c] = N] \in T
    <3>1. N \in [People -> SUBSET Levels]
      BY <2>2 DEF Ats
    <3> HIDE DEF N
    <3> QED BY <2>4, <3>1
  <2>9. m.kind = "mode" => M \in T
    <3> DEFINE x == [told[c] EXCEPT ![p] = IF m.grant THEN @ \union {m.level} ELSE @ \ {m.level}]
    <3>1. M = [told EXCEPT ![c] = x]
      OBVIOUS
    <3>2. m.kind = "mode" /\ c \in Channels => x \in [People -> SUBSET Levels]
      <4>1. ASSUME m.kind = "mode", c \in Channels PROVE x \in [People -> SUBSET Levels]
        <5> DEFINE y == told[c]
                   k(s) == IF m.grant THEN s \union {m.level} ELSE s \ {m.level}
        <5>1. y \in [People -> SUBSET Levels] /\ m.level \in Levels
          BY <2>2, <2>4, <4>1
        <5>2. x = [y EXCEPT ![p] = k(y[p])]
          OBVIOUS
        <5>3. \A s \in SUBSET Levels : k(s) \in SUBSET Levels
          BY <5>1
        <5> HIDE DEF y, k, x
        <5> QED BY <5>1, <5>2, <5>3
      <4> QED BY <4>1
    <3> HIDE DEF x, M
    <3> QED BY <2>4, <3>1, <3>2
  <2> HIDE DEF D, E, M, N, T
  <2>10. ghost'.told \in T
    <3>1. m.kind = "mode" => ghost'.told = M
      BY <2>6
    <3>2. m.kind \in {"part", "quit"} => ghost'.told = D
      BY <2>6
    <3>3. m.kind = "names" => ghost'.told = [told EXCEPT ![c] = N]
      BY <2>6
    <3>4. m.kind \in {"me_part", "me_kick"} => ghost'.told = [told EXCEPT ![c] = E]
      BY <2>6
    <3>5. m.kind \notin {"mode", "part", "quit", "names", "me_part", "me_kick"}
             => ghost'.told = told
      BY <2>6
    <3> HIDE DEF told
    <3> QED BY <2>4, <2>7, <2>8, <2>9, <3>1, <3>2, <3>3, <3>4, <3>5
  <2> QED BY <2>1, <2>2, <2>5, <2>10 DEF T
<1> QED BY <1>1, <1>3, <1>6, <1>7, <1>8, <1>9 DEF Typed

LEMMA ReportsLines ==
  ASSUME NEW u, NEW w, NEW lines, Reports(u, w, lines)
  PROVE  WorldOK(w) /\ lines \in Seq(GoodLines)
<1>1. CASE lines = <<>>
  BY <1>1 DEF Reports
<1>2. ASSUME NEW m \in GoodLines, lines = <<m>> PROVE lines \in Seq(GoodLines)
  BY <1>2
<1>3. WorldOK(w) /\ (lines = <<>> \/ \E m \in GoodLines : lines = <<m>>)
  BY DEF Reports
<1> QED BY <1>1, <1>2, <1>3

(* A move of the people: what it does to the world, and the line we get.   *)
LEMMA MovesTyped ==
  ASSUME Typed, NEW w, NEW lines, Moves(w, lines), Reports(world, w, lines)
  PROVE  Typed'
<1>1. /\ world' = w /\ link' = link \o lines
      /\ UNCHANGED <<whoReply, out, worker, mirror, ghost>>
  BY DEF Moves
<1>2. WorldOK(w) /\ lines \in Seq(GoodLines)
  BY ReportsLines
<1>3. link \in Seq(GoodLines)
  BY DEF Typed
<1>4. link' \in Seq(GoodLines)
  BY <1>1, <1>2, <1>3
<1> QED BY <1>1, <1>2, <1>4 DEF Typed

(* Every move of people sends a line that tells it, or is not seen.        *)
LEMMA PeopleReport ==
  ASSUME Typed,
         \/ \E p \in People, c \in Channels, n \in Nicks : PersonJoins(p, c, n)
         \/ \E p \in People, c \in Channels : PersonLeaves(p, c)
         \/ \E p \in People : PersonQuits(p)
         \/ \E p \in People, n \in Nicks : PersonRenames(p, n)
         \/ \E p \in People, login \in Logins \union {A!LoggedOut} : PersonLogsIn(p, login)
         \/ \E p \in People, c \in Channels, level \in Levels : RoleChanges(p, c, level)
         \/ \E c \in Channels, kind \in {"me_part", "me_kick"} : RemovesUs(c, kind)
  PROVE  \E w, lines : Moves(w, lines) /\ Reports(world, w, lines)
<1>0. WorldOK(world)
  BY DEF Typed
<1>1. ASSUME NEW p \in People, NEW c \in Channels, NEW n \in Nicks, PersonJoins(p, c, n)
      PROVE  \E w, lines : Moves(w, lines) /\ Reports(world, w, lines)
  <2> DEFINE w == [world EXCEPT !.nick[p] = n, !.in[p] = @ \union {c}]
             line == [Line("join", c, n, w) EXCEPT
                         !.account = IF ExtendedJoin THEN w.login[p] ELSE @]
             lines == IF c \in world.meIn THEN <<line>> ELSE <<>>
  <2>1. Moves(w, lines) /\ c \notin world.in[p]
        /\ (n = world.nick[p] \/ (world.nick[p] = NoNick /\ n \notin Taken))
    BY <1>1 DEF PersonJoins
  <2>2. n = world.nick[p] \/ (world.nick[p] = NoNick /\ \A q \in People : world.nick[q] # n)
    BY <2>1 DEF Taken
  <2>3. Reports(world, w, lines)
    BY <1>0, <2>1, <2>2, JoinReports
  <2> QED BY <2>1, <2>3
<1>2. ASSUME NEW p \in People, NEW c \in Channels, PersonLeaves(p, c)
      PROVE  \E w, lines : Moves(w, lines) /\ Reports(world, w, lines)
  <2> DEFINE w == [world EXCEPT !.in[p] = @ \ {c}, !.roles[c][p] = {}]
             lines == IF c \in world.meIn THEN <<Line("part", c, world.nick[p], w)>> ELSE <<>>
  <2>1. Moves(w, lines) /\ c \in world.in[p]
    BY <1>2 DEF PersonLeaves
  <2>3. Reports(world, w, lines)
    BY <1>0, <2>1, LeaveReports
  <2> QED BY <2>1, <2>3
<1>3. ASSUME NEW p \in People, PersonQuits(p)
      PROVE  \E w, lines : Moves(w, lines) /\ Reports(world, w, lines)
  <2> DEFINE w == [world EXCEPT !.nick[p] = NoNick, !.in[p] = {}, !.login[p] = A!LoggedOut,
                                !.roles = [c \in Channels |-> [@[c] EXCEPT ![p] = {}]]]
             lines == IF world.in[p] \intersect world.meIn # {}
                      THEN <<Line("quit", "-", world.nick[p], w)>> ELSE <<>>
  <2>1. Moves(w, lines) /\ world.nick[p] # NoNick
    BY <1>3 DEF PersonQuits, Shares
  <2>3. Reports(world, w, lines)
    BY <1>0, <2>1, QuitReports
  <2> QED BY <2>1, <2>3
<1>4. ASSUME NEW p \in People, NEW n \in Nicks, PersonRenames(p, n)
      PROVE  \E w, lines : Moves(w, lines) /\ Reports(world, w, lines)
  <2> DEFINE w == [world EXCEPT !.nick[p] = n]
             line == [Line("nick", "-", world.nick[p], w) EXCEPT !.to = n]
             lines == IF world.in[p] \intersect world.meIn # {} THEN <<line>> ELSE <<>>
  <2>1. Moves(w, lines) /\ world.nick[p] # NoNick /\ \A q \in People : world.nick[q] # n
    BY <1>4 DEF PersonRenames, Shares, Taken
  <2>3. Reports(world, w, lines)
    BY <1>0, <2>1, RenameReports
  <2> QED BY <2>1, <2>3
<1>5. ASSUME NEW p \in People, NEW login \in Logins \union {A!LoggedOut}, PersonLogsIn(p, login)
      PROVE  \E w, lines : Moves(w, lines) /\ Reports(world, w, lines)
  <2> DEFINE w == [world EXCEPT !.login[p] = login]
             line == [Line("account", "-", world.nick[p], w) EXCEPT !.account = login]
             lines == IF world.in[p] \intersect world.meIn # {} THEN <<line>> ELSE <<>>
  <2>1. Moves(w, lines) /\ world.nick[p] # NoNick
    BY <1>5 DEF PersonLogsIn, Shares
  <2>3. Reports(world, w, lines)
    BY <1>0, <2>1, LogInReports
  <2> QED BY <2>1, <2>3
<1>6. ASSUME NEW p \in People, NEW c \in Channels, NEW level \in Levels, RoleChanges(p, c, level)
      PROVE  \E w, lines : Moves(w, lines) /\ Reports(world, w, lines)
  <2> DEFINE grant == level \notin world.roles[c][p]
             w == [world EXCEPT !.roles[c][p] = IF grant THEN @ \union {level} ELSE @ \ {level}]
             line == [Line("mode", c, world.nick[p], w) EXCEPT !.level = level, !.grant = grant]
             lines == IF c \in world.meIn THEN <<line>> ELSE <<>>
  <2>1. Moves(w, lines) /\ c \in world.in[p]
    BY <1>6 DEF RoleChanges
  <2>3. Reports(world, w, lines)
    BY <1>0, <2>1, RoleReports
  <2> QED BY <2>1, <2>3
<1>7. ASSUME NEW c \in Channels, NEW kind \in {"me_part", "me_kick"}, RemovesUs(c, kind)
      PROVE  \E w, lines : Moves(w, lines) /\ Reports(world, w, lines)
  <2> DEFINE w == [world EXCEPT !.meIn = @ \ {c}]
             lines == <<Line(kind, c, NoNick, w)>>
  <2>1. Moves(w, lines) /\ c \in world.meIn
    BY <1>7 DEF RemovesUs
  <2>3. Reports(world, w, lines)
    BY <1>0, <2>1, RemovedReports
  <2> QED BY <2>1, <2>3
<1> QED BY <1>1, <1>2, <1>3, <1>4, <1>5, <1>6, <1>7

(* What the server makes of a command of ours.                             *)
Taking ==
    \/ /\ UNCHANGED <<world, link>>
       /\ whoReply' \in Seq(WhoLineSet)
    \/ \E a, b \in GoodLines :
          /\ link' = link \o <<a, b>> /\ UNCHANGED whoReply
          /\ WorldOK(world') /\ world'.chunks = world.chunks
          /\ a.kind = "me_join" /\ b.kind = "names" /\ b.channel = a.channel
          /\ Tells(At(world), a) /\ Tells(a.at, b) /\ b.at = At(world') /\ a.at = At(world')
    \/ \E lines : /\ link' = link \o lines /\ UNCHANGED whoReply
                  /\ Reports(world, world', lines)

(* What the server does with a command.                                    *)
LEMMA ServerTakesIs ==
  ASSUME Typed, ServerTakes
  PROVE  Taking /\ out' \in Seq(Commands)
         /\ UNCHANGED <<worker, events, shown, chosen, mirror, ghost, spent>>
<1> DEFINE h == Head(out)
           c == h.channel
           joined == [world EXCEPT !.meIn = @ \union {c}]
           parted == [world EXCEPT !.meIn = @ \ {c}]
           a == Line("me_join", c, NoNick, joined)
           b == MembersLine(c, joined)
           d == Line("me_part", c, NoNick, parted)
<1>1. /\ out # <<>> /\ whoReply = <<>> /\ out' = Tail(out)
      /\ UNCHANGED <<worker, events, shown, chosen, mirror, ghost, spent>>
  BY DEF ServerTakes
<1>2. out \in Seq(Commands) /\ WorldOK(world) /\ link \in Seq(GoodLines)
  BY DEF Typed
<1>3. h \in Commands /\ out' \in Seq(Commands)
  BY <1>1, <1>2
<1>4. c \in Channels /\ (h.kind = "who" => h.token \in 1..999)
  BY <1>3, ZenonT(30) DEF Commands
<1>5. (CASE h.kind = "join" /\ c \notin world.meIn ->
                  /\ world' = joined
                  /\ link' = link \o <<a, b>>
                  /\ UNCHANGED whoReply
            [] h.kind = "part" /\ c \in world.meIn ->
                  /\ world' = parted
                  /\ link' = Append(link, d)
                  /\ UNCHANGED whoReply
            [] h.kind = "who" ->
                  /\ whoReply' = WhoLines(c, h.token, world)
                  /\ UNCHANGED <<world, link>>
            [] OTHER -> UNCHANGED <<world, link, whoReply>>)
  BY DEF ServerTakes
<1> HIDE DEF h
<1>6. CASE h.kind = "join" /\ c \notin world.meIn
  <2>1. world' = joined /\ link' = link \o <<a, b>> /\ UNCHANGED whoReply
    BY <1>5, <1>6
  <2>2. /\ WorldOK(joined) /\ joined.chunks = world.chunks
        /\ a \in GoodLines /\ a.kind = "me_join" /\ a.channel = c /\ a.at = At(joined)
        /\ b \in GoodLines /\ b.kind = "names" /\ b.channel = c /\ b.at = At(joined)
        /\ Tells(At(world), a) /\ Tells(At(joined), b)
    BY <1>2, <1>4, <1>6, JoinedReports
  <2> HIDE DEF a, b, joined, c
  <2>3. /\ link' = link \o <<a, b>> /\ UNCHANGED whoReply
        /\ WorldOK(world') /\ world'.chunks = world.chunks
        /\ a.kind = "me_join" /\ b.kind = "names" /\ b.channel = a.channel
        /\ Tells(At(world), a) /\ Tells(a.at, b) /\ b.at = At(world') /\ a.at = At(world')
    BY <2>1, <2>2
  <2>4. Taking
    BY <2>2, <2>3 DEF Taking
  <2> QED BY <1>1, <1>3, <2>4
<1>7. CASE h.kind = "part" /\ c \in world.meIn
  <2>1. world' = parted /\ link' = Append(link, d) /\ UNCHANGED whoReply
    BY <1>5, <1>7
  <2>2. Reports(world, parted, <<d>>)
    BY <1>2, <1>7, RemovedReports
  <2>3. d \in GoodLines
    <3> HIDE DEF d
    <3> QED BY <2>2 DEF Reports
  <2> HIDE DEF d, parted
  <2>4. link' = link \o <<d>>
    BY <1>2, <2>1, <2>3
  <2>5. Taking
    BY <2>1, <2>2, <2>4 DEF Taking
  <2> QED BY <1>1, <1>3, <2>5
<1>8. CASE h.kind = "who"
  <2>1. whoReply' = WhoLines(c, h.token, world) /\ UNCHANGED <<world, link>>
    BY <1>5, <1>8
  <2>2. whoReply' \in Seq(WhoLineSet)
    BY <1>2, <1>4, <1>8, <2>1, WhoLinesType, ZenonT(30)
  <2> QED BY <1>1, <1>3, <2>1, <2>2 DEF Taking
<1>9. CASE h.kind # "who" /\ ~(h.kind = "join" /\ c \notin world.meIn)
           /\ ~(h.kind = "part" /\ c \in world.meIn)
  <2>1. UNCHANGED <<world, link, whoReply>>
    BY <1>5, <1>9
  <2>2. whoReply' \in Seq(WhoLineSet)
    BY <2>1 DEF Typed
  <2> QED BY <1>1, <1>3, <2>1, <2>2 DEF Taking
<1> QED BY <1>6, <1>7, <1>8, <1>9

(* The line of a WHO reply, as it is sent.                                 *)
LEMMA WhoIsSent ==
  ASSUME Typed, ServerSendsWho
  PROVE  LET m == [Head(whoReply) EXCEPT !.at = At(world)]
         IN /\ m \in GoodLines /\ m.kind \in {"who", "whoend"} /\ m.at = At(world)
            /\ Tells(At(world), m) /\ link' = link \o <<m>> /\ whoReply' \in Seq(WhoLineSet)
            /\ UNCHANGED <<world, out, worker, events, shown, chosen, mirror, ghost, spent>>
<1> DEFINE h == Head(whoReply)
           at == At(world)
           m == [h EXCEPT !.at = at]
<1>1. /\ whoReply # <<>> /\ link' = Append(link, m) /\ whoReply' = Tail(whoReply)
      /\ UNCHANGED <<world, out, worker, events, shown, chosen, mirror, ghost, spent>>
  BY DEF ServerSendsWho
<1>2. whoReply \in Seq(WhoLineSet) /\ link \in Seq(GoodLines) /\ world \in Worlds
  BY DEF Typed, WorldOK
<1>3. h \in WhoLineSet /\ whoReply' \in Seq(WhoLineSet)
  BY <1>1, <1>2
<1>4. at \in Ats
  BY <1>2, AtType
<1> HIDE DEF h
<1>5. h \in GoodLines /\ h \in Lines /\ LineOK(h) /\ h.kind \in {"who", "whoend"}
  BY <1>3 DEF WhoLineSet, GoodLines
<1> HIDE DEF at
<1>6. /\ m \in Lines /\ m.kind = h.kind /\ m.channel = h.channel /\ m.nick = h.nick
      /\ m.to = h.to /\ m.account = h.account /\ m.level = h.level /\ m.token = h.token
      /\ m.at = at
  BY <1>4, <1>5 DEF Lines
<1> HIDE DEF m
<1>7. LineOK(m) /\ m \in GoodLines
  BY <1>5, <1>6 DEF LineOK, GoodLines
<1>8. Tells(at, m)
  <2>1. AllStill(at, at)
    BY DEF AllStill, Still
  <2>2. m.kind \in {"who", "whoend"}
    BY <1>5, <1>6
  <2>3. m.kind \notin {"join", "part", "quit", "nick", "mode", "me_part", "me_kick",
                       "me_join", "names"}
    BY <2>2
  <2> QED BY <1>6, <2>1, <2>3 DEF Tells
<1>9. link' = link \o <<m>>
  <2>1. link' = Append(link, m) /\ link \in Seq(GoodLines) /\ m \in GoodLines
    BY <1>1, <1>2, <1>7 DEF m
  <2> QED BY <2>1
<1> QED BY <1>1, <1>3, <1>5, <1>6, <1>7, <1>8, <1>9 DEF m, h, at

(* Our PART drops the list at once.                                        *)
LEMMA WePartFields ==
  ASSUME Typed, NEW c \in Channels, WePart(c)
  PROVE  /\ WorkerOK(worker') /\ SameOurs(worker, worker')
         /\ worker'.listed = worker.listed \ {c}
         /\ worker'.list = [worker.list EXCEPT ![c] = {}]
         /\ worker'.level = [worker.level EXCEPT ![c] = NoLevels]
         /\ out' \in Seq(Commands)
         /\ UNCHANGED <<world, link, whoReply, events, shown, chosen, mirror, ghost>>
<1> DEFINE list == [worker.list EXCEPT ![c] = {}]
           level == [worker.level EXCEPT ![c] = NoLevels]
           l == worker.listed \ {c}
           o == [kind |-> "part", channel |-> c, token |-> 0]
<1>1. /\ worker' = Emptied(worker, c, l) /\ out' = Append(out, o)
      /\ UNCHANGED <<world, link, whoReply, events, shown, chosen, mirror, ghost>>
  BY DEF WePart, Says
<1>2. worker \in Workers /\ WorkerOK(worker) /\ out \in Seq(Commands)
  BY DEF Typed, WorkerOK
<1>3. list \in [Channels -> SUBSET Nicks] /\ level \in [Channels -> [Nicks -> SUBSET Levels]]
      /\ l \in SUBSET Channels
  BY <1>2 DEF Workers, NoLevels
<1>4. o \in Commands
  BY DEF Commands
<1>5. worker' = [worker EXCEPT !.listed = l, !.list = list, !.level = level]
  BY <1>1 DEF Emptied
<1>6. IsFiniteSet(l)
  BY <1>2, FS_Subset DEF WorkerOK
<1> HIDE DEF list, level, l, o
<1>7. Becomes(worker, worker', l, list, level)
  BY <1>2, <1>3, <1>5, ListFields
<1>8. WorkerOK(worker') /\ SameOurs(worker, worker')
  BY <1>2, <1>6, <1>7 DEF Becomes, SameOurs, WorkerOK
<1>9. out' \in Seq(Commands)
  BY <1>1, <1>2, <1>4
<1> QED BY <1>1, <1>7, <1>8, <1>9 DEF Becomes, list, level, l

LEMMA WeJoinFields ==
  ASSUME Typed, NEW c \in Channels, WeJoin(c)
  PROVE  /\ out' \in Seq(Commands)
         /\ UNCHANGED <<world, link, whoReply, worker, events, shown, chosen, mirror, ghost>>
<1> DEFINE o == [kind |-> "join", channel |-> c, token |-> 0]
<1>1. /\ out' = Append(out, o)
      /\ UNCHANGED <<world, link, whoReply, worker, events, shown, chosen, mirror, ghost>>
  BY DEF WeJoin, Says
<1>2. o \in Commands /\ out \in Seq(Commands)
  BY DEF Commands, Typed
<1> HIDE DEF o
<1> QED BY <1>1, <1>2

PeopleMove ==
    \/ \E p \in People, c \in Channels, n \in Nicks : PersonJoins(p, c, n)
    \/ \E p \in People, c \in Channels : PersonLeaves(p, c)
    \/ \E p \in People : PersonQuits(p)
    \/ \E p \in People, n \in Nicks : PersonRenames(p, n)
    \/ \E p \in People, login \in Logins \union {A!LoggedOut} : PersonLogsIn(p, login)
    \/ \E p \in People, c \in Channels, level \in Levels : RoleChanges(p, c, level)
    \/ \E c \in Channels, kind \in {"me_part", "me_kick"} : RemovesUs(c, kind)

(* Every step keeps the variables what they are.                           *)
LEMMA TypedStep ==
  ASSUME Typed, [Next]_vars
  PROVE  Typed'
<1>1. CASE PeopleMove
  <2>1. PICK w, lines : Moves(w, lines) /\ Reports(world, w, lines)
    BY <1>1, PeopleReport DEF PeopleMove
  <2> QED BY <2>1, MovesTyped
<1>2. CASE ServerTakes
  <2>1. /\ Taking /\ out' \in Seq(Commands)
        /\ UNCHANGED <<worker, events, shown, chosen, mirror, ghost, spent>>
    BY <1>2, ServerTakesIs
  <2>2. WorldOK(world') /\ link' \in Seq(GoodLines) /\ whoReply' \in Seq(WhoLineSet)
    <3>0. WorldOK(world) /\ link \in Seq(GoodLines) /\ whoReply \in Seq(WhoLineSet)
      BY DEF Typed
    <3>1. CASE UNCHANGED <<world, link>> /\ whoReply' \in Seq(WhoLineSet)
      BY <3>0, <3>1
    <3>2. ASSUME NEW a \in GoodLines, NEW b \in GoodLines, link' = link \o <<a, b>>,
                 UNCHANGED whoReply, WorldOK(world')
          PROVE  WorldOK(world') /\ link' \in Seq(GoodLines) /\ whoReply' \in Seq(WhoLineSet)
      BY <3>0, <3>2
    <3>3. ASSUME NEW lines, link' = link \o lines, UNCHANGED whoReply,
                 Reports(world, world', lines)
          PROVE  WorldOK(world') /\ link' \in Seq(GoodLines) /\ whoReply' \in Seq(WhoLineSet)
      <4>1. WorldOK(world') /\ lines \in Seq(GoodLines)
        BY <3>3, ReportsLines
      <4> QED BY <3>0, <3>3, <4>1
    <3> QED BY <2>1, <3>1, <3>2, <3>3 DEF Taking
  <2> QED BY <2>1, <2>2 DEF Typed
<1>3. CASE ServerSendsWho
  <2> DEFINE m == [Head(whoReply) EXCEPT !.at = At(world)]
  <2>1. m \in GoodLines /\ link' = link \o <<m>> /\ whoReply' \in Seq(WhoLineSet)
        /\ UNCHANGED <<world, out, worker, events, shown, chosen, mirror, ghost, spent>>
    BY <1>3, WhoIsSent
  <2> HIDE DEF m
  <2>2. link \in Seq(GoodLines)
    BY DEF Typed
  <2>3. link' \in Seq(GoodLines)
    BY <2>1, <2>2
  <2> QED BY <2>1, <2>3 DEF Typed
<1>4. ASSUME NEW expired \in BOOLEAN, Deliver(expired)
      PROVE  Typed'
  BY <1>4, DeliverTyped
<1>5. ASSUME NEW c \in Channels, WePart(c)
      PROVE  Typed'
  <2>1. /\ WorkerOK(worker') /\ SameOurs(worker, worker') /\ out' \in Seq(Commands)
        /\ UNCHANGED <<world, link, whoReply, events, shown, chosen, mirror, ghost>>
    BY <1>5, WePartFields
  <2> QED BY <2>1 DEF Typed, SameOurs
<1>6. ASSUME NEW c \in Channels, WeJoin(c)
      PROVE  Typed'
  <2>1. /\ out' \in Seq(Commands)
        /\ UNCHANGED <<world, link, whoReply, worker, events, shown, chosen, mirror, ghost>>
    BY <1>6, WeJoinFields
  <2> QED BY <2>1 DEF Typed
<1>7. CASE HandleBatch
  <2>1. UNCHANGED <<world, link, whoReply, out, worker, mirror, ghost>>
    BY <1>7 DEF HandleBatch
  <2> QED BY <2>1 DEF Typed
<1>8. ASSUME NEW c \in Channels, NEW n \in Nicks, Choose(c, n)
      PROVE  Typed'
  <2>1. UNCHANGED <<world, link, whoReply, out, worker, mirror, ghost>>
    BY <1>8 DEF Choose
  <2> QED BY <2>1 DEF Typed
<1>9. CASE UNCHANGED vars
  BY <1>9 DEF Typed, vars
<1> QED BY <1>1, <1>2, <1>3, <1>4, <1>5, <1>6, <1>7, <1>8, <1>9 DEF Next, PeopleMove

(* The variables are of their types: every operation on the index, the     *)
(* lists, the roles and the accounts keeps them so, and presences of       *)
(* people who left after our PART are live.                                *)
THEOREM WorkerIsTyped == Spec => []TypeOK
<1>1. Typed => TypeOK
  <2> SUFFICES ASSUME Typed PROVE TypeOK
    OBVIOUS
  <2>1. /\ worker \in Workers /\ mirror \in Mirrors
        /\ ghost.strayed \subseteq P!LiveIds(worker.index)
    BY DEF Typed, WorkerOK
  <2>2. worker.accounts \in AccountRecords /\ Mirrors \subseteq [Nicks -> A!Entries]
    BY <2>1 DEF Workers, Mirrors
  <2> QED BY <2>1, <2>2 DEF TypeOK, Workers, AccountRecords, Names
<1>2. Typed /\ [Next]_vars => Typed'
  BY TypedStep
<1> QED BY InitTyped, <1>1, <1>2, PTL DEF Spec

(* The window's copy of the accounts is the worker's after every line,     *)
(* however many changes it made of them: every change has its event, in an *)
(* order that leaves the same thing.                                       *)
THEOREM MirrorIsTheWorkers == Spec => []MirrorAgrees
<1>1. Typed => MirrorAgrees
  BY DEF Typed, MirrorAgrees, Plain
<1>2. Typed /\ [Next]_vars => Typed'
  BY TypedStep
<1> QED BY InitTyped, <1>1, <1>2, PTL DEF Spec

SaneIf(w) == WorldOK(w) => Sane(At(w))

LEMMA WorldsAreSane ==
  ASSUME NEW w, WorldOK(w)
  PROVE  Sane(At(w))
<1> DEFINE a == At(w)
<1>1. a.nick = w.nick /\ a.meIn = w.meIn /\ \A p \in People : a.in[p] = w.in[p] \intersect w.meIn
  BY AtFields
<1> HIDE DEF a
<1>2. /\ \A p, q \in People : w.nick[p] = w.nick[q] /\ w.nick[p] # NoNick => p = q
      /\ \A p \in People : w.in[p] # {} => w.nick[p] \in Nicks
      /\ NoNick \notin Nicks
  BY FixedValues DEF WorldOK
<1> QED BY <1>1, <1>2 DEF Sane, a

LEMMA StillTwice ==
  ASSUME NEW u, NEW v, NEW w, AllStill(u, v), AllStill(v, w)
  PROVE  AllStill(u, w)
BY DEF AllStill, Still

LEMMA StillItself ==
  ASSUME NEW u
  PROVE  AllStill(u, u)
BY DEF AllStill, Still

(* Each kind of line, by itself.                                           *)
LEMMA TellsIs ==
  ASSUME NEW v, NEW m
  PROVE  LET w == m.at
             c == m.channel
             n == m.nick
         IN /\ m.kind = "join" =>
                (Tells(v, m) <=>
                 /\ w.meIn = v.meIn /\ c \in v.meIn
                 /\ \E p \in People : /\ c \notin v.in[p] /\ w.in[p] = v.in[p] \union {c}
                                      /\ w.nick[p] = n
                                      /\ v.in[p] # {} => v.nick[p] = n
                                      /\ StillBut(v, w, p))
            /\ m.kind = "part" =>
                (Tells(v, m) <=>
                 /\ w.meIn = v.meIn
                 /\ \E p \in People : /\ c \in v.in[p] /\ w.in[p] = v.in[p] \ {c}
                                      /\ v.nick[p] = n /\ w.nick[p] = n
                                      /\ StillBut(v, w, p))
            /\ m.kind = "quit" =>
                (Tells(v, m) <=>
                 /\ w.meIn = v.meIn
                 /\ \E p \in People : /\ v.in[p] # {} /\ w.in[p] = {}
                                      /\ v.nick[p] = n /\ w.nick[p] = NoNick
                                      /\ StillBut(v, w, p))
            /\ m.kind = "nick" =>
                (Tells(v, m) <=>
                 /\ w.meIn = v.meIn
                 /\ \E p \in People : /\ v.in[p] # {} /\ w.in[p] = v.in[p]
                                      /\ v.nick[p] = n /\ w.nick[p] = m.to /\ m.to # n
                                      /\ StillBut(v, w, p))
            /\ m.kind = "mode" =>
                (Tells(v, m) <=> AllStill(v, w) /\ \E p \in People : c \in v.in[p] /\ v.nick[p] = n)
            /\ m.kind \in {"me_part", "me_kick"} =>
                (Tells(v, m) <=>
                 /\ c \in v.meIn /\ w.meIn = v.meIn \ {c}
                 /\ \A q \in People : /\ w.in[q] = v.in[q] \ {c}
                                      /\ v.in[q] # {} => w.nick[q] = v.nick[q])
            /\ m.kind = "me_join" =>
                (Tells(v, m) <=>
                 /\ c \notin v.meIn /\ w.meIn = v.meIn \union {c}
                 /\ \A q \in People : /\ w.in[q] \ {c} = v.in[q]
                                      /\ v.in[q] # {} => w.nick[q] = v.nick[q])
            /\ m.kind = "names" =>
                (Tells(v, m) <=> /\ AllStill(v, w) /\ c \in v.meIn
                                 /\ {k \in Nicks : m.names[k] >= 0} = InIt(w, c))
            /\ m.kind \in {"who", "whoend", "account"} => (Tells(v, m) <=> AllStill(v, w))
<1> DEFINE w == m.at
           c == m.channel
           n == m.nick
<1>1. ASSUME m.kind = "join"
      PROVE 
                (Tells(v, m) <=>
                 /\ w.meIn = v.meIn /\ c \in v.meIn
                 /\ \E p \in People : /\ c \notin v.in[p] /\ w.in[p] = v.in[p] \union {c}
                                      /\ w.nick[p] = n
                                      /\ v.in[p] # {} => v.nick[p] = n
                                      /\ StillBut(v, w, p))
  BY <1>1 DEF Tells
<1>2. ASSUME m.kind = "part"
      PROVE 
                (Tells(v, m) <=>
                 /\ w.meIn = v.meIn
                 /\ \E p \in People : /\ c \in v.in[p] /\ w.in[p] = v.in[p] \ {c}
                                      /\ v.nick[p] = n /\ w.nick[p] = n
                                      /\ StillBut(v, w, p))
  BY <1>2 DEF Tells
<1>3. ASSUME m.kind = "quit"
      PROVE 
                (Tells(v, m) <=>
                 /\ w.meIn = v.meIn
                 /\ \E p \in People : /\ v.in[p] # {} /\ w.in[p] = {}
                                      /\ v.nick[p] = n /\ w.nick[p] = NoNick
                                      /\ StillBut(v, w, p))
  BY <1>3 DEF Tells
<1>4. ASSUME m.kind = "nick"
      PROVE 
                (Tells(v, m) <=>
                 /\ w.meIn = v.meIn
                 /\ \E p \in People : /\ v.in[p] # {} /\ w.in[p] = v.in[p]
                                      /\ v.nick[p] = n /\ w.nick[p] = m.to /\ m.to # n
                                      /\ StillBut(v, w, p))
  BY <1>4 DEF Tells
<1>5. ASSUME m.kind = "mode"
      PROVE 
                (Tells(v, m) <=> AllStill(v, w) /\ \E p \in People : c \in v.in[p] /\ v.nick[p] = n)
  BY <1>5 DEF Tells
<1>6. ASSUME m.kind \in {"me_part", "me_kick"}
      PROVE 
                (Tells(v, m) <=>
                 /\ c \in v.meIn /\ w.meIn = v.meIn \ {c}
                 /\ \A q \in People : /\ w.in[q] = v.in[q] \ {c}
                                      /\ v.in[q] # {} => w.nick[q] = v.nick[q])
  BY <1>6 DEF Tells
<1>7. ASSUME m.kind = "me_join"
      PROVE 
                (Tells(v, m) <=>
                 /\ c \notin v.meIn /\ w.meIn = v.meIn \union {c}
                 /\ \A q \in People : /\ w.in[q] \ {c} = v.in[q]
                                      /\ v.in[q] # {} => w.nick[q] = v.nick[q])
  BY <1>7 DEF Tells
<1>8. ASSUME m.kind = "names"
      PROVE 
                (Tells(v, m) <=> /\ AllStill(v, w) /\ c \in v.meIn
                                 /\ {k \in Nicks : m.names[k] >= 0} = InIt(w, c))
  BY <1>8 DEF Tells
<1>9. ASSUME m.kind \in {"who", "whoend", "account"}
      PROVE  (Tells(v, m) <=> AllStill(v, w))
  BY <1>9 DEF Tells
<1> QED BY <1>1, <1>2, <1>3, <1>4, <1>5, <1>6, <1>7, <1>8, <1>9

(* What a line tells after something that nobody was told of.              *)
LEMMA TellsAfter ==
  ASSUME NEW u, NEW v, AllStill(u, v), NEW m \in GoodLines, Tells(v, m)
  PROVE  Tells(u, m)
<1> DEFINE w == m.at
<1>0. /\ v.meIn = u.meIn
      /\ \A q \in People : v.in[q] = u.in[q] /\ (u.in[q] # {} => v.nick[q] = u.nick[q])
      /\ AllStill(v, w) => AllStill(u, w)
      /\ \A p \in People : StillBut(v, w, p) => StillBut(u, w, p)
  BY StillTwice DEF AllStill, Still, StillBut
<1>1. CASE m.kind = "join"
  <2> HIDE DEF w
  <2> QED BY <1>0, <1>1, TellsIs DEF w
<1>2. CASE m.kind = "part"
  <2> HIDE DEF w
  <2> QED BY <1>0, <1>2, TellsIs DEF w
<1>3. CASE m.kind = "quit"
  <2> HIDE DEF w
  <2> QED BY <1>0, <1>3, TellsIs DEF w
<1>4. CASE m.kind = "nick"
  <2> HIDE DEF w
  <2> QED BY <1>0, <1>4, TellsIs DEF w
<1>5. CASE m.kind = "mode"
  <2> HIDE DEF w
  <2> QED BY <1>0, <1>5, TellsIs DEF w
<1>6. CASE m.kind \in {"me_part", "me_kick"}
  <2> HIDE DEF w
  <2> QED BY <1>0, <1>6, TellsIs DEF w
<1>7. CASE m.kind = "me_join"
  <2> HIDE DEF w
  <2> QED BY <1>0, <1>7, TellsIs DEF w
<1>8. CASE m.kind = "names"
  <2> HIDE DEF w
  <2> QED BY <1>0, <1>8, TellsIs DEF w
<1>9. CASE m.kind \in {"who", "whoend", "account"}
  <2> HIDE DEF w
  <2> QED BY <1>0, <1>9, TellsIs DEF w
<1>10. m.kind \in AboutChannel \union AboutNick
  BY DEF GoodLines, Lines
<1> QED BY <1>1, <1>2, <1>3, <1>4, <1>5, <1>6, <1>7, <1>8, <1>9, <1>10 DEF AboutChannel, AboutNick

LinesBefore(seen, l, i) == IF i = 1 THEN seen ELSE l[i - 1].at
LinesLast(seen, l) == IF l = <<>> THEN seen ELSE l[Len(l)].at

Chain(seen, l) ==
    /\ Sane(seen)
    /\ \A i \in 1..Len(l) : Sane(l[i].at) /\ Tells(LinesBefore(seen, l, i), l[i])

JoinsNamed(l) ==
    \A i \in 1..Len(l) : l[i].kind = "me_join" =>
        i < Len(l) /\ l[i + 1].kind = "names" /\ l[i + 1].channel = l[i].channel

(* The lines on their way, seen as a chain from what has been seen to what *)
(* is true.                                                                *)
LEMMA LinesTellIs ==
  LinesTell <=> /\ Chain(ghost.seen, link) /\ JoinsNamed(link) /\ Sane(At(world))
                /\ AllStill(LinesLast(ghost.seen, link), At(world))
BY DEF LinesTell, Chain, JoinsNamed, LinesBefore, LinesLast, SeenBefore, LastSeen

(* A line that tells what happened extends the chain.                      *)
LEMMA LineAdded ==
  ASSUME NEW seen, NEW l \in Seq(GoodLines), NEW m \in GoodLines, Chain(seen, l),
         Sane(m.at), Tells(LinesLast(seen, l), m)
  PROVE  Chain(seen, l \o <<m>>) /\ LinesLast(seen, l \o <<m>>) = m.at
<1> DEFINE k == l \o <<m>>
<1>1. /\ k \in Seq(GoodLines) /\ Len(k) = Len(l) + 1 /\ k[Len(k)] = m /\ k # <<>>
      /\ \A i \in 1..Len(l) : k[i] = l[i]
      /\ Len(l) \in Nat /\ (Len(l) = 0 <=> l = <<>>)
  OBVIOUS
<1> HIDE DEF k
<1>2. LinesLast(seen, k) = m.at
  BY <1>1 DEF LinesLast
<1>3. ASSUME NEW i \in 1..Len(k) PROVE Sane(k[i].at) /\ Tells(LinesBefore(seen, k, i), k[i])
  <2>1. CASE i = Len(k)
    <3>1. LinesBefore(seen, k, i) = LinesLast(seen, l)
      <4>1. CASE l = <<>>
        BY <1>1, <2>1, <4>1 DEF LinesBefore, LinesLast
      <4>2. CASE l # <<>>
        <5>1. i # 1 /\ i - 1 = Len(l) /\ k[i - 1] = l[Len(l)]
          BY <1>1, <2>1, <4>2
        <5> QED BY <4>2, <5>1 DEF LinesBefore, LinesLast
      <4> QED BY <4>1, <4>2
    <3> QED BY <1>1, <2>1, <3>1
  <2>2. CASE i # Len(k)
    <3>1. i \in 1..Len(l) /\ k[i] = l[i] /\ (i # 1 => k[i - 1] = l[i - 1])
      BY <1>1, <2>2
    <3>2. LinesBefore(seen, k, i) = LinesBefore(seen, l, i)
      BY <3>1 DEF LinesBefore
    <3> QED BY <3>1, <3>2 DEF Chain
  <2> QED BY <2>1, <2>2
<1> QED BY <1>2, <1>3 DEF Chain, k

(* The first line of the chain tells what happened next.                   *)
LEMMA LineTaken ==
  ASSUME NEW seen, NEW l \in Seq(GoodLines), l # <<>>, Chain(seen, l)
  PROVE  /\ Sane(seen) /\ Sane(Head(l).at) /\ Tells(seen, Head(l))
         /\ Chain(Head(l).at, Tail(l)) /\ LinesLast(Head(l).at, Tail(l)) = LinesLast(seen, l)
<1> DEFINE h == Head(l)
           t == Tail(l)
<1>1. /\ t \in Seq(GoodLines) /\ Len(l) = Len(t) + 1 /\ h = l[1] /\ Len(t) \in Nat
      /\ \A i \in 1..Len(t) : t[i] = l[i + 1]
  OBVIOUS
<1> HIDE DEF h, t
<1>1a. Len(t) = 0 <=> t = <<>>
  BY <1>1
<1>2. Sane(seen) /\ Sane(h.at) /\ Tells(seen, h)
  BY <1>1 DEF Chain, LinesBefore
<1>3. LinesLast(h.at, t) = LinesLast(seen, l)
  <2>1. CASE t = <<>>
    BY <1>1, <1>1a, <2>1 DEF LinesLast
  <2>2. CASE t # <<>>
    <3>1. Len(t) \in 1..Len(t) /\ t[Len(t)] = l[Len(l)]
      BY <1>1, <1>1a, <2>2
    <3> QED BY <2>2, <3>1 DEF LinesLast
  <2> QED BY <2>1, <2>2
<1>4. ASSUME NEW i \in 1..Len(t) PROVE Sane(t[i].at) /\ Tells(LinesBefore(h.at, t, i), t[i])
  <2>1. t[i] = l[i + 1] /\ i + 1 \in 1..Len(l) /\ i + 1 # 1 /\ (i + 1) - 1 = i
    BY <1>1
  <2>2. LinesBefore(h.at, t, i) = LinesBefore(seen, l, i + 1)
    <3>1. CASE i = 1
      BY <1>1, <3>1 DEF LinesBefore
    <3>2. CASE i # 1
      <4>1. i - 1 \in 1..Len(t) /\ t[i - 1] = l[(i - 1) + 1] /\ (i - 1) + 1 = i
        BY <1>1, <3>2
      <4> QED BY <2>1, <3>2, <4>1 DEF LinesBefore
    <3> QED BY <3>1, <3>2
  <2> QED BY <2>1, <2>2 DEF Chain
<1> QED BY <1>2, <1>3, <1>4 DEF Chain, h, t

LEMMA NamedAdded ==
  ASSUME NEW l \in Seq(GoodLines), JoinsNamed(l), NEW m \in GoodLines
  PROVE  /\ m.kind # "me_join" => JoinsNamed(l \o <<m>>)
         /\ \A k \in GoodLines : m.kind = "me_join" /\ k.kind = "names" /\ k.channel = m.channel
               => JoinsNamed(l \o <<m, k>>)
<1>1. ASSUME m.kind # "me_join" PROVE JoinsNamed(l \o <<m>>)
  <2> DEFINE k == l \o <<m>>
  <2>1. /\ Len(k) = Len(l) + 1 /\ k[Len(k)] = m /\ Len(l) \in Nat
        /\ \A i \in 1..Len(l) : k[i] = l[i]
    OBVIOUS
  <2> HIDE DEF k
  <2>2. ASSUME NEW i \in 1..Len(k), k[i].kind = "me_join"
        PROVE  i < Len(k) /\ k[i + 1].kind = "names" /\ k[i + 1].channel = k[i].channel
    <3>1. i \in 1..Len(l)
      BY <1>1, <2>1, <2>2
    <3>2. i < Len(l) /\ l[i + 1].kind = "names" /\ l[i + 1].channel = l[i].channel
      BY <2>1, <2>2, <3>1 DEF JoinsNamed
    <3> QED BY <2>1, <3>1, <3>2
  <2> QED BY <2>2 DEF JoinsNamed, k
<1>2. ASSUME NEW n \in GoodLines, m.kind = "me_join", n.kind = "names", n.channel = m.channel
      PROVE  JoinsNamed(l \o <<m, n>>)
  <2> DEFINE k == l \o <<m, n>>
  <2>1. /\ Len(k) = Len(l) + 2 /\ k[Len(l) + 1] = m /\ k[Len(l) + 2] = n /\ Len(l) \in Nat
        /\ \A i \in 1..Len(l) : k[i] = l[i]
    OBVIOUS
  <2> HIDE DEF k
  <2>2. ASSUME NEW i \in 1..Len(k), k[i].kind = "me_join"
        PROVE  i < Len(k) /\ k[i + 1].kind = "names" /\ k[i + 1].channel = k[i].channel
    <3>1. CASE i \in 1..Len(l)
      <4>2. i < Len(l) /\ l[i + 1].kind = "names" /\ l[i + 1].channel = l[i].channel
        BY <2>1, <2>2, <3>1 DEF JoinsNamed
      <4> QED BY <2>1, <3>1, <4>2
    <3>2. CASE i = Len(l) + 1
      <4>1. i < Len(k) /\ i + 1 = Len(l) + 2 /\ k[i + 1] = n /\ k[i] = m
        BY <2>1, <3>2
      <4> QED BY <1>2, <4>1
    <3>3. CASE i = Len(l) + 2
      BY <1>2, <2>1, <2>2, <3>3
    <3>4. i \in 1..Len(l) \/ i = Len(l) + 1 \/ i = Len(l) + 2
      BY <2>1
    <3> QED BY <3>1, <3>2, <3>3, <3>4
  <2> QED BY <2>2 DEF JoinsNamed, k
<1> QED BY <1>1, <1>2

LEMMA NamedTaken ==
  ASSUME NEW l \in Seq(GoodLines), l # <<>>, JoinsNamed(l)
  PROVE  JoinsNamed(Tail(l)) /\ (Head(l).kind = "me_join" => Awaits(Tail(l), Head(l).channel))
<1> DEFINE h == Head(l)
           t == Tail(l)
<1>1. /\ t \in Seq(GoodLines) /\ Len(l) = Len(t) + 1 /\ h = l[1] /\ Len(t) \in Nat
      /\ \A i \in 1..Len(t) : t[i] = l[i + 1]
  OBVIOUS
<1> HIDE DEF h, t
<1>1a. (Len(t) = 0 <=> t = <<>>) /\ (t # <<>> => Head(t) = t[1])
  BY <1>1
<1>2. h.kind = "me_join" => Awaits(t, h.channel)
  <2>1. h.kind = "me_join" => 1 < Len(l) /\ l[1 + 1].kind = "names" /\ l[1 + 1].channel = h.channel
    BY <1>1 DEF JoinsNamed
  <2>2. 1 < Len(l) => 1 \in 1..Len(t) /\ t[1] = l[1 + 1] /\ t # <<>>
    BY <1>1, <1>1a
  <2> QED BY <1>1, <1>1a, <2>1, <2>2 DEF Awaits
<1>3. ASSUME NEW i \in 1..Len(t), t[i].kind = "me_join"
      PROVE  i < Len(t) /\ t[i + 1].kind = "names" /\ t[i + 1].channel = t[i].channel
  <2> DEFINE j == i + 1
  <2>1. j \in 1..Len(l) /\ l[j] = t[i] /\ j \in Nat /\ i \in Nat /\ j = i + 1
    BY <1>1
  <2>2. j < Len(l) /\ l[j + 1].kind = "names" /\ l[j + 1].channel = l[j].channel
    <3> HIDE DEF j
    <3> QED BY <1>3, <2>1 DEF JoinsNamed
  <2>3. i < Len(t) /\ j \in 1..Len(t) /\ t[j] = l[j + 1]
    BY <1>1, <2>1, <2>2
  <2> QED BY <2>1, <2>2, <2>3
<1> QED BY <1>2, <1>3 DEF JoinsNamed, h, t

LinesSo(seen, l, w) ==
    Chain(seen, l) /\ JoinsNamed(l) /\ Sane(At(w)) /\ AllStill(LinesLast(seen, l), At(w))

LEMMA LinesTellSo ==
  /\ LinesTell <=> LinesSo(ghost.seen, link, world)
  /\ LinesTell' <=> LinesSo(ghost'.seen, link', world')
BY DEF LinesTell, Chain, JoinsNamed, LinesBefore, LinesLast, SeenBefore, LastSeen, LinesSo

LEMMA ReportAdded ==
  ASSUME NEW seen, NEW l \in Seq(GoodLines), NEW u, NEW w, NEW lines,
         LinesSo(seen, l, u), Reports(u, w, lines)
  PROVE  LinesSo(seen, l \o lines, w)
<1>1. Sane(At(w))
  BY WorldsAreSane DEF Reports
<1>2. CASE lines = <<>> /\ AllStill(At(u), At(w))
  <2>1. l \o lines = l
    BY <1>2
  <2>2. AllStill(LinesLast(seen, l), At(w))
    BY <1>2, StillTwice DEF LinesSo
  <2> QED BY <1>1, <2>1, <2>2 DEF LinesSo
<1>3. ASSUME NEW m \in GoodLines, lines = <<m>>, m.at = At(w), m.kind # "me_join",
             Tells(At(u), m)
      PROVE  LinesSo(seen, l \o lines, w)
  <2>1. Tells(LinesLast(seen, l), m)
    BY <1>3, TellsAfter DEF LinesSo
  <2>2. Chain(seen, l \o <<m>>) /\ LinesLast(seen, l \o <<m>>) = m.at
    BY <1>1, <1>3, <2>1, LineAdded DEF LinesSo
  <2>3. JoinsNamed(l \o <<m>>)
    BY <1>3, NamedAdded DEF LinesSo
  <2>4. AllStill(LinesLast(seen, l \o <<m>>), At(w))
    BY <1>3, <2>2, StillItself
  <2> QED BY <1>1, <1>3, <2>2, <2>3, <2>4 DEF LinesSo
<1> QED BY <1>2, <1>3 DEF Reports

LEMMA JoinAdded ==
  ASSUME NEW seen, NEW l \in Seq(GoodLines), NEW u, NEW w, NEW a \in GoodLines,
         NEW b \in GoodLines, LinesSo(seen, l, u), WorldOK(w),
         a.kind = "me_join", b.kind = "names", b.channel = a.channel,
         Tells(At(u), a), Tells(a.at, b), a.at = At(w), b.at = At(w)
  PROVE  LinesSo(seen, l \o <<a, b>>, w)
<1> DEFINE k == l \o <<a>>
<1>1. Sane(At(w)) /\ Tells(LinesLast(seen, l), a)
  BY WorldsAreSane, TellsAfter DEF LinesSo
<1>2. k \in Seq(GoodLines) /\ l \o <<a, b>> = k \o <<b>>
  <2> DEFINE x == l \o <<a, b>>
             y == k \o <<b>>
  <2>1. k \in Seq(GoodLines) /\ Len(k) = Len(l) + 1 /\ k[Len(l) + 1] = a /\ Len(l) \in Nat
        /\ \A i \in 1..Len(l) : k[i] = l[i]
    OBVIOUS
  <2>2. x \in Seq(GoodLines) /\ Len(x) = Len(l) + 2 /\ x[Len(l) + 1] = a /\ x[Len(l) + 2] = b
        /\ \A i \in 1..Len(l) : x[i] = l[i]
    OBVIOUS
  <2> HIDE DEF k, x
  <2>3. y \in Seq(GoodLines) /\ Len(y) = Len(l) + 2 /\ y[Len(l) + 2] = b
        /\ \A i \in 1..Len(l) + 1 : y[i] = k[i]
    BY <2>1
  <2> HIDE DEF y
  <2>4. \A i \in 1..Len(l) + 2 : x[i] = y[i]
    <3>1. ASSUME NEW i \in 1..Len(l) + 2 PROVE x[i] = y[i]
      <4>1. i \in 1..Len(l) \/ i = Len(l) + 1 \/ i = Len(l) + 2
        BY <2>1
      <4> QED BY <2>1, <2>2, <2>3, <4>1
    <3> QED BY <3>1
  <2>5. x = y
    BY <2>2, <2>3, <2>4
  <2> QED BY <2>1, <2>5 DEF x, y
<1>3. Chain(seen, k) /\ LinesLast(seen, k) = a.at
  BY <1>1, LineAdded DEF LinesSo
<1>4. JoinsNamed(l \o <<a, b>>)
  BY NamedAdded DEF LinesSo
<1> HIDE DEF k
<1>5. Chain(seen, k \o <<b>>) /\ LinesLast(seen, k \o <<b>>) = b.at
  BY <1>1, <1>2, <1>3, LineAdded
<1> QED BY <1>1, <1>2, <1>4, <1>5, StillItself DEF LinesSo

LEMMA LinesTellStart ==
  ASSUME Init PROVE LinesTell
<1>1. Typed
  BY InitTyped
<1>2. link = <<>> /\ ghost.seen = At(world)
  BY DEF Init
<1>3. Sane(At(world)) /\ AllStill(At(world), At(world))
  BY <1>1, WorldsAreSane, StillItself DEF Typed
<1> QED BY <1>2, <1>3 DEF LinesTell, LastSeen

(* Every step keeps the lines telling what happens, in order.              *)
LEMMA LinesTellStep ==
  ASSUME Typed, LinesTell, [Next]_vars
  PROVE  LinesTell'
<1>0. /\ LinesSo(ghost.seen, link, world) /\ link \in Seq(GoodLines) /\ WorldOK(world)
      /\ (LinesSo(ghost'.seen, link', world') => LinesTell')
  BY LinesTellSo DEF Typed
<1>s. ASSUME UNCHANGED <<link, world, ghost>> PROVE LinesTell'
  BY <1>0, <1>s
<1>1. CASE PeopleMove
  <2>1. PICK w, lines : Moves(w, lines) /\ Reports(world, w, lines)
    BY <1>1, PeopleReport DEF PeopleMove
  <2>2. world' = w /\ link' = link \o lines /\ ghost' = ghost
    BY <2>1 DEF Moves
  <2>3. LinesSo(ghost.seen, link \o lines, w)
    BY <1>0, <2>1, ReportAdded
  <2> QED BY <1>0, <2>2, <2>3
<1>2. CASE ServerTakes
  <2>1. Taking /\ ghost' = ghost
    BY <1>2, ServerTakesIs
  <2>2. CASE UNCHANGED <<world, link>>
    BY <1>s, <2>1, <2>2
  <2>3. ASSUME NEW a \in GoodLines, NEW b \in GoodLines, link' = link \o <<a, b>>,
               WorldOK(world'), a.kind = "me_join", b.kind = "names", b.channel = a.channel,
               Tells(At(world), a), Tells(a.at, b), b.at = At(world'), a.at = At(world')
        PROVE  LinesTell'
    <3> DEFINE w == world'
               at == At(world)
    <3> HIDE DEF w
    <3>1. LinesSo(ghost.seen, link \o <<a, b>>, w)
      BY <1>0, <2>3, JoinAdded DEF w
    <3> QED BY <1>0, <2>1, <2>3, <3>1 DEF w
  <2>4. ASSUME NEW lines, link' = link \o lines, Reports(world, world', lines)
        PROVE  LinesTell'
    <3>1. LinesSo(ghost.seen, link \o lines, world')
      BY <1>0, <2>4, ReportAdded
    <3> QED BY <1>0, <2>1, <2>4, <3>1
  <2> QED BY <2>1, <2>2, <2>3, <2>4 DEF Taking
<1>3. CASE ServerSendsWho
  <2> DEFINE m == [Head(whoReply) EXCEPT !.at = At(world)]
  <2>1. m \in GoodLines /\ m.at = At(world) /\ Tells(At(world), m) /\ link' = link \o <<m>>
        /\ m.kind \in {"who", "whoend"} /\ UNCHANGED <<world, ghost>>
    BY <1>3, WhoIsSent
  <2> HIDE DEF m
  <2>2. Reports(world, world, <<m>>)
    BY <1>0, <2>1 DEF Reports
  <2>3. LinesSo(ghost.seen, link \o <<m>>, world)
    BY <1>0, <2>2, ReportAdded
  <2> QED BY <1>0, <2>1, <2>3
<1>4. ASSUME NEW expired \in BOOLEAN, Deliver(expired)
      PROVE  LinesTell'
  <2>1. link # <<>> /\ link' = Tail(link) /\ world' = world /\ ghost'.seen = Head(link).at
    BY <1>4 DEF Deliver, Handle, Remembered
  <2>2. /\ Chain(Head(link).at, Tail(link)) /\ JoinsNamed(Tail(link))
        /\ LinesLast(Head(link).at, Tail(link)) = LinesLast(ghost.seen, link)
    BY <1>0, <2>1, LineTaken, NamedTaken DEF LinesSo
  <2>3. LinesSo(Head(link).at, Tail(link), world)
    BY <1>0, <2>2 DEF LinesSo
  <2> QED BY <1>0, <2>1, <2>3
<1>5. ASSUME NEW c \in Channels, WePart(c) \/ WeJoin(c)
      PROVE  LinesTell'
  BY <1>s, <1>5, WePartFields, WeJoinFields
<1>7. CASE HandleBatch
  BY <1>s, <1>7 DEF HandleBatch
<1>8. ASSUME NEW c \in Channels, NEW n \in Nicks, Choose(c, n)
      PROVE  LinesTell'
  BY <1>s, <1>8 DEF Choose
<1>9. CASE UNCHANGED vars
  BY <1>s, <1>9 DEF vars
<1> QED BY <1>1, <1>2, <1>3, <1>4, <1>5, <1>7, <1>8, <1>9 DEF Next, PeopleMove

(* What becomes of the index when the roster of one channel is replaced or *)
(* dropped: the other rosters and the numbers that stay are as they were.  *)
Turned(x, y, c) ==
    /\ y \in P!Indexes /\ P!Consistent(y)
    /\ \A d \in Channels : d # c => y.members[d] = x.members[d]
    /\ \A i \in P!LiveIds(x) : i \in P!LiveIds(y) => y.key[i] = x.key[i]
    /\ \A i \in P!LiveIds(y) \ P!LiveIds(x) : x.byNick[y.key[i]] = P!NoId

TakenFrom(x, leaving, c, z) ==
    /\ \A d \in Channels : z.members[d] = x.members[d]
    /\ \A i \in P!Ids : z.key[i] = IF i \in leaving /\ x.channelsOf[i] \subseteq {c}
                                   THEN P!NoNick ELSE x.key[i]

LEMMA LeaveFields ==
  ASSUME NEW x \in P!Indexes, NEW leaving \in SUBSET P!Ids, NEW c \in Channels
  PROVE  TakenFrom(x, leaving, c, P!Leave(x, leaving, c))
<1> DEFINE y == [x EXCEPT !.channelsOf = [i \in P!Ids |-> IF i \in leaving
                                                        THEN @[i] \ {c} ELSE @[i]]]
           gone == {i \in leaving : x.channelsOf[i] \subseteq {c}}
           z == P!Leave(x, leaving, c)
<1>1. y \in P!Indexes /\ gone \in SUBSET P!Ids /\ z = P!Forget(y, gone)
  BY DEF P!Indexes, P!Leave
<1>2. /\ y.key = x.key /\ y.members = x.members
      /\ \A i \in P!Ids : y.channelsOf[i] = IF i \in leaving THEN x.channelsOf[i] \ {c}
                                          ELSE x.channelsOf[i]
  BY DEF P!Indexes
<1>3. \A i \in P!Ids : i \in gone <=> i \in leaving /\ x.channelsOf[i] \subseteq {c}
  OBVIOUS
<1> HIDE DEF y, gone
<1>4. \A d \in Channels : {i \in gone : d \in y.channelsOf[i]} = {}
  BY <1>1, <1>2, <1>3
<1>5. \A i \in P!Ids : z.key[i] = IF i \in gone THEN P!NoNick ELSE y.key[i]
  BY <1>1, ForgetFields
<1>6. \A d \in Channels : z.members[d] = y.members[d]
  <2>1. \A d \in Channels :
           z.members[d] = y.members[d] \ {i \in gone : d \in y.channelsOf[i]}
    BY <1>1, ForgetFields
  <2> QED BY <1>4, <2>1
<1> QED BY <1>2, <1>3, <1>5, <1>6 DEF TakenFrom

LEMMA MembersAreLive ==
  ASSUME NEW x \in P!Indexes, P!Consistent(x), NEW c \in Channels
  PROVE  /\ x.members[c] \subseteq P!LiveIds(x)
         /\ \A i \in x.members[c] : x.key[i] \in Nicks /\ x.byNick[x.key[i]] = i
<1>1. ASSUME NEW i \in x.members[c] PROVE i \in P!LiveIds(x)
  <2>1. i \in P!Ids /\ c \in x.channelsOf[i]
    BY DEF P!Consistent, P!Mutual, P!Indexes
  <2> QED BY <2>1 DEF P!Consistent, P!Placed
<1>2. \A i \in P!LiveIds(x) : x.key[i] \in Nicks /\ x.byNick[x.key[i]] = i
  BY DEF P!Consistent, P!Named, P!LiveIds, P!Indexes
<1> QED BY <1>1, <1>2

LEMMA LiveArePlaced ==
  ASSUME NEW x \in P!Indexes, P!Consistent(x), NEW i \in P!LiveIds(x)
  PROVE  /\ \E c \in Channels : i \in x.members[c]
         /\ i \in P!Ids /\ x.key[i] \in Nicks /\ x.byNick[x.key[i]] = i
<1>1. i \in P!Ids /\ x.channelsOf[i] # {} /\ x.channelsOf[i] \subseteq Channels
  BY DEF P!Consistent, P!Placed, P!LiveIds, P!Indexes
<1>2. x.key[i] \in Nicks /\ x.byNick[x.key[i]] = i
  BY DEF P!Consistent, P!Named, P!LiveIds, P!Indexes
<1> QED BY <1>1, <1>2 DEF P!Consistent, P!Mutual

LEMMA NickFinds ==
  ASSUME NEW x \in P!Indexes, P!Consistent(x), NEW n \in Nicks, x.byNick[n] # P!NoId
  PROVE  x.byNick[n] \in P!LiveIds(x) /\ x.key[x.byNick[n]] = n
BY FixedValues DEF P!Consistent, P!Named, P!LiveIds, P!Indexes

(* A roster that replaces another turns over who is in one channel only.   *)
LEMMA ReplaceTurns ==
  ASSUME NEW x \in P!Indexes, P!Consistent(x), NEW c \in Channels, NEW nicks \in SUBSET Nicks
  PROVE  LET z == P!ReplaceChannel(x, c, nicks)
         IN Turned(x, z, c) /\ Keys(z, c) = nicks
<1> DEFINE y == P!Numbered(x, nicks)
           present == {y.byNick[n] : n \in nicks}
           u == [y EXCEPT !.channelsOf = [i \in P!Ids |-> IF i \in present
                                                        THEN @[i] \union {c} ELSE @[i]],
                          !.members[c] = present]
           leaving == x.members[c] \ present
           z == P!ReplaceChannel(x, c, nicks)
<1>1. /\ y \in P!Indexes /\ P!Named(y)
      /\ y.channelsOf = x.channelsOf /\ y.members = x.members
      /\ present \in SUBSET P!LiveIds(y)
      /\ P!LiveIds(y) = P!LiveIds(x) \cup present
      /\ \A n \in nicks : y.byNick[n] \in P!LiveIds(y)
      /\ \A i \in P!LiveIds(x) : y.key[i] = x.key[i]
      /\ \A i \in P!LiveIds(y) \ P!LiveIds(x) : x.byNick[y.key[i]] = P!NoId
  BY NumberedKeeps, FixedValues
<1>2. z = P!Leave(u, leaving, c) /\ z \in P!Indexes /\ P!Consistent(z)
  BY ReplaceChannelKeeps, FixedValues DEF P!ReplaceChannel
<1>3. \A n \in nicks : y.key[y.byNick[n]] = n
  BY <1>1, FixedValues, NumbersAreNumbers DEF P!Named, P!LiveIds
<1>3a. \A i \in present : \E n \in nicks : i = y.byNick[n]
  OBVIOUS
<1>3b. \A n \in nicks : y.byNick[n] \in present
  OBVIOUS
<1> HIDE DEF y, present
<1>4. /\ u \in P!Indexes /\ u.key = y.key
      /\ \A d \in Channels : u.members[d] = IF d = c THEN present ELSE y.members[d]
  BY <1>1, ZenonT(30) DEF P!Indexes, P!LiveIds
<1>5. leaving \in SUBSET P!Ids /\ \A i \in P!Ids : i \in leaving <=> i \in x.members[c] /\ i \notin present
  BY DEF P!Indexes
<1> HIDE DEF u, leaving, z
<1>6. /\ \A d \in Channels : z.members[d] = u.members[d]
      /\ \A i \in P!Ids : z.key[i] \in {P!NoNick, y.key[i]} /\ (i \notin leaving => z.key[i] = y.key[i])
  <2>1. TakenFrom(u, leaving, c, z)
    BY <1>2, <1>4, <1>5, LeaveFields
  <2> QED BY <1>4, <2>1 DEF TakenFrom
<1>7. \A i \in P!LiveIds(z) : i \in P!LiveIds(y) /\ z.key[i] = y.key[i]
  BY <1>6 DEF P!LiveIds
<1>8. \A d \in Channels : d # c => z.members[d] = x.members[d]
  BY <1>1, <1>4, <1>6
<1>9. Keys(z, c) = nicks
  <2>1. z.members[c] = present /\ present \subseteq P!Ids
    BY <1>1, <1>4, <1>6 DEF P!LiveIds
  <2>2. \A i \in present : z.key[i] = y.key[i]
    BY <1>5, <1>6, <2>1
  <2> QED BY <1>3, <1>3a, <1>3b, <2>1, <2>2 DEF Keys
<1>10. Turned(x, z, c)
  BY <1>1, <1>2, <1>7, <1>8 DEF Turned
<1> QED BY <1>9, <1>10 DEF z

LEMMA RemoveTurns ==
  ASSUME NEW x \in P!Indexes, P!Consistent(x), NEW c \in Channels
  PROVE  LET z == P!RemoveChannel(x, c)
         IN Turned(x, z, c) /\ Keys(z, c) = {} /\ P!LiveIds(z) \subseteq P!LiveIds(x)
<1> DEFINE y == [x EXCEPT !.members[c] = {}]
           z == P!RemoveChannel(x, c)
<1>1. z = P!Leave(y, x.members[c], c) /\ x.members[c] \in SUBSET P!Ids
  BY DEF P!RemoveChannel, P!Indexes
<1>2. /\ y \in P!Indexes /\ y.key = x.key
      /\ \A d \in Channels : y.members[d] = IF d = c THEN {} ELSE x.members[d]
  BY DEF P!Indexes
<1>3. z \in P!Indexes /\ P!Consistent(z)
  BY RemoveChannelKeeps, FixedValues
<1> HIDE DEF y, z
<1>4. /\ \A d \in Channels : z.members[d] = y.members[d]
      /\ \A i \in P!Ids : z.key[i] \in {P!NoNick, y.key[i]}
  <2>1. TakenFrom(y, x.members[c], c, z)
    BY <1>1, <1>2, LeaveFields
  <2> QED BY <2>1 DEF TakenFrom
<1>5. \A i \in P!LiveIds(z) : i \in P!LiveIds(x) /\ z.key[i] = x.key[i]
  BY <1>2, <1>4 DEF P!LiveIds
<1>6. Turned(x, z, c) /\ Keys(z, c) = {}
  BY <1>2, <1>3, <1>4, <1>5 DEF Turned, Keys
<1> QED BY <1>5, <1>6 DEF z

LEMMA QuitFields ==
  ASSUME NEW x \in P!Indexes, P!Consistent(x), NEW n \in Nicks
  PROVE  LET z == P!Quit(x, n)
         IN /\ z \in P!Indexes /\ P!Consistent(z)
            /\ \A i : i \in P!LiveIds(z) <=> i \in P!LiveIds(x) /\ x.key[i] # n
            /\ \A i \in P!LiveIds(z) : z.key[i] = x.key[i]
            /\ \A d \in Channels : z.members[d] = {i \in x.members[d] : x.key[i] # n}
<1> DEFINE z == P!Quit(x, n)
           k == x.byNick[n]
<1>1. z \in P!Indexes /\ P!Consistent(z)
  BY QuitKeeps, FixedValues
<1>2. CASE k = P!NoId
  <2>1. z = x
    BY <1>2 DEF P!Quit
  <2>2. \A i \in P!LiveIds(x) : x.key[i] # n
    BY <1>2, NumbersAreNumbers, FixedValues DEF P!Consistent, P!Named, P!LiveIds
  <2>3. \A d \in Channels : x.members[d] = {i \in x.members[d] : x.key[i] # n}
    BY <2>2, MembersAreLive
  <2> QED BY <1>1, <2>1, <2>2, <2>3
<1>3. CASE k # P!NoId
  <2>1. z = P!Forget(x, {k}) /\ {k} \in SUBSET P!Ids
    BY <1>3 DEF P!Quit, P!Indexes
  <2>2. k \in P!LiveIds(x) /\ x.key[k] = n
    BY <1>3, NickFinds
  <2> HIDE DEF k, z
  <2>3. /\ \A i \in P!Ids : z.key[i] = IF i = k THEN P!NoNick ELSE x.key[i]
        /\ \A d \in Channels : z.members[d] = x.members[d] \ {i \in {k} : d \in x.channelsOf[i]}
    BY <2>1, ForgetFields
  <2>4. \A i \in P!LiveIds(x) : x.key[i] = n <=> i = k
    BY <2>2 DEF P!Consistent, P!Named
  <2>5. \A i : i \in P!LiveIds(z) <=> i \in P!LiveIds(x) /\ x.key[i] # n
    BY <2>2, <2>3, <2>4 DEF P!LiveIds
  <2>6. \A i \in P!LiveIds(z) : z.key[i] = x.key[i]
    BY <2>3, <2>5 DEF P!LiveIds
  <2>7. \A d \in Channels : z.members[d] = {i \in x.members[d] : x.key[i] # n}
    <3> TAKE d \in Channels
    <3>1. \A i \in x.members[d] : i \in P!LiveIds(x) /\ i \in P!Ids /\ d \in x.channelsOf[i]
      BY MembersAreLive DEF P!Consistent, P!Mutual, P!LiveIds
    <3> QED BY <2>3, <2>4, <3>1
  <2> QED BY <1>1, <2>5, <2>6, <2>7 DEF z
<1> QED BY <1>2, <1>3

LEMMA RenameFields ==
  ASSUME NEW x \in P!Indexes, P!Consistent(x), NEW old \in Nicks, NEW new \in Nicks, old # new
  PROVE  LET z == P!Rename(x, old, new)
             k == x.byNick[old]
         IN /\ z \in P!Indexes /\ P!Consistent(z)
            /\ k = P!NoId => z = x
            /\ k # P!NoId =>
                 /\ \A i : i \in P!LiveIds(z) <=> i \in P!LiveIds(x) /\ x.key[i] # new
                 /\ \A i \in P!LiveIds(z) : z.key[i] = IF x.key[i] = old THEN new ELSE x.key[i]
                 /\ \A d \in Channels : z.members[d] = {i \in x.members[d] : x.key[i] # new}
<1> DEFINE id == x.byNick[old]
           taken == [x EXCEPT !.byNick[old] = P!NoId, !.byNick[new] = P!NoId]
           gone == {x.byNick[new]} \ {id, P!NoId}
           y == P!Forget(taken, gone)
           z == [y EXCEPT !.byNick[new] = id, !.key[id] = new]
           r == P!Rename(x, old, new)
<1>0. r \in P!Indexes /\ P!Consistent(r)
  BY RenameKeeps, FixedValues
<1>1. CASE id = P!NoId
  BY <1>0, <1>1 DEF P!Rename
<1>2. CASE id # P!NoId
  <2>1. r = z
    BY <1>2 DEF P!Rename
  <2>2. id \in P!LiveIds(x) /\ x.key[id] = old /\ id \in P!Ids
    BY <1>2, NickFinds DEF P!LiveIds
  <2>3. gone \in SUBSET P!Ids /\ \A i \in P!LiveIds(x) : i \in gone <=> x.key[i] = new
    <3>1. gone \in SUBSET P!Ids
      BY DEF P!Indexes
    <3>2. ASSUME NEW i \in P!LiveIds(x), x.key[i] = new PROVE i \in gone
      <4>1. x.byNick[new] = i /\ i \in P!Ids /\ i # P!NoId
        BY <3>2, NumbersAreNumbers, FixedValues DEF P!Consistent, P!Named, P!LiveIds
      <4> QED BY <2>2, <3>2, <4>1
    <3>3. ASSUME NEW i \in gone PROVE x.key[i] = new
      BY NickFinds
    <3> QED BY <3>1, <3>2, <3>3
  <2>3a. gone \subseteq P!LiveIds(x)
    BY NickFinds
  <2>4. taken \in P!Indexes /\ taken.key = x.key /\ taken.channelsOf = x.channelsOf
        /\ taken.members = x.members
    BY DEF P!Indexes
  <2> HIDE DEF taken, gone, id
  <2>5. y \in P!Indexes
    BY <2>3, <2>4, ForgetType
  <2>6. /\ \A i \in P!Ids : y.key[i] = IF i \in gone THEN P!NoNick ELSE x.key[i]
        /\ \A d \in Channels : y.members[d] = x.members[d] \ {i \in gone : d \in x.channelsOf[i]}
    BY <2>3, <2>4, ForgetFields
  <2> HIDE DEF y
  <2>7. z.members = y.members /\ \A i \in P!Ids : z.key[i] = IF i = id THEN new ELSE y.key[i]
    BY <2>2, <2>5 DEF P!Indexes
  <2> HIDE DEF z
  <2>8. \A i \in P!LiveIds(x) : x.key[i] = old <=> i = id
    BY <2>2 DEF P!Consistent, P!Named
  <2>9. id \notin gone /\ new # P!NoNick
    BY <2>2, <2>3, FixedValues
  <2>10. \A i : i \in P!LiveIds(z) <=> i \in P!LiveIds(x) /\ x.key[i] # new
    <3>1. \A i \in P!LiveIds(z) : i \in P!LiveIds(x) /\ i \notin gone
      BY <2>2, <2>6, <2>7, <2>9 DEF P!LiveIds
    <3>2. \A i \in P!LiveIds(x) : i \notin gone => i \in P!LiveIds(z)
      BY <2>6, <2>7, <2>9 DEF P!LiveIds
    <3> QED BY <2>3, <3>1, <3>2
  <2>11. \A i \in P!LiveIds(z) : z.key[i] = IF x.key[i] = old THEN new ELSE x.key[i]
    <3> TAKE i \in P!LiveIds(z)
    <3>1. i \in P!LiveIds(x) /\ i \in P!Ids /\ i \notin gone
      BY <2>3, <2>10 DEF P!LiveIds
    <3> QED BY <2>6, <2>7, <2>8, <3>1
  <2>12. \A d \in Channels : z.members[d] = {i \in x.members[d] : x.key[i] # new}
    <3> TAKE d \in Channels
    <3>1. \A i \in x.members[d] : i \in P!LiveIds(x) /\ i \in P!Ids /\ d \in x.channelsOf[i]
      BY MembersAreLive DEF P!Consistent, P!Mutual, P!LiveIds
    <3>2. z.members[d] = x.members[d] \ {i \in gone : d \in x.channelsOf[i]}
      BY <2>6, <2>7
    <3> QED BY <2>3, <3>1, <3>2
  <2> QED BY <1>0, <1>2, <2>1, <2>10, <2>11, <2>12 DEF id
<1> QED BY <1>1, <1>2

(* A roster that is published again as it is changes nothing.              *)
LEMMA ReplaceSame ==
  ASSUME NEW x \in P!Indexes, P!Consistent(x), NEW c \in Channels
  PROVE  P!ReplaceChannel(x, c, Keys(x, c)) = x
<1> DEFINE nicks == Keys(x, c)
           y == P!Numbered(x, nicks)
           fresh == {n \in nicks : x.byNick[n] = P!NoId}
           new == CHOOSE f \in [fresh -> P!Ids \ P!LiveIds(x)] :
                   \A a, b \in fresh : f[a] = f[b] => a = b
           present == {y.byNick[n] : n \in nicks}
           u == [y EXCEPT !.channelsOf = [i \in P!Ids |-> IF i \in present
                                                        THEN @[i] \union {c} ELSE @[i]],
                          !.members[c] = present]
           leaving == x.members[c] \ present
           v == [u EXCEPT !.channelsOf = [i \in P!Ids |-> IF i \in leaving
                                                        THEN @[i] \ {c} ELSE @[i]]]
           gone == {i \in leaving : u.channelsOf[i] \subseteq {c}}
<1>1. P!ReplaceChannel(x, c, nicks) = P!Forget(v, gone)
  BY DEF P!ReplaceChannel, P!Leave
<1>2. \A n \in nicks : n \in Nicks /\ x.byNick[n] \in x.members[c] /\ x.byNick[n] \in P!Ids
  BY MembersAreLive DEF Keys, P!Indexes
<1>2a. \A i \in x.members[c] : x.key[i] \in nicks /\ x.byNick[x.key[i]] = i
  BY MembersAreLive DEF Keys
<1>3. fresh = {}
  BY <1>2, NumbersAreNumbers, FixedValues
<1>4. y = [x EXCEPT !.byNick = [n \in Nicks |-> IF n \in fresh THEN new[n] ELSE @[n]],
                    !.key = [i \in P!Ids |-> IF \E n \in fresh : new[n] = i
                                             THEN CHOOSE n \in fresh : new[n] = i
                                             ELSE @[i]]]
  BY DEF P!Numbered
<1> HIDE DEF y, fresh, new
<1>5. y = x
  <2> DEFINE bn == [n \in Nicks |-> IF n \in fresh THEN new[n] ELSE x.byNick[n]]
             ky == [i \in P!Ids |-> IF \E n \in fresh : new[n] = i
                                     THEN CHOOSE n \in fresh : new[n] = i
                                     ELSE x.key[i]]
  <2>1. bn = x.byNick
    BY <1>3 DEF P!Indexes
  <2>2. ky = x.key
    BY <1>3 DEF P!Indexes
  <2>3. y = [x EXCEPT !.byNick = bn, !.key = ky]
    BY <1>4
  <2> HIDE DEF bn, ky
  <2> QED BY <2>1, <2>2, <2>3 DEF P!Indexes
<1>6. present = x.members[c]
  BY <1>2, <1>2a, <1>5
<1> HIDE DEF present, nicks
<1>7. u = x
  <2>1. [i \in P!Ids |-> IF i \in present THEN x.channelsOf[i] \union {c} ELSE x.channelsOf[i]]
          = x.channelsOf
    <3>1. \A i \in present : c \in x.channelsOf[i]
      BY <1>6 DEF P!Consistent, P!Mutual, P!Indexes
    <3> QED BY <3>1 DEF P!Indexes
  <2>2. [x.members EXCEPT ![c] = present] = x.members
    BY <1>6 DEF P!Indexes
  <2> QED BY <1>5, <2>1, <2>2 DEF P!Indexes
<1>8. leaving = {}
  BY <1>6
<1> HIDE DEF u, leaving
<1>9. v = x
  <2>1. [i \in P!Ids |-> IF i \in leaving THEN x.channelsOf[i] \ {c} ELSE x.channelsOf[i]]
          = x.channelsOf
    BY <1>8 DEF P!Indexes
  <2> QED BY <1>7, <2>1 DEF P!Indexes
<1>10. gone = {}
  BY <1>8
<1> HIDE DEF v, gone
<1>11. P!Forget(x, {}) = x
  <2>1. [n \in Nicks |-> IF \E i \in {} : x.key[i] = n THEN P!NoId ELSE x.byNick[n]] = x.byNick
    BY DEF P!Indexes
  <2>2. [i \in P!Ids |-> IF i \in {} THEN P!NoNick ELSE x.key[i]] = x.key
    BY DEF P!Indexes
  <2>3. [i \in P!Ids |-> IF i \in {} THEN {} ELSE x.channelsOf[i]] = x.channelsOf
    BY DEF P!Indexes
  <2>4. [d \in Channels |-> x.members[d] \ {i \in {} : d \in x.channelsOf[i]}] = x.members
    BY DEF P!Indexes
  <2> QED BY <2>1, <2>2, <2>3, <2>4 DEF P!Forget, P!Indexes
<1> QED BY <1>1, <1>9, <1>10, <1>11 DEF nicks

(* Presences and the people they were made for.                            *)
OwnersSo(x, v, o, s) ==
    /\ x \in P!Indexes /\ P!Consistent(x) /\ s \subseteq P!LiveIds(x)
    /\ \A c \in Channels : c \notin v.meIn => x.members[c] = {}
    /\ \A i \in P!LiveIds(x) \ s, c \in Channels : i \in x.members[c] =>
          o[i] \in People /\ v.nick[o[i]] = x.key[i] /\ c \in v.in[o[i]]

(* Nobody has another nickname than before, and nobody has left any        *)
(* channel but c.                                                          *)
Grows(v, w, c) ==
    \A q \in People : /\ v.in[q] \ {c} \subseteq w.in[q]
                      /\ v.in[q] # {} => w.nick[q] = v.nick[q]

(* Who the presences of y were made for, when the line came with w.        *)
OwnersAfter(x, y, o, w) ==
    [i \in P!Ids |-> IF i \notin P!LiveIds(y) THEN Nobody
                     ELSE IF i \in P!LiveIds(x) THEN o[i]
                     ELSE Holder(w, y.key[i])]

(* A person keeps the presence.                                            *)
KeptSo(x, y, w, o, s) ==
    \A i \in P!LiveIds(x) \ s :
        LET n == w.nick[o[i]]
        IN n # NoNick /\ y.byNick[n] # P!NoId => y.byNick[n] = i

(* The owner of a presence holds its nickname.                             *)
LEMMA OwnerHolds ==
  ASSUME NEW x, NEW v, NEW o, NEW s, OwnersSo(x, v, o, s), NEW i \in P!LiveIds(x) \ s
  PROVE  /\ o[i] \in People /\ v.nick[o[i]] = x.key[i] /\ v.in[o[i]] # {}
         /\ i \in P!Ids /\ x.key[i] \in Nicks /\ x.byNick[x.key[i]] = i
<1>1. PICK c \in Channels : i \in x.members[c]
  BY LiveArePlaced DEF OwnersSo
<1>2. i \in P!Ids /\ x.key[i] \in Nicks /\ x.byNick[x.key[i]] = i
  BY LiveArePlaced DEF OwnersSo
<1> QED BY <1>1, <1>2 DEF OwnersSo

LEMMA HolderOf ==
  ASSUME NEW w, Sane(w), NEW q \in People, w.nick[q] # NoNick
  PROVE  Holder(w, w.nick[q]) = q
<1>1. /\ Holder(w, w.nick[q]) \in People /\ w.nick[Holder(w, w.nick[q])] = w.nick[q]
  BY HolderIs
<1> QED BY <1>1 DEF Sane

(* One roster is replaced: by people who are in the channel, or by nobody. *)
LEMMA TurnKeepsOwners ==
  ASSUME NEW x, NEW y, NEW v, NEW w, NEW o, NEW s, NEW t, NEW c,
         OwnersSo(x, v, o, s), Sane(w), Grows(v, w, c), Turned(x, y, c),
         c \in Channels, Keys(y, c) \subseteq InIt(w, c) \intersect Nicks,
         c \notin w.meIn => Keys(y, c) = {},
         \A d \in Channels : d # c /\ d \in v.meIn => d \in w.meIn,
         s \intersect P!LiveIds(y) \subseteq t, t \subseteq P!LiveIds(y)
  PROVE  OwnersSo(y, w, OwnersAfter(x, y, o, w), t) /\ KeptSo(x, y, w, o, s)
<1> DEFINE z == OwnersAfter(x, y, o, w)
<1>1. /\ x \in P!Indexes /\ P!Consistent(x) /\ y \in P!Indexes /\ P!Consistent(y)
      /\ \A d \in Channels : d # c => y.members[d] = x.members[d]
      /\ \A i \in P!LiveIds(x) : i \in P!LiveIds(y) => y.key[i] = x.key[i]
      /\ \A i \in P!LiveIds(y) \ P!LiveIds(x) : x.byNick[y.key[i]] = P!NoId
  BY DEF OwnersSo, Turned
<1>2. \A d \in Channels : d \notin w.meIn => y.members[d] = {}
  <2> TAKE d \in Channels
  <2>1. CASE d = c
    BY <2>1 DEF Keys
  <2>2. CASE d # c
    BY <1>1, <2>2 DEF OwnersSo
  <2> QED BY <2>1, <2>2
<1>3. \A i \in P!LiveIds(y) : z[i] = IF i \in P!LiveIds(x) THEN o[i] ELSE Holder(w, y.key[i])
  BY DEF OwnersAfter, P!LiveIds
<1>4. ASSUME NEW i \in y.members[c]
      PROVE  \E q \in People : c \in w.in[q] /\ w.nick[q] = y.key[i]
  BY DEF Keys, InIt
<1> HIDE DEF z
<1>5. ASSUME NEW i \in P!LiveIds(y) \ t, NEW d \in Channels, i \in y.members[d]
      PROVE  z[i] \in People /\ w.nick[z[i]] = y.key[i] /\ d \in w.in[z[i]]
  <2>1. CASE i \in P!LiveIds(x)
    <3>1. i \notin s /\ z[i] = o[i] /\ y.key[i] = x.key[i]
      BY <1>1, <1>3, <1>5, <2>1
    <3>2. /\ o[i] \in People /\ v.nick[o[i]] = x.key[i] /\ v.in[o[i]] # {} /\ x.key[i] \in Nicks
      BY <2>1, <3>1, OwnerHolds
    <3>3. w.nick[o[i]] = y.key[i] /\ v.in[o[i]] \ {c} \subseteq w.in[o[i]]
      BY <3>1, <3>2 DEF Grows
    <3>4. CASE d = c
      <4>1. PICK q \in People : c \in w.in[q] /\ w.nick[q] = y.key[i]
        BY <1>4, <1>5, <3>4
      <4>2. y.key[i] # NoNick
        BY <3>1, <3>2, FixedValues
      <4>3. q = o[i]
        BY <3>2, <3>3, <4>1, <4>2 DEF Sane
      <4> QED BY <3>1, <3>2, <3>3, <3>4, <4>1, <4>3
    <3>5. CASE d # c
      <4>1. d \in v.in[o[i]]
        BY <1>1, <1>5, <2>1, <3>1, <3>5 DEF OwnersSo
      <4> QED BY <3>1, <3>2, <3>3, <3>5, <4>1
    <3> QED BY <3>4, <3>5
  <2>2. CASE i \notin P!LiveIds(x)
    <3>1. d = c
      <4>1. i \notin x.members[d]
        BY <1>1, <2>2, MembersAreLive
      <4> QED BY <1>1, <1>5, <4>1
    <3>2. PICK q \in People : c \in w.in[q] /\ w.nick[q] = y.key[i]
      BY <1>4, <1>5, <3>1
    <3>3. y.key[i] \in Nicks
      BY <1>1, LiveArePlaced
    <3>4. Holder(w, y.key[i]) = q
      BY <3>2, <3>3, FixedValues, HolderOf
    <3> QED BY <1>3, <2>2, <3>1, <3>2, <3>4
  <2> QED BY <2>1, <2>2
<1>6. OwnersSo(y, w, z, t)
  BY <1>1, <1>2, <1>5 DEF OwnersSo
<1>7. ASSUME NEW i \in P!LiveIds(x) \ s, NEW n, n = w.nick[o[i]], n # NoNick, y.byNick[n] # P!NoId
      PROVE  y.byNick[n] = i
  <2> DEFINE j == y.byNick[n]
  <2>1. /\ o[i] \in People /\ v.nick[o[i]] = x.key[i] /\ v.in[o[i]] # {}
        /\ i \in P!Ids /\ x.key[i] \in Nicks /\ x.byNick[x.key[i]] = i
    BY OwnerHolds
  <2>2. n = x.key[i] /\ n \in Nicks
    BY <1>7, <2>1 DEF Grows
  <2>3. j \in P!LiveIds(y) /\ y.key[j] = n
    BY <1>1, <1>7, <2>2, NickFinds
  <2> HIDE DEF j
  <2>4. j \in P!LiveIds(x)
    <3>1. x.byNick[n] # P!NoId
      BY <2>1, <2>2, NumbersAreNumbers, FixedValues
    <3> QED BY <1>1, <2>3, <3>1
  <2>5. x.byNick[x.key[j]] = j /\ x.key[j] = n
    BY <1>1, <2>3, <2>4, LiveArePlaced
  <2> QED BY <2>1, <2>2, <2>5 DEF j
<1> QED BY <1>6, <1>7 DEF KeptSo, z

LEMMA SameIndexTurns ==
  ASSUME NEW x \in P!Indexes, P!Consistent(x), NEW c
  PROVE  Turned(x, x, c)
BY DEF Turned

(* No roster changes.                                                      *)
LEMMA StayingOwners ==
  ASSUME NEW x, NEW v, NEW w, NEW o, NEW s, NEW t, NEW c,
         OwnersSo(x, v, o, s), Grows(v, w, c),
         \A i \in P!LiveIds(x) \ t : c \in Channels /\ i \in x.members[c] => c \in w.in[o[i]],
         \A d \in Channels : d \in v.meIn => d \in w.meIn,
         s \subseteq t, t \subseteq P!LiveIds(x)
  PROVE  OwnersSo(x, w, OwnersAfter(x, x, o, w), t) /\ KeptSo(x, x, w, o, s)
<1> DEFINE z == OwnersAfter(x, x, o, w)
<1>1. x \in P!Indexes /\ P!Consistent(x) /\ P!LiveIds(x) \subseteq P!Ids
  BY DEF OwnersSo, P!LiveIds
<1>2. \A i \in P!LiveIds(x) : z[i] = o[i]
  BY <1>1 DEF OwnersAfter
<1> HIDE DEF z
<1>3. ASSUME NEW i \in P!LiveIds(x) \ t, NEW d \in Channels, i \in x.members[d]
      PROVE  z[i] \in People /\ w.nick[z[i]] = x.key[i] /\ d \in w.in[z[i]]
  <2>1. /\ o[i] \in People /\ v.nick[o[i]] = x.key[i] /\ v.in[o[i]] # {} /\ i \notin s
    BY <1>3, OwnerHolds
  <2>2. w.nick[o[i]] = x.key[i] /\ v.in[o[i]] \ {c} \subseteq w.in[o[i]] /\ d \in v.in[o[i]]
    BY <1>3, <2>1 DEF Grows, OwnersSo
  <2>3. d \in w.in[o[i]]
    BY <1>3, <2>2
  <2> QED BY <1>2, <2>1, <2>2, <2>3
<1>4. OwnersSo(x, w, z, t)
  BY <1>1, <1>3 DEF OwnersSo
<1>5. ASSUME NEW i \in P!LiveIds(x) \ s, NEW n, n = w.nick[o[i]]
      PROVE  x.byNick[n] = i
  <2>1. /\ o[i] \in People /\ v.nick[o[i]] = x.key[i] /\ v.in[o[i]] # {} /\ x.byNick[x.key[i]] = i
    BY OwnerHolds
  <2> QED BY <1>5, <2>1 DEF Grows
<1> QED BY <1>4, <1>5 DEF KeptSo, z

(* Somebody quits.                                                         *)
LEMMA QuitKeepsOwners ==
  ASSUME NEW x, NEW v, NEW w, NEW o, NEW s, NEW t, NEW p \in People, NEW n \in Nicks,
         OwnersSo(x, v, o, s), StillBut(v, w, p), v.nick[p] = n, w.nick[p] = NoNick,
         w.meIn = v.meIn,
         s \intersect P!LiveIds(P!Quit(x, n)) \subseteq t, t \subseteq P!LiveIds(P!Quit(x, n))
  PROVE  LET y == P!Quit(x, n)
         IN OwnersSo(y, w, OwnersAfter(x, y, o, w), t) /\ KeptSo(x, y, w, o, s)
<1> DEFINE y == P!Quit(x, n)
           z == OwnersAfter(x, y, o, w)
<1>1. /\ y \in P!Indexes /\ P!Consistent(y)
      /\ \A i : i \in P!LiveIds(y) <=> i \in P!LiveIds(x) /\ x.key[i] # n
      /\ \A i \in P!LiveIds(y) : y.key[i] = x.key[i]
      /\ \A d \in Channels : y.members[d] = {i \in x.members[d] : x.key[i] # n}
  BY QuitFields DEF OwnersSo
<1> HIDE DEF y
<1>2. \A i \in P!LiveIds(y) : z[i] = o[i]
  BY <1>1 DEF OwnersAfter, P!LiveIds
<1> HIDE DEF z
<1>3. ASSUME NEW i \in P!LiveIds(x) \ s, x.key[i] # n
      PROVE  o[i] \in People /\ w.nick[o[i]] = x.key[i] /\ w.in[o[i]] = v.in[o[i]]
  <2>1. /\ o[i] \in People /\ v.nick[o[i]] = x.key[i] /\ v.in[o[i]] # {}
    BY OwnerHolds
  <2>2. o[i] # p
    BY <1>3, <2>1
  <2> QED BY <2>1, <2>2 DEF StillBut, Still
<1>4. OwnersSo(y, w, z, t)
  <2>1. ASSUME NEW i \in P!LiveIds(y) \ t, NEW d \in Channels, i \in y.members[d]
        PROVE  z[i] \in People /\ w.nick[z[i]] = y.key[i] /\ d \in w.in[z[i]]
    <3>1. i \in P!LiveIds(x) \ s /\ x.key[i] # n /\ i \in x.members[d]
      BY <1>1, <2>1 DEF y
    <3>2. d \in v.in[o[i]]
      BY <3>1 DEF OwnersSo
    <3> QED BY <1>1, <1>2, <1>3, <3>1, <3>2
  <2>2. \A d \in Channels : d \notin w.meIn => y.members[d] = {}
    BY <1>1 DEF OwnersSo
  <2> QED BY <1>1, <2>1, <2>2 DEF OwnersSo, y
<1>5. ASSUME NEW i \in P!LiveIds(x) \ s, NEW k, k = w.nick[o[i]], k # NoNick, y.byNick[k] # P!NoId
      PROVE  y.byNick[k] = i
  <2> DEFINE j == y.byNick[k]
  <2>1. /\ o[i] \in People /\ v.nick[o[i]] = x.key[i] /\ v.in[o[i]] # {}
        /\ x.key[i] \in Nicks /\ x.byNick[x.key[i]] = i
    BY OwnerHolds
  <2>2. k = x.key[i]
    <3>1. o[i] # p
      BY <1>5
    <3> QED BY <1>5, <2>1, <3>1 DEF StillBut, Still
  <2>3. j \in P!LiveIds(y) /\ y.key[j] = k
    BY <1>1, <1>5, <2>1, <2>2, NickFinds
  <2> HIDE DEF j
  <2>4. j \in P!LiveIds(x) /\ x.key[j] = k
    BY <1>1, <2>3
  <2>5. x.byNick[k] = j
    BY <2>4, LiveArePlaced DEF OwnersSo
  <2> QED BY <2>1, <2>2, <2>5 DEF j
<1> QED BY <1>4, <1>5 DEF KeptSo, z, y

(* Somebody takes another nickname.                                        *)
LEMMA RenameKeepsOwners ==
  ASSUME NEW x, NEW v, NEW w, NEW o, NEW s, NEW t, NEW p \in People, NEW n \in Nicks,
         NEW to \in Nicks, to # n,
         OwnersSo(x, v, o, s), Sane(v), Sane(w), StillBut(v, w, p), v.nick[p] = n,
         w.nick[p] = to, w.in[p] = v.in[p], w.meIn = v.meIn,
         s \intersect P!LiveIds(P!Rename(x, n, to)) \subseteq t,
         t \subseteq P!LiveIds(P!Rename(x, n, to))
  PROVE  LET y == P!Rename(x, n, to)
         IN OwnersSo(y, w, OwnersAfter(x, y, o, w), t) /\ KeptSo(x, y, w, o, s)
<1> DEFINE y == P!Rename(x, n, to)
           z == OwnersAfter(x, y, o, w)
           id == x.byNick[n]
<1>0. x \in P!Indexes /\ P!Consistent(x)
  BY DEF OwnersSo
<1>1. /\ y \in P!Indexes /\ P!Consistent(y)
      /\ id = P!NoId => y = x
      /\ id # P!NoId =>
           /\ \A i : i \in P!LiveIds(y) <=> i \in P!LiveIds(x) /\ x.key[i] # to
           /\ \A i \in P!LiveIds(y) : y.key[i] = IF x.key[i] = n THEN to ELSE x.key[i]
           /\ \A d \in Channels : y.members[d] = {i \in x.members[d] : x.key[i] # to}
  BY <1>0, RenameFields
<1> HIDE DEF y
<1>2. ASSUME NEW i \in P!LiveIds(x) \ s
      PROVE  /\ o[i] \in People /\ w.in[o[i]] = v.in[o[i]] /\ x.key[i] \in Nicks
             /\ x.byNick[x.key[i]] = i
             /\ w.nick[o[i]] = IF x.key[i] = n THEN to ELSE x.key[i]
             /\ x.key[i] # to
             /\ id = P!NoId => x.key[i] # n
  <2>1. /\ o[i] \in People /\ v.nick[o[i]] = x.key[i] /\ v.in[o[i]] # {} /\ i \in P!Ids
        /\ x.key[i] \in Nicks /\ x.byNick[x.key[i]] = i
    BY OwnerHolds
  <2>2. CASE o[i] = p
    <3>1. x.key[i] = n
      BY <2>1, <2>2
    <3>2. id = i /\ id # P!NoId
      BY <2>1, <3>1, NumbersAreNumbers, FixedValues
    <3> QED BY <2>1, <2>2, <3>1, <3>2
  <2>3. CASE o[i] # p
    <3>1. w.nick[o[i]] = x.key[i] /\ w.in[o[i]] = v.in[o[i]]
      BY <2>1, <2>3 DEF StillBut, Still
    <3>2. n # NoNick /\ to # NoNick
      BY FixedValues
    <3>3. x.key[i] # n
      BY <2>1, <2>3, <3>2 DEF Sane
    <3>4. x.key[i] # to
      BY <2>1, <2>3, <3>1, <3>2 DEF Sane
    <3> QED BY <2>1, <3>1, <3>3, <3>4
  <2> QED BY <2>2, <2>3
<1>3. \A i \in P!LiveIds(y) : i \in P!LiveIds(x) /\ z[i] = o[i]
  BY <1>1 DEF OwnersAfter, P!LiveIds
<1> HIDE DEF z, id
<1>4. \A i \in P!LiveIds(y) \ t : /\ i \in P!LiveIds(x) \ s
                                  /\ y.key[i] = IF x.key[i] = n THEN to ELSE x.key[i]
  <2> TAKE i \in P!LiveIds(y) \ t
  <2>1. i \in P!LiveIds(x) \ s
    BY <1>3 DEF y
  <2> QED BY <1>1, <1>2, <2>1
<1>5. \A d \in Channels : y.members[d] \subseteq x.members[d]
  BY <1>1
<1>6. OwnersSo(y, w, z, t)
  <2>1. ASSUME NEW i \in P!LiveIds(y) \ t, NEW d \in Channels, i \in y.members[d]
        PROVE  z[i] \in People /\ w.nick[z[i]] = y.key[i] /\ d \in w.in[z[i]]
    <3>1. i \in P!LiveIds(x) \ s /\ i \in x.members[d]
      BY <1>4, <1>5, <2>1
    <3>2. d \in v.in[o[i]]
      BY <3>1 DEF OwnersSo
    <3> QED BY <1>2, <1>3, <1>4, <3>1, <3>2
  <2>2. \A d \in Channels : d \notin w.meIn => y.members[d] = {}
    BY <1>5 DEF OwnersSo
  <2> QED BY <1>1, <2>1, <2>2 DEF OwnersSo, y
<1>7. ASSUME NEW i \in P!LiveIds(x) \ s, NEW k, k = w.nick[o[i]], k # NoNick, y.byNick[k] # P!NoId
      PROVE  y.byNick[k] = i
  <2> DEFINE j == y.byNick[k]
  <2>1. k \in Nicks
    BY <1>2, <1>7
  <2>2. j \in P!LiveIds(y) /\ y.key[j] = k /\ y.byNick[y.key[j]] = j
    BY <1>1, <1>7, <2>1, NickFinds
  <2> HIDE DEF j
  <2>3. j \in P!LiveIds(x) /\ x.byNick[x.key[j]] = j
    BY <1>0, <1>3, <2>2, LiveArePlaced
  <2>4. CASE id = P!NoId
    BY <1>1, <1>2, <1>7, <2>2, <2>3, <2>4
  <2>5. CASE id # P!NoId
    <3>1. k = (IF x.key[j] = n THEN to ELSE x.key[j]) /\ x.key[j] # to
      BY <1>1, <2>2, <2>5
    <3>2. k = (IF x.key[i] = n THEN to ELSE x.key[i]) /\ x.key[i] # to /\ x.byNick[x.key[i]] = i
      BY <1>2, <1>7
    <3>3. x.key[i] = x.key[j]
      BY <3>1, <3>2
    <3> QED BY <2>3, <3>2, <3>3 DEF j
  <2> QED BY <2>4, <2>5 DEF j
<1> QED BY <1>6, <1>7 DEF KeptSo, z, y

(* The roster tracker's part of a line, field by field.                    *)
LEMMA BeforeFields ==
  ASSUME NEW w, WorkerOK(w), NEW m, LineOK(m)
  PROVE  LET b == Before(w, m)
             c == m.channel
             n == m.nick
         IN /\ WorkerOK(b) /\ SameLists(w, b)
            /\ b.index = CASE m.kind = "nick" -> P!Rename(w.index, n, m.to)
                           [] m.kind = "quit" -> P!Quit(w.index, n)
                           [] m.kind \in {"me_part", "me_kick"} -> P!RemoveChannel(w.index, c)
                           [] OTHER -> w.index
            /\ b.ranked = IF m.kind \in {"me_part", "me_kick"}
                          THEN [w.ranked EXCEPT ![c] = NoRole] ELSE w.ranked
            /\ b.renamed = CASE m.kind = "nick" -> Carried(w, n, m.to)
                             [] m.kind = "mode" -> [w.renamed EXCEPT ![c] = [@ EXCEPT ![n] = NoLevel]]
                             [] m.kind \in {"me_part", "me_kick", "names"} ->
                                   [w.renamed EXCEPT ![c] = NoRole]
                             [] OTHER -> w.renamed
<1> DEFINE u == AccountedW(w, m)
           b == Before(w, m)
           c == m.channel
           n == m.nick
<1>1. /\ WorkerOK(u) /\ SameLists(w, u) /\ u.ranked = w.ranked /\ u.renamed = w.renamed
      /\ u.index = w.index
  BY AccountedType DEF Ours
<1>2. WorkerOK(b) /\ SameLists(w, b)
  BY BeforeType
<1>3. m.kind \in AboutChannel \union AboutNick
  BY DEF LineOK, Lines
<1>4. b = Tracked(u, m)
  BY DEF Before
<1> HIDE DEF u, b
<1>5. Carried(u, n, m.to) = Carried(w, n, m.to)
  BY <1>1 DEF Carried, SameLists
<1>6. CASE m.kind = "nick"
  <2>1. Ours(u, b, u.ranked, Carried(u, n, m.to), P!Rename(u.index, n, m.to), u.accounts)
    BY <1>1, <1>4, <1>6, TrackedFields
  <2> QED BY <1>1, <1>2, <1>5, <1>6, <2>1 DEF Ours, b
<1>7. CASE m.kind = "quit"
  <2>1. Ours(u, b, u.ranked, u.renamed, P!Quit(u.index, n), u.accounts)
    BY <1>1, <1>4, <1>7, TrackedFields
  <2> QED BY <1>1, <1>2, <1>7, <2>1 DEF Ours, b
<1>8. CASE m.kind = "mode"
  <2>1. Ours(u, b, u.ranked, [u.renamed EXCEPT ![c] = [@ EXCEPT ![n] = NoLevel]], u.index, u.accounts)
    BY <1>1, <1>4, <1>8, TrackedFields
  <2> QED BY <1>1, <1>2, <1>8, <2>1 DEF Ours, b
<1>9. CASE m.kind \in {"me_part", "me_kick"}
  <2>1. Ours(u, b, [u.ranked EXCEPT ![c] = NoRole], [u.renamed EXCEPT ![c] = NoRole],
             P!RemoveChannel(u.index, c), u.accounts)
    BY <1>1, <1>4, <1>9, TrackedFields
  <2> QED BY <1>1, <1>2, <1>9, <2>1 DEF Ours, b
<1>10. CASE m.kind = "names"
  <2>1. Ours(u, b, u.ranked, [u.renamed EXCEPT ![c] = NoRole], u.index, u.accounts)
    BY <1>1, <1>4, <1>10, TrackedFields
  <2> QED BY <1>1, <1>2, <1>10, <2>1 DEF Ours, b
<1>11. CASE m.kind \in {"join", "part", "account", "who", "whoend", "me_join"}
  <2>1. Ours(u, b, u.ranked, u.renamed, u.index, u.accounts)
    BY <1>1, <1>4, <1>11, TrackedFields
  <2>2. m.kind \notin {"nick", "quit", "mode", "me_part", "me_kick", "names"}
    BY <1>11
  <2> QED BY <1>1, <1>2, <2>2, <2>1 DEF Ours, b
<1> QED BY <1>3, <1>6, <1>7, <1>8, <1>9, <1>10, <1>11 DEF AboutChannel, AboutNick

LEMMA ChangedIs ==
  ASSUME NEW w, NEW m
  PROVE  /\ m.kind \in {"join", "part", "mode", "names", "me_join"} => Changed(w, m) = {m.channel}
         /\ m.kind \in {"quit", "nick"} =>
              Changed(w, m) = {c \in w.listed : P!InChannel(w.index, c, m.nick)}
         /\ m.kind \notin {"join", "part", "mode", "names", "me_join", "quit", "nick"} =>
              Changed(w, m) = {}
<1>1. m.kind \in {"join", "part", "mode", "names", "me_join"} => Changed(w, m) = {m.channel}
  BY DEF Changed
<1>2. m.kind \in {"quit", "nick"} =>
              Changed(w, m) = {c \in w.listed : P!InChannel(w.index, c, m.nick)}
  BY DEF Changed
<1>3. m.kind \notin {"join", "part", "mode", "names", "me_join", "quit", "nick"} =>
              Changed(w, m) = {}
  BY DEF Changed
<1> QED BY <1>1, <1>2, <1>3

(* The index after a line.                                                 *)
LEMMA IndexAfter ==
  ASSUME NEW w, WorkerOK(w), NEW m, LineOK(m)
  PROVE  LET x == w.index
             y == Published(w, m).index
             c == m.channel
             n == m.nick
         IN /\ m.kind \in {"join", "part", "mode", "names", "me_join"} =>
                  y = IF c \in w.listed THEN P!ReplaceChannel(x, c, w.list[c]) ELSE x
            /\ m.kind \in {"me_part", "me_kick"} => y = P!RemoveChannel(x, c)
            /\ m.kind \in {"who", "whoend", "account"} => y = x
            /\ m.kind = "quit" /\ (\A d \in w.listed : P!InChannel(x, d, n) =>
                                     P!ReplaceChannel(P!Quit(x, n), d, w.list[d]) = P!Quit(x, n))
                  => y = P!Quit(x, n)
            /\ m.kind = "nick" /\ (\A d \in w.listed : P!InChannel(x, d, n) =>
                                     P!ReplaceChannel(P!Rename(x, n, m.to), d, w.list[d])
                                        = P!Rename(x, n, m.to))
                  => y = P!Rename(x, n, m.to)
<1> DEFINE b == Before(w, m)
           x == w.index
           c == m.channel
           n == m.nick
           q == P!Quit(x, n)
           r == P!Rename(x, n, m.to)
           k == P!RemoveChannel(x, c)
           s == Changed(w, m)
           y == Published(w, m).index
<1>1. /\ Unchanging(b, s) => y = b.index
      /\ \A d : s = {d} => y = IF d \in b.listed THEN P!ReplaceChannel(b.index, d, b.list[d])
                               ELSE b.index
  BY PublishedOne DEF Republished, IndexSo
<1>2. b.listed = w.listed /\ b.list = w.list
  BY BeforeFields DEF SameLists
<1>3. /\ m.kind = "nick" => b.index = r
      /\ m.kind = "quit" => b.index = q
      /\ m.kind \in {"me_part", "me_kick"} => b.index = k
      /\ m.kind \notin {"nick", "quit", "me_part", "me_kick"} => b.index = x
  <2>1. b.index = CASE m.kind = "nick" -> r
                    [] m.kind = "quit" -> q
                    [] m.kind \in {"me_part", "me_kick"} -> k
                    [] OTHER -> x
    BY BeforeFields
  <2> HIDE DEF b, r, q, k, x
  <2>2. m.kind = "nick" => b.index = r
    BY <2>1
  <2>3. m.kind = "quit" => b.index = q
    BY <2>1
  <2>4. m.kind \in {"me_part", "me_kick"} => b.index = k
    BY <2>1
  <2>5. m.kind \notin {"nick", "quit", "me_part", "me_kick"} => b.index = x
    BY <2>1
  <2> QED BY <2>2, <2>3, <2>4, <2>5
<1> HIDE DEF b, r, q, k, y, s
<1>4. ASSUME m.kind \in {"join", "part", "mode", "names", "me_join"}
      PROVE  y = IF c \in w.listed THEN P!ReplaceChannel(x, c, w.list[c]) ELSE x
  <2>1. s = {c}
    BY <1>4, ChangedIs DEF s
  <2>2. b.index = x
    BY <1>3, <1>4
  <2> HIDE DEF x, c
  <2> QED BY <1>1, <1>2, <2>1, <2>2
<1>5. ASSUME m.kind \in {"me_part", "me_kick"} PROVE y = k
  <2>1. s = {}
    BY <1>5, ChangedIs DEF s
  <2> QED BY <1>1, <1>3, <1>5, <2>1 DEF Unchanging
<1>6. ASSUME m.kind \in {"who", "whoend", "account"} PROVE y = x
  <2>1. s = {}
    BY <1>6, ChangedIs DEF s
  <2> QED BY <1>1, <1>3, <1>6, <2>1 DEF Unchanging
<1>7. ASSUME m.kind = "quit", \A d \in w.listed : P!InChannel(x, d, n) =>
                                  P!ReplaceChannel(q, d, w.list[d]) = q
      PROVE  y = q
  <2>1. s = {d \in w.listed : P!InChannel(x, d, n)}
    BY <1>7, ChangedIs DEF s
  <2> QED BY <1>1, <1>2, <1>3, <1>7, <2>1 DEF Unchanging
<1>8. ASSUME m.kind = "nick", \A d \in w.listed : P!InChannel(x, d, n) =>
                                  P!ReplaceChannel(r, d, w.list[d]) = r
      PROVE  y = r
  <2>1. s = {d \in w.listed : P!InChannel(x, d, n)}
    BY <1>8, ChangedIs DEF s
  <2> QED BY <1>1, <1>2, <1>3, <1>8, <2>1 DEF Unchanging
<1> QED BY <1>4, <1>5, <1>6, <1>7, <1>8 DEF y, q, r, k

(* Only who is in channel c has changed, and nobody's nickname.            *)
SameBut(v, w, c) ==
    \A q \in People : /\ v.in[q] \ {c} = w.in[q] \ {c}
                      /\ v.in[q] # {} => w.nick[q] = v.nick[q]

(* A line that is neither a QUIT nor a NICK is about its channel only.     *)
LEMMA LineIsLocal ==
  ASSUME NEW v, Sane(v), NEW m, LineOK(m), Tells(v, m), m.kind \notin {"quit", "nick"}
  PROVE  LET c == m.channel
             a == m.at
         IN /\ SameBut(v, a, c) /\ Grows(v, a, c)
            /\ \A d : d # c => (d \in v.meIn <=> d \in a.meIn)
            /\ m.kind \in {"join", "part", "mode", "names", "me_join"} => c \in a.meIn
            /\ m.kind \in {"join", "part", "mode", "names"} => c \in v.meIn
            /\ m.kind \notin {"me_part", "me_kick"} => v.meIn \subseteq a.meIn
            /\ m.kind \notin {"part", "me_part", "me_kick"} =>
                  \A q \in People : v.in[q] \subseteq a.in[q]
            /\ m.kind \notin {"join", "part", "me_join", "me_part", "me_kick"} => AllStill(v, a)
<1> DEFINE c == m.channel
           a == m.at
           n == m.nick
<1>0. m.kind \in AboutChannel \union AboutNick
  BY DEF LineOK, Lines
<1> HIDE DEF a, c, n
<1>1. CASE m.kind = "join"
  <2>1. /\ a.meIn = v.meIn /\ c \in v.meIn
        /\ \E p \in People : /\ c \notin v.in[p] /\ a.in[p] = v.in[p] \union {c}
                             /\ a.nick[p] = n
                             /\ v.in[p] # {} => v.nick[p] = n
                             /\ StillBut(v, a, p)
    BY <1>1, TellsIs DEF a, c, n
  <2>2. SameBut(v, a, c) /\ Grows(v, a, c) /\ \A q \in People : v.in[q] \subseteq a.in[q]
    BY <2>1 DEF StillBut, Still, SameBut, Grows
  <2> QED BY <1>1, <2>1, <2>2 DEF a, c
<1>2. CASE m.kind = "part"
  <2>1. /\ a.meIn = v.meIn
        /\ \E p \in People : /\ c \in v.in[p] /\ a.in[p] = v.in[p] \ {c}
                             /\ v.nick[p] = n /\ a.nick[p] = n
                             /\ StillBut(v, a, p)
    BY <1>2, TellsIs DEF a, c, n
  <2>2. SameBut(v, a, c) /\ Grows(v, a, c)
    BY <2>1 DEF StillBut, Still, SameBut, Grows
  <2>3. c \in v.meIn
    BY <2>1 DEF Sane
  <2> QED BY <1>2, <2>1, <2>2, <2>3 DEF a, c
<1>3. CASE m.kind \in {"mode", "names", "who", "whoend", "account"}
  <2>1. AllStill(v, a) /\ (m.kind \in {"mode", "names"} => c \in v.meIn)
    <3>1. CASE m.kind = "mode"
      <4>1. AllStill(v, a) /\ \E p \in People : c \in v.in[p] /\ v.nick[p] = n
        BY <3>1, TellsIs DEF a, c, n
      <4> QED BY <4>1 DEF Sane
    <3>2. CASE m.kind = "names"
      BY <3>2, TellsIs DEF a, c, n
    <3>3. CASE m.kind \in {"who", "whoend", "account"}
      BY <3>3, TellsIs DEF a, c, n
    <3> QED BY <1>3, <3>1, <3>2, <3>3
  <2>2. SameBut(v, a, c) /\ Grows(v, a, c) /\ a.meIn = v.meIn
        /\ \A q \in People : v.in[q] \subseteq a.in[q]
    BY <2>1 DEF AllStill, Still, SameBut, Grows
  <2> QED BY <1>3, <2>1, <2>2 DEF a, c
<1>4. CASE m.kind \in {"me_part", "me_kick"}
  <2>1. /\ c \in v.meIn /\ a.meIn = v.meIn \ {c}
        /\ \A q \in People : /\ a.in[q] = v.in[q] \ {c}
                             /\ v.in[q] # {} => a.nick[q] = v.nick[q]
    BY <1>4, TellsIs DEF a, c, n
  <2>2. SameBut(v, a, c) /\ Grows(v, a, c)
    BY <2>1 DEF SameBut, Grows
  <2> QED BY <1>4, <2>1, <2>2 DEF a, c
<1>5. CASE m.kind = "me_join"
  <2>1. /\ c \notin v.meIn /\ a.meIn = v.meIn \union {c}
        /\ \A q \in People : /\ a.in[q] \ {c} = v.in[q]
                             /\ v.in[q] # {} => a.nick[q] = v.nick[q]
    BY <1>5, TellsIs DEF a, c, n
  <2>2. SameBut(v, a, c) /\ Grows(v, a, c) /\ \A q \in People : v.in[q] \subseteq a.in[q]
    BY <2>1 DEF SameBut, Grows
  <2> QED BY <1>5, <2>1, <2>2 DEF a, c
<1> QED BY <1>0, <1>1, <1>2, <1>3, <1>4, <1>5 DEF AboutChannel, AboutNick

LEMMA ElsewhereSame ==
  ASSUME NEW v, NEW w, NEW c, SameBut(v, w, c), NEW d, d # c
  PROVE  InIt(w, d) = InIt(v, d)
<1>1. \A q \in People : (d \in v.in[q] <=> d \in w.in[q]) /\ (d \in v.in[q] => w.nick[q] = v.nick[q])
  BY DEF SameBut
<1> QED BY <1>1 DEF InIt

ListIs(u, v, m, c) ==
    u.list[c] = InIt(v, c) \/ (u.list[c] = {} /\ m.kind = "names" /\ m.channel = c)

ListWillBe(w, m, c) ==
    w.list[c] = InIt(m.at, c) \/ (w.list[c] = {} /\ m.kind = "me_join" /\ m.channel = c)

(* The library's lists are the server's, or wait for the names.            *)
LEMMA ListsAfterLine ==
  ASSUME NEW u, WorkerOK(u), NEW m, LineOK(m), NEW v, Sane(v), Sane(m.at), Tells(v, m),
         \A c \in u.listed \intersect v.meIn : ListIs(u, v, m, c)
  PROVE  LET w == Listed(u, m)
         IN \A c \in w.listed \intersect m.at.meIn : ListWillBe(w, m, c)
<1> DEFINE w == Listed(u, m)
           a == m.at
           e == m.channel
           n == m.nick
<1>0. /\ m.kind \in AboutChannel \union AboutNick
      /\ m.kind \in AboutChannel => e \in Channels
      /\ m.kind \notin AboutChannel => e \notin Channels
      /\ m.kind \in AboutNick => n \in Nicks
      /\ m.kind = "nick" => m.to \in Nicks
      /\ NoNick \notin Nicks
      /\ u.list \in [Channels -> SUBSET Nicks] /\ u.listed \subseteq Channels
  BY FixedValues DEF LineOK, Lines, WorkerOK, Workers
<1> HIDE DEF w, a, e, n
(* Channels the line is not about.                                         *)
<1>1. ASSUME m.kind \notin {"quit", "nick"},
             \A d \in Channels : d # e => (d \in w.listed <=> d \in u.listed) /\ w.list[d] = u.list[d],
             NEW c \in w.listed \intersect a.meIn, c \in Channels, c # e
      PROVE  w.list[c] = InIt(a, c)
  <2>1. SameBut(v, a, e) /\ (c \in v.meIn <=> c \in a.meIn)
    BY <1>1, LineIsLocal DEF a, e
  <2>2. w.list[c] = u.list[c] /\ ListIs(u, v, m, c)
    BY <1>1, <2>1
  <2>3. u.list[c] = InIt(v, c)
    BY <1>1, <2>2 DEF ListIs, e
  <2> QED BY <1>1, <2>1, <2>2, <2>3, ElsewhereSame
<1>2. CASE m.kind = "join"
  <2>1. ~Here(u, m) => w = u
    BY <1>2, ListedFields DEF w
  <2>2. Here(u, m) => Becomes(u, w, u.listed, [u.list EXCEPT ![e] = @ \union {n}], u.level)
    BY <1>2, ListedFields DEF w, e, n
  <2>3. w.listed = u.listed /\ e \in Channels /\ (e \in u.listed <=> Here(u, m))
    BY <1>0, <1>2, <2>1, <2>2 DEF Becomes, AboutChannel, Here, e
  <2>4. \A d \in Channels : d # e => (d \in w.listed <=> d \in u.listed) /\ w.list[d] = u.list[d]
    BY <1>0, <2>1, <2>2, <2>3 DEF Becomes
  <2>5. ASSUME e \in w.listed \intersect a.meIn PROVE w.list[e] = InIt(a, e)
    <3>1. w.list[e] = u.list[e] \union {n}
      BY <1>0, <2>2, <2>3, <2>5 DEF Becomes
    <3>2. /\ a.meIn = v.meIn
          /\ \E p \in People : /\ e \notin v.in[p] /\ a.in[p] = v.in[p] \union {e}
                               /\ a.nick[p] = n
                               /\ v.in[p] # {} => v.nick[p] = n
                               /\ StillBut(v, a, p)
      BY <1>2, TellsIs DEF a, e, n
    <3>3. u.list[e] = InIt(v, e)
      BY <1>2, <2>3, <2>5, <3>2 DEF ListIs
    <3>4. InIt(a, e) = InIt(v, e) \union {n}
      BY <3>2 DEF InIt, StillBut, Still
    <3> QED BY <3>1, <3>3, <3>4
  <2> QED BY <1>0, <1>1, <1>2, <2>3, <2>4, <2>5 DEF ListWillBe, w, a
<1>3. CASE m.kind = "part"
  <2>1. ~Here(u, m) => w = u
    BY <1>3, ListedFields DEF w
  <2>2. Here(u, m) => Becomes(u, w, u.listed, [u.list EXCEPT ![e] = @ \ {n}],
                          [u.level EXCEPT ![e] = [@ EXCEPT ![n] = {}]])
    BY <1>3, ListedFields DEF w, e, n
  <2>3. w.listed = u.listed /\ e \in Channels /\ (e \in u.listed <=> Here(u, m))
    BY <1>0, <1>3, <2>1, <2>2 DEF Becomes, AboutChannel, Here, e
  <2>4. \A d \in Channels : d # e => (d \in w.listed <=> d \in u.listed) /\ w.list[d] = u.list[d]
    BY <1>0, <2>1, <2>2, <2>3 DEF Becomes
  <2>5. ASSUME e \in w.listed \intersect a.meIn PROVE w.list[e] = InIt(a, e)
    <3>1. w.list[e] = u.list[e] \ {n}
      BY <1>0, <2>2, <2>3, <2>5 DEF Becomes
    <3>2. a.meIn = v.meIn
      BY <1>3, TellsIs DEF a, e, n
    <3>3. PICK p \in People : /\ e \in v.in[p] /\ a.in[p] = v.in[p] \ {e}
                              /\ v.nick[p] = n /\ a.nick[p] = n
                              /\ StillBut(v, a, p)
      BY <1>3, TellsIs DEF a, e, n
    <3>4. u.list[e] = InIt(v, e)
      BY <1>3, <2>3, <2>5, <3>2 DEF ListIs
    <3>5. n # NoNick
      BY <1>0, <1>3 DEF AboutNick, AboutChannel
    <3>6. \A q \in People : e \in a.in[q] <=> e \in v.in[q] /\ q # p
      BY <3>3 DEF StillBut, Still
    <3>7. \A q \in People : e \in v.in[q] /\ q # p => a.nick[q] = v.nick[q] /\ v.nick[q] # n
      BY <3>3, <3>5 DEF StillBut, Still, Sane
    <3>8. InIt(a, e) = InIt(v, e) \ {n}
      BY <3>3, <3>6, <3>7 DEF InIt
    <3> QED BY <3>1, <3>4, <3>8
  <2> QED BY <1>0, <1>1, <1>3, <2>3, <2>4, <2>5 DEF ListWillBe, w, a
<1>4. CASE m.kind = "mode"
  <2>1. w.listed = u.listed /\ w.list = u.list
    <3>1. ~Here(u, m) => w = u
      BY <1>4, ListedFields DEF w
    <3>2. Here(u, m) => \E level : Becomes(u, w, u.listed, u.list, level)
      BY <1>4, ListedFields DEF w
    <3> QED BY <3>1, <3>2 DEF Becomes
  <2>2. ASSUME NEW c \in w.listed \intersect a.meIn PROVE w.list[c] = InIt(a, c)
    <3>1. AllStill(v, a)
      BY <1>4, LineIsLocal DEF a
    <3>2. ListIs(u, v, m, c)
      BY <2>1, <2>2, <3>1 DEF AllStill
    <3>3. InIt(a, c) = InIt(v, c)
      BY <3>1 DEF AllStill, Still, InIt
    <3> QED BY <1>4, <2>1, <3>2, <3>3 DEF ListIs
  <2> QED BY <2>2 DEF ListWillBe, w, a
<1>5. CASE m.kind \in {"who", "whoend", "account"}
  <2>1. w = u
    BY <1>5, ListedFields DEF w
  <2>2. ASSUME NEW c \in w.listed \intersect a.meIn PROVE w.list[c] = InIt(a, c)
    <3>1. AllStill(v, a)
      BY <1>5, LineIsLocal DEF a
    <3>2. ListIs(u, v, m, c)
      BY <2>1, <2>2, <3>1 DEF AllStill
    <3>3. InIt(a, c) = InIt(v, c)
      BY <3>1 DEF AllStill, Still, InIt
    <3> QED BY <1>5, <2>1, <3>2, <3>3 DEF ListIs
  <2> QED BY <2>2 DEF ListWillBe, w, a
<1>6. CASE m.kind = "names"
  <2>1. ~Here(u, m) => w = u
    BY <1>6, ListedFields DEF w
  <2>2. Here(u, m) => Becomes(u, w, u.listed, [u.list EXCEPT ![e] = {k \in Nicks : m.names[k] >= 0}],
                          [u.level EXCEPT ![e] = [k \in Nicks |-> {m.names[k]} \ {-1, NoLevel}]])
    BY <1>6, ListedFields DEF w, e
  <2>3. w.listed = u.listed /\ e \in Channels /\ (e \in u.listed <=> Here(u, m))
    BY <1>0, <1>6, <2>1, <2>2 DEF Becomes, AboutChannel, Here, e
  <2>4. \A d \in Channels : d # e => (d \in w.listed <=> d \in u.listed) /\ w.list[d] = u.list[d]
    BY <1>0, <2>1, <2>2, <2>3 DEF Becomes
  <2>5. ASSUME e \in w.listed \intersect a.meIn PROVE w.list[e] = InIt(a, e)
    <3>1. w.list[e] = {k \in Nicks : m.names[k] >= 0}
      BY <1>0, <2>2, <2>3, <2>5 DEF Becomes
    <3>2. {k \in Nicks : m.names[k] >= 0} = InIt(a, e)
      BY <1>6, TellsIs DEF a, e
    <3> QED BY <3>1, <3>2
  <2> QED BY <1>0, <1>1, <1>6, <2>3, <2>4, <2>5 DEF ListWillBe, w, a
<1>7. CASE m.kind = "me_join"
  <2>1. Becomes(u, w, u.listed \union {e}, [u.list EXCEPT ![e] = {}],
                [u.level EXCEPT ![e] = NoLevels])
    BY <1>7, ListedFields DEF w, e
  <2>2. \A d \in Channels : d # e => (d \in w.listed <=> d \in u.listed) /\ w.list[d] = u.list[d]
    BY <1>0, <2>1 DEF Becomes
  <2>3. e \in Channels /\ w.list[e] = {} /\ w.listed \subseteq Channels
    BY <1>0, <1>7, <2>1 DEF Becomes, AboutChannel, AboutNick
  <2> QED BY <1>1, <1>7, <2>2, <2>3 DEF ListWillBe, w, a, e
<1>8. CASE m.kind \in {"me_part", "me_kick"}
  <2>1. \A d \in Channels : d # e => (d \in w.listed <=> d \in u.listed) /\ w.list[d] = u.list[d]
    <3>1. m.kind = "me_part" => w = u
      BY ListedFields DEF w
    <3>2. m.kind = "me_kick" => Becomes(u, w, u.listed \ {e}, [u.list EXCEPT ![e] = {}],
                          [u.level EXCEPT ![e] = NoLevels])
      BY ListedFields DEF w, e
    <3> QED BY <1>0, <1>8, <3>1, <3>2 DEF Becomes
  <2>2. e \notin a.meIn
    BY <1>8, TellsIs DEF a, e
  <2>3. w.listed \subseteq Channels
    BY ListedType DEF w, WorkerOK, Workers
  <2> QED BY <1>1, <1>8, <2>1, <2>2, <2>3 DEF ListWillBe, w, a
<1>9. CASE m.kind = "quit"
  <2>1. Becomes(u, w, u.listed, [d \in Channels |-> u.list[d] \ {n}],
                [d \in Channels |-> [u.level[d] EXCEPT ![n] = {}]])
    BY <1>9, ListedFields DEF w, n
  <2>2. ASSUME NEW c \in w.listed \intersect a.meIn PROVE w.list[c] = InIt(a, c)
    <3>0. c \in u.listed /\ c \in Channels /\ w.list[c] = u.list[c] \ {n}
      BY <1>0, <2>1, <2>2 DEF Becomes
    <3>1. a.meIn = v.meIn
      BY <1>9, TellsIs DEF a, e, n
    <3>2. PICK p \in People : /\ v.in[p] # {} /\ a.in[p] = {}
                              /\ v.nick[p] = n /\ a.nick[p] = NoNick
                              /\ StillBut(v, a, p)
      BY <1>9, TellsIs DEF a, e, n
    <3>3. u.list[c] = InIt(v, c)
      BY <1>9, <2>2, <3>0, <3>1 DEF ListIs
    <3>4. n # NoNick
      BY <1>0, <1>9 DEF AboutNick
    <3>5. \A q \in People : c \in a.in[q] <=> c \in v.in[q] /\ q # p
      BY <3>2 DEF StillBut, Still
    <3>6. \A q \in People : c \in v.in[q] /\ q # p => a.nick[q] = v.nick[q] /\ v.nick[q] # n
      BY <3>2, <3>4 DEF StillBut, Still, Sane
    <3>7. InIt(a, c) = InIt(v, c) \ {n}
      BY <3>2, <3>5, <3>6 DEF InIt
    <3> QED BY <3>0, <3>3, <3>7
  <2> QED BY <2>2 DEF ListWillBe, w, a
<1>10. CASE m.kind = "nick"
  <2>1. Becomes(u, w, u.listed,
                [d \in Channels |-> IF n \notin u.list[d] THEN u.list[d]
                                              ELSE (u.list[d] \ {n}) \union {m.to}],
                [d \in Channels |-> IF n \notin u.list[d] THEN u.level[d]
                                              ELSE [u.level[d] EXCEPT ![n] = {}, ![m.to] = {}]])
    BY <1>10, ListedFields DEF w, n
  <2>2. ASSUME NEW c \in w.listed \intersect a.meIn PROVE w.list[c] = InIt(a, c)
    <3>0. /\ c \in u.listed /\ c \in Channels
          /\ w.list[c] = IF n \notin u.list[c] THEN u.list[c] ELSE (u.list[c] \ {n}) \union {m.to}
      BY <1>0, <2>1, <2>2 DEF Becomes
    <3>1. a.meIn = v.meIn
      BY <1>10, TellsIs DEF a, e, n
    <3>2. PICK p \in People : /\ v.in[p] # {} /\ a.in[p] = v.in[p]
                              /\ v.nick[p] = n /\ a.nick[p] = m.to /\ m.to # n
                              /\ StillBut(v, a, p)
      BY <1>10, TellsIs DEF a, e, n
    <3>3. u.list[c] = InIt(v, c)
      BY <1>10, <2>2, <3>0, <3>1 DEF ListIs
    <3>4. n # NoNick /\ m.to # NoNick
      BY <1>0, <1>10 DEF AboutNick
    <3>5. \A q \in People : c \in a.in[q] <=> c \in v.in[q]
      BY <3>2 DEF StillBut, Still
    <3>6. \A q \in People : c \in v.in[q] /\ q # p => a.nick[q] = v.nick[q] /\ v.nick[q] # n
      BY <3>2, <3>4 DEF StillBut, Still, Sane
    <3>7. CASE c \in v.in[p]
      <4>1. InIt(a, c) = (InIt(v, c) \ {n}) \union {m.to} /\ n \in InIt(v, c)
        BY <3>2, <3>5, <3>6, <3>7 DEF InIt
      <4> QED BY <3>0, <3>3, <4>1
    <3>8. CASE c \notin v.in[p]
      <4>1. InIt(a, c) = InIt(v, c) /\ n \notin InIt(v, c)
        BY <3>2, <3>5, <3>6, <3>8 DEF InIt
      <4> QED BY <3>0, <3>3, <4>1
    <3> QED BY <3>7, <3>8
  <2> QED BY <2>2 DEF ListWillBe, w, a
<1> QED BY <1>0, <1>2, <1>3, <1>4, <1>5, <1>6, <1>7, <1>8, <1>9, <1>10
     DEF AboutChannel, AboutNick, w, a

LEMMA TurnKeepsKeys ==
  ASSUME NEW x \in P!Indexes, P!Consistent(x), NEW y, NEW c, Turned(x, y, c),
         NEW d \in Channels, d # c
  PROVE  Keys(y, d) = Keys(x, d)
<1>1. y.members[d] = x.members[d] /\ y \in P!Indexes /\ P!Consistent(y)
  BY DEF Turned
<1>2. x.members[d] \subseteq P!LiveIds(x) /\ y.members[d] \subseteq P!LiveIds(y)
  BY <1>1, MembersAreLive
<1>3. \A i \in x.members[d] : y.key[i] = x.key[i]
  BY <1>1, <1>2 DEF Turned
<1> QED BY <1>1, <1>3 DEF Keys

LEMMA QuitKeys ==
  ASSUME NEW x \in P!Indexes, P!Consistent(x), NEW n \in Nicks, NEW d \in Channels
  PROVE  Keys(P!Quit(x, n), d) = Keys(x, d) \ {n}
<1> DEFINE z == P!Quit(x, n)
<1>1. /\ z \in P!Indexes /\ P!Consistent(z)
      /\ \A i \in P!LiveIds(z) : z.key[i] = x.key[i]
      /\ z.members[d] = {i \in x.members[d] : x.key[i] # n}
  BY QuitFields
<1>2. z.members[d] \subseteq P!LiveIds(z)
  BY <1>1, MembersAreLive
<1> HIDE DEF z
<1>3. \A i \in z.members[d] : z.key[i] = x.key[i]
  BY <1>1, <1>2
<1>4. Keys(z, d) = {x.key[i] : i \in z.members[d]}
  BY <1>3 DEF Keys
<1>5. {x.key[i] : i \in z.members[d]} = Keys(x, d) \ {n}
  BY <1>1 DEF Keys
<1> QED BY <1>4, <1>5 DEF z

LEMMA RenameKeys ==
  ASSUME NEW x \in P!Indexes, P!Consistent(x), NEW n \in Nicks, NEW k \in Nicks, k # n,
         NEW d \in Channels, k \notin Keys(x, d)
  PROVE  Keys(P!Rename(x, n, k), d) =
            IF n \in Keys(x, d) THEN (Keys(x, d) \ {n}) \union {k} ELSE Keys(x, d)
<1> DEFINE z == P!Rename(x, n, k)
           id == x.byNick[n]
<1>1. /\ z \in P!Indexes /\ P!Consistent(z)
      /\ id = P!NoId => z = x
      /\ id # P!NoId =>
           /\ \A i \in P!LiveIds(z) : z.key[i] = IF x.key[i] = n THEN k ELSE x.key[i]
           /\ z.members[d] = {i \in x.members[d] : x.key[i] # k}
  BY RenameFields
<1>2. z.members[d] \subseteq P!LiveIds(z)
  BY <1>1, MembersAreLive
<1> HIDE DEF z
<1>3. CASE id = P!NoId
  <2>1. \A i \in x.members[d] : x.byNick[x.key[i]] = i /\ i \in P!Ids
    BY MembersAreLive DEF P!LiveIds
  <2>2. \A i \in x.members[d] : x.key[i] # n
    BY <1>3, <2>1, NumbersAreNumbers, FixedValues
  <2>3. n \notin Keys(x, d)
    BY <2>2 DEF Keys
  <2> QED BY <1>1, <1>3, <2>3 DEF z
<1>4. CASE id # P!NoId
  <2>1. z.members[d] = x.members[d]
    BY <1>1, <1>4 DEF Keys
  <2>2. \A i \in x.members[d] : z.key[i] = IF x.key[i] = n THEN k ELSE x.key[i]
    BY <1>1, <1>2, <1>4, <2>1
  <2>3. CASE n \in Keys(x, d)
    BY <2>1, <2>2, <2>3 DEF Keys, z
  <2>4. CASE n \notin Keys(x, d)
    BY <2>1, <2>2, <2>4 DEF Keys, z
  <2> QED BY <2>3, <2>4
<1> QED BY <1>3, <1>4

Strays(w, m) == IF m.kind = "part" /\ m.channel \notin w.listed THEN {w.index.byNick[m.nick]} ELSE {}

StrayedAfter(w, m, s, y) == (s \union Strays(w, m)) \intersect P!LiveIds(y)

(* The worker u before line m, v having been seen, o the owners.           *)
Situated(u, m, v, o, s) ==
    /\ WorkerOK(u) /\ LineOK(m) /\ Sane(v) /\ Sane(m.at) /\ Tells(v, m)
    /\ OwnersSo(u.index, v, o, s)
    /\ \A c \in u.listed \intersect v.meIn : ListIs(u, v, m, c) /\ Keys(u.index, c) = u.list[c]

Settled(x, w, y, m, o, s) ==
    /\ OwnersSo(y, m.at, OwnersAfter(x, y, o, m.at), StrayedAfter(w, m, s, y))
    /\ KeptSo(x, y, m.at, o, s)
    /\ \A d \in w.listed \intersect m.at.meIn : Keys(y, d) = w.list[d]

LEMMA ListsElsewhere ==
  ASSUME NEW u, WorkerOK(u), NEW m, LineOK(m), m.kind \notin {"quit", "nick"}
  PROVE  LET w == Listed(u, m)
             e == m.channel
         IN /\ \A d \in Channels : d # e => (d \in w.listed <=> d \in u.listed) /\ w.list[d] = u.list[d]
            /\ m.kind \in {"join", "part", "mode", "names", "who", "whoend", "account"} =>
                  w.listed = u.listed /\ (e \in Channels \ w.listed => w = u)
            /\ m.kind \in {"who", "whoend", "account"} => w = u
            /\ m.kind = "me_join" => e \in w.listed
<1> DEFINE w == Listed(u, m)
           e == m.channel
           n == m.nick
<1>0. /\ m.kind \in AboutChannel \union AboutNick
      /\ m.kind \in AboutChannel => e \in Channels
      /\ u.list \in [Channels -> SUBSET Nicks] /\ u.listed \subseteq Channels
  BY DEF LineOK, Lines, WorkerOK, Workers
<1>1. /\ m.kind = "me_join" => \E list, level : /\ Becomes(u, w, u.listed \union {e}, [u.list EXCEPT ![e] = list], level)
      /\ m.kind = "me_kick" => \E list, level : /\ Becomes(u, w, u.listed \ {e}, [u.list EXCEPT ![e] = list], level)
      /\ m.kind \in {"join", "part", "names"} /\ Here(u, m) =>
            \E list, level : Becomes(u, w, u.listed, [u.list EXCEPT ![e] = list], level)
      /\ m.kind = "mode" /\ Here(u, m) => \E level : Becomes(u, w, u.listed, u.list, level)
      /\ m.kind \notin {"me_join", "me_kick"} /\ ~Here(u, m) => w = u
      /\ m.kind \in {"who", "whoend", "account", "me_part"} => w = u
  <2>1. m.kind = "me_join" =>
                  Becomes(u, w, u.listed \union {e}, [u.list EXCEPT ![e] = {}],
                          [u.level EXCEPT ![e] = NoLevels])
    BY ListedFields
  <2>2. m.kind = "me_kick" =>
                  Becomes(u, w, u.listed \ {e}, [u.list EXCEPT ![e] = {}],
                          [u.level EXCEPT ![e] = NoLevels])
    BY ListedFields
  <2>3. m.kind = "join" /\ Here(u, m) =>
                  Becomes(u, w, u.listed, [u.list EXCEPT ![e] = @ \union {n}], u.level)
    BY ListedFields
  <2>4. m.kind = "part" /\ Here(u, m) =>
                  Becomes(u, w, u.listed, [u.list EXCEPT ![e] = @ \ {n}],
                          [u.level EXCEPT ![e] = [@ EXCEPT ![n] = {}]])
    BY ListedFields
  <2>5. m.kind = "names" /\ Here(u, m) =>
                  Becomes(u, w, u.listed, [u.list EXCEPT ![e] = {k \in Nicks : m.names[k] >= 0}],
                          [u.level EXCEPT ![e] = [k \in Nicks |-> {m.names[k]} \ {-1, NoLevel}]])
    BY ListedFields
  <2>6. m.kind = "mode" /\ Here(u, m) => \E level : Becomes(u, w, u.listed, u.list, level)
    BY ListedFields
  <2>7. /\ m.kind \notin {"me_join", "me_kick"} /\ ~Here(u, m) => w = u
        /\ m.kind \in {"who", "whoend", "account", "me_part"} => w = u
    BY ListedFields
  <2> HIDE DEF w, e, n
  <2> QED BY <2>1, <2>2, <2>3, <2>4, <2>5, <2>6, <2>7
<1> HIDE DEF w, e
<1>2. \A d \in Channels : d # e => (d \in w.listed <=> d \in u.listed) /\ w.list[d] = u.list[d]
  <2>1. CASE w = u
    BY <2>1
  <2>2. CASE m.kind = "me_join"
    <3>1. PICK list, level : Becomes(u, w, u.listed \union {e}, [u.list EXCEPT ![e] = list], level)
      BY <1>1, <2>2
    <3> QED BY <1>0, <3>1 DEF Becomes
  <2>3. CASE m.kind = "me_kick"
    <3>1. PICK list, level : Becomes(u, w, u.listed \ {e}, [u.list EXCEPT ![e] = list], level)
      BY <1>1, <2>3
    <3> QED BY <1>0, <3>1 DEF Becomes
  <2>4. CASE m.kind \in {"join", "part", "names"} /\ Here(u, m)
    <3>1. PICK list, level : Becomes(u, w, u.listed, [u.list EXCEPT ![e] = list], level)
      BY <1>1, <2>4
    <3> QED BY <1>0, <3>1 DEF Becomes
  <2>5. CASE m.kind = "mode" /\ Here(u, m)
    <3>1. PICK level : Becomes(u, w, u.listed, u.list, level)
      BY <1>1, <2>5
    <3> QED BY <3>1 DEF Becomes
  <2> QED BY <1>0, <1>1, <2>1, <2>2, <2>3, <2>4, <2>5 DEF AboutChannel, AboutNick
<1>3. m.kind \in {"join", "part", "mode", "names", "who", "whoend", "account"} =>
            w.listed = u.listed /\ (e \in Channels \ w.listed => w = u)
  <2>1. m.kind \in {"join", "part", "mode", "names", "who", "whoend", "account"} => w.listed = u.listed
    BY <1>1 DEF Becomes
  <2> QED BY <1>1, <2>1 DEF Here, e
<1> QED BY <1>0, <1>1, <1>2, <1>3 DEF Becomes, AboutChannel, AboutNick, w, e

(* What is true when a line is taken.                                      *)
LEMMA SituatedFacts ==
  ASSUME NEW u, NEW m, NEW v, NEW o, NEW s, Situated(u, m, v, o, s)
  PROVE  LET w == Listed(u, m)
         IN /\ WorkerOK(w) /\ w.index = u.index /\ w.listed \subseteq Channels
            /\ u.listed \subseteq Channels
            /\ u.index \in P!Indexes /\ P!Consistent(u.index) /\ s \subseteq P!LiveIds(u.index)
            /\ \A c \in w.listed \intersect m.at.meIn : ListWillBe(w, m, c)
            /\ w.list \in [Channels -> SUBSET Nicks]
<1>1. WorkerOK(Listed(u, m)) /\ Listed(u, m).index = u.index
  BY ListedType DEF Situated, SameOurs
<1>2. \A c \in Listed(u, m).listed \intersect m.at.meIn : ListWillBe(Listed(u, m), m, c)
  <2>1. \A c \in u.listed \intersect v.meIn : ListIs(u, v, m, c)
    BY DEF Situated
  <2> QED BY <2>1, ListsAfterLine DEF Situated
<1> QED BY <1>1, <1>2 DEF Situated, OwnersSo, WorkerOK, Workers

(* A line that replaces one roster by the library's list.                  *)
LEMMA RosterSettles ==
  ASSUME NEW u, NEW m, NEW v, NEW o, NEW s, Situated(u, m, v, o, s),
         m.kind \in {"join", "part", "mode", "names", "me_join"},
         m.channel \in Listed(u, m).listed
  PROVE  Settled(u.index, Listed(u, m), Published(Listed(u, m), m).index, m, o, s)
<1> DEFINE w == Listed(u, m)
           x == u.index
           y == Published(w, m).index
           a == m.at
           c == m.channel
           t == StrayedAfter(w, m, s, y)
<1>1. /\ WorkerOK(w) /\ w.index = x /\ w.listed \subseteq Channels
      /\ x \in P!Indexes /\ P!Consistent(x) /\ s \subseteq P!LiveIds(x)
      /\ \A d \in w.listed \intersect a.meIn : ListWillBe(w, m, d)
      /\ w.list \in [Channels -> SUBSET Nicks]
  BY SituatedFacts
<1>2. c \in Channels /\ w.list[c] \in SUBSET Nicks
  BY <1>1
<1>3. y = P!ReplaceChannel(x, c, w.list[c])
  BY <1>1, IndexAfter DEF Situated
<1>4. /\ Grows(v, a, c) /\ c \in a.meIn
      /\ \A d : d # c => (d \in v.meIn <=> d \in a.meIn)
  BY LineIsLocal DEF Situated
<1>5. /\ \A d \in Channels : d # c => (d \in w.listed <=> d \in u.listed) /\ w.list[d] = u.list[d]
  BY ListsElsewhere DEF Situated
<1>6. OwnersSo(x, v, o, s) /\ Sane(a)
      /\ \A d \in u.listed \intersect v.meIn : Keys(x, d) = u.list[d]
  BY DEF Situated
<1>7. s \intersect P!LiveIds(y) \subseteq t /\ t \subseteq P!LiveIds(y)
  BY DEF StrayedAfter
<1> HIDE DEF w, x, y, a, c, t
<1>8. Turned(x, y, c) /\ Keys(y, c) = w.list[c]
  BY <1>1, <1>2, <1>3, ReplaceTurns
<1>9. Keys(y, c) \subseteq InIt(a, c) \intersect Nicks
  <2>1. ListWillBe(w, m, c)
    BY <1>1, <1>4 DEF w, c
  <2>2. w.list[c] \subseteq InIt(a, c)
    BY <2>1 DEF ListWillBe, a
  <2> QED BY <1>2, <1>8, <2>2
<1>10. OwnersSo(y, a, OwnersAfter(x, y, o, a), t) /\ KeptSo(x, y, a, o, s)
  BY <1>2, <1>4, <1>6, <1>7, <1>8, <1>9, TurnKeepsOwners
<1>11. ASSUME NEW d \in w.listed \intersect a.meIn PROVE Keys(y, d) = w.list[d]
  <2>1. CASE d = c
    BY <1>8, <2>1
  <2>2. CASE d # c
    <3>1. d \in u.listed \intersect v.meIn /\ w.list[d] = u.list[d] /\ d \in Channels
      BY <1>1, <1>4, <1>5, <1>11, <2>2
    <3>2. Keys(y, d) = Keys(x, d)
      BY <1>1, <1>8, <2>2, <3>1, TurnKeepsKeys
    <3> QED BY <1>6, <3>1, <3>2
  <2> QED BY <2>1, <2>2
<1> QED BY <1>10, <1>11 DEF Settled, w, x, y, a, t

(* A line about a channel whose list is gone, or about no list.            *)
LEMMA NothingSettles ==
  ASSUME NEW u, NEW m, NEW v, NEW o, NEW s, Situated(u, m, v, o, s),
         \/ m.kind \in {"join", "part", "mode", "names"} /\ m.channel \notin Listed(u, m).listed
         \/ m.kind \in {"who", "whoend", "account"}
  PROVE  Settled(u.index, Listed(u, m), Published(Listed(u, m), m).index, m, o, s)
<1> DEFINE w == Listed(u, m)
           x == u.index
           y == Published(w, m).index
           a == m.at
           c == m.channel
           t == StrayedAfter(w, m, s, y)
<1>1. /\ WorkerOK(w) /\ w.index = x /\ w.listed \subseteq Channels
      /\ x \in P!Indexes /\ P!Consistent(x) /\ s \subseteq P!LiveIds(x)
  BY SituatedFacts
<1>2. y = x
  BY <1>1, IndexAfter DEF Situated
<1>3. m.kind \in {"join", "part", "mode", "names"} => c \in Channels
  BY DEF Situated, LineOK, AboutChannel
<1>4. w = u
  <2>1. m.kind \in {"join", "part", "mode", "names", "who", "whoend", "account"} =>
           w.listed = u.listed /\ (c \in Channels \ w.listed => w = u)
    BY ListsElsewhere DEF Situated
  <2>2. m.kind \in {"who", "whoend", "account"} => w = u
    BY ListsElsewhere DEF Situated
  <2> QED BY <1>3, <2>1, <2>2
<1>5. /\ Grows(v, a, c)
      /\ \A d : d # c => (d \in v.meIn <=> d \in a.meIn)
      /\ v.meIn \subseteq a.meIn
      /\ m.kind # "part" => \A q \in People : v.in[q] \subseteq a.in[q]
  BY LineIsLocal DEF Situated
<1>6. OwnersSo(x, v, o, s) /\ Sane(a)
      /\ \A d \in u.listed \intersect v.meIn : Keys(x, d) = u.list[d]
  BY DEF Situated
<1>7. s \subseteq t /\ t \subseteq P!LiveIds(x)
      /\ (m.kind = "part" => t = (s \union {x.byNick[m.nick]}) \intersect P!LiveIds(x))
  BY <1>1, <1>2 DEF StrayedAfter, Strays
<1>8. c \in v.meIn <=> c \in a.meIn
  <2>1. m.kind \in {"join", "part", "mode", "names"} => c \in a.meIn /\ c \in v.meIn
    BY LineIsLocal DEF Situated
  <2>2. m.kind \in {"who", "whoend", "account"} => AllStill(v, a)
    BY LineIsLocal DEF Situated
  <2> QED BY <2>1, <2>2 DEF AllStill
<1>9. m.kind = "part" => \E p \in People : /\ v.nick[p] = m.nick /\ StillBut(v, a, p)
  BY TellsIs DEF Situated
<1> HIDE DEF w, x, y, a, c, t
<1>10. ASSUME NEW i \in P!LiveIds(x) \ t, c \in Channels, i \in x.members[c]
       PROVE  c \in a.in[o[i]]
  <2>1. i \in P!LiveIds(x) \ s
    BY <1>7, <1>10
  <2>2. o[i] \in People /\ c \in v.in[o[i]] /\ v.nick[o[i]] = x.key[i]
    BY <1>6, <1>10, <2>1 DEF OwnersSo
  <2>3. CASE m.kind # "part"
    BY <1>5, <2>2, <2>3
  <2>4. CASE m.kind = "part"
    <3>1. PICK p \in People : v.nick[p] = m.nick /\ StillBut(v, a, p)
      BY <1>9, <2>4
    <3>2. x.byNick[x.key[i]] = i
      BY <1>1, <2>1, LiveArePlaced
    <3>3. o[i] # p
      BY <1>7, <1>10, <2>2, <2>4, <3>1, <3>2
    <3> QED BY <2>2, <3>1, <3>3 DEF StillBut, Still
  <2> QED BY <2>3, <2>4
<1>11. OwnersSo(x, a, OwnersAfter(x, x, o, a), t) /\ KeptSo(x, x, a, o, s)
  BY <1>5, <1>6, <1>7, <1>10, StayingOwners
<1>12. \A d \in w.listed \intersect a.meIn : Keys(x, d) = w.list[d]
  BY <1>4, <1>5, <1>6, <1>8
<1> QED BY <1>2, <1>11, <1>12 DEF Settled, w, x, y, a, t

(* We have left a channel.                                                 *)
LEMMA ForgettingSettles ==
  ASSUME NEW u, NEW m, NEW v, NEW o, NEW s, Situated(u, m, v, o, s),
         m.kind \in {"me_part", "me_kick"}
  PROVE  Settled(u.index, Listed(u, m), Published(Listed(u, m), m).index, m, o, s)
<1> DEFINE w == Listed(u, m)
           x == u.index
           y == Published(w, m).index
           a == m.at
           c == m.channel
           t == StrayedAfter(w, m, s, y)
<1>1. /\ WorkerOK(w) /\ w.index = x /\ w.listed \subseteq Channels
      /\ x \in P!Indexes /\ P!Consistent(x) /\ s \subseteq P!LiveIds(x)
  BY SituatedFacts
<1>2. c \in Channels
  BY DEF Situated, LineOK, AboutChannel
<1>3. y = P!RemoveChannel(x, c)
  BY <1>1, IndexAfter DEF Situated
<1>4. /\ Grows(v, a, c) /\ c \notin a.meIn
      /\ \A d : d # c => (d \in v.meIn <=> d \in a.meIn)
  BY LineIsLocal, TellsIs DEF Situated
<1>5. /\ \A d \in Channels : d # c => (d \in w.listed <=> d \in u.listed) /\ w.list[d] = u.list[d]
  BY ListsElsewhere DEF Situated
<1>6. OwnersSo(x, v, o, s) /\ Sane(a)
      /\ \A d \in u.listed \intersect v.meIn : Keys(x, d) = u.list[d]
  BY DEF Situated
<1>7. s \intersect P!LiveIds(y) \subseteq t /\ t \subseteq P!LiveIds(y)
  BY DEF StrayedAfter
<1> HIDE DEF w, x, y, a, c, t
<1>8. Turned(x, y, c) /\ Keys(y, c) = {}
  BY <1>1, <1>2, <1>3, RemoveTurns
<1>9. Keys(y, c) \subseteq InIt(a, c) \intersect Nicks
  BY <1>8
<1>10. OwnersSo(y, a, OwnersAfter(x, y, o, a), t) /\ KeptSo(x, y, a, o, s)
  BY <1>2, <1>4, <1>6, <1>7, <1>8, <1>9, TurnKeepsOwners
<1>11. ASSUME NEW d \in w.listed \intersect a.meIn PROVE Keys(y, d) = w.list[d]
  <2>1. d \in u.listed \intersect v.meIn /\ w.list[d] = u.list[d] /\ d \in Channels /\ d # c
    BY <1>1, <1>4, <1>5, <1>11
  <2>2. Keys(y, d) = Keys(x, d)
    BY <1>1, <1>8, <2>1, TurnKeepsKeys
  <2> QED BY <1>6, <2>1, <2>2
<1> QED BY <1>10, <1>11 DEF Settled, w, x, y, a, t

(* Somebody quits.                                                         *)
LEMMA QuitSettles ==
  ASSUME NEW u, NEW m, NEW v, NEW o, NEW s, Situated(u, m, v, o, s), m.kind = "quit"
  PROVE  Settled(u.index, Listed(u, m), Published(Listed(u, m), m).index, m, o, s)
<1> DEFINE w == Listed(u, m)
           x == u.index
           y == Published(w, m).index
           a == m.at
           n == m.nick
           z == P!Quit(x, n)
           t == StrayedAfter(w, m, s, y)
<1>1. /\ WorkerOK(w) /\ w.index = x /\ w.listed \subseteq Channels /\ u.listed \subseteq Channels
      /\ x \in P!Indexes /\ P!Consistent(x) /\ s \subseteq P!LiveIds(x)
  BY SituatedFacts
<1>2. n \in Nicks
  BY DEF Situated, LineOK, AboutNick
<1>3. OwnersSo(x, v, o, s) /\ Sane(a)
      /\ \A d \in u.listed \intersect v.meIn : Keys(x, d) = u.list[d]
  BY DEF Situated
<1>4. a.meIn = v.meIn
      /\ \E p \in People : v.nick[p] = n /\ a.nick[p] = NoNick /\ StillBut(v, a, p)
  BY TellsIs DEF Situated
<1>5. w.listed = u.listed /\ \A d \in Channels : w.list[d] = u.list[d] \ {n}
  <2>1. Becomes(u, w, u.listed, [d \in Channels |-> u.list[d] \ {n}],
                [d \in Channels |-> [u.level[d] EXCEPT ![n] = {}]])
    BY ListedFields DEF Situated
  <2> QED BY <2>1 DEF Becomes
<1>6. (\A d \in w.listed : P!InChannel(x, d, n) => P!ReplaceChannel(z, d, w.list[d]) = z) => y = z
  BY <1>1, IndexAfter DEF Situated
<1>7. s \intersect P!LiveIds(y) \subseteq t /\ t \subseteq P!LiveIds(y)
  BY DEF StrayedAfter
<1> HIDE DEF w, x, y, a, n, t
<1>8. z \in P!Indexes /\ P!Consistent(z)
  BY <1>1, <1>2, QuitFields
<1>9. \A d \in Channels : Keys(z, d) = Keys(x, d) \ {n}
  BY <1>1, <1>2, QuitKeys
<1> HIDE DEF z
<1>10. \A d \in w.listed \intersect v.meIn : Keys(z, d) = w.list[d]
  BY <1>1, <1>3, <1>5, <1>9
<1>11. ASSUME NEW d \in w.listed, P!InChannel(x, d, n) PROVE P!ReplaceChannel(z, d, w.list[d]) = z
  <2>1. d \in v.meIn /\ d \in Channels
    BY <1>1, <1>3, <1>11 DEF OwnersSo, P!InChannel
  <2> QED BY <1>8, <1>10, <2>1, ReplaceSame
<1>12. y = z
  BY <1>6, <1>11
<1>13. OwnersSo(y, a, OwnersAfter(x, y, o, a), t) /\ KeptSo(x, y, a, o, s)
  <2>1. PICK p \in People : v.nick[p] = n /\ a.nick[p] = NoNick /\ StillBut(v, a, p)
    BY <1>4
  <2>2. s \intersect P!LiveIds(P!Quit(x, n)) \subseteq t /\ t \subseteq P!LiveIds(P!Quit(x, n))
    BY <1>7, <1>12 DEF z
  <2>3. OwnersSo(P!Quit(x, n), a, OwnersAfter(x, P!Quit(x, n), o, a), t)
        /\ KeptSo(x, P!Quit(x, n), a, o, s)
    BY <1>2, <1>3, <1>4, <2>1, <2>2, QuitKeepsOwners
  <2> QED BY <1>12, <2>3 DEF z
<1> QED BY <1>4, <1>10, <1>12, <1>13 DEF Settled, w, x, y, a, t

(* Somebody takes another nickname.                                        *)
LEMMA RenameSettles ==
  ASSUME NEW u, NEW m, NEW v, NEW o, NEW s, Situated(u, m, v, o, s), m.kind = "nick"
  PROVE  Settled(u.index, Listed(u, m), Published(Listed(u, m), m).index, m, o, s)
<1> DEFINE w == Listed(u, m)
           x == u.index
           y == Published(w, m).index
           a == m.at
           n == m.nick
           k == m.to
           z == P!Rename(x, n, k)
           t == StrayedAfter(w, m, s, y)
<1>1. /\ WorkerOK(w) /\ w.index = x /\ w.listed \subseteq Channels /\ u.listed \subseteq Channels
      /\ x \in P!Indexes /\ P!Consistent(x) /\ s \subseteq P!LiveIds(x)
  BY SituatedFacts
<1>2. n \in Nicks /\ k \in Nicks
  BY DEF Situated, LineOK, AboutNick
<1>3. OwnersSo(x, v, o, s) /\ Sane(a) /\ Sane(v)
      /\ \A d \in u.listed \intersect v.meIn : Keys(x, d) = u.list[d] /\ u.list[d] = InIt(v, d)
  BY DEF Situated, ListIs
<1>4. a.meIn = v.meIn
      /\ \E p \in People : /\ v.in[p] # {} /\ a.in[p] = v.in[p]
                           /\ v.nick[p] = n /\ a.nick[p] = k /\ k # n /\ StillBut(v, a, p)
  BY TellsIs DEF Situated
<1>5. w.listed = u.listed
      /\ \A d \in Channels : w.list[d] = IF n \notin u.list[d] THEN u.list[d]
                                         ELSE (u.list[d] \ {n}) \union {k}
  <2>1. Becomes(u, w, u.listed,
                [d \in Channels |-> IF n \notin u.list[d] THEN u.list[d]
                                    ELSE (u.list[d] \ {n}) \union {k}],
                [d \in Channels |-> IF n \notin u.list[d] THEN u.level[d]
                                    ELSE [u.level[d] EXCEPT ![n] = {}, ![k] = {}]])
    BY ListedFields DEF Situated
  <2>2. w.listed = u.listed
        /\ w.list = [d \in Channels |-> IF n \notin u.list[d] THEN u.list[d]
                                        ELSE (u.list[d] \ {n}) \union {k}]
    BY <2>1 DEF Becomes
  <2> HIDE DEF w
  <2> QED BY <2>2
<1>6. (\A d \in w.listed : P!InChannel(x, d, n) => P!ReplaceChannel(z, d, w.list[d]) = z) => y = z
  BY <1>1, IndexAfter DEF Situated
<1>7. s \intersect P!LiveIds(y) \subseteq t /\ t \subseteq P!LiveIds(y)
  BY DEF StrayedAfter
<1> HIDE DEF w, x, y, a, n, k, t
<1>8. PICK p \in People : /\ v.in[p] # {} /\ a.in[p] = v.in[p]
                          /\ v.nick[p] = n /\ a.nick[p] = k /\ k # n /\ StillBut(v, a, p)
  BY <1>4
<1>9. z \in P!Indexes /\ P!Consistent(z)
  BY <1>1, <1>2, <1>8, RenameFields
<1>10. ASSUME NEW d \in w.listed \intersect v.meIn PROVE Keys(z, d) = w.list[d]
  <2>1. Keys(x, d) = u.list[d] /\ u.list[d] = InIt(v, d) /\ d \in Channels
    BY <1>1, <1>3, <1>5, <1>10
  <2>2. k \notin InIt(v, d)
    <3>1. ASSUME NEW q \in People, d \in v.in[q], v.nick[q] = k PROVE FALSE
      <4>1. q # p
        BY <1>8, <3>1
      <4>2. a.nick[q] = k
        BY <1>8, <3>1, <4>1 DEF StillBut, Still
      <4> QED BY <1>2, <1>3, <1>8, <4>1, <4>2, FixedValues DEF Sane
    <3> QED BY <3>1 DEF InIt
  <2>3. Keys(z, d) = IF n \in Keys(x, d) THEN (Keys(x, d) \ {n}) \union {k} ELSE Keys(x, d)
    BY <1>1, <1>2, <1>8, <2>1, <2>2, RenameKeys
  <2> QED BY <1>5, <2>1, <2>3
<1> HIDE DEF z
<1>11. ASSUME NEW d \in w.listed, P!InChannel(x, d, n) PROVE P!ReplaceChannel(z, d, w.list[d]) = z
  <2>1. d \in v.meIn /\ d \in Channels
    BY <1>1, <1>3, <1>11 DEF OwnersSo, P!InChannel
  <2> QED BY <1>9, <1>10, <2>1, ReplaceSame
<1>12. y = z
  BY <1>6, <1>11
<1>13. OwnersSo(y, a, OwnersAfter(x, y, o, a), t) /\ KeptSo(x, y, a, o, s)
  <2>1. s \intersect P!LiveIds(P!Rename(x, n, k)) \subseteq t /\ t \subseteq P!LiveIds(P!Rename(x, n, k))
    BY <1>7, <1>12 DEF z
  <2>2. OwnersSo(P!Rename(x, n, k), a, OwnersAfter(x, P!Rename(x, n, k), o, a), t)
        /\ KeptSo(x, P!Rename(x, n, k), a, o, s)
    BY <1>2, <1>3, <1>4, <1>8, <2>1, RenameKeepsOwners
  <2> QED BY <1>12, <2>2 DEF z
<1> QED BY <1>4, <1>10, <1>12, <1>13 DEF Settled, w, x, y, a, t

(* Whatever the line, the index is right for the people it leaves.         *)
LEMMA LineSettles ==
  ASSUME NEW u, NEW m, NEW v, NEW o, NEW s, Situated(u, m, v, o, s)
  PROVE  /\ Settled(u.index, Listed(u, m), Published(Listed(u, m), m).index, m, o, s)
         /\ \A c \in Listed(u, m).listed \intersect m.at.meIn : ListWillBe(Listed(u, m), m, c)
<1>1. m.kind \in AboutChannel \union AboutNick
  BY DEF Situated, LineOK, Lines
<1>2. m.kind = "me_join" => m.channel \in Listed(u, m).listed
  BY ListsElsewhere DEF Situated
<1>3. CASE m.kind \in {"join", "part", "mode", "names", "me_join"} /\ m.channel \in Listed(u, m).listed
  BY <1>3, RosterSettles, SituatedFacts
<1>4. CASE \/ m.kind \in {"join", "part", "mode", "names"} /\ m.channel \notin Listed(u, m).listed
           \/ m.kind \in {"who", "whoend", "account"}
  BY <1>4, NothingSettles, SituatedFacts
<1>5. CASE m.kind \in {"me_part", "me_kick"}
  BY <1>5, ForgettingSettles, SituatedFacts
<1>6. CASE m.kind = "quit"
  BY <1>6, QuitSettles, SituatedFacts
<1>7. CASE m.kind = "nick"
  BY <1>7, RenameSettles, SituatedFacts
<1> QED BY <1>1, <1>2, <1>3, <1>4, <1>5, <1>6, <1>7 DEF AboutChannel, AboutNick

PlacedRightly ==
    /\ OwnersSo(worker.index, ghost.seen, ghost.owner, ghost.strayed)
    /\ \A c \in Followed : ListTrue(c) /\ Keys(worker.index, c) = worker.list[c]

LEMMA ListsAre ==
  ASSUME PlacedRightly
  PROVE  \A c \in worker.listed \intersect ghost.seen.meIn :
            /\ worker.list[c] = InIt(ghost.seen, c)
               \/ (worker.list[c] = {} /\ Awaits(link, c))
            /\ Keys(worker.index, c) = worker.list[c]
<1> TAKE c \in worker.listed \intersect ghost.seen.meIn
<1>1. c \in Followed
  BY DEF Followed
<1>2. ListTrue(c) /\ Keys(worker.index, c) = worker.list[c]
  BY <1>1 DEF PlacedRightly
<1> QED BY <1>2 DEF ListTrue

(* What a line that is taken makes of the worker and of what is known.     *)
LEMMA DeliverIs ==
  ASSUME Typed, NEW expired \in BOOLEAN, Deliver(expired)
  PROVE  LET m == Head(link)
             w == Listed(worker, m)
             new == Published(w, m)
         IN /\ link \in Seq(GoodLines) /\ link # <<>> /\ link' = Tail(link) /\ m \in GoodLines
            /\ LineOK(m) /\ WorkerOK(worker) /\ WorkerOK(w) /\ SameOurs(worker, w)
            /\ SameLists(w, worker') /\ WorkerOK(new)
            /\ worker'.index = new.index /\ worker'.ranked = new.ranked
            /\ worker'.renamed = new.renamed
            /\ ghost' = Remembered(w, new, m)
<1> DEFINE m == Head(link)
           w == Listed(worker, m)
           new == Published(w, m)
<1>1. link # <<>> /\ link \in Seq(GoodLines) /\ link' = Tail(link) /\ WorkerOK(worker)
  BY DEF Deliver, Typed
<1>2. m \in GoodLines /\ LineOK(m)
  BY <1>1 DEF GoodLines
<1>3. WorkerOK(w) /\ SameOurs(worker, w)
  BY <1>1, <1>2, ListedType
<1>4. Handle(w, m, expired)
  BY DEF Deliver
<1>5. /\ worker' = HandledWorker(w, m, expired)
      /\ ghost' = Remembered(w, new, m)
  BY <1>4 DEF Handle, HandledWorker, Asked
<1> HIDE DEF m, w
<1>6. SameLists(w, new)
  BY <1>2, <1>3, PublishedType
<1>7. /\ SameLists(new, worker') /\ WorkerOK(new) /\ worker'.index = new.index
      /\ worker'.ranked = new.ranked /\ worker'.renamed = new.renamed
  BY <1>2, <1>3, <1>5, HandledFields
<1> HIDE DEF new
<1>8. SameLists(w, worker')
  BY <1>6, <1>7 DEF SameLists
<1> QED BY <1>1, <1>2, <1>3, <1>5, <1>7, <1>8 DEF m, w, new

(* The steps that change neither the worker nor what is known.             *)
Quiet ==
    /\ UNCHANGED <<worker, ghost>>
    /\ link # <<>> => link' # <<>> /\ Head(link') = Head(link)

(* A step leaves the worker alone, takes a line, or sends a PART of ours.  *)
LEMMA StepKinds ==
  ASSUME Typed, [Next]_vars
  PROVE  \/ Quiet
         \/ \E expired \in BOOLEAN : Deliver(expired)
         \/ \E c \in Channels : WePart(c)
<1>0. link \in Seq(GoodLines)
  BY DEF Typed
<1>1. ASSUME NEW lines \in Seq(GoodLines), link' = link \o lines, UNCHANGED <<worker, ghost>>
      PROVE  Quiet
  <2>1. ASSUME link # <<>> PROVE link' # <<>> /\ Head(link') = Head(link)
    <3>1. Len(link) \in Nat /\ Len(link) > 0 /\ Len(link') = Len(link) + Len(lines)
          /\ Len(lines) \in Nat /\ link' \in Seq(GoodLines) /\ link'[1] = link[1]
      BY <1>0, <1>1, <2>1
    <3>2. Head(link') = link'[1] /\ Head(link) = link[1] /\ link' # <<>>
      BY <1>0, <3>1
    <3> QED BY <3>1, <3>2
  <2> QED BY <1>1, <2>1 DEF Quiet
<1>2. CASE PeopleMove
  <2>1. PICK w, lines : Moves(w, lines) /\ Reports(world, w, lines)
    BY <1>2, PeopleReport DEF PeopleMove
  <2>2. lines \in Seq(GoodLines)
    BY <2>1, ReportsLines
  <2> QED BY <1>1, <2>1, <2>2 DEF Moves
<1>3. CASE ServerTakes
  <2>1. Taking /\ UNCHANGED <<worker, ghost>>
    BY <1>3, ServerTakesIs
  <2>2. CASE UNCHANGED <<world, link>>
    BY <2>1, <2>2 DEF Quiet
  <2>3. ASSUME NEW a \in GoodLines, NEW b \in GoodLines, link' = link \o <<a, b>>
        PROVE  Quiet
    <3>1. <<a, b>> \in Seq(GoodLines)
      BY <2>3
    <3> QED BY <1>1, <2>1, <2>3, <3>1
  <2>4. ASSUME NEW lines, link' = link \o lines, Reports(world, world', lines)
        PROVE  Quiet
    BY <1>1, <2>1, <2>4, ReportsLines
  <2> QED BY <2>1, <2>2, <2>3, <2>4 DEF Taking
<1>4. CASE ServerSendsWho
  <2> DEFINE m == [Head(whoReply) EXCEPT !.at = At(world)]
  <2>1. m \in GoodLines /\ link' = link \o <<m>> /\ UNCHANGED <<worker, ghost>>
    BY <1>4, WhoIsSent
  <2> HIDE DEF m
  <2> QED BY <1>1, <2>1
<1>5. ASSUME NEW c \in Channels, WeJoin(c)
      PROVE  Quiet
  BY <1>5, WeJoinFields DEF Quiet
<1>6. CASE HandleBatch
  BY <1>6 DEF HandleBatch, Quiet
<1>7. ASSUME NEW c \in Channels, NEW n \in Nicks, Choose(c, n)
      PROVE  Quiet
  BY <1>7 DEF Choose, Quiet
<1>8. CASE UNCHANGED vars
  BY <1>8 DEF vars, Quiet
<1> QED BY <1>2, <1>3, <1>4, <1>5, <1>6, <1>7, <1>8 DEF Next, PeopleMove

LEMMA SituationIs ==
  ASSUME Typed, LinesTell, PlacedRightly, link # <<>>
  PROVE  Situated(worker, Head(link), ghost.seen, ghost.owner, ghost.strayed)
<1> DEFINE m == Head(link)
<1>1. link \in Seq(GoodLines) /\ WorkerOK(worker)
  BY DEF Typed
<1>2. LineOK(m)
  BY <1>1 DEF GoodLines
<1>3. Sane(ghost.seen) /\ Sane(m.at) /\ Tells(ghost.seen, m)
  BY <1>1, LinesTellIs, LineTaken
<1>4. ASSUME NEW c \in worker.listed \intersect ghost.seen.meIn
      PROVE  ListIs(worker, ghost.seen, m, c) /\ Keys(worker.index, c) = worker.list[c]
  <2>1. ListTrue(c) /\ Keys(worker.index, c) = worker.list[c]
    BY <1>4 DEF PlacedRightly, Followed
  <2> QED BY <2>1 DEF ListTrue, ListIs, Awaits
<1> QED BY <1>1, <1>2, <1>3, <1>4 DEF Situated, PlacedRightly

(* A line that is taken leaves the index right and the presences kept.     *)
LEMMA DeliverPlaces ==
  ASSUME Typed, LinesTell, PlacedRightly, NEW expired \in BOOLEAN, Deliver(expired)
  PROVE  /\ PlacedRightly'
         /\ KeptSo(worker.index, worker'.index, ghost'.seen, ghost.owner, ghost.strayed)
<1> DEFINE m == Head(link)
           w == Listed(worker, m)
           new == Published(w, m)
           x == worker.index
           y == new.index
<1>1. /\ link \in Seq(GoodLines) /\ link # <<>> /\ link' = Tail(link)
      /\ SameOurs(worker, w) /\ SameLists(w, worker') /\ worker'.index = y
      /\ ghost' = Remembered(w, new, m)
  BY DeliverIs
<1>2. Situated(worker, m, ghost.seen, ghost.owner, ghost.strayed)
  BY <1>1, SituationIs
<1>3. /\ Settled(x, w, y, m, ghost.owner, ghost.strayed)
      /\ \A c \in w.listed \intersect m.at.meIn : ListWillBe(w, m, c)
  BY <1>2, LineSettles
<1>4. /\ ghost'.seen = m.at /\ ghost'.owner = OwnersAfter(x, y, ghost.owner, m.at)
      /\ ghost'.strayed = StrayedAfter(w, m, ghost.strayed, y)
  <2>1. w.index = x
    BY <1>1 DEF SameOurs
  <2> HIDE DEF m, w, new
  <2> QED BY <1>1, <2>1 DEF Remembered, OwnersAfter, StrayedAfter, Strays
<1>5. JoinsNamed(link)
  BY LinesTellIs
<1>6. Awaits(link', m.channel) \/ m.kind # "me_join"
  <2> SUFFICES ASSUME m.kind = "me_join" PROVE Awaits(link', m.channel)
    OBVIOUS
  <2>1. Len(link) \in Nat /\ Len(link) > 0 /\ m = link[1]
    BY <1>1
  <2> HIDE DEF m
  <2>2. 1 < Len(link) /\ link[2].kind = "names" /\ link[2].channel = m.channel
    BY <1>5, <2>1 DEF JoinsNamed
  <2>3. link' # <<>> /\ Head(link') = link[2]
    <3> DEFINE t == link'
    <3>1. t \in Seq(GoodLines) /\ Len(t) = Len(link) - 1 /\ t[1] = link[2]
      BY <1>1, <2>1, <2>2
    <3> HIDE DEF t
    <3>2. t # <<>> /\ Head(t) = t[1]
      BY <2>1, <2>2, <3>1
    <3> QED BY <3>1, <3>2 DEF t
  <2> QED BY <2>2, <2>3 DEF Awaits
<1> HIDE DEF m, w, new, x, y
<1>7. worker'.listed = w.listed /\ worker'.list = w.list
  BY <1>1 DEF SameLists
<1>8. ASSUME NEW c \in worker'.listed \intersect ghost'.seen.meIn
      PROVE  /\ worker'.list[c] = InIt(ghost'.seen, c)
                \/ (worker'.list[c] = {} /\ Awaits(link', c))
             /\ Keys(worker'.index, c) = worker'.list[c]
  <2>1. c \in w.listed \intersect m.at.meIn
    BY <1>4, <1>7, <1>8
  <2>2. Keys(y, c) = w.list[c]
    BY <1>3, <2>1 DEF Settled
  <2>3. ListWillBe(w, m, c)
    BY <1>3, <2>1
  <2>4. w.list[c] = InIt(m.at, c) \/ (w.list[c] = {} /\ Awaits(link', c))
    BY <1>6, <2>3 DEF ListWillBe
  <2>5. worker'.list[c] = w.list[c] /\ worker'.index = y /\ ghost'.seen = m.at
    BY <1>1, <1>4, <1>7
  <2> QED BY <2>2, <2>4, <2>5
<1>9. /\ OwnersSo(y, m.at, OwnersAfter(x, y, ghost.owner, m.at),
                  StrayedAfter(w, m, ghost.strayed, y))
      /\ KeptSo(x, y, m.at, ghost.owner, ghost.strayed)
  BY <1>3 DEF Settled
<1>10. OwnersSo(worker'.index, ghost'.seen, ghost'.owner, ghost'.strayed)
  BY <1>1, <1>4, <1>9
<1>11. PlacedRightly'
  BY <1>8, <1>10 DEF PlacedRightly, Followed, ListTrue
<1> QED BY <1>1, <1>4, <1>9, <1>11 DEF x

LEMMA StayKept ==
  ASSUME NEW x, NEW v, NEW o, NEW s, OwnersSo(x, v, o, s)
  PROVE  KeptSo(x, x, v, o, s)
<1>1. ASSUME NEW i \in P!LiveIds(x) \ s PROVE x.byNick[v.nick[o[i]]] = i
  BY OwnerHolds
<1> QED BY <1>1 DEF KeptSo

(* Every step keeps the index right, and the presences with their people.  *)
LEMMA PlacingsStep ==
  ASSUME Typed, LinesTell, PlacedRightly, [Next]_vars
  PROVE  /\ PlacedRightly'
         /\ KeptSo(worker.index, worker'.index, ghost'.seen, ghost.owner, ghost.strayed)
<1>1. CASE Quiet
  <2>1. worker' = worker /\ ghost' = ghost /\ \A c : Awaits(link, c) => Awaits(link', c)
    BY <1>1 DEF Quiet, Awaits
  <2>2. KeptSo(worker.index, worker.index, ghost.seen, ghost.owner, ghost.strayed)
    BY StayKept DEF PlacedRightly
  <2>3. \A c \in worker.listed \intersect ghost.seen.meIn :
           /\ worker.list[c] = InIt(ghost.seen, c)
              \/ (worker.list[c] = {} /\ Awaits(link, c))
           /\ Keys(worker.index, c) = worker.list[c]
    BY ListsAre
  <2>4. \A c \in worker'.listed \intersect ghost'.seen.meIn :
           /\ worker'.list[c] = InIt(ghost'.seen, c)
              \/ (worker'.list[c] = {} /\ Awaits(link', c))
           /\ Keys(worker'.index, c) = worker'.list[c]
    BY <2>1, <2>3
  <2>5. OwnersSo(worker'.index, ghost'.seen, ghost'.owner, ghost'.strayed)
    BY <2>1 DEF PlacedRightly
  <2>6. PlacedRightly'
    BY <2>4, <2>5 DEF PlacedRightly, Followed, ListTrue
  <2> QED BY <2>1, <2>2, <2>6
<1>2. ASSUME NEW expired \in BOOLEAN, Deliver(expired)
      PROVE  /\ PlacedRightly'
             /\ KeptSo(worker.index, worker'.index, ghost'.seen, ghost.owner, ghost.strayed)
  BY <1>2, DeliverPlaces
<1>3. ASSUME NEW c \in Channels, WePart(c)
      PROVE  /\ PlacedRightly'
             /\ KeptSo(worker.index, worker'.index, ghost'.seen, ghost.owner, ghost.strayed)
  <2>1. /\ SameOurs(worker, worker') /\ worker'.listed = worker.listed \ {c}
        /\ worker'.list = [worker.list EXCEPT ![c] = {}]
        /\ link' = link /\ ghost' = ghost
    BY <1>3, WePartFields
  <2>2. worker'.index = worker.index
    BY <2>1 DEF SameOurs
  <2>3. worker.list \in [Channels -> SUBSET Nicks] /\ worker.listed \subseteq Channels
    BY DEF Typed, WorkerOK, Workers
  <2>4. \A d \in worker'.listed : d \in worker.listed /\ worker'.list[d] = worker.list[d]
    BY <2>1, <2>3
  <2>5. OwnersSo(worker'.index, ghost'.seen, ghost'.owner, ghost'.strayed)
    BY <2>1, <2>2 DEF PlacedRightly
  <2>6. \A d \in worker.listed \intersect ghost.seen.meIn :
           /\ worker.list[d] = InIt(ghost.seen, d)
              \/ (worker.list[d] = {} /\ Awaits(link, d))
           /\ Keys(worker.index, d) = worker.list[d]
    BY ListsAre
  <2>7. PlacedRightly'
    BY <2>1, <2>2, <2>4, <2>5, <2>6 DEF PlacedRightly, Followed, ListTrue, Awaits
  <2>8. KeptSo(worker.index, worker.index, ghost.seen, ghost.owner, ghost.strayed)
    BY StayKept DEF PlacedRightly
  <2> QED BY <2>1, <2>2, <2>7, <2>8
<1> QED BY <1>1, <1>2, <1>3, StepKinds

LEMMA PlacingsStart ==
  ASSUME Init PROVE PlacedRightly
<1>1. worker.index = P!EmptyIndex /\ worker.listed = {} /\ ghost.strayed = {}
  BY DEF Init
<1>2. P!EmptyIndex \in P!Indexes /\ P!Consistent(P!EmptyIndex)
  BY OperationsKeepAgreement, FixedValues
<1>3. P!LiveIds(P!EmptyIndex) = {} /\ \A c \in Channels : P!EmptyIndex.members[c] = {}
  BY DEF P!LiveIds, P!EmptyIndex
<1>4. OwnersSo(worker.index, ghost.seen, ghost.owner, ghost.strayed)
  BY <1>1, <1>2, <1>3 DEF OwnersSo
<1> QED BY <1>1, <1>4 DEF PlacedRightly, Followed

Rightly == Typed /\ LinesTell /\ PlacedRightly

LEMMA RightlyKept ==
  ASSUME Rightly, [Next]_vars
  PROVE  Rightly'
BY TypedStep, LinesTellStep, PlacingsStep DEF Rightly

LEMMA RightlyStarts ==
  ASSUME Init PROVE Rightly
BY InitTyped, LinesTellStart, PlacingsStart DEF Rightly

(* A presence stands for the person it was made for: no order of NICK,     *)
(* QUIT, PART, KICK, JOIN and NAMES, with nicknames taken again and our    *)
(* own coming and going, hands it to anybody else.                         *)
THEOREM PresencesArePeople == Spec => []PresenceIsOnePerson
<1>1. Rightly => PresenceIsOnePerson
  <2> SUFFICES ASSUME Rightly, NEW i \in P!LiveIds(worker.index) \ ghost.strayed
               PROVE  ghost.owner[i] = Now(worker.index.key[i])
    BY DEF PresenceIsOnePerson
  <2>1. OwnersSo(worker.index, ghost.seen, ghost.owner, ghost.strayed) /\ Sane(ghost.seen)
    BY DEF Rightly, PlacedRightly, LinesTell
  <2>2. /\ ghost.owner[i] \in People /\ ghost.seen.nick[ghost.owner[i]] = worker.index.key[i]
        /\ worker.index.key[i] \in Nicks
    BY <2>1, OwnerHolds
  <2>3. worker.index.key[i] # NoNick
    BY <2>2, FixedValues
  <2>4. Holder(ghost.seen, worker.index.key[i]) = ghost.owner[i]
    BY <2>1, <2>2, <2>3, HolderOf
  <2> QED BY <2>4 DEF Now
<1>2. Rightly /\ [Next]_vars => Rightly'
  BY RightlyKept
<1>3. Init => Rightly
  BY RightlyStarts
<1> QED BY <1>1, <1>2, <1>3, PTL DEF Spec

(* The index of presences agrees with itself and, in every channel we are  *)
(* in, with the list it was built from.                                    *)
THEOREM IndexIsTheLists == Spec => []IndexAgrees
<1>1. Rightly => IndexAgrees
  BY DEF Rightly, PlacedRightly, IndexAgrees, OwnersSo, Keys
<1>2. Rightly /\ [Next]_vars => Rightly'
  BY RightlyKept
<1>3. Init => Rightly
  BY RightlyStarts
<1> QED BY <1>1, <1>2, <1>3, PTL DEF Spec

KeptNow ==
    \A i \in P!LiveIds(worker.index) \ ghost.strayed :
          LET n == ghost'.seen.nick[ghost.owner[i]]
          IN n # NoNick /\ worker'.index.byNick[n] # P!NoId
             => worker'.index.byNick[n] = i

(* A person keeps the presence through every line that leaves them in one  *)
(* of our channels.                                                        *)
THEOREM PresencesAreKept == Spec => PresenceIsKept
<1>1. Rightly /\ [Next]_vars => KeptNow
  <2> SUFFICES ASSUME Rightly, [Next]_vars PROVE KeptNow
    OBVIOUS
  <2>1. KeptSo(worker.index, worker'.index, ghost'.seen, ghost.owner, ghost.strayed)
    BY PlacingsStep DEF Rightly
  <2> QED BY <2>1 DEF KeptSo, KeptNow
<1>2. Rightly /\ [Next]_vars => Rightly'
  BY RightlyKept
<1>3. Init => Rightly
  BY RightlyStarts
<1>4. [][KeptNow]_vars <=> PresenceIsKept
  BY DEF KeptNow, PresenceIsKept
<1> QED BY <1>1, <1>2, <1>3, <1>4, PTL DEF Spec

(* One roster: its members l, their levels, what the tracker keeps of      *)
(* their roles, and what the lines have told of each person.               *)
RolesIn(l, lev, ren, ran, v, t) ==
    \A n \in Nicks :
       IF n \in l
       THEN \A p \in People : v.nick[p] = n => /\ lev[n] \subseteq t[p]
                                               /\ ren[n] \in {NoLevel} \union t[p]
                                               /\ ran[n] \in {NoLevel} \union t[p]
       ELSE ren[n] = NoLevel /\ ran[n] = NoLevel

(* Enough for a roster that is about to be published.                      *)
Publishable(l, lev, ren, v, t) ==
    \A n \in Nicks, p \in People : n \in l /\ v.nick[p] = n =>
        lev[n] \subseteq t[p] /\ ren[n] \in {NoLevel} \union t[p]

LevelsSo(u) == \A c \in Channels, n \in Nicks : n \notin u.list[c] => u.level[c][n] = {}

RolesSo(u, v, told) ==
    /\ LevelsSo(u)
    /\ \A c \in u.listed \intersect v.meIn :
          RolesIn(u.list[c], u.level[c], u.renamed[c], u.ranked[c], v, told[c])

ToldAfter(m, v, told) ==
    LET p == Holder(m.at, m.nick)
        c == m.channel
    IN CASE m.kind = "mode" ->
                  [told EXCEPT ![c][p] = IF m.grant THEN @ \union {m.level}
                                         ELSE @ \ {m.level}]
            [] m.kind \in {"part", "quit"} ->
                  [d \in Channels |->
                     [q \in People |-> IF d \in {c} \/ m.kind = "quit"
                                       THEN IF v.nick[q] = m.nick THEN {}
                                            ELSE told[d][q]
                                       ELSE told[d][q]]]
            [] m.kind = "names" ->
                  [told EXCEPT ![c] = [q \in People |->
                      LET n == m.at.nick[q]
                      IN IF n = NoNick THEN {} ELSE {m.names[n]} \ {-1, NoLevel}]]
            [] m.kind \in {"me_part", "me_kick"} ->
                  [told EXCEPT ![c] = [q \in People |-> {}]]
            [] OTHER -> told

ToldSo(t, m, v, told) ==
    LET c == m.channel
        p == Holder(m.at, m.nick)
    IN /\ \A d \in Channels, q \in People :
            /\ m.kind \notin {"mode", "part", "quit", "names", "me_part", "me_kick"} =>
                 t[d][q] = told[d][q]
            /\ m.kind # "quit" /\ d # c => t[d][q] = told[d][q]
            /\ m.kind \in {"part", "quit"} /\ v.nick[q] # m.nick => t[d][q] = told[d][q]
       /\ m.kind = "mode" =>
            /\ \A q \in People \ {p} : t[c][q] = told[c][q]
            /\ p \in People => t[c][p] = IF m.grant THEN told[c][p] \union {m.level}
                                         ELSE told[c][p] \ {m.level}
       /\ m.kind = "names" =>
            \A q \in People : m.at.nick[q] # NoNick =>
               t[c][q] = {m.names[m.at.nick[q]]} \ {-1, NoLevel}

(* What a line adds to what has been told of people's roles.               *)
LEMMA ToldFields ==
  ASSUME NEW m, LineOK(m), NEW v, NEW told \in [Channels -> [People -> SUBSET Levels]]
  PROVE  ToldSo(ToldAfter(m, v, told), m, v, told)
<1> DEFINE t == ToldAfter(m, v, told)
           c == m.channel
           p == Holder(m.at, m.nick)
           n == m.nick
<1>0. /\ m.kind \in AboutChannel \union AboutNick
      /\ m.kind \in AboutChannel => c \in Channels
  BY DEF LineOK, Lines
<1>1. m.kind = "mode" => t = [told EXCEPT ![c][p] = IF m.grant THEN @ \union {m.level}
                                                   ELSE @ \ {m.level}]
  BY DEF ToldAfter
<1>2. m.kind \in {"part", "quit"} =>
         t = [d \in Channels |->
                     [q \in People |-> IF d \in {c} \/ m.kind = "quit"
                                       THEN IF v.nick[q] = m.nick THEN {}
                                            ELSE told[d][q]
                                       ELSE told[d][q]]]
  BY DEF ToldAfter
<1>3. m.kind = "names" => t = [told EXCEPT ![c] = [q \in People |->
                      IF m.at.nick[q] = NoNick THEN {} ELSE {m.names[m.at.nick[q]]} \ {-1, NoLevel}]]
  BY DEF ToldAfter
<1>4. m.kind \in {"me_part", "me_kick"} => t = [told EXCEPT ![c] = [q \in People |-> {}]]
  BY DEF ToldAfter
<1>5. m.kind \notin {"mode", "part", "quit", "names", "me_part", "me_kick"} => t = told
  BY DEF ToldAfter
<1> HIDE DEF t, c, p
<1>6. ASSUME m.kind = "mode"
      PROVE  ToldSo(t, m, v, told)
  <2>1. c \in Channels
    BY <1>0, <1>6 DEF AboutChannel
  <2> DEFINE r == IF m.grant THEN told[c][p] \union {m.level} ELSE told[c][p] \ {m.level}
             row == [told[c] EXCEPT ![p] = r]
  <2>2. t = [told EXCEPT ![c] = row]
    BY <1>1, <1>6
  <2> HIDE DEF r
  <2>3. \A q \in People : row[q] = IF q = p THEN r ELSE told[c][q]
    BY <2>1
  <2> HIDE DEF row
  <2>4. \A d \in Channels : t[d] = IF d = c THEN row ELSE told[d]
    BY <2>1, <2>2
  <2>5. /\ \A d \in Channels, q \in People : d # c => t[d][q] = told[d][q]
        /\ \A q \in People \ {p} : t[c][q] = told[c][q]
        /\ p \in People => t[c][p] = r
    BY <2>1, <2>3, <2>4
  <2> QED BY <1>6, <2>5 DEF ToldSo, c, p, r
<1>7. ASSUME m.kind \in {"part", "quit"}
      PROVE  ToldSo(t, m, v, told)
  BY <1>2, <1>7 DEF ToldSo, c, p
<1>8. ASSUME m.kind = "names"
      PROVE  ToldSo(t, m, v, told)
  <2>1. c \in Channels
    BY <1>0, <1>8 DEF AboutChannel
  <2> QED BY <1>3, <1>8, <2>1 DEF ToldSo, c, p
<1>9. ASSUME m.kind \in {"me_part", "me_kick"}
      PROVE  ToldSo(t, m, v, told)
  <2>1. c \in Channels
    BY <1>0, <1>9 DEF AboutChannel
  <2> QED BY <1>4, <1>9, <2>1 DEF ToldSo, c, p
<1>10. ASSUME m.kind \notin {"mode", "part", "quit", "names", "me_part", "me_kick"}
      PROVE  ToldSo(t, m, v, told)
  BY <1>5, <1>10 DEF ToldSo, c, p
<1> QED BY <1>6, <1>7, <1>8, <1>9, <1>10 DEF t

(* The roster that is published has the roles of its members.              *)
LEMMA PublishedRoles ==
  ASSUME NEW w, WorkerOK(w), NEW m, LineOK(m), NEW c \in w.listed, c \in Changed(w, m),
         NEW a, NEW t, Publishable(w.list[c], w.level[c], Before(w, m).renamed[c], a, t)
  PROVE  LET new == Published(w, m)
         IN RolesIn(new.list[c], new.level[c], new.renamed[c], new.ranked[c], a, t)
<1> DEFINE b == Before(w, m)
           new == Published(w, m)
           s == Changed(w, m)
<1>1. Roles(b, new, s) /\ SameLists(b, new) /\ SameLists(w, b)
  BY PublishedOne, BeforeFields DEF Republished
<1>2. c \in Channels /\ w.level \in [Channels -> [Nicks -> SUBSET Levels]]
  BY DEF WorkerOK, Workers
<1> HIDE DEF b, new, s
<1>3. new.ranked[c] = Shown(b, c) /\ new.renamed[c] = Kept(b, c)
      /\ new.list[c] = w.list[c] /\ new.level[c] = w.level[c]
      /\ b.list[c] = w.list[c] /\ b.level[c] = w.level[c]
  BY <1>1, <1>2 DEF Roles, SameLists, s
<1>4. \A n \in Nicks : Highest(w.level[c][n]) \in w.level[c][n] \union {NoLevel}
  BY <1>2, HighestIs
<1>5. \A n \in Nicks : /\ n \notin w.list[c] => Kept(b, c)[n] = NoLevel /\ Shown(b, c)[n] = NoLevel
                       /\ n \in w.list[c] =>
                            /\ Kept(b, c)[n] = b.renamed[c][n]
                            /\ Shown(b, c)[n] \in {b.renamed[c][n], Highest(w.level[c][n])}
  BY <1>3 DEF Kept, Shown
<1>6. ASSUME NEW n \in Nicks, NEW p \in People, n \in w.list[c], a.nick[p] = n
      PROVE  /\ w.level[c][n] \subseteq t[p]
             /\ Kept(b, c)[n] \in {NoLevel} \union t[p]
             /\ Shown(b, c)[n] \in {NoLevel} \union t[p]
  <2>1. w.level[c][n] \subseteq t[p] /\ b.renamed[c][n] \in {NoLevel} \union t[p]
    BY <1>6 DEF Publishable, b
  <2> QED BY <1>4, <1>5, <1>6, <2>1
<1> QED BY <1>3, <1>5, <1>6 DEF RolesIn, new

(* Other rosters stay what they were.                                      *)
LEMMA OtherRoles ==
  ASSUME NEW w, WorkerOK(w), NEW m, LineOK(m), NEW c \in w.listed, c \notin Changed(w, m)
  PROVE  LET new == Published(w, m)
         IN /\ new.list[c] = w.list[c] /\ new.level[c] = w.level[c]
            /\ new.renamed[c] = Before(w, m).renamed[c] /\ new.ranked[c] = Before(w, m).ranked[c]
<1> DEFINE b == Before(w, m)
           new == Published(w, m)
           s == Changed(w, m)
<1>1. Roles(b, new, s) /\ SameLists(b, new) /\ SameLists(w, b)
  BY PublishedOne, BeforeFields DEF Republished
<1>2. c \in Channels
  BY DEF WorkerOK, Workers
<1> HIDE DEF b, new
<1> QED BY <1>1, <1>2 DEF Roles, SameLists, b, new

LEMMA RolesCarryOver ==
  ASSUME NEW l, NEW lev, NEW ren, NEW ran, NEW v, NEW t, RolesIn(l, lev, ren, ran, v, t),
         NEW a, NEW z,
         \A q \in People : \A k \in Nicks \intersect l :
            a.nick[q] = k => v.nick[q] = k /\ z[q] = t[q]
  PROVE  RolesIn(l, lev, ren, ran, a, z)
BY DEF RolesIn

(* Who is not on the library's list has no levels there.                   *)
LEMMA LevelsAfter ==
  ASSUME NEW u, WorkerOK(u), NEW m, LineOK(m), LevelsSo(u)
  PROVE  LET w == Listed(u, m)
         IN /\ LevelsSo(w)
            /\ m.kind \notin {"quit", "nick"} =>
                  \A d \in Channels : d # m.channel => w.level[d] = u.level[d]
<1> DEFINE w == Listed(u, m)
           e == m.channel
           n == m.nick
<1>0. /\ m.kind \in AboutChannel \union AboutNick
      /\ m.kind \in AboutChannel => e \in Channels
      /\ m.kind \in AboutNick => n \in Nicks
      /\ m.kind = "nick" => m.to \in Nicks
      /\ m.names \in [Nicks -> Levels \union {NoLevel, -1}]
      /\ u.list \in [Channels -> SUBSET Nicks]
      /\ u.level \in [Channels -> [Nicks -> SUBSET Levels]]
  BY DEF LineOK, Lines, WorkerOK, Workers
<1>0a. Levels \subseteq Nat /\ NoLevel \notin Levels /\ \A k \in Nicks : NoLevels[k] = {}
  BY RostersAssumption DEF NoLevels
<1>1. CASE w = u
  BY <1>1
<1>2. CASE m.kind \in {"me_join", "me_kick"}
  <2>1. \E listed : Becomes(u, w, listed, [u.list EXCEPT ![e] = {}], [u.level EXCEPT ![e] = NoLevels])
    BY <1>2, ListedFields
  <2>2. e \in Channels
    BY <1>0, <1>2 DEF AboutChannel, AboutNick
  <2> HIDE DEF w, e
  <2>3. \A c \in Channels : w.level[c] = IF c = e THEN NoLevels ELSE u.level[c]
    BY <1>0, <2>1, <2>2 DEF Becomes
  <2>4. \A c \in Channels : c # e => w.list[c] = u.list[c]
    BY <1>0, <2>1, <2>2 DEF Becomes
  <2> QED BY <1>0a, <2>3, <2>4 DEF LevelsSo, w, e
<1>3. CASE m.kind = "join" /\ Here(u, m)
  <2>1. Becomes(u, w, u.listed, [u.list EXCEPT ![e] = @ \union {n}], u.level)
    BY <1>3, ListedFields
  <2>2. e \in Channels
    BY <1>0, <1>3 DEF AboutChannel
  <2> HIDE DEF w, e
  <2>3. w.level = u.level /\ \A c \in Channels : u.list[c] \subseteq w.list[c]
    BY <1>0, <2>1, <2>2 DEF Becomes
  <2> QED BY <2>3 DEF LevelsSo, w, e
<1>4. CASE m.kind = "part" /\ Here(u, m)
  <2>1. Becomes(u, w, u.listed, [u.list EXCEPT ![e] = @ \ {n}],
                [u.level EXCEPT ![e] = [@ EXCEPT ![n] = {}]])
    BY <1>4, ListedFields
  <2>2. e \in Channels /\ n \in Nicks
    BY <1>0, <1>4 DEF AboutChannel, AboutNick
  <2> DEFINE row == [u.level[e] EXCEPT ![n] = {}]
  <2>3. \A k \in Nicks : row[k] = IF k = n THEN {} ELSE u.level[e][k]
    BY <1>0, <2>2
  <2> HIDE DEF w, e, n
  <2>4. \A c \in Channels : w.level[c] = IF c = e THEN row ELSE u.level[c]
    BY <1>0, <2>1, <2>2 DEF Becomes
  <2>5. \A c \in Channels : w.list[c] = IF c = e THEN u.list[c] \ {n} ELSE u.list[c]
    BY <1>0, <2>1, <2>2 DEF Becomes
  <2> HIDE DEF row
  <2>6. ASSUME NEW c \in Channels, NEW k \in Nicks, k \notin w.list[c]
        PROVE  w.level[c][k] = {}
    <3>1. CASE c = e
      BY <2>3, <2>4, <2>5, <2>6, <3>1 DEF LevelsSo
    <3>2. CASE c # e
      BY <2>4, <2>5, <2>6, <3>2 DEF LevelsSo
    <3> QED BY <3>1, <3>2
  <2>7. LevelsSo(w)
    BY <2>6 DEF LevelsSo
  <2> QED BY <2>4, <2>7 DEF w, e
<1>5. CASE m.kind = "mode" /\ Here(u, m)
  <2> DEFINE row == [u.level[e] EXCEPT ![n] = IF m.grant THEN @ \union {m.level} ELSE @ \ {m.level}]
  <2>1. Becomes(u, w, u.listed, u.list, IF n \in u.list[e] THEN [u.level EXCEPT ![e] = row] ELSE u.level)
    BY <1>5, ListedFields
  <2>2. e \in Channels /\ n \in Nicks
    BY <1>0, <1>5 DEF AboutChannel, AboutNick
  <2>3. \A k \in Nicks : k # n => row[k] = u.level[e][k]
    BY <1>0, <2>2
  <2> HIDE DEF w, e, n, row
  <2>4. \A c \in Channels : w.level[c] = IF c = e /\ n \in u.list[e] THEN row ELSE u.level[c]
    BY <1>0, <2>1, <2>2 DEF Becomes
  <2>5. w.list = u.list
    BY <2>1 DEF Becomes
  <2> QED BY <2>3, <2>4, <2>5 DEF LevelsSo, w, e, n
<1>6. CASE m.kind = "names" /\ Here(u, m)
  <2> DEFINE row == [k \in Nicks |-> {m.names[k]} \ {-1, NoLevel}]
             l == {k \in Nicks : m.names[k] >= 0}
  <2>1. Becomes(u, w, u.listed, [u.list EXCEPT ![e] = l], [u.level EXCEPT ![e] = row])
    BY <1>6, ListedFields
  <2>2. e \in Channels
    BY <1>0, <1>6 DEF AboutChannel, AboutNick
  <2>3. \A k \in Nicks : k \notin l => row[k] = {}
    <3> SUFFICES ASSUME NEW k \in Nicks, ~(m.names[k] >= 0) PROVE row[k] = {}
      OBVIOUS
    <3>1. m.names[k] \in Levels \union {NoLevel, -1}
      BY <1>0
    <3>2. m.names[k] = -1
      BY <1>0a, <3>1 DEF NoLevel
    <3> QED BY <3>2
  <2> HIDE DEF w, e, row, l
  <2>4. \A c \in Channels : w.level[c] = IF c = e THEN row ELSE u.level[c]
    BY <1>0, <2>1, <2>2 DEF Becomes
  <2>5. \A c \in Channels : w.list[c] = IF c = e THEN l ELSE u.list[c]
    BY <1>0, <2>1, <2>2 DEF Becomes
  <2> QED BY <2>3, <2>4, <2>5 DEF LevelsSo, w, e
<1>7. CASE m.kind = "quit"
  <2>1. Becomes(u, w, u.listed, [d \in Channels |-> u.list[d] \ {n}],
                [d \in Channels |-> [u.level[d] EXCEPT ![n] = {}]])
    BY <1>7, ListedFields
  <2>2. n \in Nicks
    BY <1>0, <1>7 DEF AboutNick
  <2> HIDE DEF w, n
  <2>3. \A c \in Channels, k \in Nicks : w.level[c][k] = IF k = n THEN {} ELSE u.level[c][k]
    BY <1>0, <2>1, <2>2 DEF Becomes
  <2>4. \A c \in Channels : w.list[c] = u.list[c] \ {n}
    BY <1>0, <2>1 DEF Becomes
  <2> QED BY <1>7, <2>3, <2>4 DEF LevelsSo, w
<1>8. CASE m.kind = "nick"
  <2> DEFINE k == m.to
             list == [d \in Channels |-> IF n \notin u.list[d] THEN u.list[d]
                                         ELSE (u.list[d] \ {n}) \union {k}]
             level == [d \in Channels |-> IF n \notin u.list[d] THEN u.level[d]
                                          ELSE [u.level[d] EXCEPT ![n] = {}, ![k] = {}]]
  <2>1. Becomes(u, w, u.listed, list, level)
    BY <1>8, ListedFields
  <2>2. n \in Nicks /\ k \in Nicks
    BY <1>0, <1>8 DEF AboutNick
  <2> HIDE DEF w, n, k
  <2>3. \A c \in Channels, j \in Nicks : level[c][j] = IF n \in u.list[c] /\ j \in {n, k} THEN {}
                                                       ELSE u.level[c][j]
    BY <1>0, <2>2
  <2>4. \A c \in Channels : list[c] = IF n \notin u.list[c] THEN u.list[c]
                                         ELSE (u.list[c] \ {n}) \union {k}
    OBVIOUS
  <2> HIDE DEF list, level
  <2>5. w.list = list /\ w.level = level
    BY <2>1 DEF Becomes
  <2>6. ASSUME NEW c \in Channels, NEW j \in Nicks, j \notin w.list[c]
        PROVE  w.level[c][j] = {}
    <3>1. /\ level[c][j] = IF n \in u.list[c] /\ j \in {n, k} THEN {} ELSE u.level[c][j]
          /\ list[c] = IF n \notin u.list[c] THEN u.list[c] ELSE (u.list[c] \ {n}) \union {k}
          /\ j \notin u.list[c] => u.level[c][j] = {}
      BY <2>3, <2>4 DEF LevelsSo
    <3>2. j \notin list[c] /\ w.level[c][j] = level[c][j]
      BY <2>5, <2>6
    <3>3. level[c][j] = {}
      BY <3>1, <3>2
    <3> QED BY <3>2, <3>3
  <2>7. LevelsSo(w)
    BY <2>6 DEF LevelsSo
  <2> QED BY <1>8, <2>7 DEF w
<1>9. \/ w = u \/ m.kind \in {"me_join", "me_kick", "quit", "nick"}
      \/ m.kind \in {"join", "part", "mode", "names"} /\ Here(u, m)
  BY <1>0, ListedFields DEF AboutChannel, AboutNick
<1> QED BY <1>1, <1>2, <1>3, <1>4, <1>5, <1>6, <1>7, <1>8, <1>9

(* A line that is not about a nickname's owner leaves everybody else the   *)
(* people they were.                                                       *)
LEMMA MembersStay ==
  ASSUME NEW v, Sane(v), NEW m, LineOK(m), Sane(m.at), Tells(v, m),
         NEW c, NEW k \in Nicks, k \in InIt(v, c),
         NEW q \in People, m.at.nick[q] = k,
         m.kind \in {"quit", "nick"} => k # m.nick
  PROVE  v.nick[q] = k
<1> DEFINE a == m.at
<1>0. k # NoNick
  BY FixedValues
<1>1. PICK p \in People : c \in v.in[p] /\ v.nick[p] = k
  BY DEF InIt
<1>2. CASE m.kind \notin {"quit", "nick"}
  <2>1. SameBut(v, a, m.channel)
    BY <1>2, LineIsLocal
  <2>2. a.nick[p] = k
    BY <1>1, <2>1 DEF SameBut
  <2> QED BY <1>0, <1>1, <2>2 DEF Sane
<1>3. CASE m.kind \in {"quit", "nick"}
  <2>1. \E o \in People : v.nick[o] = m.nick /\ StillBut(v, a, o)
    BY <1>3, TellsIs
  <2>2. a.nick[p] = k
    BY <1>1, <1>3, <2>1 DEF StillBut, Still
  <2> QED BY <1>0, <1>1, <2>2 DEF Sane
<1> QED BY <1>2, <1>3

(* The carried and the published roles just before publishing.             *)
LEMMA RolesBefore ==
  ASSUME NEW w, WorkerOK(w), NEW m, LineOK(m)
  PROVE  LET b == Before(w, m)
             c == m.channel
             n == m.nick
         IN /\ m.kind # "nick" =>
                 \A d \in Channels : d # c => b.renamed[d] = w.renamed[d] /\ b.ranked[d] = w.ranked[d]
            /\ m.kind = "nick" => b.renamed = Carried(w, n, m.to)
            /\ m.kind \notin {"me_part", "me_kick"} => b.ranked = w.ranked
            /\ m.kind \in {"join", "part", "quit", "who", "whoend", "account", "me_join"} =>
                 b.renamed = w.renamed
            /\ m.kind = "mode" => /\ b.renamed[c][n] = NoLevel
                                  /\ \A k \in Nicks \ {n} : b.renamed[c][k] = w.renamed[c][k]
            /\ m.kind = "names" => \A k \in Nicks : b.renamed[c][k] = NoLevel
<1> DEFINE b == Before(w, m)
           c == m.channel
           n == m.nick
           row == [w.renamed[c] EXCEPT ![n] = NoLevel]
<1>0. /\ m.kind \in AboutChannel \union AboutNick
      /\ m.kind \in AboutChannel => c \in Channels
      /\ m.kind \in AboutNick => n \in Nicks
      /\ w.renamed \in [Channels -> Names] /\ w.ranked \in [Channels -> Names]
  BY DEF LineOK, Lines, WorkerOK, Workers
<1>1. b.ranked = IF m.kind \in {"me_part", "me_kick"}
                 THEN [w.ranked EXCEPT ![c] = NoRole] ELSE w.ranked
  BY BeforeFields
<1>2. (b.renamed = CASE m.kind = "nick" -> Carried(w, n, m.to)
                      [] m.kind = "mode" -> [w.renamed EXCEPT ![c] = [@ EXCEPT ![n] = NoLevel]]
                      [] m.kind \in {"me_part", "me_kick", "names"} ->
                            [w.renamed EXCEPT ![c] = NoRole]
                      [] OTHER -> w.renamed)
  BY BeforeFields
<1> HIDE DEF b, c, n
<1>3. m.kind = "nick" => b.renamed = Carried(w, n, m.to)
  BY <1>2
<1>4. m.kind = "mode" => b.renamed = [w.renamed EXCEPT ![c] = row]
  BY <1>2
<1>5. m.kind \in {"me_part", "me_kick", "names"} => b.renamed = [w.renamed EXCEPT ![c] = NoRole]
  BY <1>2
<1>6. m.kind \in {"join", "part", "quit", "who", "whoend", "account", "me_join"} =>
                 b.renamed = w.renamed
  BY <1>2
<1>7. n \in Nicks /\ c \in Channels => \A k \in Nicks : row[k] = IF k = n THEN NoLevel ELSE w.renamed[c][k]
  BY <1>0 DEF Names
<1> HIDE DEF row
<1>8. m.kind = "mode" => /\ b.renamed[c][n] = NoLevel
                         /\ \A k \in Nicks \ {n} : b.renamed[c][k] = w.renamed[c][k]
  <2> SUFFICES ASSUME m.kind = "mode"
               PROVE  /\ b.renamed[c][n] = NoLevel
                      /\ \A k \in Nicks \ {n} : b.renamed[c][k] = w.renamed[c][k]
    OBVIOUS
  <2>1. c \in Channels /\ n \in Nicks
    BY <1>0 DEF AboutChannel, AboutNick
  <2>2. b.renamed[c] = row
    BY <1>0, <1>4, <2>1
  <2> QED BY <1>7, <2>1, <2>2
<1>9. m.kind = "names" => \A k \in Nicks : b.renamed[c][k] = NoLevel
  <2> SUFFICES ASSUME m.kind = "names" PROVE \A k \in Nicks : b.renamed[c][k] = NoLevel
    OBVIOUS
  <2>1. c \in Channels
    BY <1>0 DEF AboutChannel
  <2>2. b.renamed[c] = NoRole
    BY <1>0, <1>5, <2>1
  <2> QED BY <2>2, NoRoleIsNames
<1>10. m.kind # "nick" =>
         \A d \in Channels : d # c => b.renamed[d] = w.renamed[d] /\ b.ranked[d] = w.ranked[d]
  BY <1>0, <1>1, <1>4, <1>5, <1>6 DEF AboutChannel, AboutNick
<1> QED BY <1>1, <1>3, <1>6, <1>8, <1>9, <1>10 DEF b, c, n

(* What the situation says of the roles after the line.                    *)
RolesThen(w, m, v, told, c) ==
    LET new == Published(w, m)
    IN RolesIn(new.list[c], new.level[c], new.renamed[c], new.ranked[c],
               m.at, ToldAfter(m, v, told)[c])

TellsOf(u, m, v, told, o, s) ==
    /\ Situated(u, m, v, o, s) /\ RolesSo(u, v, told)
    /\ told \in [Channels -> [People -> SUBSET Levels]]

(* A roster the line is not about.                                         *)
LEMMA OtherRolesStay ==
  ASSUME NEW u, NEW m, NEW v, NEW told, NEW o, NEW s, TellsOf(u, m, v, told, o, s),
         NEW c, c \in Listed(u, m).listed, c \in m.at.meIn,
         m.kind \notin {"quit", "nick"},
         c # m.channel \/ m.kind \in {"who", "whoend", "account"}
  PROVE  RolesThen(Listed(u, m), m, v, told, c)
<1> DEFINE w == Listed(u, m)
           b == Before(w, m)
           new == Published(w, m)
           a == m.at
           e == m.channel
           t == ToldAfter(m, v, told)
<1>0. Situated(u, m, v, o, s) /\ RolesSo(u, v, told)
      /\ told \in [Channels -> [People -> SUBSET Levels]]
  BY DEF TellsOf
<1>1. /\ WorkerOK(u) /\ WorkerOK(w) /\ LineOK(m) /\ Sane(v) /\ Sane(a) /\ Tells(v, m)
      /\ SameOurs(u, w) /\ LevelsSo(u) /\ c \in Channels
  BY <1>0, ListedType, SituatedFacts DEF Situated, RolesSo
<1>2. /\ c # e => (c \in w.listed <=> c \in u.listed) /\ w.list[c] = u.list[c]
      /\ m.kind \in {"who", "whoend", "account"} => w = u
  BY <1>1, ListsElsewhere
<1>3. c # e => w.level[c] = u.level[c]
  BY <1>1, LevelsAfter
<1>4. c # e => (c \in v.meIn <=> c \in a.meIn)
  BY <1>1, LineIsLocal DEF e
<1>4a. m.kind \in {"who", "whoend", "account"} => v.meIn = a.meIn
  BY <1>1, LineIsLocal DEF AllStill
<1>5. c \in u.listed /\ c \in v.meIn /\ w.list[c] = u.list[c] /\ w.level[c] = u.level[c]
  BY <1>2, <1>3, <1>4, <1>4a
<1>6. /\ c # e => b.renamed[c] = w.renamed[c] /\ b.ranked[c] = w.ranked[c]
      /\ m.kind \in {"who", "whoend", "account"} => b.renamed = w.renamed /\ b.ranked = w.ranked
  BY <1>1, RolesBefore
<1>7. c \notin Changed(w, m)
  BY ChangedIs
<1>8. /\ new.list[c] = w.list[c] /\ new.level[c] = w.level[c]
      /\ new.renamed[c] = b.renamed[c] /\ new.ranked[c] = b.ranked[c]
  BY <1>1, <1>7, OtherRoles
<1>9. ListIs(u, v, m, c)
  BY <1>0, <1>5 DEF Situated
<1>10. \A q \in People : t[c][q] = told[c][q]
  <2>1. \A d \in Channels, q \in People :
           /\ m.kind \notin {"mode", "part", "quit", "names", "me_part", "me_kick"} =>
                t[d][q] = told[d][q]
           /\ m.kind # "quit" /\ d # e => t[d][q] = told[d][q]
    <3>1. ToldSo(t, m, v, told)
      BY <1>0, <1>1, ToldFields
    <3> HIDE DEF t
    <3> QED BY <3>1 DEF ToldSo
  <2> HIDE DEF t
  <2> QED BY <1>1, <2>1
<1>11. RolesIn(u.list[c], u.level[c], u.renamed[c], u.ranked[c], v, told[c])
  BY <1>0, <1>5 DEF RolesSo
<1> HIDE DEF w, b, new, t, e
<1>12. \A q \in People : \A k \in Nicks \intersect u.list[c] :
            a.nick[q] = k => v.nick[q] = k /\ t[c][q] = told[c][q]
  <2> SUFFICES ASSUME NEW q \in People, NEW k \in Nicks, k \in u.list[c], a.nick[q] = k
               PROVE  v.nick[q] = k /\ t[c][q] = told[c][q]
    OBVIOUS
  <2>1. k \in InIt(v, c)
    BY <1>9 DEF ListIs
  <2>2. v.nick[q] = k
    BY <1>1, <2>1, MembersStay
  <2> QED BY <1>10, <2>2
<1>13. RolesIn(u.list[c], u.level[c], u.renamed[c], u.ranked[c], a, t[c])
  BY <1>11, <1>12, RolesCarryOver
<1>14. new.renamed[c] = u.renamed[c] /\ new.ranked[c] = u.ranked[c]
  BY <1>1, <1>6, <1>8 DEF SameOurs, e
<1> QED BY <1>5, <1>8, <1>13, <1>14 DEF RolesThen, w, new, t

(* The roster the line is about.                                           *)
LEMMA OwnRosterFits ==
  ASSUME NEW u, NEW m, NEW v, NEW told, NEW o, NEW s, TellsOf(u, m, v, told, o, s),
         m.kind \in {"join", "part", "mode", "names", "me_join"},
         m.channel \in Listed(u, m).listed, m.channel \in m.at.meIn
  PROVE  LET w == Listed(u, m)
             c == m.channel
         IN Publishable(w.list[c], w.level[c], Before(w, m).renamed[c], m.at,
                        ToldAfter(m, v, told)[c])
<1> DEFINE w == Listed(u, m)
           b == Before(w, m)
           a == m.at
           c == m.channel
           n == m.nick
           t == ToldAfter(m, v, told)
<1>0. Situated(u, m, v, o, s) /\ RolesSo(u, v, told)
      /\ told \in [Channels -> [People -> SUBSET Levels]]
  BY DEF TellsOf
<1>1. /\ WorkerOK(u) /\ WorkerOK(w) /\ LineOK(m) /\ Sane(v) /\ Sane(a) /\ Tells(v, m)
      /\ SameOurs(u, w) /\ LevelsSo(u) /\ c \in Channels
  BY <1>0, ListedType, SituatedFacts DEF Situated, RolesSo
<1>2. /\ u.list \in [Channels -> SUBSET Nicks] /\ u.level \in [Channels -> [Nicks -> SUBSET Levels]]
      /\ w.renamed = u.renamed /\ u.listed \subseteq Channels
  BY <1>1 DEF WorkerOK, Workers, SameOurs
<1>3. ToldSo(t, m, v, told)
  BY <1>0, <1>1, ToldFields
<1>4. m.kind # "me_join" => c \in u.listed /\ c \in v.meIn /\ Here(u, m)
  BY <1>1, ListsElsewhere, LineIsLocal DEF Here
<1>5. m.kind # "me_join" =>
         RolesIn(u.list[c], u.level[c], u.renamed[c], u.ranked[c], v, told[c]) /\ ListIs(u, v, m, c)
  BY <1>0, <1>4 DEF RolesSo, Situated
<1>6. /\ m.kind \in {"join", "part", "me_join"} => b.renamed = w.renamed
      /\ m.kind = "mode" => /\ b.renamed[c][n] = NoLevel
                            /\ \A k \in Nicks \ {n} : b.renamed[c][k] = w.renamed[c][k]
      /\ m.kind = "names" => \A k \in Nicks : b.renamed[c][k] = NoLevel
  BY <1>1, RolesBefore
<1>7. \A k \in Nicks, q \in People :
         k \in InIt(v, c) /\ a.nick[q] = k /\ m.kind \notin {"quit", "nick"} => v.nick[q] = k
  BY <1>1, MembersStay
<1>8. m.kind = "join" => Becomes(u, w, u.listed, [u.list EXCEPT ![c] = @ \union {n}], u.level)
  BY <1>1, <1>4, ListedFields
<1>9. m.kind = "part" => Becomes(u, w, u.listed, [u.list EXCEPT ![c] = @ \ {n}],
                                 [u.level EXCEPT ![c] = [@ EXCEPT ![n] = {}]])
  BY <1>1, <1>4, ListedFields
<1> DEFINE row == [u.level[c] EXCEPT ![n] = IF m.grant THEN @ \union {m.level} ELSE @ \ {m.level}]
<1>10. m.kind = "mode" => Becomes(u, w, u.listed, u.list,
                             IF n \in u.list[c] THEN [u.level EXCEPT ![c] = row] ELSE u.level)
  BY <1>1, <1>4, ListedFields
<1>11. m.kind = "names" =>
          Becomes(u, w, u.listed, [u.list EXCEPT ![c] = {k \in Nicks : m.names[k] >= 0}],
                  [u.level EXCEPT ![c] = [k \in Nicks |-> {m.names[k]} \ {-1, NoLevel}]])
  BY <1>1, <1>4, ListedFields
<1>12. m.kind = "me_join" =>
          Becomes(u, w, u.listed \union {c}, [u.list EXCEPT ![c] = {}], [u.level EXCEPT ![c] = NoLevels])
  BY <1>1, ListedFields
<1>13. m.kind \in {"part", "mode"} => n \in Nicks
  BY <1>1 DEF LineOK, AboutNick
<1>14. m.kind = "mode" => \E p \in People : v.nick[p] = n /\ a.nick[p] = n
  <2> SUFFICES ASSUME m.kind = "mode" PROVE \E p \in People : v.nick[p] = n /\ a.nick[p] = n
    OBVIOUS
  <2>1. AllStill(v, a) /\ \E p \in People : c \in v.in[p] /\ v.nick[p] = n
    BY <1>1, TellsIs
  <2> QED BY <2>1 DEF AllStill, Still
<1>15. NoNick \notin Nicks
  BY FixedValues
<1> SUFFICES ASSUME NEW k \in Nicks, NEW q \in People, k \in w.list[c], a.nick[q] = k
             PROVE  w.level[c][k] \subseteq t[c][q] /\ b.renamed[c][k] \in {NoLevel} \union t[c][q]
  BY DEF Publishable
<1>16. k # NoNick
  BY <1>15
<1> HIDE DEF w, b, a, t, n
<1>17. CASE m.kind = "join"
  <2>1. w.level = u.level /\ w.list[c] = u.list[c] \union {n} /\ b.renamed = u.renamed
    BY <1>1, <1>2, <1>6, <1>8, <1>17 DEF Becomes
  <2>2. t[c][q] = told[c][q]
    BY <1>1, <1>3, <1>17 DEF ToldSo
  <2>3. RolesIn(u.list[c], u.level[c], u.renamed[c], u.ranked[c], v, told[c]) /\ ListIs(u, v, m, c)
    BY <1>5, <1>17
  <2>4. CASE k \in u.list[c]
    <3>1. v.nick[q] = k
      BY <1>7, <1>17, <2>3, <2>4 DEF ListIs
    <3> QED BY <2>1, <2>2, <2>3, <2>4, <3>1 DEF RolesIn
  <2>5. CASE k \notin u.list[c]
    <3>1. u.level[c][k] = {} /\ u.renamed[c][k] = NoLevel
      BY <1>1, <2>3, <2>5 DEF LevelsSo, RolesIn
    <3> QED BY <2>1, <3>1
  <2> QED BY <2>4, <2>5
<1>18. CASE m.kind = "part"
  <2>1. w.list[c] = u.list[c] \ {n} /\ b.renamed = u.renamed
    BY <1>1, <1>2, <1>6, <1>9, <1>18 DEF Becomes
  <2>2. w.level[c] = [u.level[c] EXCEPT ![n] = {}]
    BY <1>1, <1>2, <1>9, <1>18 DEF Becomes
  <2>3. w.level[c][k] = u.level[c][k] /\ k # n /\ k \in u.list[c]
    BY <1>1, <1>2, <2>1, <2>2
  <2>4. RolesIn(u.list[c], u.level[c], u.renamed[c], u.ranked[c], v, told[c]) /\ ListIs(u, v, m, c)
    BY <1>5, <1>18
  <2>5. v.nick[q] = k
    BY <1>7, <1>18, <2>3, <2>4 DEF ListIs
  <2>6. t[c][q] = told[c][q]
    BY <1>1, <1>3, <1>18, <2>3, <2>5 DEF ToldSo, n
  <2> QED BY <2>1, <2>3, <2>4, <2>5, <2>6 DEF RolesIn
<1>19. CASE m.kind = "mode"
  <2>1. w.list = u.list
    BY <1>10, <1>19 DEF Becomes
  <2>2. w.level = IF n \in u.list[c] THEN [u.level EXCEPT ![c] = row] ELSE u.level
    BY <1>10, <1>19 DEF Becomes
  <2>3. RolesIn(u.list[c], u.level[c], u.renamed[c], u.ranked[c], v, told[c]) /\ ListIs(u, v, m, c)
    BY <1>5, <1>19
  <2>4. v.nick[q] = k /\ k \in u.list[c]
    BY <1>7, <1>19, <2>1, <2>3 DEF ListIs
  <2>5. u.level[c][k] \subseteq told[c][q] /\ u.renamed[c][k] \in {NoLevel} \union told[c][q]
    BY <2>3, <2>4 DEF RolesIn
  <2> DEFINE p == Holder(a, n)
  <2>6. p \in People /\ a.nick[p] = n
    BY <1>13, <1>14, <1>19, HolderIs
  <2>7. /\ \A j \in People \ {p} : t[c][j] = told[c][j]
        /\ p \in People => t[c][p] = IF m.grant THEN told[c][p] \union {m.level}
                                     ELSE told[c][p] \ {m.level}
    BY <1>3, <1>19 DEF ToldSo, a, n
  <2> HIDE DEF p
  <2>8. CASE k # n
    <3>1. q # p
      BY <2>6, <2>8
    <3>2. t[c][q] = told[c][q]
      BY <2>7, <3>1
    <3>3. w.level[c][k] = u.level[c][k]
      BY <1>1, <1>2, <2>2, <2>8
    <3>4. b.renamed[c][k] = u.renamed[c][k]
      BY <1>2, <1>6, <1>19, <2>8
    <3> QED BY <2>5, <3>2, <3>3, <3>4
  <2>9. CASE k = n
    <3>1. q = p
      BY <1>1, <1>16, <2>6, <2>9 DEF Sane
    <3>2. t[c][q] = IF m.grant THEN told[c][q] \union {m.level} ELSE told[c][q] \ {m.level}
      BY <2>7, <3>1
    <3>3. w.level[c][k] = IF m.grant THEN u.level[c][k] \union {m.level} ELSE u.level[c][k] \ {m.level}
      BY <1>1, <1>2, <2>2, <2>4, <2>9
    <3>4. b.renamed[c][k] = NoLevel
      BY <1>6, <1>19, <2>9
    <3> QED BY <2>5, <3>2, <3>3, <3>4
  <2> QED BY <2>8, <2>9
<1>20. CASE m.kind = "names"
  <2>1. w.level[c] = [j \in Nicks |-> {m.names[j]} \ {-1, NoLevel}]
    BY <1>1, <1>2, <1>11, <1>20 DEF Becomes
  <2>2. t[c][q] = {m.names[k]} \ {-1, NoLevel}
    BY <1>3, <1>16, <1>20 DEF ToldSo, a
  <2> QED BY <1>6, <1>20, <2>1, <2>2
<1>21. CASE m.kind = "me_join"
  <2>1. w.list[c] = {}
    BY <1>1, <1>2, <1>12, <1>21 DEF Becomes
  <2> QED BY <2>1
<1> QED BY <1>17, <1>18, <1>19, <1>20, <1>21

LEMMA FoundOnRoster ==
  ASSUME NEW x \in P!Indexes, P!Consistent(x), NEW n \in Nicks, NEW c \in Channels
  PROVE  P!InChannel(x, c, n) <=> n \in Keys(x, c)
<1>1. \A i \in x.members[c] : x.key[i] \in Nicks /\ x.byNick[x.key[i]] = i
  BY MembersAreLive
<1>2. P!InChannel(x, c, n) => n \in Keys(x, c)
  <2> SUFFICES ASSUME P!InChannel(x, c, n) PROVE n \in Keys(x, c)
    OBVIOUS
  <2>1. x.byNick[n] \in x.members[c] /\ x.members[c] \subseteq P!Ids
    BY DEF P!InChannel, P!Indexes
  <2>2. x.byNick[n] # P!NoId
    BY <2>1, NumbersAreNumbers, FixedValues
  <2>3. x.key[x.byNick[n]] = n
    BY <2>2, NickFinds
  <2> QED BY <2>1, <2>3 DEF Keys
<1> QED BY <1>1, <1>2 DEF Keys, P!InChannel

(* A QUIT leaves the roles of the others.                                  *)
LEMMA QuitRoles ==
  ASSUME NEW u, NEW m, NEW v, NEW told, NEW o, NEW s, TellsOf(u, m, v, told, o, s),
         m.kind = "quit",
         NEW c, c \in Listed(u, m).listed, c \in m.at.meIn
  PROVE  RolesThen(Listed(u, m), m, v, told, c)
<1> DEFINE w == Listed(u, m)
           b == Before(w, m)
           new == Published(w, m)
           a == m.at
           n == m.nick
           t == ToldAfter(m, v, told)
<1>0. Situated(u, m, v, o, s) /\ RolesSo(u, v, told)
      /\ told \in [Channels -> [People -> SUBSET Levels]]
  BY DEF TellsOf
<1>1. /\ WorkerOK(u) /\ WorkerOK(w) /\ LineOK(m) /\ Sane(v) /\ Sane(a) /\ Tells(v, m)
      /\ SameOurs(u, w) /\ LevelsSo(u) /\ c \in Channels
  BY <1>0, ListedType, SituatedFacts DEF Situated, RolesSo
<1>2. /\ u.index \in P!Indexes /\ P!Consistent(u.index) /\ w.index = u.index
      /\ u.level \in [Channels -> [Nicks -> SUBSET Levels]]
      /\ u.list \in [Channels -> SUBSET Nicks]
  BY <1>0, <1>1, SituatedFacts DEF WorkerOK, Workers
<1>3. ToldSo(t, m, v, told)
  BY <1>0, <1>1, ToldFields
<1>4. n \in Nicks
  BY <1>1 DEF LineOK, AboutNick
<1>5. Becomes(u, w, u.listed, [d \in Channels |-> u.list[d] \ {n}],
                [d \in Channels |-> [u.level[d] EXCEPT ![n] = {}]])
  BY <1>1, ListedFields
<1>6. a.meIn = v.meIn
  BY <1>1, TellsIs
<1>7. b.renamed = w.renamed /\ b.ranked = w.ranked
  BY <1>1, RolesBefore
<1>8. Changed(w, m) = {d \in w.listed : P!InChannel(w.index, d, n)}
  BY ChangedIs
<1>9. \A k \in Nicks, q \in People : k \in InIt(v, c) /\ a.nick[q] = k /\ k # n => v.nick[q] = k
  BY <1>1, MembersStay
<1>10. c \notin Changed(w, m) =>
         /\ new.list[c] = w.list[c] /\ new.level[c] = w.level[c]
         /\ new.renamed[c] = b.renamed[c] /\ new.ranked[c] = b.ranked[c]
  BY <1>1, OtherRoles
<1>11. c \in Changed(w, m) /\ Publishable(w.list[c], w.level[c], b.renamed[c], a, t[c]) =>
         RolesThen(w, m, v, told, c)
  BY <1>1, PublishedRoles DEF RolesThen
<1>12. RolesThen(w, m, v, told, c) <=>
         RolesIn(new.list[c], new.level[c], new.renamed[c], new.ranked[c], a, t[c])
  BY DEF RolesThen
<1> HIDE DEF w, b, new, t, a, n
<1>13. /\ c \in u.listed /\ c \in v.meIn /\ w.list[c] = u.list[c] \ {n}
       /\ \A k \in Nicks \ {n} : w.level[c][k] = u.level[c][k]
       /\ b.renamed = u.renamed /\ b.ranked = u.ranked
  BY <1>1, <1>2, <1>4, <1>5, <1>6, <1>7 DEF Becomes, SameOurs, w, a
<1>14. RolesIn(u.list[c], u.level[c], u.renamed[c], u.ranked[c], v, told[c])
       /\ u.list[c] = InIt(v, c) /\ Keys(u.index, c) = u.list[c]
  BY <1>0, <1>13 DEF RolesSo, Situated, ListIs
<1>15. ASSUME NEW k \in Nicks, NEW q \in People, k \in u.list[c], k # n, a.nick[q] = k
       PROVE  v.nick[q] = k /\ t[c][q] = told[c][q]
  <2>1. v.nick[q] = k
    BY <1>9, <1>14, <1>15
  <2>2. \A d \in Channels, j \in People :
            m.kind \in {"part", "quit"} /\ v.nick[j] # m.nick => t[d][j] = told[d][j]
    BY <1>3 DEF ToldSo
  <2> QED BY <1>1, <1>15, <2>1, <2>2 DEF n
<1>16. CASE c \in Changed(w, m)
  <2>1. Publishable(w.list[c], w.level[c], b.renamed[c], a, t[c])
    <3> SUFFICES ASSUME NEW k \in Nicks, NEW q \in People, k \in w.list[c], a.nick[q] = k
                 PROVE  w.level[c][k] \subseteq t[c][q] /\ b.renamed[c][k] \in {NoLevel} \union t[c][q]
      BY DEF Publishable
    <3>1. k \in u.list[c] /\ k # n
      BY <1>13
    <3>2. v.nick[q] = k /\ t[c][q] = told[c][q]
      BY <1>15, <3>1
    <3>3. u.level[c][k] \subseteq told[c][q] /\ u.renamed[c][k] \in {NoLevel} \union told[c][q]
      BY <1>14, <3>1, <3>2 DEF RolesIn
    <3> QED BY <1>13, <3>1, <3>2, <3>3
  <2> QED BY <1>11, <1>16, <2>1 DEF w
<1>17. CASE c \notin Changed(w, m)
  <2>1. n \notin u.list[c]
    <3>1. ~P!InChannel(u.index, c, n)
      BY <1>2, <1>8, <1>17 DEF w
    <3> QED BY <1>1, <1>2, <1>4, <1>14, <3>1, FoundOnRoster
  <2>2. RolesIn(u.list[c], u.level[c], u.renamed[c], u.ranked[c], a, t[c])
    <3>1. \A q \in People : \A k \in Nicks \intersect u.list[c] :
            a.nick[q] = k => v.nick[q] = k /\ t[c][q] = told[c][q]
      BY <1>15, <2>1
    <3> QED BY <1>14, <3>1, RolesCarryOver
  <2>3. RolesIn(u.list[c], w.level[c], u.renamed[c], u.ranked[c], a, t[c])
    BY <1>13, <2>1, <2>2 DEF RolesIn
  <2>4. w.list[c] = u.list[c]
    BY <1>13, <2>1
  <2> QED BY <1>10, <1>12, <1>13, <1>17, <2>3, <2>4 DEF w
<1> QED BY <1>16, <1>17

(* A NICK carries the role to the new nickname.                            *)
LEMMA RenameRolesFollow ==
  ASSUME NEW u, NEW m, NEW v, NEW told, NEW o, NEW s, TellsOf(u, m, v, told, o, s),
         m.kind = "nick",
         NEW c, c \in Listed(u, m).listed, c \in m.at.meIn
  PROVE  RolesThen(Listed(u, m), m, v, told, c)
<1> DEFINE w == Listed(u, m)
           b == Before(w, m)
           new == Published(w, m)
           a == m.at
           n == m.nick
           to == m.to
           t == ToldAfter(m, v, told)
<1>0. Situated(u, m, v, o, s) /\ RolesSo(u, v, told)
      /\ told \in [Channels -> [People -> SUBSET Levels]]
  BY DEF TellsOf
<1>1. /\ WorkerOK(u) /\ WorkerOK(w) /\ LineOK(m) /\ Sane(v) /\ Sane(a) /\ Tells(v, m)
      /\ SameOurs(u, w) /\ LevelsSo(u) /\ c \in Channels
  BY <1>0, ListedType, SituatedFacts DEF Situated, RolesSo
<1>2. /\ u.index \in P!Indexes /\ P!Consistent(u.index) /\ w.index = u.index
      /\ u.level \in [Channels -> [Nicks -> SUBSET Levels]]
      /\ u.list \in [Channels -> SUBSET Nicks] /\ w \in Workers
  BY <1>0, <1>1, SituatedFacts DEF WorkerOK, Workers
<1>3. \A d \in Channels, q \in People : t[d][q] = told[d][q]
  <2>1. ToldSo(t, m, v, told)
    BY <1>0, <1>1, ToldFields
  <2> HIDE DEF t
  <2> QED BY <2>1 DEF ToldSo
<1>4. n \in Nicks /\ to \in Nicks /\ NoNick \notin Nicks
  BY <1>1, FixedValues DEF LineOK, AboutNick
<1>5. Becomes(u, w, u.listed,
              [d \in Channels |-> IF n \notin u.list[d] THEN u.list[d]
                                  ELSE (u.list[d] \ {n}) \union {to}],
              [d \in Channels |-> IF n \notin u.list[d] THEN u.level[d]
                                  ELSE [u.level[d] EXCEPT ![n] = {}, ![to] = {}]])
  BY <1>1, ListedFields
<1>6. a.meIn = v.meIn
      /\ \E p \in People : v.nick[p] = n /\ a.nick[p] = to /\ to # n
  BY <1>1, TellsIs
<1>7. b.renamed = Carried(w, n, to) /\ b.ranked = w.ranked
  BY <1>1, RolesBefore
<1>8. Changed(w, m) = {d \in w.listed : P!InChannel(w.index, d, n)}
  BY ChangedIs
<1>9. \A k \in Nicks, q \in People : k \in InIt(v, c) /\ a.nick[q] = k /\ k # n => v.nick[q] = k
  BY <1>1, MembersStay
<1>10. c \notin Changed(w, m) =>
         /\ new.list[c] = w.list[c] /\ new.level[c] = w.level[c]
         /\ new.renamed[c] = b.renamed[c] /\ new.ranked[c] = b.ranked[c]
  BY <1>1, OtherRoles
<1>11. c \in Changed(w, m) /\ Publishable(w.list[c], w.level[c], b.renamed[c], a, t[c]) =>
         RolesThen(w, m, v, told, c)
  BY <1>1, PublishedRoles DEF RolesThen
<1>12. RolesThen(w, m, v, told, c) <=>
         RolesIn(new.list[c], new.level[c], new.renamed[c], new.ranked[c], a, t[c])
  BY DEF RolesThen
<1> DEFINE role == IF w.renamed[c][n] # NoLevel THEN w.renamed[c][n] ELSE w.ranked[c][n]
<1>13. \A k \in Nicks : b.renamed[c][k] = IF k = to /\ role # NoLevel THEN role
                                          ELSE IF k = n THEN NoLevel ELSE w.renamed[c][k]
  BY <1>1, <1>2, <1>4, <1>7, CarriedType
<1>14. w.renamed = u.renamed /\ w.ranked = u.ranked
  BY <1>1 DEF SameOurs
<1>15. PICK p \in People : v.nick[p] = n /\ a.nick[p] = to /\ to # n
  BY <1>6
<1> HIDE DEF w, b, new, t, a, n, to
<1>16. /\ c \in u.listed /\ c \in v.meIn
       /\ w.list[c] = IF n \notin u.list[c] THEN u.list[c] ELSE (u.list[c] \ {n}) \union {to}
       /\ w.level[c] = IF n \notin u.list[c] THEN u.level[c]
                       ELSE [u.level[c] EXCEPT ![n] = {}, ![to] = {}]
  BY <1>1, <1>5, <1>6 DEF Becomes, w, a
<1>17. RolesIn(u.list[c], u.level[c], u.renamed[c], u.ranked[c], v, told[c])
       /\ u.list[c] = InIt(v, c) /\ Keys(u.index, c) = u.list[c]
  BY <1>0, <1>16 DEF RolesSo, Situated, ListIs
<1>18. to \notin u.list[c]
  BY <1>4, <1>9, <1>15, <1>17
<1>19. ASSUME NEW k \in Nicks, NEW q \in People, k \in u.list[c], k # n, a.nick[q] = k
       PROVE  v.nick[q] = k
  BY <1>9, <1>17, <1>19
<1>20. CASE n \in u.list[c]
  <2>1. c \in Changed(w, m)
    <3>1. P!InChannel(u.index, c, n)
      BY <1>1, <1>2, <1>4, <1>17, <1>20, FoundOnRoster
    <3>2. c \in w.listed
      BY DEF w
    <3> QED BY <1>2, <1>8, <3>1, <3>2
  <2>2. role \in {NoLevel} \union told[c][p]
    <3>1. u.renamed[c][n] \in {NoLevel} \union told[c][p] /\ u.ranked[c][n] \in {NoLevel} \union told[c][p]
      BY <1>4, <1>15, <1>17, <1>20 DEF RolesIn
    <3> QED BY <1>14, <3>1
  <2>3. Publishable(w.list[c], w.level[c], b.renamed[c], a, t[c])
    <3> HIDE DEF role
    <3> SUFFICES ASSUME NEW k \in Nicks, NEW q \in People, k \in w.list[c], a.nick[q] = k
                 PROVE  w.level[c][k] \subseteq t[c][q] /\ b.renamed[c][k] \in {NoLevel} \union t[c][q]
      BY DEF Publishable
    <3>1. CASE k = to
      <4>1. q = p
        BY <1>1, <1>4, <1>15, <3>1 DEF Sane, a
      <4>2. w.level[c][k] = {}
        BY <1>1, <1>2, <1>4, <1>16, <1>20, <3>1
      <4>3. u.renamed[c][to] = NoLevel
        BY <1>4, <1>17, <1>18 DEF RolesIn
      <4>4. b.renamed[c][k] \in {role, NoLevel}
        BY <1>13, <1>14, <1>15, <3>1, <4>3
      <4> QED BY <1>1, <1>3, <2>2, <4>1, <4>2, <4>4
    <3>2. CASE k # to
      <4>1. k \in u.list[c] /\ k # n
        BY <1>16, <1>20, <3>2
      <4>2. v.nick[q] = k
        BY <1>19, <4>1
      <4>3. u.level[c][k] \subseteq told[c][q] /\ u.renamed[c][k] \in {NoLevel} \union told[c][q]
        BY <1>17, <4>1, <4>2 DEF RolesIn
      <4>4. w.level[c][k] = u.level[c][k]
        BY <1>1, <1>2, <1>16, <1>20, <3>2, <4>1
      <4>5. b.renamed[c][k] = u.renamed[c][k]
        BY <1>13, <1>14, <3>2, <4>1
      <4> QED BY <1>1, <1>3, <4>3, <4>4, <4>5
    <3> QED BY <3>1, <3>2
  <2> QED BY <1>11, <2>1, <2>3 DEF w
<1>21. CASE n \notin u.list[c]
  <2>1. c \notin Changed(w, m)
    <3>1. ~P!InChannel(u.index, c, n)
      BY <1>1, <1>2, <1>4, <1>17, <1>21, FoundOnRoster
    <3> QED BY <1>2, <1>8, <3>1
  <2>2. u.renamed[c][n] = NoLevel /\ u.ranked[c][n] = NoLevel
    BY <1>4, <1>17, <1>21 DEF RolesIn
  <2>3. \A k \in Nicks : b.renamed[c][k] = u.renamed[c][k]
    BY <1>13, <1>14, <2>2
  <2>4. RolesIn(u.list[c], u.level[c], u.renamed[c], u.ranked[c], a, t[c])
    <3>1. \A q \in People : \A k \in Nicks \intersect u.list[c] :
            a.nick[q] = k => v.nick[q] = k /\ t[c][q] = told[c][q]
      BY <1>1, <1>3, <1>19, <1>21
    <3> QED BY <1>17, <3>1, RolesCarryOver
  <2>5. RolesIn(u.list[c], u.level[c], b.renamed[c], u.ranked[c], a, t[c])
    BY <2>3, <2>4 DEF RolesIn
  <2> QED BY <1>7, <1>10, <1>12, <1>14, <1>16, <1>21, <2>1, <2>5 DEF w
<1> QED BY <1>20, <1>21

(* After a line every roster that is followed has the roles of its people. *)
LEMMA LineRoles ==
  ASSUME NEW u, NEW m, NEW v, NEW told, NEW o, NEW s, TellsOf(u, m, v, told, o, s)
  PROVE  LET new == Published(Listed(u, m), m)
         IN /\ LevelsSo(new)
            /\ \A c \in new.listed \intersect m.at.meIn : RolesThen(Listed(u, m), m, v, told, c)
<1> DEFINE w == Listed(u, m)
           new == Published(w, m)
           e == m.channel
<1>1. Situated(u, m, v, o, s) /\ RolesSo(u, v, told)
  BY DEF TellsOf
<1>2. /\ WorkerOK(u) /\ WorkerOK(w) /\ LineOK(m) /\ Tells(v, m) /\ LevelsSo(u)
  BY <1>1, ListedType DEF Situated, RolesSo
<1>3. SameLists(w, new)
  BY <1>2, PublishedType
<1>4. LevelsSo(w)
  BY <1>2, LevelsAfter
<1>5. m.kind \in AboutChannel \union AboutNick
  BY <1>2 DEF LineOK, Lines
<1>6. m.kind \in {"me_part", "me_kick"} => e \notin m.at.meIn
  BY TellsIs, <1>2
<1>7. m.kind \in {"join", "part", "mode", "names", "me_join"} => Changed(w, m) = {e}
  BY ChangedIs
<1>8. m.kind \in {"join", "part", "mode", "names", "me_join"} /\ e \in w.listed /\ e \in m.at.meIn =>
         Publishable(w.list[e], w.level[e], Before(w, m).renamed[e], m.at, ToldAfter(m, v, told)[e])
  BY OwnRosterFits
<1> HIDE DEF w, new
<1>9. ASSUME NEW c \in w.listed \intersect m.at.meIn
      PROVE  RolesThen(w, m, v, told, c)
  <2>1. CASE m.kind = "quit"
    BY <1>9, <2>1, QuitRoles DEF w
  <2>2. CASE m.kind = "nick"
    BY <1>9, <2>2, RenameRolesFollow DEF w
  <2>3. CASE m.kind \notin {"quit", "nick"} /\ (c # e \/ m.kind \in {"who", "whoend", "account"})
    BY <1>9, <2>3, OtherRolesStay DEF w, e
  <2>4. CASE m.kind \in {"join", "part", "mode", "names", "me_join"} /\ c = e
    BY <1>2, <1>7, <1>8, <1>9, <2>4, PublishedRoles DEF RolesThen
  <2>5. CASE m.kind \in {"me_part", "me_kick"} /\ c = e
    BY <1>6, <1>9, <2>5
  <2> QED BY <1>5, <2>1, <2>2, <2>3, <2>4, <2>5 DEF AboutChannel, AboutNick
<1>10. LevelsSo(new)
  BY <1>3, <1>4 DEF LevelsSo, SameLists
<1>11. new.listed = w.listed
  BY <1>3 DEF SameLists
<1> QED BY <1>9, <1>10, <1>11 DEF w, new

RolesTrue == RolesSo(worker, ghost.seen, ghost.told)

LEMMA DeliverRoles ==
  ASSUME Rightly, RolesTrue, NEW expired \in BOOLEAN, Deliver(expired)
  PROVE  RolesTrue'
<1> DEFINE m == Head(link)
           w == Listed(worker, m)
           new == Published(w, m)
           v == ghost.seen
           told == ghost.told
<1>1. /\ link # <<>> /\ SameLists(w, worker') /\ WorkerOK(w) /\ LineOK(m)
      /\ worker'.index = new.index /\ worker'.ranked = new.ranked
      /\ worker'.renamed = new.renamed /\ ghost' = Remembered(w, new, m)
  BY DeliverIs DEF Rightly
<1>2. Situated(worker, m, v, ghost.owner, ghost.strayed)
  BY <1>1, SituationIs DEF Rightly
<1>3. TellsOf(worker, m, v, told, ghost.owner, ghost.strayed)
  BY <1>2 DEF TellsOf, RolesTrue, Rightly, Typed
<1>4. /\ LevelsSo(new)
      /\ \A c \in new.listed \intersect m.at.meIn : RolesThen(w, m, v, told, c)
  BY <1>3, LineRoles
<1>5. SameLists(w, new)
  BY <1>1, PublishedType
<1>6. ghost'.seen = m.at /\ ghost'.told = ToldAfter(m, v, told)
  <2> HIDE DEF m, w, new
  <2> QED BY <1>1 DEF Remembered, ToldAfter
<1>7. \A c \in new.listed \intersect m.at.meIn :
         RolesIn(new.list[c], new.level[c], new.renamed[c], new.ranked[c], m.at, ToldAfter(m, v, told)[c])
  BY <1>4 DEF RolesThen
<1> HIDE DEF m, w, new, v, told
<1>8. /\ worker'.listed = new.listed /\ worker'.list = new.list /\ worker'.level = new.level
  BY <1>1, <1>5 DEF SameLists
<1>9. LevelsSo(worker')
  BY <1>4, <1>8 DEF LevelsSo
<1>10. RolesSo(worker', ghost'.seen, ghost'.told)
  BY <1>1, <1>6, <1>7, <1>8, <1>9 DEF RolesSo
<1> QED BY <1>10 DEF RolesTrue

(* Every step keeps the roles those the lines have told.                   *)
LEMMA RolesStep ==
  ASSUME Rightly, RolesTrue, [Next]_vars
  PROVE  RolesTrue'
<1>1. CASE Quiet
  BY <1>1 DEF Quiet, RolesTrue
<1>2. ASSUME NEW c \in Channels, WePart(c)
      PROVE  RolesTrue'
  <2>1. /\ SameOurs(worker, worker') /\ worker'.listed = worker.listed \ {c}
        /\ worker'.list = [worker.list EXCEPT ![c] = {}]
        /\ worker'.level = [worker.level EXCEPT ![c] = NoLevels]
        /\ ghost' = ghost
    BY <1>2, WePartFields DEF Rightly
  <2>2. /\ worker.list \in [Channels -> SUBSET Nicks] /\ worker.listed \subseteq Channels
        /\ worker.level \in [Channels -> [Nicks -> SUBSET Levels]]
    BY DEF Rightly, Typed, WorkerOK, Workers
  <2>3. /\ \A d \in Channels : d # c => worker'.list[d] = worker.list[d] /\ worker'.level[d] = worker.level[d]
        /\ worker'.level[c] = NoLevels
    BY <2>1, <2>2
  <2>4. \A n \in Nicks : NoLevels[n] = {}
    BY DEF NoLevels
  <2>5. LevelsSo(worker) /\ \A d \in worker.listed \intersect ghost.seen.meIn :
          RolesIn(worker.list[d], worker.level[d], worker.renamed[d], worker.ranked[d],
                  ghost.seen, ghost.told[d])
    BY DEF RolesTrue, RolesSo
  <2>6. LevelsSo(worker')
    BY <2>3, <2>4, <2>5 DEF LevelsSo
  <2>7. ASSUME NEW d \in worker'.listed \intersect ghost'.seen.meIn
        PROVE  RolesIn(worker'.list[d], worker'.level[d], worker'.renamed[d], worker'.ranked[d],
                       ghost'.seen, ghost'.told[d])
    <3>1. d # c /\ d \in Channels /\ d \in worker.listed \intersect ghost.seen.meIn
      BY <2>1, <2>2, <2>7
    <3>2. /\ worker'.list[d] = worker.list[d] /\ worker'.level[d] = worker.level[d]
          /\ worker'.renamed = worker.renamed /\ worker'.ranked = worker.ranked
      BY <2>1, <2>3, <3>1 DEF SameOurs
    <3> QED BY <2>1, <2>5, <3>1, <3>2
  <2>8. RolesSo(worker', ghost'.seen, ghost'.told)
    BY <2>6, <2>7 DEF RolesSo
  <2> QED BY <2>8 DEF RolesTrue
<1> QED BY <1>1, <1>2, DeliverRoles, StepKinds DEF Rightly

LEMMA RolesStart ==
  ASSUME Init PROVE RolesTrue
BY DEF Init, RolesTrue, RolesSo, LevelsSo

(* Nobody is shown with a role the server has not given to that person in  *)
(* that channel, though a role is carried over a change of nickname and    *)
(* nicknames are taken again.                                              *)
THEOREM RolesAreGiven == Spec => []NoRoleInvented
<1>1. Rightly /\ RolesTrue => NoRoleInvented
  <2> SUFFICES ASSUME Rightly, RolesTrue, NEW c \in Followed, NEW n \in worker.list[c]
               PROVE  worker.ranked[c][n] \in {NoLevel} \union
                         (IF Now(n) = Nobody THEN {} ELSE ghost.told[c][Now(n)])
    BY DEF NoRoleInvented
  <2>1. RolesIn(worker.list[c], worker.level[c], worker.renamed[c], worker.ranked[c],
                ghost.seen, ghost.told[c])
    BY DEF Followed, RolesTrue, RolesSo
  <2>2. n \in Nicks
    BY DEF Followed, Rightly, Typed, WorkerOK, Workers
  <2>3. n \in InIt(ghost.seen, c)
    BY DEF Rightly, PlacedRightly, ListTrue
  <2>4. Now(n) \in People /\ ghost.seen.nick[Now(n)] = n
    BY <2>3, HolderIs DEF InIt, Now
  <2>5. Now(n) # Nobody
    BY <2>4, RostersAssumption
  <2> QED BY <2>1, <2>2, <2>4, <2>5 DEF RolesIn
<1>2. Rightly /\ RolesTrue /\ [Next]_vars => (Rightly /\ RolesTrue)'
  BY RightlyKept, RolesStep
<1>3. Init => Rightly /\ RolesTrue
  BY RightlyStarts, RolesStart
<1> QED BY <1>1, <1>2, <1>3, PTL DEF Spec

(* The events of channel c, and whether the one at index i is the last of  *)
(* the first k; index 0 stands for what is shown.                          *)
EventsOf(e, c) == {i \in 1..Len(e) : e[i].channel = c}

LastBy(e, c, k, i) ==
    /\ i \in EventsOf(e, c) \union {0} /\ i <= k
    /\ \A j \in EventsOf(e, c) : j <= k => j <= i

View(view, e, i) == IF i = 0 THEN view ELSE [nicks |-> e[i].nicks, at |-> e[i].at]

(* From one view of a channel to the next, who stays listed is the same    *)
(* person.                                                                 *)
Passes(nicks, at, next, then) ==
    \A p \in People, n \in nicks \intersect next : at[p] = n => then[p] = n

(* After the view at index i of a channel a blank roster comes, or we are  *)
(* not in it.                                                              *)
Blanks(e, c, i, meIn) ==
    /\ \A j \in EventsOf(e, c) : LastBy(e, c, j - 1, i) => e[j].kind = "names" /\ e[j].nicks = {}
    /\ LastBy(e, c, Len(e), i) => c \notin meIn

Views == {v \in [nicks : SUBSET Nicks, at : [People -> Nicks \union {NoNick}]] :
            \A n \in v.nicks : \E p \in People : v.at[p] = n}

RosterEvents ==
    {e \in [kind : {"names", "parted"}, channel : Open, nicks : SUBSET Nicks,
            at : [People -> Nicks \union {NoNick}]] :
        [nicks |-> e.nicks, at |-> e.at] \in Views /\ (e.kind = "parted" => e.nicks = {})}

(* The views of channel c: what is shown, then the queued rosters.         *)
ViewsSo(c, view, e, u, v) ==
    /\ \A j \in EventsOf(e, c), i \in 0..Len(e) : LastBy(e, c, j - 1, i) =>
          Passes(View(view, e, i).nicks, View(view, e, i).at, e[j].nicks, e[j].at)
    /\ \A i \in EventsOf(e, c) : e[i].kind = "parted" => Blanks(e, c, i, v.meIn)
    /\ c \in u.listed \intersect v.meIn => \A i \in 0..Len(e) : LastBy(e, c, Len(e), i) =>
          /\ View(view, e, i).nicks = u.list[c]
          /\ Passes(View(view, e, i).nicks, View(view, e, i).at, u.list[c], v.nick)

(* Whoever was chosen still holds the nickname in a view, or is dropped by *)
(* the next.                                                               *)
ChoiceSo(choice, view, blank) ==
    /\ choice.channel \in Open /\ choice.nick \in Nicks /\ choice.person \in People
    /\ IF choice.nick \in view.nicks THEN view.at[choice.person] = choice.nick ELSE blank

WindowSo ==
    /\ events \in Seq(RosterEvents)
    /\ shown \in [Channels -> Views] /\ \A c \in Channels \ Open : shown[c].nicks = {}
    /\ \A c \in Open : ViewsSo(c, shown[c], events, worker, ghost.seen)
    /\ chosen # NobodyChosen =>
          LET c == chosen.channel
          IN ChoiceSo(chosen, shown[c], Blanks(events, c, 0, ghost.seen.meIn))

(* Every element of the set is in the sequence.                            *)
LEMMA SequenceHasAll ==
  ASSUME NEW S, IsFiniteSet(S), NEW x \in S
  PROVE  \E i \in 1..Cardinality(S) : SetToSeq(S)[i] = x
<1> DEFINE T == 1..Cardinality(S)
           f == SetToSeq(S)
<1>1. Cardinality(S) \in Nat /\ f \in [T -> S] /\ IsInjective(f)
  BY SequenceOfSet
<1>2. Cardinality(T) = Cardinality(S)
  BY <1>1, FS_Interval
<1> HIDE DEF T, f
<1>3. f \in Injection(T, S)
  BY <1>1 DEF Injection
<1>4. f \in Surjection(T, S)
  BY <1>2, <1>3, FS_Injection
<1>5. \E i \in T : f[i] = x
  BY <1>4 DEF Surjection
<1> QED BY <1>5 DEF T, f

LEMMA LastExists ==
  ASSUME NEW X, NEW e \in Seq(X), NEW c, NEW k \in 0..Len(e)
  PROVE  \E i \in 0..k : LastBy(e, c, k, i)
<1> DEFINE I == {h \in 0..Len(e) : \E i \in 0..h : LastBy(e, c, h, i)}
<1>1. Len(e) \in Nat
  OBVIOUS
<1>2. 0 \in I
  <2>1. LastBy(e, c, 0, 0)
    BY DEF LastBy, EventsOf
  <2> QED BY <1>1, <2>1
<1>3. ASSUME NEW h \in 1..Len(e), h - 1 \in I PROVE h \in I
  <2>1. PICK i \in 0..(h - 1) : LastBy(e, c, h - 1, i)
    BY <1>3
  <2>2. CASE h \in EventsOf(e, c)
    <3>1. LastBy(e, c, h, h)
      BY <1>1, <1>3, <2>2 DEF LastBy
    <3> QED BY <1>3, <3>1
  <2>3. CASE h \notin EventsOf(e, c)
    <3>1. LastBy(e, c, h, i)
      <4>1. ASSUME NEW j \in EventsOf(e, c), j <= h PROVE j <= i
        <5>1. j \in 1..Len(e) /\ j # h
          BY <2>3, <4>1 DEF EventsOf
        <5>2. j <= h - 1
          BY <1>3, <4>1, <5>1
        <5> QED BY <2>1, <5>2 DEF LastBy
      <4> QED BY <1>3, <2>1, <4>1 DEF LastBy
    <3> QED BY <1>3, <2>1, <3>1
  <2> QED BY <2>2, <2>3
<1>4. \A h \in 0..Len(e) : h \in I
  <2> HIDE DEF I
  <2> QED BY <1>1, <1>2, <1>3, CountUp
<1> QED BY <1>4

LEMMA LastUnique ==
  ASSUME NEW e, NEW c, NEW k, NEW i, NEW j, LastBy(e, c, k, i), LastBy(e, c, k, j)
  PROVE  i = j
<1>1. i \in Nat /\ j \in Nat
  BY DEF LastBy, EventsOf
<1> QED BY <1>1 DEF LastBy

(* Events that come behind the others.                                     *)
LEMMA Appended ==
  ASSUME NEW X, NEW e \in Seq(X), NEW t \in Seq(X), NEW c
  PROVE  LET d == e \o t
             N == Len(e)
         IN /\ d \in Seq(X) /\ Len(d) = N + Len(t) /\ N \in Nat /\ Len(t) \in Nat
            /\ \A i \in 1..N : d[i] = e[i]
            /\ \A j \in 1..Len(t) : d[N + j] = t[j]
            /\ EventsOf(d, c) = EventsOf(e, c) \union {N + j : j \in EventsOf(t, c)}
            /\ \A i : \A k \in 0..N : LastBy(d, c, k, i) <=> LastBy(e, c, k, i)
<1> DEFINE d == e \o t
           N == Len(e)
<1>1. /\ d \in Seq(X) /\ Len(d) = N + Len(t) /\ N \in Nat /\ Len(t) \in Nat
      /\ \A i \in 1..N : d[i] = e[i]
      /\ \A j \in 1..Len(t) : d[N + j] = t[j]
  OBVIOUS
<1> HIDE DEF d, N
<1>2. EventsOf(d, c) = EventsOf(e, c) \union {N + j : j \in EventsOf(t, c)}
  <2>1. ASSUME NEW i \in EventsOf(d, c) PROVE i \in EventsOf(e, c) \union {N + j : j \in EventsOf(t, c)}
    <3>1. i \in 1..(N + Len(t)) /\ d[i].channel = c
      BY <1>1, <2>1 DEF EventsOf
    <3>2. CASE i <= N
      BY <1>1, <3>1, <3>2 DEF EventsOf, N
    <3>3. CASE i > N
      <4>1. i - N \in 1..Len(t) /\ i = N + (i - N)
        BY <1>1, <3>1, <3>3
      <4>2. i - N \in EventsOf(t, c)
        BY <1>1, <3>1, <4>1 DEF EventsOf
      <4> QED BY <4>1, <4>2
    <3> QED BY <1>1, <3>1, <3>2, <3>3
  <2>2. ASSUME NEW i \in EventsOf(e, c) PROVE i \in EventsOf(d, c)
    BY <1>1, <2>2 DEF EventsOf, N
  <2>3. ASSUME NEW j \in EventsOf(t, c) PROVE N + j \in EventsOf(d, c)
    BY <1>1, <2>3 DEF EventsOf
  <2> QED BY <2>1, <2>2, <2>3
<1>3. ASSUME NEW k \in 0..N, NEW i PROVE LastBy(d, c, k, i) <=> LastBy(e, c, k, i)
  <2>1. \A j : j \in EventsOf(d, c) /\ j <= k <=> j \in EventsOf(e, c) /\ j <= k
    <3>1. \A j \in EventsOf(t, c) : ~(N + j <= k)
      BY <1>1 DEF EventsOf
    <3> QED BY <1>2, <3>1
  <2> QED BY <2>1 DEF LastBy
<1> QED BY <1>1, <1>2, <1>3 DEF d, N

(* None of them about channel c; or one.                                   *)
NoneOf(t, c) == EventsOf(t, c) = {}
OneOf(t, c, a) == EventsOf(t, c) = {a}

LEMMA AppendedNone ==
  ASSUME NEW X, NEW e \in Seq(X), NEW t \in Seq(X), NEW c, NoneOf(t, c)
  PROVE  LET d == e \o t
         IN /\ EventsOf(d, c) = EventsOf(e, c)
            /\ \A i : LastBy(d, c, Len(d), i) <=> LastBy(e, c, Len(e), i)
<1> DEFINE d == e \o t
<1>1. /\ Len(d) = Len(e) + Len(t) /\ Len(e) \in Nat /\ Len(t) \in Nat
      /\ EventsOf(d, c) = EventsOf(e, c)
  <2>1. EventsOf(d, c) = EventsOf(e, c) \union {Len(e) + j : j \in EventsOf(t, c)}
    BY Appended
  <2> HIDE DEF d
  <2>2. EventsOf(d, c) = EventsOf(e, c)
    BY <2>1 DEF NoneOf
  <2> QED BY <2>2 DEF d
<1> HIDE DEF d
<1>2. \A i \in EventsOf(e, c) : i \in Nat /\ i <= Len(e) /\ i <= Len(d)
  BY <1>1 DEF EventsOf
<1>3. \A i : LastBy(d, c, Len(d), i) <=> LastBy(e, c, Len(e), i)
  BY <1>1, <1>2 DEF LastBy
<1> QED BY <1>1, <1>3 DEF d

LEMMA AppendedOne ==
  ASSUME NEW X, NEW e \in Seq(X), NEW t \in Seq(X), NEW c, NEW a, OneOf(t, c, a)
  PROVE  LET d == e \o t
             l == Len(e) + a
         IN /\ EventsOf(d, c) = EventsOf(e, c) \union {l} /\ l \in 1..Len(d) /\ Len(e) < l
            /\ d[l] = t[a]
            /\ \A i : LastBy(d, c, l - 1, i) <=> LastBy(e, c, Len(e), i)
            /\ \A i : LastBy(d, c, Len(d), i) <=> i = l
<1> DEFINE d == e \o t
           l == Len(e) + a
<1>0. a \in 1..Len(t)
  BY DEF OneOf, EventsOf
<1>1. /\ Len(d) = Len(e) + Len(t) /\ Len(e) \in Nat /\ Len(t) \in Nat /\ d[l] = t[a]
      /\ EventsOf(d, c) = EventsOf(e, c) \union {Len(e) + j : j \in EventsOf(t, c)}
  BY <1>0, Appended
<1> HIDE DEF d
<1>2. EventsOf(d, c) = EventsOf(e, c) \union {l}
  BY <1>1 DEF OneOf
<1>3. l \in 1..Len(d) /\ Len(e) < l
  BY <1>0, <1>1
<1>4. \A i \in EventsOf(e, c) : i \in Nat /\ i <= Len(e) /\ i <= l - 1 /\ i < l /\ i <= Len(d)
  BY <1>1, <1>3 DEF EventsOf
<1> HIDE DEF l
<1>5. ASSUME NEW i PROVE LastBy(d, c, l - 1, i) <=> LastBy(e, c, Len(e), i)
  <2>1. 0 <= l - 1 /\ ~(l <= l - 1) /\ 0 <= Len(e)
    BY <1>1, <1>3
  <2>2. \A j : j \in EventsOf(d, c) /\ j <= l - 1 <=> j \in EventsOf(e, c) /\ j <= Len(e)
    BY <1>2, <1>4, <2>1
  <2>3. i \in EventsOf(d, c) \union {0} /\ i <= l - 1 <=> i \in EventsOf(e, c) \union {0} /\ i <= Len(e)
    BY <2>1, <2>2
  <2> QED BY <2>2, <2>3 DEF LastBy
<1>6. ASSUME NEW i PROVE LastBy(d, c, Len(d), i) <=> i = l
  <2>1. LastBy(d, c, Len(d), l)
    BY <1>2, <1>3, <1>4 DEF LastBy
  <2> QED BY <2>1, LastUnique
<1> QED BY <1>1, <1>2, <1>3, <1>5, <1>6 DEF d, l

(* What is true of the views of a channel when no event of it is queued.   *)
LEMMA BlanksStay ==
  ASSUME NEW X, NEW e \in Seq(X), NEW t \in Seq(X), NEW c, NoneOf(t, c),
         NEW i \in 0..Len(e), NEW M, NEW N, Blanks(e, c, i, M), c \notin M => c \notin N
  PROVE  Blanks(e \o t, c, i, N)
<1> DEFINE d == e \o t
<1>1. /\ EventsOf(d, c) = EventsOf(e, c)
      /\ LastBy(d, c, Len(d), i) <=> LastBy(e, c, Len(e), i)
  BY AppendedNone
<1>2. /\ \A j \in 1..Len(e) : d[j] = e[j]
      /\ \A k \in 0..Len(e) : LastBy(d, c, k, i) <=> LastBy(e, c, k, i)
  <2>1. \A j \in 1..Len(e) : d[j] = e[j]
    OBVIOUS
  <2>2. \A k \in 0..Len(e) : LastBy(d, c, k, i) <=> LastBy(e, c, k, i)
    BY Appended
  <2> QED BY <2>1, <2>2
<1> HIDE DEF d
<1>3. \A j \in EventsOf(e, c) : j \in 1..Len(e) /\ j - 1 \in 0..Len(e)
  BY DEF EventsOf
<1> QED BY <1>1, <1>2, <1>3 DEF Blanks, d

(* When one is: it is a blank roster, if that is what must come.           *)
LEMMA BlanksMore ==
  ASSUME NEW X, NEW e \in Seq(X), NEW t \in Seq(X), NEW c, NEW a, OneOf(t, c, a),
         NEW i \in 0..Len(e), NEW M, NEW N, Blanks(e, c, i, M),
         c \notin M => t[a].kind = "names" /\ t[a].nicks = {}
  PROVE  Blanks(e \o t, c, i, N)
<1> DEFINE d == e \o t
           l == Len(e) + a
<1>1. /\ EventsOf(d, c) = EventsOf(e, c) \union {l} /\ l \in 1..Len(d) /\ Len(e) < l
      /\ d[l] = t[a]
      /\ LastBy(d, c, l - 1, i) <=> LastBy(e, c, Len(e), i)
      /\ LastBy(d, c, Len(d), i) <=> i = l
  BY AppendedOne
<1>2. /\ \A j \in 1..Len(e) : d[j] = e[j]
      /\ \A k \in 0..Len(e) : LastBy(d, c, k, i) <=> LastBy(e, c, k, i)
  <2>1. \A j \in 1..Len(e) : d[j] = e[j]
    OBVIOUS
  <2>2. \A k \in 0..Len(e) : LastBy(d, c, k, i) <=> LastBy(e, c, k, i)
    BY Appended
  <2> QED BY <2>1, <2>2
<1> HIDE DEF d, l
<1>3. \A j \in EventsOf(e, c) : j \in 1..Len(e) /\ j - 1 \in 0..Len(e)
  BY DEF EventsOf
<1>4. i # l
  BY <1>1
<1>5. ASSUME NEW j \in EventsOf(d, c), LastBy(d, c, j - 1, i)
      PROVE  d[j].kind = "names" /\ d[j].nicks = {}
  <2>1. CASE j \in EventsOf(e, c)
    BY <1>2, <1>3, <1>5, <2>1 DEF Blanks
  <2>2. CASE j = l
    BY <1>1, <1>5, <2>2 DEF Blanks
  <2> QED BY <1>1, <1>5, <2>1, <2>2
<1> QED BY <1>1, <1>4, <1>5 DEF Blanks, d

LEMMA PassesOn ==
  ASSUME NEW l, NEW at, NEW b, NEW n, NEW then,
         Passes(l, at, l, b), Passes(l, b, n, then)
  PROVE  Passes(l, at, n, then)
BY DEF Passes

LEMMA SameView ==
  ASSUME NEW view, NEW e, NEW d, NEW i, i \in 1..Len(e) => d[i] = e[i], i \in 0..Len(e)
  PROVE  View(view, d, i) = View(view, e, i)
BY DEF View

LEMMA ViewsStay ==
  ASSUME NEW X, NEW e \in Seq(X), NEW t \in Seq(X), NEW c, NoneOf(t, c), NEW view,
         NEW u, NEW v, NEW w, NEW z, ViewsSo(c, view, e, u, v),
         c \notin v.meIn => c \notin z.meIn,
         c \in w.listed \intersect z.meIn =>
            /\ c \in u.listed \intersect v.meIn /\ w.list[c] = u.list[c]
            /\ Passes(u.list[c], v.nick, u.list[c], z.nick)
  PROVE  ViewsSo(c, view, e \o t, w, z)
<1> DEFINE d == e \o t
<1>1. /\ EventsOf(d, c) = EventsOf(e, c)
      /\ \A i : LastBy(d, c, Len(d), i) <=> LastBy(e, c, Len(e), i)
  BY AppendedNone
<1>2. /\ \A j \in 1..Len(e) : d[j] = e[j]
      /\ \A i : \A k \in 0..Len(e) : LastBy(d, c, k, i) <=> LastBy(e, c, k, i)
  <2>1. \A j \in 1..Len(e) : d[j] = e[j]
    OBVIOUS
  <2>2. \A i : \A k \in 0..Len(e) : LastBy(d, c, k, i) <=> LastBy(e, c, k, i)
    BY Appended
  <2> QED BY <2>1, <2>2
<1>2a. \A i \in 0..Len(e) : Blanks(e, c, i, v.meIn) => Blanks(d, c, i, z.meIn)
  BY BlanksStay
<1> HIDE DEF d
<1>3. \A j \in EventsOf(e, c) : j \in 1..Len(e) /\ j - 1 \in 0..Len(e) /\ j \in 0..Len(e)
  BY DEF EventsOf
<1>4. \A i \in 0..Len(e) : View(view, d, i) = View(view, e, i)
  BY <1>2, SameView
<1>5. \A j, i : LastBy(e, c, j, i) => i \in 0..Len(e)
  BY DEF LastBy, EventsOf
<1>6. ASSUME NEW j \in EventsOf(d, c), NEW i, LastBy(d, c, j - 1, i)
      PROVE  Passes(View(view, d, i).nicks, View(view, d, i).at, d[j].nicks, d[j].at)
  <2>1. j \in EventsOf(e, c) /\ LastBy(e, c, j - 1, i) /\ d[j] = e[j]
    BY <1>1, <1>2, <1>3, <1>6
  <2>2. i \in 0..Len(e) /\ View(view, d, i) = View(view, e, i)
    BY <1>4, <1>5, <2>1
  <2> QED BY <2>1, <2>2 DEF ViewsSo
<1>7. ASSUME NEW i \in EventsOf(d, c), d[i].kind = "parted" PROVE Blanks(d, c, i, z.meIn)
  <2>1. i \in EventsOf(e, c) /\ e[i].kind = "parted"
    BY <1>1, <1>2, <1>3, <1>7
  <2>2. Blanks(e, c, i, v.meIn)
    BY <2>1 DEF ViewsSo
  <2> QED BY <1>2a, <1>3, <2>1, <2>2
<1>8. ASSUME c \in w.listed \intersect z.meIn, NEW i, LastBy(d, c, Len(d), i)
      PROVE  /\ View(view, d, i).nicks = w.list[c]
             /\ Passes(View(view, d, i).nicks, View(view, d, i).at, w.list[c], z.nick)
  <2>1. LastBy(e, c, Len(e), i) /\ i \in 0..Len(e)
    BY <1>1, <1>5, <1>8
  <2>2. View(view, d, i) = View(view, e, i)
    BY <1>4, <2>1
  <2>3. /\ View(view, e, i).nicks = u.list[c]
        /\ Passes(View(view, e, i).nicks, View(view, e, i).at, u.list[c], v.nick)
    BY <1>8, <2>1 DEF ViewsSo
  <2>4. Passes(u.list[c], View(view, e, i).at, u.list[c], z.nick)
    BY <1>8, <2>3, PassesOn
  <2> QED BY <1>8, <2>2, <2>3, <2>4
<1> QED BY <1>6, <1>7, <1>8 DEF ViewsSo, d

LEMMA ViewsMore ==
  ASSUME NEW X, NEW e \in Seq(X), NEW t \in Seq(X), NEW c, NEW a, OneOf(t, c, a), NEW view,
         NEW u, NEW v, NEW w, NEW z, ViewsSo(c, view, e, u, v),
         c \notin v.meIn => t[a].kind = "names" /\ t[a].nicks = {},
         t[a].kind = "parted" => c \notin z.meIn,
         t[a].nicks # {} =>
            c \in u.listed /\ Passes(u.list[c], v.nick, t[a].nicks, t[a].at),
         c \in w.listed \intersect z.meIn => t[a].nicks = w.list[c] /\ t[a].at = z.nick
  PROVE  ViewsSo(c, view, e \o t, w, z)
<1> DEFINE d == e \o t
           l == Len(e) + a
<1>1. /\ EventsOf(d, c) = EventsOf(e, c) \union {l} /\ l \in 1..Len(d) /\ Len(e) < l
      /\ d[l] = t[a]
      /\ \A i : LastBy(d, c, l - 1, i) <=> LastBy(e, c, Len(e), i)
      /\ \A i : LastBy(d, c, Len(d), i) <=> i = l
  BY AppendedOne
<1>2. /\ \A j \in 1..Len(e) : d[j] = e[j]
      /\ \A i : \A k \in 0..Len(e) : LastBy(d, c, k, i) <=> LastBy(e, c, k, i)
  <2>1. \A j \in 1..Len(e) : d[j] = e[j]
    OBVIOUS
  <2>2. \A i : \A k \in 0..Len(e) : LastBy(d, c, k, i) <=> LastBy(e, c, k, i)
    BY Appended
  <2> QED BY <2>1, <2>2
<1>2a. \A i \in 0..Len(e) : Blanks(e, c, i, v.meIn) => Blanks(d, c, i, z.meIn)
  BY BlanksMore
<1> HIDE DEF d, l
<1>3. \A j \in EventsOf(e, c) : j \in 1..Len(e) /\ j - 1 \in 0..Len(e) /\ j \in 0..Len(e)
  BY DEF EventsOf
<1>4. \A i \in 0..Len(e) : View(view, d, i) = View(view, e, i)
  BY <1>2, SameView
<1>5. \A j, i : LastBy(e, c, j, i) => i \in 0..Len(e)
  BY DEF LastBy, EventsOf
<1>6. ASSUME NEW j \in EventsOf(d, c), NEW i, LastBy(d, c, j - 1, i)
      PROVE  Passes(View(view, d, i).nicks, View(view, d, i).at, d[j].nicks, d[j].at)
  <2>1. CASE j \in EventsOf(e, c)
    <3>1. LastBy(e, c, j - 1, i) /\ d[j] = e[j]
      BY <1>2, <1>3, <1>6, <2>1
    <3>2. i \in 0..Len(e) /\ View(view, d, i) = View(view, e, i)
      BY <1>4, <1>5, <3>1
    <3> QED BY <2>1, <3>1, <3>2 DEF ViewsSo
  <2>2. CASE j = l
    <3>1. LastBy(e, c, Len(e), i) /\ i \in 0..Len(e) /\ d[j] = t[a]
      BY <1>1, <1>5, <1>6, <2>2
    <3>2. View(view, d, i) = View(view, e, i)
      BY <1>4, <3>1
    <3>3. CASE t[a].nicks = {}
      BY <3>1, <3>3 DEF Passes
    <3>4. CASE t[a].nicks # {}
      <4>1. c \in u.listed \intersect v.meIn /\ Passes(u.list[c], v.nick, t[a].nicks, t[a].at)
        BY <3>4
      <4>2. /\ View(view, e, i).nicks = u.list[c]
            /\ Passes(View(view, e, i).nicks, View(view, e, i).at, u.list[c], v.nick)
        BY <3>1, <4>1 DEF ViewsSo
      <4>3. Passes(u.list[c], View(view, e, i).at, t[a].nicks, t[a].at)
        BY <4>1, <4>2, PassesOn
      <4> QED BY <3>1, <3>2, <4>2, <4>3
    <3> QED BY <3>3, <3>4
  <2> QED BY <1>1, <1>6, <2>1, <2>2
<1>7. ASSUME NEW i \in EventsOf(d, c), d[i].kind = "parted" PROVE Blanks(d, c, i, z.meIn)
  <2>1. CASE i \in EventsOf(e, c)
    <3>1. Blanks(e, c, i, v.meIn)
      BY <1>2, <1>3, <1>7, <2>1 DEF ViewsSo
    <3> QED BY <1>2a, <1>3, <2>1, <3>1
  <2>2. CASE i = l
    <3>1. c \notin z.meIn
      BY <1>1, <1>7, <2>2
    <3>2. ASSUME NEW j \in EventsOf(d, c) PROVE ~LastBy(d, c, j - 1, i)
      <4>1. j <= l /\ j \in Nat /\ l \in Nat
        BY <1>1, <1>3, <3>2
      <4> QED BY <2>2, <4>1 DEF LastBy
    <3> QED BY <3>1, <3>2 DEF Blanks
  <2> QED BY <1>1, <1>7, <2>1, <2>2
<1>8. ASSUME c \in w.listed \intersect z.meIn, NEW i, LastBy(d, c, Len(d), i)
      PROVE  /\ View(view, d, i).nicks = w.list[c]
             /\ Passes(View(view, d, i).nicks, View(view, d, i).at, w.list[c], z.nick)
  <2>1. i = l /\ l # 0 /\ d[i] = t[a]
    BY <1>1, <1>8
  <2>2. View(view, d, i).nicks = w.list[c] /\ View(view, d, i).at = z.nick
    BY <1>8, <2>1 DEF View
  <2> QED BY <2>2 DEF Passes
<1> QED BY <1>6, <1>7, <1>8 DEF ViewsSo, d

(* A QUIT and a NICK reach every list.                                     *)
LEMMA EveryList ==
  ASSUME NEW u, WorkerOK(u), NEW m, LineOK(m), m.kind \in {"quit", "nick"}
  PROVE  LET w == Listed(u, m)
             n == m.nick
         IN /\ w.listed = u.listed
            /\ \A c \in Channels :
                  /\ n \notin u.list[c] => w.list[c] = u.list[c]
                  /\ n \in u.list[c] => w.list[c] = (u.list[c] \ {n})
                                                    \union (IF m.kind = "nick" THEN {m.to} ELSE {})
<1> DEFINE w == Listed(u, m)
           n == m.nick
<1>1. ASSUME m.kind = "quit"
      PROVE  \E level : Becomes(u, w, u.listed, [d \in Channels |-> u.list[d] \ {n}], level)
  BY <1>1, ListedFields
<1>2. ASSUME m.kind = "nick"
      PROVE  \E level : Becomes(u, w, u.listed,
                               [d \in Channels |-> IF n \notin u.list[d] THEN u.list[d]
                                                   ELSE (u.list[d] \ {n}) \union {m.to}], level)
  BY <1>2, ListedFields
<1> HIDE DEF w, n
<1>3. w.listed = u.listed /\ \A c \in Channels :
        /\ n \notin u.list[c] => w.list[c] = u.list[c]
        /\ n \in u.list[c] => w.list[c] = (u.list[c] \ {n})
                                          \union (IF m.kind = "nick" THEN {m.to} ELSE {})
  <2>1. CASE m.kind = "quit"
    <3>1. w.listed = u.listed /\ \A c \in Channels : w.list[c] = u.list[c] \ {n}
      BY <1>1, <2>1 DEF Becomes
    <3>2. \A c \in Channels : n \notin u.list[c] => w.list[c] = u.list[c]
      BY <3>1
    <3> QED BY <2>1, <3>1, <3>2
  <2>2. CASE m.kind = "nick"
    BY <1>2, <2>2 DEF Becomes
  <2> QED BY <2>1, <2>2
<1> QED BY <1>3 DEF w, n

(* What a line changes of a roster and of who is on it.                    *)
LEMMA StayersPass ==
  ASSUME NEW u, NEW m, NEW v, NEW o, NEW s, Situated(u, m, v, o, s),
         NEW c, c \in u.listed \intersect v.meIn,
         c \in Listed(u, m).listed \intersect m.at.meIn
  PROVE  Passes(u.list[c], v.nick, Listed(u, m).list[c], m.at.nick)
<1> DEFINE w == Listed(u, m)
           a == m.at
           n == m.nick
<1>1. /\ WorkerOK(u) /\ LineOK(m) /\ Sane(v) /\ Sane(a) /\ Tells(v, m) /\ ListIs(u, v, m, c)
      /\ ListWillBe(w, m, c)
  BY SituatedFacts DEF Situated
<1>2. c \in Channels /\ u.list[c] \subseteq Nicks /\ NoNick \notin Nicks
  BY <1>1, FixedValues DEF WorkerOK, Workers
<1>3. m.kind \in {"quit", "nick"} =>
        /\ n \notin u.list[c] => w.list[c] = u.list[c]
        /\ n \in u.list[c] => w.list[c] = (u.list[c] \ {n})
                                          \union (IF m.kind = "nick" THEN {m.to} ELSE {})
  BY <1>1, <1>2, EveryList
<1>4. m.kind = "nick" => m.to # n
  BY <1>1, TellsIs
<1> HIDE DEF w, a, n
<1>5. ASSUME NEW p \in People, NEW k \in u.list[c], k \in w.list[c], v.nick[p] = k
      PROVE  a.nick[p] = k
  <2>1. m.kind \in {"quit", "nick"} => k # n
    BY <1>2, <1>3, <1>4, <1>5
  <2>2. k \in InIt(v, c) /\ k \in InIt(a, c) /\ k \in Nicks
    BY <1>1, <1>2, <1>5 DEF ListIs, ListWillBe, a
  <2>3. PICK q \in People : a.nick[q] = k
    BY <2>2 DEF InIt
  <2>4. v.nick[q] = k
    BY <1>1, <2>1, <2>2, <2>3, MembersStay DEF a, n
  <2>5. q = p
    BY <1>1, <1>2, <1>5, <2>2, <2>4 DEF Sane
  <2> QED BY <2>3, <2>5
<1>6. Passes(u.list[c], v.nick, w.list[c], a.nick)
  BY <1>5 DEF Passes
<1> QED BY <1>6 DEF w, a

Renewed(w, m) == Changed(w, m) \intersect w.listed

(* A roster that is not published is the one that was, of the same people. *)
LEMMA UnchangedRoster ==
  ASSUME NEW u, NEW m, NEW v, NEW o, NEW s, Situated(u, m, v, o, s),
         NEW c \in Channels, c \notin Renewed(Listed(u, m), m)
  PROVE  /\ c \notin v.meIn => c \notin m.at.meIn
         /\ c \in Listed(u, m).listed \intersect m.at.meIn =>
               /\ c \in u.listed \intersect v.meIn /\ Listed(u, m).list[c] = u.list[c]
               /\ Passes(u.list[c], v.nick, u.list[c], m.at.nick)
<1> DEFINE w == Listed(u, m)
           a == m.at
           e == m.channel
           n == m.nick
<1>1. /\ WorkerOK(u) /\ LineOK(m) /\ Sane(v) /\ Sane(a) /\ Tells(v, m) /\ w.index = u.index
      /\ u.index \in P!Indexes /\ P!Consistent(u.index)
      /\ \A d \in u.listed \intersect v.meIn : Keys(u.index, d) = u.list[d]
  BY SituatedFacts DEF Situated
<1>2. m.kind \in AboutChannel \union AboutNick
  BY <1>1 DEF LineOK, Lines
<1>3. m.kind \notin {"quit", "nick"} =>
         /\ \A d \in Channels : d # e => (d \in w.listed <=> d \in u.listed) /\ w.list[d] = u.list[d]
         /\ m.kind \in {"who", "whoend", "account"} => w = u
         /\ m.kind = "me_join" => e \in w.listed
         /\ \A d : d # e => (d \in v.meIn <=> d \in a.meIn)
         /\ m.kind \in {"who", "whoend", "account"} => AllStill(v, a)
         /\ m.kind \in {"me_part", "me_kick"} => e \notin a.meIn
  <2>1. m.kind \notin {"quit", "nick"} =>
         /\ \A d \in Channels : d # e => (d \in w.listed <=> d \in u.listed) /\ w.list[d] = u.list[d]
         /\ m.kind \in {"who", "whoend", "account"} => w = u
         /\ m.kind = "me_join" => e \in w.listed
    BY <1>1, ListsElsewhere
  <2>2. m.kind \notin {"quit", "nick"} =>
         /\ \A d : d # e => (d \in v.meIn <=> d \in a.meIn)
         /\ m.kind \in {"who", "whoend", "account"} => AllStill(v, a)
    BY <1>1, LineIsLocal
  <2>3. m.kind \in {"me_part", "me_kick"} => e \notin a.meIn
    BY <1>1, TellsIs
  <2> HIDE DEF w, a, e
  <2> QED BY <2>1, <2>2, <2>3
<1>4. m.kind \in {"join", "part", "mode", "names"} => e \in v.meIn
  BY <1>1, LineIsLocal
<1>5. m.kind \in {"quit", "nick"} =>
         /\ w.listed = u.listed /\ a.meIn = v.meIn
         /\ n \in Nicks /\ (n \notin u.list[c] => w.list[c] = u.list[c])
  <2>1. n \in Nicks \/ m.kind \notin {"quit", "nick"}
    BY <1>1 DEF LineOK, AboutNick
  <2>2. m.kind \in {"quit", "nick"} => a.meIn = v.meIn
    BY <1>1, TellsIs
  <2>3. m.kind \in {"quit", "nick"} =>
           w.listed = u.listed /\ (n \notin u.list[c] => w.list[c] = u.list[c])
    BY <1>1, EveryList
  <2> HIDE DEF w, a, n
  <2> QED BY <2>1, <2>2, <2>3
<1>6. /\ m.kind \in {"join", "part", "mode", "names", "me_join"} => Changed(w, m) = {e}
      /\ m.kind \in {"quit", "nick"} =>
           Changed(w, m) = {d \in w.listed : P!InChannel(w.index, d, n)}
  BY ChangedIs
<1>7. c \in w.listed \intersect a.meIn /\ c \in u.listed \intersect v.meIn =>
         Passes(u.list[c], v.nick, w.list[c], a.nick)
  BY StayersPass
<1>8. c \notin Renewed(w, m)
  OBVIOUS
<1> HIDE DEF w, a, e, n
<1>9. c \notin v.meIn => c \notin a.meIn
  BY <1>2, <1>3, <1>4, <1>5, <1>6, <1>8 DEF Renewed, AllStill, AboutChannel, AboutNick
<1>10. ASSUME c \in w.listed \intersect a.meIn
       PROVE  c \in u.listed \intersect v.meIn /\ w.list[c] = u.list[c]
  <2>1. CASE m.kind \in {"quit", "nick"}
    <3>1. c \in u.listed \intersect v.meIn /\ ~P!InChannel(u.index, c, n)
      BY <1>1, <1>5, <1>6, <1>8, <1>10, <2>1 DEF Renewed
    <3>2. n \notin u.list[c]
      BY <1>1, <1>5, <2>1, <3>1, FoundOnRoster
    <3> QED BY <1>5, <2>1, <3>1, <3>2
  <2>2. CASE m.kind \notin {"quit", "nick"} /\ c # e
    BY <1>3, <1>10, <2>2
  <2>3. CASE m.kind \in {"join", "part", "mode", "names", "me_join"} /\ c = e
    BY <1>6, <1>8, <1>10, <2>3 DEF Renewed
  <2>4. CASE m.kind \in {"who", "whoend", "account"}
    BY <1>3, <1>10, <2>4 DEF AllStill
  <2>5. CASE m.kind \in {"me_part", "me_kick"} /\ c = e
    BY <1>3, <1>10, <2>5
  <2> QED BY <1>2, <2>1, <2>2, <2>3, <2>4, <2>5 DEF AboutChannel, AboutNick
<1> QED BY <1>7, <1>9, <1>10 DEF w, a

(* A roster that is published: of people who are in the channel, and blank *)
(* when we have just come.                                                 *)
LEMMA RenewedRoster ==
  ASSUME NEW u, NEW m, NEW v, NEW o, NEW s, Situated(u, m, v, o, s),
         NEW c \in Channels, c \in Renewed(Listed(u, m), m)
  PROVE  LET w == Listed(u, m)
         IN /\ c \in m.at.meIn /\ w.list[c] \subseteq Nicks
            /\ \A k \in w.list[c] : \E p \in People : m.at.nick[p] = k
            /\ c \notin v.meIn => w.list[c] = {}
            /\ w.list[c] # {} => c \in u.listed /\ Passes(u.list[c], v.nick, w.list[c], m.at.nick)
<1> DEFINE w == Listed(u, m)
           a == m.at
           e == m.channel
           n == m.nick
<1>1. /\ WorkerOK(u) /\ LineOK(m) /\ Sane(v) /\ Sane(a) /\ Tells(v, m) /\ w.index = u.index
      /\ \A d \in Channels : d \notin v.meIn => u.index.members[d] = {}
      /\ \A d \in w.listed \intersect a.meIn : ListWillBe(w, m, d)
      /\ w.list \in [Channels -> SUBSET Nicks]
  BY SituatedFacts DEF Situated, OwnersSo
<1>2. m.kind \notin {"quit", "nick"} =>
         /\ m.kind \in {"join", "part", "mode", "names", "me_join"} => e \in a.meIn
         /\ m.kind \in {"join", "part", "mode", "names"} => e \in v.meIn
  BY <1>1, LineIsLocal
<1>3. m.kind \in {"join", "part", "mode", "names"} => w.listed = u.listed
  BY <1>1, ListsElsewhere
<1>4. m.kind = "me_join" => w.list = [u.list EXCEPT ![e] = {}]
  BY <1>1, ListedFields DEF Becomes
<1>5. m.kind \in {"quit", "nick"} => w.listed = u.listed /\ a.meIn = v.meIn
  <2>2. m.kind \in {"quit", "nick"} => a.meIn = v.meIn
    BY <1>1, TellsIs
  <2>3. m.kind \in {"quit", "nick"} => w.listed = u.listed
    BY <1>1, EveryList
  <2> HIDE DEF w, a, n
  <2> QED BY <2>2, <2>3
<1>6. /\ m.kind \in {"join", "part", "mode", "names", "me_join"} => Changed(w, m) = {e}
      /\ m.kind \in {"quit", "nick"} =>
           Changed(w, m) = {d \in w.listed : P!InChannel(w.index, d, n)}
      /\ m.kind \notin {"join", "part", "mode", "names", "me_join", "quit", "nick"} =>
           Changed(w, m) = {}
  BY ChangedIs
<1>7. c \in w.listed \intersect a.meIn /\ c \in u.listed \intersect v.meIn =>
         Passes(u.list[c], v.nick, w.list[c], a.nick)
  BY StayersPass
<1>8. c \in Changed(w, m) /\ c \in w.listed
  BY DEF Renewed
<1>9. u.list \in [Channels -> SUBSET Nicks]
  BY <1>1 DEF WorkerOK, Workers
<1> HIDE DEF w, a, e, n
<1>10. CASE m.kind = "me_join"
  <2>1. c = e /\ w.list[c] = {} /\ c \in a.meIn
    BY <1>2, <1>4, <1>6, <1>8, <1>9, <1>10
  <2> QED BY <2>1 DEF w, a
<1>11. CASE m.kind # "me_join"
  <2>1. c \in u.listed \intersect v.meIn /\ c \in a.meIn
    <3>1. CASE m.kind \in {"quit", "nick"}
      <4>1. u.index.members[c] # {}
        BY <1>1, <1>6, <1>8, <3>1 DEF P!InChannel
      <4> QED BY <1>1, <1>5, <1>8, <3>1, <4>1
    <3>2. CASE m.kind \in {"join", "part", "mode", "names"}
      BY <1>2, <1>3, <1>6, <1>8, <3>2
    <3> QED BY <1>6, <1>8, <1>11, <3>1, <3>2
  <2>2. ListWillBe(w, m, c) /\ w.list[c] \subseteq Nicks
    BY <1>1, <1>8, <2>1
  <2>3. \A k \in w.list[c] : \E p \in People : a.nick[p] = k
    BY <2>2 DEF ListWillBe, InIt, a
  <2> QED BY <1>7, <1>8, <2>1, <2>2, <2>3 DEF w, a
<1> QED BY <1>10, <1>11

(* Rosters of different channels, in the order SetToSeq gives.             *)
InOrder(q, R, E, c) ==
    /\ q \in Seq(RosterEvents)
    /\ c \notin R => NoneOf(q, c)
    /\ c \in R => \E a \in 1..Len(q) : OneOf(q, c, a) /\ q[a] = E[c]

LEMMA RostersInOrder ==
  ASSUME NEW R, IsFiniteSet(R), NEW E \in [R -> RosterEvents], \A c \in R : E[c].channel = c,
         NEW S, S = {E[d] : d \in R}, NEW c
  PROVE  InOrder(SetToSeq(S), R, E, c)
<1> DEFINE q == SetToSeq(S)
<1>1. IsFiniteSet(S)
  <2>1. E \in Surjection(R, S)
    BY DEF Surjection
  <2> QED BY <2>1, FS_Surjection
<1>2. S \subseteq RosterEvents
  OBVIOUS
<1>2a. \A x \in S : x.channel \in R /\ x = E[x.channel]
  OBVIOUS
<1>2b. c \in R => E[c] \in S
  OBVIOUS
<1>3. Cardinality(S) \in Nat /\ q \in [1..Cardinality(S) -> S] /\ IsInjective(q)
  BY <1>1, SequenceOfSet
<1>4. ASSUME c \in R PROVE \E a \in 1..Cardinality(S) : q[a] = E[c]
  BY <1>1, <1>2b, <1>4, SequenceHasAll
<1> HIDE DEF q
<1>5. q \in Seq(RosterEvents) /\ Len(q) = Cardinality(S)
  <2>1. \A N \in Nat : q \in [1..N -> RosterEvents] => q \in Seq(RosterEvents) /\ Len(q) = N
    OBVIOUS
  <2> QED BY <1>2, <1>3, <2>1
<1>6. \A i \in 1..Len(q) : q[i] \in S
  BY <1>3, <1>5
<1>7. c \notin R => NoneOf(q, c)
  BY <1>2a, <1>6 DEF NoneOf, EventsOf
<1>8. ASSUME c \in R PROVE \E a \in 1..Len(q) : OneOf(q, c, a) /\ q[a] = E[c]
  <2>1. PICK a \in 1..Len(q) : q[a] = E[c]
    BY <1>4, <1>5, <1>8
  <2>2. \A i \in 1..Len(q) : q[i].channel = c => q[i] = E[c]
    BY <1>2a, <1>6
  <2>3. \A i \in 1..Len(q) : q[i] = q[a] => i = a
    BY <1>3, <1>5 DEF IsInjective
  <2>4. OneOf(q, c, a)
    BY <1>8, <2>1, <2>2, <2>3 DEF OneOf, EventsOf
  <2> QED BY <2>1, <2>4
<1> QED BY <1>5, <1>7, <1>8 DEF q, InOrder

RosterEvent(w, m, c) == [kind |-> "names", channel |-> c, nicks |-> w.list[c], at |-> m.at.nick]

Departure(m) == [kind |-> "parted", channel |-> m.channel, nicks |-> {}, at |-> m.at.nick]

Parts(m, c) == m.kind \in {"me_part", "me_kick"} /\ m.channel = c

(* The events of a line: one for each roster it renews, or our departure.  *)
LEMMA SentIs ==
  ASSUME NEW u, NEW m, NEW v, NEW o, NEW s, Situated(u, m, v, o, s), NEW c \in Open
  PROVE  LET w == Listed(u, m)
             t == Sent(w, m)
         IN /\ t \in Seq(RosterEvents)
            /\ c \notin Renewed(w, m) /\ ~Parts(m, c) => NoneOf(t, c)
            /\ c \in Renewed(w, m) => \E a \in 1..Len(t) : OneOf(t, c, a) /\ t[a] = RosterEvent(w, m, c)
            /\ Parts(m, c) => \E a \in 1..Len(t) : OneOf(t, c, a) /\ t[a] = Departure(m)
<1> DEFINE w == Listed(u, m)
           R == Changed(w, m) \intersect w.listed \intersect Open
           E == [d \in R |-> RosterEvent(w, m, d)]
           goes == m.kind \in {"me_part", "me_kick"} /\ m.channel \in Open
           p == IF goes THEN <<Departure(m)>> ELSE <<>>
           S == {E[d] : d \in R}
           q == SetToSeq(S)
<1>1. /\ WorkerOK(w) /\ w.listed \subseteq Channels /\ Open \subseteq Channels
      /\ m.at.nick \in [People -> Nicks \union {NoNick}]
  <2>1. WorkerOK(w) /\ w.listed \subseteq Channels
    BY SituatedFacts
  <2>2. m.at.nick \in [People -> Nicks \union {NoNick}]
    BY DEF Situated, LineOK, Lines, Ats
  <2> QED BY <2>1, <2>2, RostersAssumption
<1>2. Sent(w, m) = p \o q
  <2>1. {E[d] : d \in R} = {[kind |-> "names", channel |-> d, nicks |-> w.list[d],
                             at |-> m.at.nick] : d \in R}
    <3>1. \A d \in R : E[d] = [kind |-> "names", channel |-> d, nicks |-> w.list[d],
                             at |-> m.at.nick]
      BY DEF RosterEvent
    <3> HIDE DEF E, R
    <3> QED BY <3>1
  <2> HIDE DEF w, E
  <2> QED BY <2>1 DEF Sent, Departure
<1>3. IsFiniteSet(R)
  <2>1. IsFiniteSet(w.listed) /\ R \in SUBSET w.listed
    BY <1>1 DEF WorkerOK
  <2> HIDE DEF R, w
  <2> QED BY <2>1, FS_Subset
<1>4. ASSUME NEW d \in R PROVE RosterEvent(w, m, d) \in RosterEvents
  <2>1. d \in Channels /\ d \in Renewed(w, m) /\ d \in Open
    BY <1>1 DEF Renewed
  <2>2. w.list[d] \subseteq Nicks /\ \A k \in w.list[d] : \E z \in People : m.at.nick[z] = k
    BY <2>1, RenewedRoster
  <2> HIDE DEF w
  <2> QED BY <1>1, <2>1, <2>2 DEF RosterEvents, RosterEvent, Views
<1>5. E \in [R -> RosterEvents] /\ \A d \in R : E[d] = RosterEvent(w, m, d) /\ E[d].channel = d
  <2>1. \A d \in R : RosterEvent(w, m, d).channel = d
    BY DEF RosterEvent
  <2> HIDE DEF R, w
  <2> QED BY <1>4, <2>1
<1>6. Changed(w, m) = {} \/ m.kind \notin {"me_part", "me_kick"}
  BY ChangedIs
<1>7. c \in R <=> c \in Renewed(w, m)
  BY DEF Renewed
<1>8. goes => Departure(m) \in RosterEvents
  BY <1>1 DEF Departure, RosterEvents, Views
<1>9. Parts(m, c) => goes /\ c \notin R
  BY <1>6 DEF Parts
<1>10. goes /\ ~Parts(m, c) => Departure(m).channel # c
  BY DEF Parts, Departure
<1>10a. Parts(m, c) => Departure(m).channel = c
  BY DEF Parts, Departure
<1>11. goes => R = {}
  BY <1>6
<1>11a. S = {E[d] : d \in R}
  OBVIOUS
<1> HIDE DEF w, R, E, goes, S
<1>12. /\ q \in Seq(RosterEvents)
       /\ c \notin R => NoneOf(q, c)
       /\ c \in R => \E a \in 1..Len(q) : OneOf(q, c, a) /\ q[a] = E[c]
  <2>1. InOrder(q, R, E, c)
    BY <1>3, <1>5, <1>11a, RostersInOrder
  <2> HIDE DEF q
  <2> QED BY <2>1 DEF InOrder
<1> HIDE DEF q
<1>13. /\ p \in Seq(RosterEvents) /\ (~goes => EventsOf(p, c) = {} /\ Len(p) = 0)
       /\ goes => Len(p) = 1 /\ p[1] = Departure(m)
  BY <1>8 DEF EventsOf
<1>14. Len(p) \in Nat /\ EventsOf(p, c) = IF Parts(m, c) THEN {1} ELSE {}
  <2>1. CASE goes
    <3>1. EventsOf(p, c) = {i \in {1} : Departure(m).channel = c}
      BY <1>13, <2>1 DEF EventsOf
    <3> QED BY <1>10, <1>10a, <1>13, <2>1, <3>1
  <2>2. CASE ~goes
    BY <1>9, <1>13, <2>2
  <2> QED BY <2>1, <2>2
<1> HIDE DEF p
<1> DEFINE t == p \o q
<1>15. /\ t \in Seq(RosterEvents) /\ Len(t) = Len(p) + Len(q) /\ Len(q) \in Nat
       /\ \A i \in 1..Len(p) : t[i] = p[i]
       /\ \A j \in 1..Len(q) : t[Len(p) + j] = q[j]
  BY <1>12, <1>13
<1>16. EventsOf(t, c) = EventsOf(p, c) \union {Len(p) + j : j \in EventsOf(q, c)}
  BY <1>12, <1>13, Appended
<1> HIDE DEF t
<1>17. c \notin R /\ ~Parts(m, c) => NoneOf(t, c)
  BY <1>12, <1>14, <1>16 DEF NoneOf
<1>18. ASSUME c \in R PROVE \E a \in 1..Len(t) : OneOf(t, c, a) /\ t[a] = RosterEvent(w, m, c)
  <2>1. PICK a \in 1..Len(q) : OneOf(q, c, a) /\ q[a] = E[c]
    BY <1>12, <1>18
  <2>2. EventsOf(t, c) = {Len(p) + a}
    BY <1>9, <1>14, <1>16, <1>18, <2>1 DEF OneOf
  <2>3. Len(p) + a \in 1..Len(t) /\ t[Len(p) + a] = RosterEvent(w, m, c)
    BY <1>5, <1>14, <1>15, <1>18, <2>1
  <2> QED BY <2>2, <2>3 DEF OneOf
<1>19. ASSUME Parts(m, c) PROVE \E a \in 1..Len(t) : OneOf(t, c, a) /\ t[a] = Departure(m)
  <2>1. goes /\ EventsOf(t, c) = {1}
    BY <1>9, <1>12, <1>14, <1>16, <1>19 DEF NoneOf
  <2>2. 1 \in 1..Len(t) /\ t[1] = Departure(m)
    <3>1. Len(p) = 1 /\ p[1] = Departure(m)
      BY <1>13, <2>1
    <3> QED BY <1>15, <3>1
  <2> QED BY <2>1, <2>2 DEF OneOf
<1>20. Sent(w, m) = t
  BY <1>2 DEF t
<1> QED BY <1>7, <1>15, <1>17, <1>18, <1>19, <1>20 DEF w

(* Every line leaves the views of the window's channels right.             *)
LEMMA DeliverWindow ==
  ASSUME Rightly, WindowSo, NEW expired \in BOOLEAN, Deliver(expired)
  PROVE  WindowSo'
<1> DEFINE m == Head(link)
           w == Listed(worker, m)
           t == Sent(w, m)
           v == ghost.seen
           a == m.at
<1>1. /\ link # <<>> /\ WorkerOK(w) /\ SameLists(w, worker') /\ LineOK(m)
      /\ ghost' = Remembered(w, Published(w, m), m)
  BY DeliverIs DEF Rightly
<1>2. Situated(worker, m, v, ghost.owner, ghost.strayed)
  BY <1>1, SituationIs DEF Rightly
<1>3. events' = events \o t /\ UNCHANGED <<shown, chosen>>
  BY DEF Deliver, Handle
<1>4. ghost'.seen = a
  <2> HIDE DEF m, w
  <2> QED BY <1>1 DEF Remembered
<1>5. worker'.listed = w.listed /\ worker'.list = w.list
  BY <1>1 DEF SameLists
<1>6. \A c \in Open :
        /\ t \in Seq(RosterEvents)
        /\ c \notin Renewed(w, m) /\ ~Parts(m, c) => NoneOf(t, c)
        /\ c \in Renewed(w, m) => \E l \in 1..Len(t) : OneOf(t, c, l) /\ t[l] = RosterEvent(w, m, c)
        /\ Parts(m, c) => \E l \in 1..Len(t) : OneOf(t, c, l) /\ t[l] = Departure(m)
  BY <1>2, SentIs
<1>7. \A c \in Open : c \notin Renewed(w, m) =>
         /\ c \notin v.meIn => c \notin a.meIn
         /\ c \in w.listed \intersect a.meIn =>
               /\ c \in worker.listed \intersect v.meIn /\ w.list[c] = worker.list[c]
               /\ Passes(worker.list[c], v.nick, worker.list[c], a.nick)
  BY <1>2, UnchangedRoster, RostersAssumption
<1>8. \A c \in Open : c \in Renewed(w, m) =>
         /\ c \notin v.meIn => w.list[c] = {}
         /\ w.list[c] # {} => c \in worker.listed /\ Passes(worker.list[c], v.nick, w.list[c], a.nick)
  BY <1>2, RenewedRoster, RostersAssumption
<1>9. \A c \in Open : Parts(m, c) => c \in v.meIn /\ c \notin a.meIn
  BY <1>2, TellsIs DEF Situated, Parts
<1>10. events \in Seq(RosterEvents) /\ (Open = {} => t = <<>>)
  <2>1. ASSUME Open = {} PROVE t = <<>>
    <3>1. {[kind |-> "names", channel |-> d, nicks |-> w.list[d],
                             at |-> m.at.nick] : d \in Changed(w, m) \intersect w.listed \intersect Open} = {}
      BY <2>1
    <3>2. t = <<>> \o SetToSeq({})
      BY <2>1, <3>1 DEF Sent
    <3>3. IsFiniteSet({}) /\ Cardinality({}) = 0
      BY FS_EmptySet
    <3>4. SetToSeq({}) \in [1..0 -> {}]
      BY <3>3, SequenceOfSet
    <3>5. SetToSeq({}) = <<>>
      BY <3>4
    <3> QED BY <3>2, <3>5
  <2> QED BY <2>1 DEF WindowSo
<1> HIDE DEF m, w, t, v, a
<1>11. ASSUME NEW c \in Open
       PROVE  /\ ViewsSo(c, shown[c], events \o t, worker', a)
              /\ Blanks(events, c, 0, v.meIn) => Blanks(events \o t, c, 0, a.meIn)
  <2>0. /\ t \in Seq(RosterEvents) /\ events \in Seq(RosterEvents)
        /\ ViewsSo(c, shown[c], events, worker, v) /\ 0 \in 0..Len(events)
    BY <1>6, <1>10 DEF WindowSo, v
  <2>1. CASE c \notin Renewed(w, m) /\ ~Parts(m, c)
    <3>1. NoneOf(t, c)
      BY <1>6, <2>1
    <3>2. /\ c \notin v.meIn => c \notin a.meIn
          /\ c \in worker'.listed \intersect a.meIn =>
               /\ c \in worker.listed \intersect v.meIn /\ worker'.list[c] = worker.list[c]
               /\ Passes(worker.list[c], v.nick, worker.list[c], a.nick)
      BY <1>5, <1>7, <2>1
    <3>3. ViewsSo(c, shown[c], events \o t, worker', a)
      BY <2>0, <3>1, <3>2, ViewsStay
    <3>4. Blanks(events, c, 0, v.meIn) => Blanks(events \o t, c, 0, a.meIn)
      BY <2>0, <3>1, <3>2, BlanksStay
    <3> QED BY <3>3, <3>4
  <2>2. CASE c \in Renewed(w, m)
    <3>1. PICK l \in 1..Len(t) : OneOf(t, c, l) /\ t[l] = RosterEvent(w, m, c)
      BY <1>6, <2>2
    <3>2. t[l].kind = "names" /\ t[l].nicks = w.list[c] /\ t[l].at = a.nick
      BY <3>1 DEF RosterEvent, a
    <3>3. /\ c \notin v.meIn => t[l].kind = "names" /\ t[l].nicks = {}
          /\ t[l].kind = "parted" => c \notin a.meIn
          /\ t[l].nicks # {} =>
                c \in worker.listed /\ Passes(worker.list[c], v.nick, t[l].nicks, t[l].at)
          /\ t[l].nicks = worker'.list[c] /\ t[l].at = a.nick
      BY <1>5, <1>8, <2>2, <3>2
    <3>4. ViewsSo(c, shown[c], events \o t, worker', a)
      BY <2>0, <3>1, <3>3, ViewsMore
    <3>5. Blanks(events, c, 0, v.meIn) => Blanks(events \o t, c, 0, a.meIn)
      BY <2>0, <3>1, <3>3, BlanksMore
    <3> QED BY <3>4, <3>5
  <2>3. CASE Parts(m, c)
    <3>1. PICK l \in 1..Len(t) : OneOf(t, c, l) /\ t[l] = Departure(m)
      BY <1>6, <2>3
    <3>2. t[l].kind = "parted" /\ t[l].nicks = {}
      BY <3>1 DEF Departure
    <3>3. c \in v.meIn /\ c \notin a.meIn
      BY <1>9, <2>3
    <3>4. ViewsSo(c, shown[c], events \o t, worker', a)
      BY <2>0, <3>1, <3>2, <3>3, ViewsMore
    <3>5. Blanks(events, c, 0, v.meIn) => Blanks(events \o t, c, 0, a.meIn)
      BY <2>0, <3>1, <3>3, BlanksMore
    <3> QED BY <3>4, <3>5
  <2> QED BY <2>1, <2>2, <2>3
<1>12. events' \in Seq(RosterEvents)
  <2>1. t \in Seq(RosterEvents)
    <3>1. CASE Open = {}
      <4>1. t = <<>>
        BY <1>10, <3>1
      <4> QED BY <4>1
    <3>2. CASE Open # {}
      BY <1>6, <3>2
    <3> QED BY <3>1, <3>2
  <2> QED BY <1>3, <1>10, <2>1
<1>13. ASSUME chosen' # NobodyChosen
       PROVE  ChoiceSo(chosen', shown'[chosen'.channel],
                       Blanks(events', chosen'.channel, 0, ghost'.seen.meIn))
  <2>1. ChoiceSo(chosen, shown[chosen.channel], Blanks(events, chosen.channel, 0, v.meIn))
    BY <1>3, <1>13 DEF WindowSo, v
  <2>2. chosen.channel \in Open
    BY <2>1 DEF ChoiceSo
  <2>3. Blanks(events, chosen.channel, 0, v.meIn) => Blanks(events', chosen'.channel, 0, ghost'.seen.meIn)
    BY <1>3, <1>4, <1>11, <2>2
  <2> QED BY <1>3, <2>1, <2>3 DEF ChoiceSo
<1>14. \A c \in Open : ViewsSo(c, shown'[c], events', worker', ghost'.seen)
  BY <1>3, <1>4, <1>11
<1>15. shown' \in [Channels -> Views] /\ \A c \in Channels \ Open : shown'[c].nicks = {}
  BY <1>3 DEF WindowSo
<1> QED BY <1>12, <1>13, <1>14, <1>15 DEF WindowSo

(* The steps the window's part takes notice of.                            *)
LEMMA WindowKinds ==
  ASSUME [Next]_vars
  PROVE  \/ UNCHANGED <<worker, ghost, events, shown, chosen>>
         \/ HandleBatch
         \/ \E c \in Channels, n \in Nicks : Choose(c, n)
         \/ \E expired \in BOOLEAN : Deliver(expired)
         \/ \E c \in Channels : WePart(c)
<1>1. ASSUME NEW w, NEW lines, Moves(w, lines)
      PROVE  UNCHANGED <<worker, ghost, events, shown, chosen>>
  BY <1>1 DEF Moves
<1>2. CASE PeopleMove
  <2> USE <1>1
  <2>1. ASSUME NEW p \in People, NEW c \in Channels, NEW n \in Nicks, PersonJoins(p, c, n)
        PROVE  UNCHANGED <<worker, ghost, events, shown, chosen>>
    BY <2>1 DEF PersonJoins
  <2>2. ASSUME NEW p \in People, NEW c \in Channels, PersonLeaves(p, c)
        PROVE  UNCHANGED <<worker, ghost, events, shown, chosen>>
    BY <2>2 DEF PersonLeaves
  <2>3. ASSUME NEW p \in People, PersonQuits(p)
        PROVE  UNCHANGED <<worker, ghost, events, shown, chosen>>
    BY <2>3 DEF PersonQuits
  <2>4. ASSUME NEW p \in People, NEW n \in Nicks, PersonRenames(p, n)
        PROVE  UNCHANGED <<worker, ghost, events, shown, chosen>>
    BY <2>4 DEF PersonRenames
  <2>5. ASSUME NEW p \in People, NEW login \in Logins \union {A!LoggedOut}, PersonLogsIn(p, login)
        PROVE  UNCHANGED <<worker, ghost, events, shown, chosen>>
    BY <2>5 DEF PersonLogsIn
  <2>6. ASSUME NEW p \in People, NEW c \in Channels, NEW level \in Levels, RoleChanges(p, c, level)
        PROVE  UNCHANGED <<worker, ghost, events, shown, chosen>>
    BY <2>6 DEF RoleChanges
  <2>7. ASSUME NEW c \in Channels, NEW kind \in {"me_part", "me_kick"}, RemovesUs(c, kind)
        PROVE  UNCHANGED <<worker, ghost, events, shown, chosen>>
    BY <2>7 DEF RemovesUs
  <2> QED BY <1>2, <2>1, <2>2, <2>3, <2>4, <2>5, <2>6, <2>7 DEF PeopleMove
<1>3. CASE ServerTakes
  BY <1>3 DEF ServerTakes
<1>4. CASE ServerSendsWho
  BY <1>4 DEF ServerSendsWho
<1>5. ASSUME NEW c \in Channels, WeJoin(c)
      PROVE  UNCHANGED <<worker, ghost, events, shown, chosen>>
  BY <1>5 DEF WeJoin, Says
<1>6. CASE UNCHANGED vars
  BY <1>6 DEF vars
<1> QED BY <1>2, <1>3, <1>4, <1>5, <1>6 DEF Next, PeopleMove

LEMMA ChooseWindow ==
  ASSUME WindowSo, NEW c \in Channels, NEW n \in Nicks, Choose(c, n)
  PROVE  WindowSo'
<1> DEFINE p == Holder([nick |-> shown[c].at], n)
<1>1. /\ n \in shown[c].nicks /\ UNCHANGED <<worker, events, shown, ghost>>
      /\ chosen' = [channel |-> c, nick |-> n, person |-> p]
  BY DEF Choose
<1>2. c \in Open /\ shown[c] \in Views
  BY <1>1 DEF WindowSo
<1>3. \E q \in People : [nick |-> shown[c].at].nick[q] = n
  BY <1>1, <1>2 DEF Views
<1>4. p \in People /\ shown[c].at[p] = n
  BY <1>3, HolderIs
<1> HIDE DEF p
<1>5. ChoiceSo(chosen', shown[c], Blanks(events, c, 0, ghost.seen.meIn))
  BY <1>1, <1>2, <1>4 DEF ChoiceSo
<1> QED BY <1>1, <1>5 DEF WindowSo

LEMMA WePartWindow ==
  ASSUME Typed, WindowSo, NEW c \in Channels, WePart(c)
  PROVE  WindowSo'
<1>1. /\ worker'.listed = worker.listed \ {c} /\ worker'.list = [worker.list EXCEPT ![c] = {}]
      /\ ghost' = ghost
  BY WePartFields
<1>2. UNCHANGED <<events, shown, chosen>>
  BY DEF WePart, Says
<1>3. worker.list \in [Channels -> SUBSET Nicks] /\ Open \subseteq Channels
  BY RostersAssumption DEF Typed, WorkerOK, Workers
<1>4. ASSUME NEW d \in Open PROVE ViewsSo(d, shown[d], events, worker', ghost.seen)
  <2>1. ViewsSo(d, shown[d], events, worker, ghost.seen)
    BY DEF WindowSo
  <2>2. d \in worker'.listed => d \in worker.listed /\ worker'.list[d] = worker.list[d]
    BY <1>1, <1>3
  <2> QED BY <2>1, <2>2 DEF ViewsSo
<1> QED BY <1>1, <1>2, <1>4 DEF WindowSo

LEMMA WindowStarts ==
  ASSUME Init PROVE WindowSo
<1>1. /\ events = <<>> /\ shown = [c \in Channels |-> [nicks |-> {}, at |-> At(world).nick]]
      /\ chosen = NobodyChosen /\ ghost.seen.meIn = {}
  BY DEF Init, At
<1>2. At(world) \in Ats
  BY InitTyped, AtType DEF Typed, WorldOK
<1>3. [nicks |-> {}, at |-> At(world).nick] \in Views
  BY <1>2 DEF Views, Ats
<1>4. events \in Seq(RosterEvents)
  BY <1>1
<1>5. \A c \in Open : ViewsSo(c, shown[c], events, worker, ghost.seen)
  BY <1>1 DEF ViewsSo, EventsOf
<1> QED BY <1>1, <1>3, <1>4, <1>5 DEF WindowSo

(* What the window does with an event of the batch.                        *)
ShowEvent(e, s, i) ==
    IF Superseded(e, i) THEN s
    ELSE [s EXCEPT ![e[i].channel] = [nicks |-> e[i].nicks, at |-> e[i].at]]

KeepChoice(e, choice, i) == IF e[i].kind = "names" THEN RetainPresent(choice, e[i]) ELSE choice

Shows(e) == [p \in UpTo(Len(e)) \X [Channels -> Views] |-> ShowEvent(e, p[2], p[1])]
Keeps(e, choice) == [p \in UpTo(Len(e)) \X {choice, NobodyChosen} |-> KeepChoice(e, p[2], p[1])]

LEMMA ShowsType ==
  ASSUME NEW e \in Seq(RosterEvents)
  PROVE  Shows(e) \in [UpTo(Len(e)) \X [Channels -> Views] -> [Channels -> Views]]
<1>1. ASSUME NEW k \in UpTo(Len(e)), NEW s \in [Channels -> Views]
      PROVE  ShowEvent(e, s, k) \in [Channels -> Views]
  <2>1. e[k] \in RosterEvents
    BY DEF UpTo
  <2>2. [nicks |-> e[k].nicks, at |-> e[k].at] \in Views /\ e[k].channel \in Channels
    BY <2>1, RostersAssumption DEF RosterEvents
  <2> QED BY <2>2 DEF ShowEvent
<1> QED BY <1>1 DEF Shows

LEMMA KeepsType ==
  ASSUME NEW e \in Seq(RosterEvents), NEW choice
  PROVE  Keeps(e, choice) \in [UpTo(Len(e)) \X {choice, NobodyChosen} -> {choice, NobodyChosen}]
<1>1. ASSUME NEW k \in UpTo(Len(e)), NEW s \in {choice, NobodyChosen}
      PROVE  KeepChoice(e, s, k) \in {choice, NobodyChosen}
  BY DEF KeepChoice, RetainPresent
<1> QED BY <1>1 DEF Keeps

(* The batch is gone through event by event.                               *)
LEMMA BatchShown ==
  ASSUME NEW e \in Seq(RosterEvents), NEW s \in [Channels -> Views]
  PROVE  LET show(z, i) == ShowEvent(e, z, i)
             order == [i \in DOMAIN e |-> i]
         IN Reached(FoldLeft(show, s, order), Len(e), [Channels -> Views], s, Shows(e))
<1> DEFINE order == [i \in DOMAIN e |-> i]
           show(z, i) == ShowEvent(e, z, i)
           g[x \in SUBSET DOMAIN order] ==
              IF x = {} THEN s ELSE LET y == Max(x) IN show(g[x \ {y}], order[y])
           n == Len(e)
           D == [Channels -> Views]
           F == Shows(e)
           Body(h) == [x \in SUBSET DOMAIN order |->
                         IF x = {} THEN s ELSE LET y == Max(x) IN show(h[x \ {y}], order[y])]
<1>1. n \in Nat /\ DOMAIN order = UpTo(n) /\ \A k \in UpTo(n) : order[k] = k
  BY DEF UpTo
<1>2. FoldLeft(show, s, order) = g[DOMAIN order]
  BY DEF FoldLeft, MapThenFoldSet
<1>3. F \in [UpTo(n) \X D -> D]
  BY ShowsType
<1>4. \A k \in UpTo(n), v \in D : F[<<k, v>>] = show(v, k)
  BY DEF Shows
<1> HIDE DEF n, F, D, order, show
<1>5. PICK h : Lefts(h, n, D, s, F)
  <2>1. s \in D
    BY DEF D
  <2> QED BY <1>1, <1>3, <2>1, LeftExists
<1>6. \A x \in SUBSET UpTo(n) : x # {} => Max(x) \in UpTo(n) /\ x \ {Max(x)} \in SUBSET UpTo(n)
  BY <1>1, Greatest DEF UpTo
<1>7. h = Body(h)
  <2> DEFINE V(x) == IF x = {} THEN s ELSE F[<<Max(x), h[x \ {Max(x)}]>>]
             W(x) == IF x = {} THEN s ELSE show(h[x \ {Max(x)}], order[Max(x)])
  <2>1. ASSUME NEW x \in SUBSET UpTo(n) PROVE V(x) = W(x)
    <3>1. CASE x = {}
      BY <3>1
    <3>2. CASE x # {}
      <4>1. Max(x) \in UpTo(n) /\ order[Max(x)] = Max(x) /\ h[x \ {Max(x)}] \in D
        BY <1>1, <1>5, <1>6, <3>2 DEF Lefts
      <4>2. F[<<Max(x), h[x \ {Max(x)}]>>] = show(h[x \ {Max(x)}], Max(x))
        BY <1>4, <4>1
      <4> QED BY <3>2, <4>1, <4>2
    <3> QED BY <3>1, <3>2
  <2>2. h = [x \in SUBSET UpTo(n) |-> V(x)]
    BY <1>5 DEF Lefts
  <2>3. [x \in SUBSET UpTo(n) |-> V(x)] = [x \in SUBSET UpTo(n) |-> W(x)]
    <3> HIDE DEF V, W
    <3> QED BY <2>1
  <2> HIDE DEF V
  <2> QED BY <1>1, <2>2, <2>3
<1>8. g = Body(g)
  <2>1. (\E h_1 : h_1 = Body(h_1)) => g = Body(g)
    OBVIOUS
  <2> QED BY <1>7, <2>1
<1> HIDE DEF g
<1>9. g[{}] = s /\ \A x \in SUBSET UpTo(n) :
                      x # {} => g[x] = show(g[x \ {Max(x)}], Max(x))
  BY <1>1, <1>6, <1>8
<1>10. \A x \in SUBSET UpTo(n) : x # {} /\ g[x \ {Max(x)}] \in D
                                 => g[x] = F[<<Max(x), g[x \ {Max(x)}]>>]
  BY <1>4, <1>6, <1>9
<1>11. FoldsLeft(g, n, D, s, F)
  BY <1>9, <1>10 DEF FoldsLeft
<1>12. Reached(g[UpTo(n)], n, D, s, F)
  <2>1. s \in D
    BY DEF D
  <2> QED BY <1>1, <1>3, <1>11, <2>1, LeftValues
<1>13. Reached(FoldLeft(show, s, order), n, D, s, F)
  BY <1>1, <1>2, <1>12
<1> QED BY <1>13 DEF n, F, D, order, show

LEMMA BatchKept ==
  ASSUME NEW e \in Seq(RosterEvents), NEW s
  PROVE  LET keep(z, i) == KeepChoice(e, z, i)
             order == [i \in DOMAIN e |-> i]
         IN Reached(FoldLeft(keep, s, order), Len(e), {s, NobodyChosen}, s, Keeps(e, s))
<1> DEFINE order == [i \in DOMAIN e |-> i]
           keep(z, i) == KeepChoice(e, z, i)
           g[x \in SUBSET DOMAIN order] ==
              IF x = {} THEN s ELSE LET y == Max(x) IN keep(g[x \ {y}], order[y])
           n == Len(e)
           D == {s, NobodyChosen}
           F == Keeps(e, s)
           Body(h) == [x \in SUBSET DOMAIN order |->
                         IF x = {} THEN s ELSE LET y == Max(x) IN keep(h[x \ {y}], order[y])]
<1>1. n \in Nat /\ DOMAIN order = UpTo(n) /\ \A k \in UpTo(n) : order[k] = k
  BY DEF UpTo
<1>2. FoldLeft(keep, s, order) = g[DOMAIN order]
  BY DEF FoldLeft, MapThenFoldSet
<1>3. F \in [UpTo(n) \X D -> D]
  BY KeepsType
<1>4. \A k \in UpTo(n), v \in D : F[<<k, v>>] = keep(v, k)
  BY DEF Keeps
<1> HIDE DEF n, F, D, order, keep
<1>5. PICK h : Lefts(h, n, D, s, F)
  <2>1. s \in D
    BY DEF D
  <2> QED BY <1>1, <1>3, <2>1, LeftExists
<1>6. \A x \in SUBSET UpTo(n) : x # {} => Max(x) \in UpTo(n) /\ x \ {Max(x)} \in SUBSET UpTo(n)
  BY <1>1, Greatest DEF UpTo
<1>7. h = Body(h)
  <2> DEFINE V(x) == IF x = {} THEN s ELSE F[<<Max(x), h[x \ {Max(x)}]>>]
             W(x) == IF x = {} THEN s ELSE keep(h[x \ {Max(x)}], order[Max(x)])
  <2>1. ASSUME NEW x \in SUBSET UpTo(n) PROVE V(x) = W(x)
    <3>1. CASE x = {}
      BY <3>1
    <3>2. CASE x # {}
      <4>1. Max(x) \in UpTo(n) /\ order[Max(x)] = Max(x) /\ h[x \ {Max(x)}] \in D
        BY <1>1, <1>5, <1>6, <3>2 DEF Lefts
      <4>2. F[<<Max(x), h[x \ {Max(x)}]>>] = keep(h[x \ {Max(x)}], Max(x))
        BY <1>4, <4>1
      <4> QED BY <3>2, <4>1, <4>2
    <3> QED BY <3>1, <3>2
  <2>2. h = [x \in SUBSET UpTo(n) |-> V(x)]
    BY <1>5 DEF Lefts
  <2>3. [x \in SUBSET UpTo(n) |-> V(x)] = [x \in SUBSET UpTo(n) |-> W(x)]
    <3> HIDE DEF V, W
    <3> QED BY <2>1
  <2> HIDE DEF V
  <2> QED BY <1>1, <2>2, <2>3
<1>8. g = Body(g)
  <2>1. (\E h_1 : h_1 = Body(h_1)) => g = Body(g)
    OBVIOUS
  <2> QED BY <1>7, <2>1
<1> HIDE DEF g
<1>9. g[{}] = s /\ \A x \in SUBSET UpTo(n) :
                      x # {} => g[x] = keep(g[x \ {Max(x)}], Max(x))
  BY <1>1, <1>6, <1>8
<1>10. \A x \in SUBSET UpTo(n) : x # {} /\ g[x \ {Max(x)}] \in D
                                 => g[x] = F[<<Max(x), g[x \ {Max(x)}]>>]
  BY <1>4, <1>6, <1>9
<1>11. FoldsLeft(g, n, D, s, F)
  BY <1>9, <1>10 DEF FoldsLeft
<1>12. Reached(g[UpTo(n)], n, D, s, F)
  <2>1. s \in D
    BY DEF D
  <2> QED BY <1>1, <1>3, <1>11, <2>1, LeftValues
<1>13. Reached(FoldLeft(keep, s, order), n, D, s, F)
  BY <1>1, <1>2, <1>12
<1> QED BY <1>13 DEF n, F, D, order, keep

(* The last event of a channel is what is shown of it.                     *)
EndsWith(r, s, e, c, i) == r[Len(e)][c] = View(s[c], e, i)

LEMMA LastIsShown ==
  ASSUME NEW e \in Seq(RosterEvents), NEW s \in [Channels -> Views], NEW r,
         Values(r, Len(e), [Channels -> Views], s, Shows(e)),
         NEW c \in Channels, NEW i, LastBy(e, c, Len(e), i)
  PROVE  EndsWith(r, s, e, c, i)
<1> DEFINE n == Len(e)
           I == {k \in 0..n : i <= k => r[k][c] = View(s[c], e, i)}
<1>1. n \in Nat /\ i \in 0..n /\ (i # 0 => i \in EventsOf(e, c))
  BY DEF LastBy, EventsOf
<1>2. r \in [0..n -> [Channels -> Views]] /\ r[0] = s
      /\ \A k \in 1..n : r[k] = Shows(e)[<<k, r[k - 1]>>]
  BY DEF Values
<1>3. \A k \in 1..n : r[k] = ShowEvent(e, r[k - 1], k)
  <2> TAKE k \in 1..n
  <2>1. k \in UpTo(Len(e)) /\ k - 1 \in 0..n
    BY <1>1 DEF UpTo
  <2>2. r[k - 1] \in [Channels -> Views]
    BY <1>2, <2>1
  <2> QED BY <1>2, <2>1, <2>2 DEF Shows
<1>4. 0 \in I
  <2>1. i <= 0 => i = 0
    BY <1>1
  <2> QED BY <1>1, <1>2, <2>1 DEF View
<1>5. ASSUME NEW k \in 1..n, k - 1 \in I PROVE k \in I
  <2>1. k - 1 \in 0..n /\ r[k - 1] \in [Channels -> Views]
    BY <1>1, <1>2
  <2>2. CASE i < k
    <3>1. k \notin EventsOf(e, c)
      BY <1>1, <2>2 DEF LastBy
    <3>2. e[k].channel # c
      BY <1>5, <3>1 DEF EventsOf
    <3>3. r[k][c] = r[k - 1][c]
      BY <1>3, <2>1, <3>2 DEF ShowEvent
    <3>4. i <= k - 1
      BY <1>1, <2>2
    <3> QED BY <1>5, <3>3, <3>4
  <2>3. CASE i = k
    <3>1. e[k].channel = c
      BY <1>1, <2>3 DEF EventsOf
    <3>2. \A j \in DOMAIN e : j > k => e[j].channel # c
      <4>1. \A j \in EventsOf(e, c) : j <= k
        BY <1>1, <2>3 DEF LastBy, EventsOf
      <4> QED BY <1>1, <4>1 DEF EventsOf
    <3>3. ~Superseded(e, k)
      BY <3>1, <3>2 DEF Superseded
    <3>4. r[k][c] = [nicks |-> e[k].nicks, at |-> e[k].at]
      BY <1>3, <2>1, <3>1, <3>3 DEF ShowEvent
    <3> QED BY <1>5, <2>3, <3>4 DEF View
  <2>4. CASE i > k
    BY <1>1, <1>5, <2>4
  <2> QED BY <1>1, <2>2, <2>3, <2>4
<1>6. n \in I
  <2>1. \A k \in 0..n : k \in I
    <3> HIDE DEF I, n
    <3> QED BY <1>1, <1>4, <1>5, CountUp
  <2> QED BY <1>1, <2>1
<1> QED BY <1>1, <1>6 DEF EndsWith

(* Through the batch, the choice is the person chosen or will be dropped.  *)
LEMMA ChoiceGoesOn ==
  ASSUME NEW e \in Seq(RosterEvents), NEW s, NEW choice, NEW u, NEW v, NEW r,
         Values(r, Len(e), {choice, NobodyChosen}, choice, Keeps(e, choice)),
         ViewsSo(choice.channel, s, e, u, v),
         ChoiceSo(choice, s, Blanks(e, choice.channel, 0, v.meIn)),
         r[Len(e)] = choice, choice # NobodyChosen,
         NEW i, LastBy(e, choice.channel, Len(e), i)
  PROVE  ChoiceSo(choice, View(s, e, i), Blanks(e, choice.channel, i, v.meIn))
<1> DEFINE n == Len(e)
           c == choice.channel
           So(k) == \A j : LastBy(e, c, k, j) => ChoiceSo(choice, View(s, e, j), Blanks(e, c, j, v.meIn))
           I == {k \in 0..n : r[k] = choice => So(k)}
<1>1. n \in Nat
  OBVIOUS
<1>2. r \in [0..n -> {choice, NobodyChosen}] /\ r[0] = choice
      /\ \A k \in 1..n : r[k] = Keeps(e, choice)[<<k, r[k - 1]>>]
  BY DEF Values
<1>3. \A k \in 1..n : r[k] = KeepChoice(e, r[k - 1], k)
  <2> TAKE k \in 1..n
  <2>1. k \in UpTo(Len(e)) /\ k - 1 \in 0..n
    BY <1>1 DEF UpTo
  <2>2. r[k - 1] \in {choice, NobodyChosen}
    BY <1>2, <2>1
  <2> QED BY <1>2, <2>1, <2>2 DEF Keeps
<1>4. \A j : LastBy(e, c, 0, j) => j = 0
  BY DEF LastBy, EventsOf
<1>5. 0 \in I
  <2>1. So(0)
    BY <1>4 DEF View
  <2> QED BY <1>1, <2>1
<1>6. ASSUME NEW k \in 1..n, k - 1 \in I, r[k] = choice PROVE So(k)
  <2>1. k - 1 \in 0..n /\ k - 1 \in 0..Len(e)
    BY <1>1
  <2>2. r[k - 1] = choice
    <3>1. r[k - 1] \in {choice, NobodyChosen}
      BY <1>2, <2>1
    <3>2. r[k - 1] = NobodyChosen => r[k] = NobodyChosen
      BY <1>3 DEF KeepChoice, RetainPresent
    <3> QED BY <1>6, <3>1, <3>2
  <2>3. So(k - 1)
    BY <1>6, <2>2
  <2>4. CASE k \notin EventsOf(e, c)
    <3>1. \A j : LastBy(e, c, k, j) => LastBy(e, c, k - 1, j)
      <4> SUFFICES ASSUME NEW j, LastBy(e, c, k, j) PROVE LastBy(e, c, k - 1, j)
        OBVIOUS
      <4>1. j \in Nat /\ j <= k /\ j # k
        BY <2>4 DEF LastBy, EventsOf
      <4> QED BY <1>1, <4>1 DEF LastBy, EventsOf
    <3> QED BY <2>3, <3>1
  <2>5. CASE k \in EventsOf(e, c)
    <3>1. \A j : LastBy(e, c, k, j) => j = k
      <4>1. LastBy(e, c, k, k)
        BY <2>5 DEF LastBy
      <4> QED BY <4>1, LastUnique
    <3>2. PICK j \in 0..(k - 1) : LastBy(e, c, k - 1, j)
      BY <2>1, LastExists
    <3>3. /\ ChoiceSo(choice, View(s, e, j), Blanks(e, c, j, v.meIn)) /\ j \in 0..Len(e)
          /\ Passes(View(s, e, j).nicks, View(s, e, j).at, e[k].nicks, e[k].at)
      BY <2>1, <2>3, <2>5, <3>2 DEF ViewsSo
    <3>4. e[k] \in RosterEvents /\ e[k].channel = c /\ k # 0
      BY <1>1, <2>5 DEF EventsOf
    <3>5. View(s, e, k).nicks = e[k].nicks /\ View(s, e, k).at = e[k].at
      BY <3>4 DEF View
    <3>6. CASE e[k].kind = "parted"
      <4>1. e[k].nicks = {} /\ Blanks(e, c, k, v.meIn)
        BY <2>5, <3>4, <3>6 DEF RosterEvents, ViewsSo
      <4>2. ChoiceSo(choice, View(s, e, k), Blanks(e, c, k, v.meIn))
        BY <3>3, <3>5, <4>1 DEF ChoiceSo
      <4> QED BY <3>1, <4>2
    <3>7. CASE e[k].kind = "names"
      <4>1. choice.nick \in e[k].nicks
        BY <1>3, <1>6, <2>2, <3>4, <3>7 DEF KeepChoice, RetainPresent
      <4>2. choice.nick \in View(s, e, j).nicks
        BY <2>5, <3>2, <3>3, <4>1 DEF ChoiceSo, Blanks
      <4>3. View(s, e, j).at[choice.person] = choice.nick /\ choice.person \in People
        BY <3>3, <4>2 DEF ChoiceSo
      <4>4. e[k].at[choice.person] = choice.nick
        BY <3>3, <4>1, <4>2, <4>3 DEF Passes
      <4>5. ChoiceSo(choice, View(s, e, k), Blanks(e, c, k, v.meIn))
        BY <3>3, <3>5, <4>1, <4>4 DEF ChoiceSo
      <4> QED BY <3>1, <4>5
    <3> QED BY <3>4, <3>6, <3>7 DEF RosterEvents
  <2> QED BY <2>4, <2>5
<1>7. n \in I
  <2>1. \A k \in 1..n : k - 1 \in I => k \in I
    BY <1>1, <1>6
  <2>2. \A k \in 0..n : k \in I
    <3> HIDE DEF I, n
    <3> QED BY <1>1, <1>5, <2>1, CountUp
  <2> QED BY <1>1, <2>2
<1> QED BY <1>7

LEMMA BatchWindow ==
  ASSUME WindowSo, HandleBatch
  PROVE  WindowSo'
<1> DEFINE e == events
           n == Len(e)
           show(z, i) == ShowEvent(e, z, i)
           keep(z, i) == KeepChoice(e, z, i)
           order == [i \in DOMAIN e |-> i]
<1>1. e \in Seq(RosterEvents) /\ shown \in [Channels -> Views] /\ Open \subseteq Channels
  BY RostersAssumption DEF WindowSo
<1>2. /\ events' = <<>> /\ UNCHANGED <<worker, ghost>>
      /\ shown' = FoldLeft(show, shown, order) /\ chosen' = FoldLeft(keep, chosen, order)
  BY DEF HandleBatch, ShowEvent, KeepChoice
<1>3. Reached(shown', n, [Channels -> Views], shown, Shows(e))
  BY <1>1, <1>2, BatchShown
<1>4. Reached(chosen', n, {chosen, NobodyChosen}, chosen, Keeps(e, chosen))
  BY <1>1, <1>2, BatchKept
<1> HIDE DEF e, n
<1>5. PICK r : Values(r, n, [Channels -> Views], shown, Shows(e)) /\ r[n] = shown'
  BY <1>3 DEF Reached
<1>6. PICK q : Values(q, n, {chosen, NobodyChosen}, chosen, Keeps(e, chosen)) /\ q[n] = chosen'
  BY <1>4 DEF Reached
<1>7. n \in Nat /\ n = Len(e) /\ n \in 0..Len(e)
  BY <1>1 DEF n
<1>8. shown' \in [Channels -> Views] /\ chosen' \in {chosen, NobodyChosen}
  BY <1>5, <1>6, <1>7 DEF Values
<1>9. ASSUME NEW c \in Channels PROVE \E i \in 0..n : LastBy(e, c, n, i) /\ shown'[c] = View(shown[c], e, i)
  <2>1. PICK i \in 0..n : LastBy(e, c, n, i)
    BY <1>1, <1>7, LastExists
  <2>2. r[n][c] = View(shown[c], e, i)
    <3>1. Values(r, Len(e), [Channels -> Views], shown, Shows(e)) /\ LastBy(e, c, Len(e), i)
      BY <1>5, <1>7, <2>1
    <3>2. EndsWith(r, shown, e, c, i)
      BY <1>1, <3>1, LastIsShown
    <3> QED BY <1>7, <3>2 DEF EndsWith
  <2> QED BY <1>5, <2>1, <2>2
<1>10. ASSUME NEW c \in Channels \ Open PROVE shown'[c].nicks = {}
  <2>1. EventsOf(e, c) = {}
    <3>1. \A i \in 1..Len(e) : e[i] \in RosterEvents
      BY <1>1
    <3>2. \A x \in RosterEvents : x.channel \in Open
      BY DEF RosterEvents
    <3> QED BY <3>1, <3>2 DEF EventsOf
  <2>2. shown'[c] = shown[c]
    BY <1>9, <2>1 DEF LastBy, View
  <2> QED BY <2>2 DEF WindowSo
<1>11. \A c, j, i : LastBy(<<>>, c, j, i) => i = 0
  BY DEF LastBy, EventsOf
<1>12. ASSUME NEW c \in Open PROVE ViewsSo(c, shown'[c], <<>>, worker, ghost.seen)
  <2>1. ViewsSo(c, shown[c], e, worker, ghost.seen)
    BY DEF WindowSo, e
  <2>2. PICK i \in 0..n : LastBy(e, c, n, i) /\ shown'[c] = View(shown[c], e, i)
    BY <1>1, <1>9
  <2>3. EventsOf(<<>>, c) = {}
    BY DEF EventsOf
  <2>4. View(shown'[c], <<>>, 0) = shown'[c]
    BY DEF View
  <2>5. c \in worker.listed \intersect ghost.seen.meIn =>
          /\ shown'[c].nicks = worker.list[c]
          /\ Passes(shown'[c].nicks, shown'[c].at, worker.list[c], ghost.seen.nick)
    BY <1>7, <2>1, <2>2 DEF ViewsSo
  <2> QED BY <1>11, <2>3, <2>4, <2>5 DEF ViewsSo
<1>13. ASSUME chosen' # NobodyChosen
       PROVE  ChoiceSo(chosen', shown'[chosen'.channel],
                       Blanks(<<>>, chosen'.channel, 0, ghost.seen.meIn))
  <2> DEFINE c == chosen.channel
             M == ghost.seen.meIn
  <2>1. chosen' = chosen /\ chosen # NobodyChosen
    BY <1>8, <1>13
  <2>2. ChoiceSo(chosen, shown[c], Blanks(e, c, 0, M))
    BY <2>1 DEF WindowSo, e
  <2>3. c \in Open /\ c \in Channels
    BY <1>1, <2>2 DEF ChoiceSo
  <2>4. ViewsSo(c, shown[c], e, worker, ghost.seen)
    BY <2>3 DEF WindowSo, e
  <2>5. PICK i \in 0..n : LastBy(e, c, n, i) /\ shown'[c] = View(shown[c], e, i)
    BY <1>9, <2>3
  <2>6. ChoiceSo(chosen, View(shown[c], e, i), Blanks(e, c, i, M))
    BY <1>1, <1>6, <1>7, <2>1, <2>2, <2>4, <2>5, ChoiceGoesOn
  <2>7. Blanks(e, c, i, M) => Blanks(<<>>, c, 0, M)
    <3>1. EventsOf(<<>>, c) = {}
      BY DEF EventsOf
    <3> QED BY <1>7, <2>5, <3>1 DEF Blanks
  <2> QED BY <2>1, <2>5, <2>6, <2>7 DEF ChoiceSo
<1>14. events' \in Seq(RosterEvents)
  <2>1. <<>> \in Seq(RosterEvents)
    OBVIOUS
  <2> QED BY <1>2, <2>1
<1> QED BY <1>2, <1>8, <1>10, <1>12, <1>13, <1>14 DEF WindowSo

LEMMA WindowStep ==
  ASSUME Rightly, WindowSo, [Next]_vars
  PROVE  WindowSo'
<1>1. CASE UNCHANGED <<worker, ghost, events, shown, chosen>>
  BY <1>1 DEF WindowSo
<1>2. CASE HandleBatch
  BY <1>2, BatchWindow
<1>3. ASSUME NEW c \in Channels, NEW n \in Nicks, Choose(c, n) PROVE WindowSo'
  BY <1>3, ChooseWindow
<1>4. ASSUME NEW expired \in BOOLEAN, Deliver(expired) PROVE WindowSo'
  BY <1>4, DeliverWindow
<1>5. ASSUME NEW c \in Channels, WePart(c) PROVE WindowSo'
  BY <1>5, WePartWindow DEF Rightly
<1> QED BY <1>1, <1>2, <1>3, <1>4, <1>5, WindowKinds

(* A chosen member that is shown is the person that was chosen, however    *)
(* many lines the window was behind, and though rosters that a later one   *)
(* of the batch replaces are not shown.                                    *)
THEOREM ChoiceIsKept == Spec => []ChosenIsThePerson
<1>1. WindowSo => ChosenIsThePerson
  BY DEF WindowSo, ChoiceSo, ChosenIsThePerson
<1>2. Rightly /\ WindowSo /\ [Next]_vars => (Rightly /\ WindowSo)'
  BY RightlyKept, WindowStep
<1>3. Init => Rightly /\ WindowSo
  BY RightlyStarts, WindowStarts
<1> QED BY <1>1, <1>2, <1>3, PTL DEF Spec
==============================================================================

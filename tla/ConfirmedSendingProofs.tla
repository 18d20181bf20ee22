----------------------- MODULE ConfirmedSendingProofs -----------------------
(***************************************************************************)
(* What ConfirmedSending keeps, for every table size and every order of    *)
(* lines: the window waits for exactly what the worker still has pending,  *)
(* shows nothing as delivered that was not, and no message twice.          *)
(***************************************************************************)
EXTENDS ConfirmedSending, FiniteSetTheorems, SequenceTheorems, WellFoundedInduction, TLAPS

Pendings == [id : Nat \ {0}, of : Nat \ {0}, target : Targets, text : Texts, label : Nat]
Workers == [up : BOOLEAN, enabled : SUBSET Capability, pending : Seq(Pendings),
            nextLabel : Nat, batches : Seq(Nat), nextId : Nat]
LinkKinds == {"text", "ack", "error", "open", "close", "del", "new", "req", "granted"}
Links == [kind : LinkKinds, of : Nat, target : Targets, text : Texts, label : Nat, batch : Nat,
          cap : Capability \cup {""}]
Told == [kind : {"accepted", "message", "confirmed", "failed", "disconnected"},
         id : Nat, of : Nat, target : Targets, text : Texts \cup {AsSent}]
Lines == [of : Nat, target : Targets, text : Texts, id : Nat, own : BOOLEAN,
          status : {"sent", "received", "confirmed", "failed"}]

TypeOK ==
    /\ worker \in Workers /\ events \in Seq(Told)
    /\ toServer \in Seq(Links) /\ toClient \in Seq(Links) /\ server \in SUBSET Capability
    /\ lines \in Seq(Lines)
    /\ following \in [DOMAIN following -> DOMAIN lines] /\ DOMAIN following \in SUBSET (Nat \ {0})
    /\ relayed \in [Targets -> [Texts -> Nat]]
    /\ sends \in Nat
    /\ \A i \in DOMAIN events : events[i].kind # "confirmed" => events[i].text \in Texts
    /\ \A i \in DOMAIN toServer :
          \/ toServer[i].kind = "text"
          \/ toServer[i].kind = "req" /\ toServer[i].cap \in Capability
    /\ \A i \in DOMAIN toClient :
          toClient[i].kind \in {"granted", "new"} => toClient[i].cap \in Capability

-----------------------------------------------------------------------------
(* What the window waits for.                                              *)

Waits(e) == e.kind = "accepted" /\ e.id # 0
Settles(e) == e.kind \in {"confirmed", "failed"}

Says3(r, of, target, text) == r.of = of /\ r.target = target /\ r.text = text

(* The window follows the line of this id, or will when it is told of the  *)
(* events before the k-th.                                                 *)
Known(id, of, target, text, k) ==
    \/ id \in DOMAIN following /\ Says3(lines[following[id]], of, target, text)
    \/ \E i \in DOMAIN events :
          i < k /\ Waits(events[i]) /\ events[i].id = id /\ Says3(events[i], of, target, text)

Settled(id, k) == \E i \in DOMAIN events : i < k /\ Settles(events[i]) /\ events[i].id = id

(* The ids it then waits for.                                              *)
Open(k) ==
    {id \in DOMAIN following \cup
            {events[i].id : i \in {j \in DOMAIN events : j < k /\ Waits(events[j])}} :
        ~Settled(id, k)}

End == Len(events) + 1

(* Ids are given in order.                                                 *)
IdsInv ==
    /\ \A i, j \in DOMAIN worker.pending :
          i < j => worker.pending[i].id < worker.pending[j].id
    /\ \A i, j \in DOMAIN events :
          i < j /\ Waits(events[i]) /\ Waits(events[j]) => events[i].id < events[j].id
    /\ \A id \in DOMAIN following, i \in DOMAIN events : Waits(events[i]) => id < events[i].id
    /\ \A i \in DOMAIN worker.pending : worker.pending[i].id <= worker.nextId
    /\ \A id \in DOMAIN following : id <= worker.nextId
    /\ \A i \in DOMAIN events : Waits(events[i]) => events[i].id <= worker.nextId

(* What is followed is an own line that waits, each by one id.             *)
FollowedLines ==
    \A id \in DOMAIN following :
      /\ lines[following[id]].own /\ lines[following[id]].status = "sent"
      /\ lines[following[id]].id # 0
      /\ \A other \in DOMAIN following : following[id] = following[other] => id = other

(* An answer is about what the window follows by then, and the only one.   *)
AnswersKnown ==
    \A i \in DOMAIN events : Settles(events[i]) =>
      /\ \E text \in Texts : Known(events[i].id, events[i].of, events[i].target, text, i)
      /\ \A j \in DOMAIN events :
            j # i /\ Settles(events[j]) => events[i].id # events[j].id

(* There is room to follow what the window is told to follow.              *)
RoomToFollow ==
    \A k \in DOMAIN events :
      Waits(events[k]) => IsFiniteSet(Open(k)) /\ Cardinality(Open(k)) < MaxPending

EndIsLast ==
    \A i \in DOMAIN events :
      events[i].kind = "disconnected" => i = Len(events) /\ ~worker.up

FollowInv == FollowedLines /\ AnswersKnown /\ RoomToFollow /\ EndIsLast

(* The window follows what is pending, and it waits for nothing else.      *)
PendingKnown ==
    \A i \in DOMAIN worker.pending :
      LET p == worker.pending[i]
      IN  Known(p.id, p.of, p.target, p.text, End) /\ ~Settled(p.id, End)

OpenPending == \A id \in Open(End) : \E i \in DOMAIN worker.pending : worker.pending[i].id = id

PendingInv ==
    worker.up =>
      /\ PendingKnown /\ OpenPending
      /\ worker.pending # <<>> => "echo" \in worker.enabled
      /\ Len(worker.pending) <= MaxPending

WaitInv == IdsInv /\ FollowInv /\ PendingInv

-----------------------------------------------------------------------------
(* Which message a line on the way is about.                               *)

GivesLabel(l) == l.kind = "granted" /\ l.cap = "label"
TakesLabel(l) == l.kind = "del" /\ l.cap = "label"

(* Before the k-th line the worker knows that labels are off. *)
OffFrom(k) ==
    /\ \A i \in DOMAIN toClient :
          i < k /\ GivesLabel(toClient[i]) =>
            \E j \in DOMAIN toClient : i < j /\ j < k /\ TakesLabel(toClient[j])
    /\ Labeled(worker) => \E j \in DOMAIN toClient : j < k /\ TakesLabel(toClient[j])

(* Nothing is about a message that was not sent yet, or by a label that    *)
(* was not given yet.                                                      *)
OfBounds ==
    /\ \A i \in DOMAIN worker.pending : worker.pending[i].of <= sends
    /\ \A i \in DOMAIN toServer : toServer[i].of <= sends
    /\ \A i \in DOMAIN toClient : toClient[i].of <= sends
    /\ \A i \in DOMAIN events :
          events[i].of <= sends /\ (events[i].kind = "accepted" => events[i].of # 0)
    /\ \A i \in DOMAIN lines : lines[i].of <= sends /\ (lines[i].own => lines[i].of # 0)

LabelBounds ==
    /\ \A i \in DOMAIN worker.pending : worker.pending[i].label <= worker.nextLabel
    /\ \A i \in DOMAIN toServer : toServer[i].label <= worker.nextLabel
    /\ \A i \in DOMAIN toClient :
          toClient[i].label <= worker.nextLabel /\ toClient[i].batch <= worker.nextLabel

BoundsInv == OfBounds /\ LabelBounds

(* m, on its way to the server, is message p.                              *)
SameMessage(m, p) ==
    /\ m.label = p.label /\ m.label # 0 => m.of = p.of
    /\ m.of = p.of => m.target = p.target /\ m.text = p.text /\ m.label = p.label

(* m, on its way to the client, comes of message p only if it says so.     *)
ComesOf(m, p) ==
    /\ (m.label = p.label /\ m.label # 0) \/ (m.batch = p.label /\ m.batch # 0) => m.of = p.of
    /\ m.of = p.of => m.target = p.target /\ m.label \in {0, p.label} /\ m.batch \in {0, p.label}

PendingOnWay ==
    \A i \in DOMAIN worker.pending, k \in DOMAIN toServer :
       toServer[k].kind = "text" => SameMessage(toServer[k], worker.pending[i])

EchoesOnWay ==
    \A i \in DOMAIN worker.pending, k \in DOMAIN toClient :
       toClient[k].kind = "text" => ComesOf(toClient[k], worker.pending[i])

(* The line of a batch comes right after its start.                        *)
BatchOnWay ==
    \A k \in DOMAIN toClient :
       toClient[k].kind = "text" /\ toClient[k].batch # 0 =>
         /\ toClient[k].label = 0
         /\ k > 1 => toClient[k - 1].kind = "open" /\ toClient[k - 1].label = toClient[k].batch
         /\ k = 1 => \A i \in DOMAIN worker.pending :
                        worker.pending[i].label = toClient[k].batch =>
                          toClient[k].batch \in ToSet(worker.batches)

(* An echo without the label of its message finds the labels taken away.   *)
PlainOnWay ==
    /\ "label" \notin server => OffFrom(Len(toClient) + 1)
    /\ \A i \in DOMAIN worker.pending, k \in DOMAIN toClient :
          /\ toClient[k].kind = "text" /\ toClient[k].of = worker.pending[i].of
          /\ toClient[k].label = 0 /\ toClient[k].batch = 0 /\ worker.pending[i].label # 0
          => OffFrom(k)

LabelInv == worker.up => PendingOnWay /\ EchoesOnWay /\ BatchOnWay /\ PlainOnWay

LinkInv == ~worker.up => toServer = <<>> /\ toClient = <<>>

-----------------------------------------------------------------------------
(* What is shown twice.                                                    *)

Sent(l) == l.own /\ l.status = "sent" /\ l.id # 0

SentIsOwn == \A i \in DOMAIN lines : lines[i].status = "sent" => lines[i].own

(* The window is told of a message before anything that comes of it.       *)
ToldOnce ==
    /\ \A i \in DOMAIN lines, k \in DOMAIN events :
          events[k].kind = "accepted" => lines[i].of # events[k].of
    /\ \A i, k \in DOMAIN events :
          events[k].kind = "accepted" /\ events[i].kind \in {"message", "accepted"} /\ i < k =>
            events[i].of # events[k].of

(* A message told with the words of one that waits comes after its answer. *)
EchoIsLate ==
    /\ \A k \in DOMAIN events, j \in DOMAIN lines :
          events[k].kind = "message" /\ Sent(lines[j]) /\ events[k].of = lines[j].of
            /\ events[k].text = lines[j].text =>
          \E id \in DOMAIN following : following[id] = j /\ Settled(id, k)
    /\ \A k, i \in DOMAIN events :
          events[k].kind = "message" /\ Waits(events[i]) /\ events[k].of = events[i].of
            /\ events[k].text = events[i].text => Settled(events[i].id, k)

(* Nothing comes any more of a message whose line waits unfollowed.        *)
NothingComes ==
    \A j \in DOMAIN lines : Sent(lines[j]) /\ (\A id \in DOMAIN following : following[id] # j) =>
      /\ \A i \in DOMAIN toServer : toServer[i].of # lines[j].of
      /\ \A i \in DOMAIN toClient : toClient[i].of # lines[j].of

TwiceInv == NeverTwice /\ SentIsOwn /\ ToldOnce /\ EchoIsLate /\ NothingComes

-----------------------------------------------------------------------------
(* What is shown as delivered.                                             *)

ShownOf(target, text) ==
    {i \in DOMAIN lines : lines[i].target = target /\ lines[i].text = text
                          /\ lines[i].status \in {"confirmed", "received"}}

(* The event will show a line of target with text as delivered.            *)
Brings(k, target, text) ==
    \/ events[k].kind = "message" /\ events[k].target = target /\ events[k].text = text
    \/ events[k].kind = "confirmed"
       /\ \E sent \in Texts :
             /\ Known(events[k].id, events[k].of, target, sent, k)
             /\ text = IF events[k].text = AsSent THEN sent ELSE events[k].text
ToldOf(target, text) == {k \in DOMAIN events : Brings(k, target, text)}

Carries(m, target, text) ==
    \/ m.kind = "text" /\ m.target = target /\ m.text = text
    \/ m.kind = "ack" /\ m.label # 0
       /\ \E i \in DOMAIN worker.pending :
             /\ worker.pending[i].label = m.label
             /\ worker.pending[i].target = target /\ worker.pending[i].text = text
OnWayOf(target, text) == {k \in DOMAIN toClient : Carries(toClient[k], target, text)}

CountFor(target, text) ==
    Cardinality(ShownOf(target, text)) + Cardinality(ToldOf(target, text))
      + Cardinality(OnWayOf(target, text)) <= relayed[target][text]

CountInv ==
    /\ \A k \in DOMAIN toClient : toClient[k].kind = "ack" => toClient[k].batch = 0
    /\ \A target \in Targets, text \in Texts : CountFor(target, text)

ConfirmInv == WaitInv /\ BoundsInv /\ LabelInv /\ LinkInv /\ TwiceInv /\ CountInv

-----------------------------------------------------------------------------
(* Sequences. *)

LEMMA AppendIs ==
  ASSUME NEW S, NEW q \in Seq(S), NEW x \in S
  PROVE  /\ Append(q, x) \in Seq(S) /\ Len(q) \in Nat /\ Len(Append(q, x)) = Len(q) + 1
         /\ DOMAIN q = 1..Len(q) /\ DOMAIN Append(q, x) = 1..(Len(q) + 1)
         /\ \A i \in 1..Len(q) : Append(q, x)[i] = q[i]
         /\ Append(q, x)[Len(q) + 1] = x
OBVIOUS

LEMMA TailIs ==
  ASSUME NEW S, NEW q \in Seq(S), q # <<>>
  PROVE  /\ Tail(q) \in Seq(S) /\ Len(q) \in Nat \ {0} /\ Len(Tail(q)) = Len(q) - 1
         /\ DOMAIN q = 1..Len(q) /\ DOMAIN Tail(q) = 1..(Len(q) - 1)
         /\ \A i \in 1..(Len(q) - 1) : Tail(q)[i] = q[i + 1]
         /\ Head(q) = q[1] /\ Head(q) \in S
OBVIOUS

LEMMA ConcatIs ==
  ASSUME NEW S, NEW q \in Seq(S), NEW s \in Seq(S)
  PROVE  /\ q \o s \in Seq(S) /\ Len(q) \in Nat /\ Len(s) \in Nat
         /\ Len(q \o s) = Len(q) + Len(s)
         /\ DOMAIN q = 1..Len(q) /\ DOMAIN s = 1..Len(s)
         /\ DOMAIN (q \o s) = 1..(Len(q) + Len(s))
         /\ \A i \in 1..Len(q) : (q \o s)[i] = q[i]
         /\ \A i \in 1..Len(s) : (q \o s)[Len(q) + i] = s[i]
         /\ \A i \in 1..(Len(q) + Len(s)) : i > Len(q) => (q \o s)[i] = s[i - Len(q)]
<1>1. /\ q \o s \in Seq(S) /\ Len(q) \in Nat /\ Len(s) \in Nat
      /\ Len(q \o s) = Len(q) + Len(s)
      /\ DOMAIN q = 1..Len(q) /\ DOMAIN s = 1..Len(s)
      /\ DOMAIN (q \o s) = 1..(Len(q) + Len(s))
      /\ \A i \in 1..(Len(q) + Len(s)) :
            (q \o s)[i] = IF i <= Len(q) THEN q[i] ELSE s[i - Len(q)]
  OBVIOUS
<1> QED BY <1>1

(* A message answered leaves its place to the next. *)
LEMMA RemoveAtIs ==
  ASSUME NEW S, NEW q \in Seq(S), NEW n \in 1..Len(q)
  PROVE  /\ RemoveAt(q, n) \in Seq(S) /\ Len(q) \in Nat \ {0} /\ Len(RemoveAt(q, n)) = Len(q) - 1
         /\ DOMAIN q = 1..Len(q) /\ DOMAIN RemoveAt(q, n) = 1..(Len(q) - 1)
         /\ \A i \in 1..(Len(q) - 1) :
               RemoveAt(q, n)[i] = q[IF i < n THEN i ELSE i + 1]
<1> DEFINE before == SubSeq(q, 1, n - 1)
           after == SubSeq(q, n + 1, Len(q))
<1>1. /\ Len(q) \in Nat \ {0} /\ DOMAIN q = 1..Len(q) /\ n \in Int /\ 1 <= n /\ n <= Len(q)
  OBVIOUS
<1>2. /\ before \in Seq(S) /\ Len(before) = n - 1
      /\ \A i \in 1..(n - 1) : before[i] = q[i]
  BY <1>1
<1>3. /\ after \in Seq(S) /\ Len(after) = Len(q) - n
      /\ \A i \in 1..(Len(q) - n) : after[i] = q[n + i]
  <2>1. n + 1 \in Int /\ Len(q) \in Int /\ (n + 1 <= Len(q) + 1)
        /\ \A i \in (n + 1)..Len(q) : i \in 1..Len(q) /\ q[i] \in S
    BY <1>1
  <2>2. /\ after \in Seq(S)
        /\ Len(after) = IF n + 1 <= Len(q) THEN Len(q) - (n + 1) + 1 ELSE 0
        /\ \A i \in 1..(Len(q) - (n + 1) + 1) : after[i] = q[(n + 1) + i - 1]
    BY <2>1, SubSeqProperties
  <2> HIDE DEF after
  <2>3. \A i \in 1..(Len(q) - n) : i \in 1..(Len(q) - (n + 1) + 1) /\ (n + 1) + i - 1 = n + i
    BY <1>1
  <2>4. Len(after) = Len(q) - n
    <3>1. CASE n + 1 <= Len(q)
      <4>1. Len(after) = Len(q) - (n + 1) + 1
        BY <2>2, <3>1
      <4> QED BY <1>1, <4>1
    <3>2. CASE ~(n + 1 <= Len(q))
      <4>1. Len(after) = 0
        BY <2>2, <3>2
      <4>2. n \in Int /\ Len(q) \in Int /\ n <= Len(q)
        BY <1>1
      <4>3. n = Len(q)
        BY <3>2, <4>2
      <4> QED BY <4>1, <4>2, <4>3
    <3> QED BY <3>1, <3>2
  <2>5. \A i \in 1..(Len(q) - n) : after[i] = q[n + i]
    BY <2>2, <2>3
  <2> QED BY <2>2, <2>4, <2>5
<1> HIDE DEF before, after
<1>8. before \in Seq(S) /\ after \in Seq(S)
  BY <1>2, <1>3
<1>4. /\ before \o after \in Seq(S) /\ Len(before \o after) = Len(before) + Len(after)
      /\ DOMAIN (before \o after) = 1..(Len(before) + Len(after))
      /\ \A i \in 1..Len(before) : (before \o after)[i] = before[i]
      /\ \A i \in 1..(Len(before) + Len(after)) :
            i > Len(before) => (before \o after)[i] = after[i - Len(before)]
  BY <1>8, ConcatIs
<1>5. ASSUME NEW i \in 1..(Len(q) - 1)
      PROVE  (before \o after)[i] = q[IF i < n THEN i ELSE i + 1]
  <2>1. CASE i < n
    <3>1. i \in 1..(n - 1) /\ i \in 1..Len(before)
      BY <1>1, <1>2, <2>1
    <3> QED BY <1>2, <1>4, <2>1, <3>1
  <2>2. CASE ~(i < n)
    <3>1. /\ i \in 1..(Len(before) + Len(after)) /\ i > Len(before)
          /\ i - Len(before) = i - n + 1 /\ i - n + 1 \in 1..(Len(q) - n)
          /\ n + (i - n + 1) = i + 1
      BY <1>1, <1>2, <1>3, <2>2
    <3>2. (before \o after)[i] = after[i - n + 1]
      BY <1>4, <3>1
    <3> QED BY <1>3, <2>2, <3>1, <3>2
  <2> QED BY <2>1, <2>2
<1>6. RemoveAt(q, n) = before \o after
  BY DEF RemoveAt, before, after
<1>7. Len(before) + Len(after) = Len(q) - 1
  BY <1>1, <1>2, <1>3
<1> QED BY <1>1, <1>4, <1>5, <1>6, <1>7

LEMMA LeastExists ==
  ASSUME NEW S \in SUBSET Nat, S # {}
  PROVE  Min(S) \in S /\ \A k \in S : Min(S) <= k
<1>1. PICK m \in S : \A k \in S : ~(<<k, m>> \in OpToRel(<, Nat))
  BY NatLessThanWellFounded, WFMin, Zenon
<1>2. OpToRel(<, Nat) = {p \in Nat \X Nat : p[1] < p[2]}
  BY DEF OpToRel
<1>3. \A k \in S : ~(k < m)
  <2> TAKE k \in S
  <2>1. <<k, m>> \in Nat \X Nat /\ <<k, m>>[1] = k /\ <<k, m>>[2] = m
    OBVIOUS
  <2> QED BY <1>1, <1>2, <2>1
<1>4. \A k \in S : m <= k
  BY <1>3
<1> QED BY <1>4 DEF Min

LEMMA RemoveFirstIs ==
  ASSUME NEW q \in Seq(Nat), NEW x
  PROVE  RemoveFirst(q, x) \in Seq(Nat)
<1> DEFINE at == {i \in 1..Len(q) : q[i] = x}
<1>1. CASE \E i \in 1..Len(q) : q[i] = x
  <2>1. at # {} /\ at \in SUBSET Nat
    BY <1>1
  <2>2. Min(at) \in at
    BY <2>1, LeastExists, Zenon
  <2>3. SelectInSeq(q, LAMBDA v : v = x) = Min(at)
    BY <2>1 DEF SelectInSeq
  <2> QED BY <1>1, <2>2, <2>3, RemoveAtIs DEF RemoveFirst
<1>2. CASE ~ \E i \in 1..Len(q) : q[i] = x
  BY <1>2 DEF RemoveFirst
<1> QED BY <1>1, <1>2

-----------------------------------------------------------------------------
(* What the actions do. *)

LEMMA LineTypes ==
  /\ AnyTarget \in Targets /\ AnyText \in Texts
  /\ \A kind \in LinkKinds, of, label \in Nat, target \in Targets, text \in Texts :
       /\ Line(kind, of, target, text, label) \in Links
       /\ [Line(kind, of, target, text, label) EXCEPT !.label = 0, !.batch = label] \in Links
       /\ Bare(kind, label) \in Links
  /\ \A kind \in {"del", "new", "req", "granted"}, cap \in Capability \cup {""} :
       CapLine(kind, cap) \in Links
<1>1. AnyTarget \in Targets /\ AnyText \in Texts
  BY ConfirmedSendingAssumption DEF AnyTarget, AnyText
<1>2. ASSUME NEW kind \in LinkKinds, NEW of \in Nat, NEW label \in Nat, NEW target \in Targets, NEW text \in Texts
      PROVE  /\ Line(kind, of, target, text, label) \in Links
             /\ [Line(kind, of, target, text, label) EXCEPT !.label = 0, !.batch = label]
                  \in Links
  BY <1>2 DEF Line, Links
<1>3. \A kind \in LinkKinds, label \in Nat : Bare(kind, label) \in Links
  BY <1>1, <1>2 DEF Bare, LinkKinds
<1>4. ASSUME NEW kind \in {"del", "new", "req", "granted"}, NEW cap \in Capability \cup {""}
      PROVE  CapLine(kind, cap) \in Links
  <2>1. Bare(kind, 0) \in Links
    BY <1>3 DEF LinkKinds
  <2> QED BY <2>1 DEF CapLine, Links
<1> QED BY <1>1, <1>2, <1>3, <1>4, Zenon

LEMMA EventTypes ==
  /\ NoMore \in Told
  /\ \A kind \in {"accepted", "message", "confirmed", "failed", "disconnected"},
        id, of \in Nat, target \in Targets, text \in Texts \cup {AsSent} :
       Event(kind, id, of, target, text) \in Told
BY LineTypes DEF NoMore, Event, Told

LEMMA AnswerTypes ==
  ASSUME NEW p \in Pendings
  PROVE  /\ Failed(p) \in Told /\ Failed(p).kind = "failed"
         /\ Failed(p).id = p.id /\ Failed(p).of = p.of /\ Failed(p).target = p.target
         /\ Failed(p).text \in Texts
         /\ \A m \in Links :
               /\ Answer(p, m) \in Told /\ Answer(p, m).kind \in {"confirmed", "failed"}
               /\ Answer(p, m).id = p.id /\ Answer(p, m).of = p.of
               /\ Answer(p, m).target = p.target
               /\ Answer(p, m).kind = "confirmed" =>
                    Answer(p, m).text = IF m.kind = "ack" \/ m.text = p.text THEN AsSent
                                        ELSE m.text
               /\ Answer(p, m).kind # "confirmed" => Answer(p, m).text \in Texts
<1>1. /\ p.id \in Nat \ {0} /\ p.of \in Nat /\ p.target \in Targets /\ p.text \in Texts
  BY DEF Pendings
<1>2. /\ Failed(p) \in Told /\ Failed(p).kind = "failed"
      /\ Failed(p).id = p.id /\ Failed(p).of = p.of /\ Failed(p).target = p.target
      /\ Failed(p).text \in Texts
  BY <1>1 DEF Failed, Event, Told
<1>3. ASSUME NEW m \in Links, m.kind # "error"
      PROVE  Answer(p, m) \in Told /\ Answer(p, m).kind = "confirmed"
             /\ Answer(p, m).id = p.id /\ Answer(p, m).of = p.of
             /\ Answer(p, m).target = p.target
             /\ Answer(p, m).text = IF m.kind = "ack" \/ m.text = p.text THEN AsSent
                                        ELSE m.text
  <2> DEFINE text == IF m.kind = "ack" \/ m.text = p.text THEN AsSent ELSE m.text
  <2>1. text \in Texts \cup {AsSent}
    BY <1>3 DEF Links
  <2>2. Answer(p, m) = Event("confirmed", p.id, p.of, p.target, text)
    BY <1>3 DEF Answer
  <2> HIDE DEF text
  <2>3. Answer(p, m) \in Told /\ Answer(p, m).kind = "confirmed"
             /\ Answer(p, m).id = p.id /\ Answer(p, m).of = p.of
             /\ Answer(p, m).target = p.target /\ Answer(p, m).text = text
    BY <1>1, <2>1, <2>2 DEF Event, Told
  <2> QED BY <2>3 DEF text
<1>4. \A m \in Links : m.kind = "error" => Answer(p, m) = Failed(p)
  BY DEF Answer
<1> QED BY <1>2, <1>3, <1>4

LEMMA WorkerParts ==
  ASSUME NEW w \in Workers
  PROVE  /\ w.up \in BOOLEAN /\ w.enabled \in SUBSET Capability /\ w.pending \in Seq(Pendings)
         /\ w.nextLabel \in Nat /\ w.batches \in Seq(Nat) /\ w.nextId \in Nat
         /\ w.nextLabel + 1 \in Nat /\ w.nextId + 1 \in Nat
<1>1. w.nextLabel \in Nat /\ w.nextId \in Nat
  BY DEF Workers
<1> QED BY <1>1 DEF Workers

(* A message is tracked, sent without being waited for, or not written. *)
Tracked(p, target, text) ==
    /\ p \in Pendings /\ p.id = worker.nextId + 1 /\ p.of = sends + 1
    /\ p.target = target /\ p.text = text
    /\ \/ p.label = 0 /\ worker'.nextLabel = worker.nextLabel
       \/ p.label = worker.nextLabel + 1 /\ worker'.nextLabel = worker.nextLabel + 1
    /\ "echo" \in worker.enabled /\ Len(worker.pending) < MaxPending
    /\ worker'.pending = Append(worker.pending, p)
    /\ toServer' = Append(toServer, Line("text", sends + 1, target, text, p.label))
    /\ events' = Append(events, Event("accepted", p.id, sends + 1, target, text))

Unseen(target, text) ==
    /\ worker'.pending = worker.pending /\ worker'.nextLabel = worker.nextLabel
    /\ toServer' = Append(toServer, Line("text", sends + 1, target, text, 0))
    /\ events' = Append(events, Event("accepted", 0, sends + 1, target, text))

Unwritten ==
    /\ worker'.pending = worker.pending /\ worker'.nextLabel >= worker.nextLabel
    /\ UNCHANGED <<toServer, events>>

SendsOn ==
    /\ worker.up /\ worker'.up /\ worker' \in Workers
    /\ worker'.nextId = worker.nextId + 1
    /\ worker'.enabled = worker.enabled /\ worker'.batches = worker.batches
    /\ sends' = sends + 1
    /\ UNCHANGED <<toClient, server, windowVars, relayed>>

LEMMA SendIs ==
  ASSUME TypeOK, NEW target \in Targets, NEW text \in Texts, NEW written \in BOOLEAN,
         Send(target, text, written)
  PROVE  /\ SendsOn
         /\ \/ \E p \in Pendings : Tracked(p, target, text)
            \/ Unseen(target, text)
            \/ Unwritten
<1> DEFINE w == [worker EXCEPT !.nextId = @ + 1]
           label == IF Labeled(w) THEN w.nextLabel + 1 ELSE 0
           p == [id |-> w.nextId, of |-> sends + 1, target |-> target, text |-> text,
                 label |-> label]
           new == Track(w, sends + 1, target, text)
<1>7. worker \in Workers /\ sends \in Nat
  BY DEF TypeOK
<1>1. /\ w \in Workers /\ w.nextId = worker.nextId + 1 /\ w.pending = worker.pending
      /\ w.nextLabel = worker.nextLabel /\ w.enabled = worker.enabled
      /\ w.batches = worker.batches /\ w.up = worker.up
      /\ worker \in Workers /\ sends \in Nat
  BY <1>7, WorkerParts DEF Workers
<1>2. p \in Pendings
  BY <1>1 DEF Pendings, Workers
<1>3. worker.up /\ sends' = sends + 1 /\ UNCHANGED <<toClient, server, windowVars, relayed>>
  BY DEF Send
<1>4. worker.pending \in Seq(Pendings)
  BY DEF TypeOK, Workers
<1>5. CASE Tracks(w)
  <2>1. /\ new = [w EXCEPT !.pending = Append(@, p),
                           !.nextLabel = IF Labeled(w) THEN @ + 1 ELSE @]
    BY <1>5 DEF Track
  <2> HIDE DEF p, w
  <2>2. Append(w.pending, p) \in Seq(Pendings)
    BY <1>1, <1>2, <1>4
  <2>3. /\ new \in Workers /\ new.pending = Append(worker.pending, p)
        /\ new.nextId = worker.nextId + 1 /\ new.enabled = worker.enabled
        /\ new.batches = worker.batches /\ new.up = worker.up
        /\ new.nextLabel = IF Labeled(w) THEN worker.nextLabel + 1 ELSE worker.nextLabel
    <3>1. (IF Labeled(w) THEN w.nextLabel + 1 ELSE w.nextLabel) \in Nat
      BY <1>1, WorkerParts
    <3> QED BY <1>1, <2>1, <2>2, <3>1 DEF Workers
  <2> HIDE DEF new
  <2>4. new.pending # w.pending /\ Last(new.pending) = p
    BY <1>1, <1>2, <1>4, <2>3, AppendIs DEF Last
  <2>5. p.id = w.nextId /\ p.of = sends + 1 /\ p.target = target /\ p.text = text
        /\ p.label = label
    BY DEF p
  <2>6. CASE written
    <3>1. /\ worker' = new
          /\ toServer' = Append(toServer, Line("text", sends + 1, target, text, p.label))
          /\ events' = Append(events, Event("accepted", p.id, sends + 1, target, text))
      BY <2>4, <2>5, <2>6 DEF Send, new, w
    <3>2. SendsOn
      BY <1>3, <2>3, <3>1 DEF SendsOn
    <3>3. "echo" \in worker.enabled /\ Len(worker.pending) < MaxPending
      BY <1>1, <1>5 DEF Tracks
    <3>4. \/ p.label = 0 /\ worker'.nextLabel = worker.nextLabel
          \/ p.label = worker.nextLabel + 1 /\ worker'.nextLabel = worker.nextLabel + 1
      BY <1>1, <2>3, <2>5, <3>1
    <3>5. Tracked(p, target, text)
      BY <1>1, <1>2, <2>3, <2>5, <3>1, <3>3, <3>4 DEF Tracked
    <3> QED BY <1>2, <3>2, <3>5
  <2>7. CASE ~written
    <3>1. worker' = [new EXCEPT !.pending = w.pending] /\ UNCHANGED <<toServer, events>>
      BY <2>7 DEF Send, new, w
    <3>2. /\ worker' \in Workers /\ worker'.pending = worker.pending
          /\ worker'.nextId = worker.nextId + 1 /\ worker'.enabled = worker.enabled
          /\ worker'.batches = worker.batches /\ worker'.up = worker.up
          /\ worker'.nextLabel = new.nextLabel
      BY <1>1, <2>3, <3>1 DEF Workers
    <3>3. worker'.nextLabel >= worker.nextLabel
      BY <1>1, <2>3, <3>2 DEF Workers
    <3> QED BY <1>3, <3>1, <3>2, <3>3 DEF SendsOn, Unwritten
  <2> QED BY <2>6, <2>7
<1>6. CASE ~Tracks(w)
  <2>1. new = w
    BY <1>6 DEF Track
  <2>2. CASE written
    <3>1. /\ worker' = w
          /\ toServer' = Append(toServer, Line("text", sends + 1, target, text, 0))
          /\ events' = Append(events, Event("accepted", 0, sends + 1, target, text))
      BY <2>1, <2>2 DEF Send
    <3> QED BY <1>1, <1>3, <3>1 DEF SendsOn, Unseen
  <2>3. CASE ~written
    <3>1. worker' = [w EXCEPT !.pending = w.pending] /\ UNCHANGED <<toServer, events>>
      BY <2>1, <2>3 DEF Send
    <3>2. worker' = w
      BY <1>1, <3>1 DEF Workers
    <3> HIDE DEF w
    <3>3. SendsOn
      BY <1>1, <1>3, <3>2 DEF SendsOn
    <3>4. worker'.nextLabel >= worker.nextLabel
      BY <1>1, <3>2 DEF Workers
    <3>5. Unwritten
      BY <1>1, <3>1, <3>2, <3>4 DEF Unwritten
    <3> QED BY <3>3, <3>5
  <2> QED BY <2>2, <2>3
<1> QED BY <1>5, <1>6

LEMMA MatchingIs ==
  ASSUME NEW w \in Workers, NEW m
  PROVE  \/ /\ Matching(w, m) = 0
            /\ \A i \in DOMAIN w.pending : ~Belongs(w, m, w.pending[i])
         \/ /\ Matching(w, m) \in DOMAIN w.pending
            /\ Belongs(w, m, w.pending[Matching(w, m)])
            /\ Matching(w, m) # 0
<1> DEFINE candidates == {i \in 1..Len(w.pending) : Belongs(w, m, w.pending[i])}
<1>1. w.pending \in Seq(Pendings) /\ DOMAIN w.pending = 1..Len(w.pending)
  BY WorkerParts
<1>2. Matching(w, m) = IF candidates # {} THEN Min(candidates) ELSE 0
  BY DEF Matching, SelectInSeq
<1>3. CASE candidates = {}
  BY <1>1, <1>2, <1>3
<1>4. CASE candidates # {}
  <2>1. candidates \in SUBSET Nat
    OBVIOUS
  <2>2. Min(candidates) \in candidates
    BY <1>4, <2>1, LeastExists, Zenon
  <2> QED BY <1>1, <1>2, <1>4, <2>2
<1> QED BY <1>3, <1>4

(* A line is taken. *)
Taken ==
    /\ worker.up /\ worker'.up /\ worker' \in Workers
    /\ worker'.nextId = worker.nextId /\ worker'.nextLabel = worker.nextLabel
    /\ toClient # <<>> /\ toClient' = Tail(toClient)
    /\ worker'.enabled = Negotiate(worker, Head(toClient)).enabled
    /\ worker'.pending # <<>> => "echo" \in worker'.enabled
    /\ \/ toServer' = toServer
       \/ \E cap \in Capability : toServer' = Append(toServer, CapLine("req", cap))
    /\ UNCHANGED <<server, windowVars, relayed, sends>>

Stopped ==
    /\ Head(toClient).kind = "del"
    /\ worker'.pending = <<>>
    /\ events' = events \o [i \in DOMAIN worker.pending |-> Failed(worker.pending[i])]

Answered(i) ==
    /\ i \in DOMAIN worker.pending /\ Belongs(worker, Head(toClient), worker.pending[i])
    /\ worker'.pending = RemoveAt(worker.pending, i)
    /\ worker'.batches = worker.batches
    /\ events' = Append(events, Answer(worker.pending[i], Head(toClient)))

ShownAsMessage ==
    /\ Head(toClient).kind = "text"
    /\ \A i \in DOMAIN worker.pending : ~Belongs(worker, Head(toClient), worker.pending[i])
    /\ worker'.pending = worker.pending /\ worker'.batches = worker.batches
    /\ events' = Append(events, Event("message", 0, Head(toClient).of, Head(toClient).target,
                                      Head(toClient).text))

Unanswered ==
    /\ Head(toClient).kind # "text"
    /\ worker'.pending = worker.pending
    /\ Head(toClient).kind = "open"
         /\ (\E i \in DOMAIN worker.pending : worker.pending[i].label = Head(toClient).label)
       => Head(toClient).label \in ToSet(worker'.batches)
    /\ events' = events

LEMMA FrameIs ==
  ASSUME NEW w \in Workers, NEW m \in Links
  PROVE  /\ Frame(w, m) \in Workers
         /\ Frame(w, m).pending = w.pending /\ Frame(w, m).nextId = w.nextId
         /\ Frame(w, m).nextLabel = w.nextLabel /\ Frame(w, m).enabled = w.enabled
         /\ Frame(w, m).up = w.up
         /\ m.kind = "open" => m.label \in ToSet(Frame(w, m).batches)
<1> DEFINE kept == IF Len(w.batches) >= MaxBatches THEN Tail(w.batches) ELSE w.batches
           batches == IF m.kind = "open" THEN Append(RemoveFirst(kept, m.label), m.label)
                      ELSE RemoveFirst(w.batches, m.label)
<1>1. w.batches \in Seq(Nat) /\ m.label \in Nat
  BY WorkerParts DEF Links
<1>2. kept \in Seq(Nat)
  <2>1. CASE Len(w.batches) >= MaxBatches
    <3>1. w.batches # <<>>
      BY <1>1, <2>1, ConfirmedSendingAssumption
    <3> QED BY <1>1, <2>1, <3>1
  <2> QED BY <1>1, <2>1
<1>3. RemoveFirst(kept, m.label) \in Seq(Nat) /\ RemoveFirst(w.batches, m.label) \in Seq(Nat)
  BY <1>1, <1>2, RemoveFirstIs
<1> HIDE DEF kept
<1>4. batches \in Seq(Nat) /\ (m.kind = "open" => m.label \in ToSet(batches))
  <2>1. CASE m.kind = "open"
    <3> DEFINE rest == RemoveFirst(kept, m.label)
    <3>1. rest \in Seq(Nat) /\ batches = Append(rest, m.label)
      BY <1>3, <2>1
    <3> HIDE DEF rest, batches
    <3>2. /\ batches \in Seq(Nat) /\ Len(rest) + 1 \in DOMAIN batches
          /\ batches[Len(rest) + 1] = m.label
      BY <1>1, <3>1
    <3> QED BY <3>2 DEF ToSet
  <2>2. CASE m.kind # "open"
    BY <1>3, <2>2
  <2> QED BY <2>1, <2>2
<1>5. Frame(w, m) = [w EXCEPT !.batches = batches]
  BY DEF Frame, kept
<1> HIDE DEF batches
<1> QED BY <1>4, <1>5 DEF Workers

LEMMA ReceiveIs ==
  ASSUME TypeOK, PendingInv, Receive
  PROVE  Taken /\ ((\E i \in DOMAIN worker.pending : Answered(i))
                     \/ Stopped \/ ShownAsMessage \/ Unanswered)
<1> DEFINE m == Head(toClient)
           w == Negotiate(worker, m)
           stops == "echo" \notin w.enabled /\ w.pending # <<>>
           seen == Observe(IF stops THEN Reset(w) ELSE w, m)
           failures == IF stops THEN [i \in DOMAIN w.pending |-> Failed(w.pending[i])] ELSE <<>>
<1>1. /\ worker.up /\ toClient # <<>> /\ toClient' = Tail(toClient)
      /\ worker' = seen.w /\ events' = events \o failures \o seen.tells
      /\ toServer' = IF m.kind = "new" THEN Append(toServer, CapLine("req", m.cap)) ELSE toServer
      /\ UNCHANGED <<server, windowVars, relayed, sends>>
  BY DEF Receive
<1>2. worker \in Workers /\ toClient \in Seq(Links) /\ events \in Seq(Told)
  BY DEF TypeOK
<1>3. m \in Links /\ (m.kind \in {"granted", "new"} => m.cap \in Capability)
  <2>1. toClient # <<>>
    BY <1>1
  <2>2. m \in Links /\ m = toClient[1] /\ 1 \in DOMAIN toClient
    BY <1>2, <2>1
  <2> QED BY <2>2 DEF TypeOK
<1>4. /\ w \in Workers /\ w.pending = worker.pending /\ w.batches = worker.batches
      /\ w.nextId = worker.nextId /\ w.nextLabel = worker.nextLabel /\ w.up = worker.up
      /\ m.kind \notin {"del", "granted"} => w = worker
  <2>1. worker.enabled \in SUBSET Capability
    BY <1>2, WorkerParts
  <2> DEFINE enabled == IF m.kind = "del" THEN worker.enabled \ {m.cap}
                        ELSE IF m.kind = "granted" THEN worker.enabled \cup {m.cap}
                        ELSE worker.enabled
  <2>2. enabled \in SUBSET Capability /\ (m.kind \notin {"del", "granted"} => enabled = worker.enabled)
    BY <1>3, <2>1
  <2>3. w = [worker EXCEPT !.enabled = enabled]
    BY DEF Negotiate
  <2> HIDE DEF enabled
  <2> QED BY <1>2, <2>2, <2>3 DEF Workers
<1>5. worker.pending # <<>> => "echo" \in worker.enabled
  BY <1>1 DEF PendingInv
<1>6. stops => m.kind = "del"
  BY <1>2, <1>4, <1>5 DEF Negotiate, Workers
<1>7. /\ toServer' = toServer
         \/ \E cap \in Capability : toServer' = Append(toServer, CapLine("req", cap))
      /\ events' = (events \o failures) \o seen.tells
  BY <1>1, <1>3
<1> HIDE DEF m
<1>8. CASE stops
  <2>1. m.kind = "del"
    BY <1>6, <1>8
  <2>2. Reset(w) \in Workers /\ Reset(w).pending = <<>> /\ Reset(w).nextId = w.nextId
        /\ Reset(w).nextLabel = w.nextLabel /\ Reset(w).up = w.up /\ Reset(w).enabled = w.enabled
    <3>1. <<>> \in Seq(Pendings) /\ <<>> \in Seq(Nat)
      OBVIOUS
    <3> HIDE DEF w
    <3> QED BY <1>4, <3>1 DEF Reset, Workers
  <2>3. Matching(Reset(w), m) = 0
    BY <2>1, <2>2, MatchingIs DEF Belongs
  <2> HIDE DEF w
  <2>4. seen = [w |-> Reset(w), tells |-> <<>>]
    BY <1>8, <2>1, <2>3 DEF Observe, Framing
  <2>5. failures \in Seq(Told) /\ failures = [i \in DOMAIN worker.pending |-> Failed(worker.pending[i])]
    <3>1. worker.pending \in Seq(Pendings)
      BY <1>2, WorkerParts
    <3>2. \A i \in DOMAIN worker.pending : Failed(worker.pending[i]) \in Told
      BY <3>1, AnswerTypes
    <3>3. failures = [i \in DOMAIN worker.pending |-> Failed(worker.pending[i])]
      BY <1>4, <1>8
    <3> QED BY <3>1, <3>2, <3>3
  <2> HIDE DEF seen, failures
  <2>6. events' = events \o failures
    <3>1. (events \o failures) \o <<>> = events \o failures
      BY <1>2, <2>5
    <3> QED BY <1>7, <2>4, <3>1
  <2>7. worker' = Reset(w)
    BY <1>1, <2>4
  <2>8. Stopped
    BY <2>1, <2>2, <2>5, <2>6, <2>7 DEF Stopped, m
  <2>9. worker'.enabled = Negotiate(worker, Head(toClient)).enabled
    BY <2>2, <2>7 DEF w, m
  <2>10. Taken
    BY <1>1, <1>4, <1>7, <2>2, <2>7, <2>9 DEF Taken
  <2> QED BY <2>8, <2>10
<1>9. CASE ~stops
  <2>1. failures = <<>> /\ events \o <<>> = events
    BY <1>2, <1>9
  <2>2. seen = Observe(w, m) /\ (w.pending # <<>> => "echo" \in w.enabled)
    BY <1>9
  <2> HIDE DEF failures
  <2>3. worker' = Observe(w, m).w /\ events' = events \o Observe(w, m).tells
    BY <1>1, <2>1, <2>2
  <2> HIDE DEF seen, stops, w
  <2>4. w.enabled = Negotiate(worker, Head(toClient)).enabled
    BY DEF w, m
  <2>5. CASE Framing(m)
    <3>1. /\ worker' = IF Frames(w, m) THEN Frame(w, m) ELSE w
          /\ events' = events
      BY <1>2, <2>3, <2>5 DEF Observe
    <3>2. /\ worker' \in Workers /\ worker'.pending = w.pending /\ worker'.nextId = w.nextId
          /\ worker'.nextLabel = w.nextLabel /\ worker'.enabled = w.enabled /\ worker'.up = w.up
          /\ Frames(w, m) /\ m.kind = "open" => m.label \in ToSet(worker'.batches)
      BY <1>3, <1>4, <3>1, FrameIs
    <3>3. Taken
      BY <1>1, <1>4, <1>7, <2>2, <2>4, <3>2 DEF Taken
    <3>4. m.kind # "text"
      BY <2>5 DEF Framing
    <3>5. m.kind = "open" /\ (\E i \in DOMAIN worker.pending : worker.pending[i].label = m.label)
            => m.label \in ToSet(worker'.batches)
      BY <1>4, <3>2 DEF Frames
    <3>6. Unanswered
      BY <1>4, <3>1, <3>2, <3>4, <3>5 DEF Unanswered, m
    <3> QED BY <3>3, <3>6
  <2>6. CASE ~Framing(m) /\ Matching(w, m) # 0
    <3> DEFINE i == Matching(w, m)
    <3>1. i \in DOMAIN w.pending /\ Belongs(w, m, w.pending[i])
      BY <1>4, <2>6, MatchingIs
    <3>2. m.kind \in {"text", "ack", "error"}
      BY <3>1 DEF Belongs
    <3>3. w = worker
      BY <1>4, <3>2
    <3>4. worker' = Take(w, i) /\ events' = events \o <<Answer(w.pending[i], m)>>
      BY <2>3, <2>6 DEF Observe
    <3> HIDE DEF i
    <3>5. /\ RemoveAt(worker.pending, i) \in Seq(Pendings) /\ worker.pending # <<>>
          /\ DOMAIN worker.pending = 1..Len(worker.pending)
      <4>1. worker.pending \in Seq(Pendings) /\ i \in 1..Len(worker.pending)
        BY <1>2, <3>1, <3>3, WorkerParts
      <4> QED BY <4>1, RemoveAtIs
    <3>6. /\ worker' \in Workers /\ worker'.pending = RemoveAt(worker.pending, i)
          /\ worker'.batches = worker.batches /\ worker'.enabled = worker.enabled
          /\ worker'.nextId = worker.nextId /\ worker'.nextLabel = worker.nextLabel
          /\ worker'.up = worker.up
      BY <1>2, <3>3, <3>4, <3>5 DEF Take, Workers
    <3>7. events' = Append(events, Answer(worker.pending[i], m))
      BY <1>2, <3>3, <3>4
    <3>8. Answered(i)
      BY <3>1, <3>3, <3>6, <3>7 DEF Answered, m
    <3>9. Taken
      BY <1>1, <1>4, <1>7, <2>2, <2>4, <3>3, <3>5, <3>6 DEF Taken
    <3> QED BY <3>1, <3>3, <3>8, <3>9
  <2>7. CASE ~Framing(m) /\ Matching(w, m) = 0
    <3>1. /\ worker' = w
          /\ events' = events \o IF m.kind = "text"
                                 THEN <<Event("message", 0, m.of, m.target, m.text)>>
                                 ELSE <<>>
      BY <2>3, <2>7 DEF Observe
    <3>2. \A i \in DOMAIN w.pending : ~Belongs(w, m, w.pending[i])
      <4>1. w.pending \in Seq(Pendings) /\ 0 \notin DOMAIN w.pending
        BY <1>4, WorkerParts
      <4> QED BY <1>4, <2>7, <4>1, MatchingIs
    <3>3. Taken
      BY <1>1, <1>4, <1>7, <2>2, <2>4, <3>1 DEF Taken
    <3>4. CASE m.kind = "text"
      <4>1. w = worker
        BY <1>4, <3>4
      <4>2. events' = Append(events, Event("message", 0, m.of, m.target, m.text))
        BY <1>2, <3>1, <3>4
      <4>3. ShownAsMessage
        BY <3>1, <3>2, <3>4, <4>1, <4>2 DEF ShownAsMessage, m
      <4> QED BY <3>3, <4>3
    <3>5. CASE m.kind # "text"
      <4>1. events' = events
        BY <1>2, <3>1, <3>5
      <4>2. m.kind # "open"
        BY <2>7 DEF Framing
      <4>3. Unanswered
        BY <1>4, <3>1, <3>5, <4>1, <4>2 DEF Unanswered, m
      <4> QED BY <3>3, <4>3
    <3> QED BY <3>4, <3>5
  <2> QED BY <2>5, <2>6, <2>7
<1> QED BY <1>8, <1>9

(* A pending message is settled, by an answer or because its time is over. *)
Leaves(i, e) ==
    /\ i \in DOMAIN worker.pending
    /\ worker'.pending \in Seq(Pendings)
    /\ DOMAIN worker.pending = 1..Len(worker.pending) /\ Len(worker.pending) \in Nat
    /\ Len(worker'.pending) = Len(worker.pending) - 1
    /\ DOMAIN worker'.pending = 1..(Len(worker.pending) - 1)
    /\ \A j \in 1..(Len(worker.pending) - 1) :
          worker'.pending[j] = worker.pending[IF j < i THEN j ELSE j + 1]
    /\ e \in Told /\ Settles(e) /\ (e.kind = "failed" => e.text \in Texts)
    /\ e.id = worker.pending[i].id /\ e.of = worker.pending[i].of
    /\ e.target = worker.pending[i].target
    /\ events' = Append(events, e)

LEMMA AnsweredLeaves ==
  ASSUME TypeOK, Taken, NEW i \in DOMAIN worker.pending, Answered(i)
  PROVE  Leaves(i, Answer(worker.pending[i], Head(toClient)))
<1>1. /\ worker.pending \in Seq(Pendings) /\ worker'.pending \in Seq(Pendings)
      /\ toClient \in Seq(Links) /\ toClient # <<>>
  BY WorkerParts DEF TypeOK, Taken
<1>2. i \in 1..Len(worker.pending) /\ worker.pending[i] \in Pendings /\ Head(toClient) \in Links
  BY <1>1
<1>3. worker'.pending = RemoveAt(worker.pending, i)
  BY DEF Answered
<1>4. /\ DOMAIN worker.pending = 1..Len(worker.pending) /\ Len(worker.pending) \in Nat
      /\ Len(worker'.pending) = Len(worker.pending) - 1
      /\ DOMAIN worker'.pending = 1..(Len(worker.pending) - 1)
      /\ \A j \in 1..(Len(worker.pending) - 1) :
            worker'.pending[j] = worker.pending[IF j < i THEN j ELSE j + 1]
  <2> DEFINE rest == RemoveAt(worker.pending, i)
  <2>1. /\ DOMAIN worker.pending = 1..Len(worker.pending) /\ Len(worker.pending) \in Nat
        /\ Len(rest) = Len(worker.pending) - 1
        /\ DOMAIN rest = 1..(Len(worker.pending) - 1)
        /\ \A j \in 1..(Len(worker.pending) - 1) :
              rest[j] = worker.pending[IF j < i THEN j ELSE j + 1]
    BY <1>1, <1>2, RemoveAtIs
  <2> HIDE DEF rest
  <2>2. worker'.pending = rest
    BY <1>3 DEF rest
  <2> QED BY <2>1, <2>2
<1> DEFINE e == Answer(worker.pending[i], Head(toClient))
<1>5. /\ e \in Told /\ e.kind \in {"confirmed", "failed"} /\ (e.kind = "failed" => e.text \in Texts)
      /\ e.id = worker.pending[i].id /\ e.of = worker.pending[i].of
      /\ e.target = worker.pending[i].target
  BY <1>2, AnswerTypes
<1>6. events' = Append(events, e)
  BY DEF Answered
<1> QED BY <1>1, <1>2, <1>4, <1>5, <1>6 DEF Leaves, Settles

LEMMA ExpireIs ==
  ASSUME TypeOK, Expire
  PROVE  /\ Leaves(1, Failed(worker.pending[1]))
         /\ worker.up /\ worker'.up /\ worker' \in Workers
         /\ worker'.nextId = worker.nextId /\ worker'.nextLabel = worker.nextLabel
         /\ worker'.batches = worker.batches /\ worker'.enabled = worker.enabled
         /\ UNCHANGED <<toServer, toClient, server, windowVars, relayed, sends>>
<1>1. worker.pending \in Seq(Pendings) /\ worker \in Workers
  BY WorkerParts DEF TypeOK
<1>2. /\ worker.up /\ worker.pending # <<>>
      /\ worker' = [worker EXCEPT !.pending = Tail(@)]
      /\ events' = Append(events, Failed(Head(worker.pending)))
      /\ UNCHANGED <<toServer, toClient, server, windowVars, relayed, sends>>
  BY DEF Expire
<1>3. /\ Tail(worker.pending) \in Seq(Pendings) /\ Len(worker.pending) \in Nat \ {0}
      /\ DOMAIN worker.pending = 1..Len(worker.pending)
      /\ Len(Tail(worker.pending)) = Len(worker.pending) - 1
      /\ DOMAIN Tail(worker.pending) = 1..(Len(worker.pending) - 1)
      /\ \A j \in 1..(Len(worker.pending) - 1) :
            Tail(worker.pending)[j] = worker.pending[j + 1]
      /\ Head(worker.pending) = worker.pending[1]
  BY <1>1, <1>2, TailIs
<1>4. /\ worker' \in Workers /\ worker'.pending = Tail(worker.pending) /\ worker'.up = worker.up
      /\ worker'.nextId = worker.nextId /\ worker'.nextLabel = worker.nextLabel
      /\ worker'.batches = worker.batches /\ worker'.enabled = worker.enabled
  BY <1>1, <1>2, <1>3 DEF Workers
<1>5. 1 \in DOMAIN worker.pending /\ worker.pending[1] \in Pendings
  BY <1>1, <1>3
<1>6. \A j \in 1..(Len(worker.pending) - 1) :
            worker'.pending[j] = worker.pending[IF j < 1 THEN j ELSE j + 1]
  BY <1>3, <1>4
<1> DEFINE e == Failed(worker.pending[1])
<1>7. /\ e \in Told /\ e.kind = "failed" /\ e.text \in Texts
      /\ e.id = worker.pending[1].id /\ e.of = worker.pending[1].of
      /\ e.target = worker.pending[1].target
  BY <1>5, AnswerTypes
<1>8. events' = Append(events, e)
  BY <1>2, <1>3
<1>9. Leaves(1, e)
  BY <1>3, <1>4, <1>5, <1>6, <1>7, <1>8 DEF Leaves, Settles
<1> QED BY <1>2, <1>4, <1>9

(* What the window does with the first event. *)
HandlesFirst ==
    /\ events # <<>> /\ events' = Tail(events)
    /\ UNCHANGED <<worker, toServer, toClient, server, relayed, sends>>

LinesGrow(l) == lines' = Append(lines, l)

(* It is told of a message it will follow, and follows it. *)
Follows ==
    LET e == Head(events)
    IN  /\ Waits(e) /\ LinesGrow(Shown(e, TRUE, "sent"))
        /\ DOMAIN following' = DOMAIN following \cup {e.id}
        /\ following'[e.id] = Len(lines) + 1
        /\ \A id \in DOMAIN following : id # e.id => following'[id] = following[id]

(* Of one that is only shown, sent by us or somebody else. *)
Adds ==
    LET e == Head(events)
    IN  /\ following' = following
        /\ \/ e.kind = "accepted" /\ e.id = 0 /\ LinesGrow(Shown(e, TRUE, "sent"))
           \/ e.kind = "message" /\ LinesGrow(Shown(e, FALSE, "received"))

(* Of the answer to one it follows. *)
Concludes ==
    LET e == Head(events)
        n == following[e.id]
    IN  /\ Settles(e) /\ e.id \in DOMAIN following
        /\ DOMAIN following' = DOMAIN following \ {e.id}
        /\ \A id \in DOMAIN following \ {e.id} : following'[id] = following[id]
        /\ DOMAIN lines' = DOMAIN lines
        /\ \A i \in DOMAIN lines : i # n => lines'[i] = lines[i]
        /\ lines'[n].of = lines[n].of /\ lines'[n].target = lines[n].target
        /\ lines'[n].id = lines[n].id /\ lines'[n].own = lines[n].own
        /\ \/ e.kind = "confirmed" /\ lines'[n].status = "confirmed"
              /\ lines'[n].text = FinalText(lines[n], e)
           \/ e.kind = "failed" /\ lines'[n].status = "failed" /\ lines'[n].text = lines[n].text

(* Of the end of the connection. *)
GivesUp ==
    /\ Head(events).kind = "disconnected" /\ following' = << >>
    /\ DOMAIN lines' = DOMAIN lines
    /\ \A i \in DOMAIN lines :
          lines'[i] = IF i \in Range(following) THEN [lines[i] EXCEPT !.status = "failed"]
                      ELSE lines[i]

LEMMA FirstIs ==
  ASSUME TypeOK, FollowInv, events # <<>>
  PROVE  /\ Head(events) \in Told /\ Head(events) = events[1] /\ 1 \in DOMAIN events
         /\ Head(events).kind # "confirmed" => Head(events).text \in Texts
         /\ Waits(Head(events)) =>
              IsFiniteSet(DOMAIN following) /\ Cardinality(DOMAIN following) < Followed
         /\ Settles(Head(events)) =>
              /\ Head(events).id \in DOMAIN following
              /\ lines[following[Head(events).id]].of = Head(events).of
              /\ lines[following[Head(events).id]].target = Head(events).target
<1> DEFINE e == Head(events)
<1>1. events \in Seq(Told) /\ 1 \in DOMAIN events /\ e = events[1] /\ e \in Told
      /\ \A i \in DOMAIN events : i \in Int /\ ~(i < 1)
  <2>1. events \in Seq(Told)
    BY DEF TypeOK
  <2> QED BY <2>1
<1>2. e.kind # "confirmed" => e.text \in Texts
  BY <1>1 DEF TypeOK
<1>3. ASSUME Waits(e) PROVE IsFiniteSet(DOMAIN following) /\ Cardinality(DOMAIN following) < Followed
  <2>1. IsFiniteSet(Open(1)) /\ Cardinality(Open(1)) < MaxPending
    BY <1>1, <1>3 DEF FollowInv, RoomToFollow
  <2>2. \A id : ~Settled(id, 1)
    BY <1>1 DEF Settled
  <2>3. Open(1) = DOMAIN following
    BY <1>1, <2>2 DEF Open
  <2>4. Cardinality(DOMAIN following) \in Nat
    BY <2>1, <2>3, FS_CardinalityType
  <2> QED BY <2>1, <2>3, <2>4, ConfirmedSendingAssumption
<1>4. ASSUME Settles(e)
      PROVE  /\ e.id \in DOMAIN following
             /\ lines[following[e.id]].of = e.of /\ lines[following[e.id]].target = e.target
  <2>1. PICK text \in Texts : Known(e.id, e.of, e.target, text, 1)
    BY <1>1, <1>4 DEF FollowInv, AnswersKnown
  <2> QED BY <1>1, <2>1 DEF Known, Says3
<1> QED BY <1>1, <1>2, <1>3, <1>4

LEMMA HandleIs ==
  ASSUME TypeOK, FollowInv, HandleEvent
  PROVE  HandlesFirst /\ (Follows \/ Adds \/ Concludes \/ GivesUp)
<1> DEFINE e == Head(events)
<1>1. HandlesFirst /\ events # <<>>
  BY DEF HandleEvent, HandlesFirst
<1>2. /\ e \in Told /\ lines \in Seq(Lines) /\ following \in [DOMAIN following -> DOMAIN lines]
      /\ DOMAIN following \in SUBSET (Nat \ {0})
      /\ Waits(e) => Cardinality(DOMAIN following) < Followed
      /\ Settles(e) => e.id \in DOMAIN following
  BY <1>1, FirstIs DEF TypeOK
<1> HIDE DEF e
<1>3. CASE e.kind = "accepted" /\ Accepted(e)
  <2>1. lines' = Append(lines, Shown(e, TRUE, "sent"))
    BY <1>3 DEF Accepted
  <2>2. CASE e.id = 0
    BY <1>1, <1>3, <2>1, <2>2 DEF Accepted, Adds, LinesGrow, e
  <2>3. CASE e.id # 0
    <3>1. Waits(e)
      BY <1>3, <2>3 DEF Waits
    <3>2. following' = With(following, e.id, Len(lines) + 1)
      BY <1>2, <1>3, <2>3, <3>1 DEF Accepted
    <3>3. following' = [x \in {e.id} \cup DOMAIN following |->
                          IF x = e.id THEN Len(lines) + 1 ELSE following[x]]
      BY <3>2 DEF With
    <3>4. /\ DOMAIN following' = DOMAIN following \cup {e.id}
          /\ following'[e.id] = Len(lines) + 1
          /\ \A id \in DOMAIN following : id # e.id => following'[id] = following[id]
      BY <3>3
    <3> QED BY <1>1, <2>1, <3>1, <3>4 DEF Follows, LinesGrow, e
  <2> QED BY <2>2, <2>3
<1>4. ASSUME e.id \in DOMAIN following, following' = Without(following, e.id)
      PROVE  /\ DOMAIN following' = DOMAIN following \ {e.id}
             /\ \A id \in DOMAIN following \ {e.id} : following'[id] = following[id]
  BY <1>4 DEF Without, RestrictDomain, Restrict
<1>5. CASE e.kind = "confirmed" /\ Confirmed(e)
  <2>1. e.id \in DOMAIN following /\ Settles(e)
    BY <1>2, <1>5 DEF Settles
  <2>2. /\ following' = Without(following, e.id)
        /\ lines' = [lines EXCEPT ![following[e.id]].status = "confirmed",
                                  ![following[e.id]].text =
                                       FinalText(lines[following[e.id]], e)]
    BY <1>5, <2>1 DEF Confirmed
  <2> DEFINE n == following[e.id]
             final == FinalText(lines[n], e)
  <2>3. n \in DOMAIN lines /\ lines[n] \in Lines
    BY <1>2, <2>1
  <2> HIDE DEF n, final
  <2>4. lines' = [lines EXCEPT ![n].status = "confirmed", ![n].text = final]
    BY <2>2 DEF n, final
  <2>5. /\ DOMAIN lines' = DOMAIN lines
        /\ \A i \in DOMAIN lines : i # n => lines'[i] = lines[i]
        /\ lines'[n] = [lines[n] EXCEPT !.status = "confirmed", !.text = final]
    BY <1>2, <2>3, <2>4
  <2>6. /\ lines'[n].of = lines[n].of /\ lines'[n].target = lines[n].target
        /\ lines'[n].id = lines[n].id /\ lines'[n].own = lines[n].own
        /\ lines'[n].status = "confirmed" /\ lines'[n].text = final
    BY <2>3, <2>5 DEF Lines
  <2>7. Concludes
    BY <1>4, <1>5, <2>1, <2>2, <2>5, <2>6 DEF Concludes, n, final, e
  <2> QED BY <1>1, <2>7
<1>6. CASE e.kind = "failed" /\ NotConfirmed(e)
  <2>1. e.id \in DOMAIN following /\ Settles(e)
    BY <1>2, <1>6 DEF Settles
  <2>2. /\ following' = Without(following, e.id)
        /\ lines' = [lines EXCEPT ![following[e.id]].status = "failed"]
    BY <1>6, <2>1 DEF NotConfirmed
  <2> DEFINE n == following[e.id]
  <2>3. n \in DOMAIN lines /\ lines[n] \in Lines
    BY <1>2, <2>1
  <2> HIDE DEF n
  <2>4. lines' = [lines EXCEPT ![n].status = "failed"]
    BY <2>2 DEF n
  <2>5. /\ DOMAIN lines' = DOMAIN lines
        /\ \A i \in DOMAIN lines : i # n => lines'[i] = lines[i]
        /\ lines'[n] = [lines[n] EXCEPT !.status = "failed"]
    BY <1>2, <2>3, <2>4
  <2>6. /\ lines'[n].of = lines[n].of /\ lines'[n].target = lines[n].target
        /\ lines'[n].id = lines[n].id /\ lines'[n].own = lines[n].own
        /\ lines'[n].status = "failed" /\ lines'[n].text = lines[n].text
    BY <2>3, <2>5 DEF Lines
  <2>7. Concludes
    BY <1>4, <1>6, <2>1, <2>2, <2>5, <2>6 DEF Concludes, n, e
  <2> QED BY <1>1, <2>7
<1>7. CASE e.kind = "message" /\ MessageShown(e)
  BY <1>1, <1>7 DEF MessageShown, Adds, LinesGrow, e
<1>8. CASE e.kind = "disconnected" /\ Disconnected
  BY <1>1, <1>8 DEF Disconnected, GivesUp, e
<1> QED BY <1>1, <1>3, <1>5, <1>6, <1>7, <1>8 DEF HandleEvent, e

-----------------------------------------------------------------------------
(* The window waits for what is pending. *)

(* What is told later changes nothing about what was told. *)
LEMMA LaterKeeps ==
  ASSUME events \in Seq(Told), events' \in Seq(Told), Len(events) <= Len(events'),
         \A i \in DOMAIN events : events'[i] = events[i],
         UNCHANGED <<following, lines>>,
         NEW k \in Int, k <= Len(events) + 1
  PROVE  /\ \A id : Settled(id, k)' <=> Settled(id, k)
         /\ \A id, of, target, text :
               Known(id, of, target, text, k)' <=> Known(id, of, target, text, k)
         /\ Open(k)' = Open(k)
<1>1. /\ Len(events) \in Nat /\ Len(events') \in Nat
      /\ DOMAIN events = 1..Len(events) /\ DOMAIN events' = 1..Len(events')
  OBVIOUS
<1>2. \A i : i \in DOMAIN events' /\ i < k <=> i \in DOMAIN events /\ i < k
  BY <1>1
<1>3. ASSUME NEW id PROVE Settled(id, k)' <=> Settled(id, k)
  BY <1>2 DEF Settled
<1>4. ASSUME NEW id, NEW of, NEW target, NEW text
      PROVE  Known(id, of, target, text, k)' <=> Known(id, of, target, text, k)
  BY <1>2 DEF Known, Says3
<1>5. {events'[i].id : i \in {j \in DOMAIN events' : j < k /\ Waits(events'[j])}}
        = {events[i].id : i \in {j \in DOMAIN events : j < k /\ Waits(events[j])}}
  BY <1>2
<1>6. Open(k)' = Open(k)
  BY <1>3, <1>5 DEF Open
<1> QED BY <1>3, <1>4, <1>6

(* One more event. *)
LEMMA OneMore ==
  ASSUME events \in Seq(Told), NEW e \in Told, events' = Append(events, e),
         UNCHANGED <<following, lines>>
  PROVE  /\ events' \in Seq(Told) /\ Len(events) \in Nat /\ Len(events') = Len(events) + 1
         /\ DOMAIN events = 1..Len(events) /\ DOMAIN events' = 1..(Len(events) + 1)
         /\ \A i \in DOMAIN events : events'[i] = events[i]
         /\ events'[Len(events) + 1] = e
         /\ End \in Nat /\ End' = End + 1
         /\ \A k \in Int : k <= End =>
              /\ \A id : Settled(id, k)' <=> Settled(id, k)
              /\ \A id, of, target, text :
                    Known(id, of, target, text, k)' <=> Known(id, of, target, text, k)
              /\ Open(k)' = Open(k)
         /\ \A id : Settled(id, End)' <=> Settled(id, End) \/ (Settles(e) /\ e.id = id)
         /\ \A id, of, target, text :
               Known(id, of, target, text, End)'
                 <=> Known(id, of, target, text, End)
                     \/ (Waits(e) /\ e.id = id /\ Says3(e, of, target, text))
         /\ \A id : id \in Open(End)' => id \in Open(End) \/ (Waits(e) /\ id = e.id)
         /\ \A id : id \in Open(End)' => ~(Settles(e) /\ e.id = id)
<1>1. /\ events' \in Seq(Told) /\ Len(events) \in Nat /\ Len(events') = Len(events) + 1
      /\ DOMAIN events = 1..Len(events) /\ DOMAIN events' = 1..(Len(events) + 1)
      /\ \A i \in DOMAIN events : events'[i] = events[i]
      /\ events'[Len(events) + 1] = e
  BY AppendIs
<1>2. End \in Nat /\ End' = End + 1 /\ End = Len(events) + 1
  BY <1>1 DEF End
<1>3. ASSUME NEW k \in Int, k <= End
      PROVE  /\ \A id : Settled(id, k)' <=> Settled(id, k)
             /\ \A id, of, target, text :
                   Known(id, of, target, text, k)' <=> Known(id, of, target, text, k)
             /\ Open(k)' = Open(k)
  <2>1. Len(events) <= Len(events') /\ k <= Len(events) + 1
    BY <1>1, <1>2, <1>3
  <2> QED BY <1>1, <2>1, LaterKeeps
<1>4. \A i : i \in DOMAIN events' /\ i < End' <=> (i \in DOMAIN events /\ i < End) \/ i = End
  BY <1>1, <1>2
<1>5. events'[End] = e /\ \A i \in DOMAIN events : i < End /\ events'[i] = events[i]
  BY <1>1, <1>2
<1>6. ASSUME NEW id PROVE Settled(id, End)' <=> Settled(id, End) \/ (Settles(e) /\ e.id = id)
  <2>1. Settled(id, End)' <=>
          \E i : (i \in DOMAIN events' /\ i < End') /\ Settles(events'[i]) /\ events'[i].id = id
    BY DEF Settled
  <2>2. Settled(id, End) <=>
          \E i : (i \in DOMAIN events /\ i < End) /\ Settles(events[i]) /\ events[i].id = id
    BY DEF Settled
  <2> QED BY <1>4, <1>5, <2>1, <2>2
<1>7. ASSUME NEW id, NEW of, NEW target, NEW text
      PROVE  Known(id, of, target, text, End)'
                 <=> Known(id, of, target, text, End)
                     \/ (Waits(e) /\ e.id = id /\ Says3(e, of, target, text))
  BY <1>4, <1>5 DEF Known, Says3
<1>8. ASSUME NEW id, id \in Open(End)'
      PROVE  /\ id \in Open(End) \/ (Waits(e) /\ id = e.id)
             /\ ~(Settles(e) /\ e.id = id)
  <2>1. /\ id \in DOMAIN following \cup
                    {events'[i].id : i \in {j \in DOMAIN events' : j < End' /\ Waits(events'[j])}}
        /\ ~Settled(id, End)'
    BY <1>8 DEF Open
  <2>2. ~Settled(id, End) /\ ~(Settles(e) /\ e.id = id)
    BY <1>6, <2>1
  <2>3. CASE id \in DOMAIN following
    BY <2>2, <2>3 DEF Open
  <2>4. CASE \E i : i \in DOMAIN events' /\ i < End' /\ Waits(events'[i]) /\ events'[i].id = id
    BY <1>4, <1>5, <2>2, <2>4 DEF Open
  <2> QED BY <2>1, <2>2, <2>3, <2>4
<1> QED BY <1>1, <1>2, <1>3, <1>6, <1>7, <1>8

(* The types of what the invariants compare. *)
LEMMA IdTypes ==
  ASSUME TypeOK
  PROVE  /\ \A i \in DOMAIN worker.pending :
               /\ worker.pending[i] \in Pendings
               /\ worker.pending[i].id \in Nat /\ worker.pending[i].id # 0
               /\ worker.pending[i].target \in Targets /\ worker.pending[i].text \in Texts
         /\ \A id \in DOMAIN following : id \in Nat /\ following[id] \in DOMAIN lines
         /\ \A i \in DOMAIN events : i \in Int /\ events[i] \in Told /\ events[i].id \in Nat
         /\ worker.nextId \in Nat /\ worker.pending \in Seq(Pendings)
         /\ DOMAIN worker.pending = 1..Len(worker.pending) /\ Len(worker.pending) \in Nat
         /\ \A i \in DOMAIN lines : i \in Int /\ lines[i] \in Lines
         /\ DOMAIN lines = 1..Len(lines) /\ Len(lines) \in Nat
<1>1. worker \in Workers /\ worker.pending \in Seq(Pendings) /\ worker.nextId \in Nat
  BY WorkerParts DEF TypeOK
<1>2. \A i \in DOMAIN worker.pending : worker.pending[i] \in Pendings
  BY <1>1
<1>3. events \in Seq(Told) /\ lines \in Seq(Lines)
  BY DEF TypeOK
<1>7. \A i \in DOMAIN events : i \in Int /\ events[i] \in Told
  BY <1>3
<1>4. \A i \in DOMAIN events : i \in Int /\ events[i] \in Told /\ events[i].id \in Nat
  BY <1>7 DEF Told
<1>5. \A id \in DOMAIN following : id \in Nat /\ following[id] \in DOMAIN lines
  BY DEF TypeOK
<1>6. \A i \in DOMAIN worker.pending :
         /\ worker.pending[i].id \in Nat /\ worker.pending[i].id # 0
         /\ worker.pending[i].target \in Targets /\ worker.pending[i].text \in Texts
  BY <1>2 DEF Pendings
<1> QED BY <1>1, <1>2, <1>3, <1>4, <1>5, <1>6

(* Nothing new is told, nothing pending is lost. *)
LEMMA QuietKeepsWait ==
  ASSUME TypeOK, WaitInv, UNCHANGED <<events, following, lines>>,
         worker' \in Workers, worker'.pending = worker.pending, worker'.up = worker.up,
         worker'.nextId >= worker.nextId,
         worker'.up /\ worker'.pending # <<>> => "echo" \in worker'.enabled
  PROVE  WaitInv'
<1>1. worker'.nextId \in Nat /\ worker.nextId \in Nat
  BY WorkerParts DEF TypeOK
<1>2. /\ \A id, k : Settled(id, k)' <=> Settled(id, k)
      /\ \A id, of, target, text, k :
            Known(id, of, target, text, k)' <=> Known(id, of, target, text, k)
      /\ \A k : Open(k)' = Open(k)
      /\ End' = End
  BY DEF Settled, Known, Open, End
<1>3. IdsInv'
  <2>1. /\ \A i \in DOMAIN worker.pending : worker.pending[i].id \in Nat
        /\ \A id \in DOMAIN following : id \in Nat
        /\ \A i \in DOMAIN events : events[i].id \in Nat
    BY IdTypes
  <2> QED BY <1>1, <2>1 DEF WaitInv, IdsInv
<1>4. FollowInv'
  <2>1. FollowedLines'
    BY DEF WaitInv, FollowInv, FollowedLines
  <2>2. AnswersKnown'
    BY <1>2 DEF WaitInv, FollowInv, AnswersKnown
  <2>3. RoomToFollow'
    BY <1>2 DEF WaitInv, FollowInv, RoomToFollow
  <2>4. EndIsLast'
    BY DEF WaitInv, FollowInv, EndIsLast
  <2> QED BY <2>1, <2>2, <2>3, <2>4 DEF FollowInv
<1>5. PendingInv'
  BY <1>2 DEF WaitInv, PendingInv, PendingKnown, OpenPending
<1> QED BY <1>3, <1>4, <1>5 DEF WaitInv

(* Something is told that is neither to be followed nor an answer. *)
LEMMA TellingKeepsWait ==
  ASSUME TypeOK, WaitInv, NEW e \in Told, events' = Append(events, e),
         ~Waits(e), ~Settles(e), UNCHANGED <<following, lines>>, worker.up,
         worker' \in Workers, worker'.pending = worker.pending,
         worker'.nextId >= worker.nextId,
         e.kind = "disconnected" => ~worker'.up,
         worker'.up /\ worker'.pending # <<>> => "echo" \in worker'.enabled
  PROVE  WaitInv'
<1>1. events \in Seq(Told) /\ worker'.nextId \in Nat /\ worker.nextId \in Nat
  BY WorkerParts DEF TypeOK
<1>2. /\ DOMAIN events = 1..Len(events) /\ DOMAIN events' = 1..(Len(events) + 1)
      /\ \A i \in DOMAIN events : events'[i] = events[i]
      /\ events'[Len(events) + 1] = e /\ Len(events) \in Nat /\ Len(events') = Len(events) + 1
      /\ End' = End + 1 /\ End = Len(events) + 1
  BY <1>1, OneMore DEF End
<1>3. /\ \A k \in Int : k <= End =>
              /\ \A id : Settled(id, k)' <=> Settled(id, k)
              /\ \A id, of, target, text :
                    Known(id, of, target, text, k)' <=> Known(id, of, target, text, k)
              /\ Open(k)' = Open(k)
      /\ \A id : Settled(id, End)' <=> Settled(id, End)
      /\ \A id, of, target, text :
            Known(id, of, target, text, End)' <=> Known(id, of, target, text, End)
      /\ \A id : id \in Open(End)' => id \in Open(End)
  BY <1>1, OneMore
<1>4. \A i \in DOMAIN events' : (Waits(events'[i]) \/ Settles(events'[i])) =>
          i \in DOMAIN events /\ events'[i] = events[i] /\ i \in Int /\ i <= End
  BY <1>2
<1>5. IdsInv'
  <2>1. \A i, j \in DOMAIN worker'.pending :
          i < j => worker'.pending[i].id < worker'.pending[j].id
    BY DEF WaitInv, IdsInv
  <2>2. \A i, j \in DOMAIN events' :
          i < j /\ Waits(events'[i]) /\ Waits(events'[j]) => events'[i].id < events'[j].id
    BY <1>4 DEF WaitInv, IdsInv
  <2>3. \A id \in DOMAIN following', i \in DOMAIN events' : Waits(events'[i]) => id < events'[i].id
    BY <1>4 DEF WaitInv, IdsInv
  <2>4. ASSUME NEW n \in Nat, n <= worker.nextId PROVE n <= worker'.nextId
    BY <1>1, <2>4
  <2>5. \A i \in DOMAIN worker'.pending : worker'.pending[i].id <= worker'.nextId
    BY <2>4, IdTypes DEF WaitInv, IdsInv
  <2>6. \A id \in DOMAIN following' : id <= worker'.nextId
    BY <2>4, IdTypes DEF WaitInv, IdsInv
  <2>7. \A i \in DOMAIN events' : Waits(events'[i]) => events'[i].id <= worker'.nextId
    BY <1>4, <2>4, IdTypes DEF WaitInv, IdsInv
  <2> QED BY <2>1, <2>2, <2>3, <2>5, <2>6, <2>7 DEF IdsInv
<1>6. FollowInv'
  <2>1. FollowedLines'
    BY DEF WaitInv, FollowInv, FollowedLines
  <2>2. AnswersKnown'
    BY <1>3, <1>4 DEF WaitInv, FollowInv, AnswersKnown
  <2>3. RoomToFollow'
    BY <1>3, <1>4 DEF WaitInv, FollowInv, RoomToFollow
  <2>4. EndIsLast'
    BY <1>2 DEF WaitInv, FollowInv, EndIsLast
  <2> QED BY <2>1, <2>2, <2>3, <2>4 DEF FollowInv
<1>7. PendingInv'
  BY <1>3 DEF WaitInv, PendingInv, PendingKnown, OpenPending
<1> QED BY <1>5, <1>6, <1>7 DEF WaitInv

(* A message is pending before the window is told of it. *)
LEMMA TrackedKeepsWait ==
  ASSUME TypeOK, WaitInv, SendsOn, NEW target \in Targets, NEW text \in Texts,
         NEW p \in Pendings, Tracked(p, target, text)
  PROVE  WaitInv'
<1> DEFINE e == Event("accepted", p.id, sends + 1, target, text)
<1>1. /\ events \in Seq(Told) /\ worker.nextId \in Nat /\ sends \in Nat
      /\ worker'.nextId = worker.nextId + 1 /\ UNCHANGED <<following, lines>>
      /\ p.id = worker.nextId + 1 /\ worker.up /\ worker'.up
      /\ worker'.enabled = worker.enabled
  BY WorkerParts DEF TypeOK, SendsOn, windowVars, Tracked
<1>2. e \in Told /\ Waits(e) /\ ~Settles(e) /\ e.id = p.id /\ Says3(e, p.of, p.target, p.text)
      /\ e.kind = "accepted"
  <2>1. p.id \in Nat \ {0} /\ sends + 1 \in Nat
    BY <1>1 DEF Pendings
  <2>2. e \in Told
    BY <2>1, EventTypes
  <2> QED BY <2>1, <2>2 DEF Event, Waits, Settles, Says3, Tracked
<1>3. events' = Append(events, e) /\ worker'.pending = Append(worker.pending, p)
  BY DEF Tracked
<1> HIDE DEF e
<1>4. /\ DOMAIN events = 1..Len(events) /\ DOMAIN events' = 1..(Len(events) + 1)
      /\ \A i \in DOMAIN events : events'[i] = events[i]
      /\ events'[Len(events) + 1] = e /\ Len(events) \in Nat /\ Len(events') = Len(events) + 1
      /\ End' = End + 1 /\ End = Len(events) + 1
  BY <1>1, <1>2, <1>3, OneMore DEF End
<1>5. /\ \A k \in Int : k <= End =>
              /\ \A id : Settled(id, k)' <=> Settled(id, k)
              /\ \A id, of, t, x : Known(id, of, t, x, k)' <=> Known(id, of, t, x, k)
              /\ Open(k)' = Open(k)
      /\ \A id : Settled(id, End)' <=> Settled(id, End)
      /\ \A id, of, t, x :
            Known(id, of, t, x, End)'
              <=> Known(id, of, t, x, End) \/ (Waits(e) /\ e.id = id /\ Says3(e, of, t, x))
      /\ \A id : id \in Open(End)' => id \in Open(End) \/ id = p.id
  BY <1>1, <1>2, <1>3, OneMore
<1>6. /\ DOMAIN worker.pending = 1..Len(worker.pending) /\ Len(worker.pending) \in Nat
      /\ DOMAIN worker'.pending = 1..(Len(worker.pending) + 1)
      /\ \A i \in DOMAIN worker.pending : worker'.pending[i] = worker.pending[i]
      /\ worker'.pending[Len(worker.pending) + 1] = p
      /\ Len(worker'.pending) = Len(worker.pending) + 1
  <2>1. worker.pending \in Seq(Pendings)
    BY IdTypes
  <2> QED BY <1>3, <2>1, AppendIs
<1>7. IdsInv'
  <2>1. \A i, j \in DOMAIN worker'.pending :
          i < j => worker'.pending[i].id < worker'.pending[j].id
    <3> TAKE i, j \in DOMAIN worker'.pending
    <3> HAVE i < j
    <3>1. i \in DOMAIN worker.pending /\ i \in Int /\ j \in Int
      BY <1>6
    <3>2. CASE j \in DOMAIN worker.pending
      BY <1>6, <3>1, <3>2 DEF WaitInv, IdsInv
    <3>3. CASE j = Len(worker.pending) + 1
      <4>1. worker.pending[i].id <= worker.nextId /\ worker.pending[i].id \in Nat
        BY <3>1, IdTypes DEF WaitInv, IdsInv
      <4>2. worker'.pending[i].id = worker.pending[i].id /\ worker'.pending[j].id = worker.nextId + 1
        BY <1>1, <1>6, <3>1, <3>3
      <4> QED BY <1>1, <4>1, <4>2
    <3> QED BY <1>6, <3>2, <3>3
  <2>0. /\ e.id = worker.nextId + 1 /\ worker.nextId \in Nat
        /\ \A i \in DOMAIN events : events[i].id \in Nat /\ i \in Int
        /\ \A id \in DOMAIN following : id \in Nat /\ id <= worker.nextId
        /\ \A i \in DOMAIN events : Waits(events[i]) => events[i].id <= worker.nextId
        /\ \A i \in DOMAIN worker.pending :
              worker.pending[i].id \in Nat /\ worker.pending[i].id <= worker.nextId
    BY <1>1, <1>2, IdTypes DEF WaitInv, IdsInv
  <2>7. \A i \in DOMAIN events' :
           \/ i \in DOMAIN events /\ events'[i] = events[i]
           \/ i = Len(events) + 1 /\ events'[i] = e
    BY <1>4
  <2>2. ASSUME NEW i \in DOMAIN events', NEW j \in DOMAIN events', i < j,
               Waits(events'[i]), Waits(events'[j])
        PROVE  events'[i].id < events'[j].id
    <3>1. i \in DOMAIN events /\ events'[i] = events[i]
      BY <1>4, <2>2
    <3>2. CASE j \in DOMAIN events /\ events'[j] = events[j]
      BY <2>2, <3>1, <3>2 DEF WaitInv, IdsInv
    <3>3. CASE events'[j] = e
      BY <2>0, <2>2, <3>1, <3>3
    <3> QED BY <2>7, <3>2, <3>3
  <2>3. ASSUME NEW id \in DOMAIN following', NEW i \in DOMAIN events', Waits(events'[i])
        PROVE  id < events'[i].id
    <3>1. id \in DOMAIN following
      BY <1>1
    <3>2. CASE i \in DOMAIN events /\ events'[i] = events[i]
      BY <2>3, <3>1, <3>2 DEF WaitInv, IdsInv
    <3>3. CASE events'[i] = e
      BY <2>0, <3>1, <3>3
    <3> QED BY <2>7, <3>2, <3>3
  <2>4. ASSUME NEW i \in DOMAIN worker'.pending PROVE worker'.pending[i].id <= worker'.nextId
    <3>1. CASE i \in DOMAIN worker.pending
      <4>1. worker'.pending[i] = worker.pending[i]
        BY <1>6, <3>1
      <4> QED BY <1>1, <2>0, <3>1, <4>1
    <3>2. CASE i = Len(worker.pending) + 1
      BY <1>1, <1>6, <2>0, <3>2
    <3> QED BY <1>6, <3>1, <3>2
  <2>5. ASSUME NEW id \in DOMAIN following' PROVE id <= worker'.nextId
    BY <1>1, <2>0
  <2>6. ASSUME NEW i \in DOMAIN events', Waits(events'[i]) PROVE events'[i].id <= worker'.nextId
    BY <1>1, <2>0, <2>7, <2>6
  <2> QED BY <2>1, <2>2, <2>3, <2>4, <2>5, <2>6 DEF IdsInv
<1>8. IsFiniteSet(Open(End)) /\ Cardinality(Open(End)) < MaxPending
  <2> DEFINE ids == {worker.pending[i].id : i \in DOMAIN worker.pending}
  <2>1. Open(End) \subseteq ids
    BY <1>1 DEF WaitInv, PendingInv, OpenPending
  <2>2. IsFiniteSet(1..Len(worker.pending)) /\ Cardinality(1..Len(worker.pending)) = Len(worker.pending)
    BY <1>6, FS_Interval
  <2>3. ids = {worker.pending[i].id : i \in 1..Len(worker.pending)}
    BY <1>6
  <2>4. IsFiniteSet(ids) /\ Cardinality(ids) <= Len(worker.pending)
    <3> DEFINE idOf == [i \in 1..Len(worker.pending) |-> worker.pending[i].id]
    <3>1. idOf \in Surjection(1..Len(worker.pending), ids)
      BY <2>3 DEF Surjection
    <3> HIDE DEF idOf, ids
    <3> QED BY <2>2, <3>1, FS_Surjection
  <2> HIDE DEF ids
  <2>5. IsFiniteSet(Open(End)) /\ Cardinality(Open(End)) <= Cardinality(ids)
    BY <2>1, <2>4, FS_Subset
  <2>6. Len(worker.pending) < MaxPending
    BY DEF Tracked
  <2>7. Cardinality(ids) \in Nat /\ Cardinality(Open(End)) \in Nat
    BY <2>4, <2>5, FS_CardinalityType
  <2> QED BY <1>6, <2>4, <2>5, <2>6, <2>7, ConfirmedSendingAssumption
<1>9. FollowInv'
  <2>1. FollowedLines'
    BY <1>1 DEF WaitInv, FollowInv, FollowedLines
  <2>2. AnswersKnown'
    <3>1. \A i \in DOMAIN events' : Settles(events'[i]) =>
             i \in DOMAIN events /\ events'[i] = events[i] /\ i \in Int /\ i <= End
      BY <1>2, <1>4
    <3> QED BY <1>5, <3>1 DEF WaitInv, FollowInv, AnswersKnown
  <2>3. RoomToFollow'
    <3>1. \A k \in DOMAIN events' :
             \/ k \in DOMAIN events /\ events'[k] = events[k]
             \/ k = End
      BY <1>4
    <3>2. \A k \in DOMAIN events' : k \in Int /\ k <= End
      BY <1>4
    <3> QED BY <1>5, <1>8, <3>1, <3>2 DEF WaitInv, FollowInv, RoomToFollow
  <2>4. EndIsLast'
    <3>1. \A i \in DOMAIN events' : events'[i].kind = "disconnected" =>
             i \in DOMAIN events /\ events'[i] = events[i]
      BY <1>2, <1>4
    <3> QED BY <1>1, <3>1 DEF WaitInv, FollowInv, EndIsLast
  <2> QED BY <2>1, <2>2, <2>3, <2>4 DEF FollowInv
<1>10. PendingInv'
  <2>1. PendingKnown'
    <3>1. ASSUME NEW i \in DOMAIN worker.pending
          PROVE  LET q == worker.pending[i]
                 IN  /\ Known(q.id, q.of, q.target, q.text, End) /\ ~Settled(q.id, End)
                     /\ worker'.pending[i] = q
      BY <1>1, <1>6, <3>1 DEF WaitInv, PendingInv, PendingKnown
    <3>2. Known(p.id, p.of, p.target, p.text, End)'
      BY <1>2, <1>5
    <3>3. ~Settled(p.id, End)'
      <4>1. ~Settled(p.id, End)
        <5> SUFFICES ASSUME NEW i \in DOMAIN events, Settles(events[i]), events[i].id = p.id
                     PROVE  FALSE
          BY DEF Settled
        <5>1. PICK x \in Texts : Known(events[i].id, events[i].of, events[i].target, x, i)
          BY DEF WaitInv, FollowInv, AnswersKnown
        <5>2. p.id \in DOMAIN following
              \/ \E j \in DOMAIN events : Waits(events[j]) /\ events[j].id = p.id
          BY <5>1 DEF Known
        <5> QED BY <1>1, <5>2, IdTypes DEF WaitInv, IdsInv
      <4> QED BY <1>5, <4>1
    <3>4. ASSUME NEW i \in DOMAIN worker'.pending, NEW q, q = worker'.pending[i]
          PROVE  Known(q.id, q.of, q.target, q.text, End)' /\ ~Settled(q.id, End)'
      <4>1. CASE i \in DOMAIN worker.pending
        BY <1>5, <3>1, <3>4, <4>1
      <4>2. CASE i = Len(worker.pending) + 1
        BY <1>6, <3>2, <3>3, <3>4, <4>2
      <4> QED BY <1>6, <4>1, <4>2
    <3> QED BY <3>4 DEF PendingKnown
  <2>2. OpenPending'
    <3>1. ASSUME NEW id \in Open(End)'
          PROVE  \E i \in DOMAIN worker'.pending : worker'.pending[i].id = id
      <4>1. CASE id = p.id
        BY <1>6, <4>1
      <4>2. CASE id \in Open(End)
        BY <1>1, <1>6, <4>2 DEF WaitInv, PendingInv, OpenPending
      <4> QED BY <1>5, <4>1, <4>2
    <3> QED BY <3>1 DEF OpenPending
  <2>3. "echo" \in worker'.enabled
    BY <1>1 DEF Tracked
  <2>4. Len(worker'.pending) <= MaxPending
    BY <1>6, ConfirmedSendingAssumption DEF Tracked
  <2> QED BY <2>1, <2>2, <2>3, <2>4 DEF PendingInv
<1> QED BY <1>7, <1>9, <1>10 DEF WaitInv

(* A message is answered, or its time is over. *)
LEMMA LeavesKeepsWait ==
  ASSUME TypeOK, WaitInv, NEW i \in DOMAIN worker.pending, NEW e, Leaves(i, e),
         UNCHANGED <<following, lines>>, worker.up, worker'.up,
         worker'.nextId = worker.nextId,
         worker'.pending # <<>> => "echo" \in worker'.enabled
  PROVE  WaitInv'
<1> DEFINE old(j) == IF j < i THEN j ELSE j + 1
           p == worker.pending[i]
<1>1. /\ events \in Seq(Told) /\ e \in Told /\ events' = Append(events, e) /\ Settles(e)
      /\ ~Waits(e) /\ e.kind # "disconnected" /\ worker.nextId \in Nat
      /\ e.id = p.id /\ e.of = p.of /\ e.target = p.target
      /\ p.text \in Texts
  BY IdTypes DEF TypeOK, Leaves, Settles, Waits
<1>2. /\ DOMAIN events = 1..Len(events) /\ DOMAIN events' = 1..(Len(events) + 1)
      /\ \A j \in DOMAIN events : events'[j] = events[j]
      /\ events'[Len(events) + 1] = e /\ Len(events) \in Nat /\ Len(events') = Len(events) + 1
      /\ End' = End + 1 /\ End = Len(events) + 1
  BY <1>1, OneMore DEF End
<1>3. /\ \A k \in Int : k <= End =>
              /\ \A id : Settled(id, k)' <=> Settled(id, k)
              /\ \A id, of, t, x : Known(id, of, t, x, k)' <=> Known(id, of, t, x, k)
              /\ Open(k)' = Open(k)
      /\ \A id : Settled(id, End)' <=> Settled(id, End) \/ p.id = id
      /\ \A id, of, t, x : Known(id, of, t, x, End)' <=> Known(id, of, t, x, End)
      /\ \A id : id \in Open(End)' => id \in Open(End) /\ id # p.id
  BY <1>1, OneMore
<1>4. /\ worker'.pending \in Seq(Pendings) /\ i \in 1..Len(worker.pending) /\ Len(worker.pending) \in Nat
      /\ DOMAIN worker.pending = 1..Len(worker.pending)
      /\ DOMAIN worker'.pending = 1..(Len(worker.pending) - 1)
      /\ \A j \in 1..(Len(worker.pending) - 1) : worker'.pending[j] = worker.pending[old(j)]
  BY DEF Leaves
<1>5. \A j \in DOMAIN worker'.pending :
         old(j) \in DOMAIN worker.pending /\ old(j) # i /\ worker'.pending[j] = worker.pending[old(j)]
  <2> TAKE j \in DOMAIN worker'.pending
  <2>1. j \in 1..(Len(worker.pending) - 1) /\ worker'.pending[j] = worker.pending[old(j)]
    BY <1>4
  <2>2. old(j) \in 1..Len(worker.pending) /\ old(j) # i
    BY <1>4, <2>1
  <2> QED BY <1>4, <2>1, <2>2
<1>6. \A j, k \in DOMAIN worker'.pending : j < k => old(j) < old(k)
  BY <1>4
<1>7. \A j \in DOMAIN worker.pending :
         j # i => \E k \in DOMAIN worker'.pending : worker'.pending[k] = worker.pending[j]
  <2> TAKE j \in DOMAIN worker.pending
  <2> HAVE j # i
  <2>1. CASE j < i
    BY <1>4, <2>1
  <2>2. CASE j > i
    <3>1. j - 1 \in DOMAIN worker'.pending /\ old(j - 1) = j
      BY <1>4, <2>2
    <3> QED BY <1>5, <3>1
  <2> QED BY <1>4, <2>1, <2>2
<1> HIDE DEF old, p
<1>8. \A j, k \in DOMAIN worker.pending :
         j # k => worker.pending[j].id # worker.pending[k].id
  <2> TAKE j, k \in DOMAIN worker.pending
  <2> HAVE j # k
  <2>1. j < k \/ k < j
    BY <1>4
  <2>2. worker.pending[j].id < worker.pending[k].id \/ worker.pending[k].id < worker.pending[j].id
    BY <2>1 DEF WaitInv, IdsInv
  <2> QED BY <2>2, IdTypes
<1>9. \A j \in DOMAIN events' : (Waits(events'[j]) \/ events'[j].kind = "disconnected") =>
          j \in DOMAIN events /\ events'[j] = events[j] /\ j \in Int /\ j <= End
  BY <1>1, <1>2
<1>10. Known(p.id, p.of, p.target, p.text, End) /\ ~Settled(p.id, End)
  BY DEF WaitInv, PendingInv, PendingKnown, p
<1>11. IdsInv'
  <2>1. \A j, k \in DOMAIN worker'.pending :
           j < k => worker'.pending[j].id < worker'.pending[k].id
    BY <1>5, <1>6 DEF WaitInv, IdsInv
  <2>2. \A j \in DOMAIN worker'.pending : worker'.pending[j].id <= worker'.nextId
    BY <1>5 DEF WaitInv, IdsInv
  <2> QED BY <1>9, <2>1, <2>2 DEF WaitInv, IdsInv
<1>12. FollowInv'
  <2>1. FollowedLines'
    BY DEF WaitInv, FollowInv, FollowedLines
  <2>2. AnswersKnown'
    <3>1. ASSUME NEW j \in DOMAIN events', NEW r, r = events'[j], Settles(r)
          PROVE  \E text \in Texts : Known(r.id, r.of, r.target, text, j)'
      <4>1. CASE j \in DOMAIN events
        <5>1. r = events[j] /\ j \in Int /\ j <= End
          BY <1>2, <3>1, <4>1
        <5>2. PICK text \in Texts : Known(r.id, r.of, r.target, text, j)
          BY <3>1, <4>1, <5>1 DEF WaitInv, FollowInv, AnswersKnown
        <5> QED BY <1>3, <5>1, <5>2
      <4>2. CASE j = End
        <5>1. r = e /\ r.id = p.id /\ r.of = p.of /\ r.target = p.target
          BY <1>1, <1>2, <3>1, <4>2
        <5>2. PICK text \in Texts : Known(r.id, r.of, r.target, text, j)
          BY <1>1, <1>10, <4>2, <5>1
        <5>3. j \in Int /\ j <= End
          BY <1>2, <4>2
        <5> QED BY <1>3, <5>2, <5>3
      <4> QED BY <1>2, <4>1, <4>2
    <3>2. ASSUME NEW j \in DOMAIN events', NEW k \in DOMAIN events', j # k,
                 Settles(events'[j]), Settles(events'[k])
          PROVE  events'[j].id # events'[k].id
      <4>1. \A n \in DOMAIN events : Settles(events[n]) => events[n].id # p.id
        BY <1>2, <1>10 DEF Settled
      <4>2. CASE j \in DOMAIN events /\ k \in DOMAIN events
        BY <1>2, <3>2, <4>2 DEF WaitInv, FollowInv, AnswersKnown
      <4>3. CASE j = End /\ k \in DOMAIN events
        BY <1>1, <1>2, <3>2, <4>1, <4>3
      <4>4. CASE k = End /\ j \in DOMAIN events
        BY <1>1, <1>2, <3>2, <4>1, <4>4
      <4>5. /\ j \in DOMAIN events \/ j = End
            /\ k \in DOMAIN events \/ k = End
        BY <1>2
      <4> QED BY <3>2, <4>2, <4>3, <4>4, <4>5
    <3> QED BY <3>1, <3>2 DEF AnswersKnown
  <2>3. RoomToFollow'
    BY <1>3, <1>9 DEF WaitInv, FollowInv, RoomToFollow
  <2>4. EndIsLast'
    BY <1>9 DEF WaitInv, FollowInv, EndIsLast
  <2> QED BY <2>1, <2>2, <2>3, <2>4 DEF FollowInv
<1>13. PendingInv'
  <2>1. PendingKnown'
    <3>1. ASSUME NEW j \in DOMAIN worker'.pending, NEW q, q = worker'.pending[j]
          PROVE  Known(q.id, q.of, q.target, q.text, End)' /\ ~Settled(q.id, End)'
      <4>1. q = worker.pending[old(j)] /\ old(j) \in DOMAIN worker.pending /\ old(j) # i
        BY <1>5, <3>1
      <4>2. Known(q.id, q.of, q.target, q.text, End) /\ ~Settled(q.id, End)
        BY <4>1 DEF WaitInv, PendingInv, PendingKnown
      <4>3. q.id # p.id
        BY <1>8, <4>1 DEF p
      <4> QED BY <1>3, <4>2, <4>3
    <3> QED BY <3>1 DEF PendingKnown
  <2>2. OpenPending'
    <3>1. ASSUME NEW id \in Open(End)'
          PROVE  \E j \in DOMAIN worker'.pending : worker'.pending[j].id = id
      <4>1. id \in Open(End) /\ id # p.id
        BY <1>3
      <4>2. PICK j \in DOMAIN worker.pending : worker.pending[j].id = id
        BY <4>1 DEF WaitInv, PendingInv, OpenPending
      <4>3. j # i
        BY <4>1, <4>2 DEF p
      <4> QED BY <1>7, <4>2, <4>3
    <3> QED BY <3>1 DEF OpenPending
  <2>3. Len(worker'.pending) <= MaxPending
    <3>1. Len(worker'.pending) = Len(worker.pending) - 1
      BY DEF Leaves
    <3> QED BY <1>4, <3>1, ConfirmedSendingAssumption DEF WaitInv, PendingInv
  <2> QED BY <2>1, <2>2, <2>3 DEF PendingInv
<1> QED BY <1>11, <1>12, <1>13 DEF WaitInv

(* Without the capability nothing pending can be answered any more. *)
LEMMA StoppedKeepsWait ==
  ASSUME TypeOK, WaitInv, Stopped, worker.up, worker'.up, worker'.nextId = worker.nextId,
         UNCHANGED <<following, lines>>
  PROVE  WaitInv'
<1> DEFINE failures == [i \in DOMAIN worker.pending |-> Failed(worker.pending[i])]
           n == Len(events)
           new(i) == worker.pending[i - n]
<1>1. /\ events \in Seq(Told) /\ worker.pending \in Seq(Pendings) /\ worker.nextId \in Nat
      /\ \A i \in DOMAIN worker.pending : worker.pending[i] \in Pendings
      /\ DOMAIN worker.pending = 1..Len(worker.pending) /\ Len(worker.pending) \in Nat
  BY IdTypes DEF TypeOK
<1>2. failures \in Seq(Told)
  <2>1. \A i \in DOMAIN worker.pending : Failed(worker.pending[i]) \in Told
    BY <1>1, AnswerTypes
  <2> QED BY <1>1, <2>1
<1>3. DOMAIN failures = DOMAIN worker.pending /\ Len(failures) = Len(worker.pending)
  BY <1>1
<1>4. events' = events \o failures /\ worker'.pending = <<>>
  BY DEF Stopped
<1>5. \A i \in DOMAIN failures :
         /\ Settles(failures[i]) /\ ~Waits(failures[i]) /\ failures[i].kind # "disconnected"
         /\ failures[i].id = worker.pending[i].id /\ failures[i].of = worker.pending[i].of
         /\ failures[i].target = worker.pending[i].target
  BY <1>1, AnswerTypes DEF Settles, Waits
<1> HIDE DEF failures, n, new
<1>6. /\ events' \in Seq(Told) /\ n \in Nat /\ End = n + 1
      /\ DOMAIN events = 1..n /\ DOMAIN events' = 1..(n + Len(worker.pending))
      /\ \A i \in DOMAIN events : events'[i] = events[i]
      /\ \A i \in 1..(n + Len(worker.pending)) : i > n => events'[i] = failures[i - n]
      /\ Len(events') = n + Len(worker.pending) /\ End' = n + Len(worker.pending) + 1
  <2>1. n = Len(events) /\ End = Len(events) + 1 /\ End' = Len(events') + 1
    BY DEF n, End
  <2>2. /\ events \o failures \in Seq(Told) /\ Len(events) \in Nat
        /\ Len(events \o failures) = Len(events) + Len(failures)
        /\ DOMAIN events = 1..Len(events)
        /\ DOMAIN (events \o failures) = 1..(Len(events) + Len(failures))
        /\ \A i \in 1..Len(events) : (events \o failures)[i] = events[i]
        /\ \A i \in 1..(Len(events) + Len(failures)) :
               i > Len(events) => (events \o failures)[i] = failures[i - Len(events)]
    BY <1>1, <1>2, ConcatIs
  <2> QED BY <1>3, <1>4, <2>1, <2>2
<1>7. ASSUME NEW i \in DOMAIN events', i \notin DOMAIN events
      PROVE  /\ i - n \in DOMAIN worker.pending /\ i >= End
             /\ Settles(events'[i]) /\ ~Waits(events'[i]) /\ events'[i].kind # "disconnected"
             /\ events'[i].id = new(i).id /\ events'[i].of = new(i).of
             /\ events'[i].target = new(i).target
  <2>1. i \in 1..(n + Len(worker.pending)) /\ i > n /\ i - n \in DOMAIN worker.pending /\ i >= End
    BY <1>1, <1>6, <1>7
  <2> QED BY <1>3, <1>5, <1>6, <2>1 DEF new
<1>8. ASSUME NEW k \in Int, k <= End
      PROVE  /\ \A id : Settled(id, k)' <=> Settled(id, k)
             /\ \A id, of, t, x : Known(id, of, t, x, k)' <=> Known(id, of, t, x, k)
             /\ Open(k)' = Open(k)
  <2>1. Len(events) <= Len(events') /\ k <= Len(events) + 1
    BY <1>1, <1>6, <1>8 DEF n
  <2> QED BY <1>1, <1>6, <2>1, LaterKeeps
<1>9. \A i \in DOMAIN worker.pending : \A p :
         p = worker.pending[i] => /\ Known(p.id, p.of, p.target, p.text, End) /\ ~Settled(p.id, End)
                                  /\ p.text \in Texts
  BY IdTypes DEF WaitInv, PendingInv, PendingKnown
<1>10. \A i, j \in DOMAIN worker.pending :
         i # j => worker.pending[i].id # worker.pending[j].id
  <2> TAKE i, j \in DOMAIN worker.pending
  <2> HAVE i # j
  <2>1. i < j \/ j < i
    BY <1>1
  <2>2. worker.pending[i].id < worker.pending[j].id \/ worker.pending[j].id < worker.pending[i].id
    BY <2>1 DEF WaitInv, IdsInv
  <2> QED BY <2>2, IdTypes
<1>11. \A i \in DOMAIN events' : (Waits(events'[i]) \/ events'[i].kind = "disconnected") =>
          i \in DOMAIN events /\ events'[i] = events[i] /\ i \in Int /\ i <= End
  BY <1>6, <1>7
<1>12. IdsInv'
  BY <1>4, <1>11 DEF WaitInv, IdsInv
<1>13. FollowInv'
  <2>1. FollowedLines'
    BY DEF WaitInv, FollowInv, FollowedLines
  <2>2. AnswersKnown'
    <3>1. ASSUME NEW j \in DOMAIN events', NEW r, r = events'[j], Settles(r)
          PROVE  \E text \in Texts : Known(r.id, r.of, r.target, text, j)'
      <4>1. CASE j \in DOMAIN events
        <5>1. r = events[j] /\ j \in Int /\ j <= End
          BY <1>6, <3>1, <4>1
        <5>2. PICK text \in Texts : Known(r.id, r.of, r.target, text, j)
          BY <3>1, <4>1, <5>1 DEF WaitInv, FollowInv, AnswersKnown
        <5> QED BY <1>8, <5>1, <5>2
      <4>2. CASE j \notin DOMAIN events
        <5>1. PICK p : p = new(j) /\ j >= End /\ j - n \in DOMAIN worker.pending
                       /\ r.id = p.id /\ r.of = p.of /\ r.target = p.target
          BY <1>7, <3>1, <4>2
        <5>2. Known(r.id, r.of, r.target, p.text, End) /\ p.text \in Texts
          BY <1>9, <5>1 DEF new
        <5>3. Known(r.id, r.of, r.target, p.text, j)'
          <6>1. CASE r.id \in DOMAIN following /\ Says3(lines[following[r.id]], r.of, r.target, p.text)
            BY <6>1 DEF Known, Says3
          <6>2. CASE \E i \in DOMAIN events :
                       i < End /\ Waits(events[i]) /\ events[i].id = r.id
                         /\ Says3(events[i], r.of, r.target, p.text)
            <7>1. \A i \in DOMAIN events : i \in DOMAIN events' /\ events'[i] = events[i] /\ i < j
              BY <1>1, <1>6, <5>1
            <7> QED BY <6>2, <7>1 DEF Known, Says3
          <6> QED BY <5>2, <6>1, <6>2 DEF Known
        <5> QED BY <5>2, <5>3
      <4> QED BY <4>1, <4>2
    <3>2. ASSUME NEW j \in DOMAIN events', NEW k \in DOMAIN events', j # k,
                 Settles(events'[j]), Settles(events'[k])
          PROVE  events'[j].id # events'[k].id
      <4>1. \A i \in DOMAIN events, m \in DOMAIN worker.pending :
               Settles(events[i]) => events[i].id # worker.pending[m].id
        <5> TAKE i \in DOMAIN events, m \in DOMAIN worker.pending
        <5>1. i < End
          BY <1>6
        <5>2. ~Settled(worker.pending[m].id, End)
          BY <1>9
        <5> QED BY <5>1, <5>2 DEF Settled
      <4>2. CASE j \in DOMAIN events /\ k \in DOMAIN events
        BY <1>6, <3>2, <4>2 DEF WaitInv, FollowInv, AnswersKnown
      <4>3. CASE j \in DOMAIN events /\ k \notin DOMAIN events
        BY <1>6, <1>7, <3>2, <4>1, <4>3 DEF new
      <4>4. CASE j \notin DOMAIN events /\ k \in DOMAIN events
        BY <1>6, <1>7, <3>2, <4>1, <4>4 DEF new
      <4>5. CASE j \notin DOMAIN events /\ k \notin DOMAIN events
        <5>1. j - n # k - n
          BY <1>6, <3>2
        <5> QED BY <1>7, <1>10, <4>5, <5>1 DEF new
      <4> QED BY <4>2, <4>3, <4>4, <4>5
    <3> QED BY <3>1, <3>2 DEF AnswersKnown
  <2>3. RoomToFollow'
    BY <1>8, <1>11 DEF WaitInv, FollowInv, RoomToFollow
  <2>4. EndIsLast'
    BY <1>11 DEF WaitInv, FollowInv, EndIsLast
  <2> QED BY <2>1, <2>2, <2>3, <2>4 DEF FollowInv
<1>14. PendingInv'
  <2>1. DOMAIN worker'.pending = {} /\ Len(worker'.pending) = 0
    BY <1>4
  <2>2. PendingKnown'
    BY <2>1 DEF PendingKnown
  <2>3. OpenPending'
    <3> SUFFICES ASSUME NEW id \in Open(End)' PROVE FALSE
      BY DEF OpenPending
    <3>1. /\ id \in DOMAIN following \cup
                      {events'[i].id : i \in {j \in DOMAIN events' : j < End' /\ Waits(events'[j])}}
          /\ ~Settled(id, End)'
      BY DEF Open
    <3>2. ~Settled(id, End)
      <4>1. \A i \in DOMAIN events : i \in DOMAIN events' /\ i < End'
        BY <1>1, <1>6
      <4> QED BY <1>6, <3>1, <4>1 DEF Settled
    <3>3. \A i \in DOMAIN events : i < End
      BY <1>6
    <3>4. id \in Open(End)
      <4>1. CASE id \in DOMAIN following
        BY <3>2, <4>1 DEF Open
      <4>2. CASE \E i : i \in DOMAIN events' /\ Waits(events'[i]) /\ events'[i].id = id
        <5>1. PICK i \in DOMAIN events : Waits(events[i]) /\ events[i].id = id
          BY <1>11, <4>2
        <5> QED BY <3>2, <3>3, <5>1 DEF Open
      <4> QED BY <3>1, <4>1, <4>2
    <3>5. PICK i \in DOMAIN worker.pending : worker.pending[i].id = id
      BY <3>4 DEF WaitInv, PendingInv, OpenPending
    <3>6. /\ n + i \in DOMAIN events' /\ n + i \notin DOMAIN events /\ n + i < End'
          /\ (n + i) - n = i
      BY <1>1, <1>6
    <3>7. Settles(events'[n + i]) /\ events'[n + i].id = id
      BY <1>7, <3>5, <3>6 DEF new
    <3> QED BY <3>1, <3>6, <3>7 DEF Settled
  <2> QED BY <1>4, <2>1, <2>2, <2>3, ConfirmedSendingAssumption DEF PendingInv
<1> QED BY <1>12, <1>13, <1>14 DEF WaitInv

(* The first event is taken, the others move up. *)
LEMMA FirstGoes ==
  ASSUME TypeOK, HandlesFirst
  PROVE  /\ events \in Seq(Told) /\ events' \in Seq(Told)
         /\ Len(events) \in Nat \ {0} /\ Len(events') = Len(events) - 1
         /\ DOMAIN events = 1..Len(events) /\ DOMAIN events' = 1..(Len(events) - 1)
         /\ \A i \in DOMAIN events' : i + 1 \in DOMAIN events /\ events'[i] = events[i + 1]
         /\ \A i \in DOMAIN events : i # 1 => i - 1 \in DOMAIN events' /\ events'[i - 1] = events[i]
         /\ Head(events) = events[1] /\ events[1] \in Told /\ 1 \in DOMAIN events
         /\ End \in Nat /\ End = Len(events) + 1 /\ End = End' + 1
         /\ End' \in Nat \ {0}
<1>1. events \in Seq(Told) /\ events # <<>> /\ events' = Tail(events)
  BY DEF TypeOK, HandlesFirst
<1>2. /\ Tail(events) \in Seq(Told) /\ Len(events) \in Nat \ {0}
      /\ Len(Tail(events)) = Len(events) - 1
      /\ DOMAIN events = 1..Len(events) /\ DOMAIN Tail(events) = 1..(Len(events) - 1)
      /\ \A i \in 1..(Len(events) - 1) : Tail(events)[i] = events[i + 1]
      /\ Head(events) = events[1] /\ Head(events) \in Told
  BY <1>1, TailIs
<1>3. End = Len(events) + 1 /\ End' = Len(events') + 1
  BY DEF End
<1>4. \A i \in DOMAIN events' : i + 1 \in DOMAIN events /\ events'[i] = events[i + 1]
  BY <1>1, <1>2
<1>5. \A i \in DOMAIN events : i # 1 => i - 1 \in DOMAIN events' /\ events'[i - 1] = events[i]
  <2> TAKE i \in DOMAIN events
  <2> HAVE i # 1
  <2>1. i - 1 \in DOMAIN events' /\ (i - 1) + 1 = i
    BY <1>1, <1>2
  <2> QED BY <1>4, <2>1
<1> QED BY <1>1, <1>2, <1>3, <1>4, <1>5

LEMMA SettledMovesUp ==
  ASSUME TypeOK, HandlesFirst, NEW k \in Nat \ {0}, NEW id
  PROVE  Settled(id, k + 1) <=> Settled(id, k)' \/ (Settles(events[1]) /\ events[1].id = id)
<1>1. /\ 1 \in DOMAIN events /\ 1 < k + 1 /\ DOMAIN events \subseteq Int /\ DOMAIN events' \subseteq Int
      /\ \A i \in DOMAIN events' : i + 1 \in DOMAIN events /\ events'[i] = events[i + 1]
      /\ \A i \in DOMAIN events : i # 1 => i - 1 \in DOMAIN events' /\ events'[i - 1] = events[i]
  BY FirstGoes
<1>2. ASSUME Settled(id, k)' PROVE Settled(id, k + 1)
  <2>1. PICK i \in DOMAIN events' : i < k /\ Settles(events'[i]) /\ events'[i].id = id
    BY <1>2 DEF Settled
  <2>2. i + 1 < k + 1
    BY <1>1, <2>1
  <2> QED BY <1>1, <2>1, <2>2 DEF Settled
<1>3. ASSUME Settles(events[1]), events[1].id = id PROVE Settled(id, k + 1)
  BY <1>1, <1>3 DEF Settled
<1>4. ASSUME Settled(id, k + 1), ~(Settles(events[1]) /\ events[1].id = id)
      PROVE  Settled(id, k)'
  <2>1. PICK i \in DOMAIN events : i < k + 1 /\ Settles(events[i]) /\ events[i].id = id
    BY <1>4 DEF Settled
  <2>2. i # 1
    BY <1>4, <2>1
  <2>3. i - 1 < k /\ i - 1 \in DOMAIN events' /\ events'[i - 1] = events[i]
    BY <1>1, <2>1, <2>2
  <2> QED BY <2>1, <2>3 DEF Settled
<1> QED BY <1>2, <1>3, <1>4

(* The ids the window waits for through what it is told before the k-th. *)
ToldToWait(k) == {events[i].id : i \in {j \in DOMAIN events : j < k /\ Waits(events[j])}}

LEMMA WaitsMoveUp ==
  ASSUME TypeOK, HandlesFirst, NEW k \in Nat \ {0}
  PROVE  ToldToWait(k + 1) = ToldToWait(k)' \cup {id \in {events[1].id} : Waits(events[1])}
<1>1. /\ 1 \in DOMAIN events /\ 1 < k + 1 /\ DOMAIN events \subseteq Int /\ DOMAIN events' \subseteq Int
      /\ \A i \in DOMAIN events' : i + 1 \in DOMAIN events /\ events'[i] = events[i + 1]
      /\ \A i \in DOMAIN events : i # 1 => i - 1 \in DOMAIN events' /\ events'[i - 1] = events[i]
  BY FirstGoes
<1>2. ASSUME NEW id \in ToldToWait(k)' PROVE id \in ToldToWait(k + 1)
  <2>1. PICK i \in DOMAIN events' : i < k /\ Waits(events'[i]) /\ events'[i].id = id
    BY <1>2 DEF ToldToWait
  <2>2. i + 1 < k + 1
    BY <1>1, <2>1
  <2> QED BY <1>1, <2>1, <2>2 DEF ToldToWait
<1>3. Waits(events[1]) => events[1].id \in ToldToWait(k + 1)
  BY <1>1 DEF ToldToWait
<1>4. ASSUME NEW id \in ToldToWait(k + 1), ~(Waits(events[1]) /\ events[1].id = id)
      PROVE  id \in ToldToWait(k)'
  <2>1. PICK i \in DOMAIN events : i < k + 1 /\ Waits(events[i]) /\ events[i].id = id
    BY <1>4 DEF ToldToWait
  <2>2. i # 1
    BY <1>4, <2>1
  <2>3. i - 1 < k /\ i - 1 \in DOMAIN events' /\ events'[i - 1] = events[i]
    BY <1>1, <2>1, <2>2
  <2> QED BY <2>1, <2>3 DEF ToldToWait
<1> QED BY <1>2, <1>3, <1>4

(* What the window knows it knows by what it was told, or is yet told. *)
Followed3(id, of, target, text) ==
    id \in DOMAIN following /\ Says3(lines[following[id]], of, target, text)
Told3(id, of, target, text, k) ==
    \E i \in DOMAIN events :
       i < k /\ Waits(events[i]) /\ events[i].id = id /\ Says3(events[i], of, target, text)

LEMMA KnownIs ==
  \A id, of, target, text, k :
     Known(id, of, target, text, k) <=> Followed3(id, of, target, text) \/ Told3(id, of, target, text, k)
BY DEF Known, Followed3, Told3

LEMMA ToldMovesUp ==
  ASSUME TypeOK, HandlesFirst, NEW k \in Nat \ {0}, NEW id, NEW of, NEW target, NEW text
  PROVE  Told3(id, of, target, text, k + 1)
           <=> \/ Told3(id, of, target, text, k)'
               \/ Waits(events[1]) /\ events[1].id = id /\ Says3(events[1], of, target, text)
<1>1. /\ 1 \in DOMAIN events /\ 1 < k + 1 /\ DOMAIN events \subseteq Int /\ DOMAIN events' \subseteq Int
      /\ \A i \in DOMAIN events' : i + 1 \in DOMAIN events /\ events'[i] = events[i + 1]
      /\ \A i \in DOMAIN events : i # 1 => i - 1 \in DOMAIN events' /\ events'[i - 1] = events[i]
  BY FirstGoes
<1>2. ASSUME Told3(id, of, target, text, k)' PROVE Told3(id, of, target, text, k + 1)
  <2>1. PICK i \in DOMAIN events' : i < k /\ Waits(events'[i]) /\ events'[i].id = id
                                    /\ Says3(events'[i], of, target, text)
    BY <1>2 DEF Told3, Says3
  <2>2. i + 1 < k + 1
    BY <1>1, <2>1
  <2> QED BY <1>1, <2>1, <2>2 DEF Told3
<1>3. Waits(events[1]) /\ events[1].id = id /\ Says3(events[1], of, target, text)
        => Told3(id, of, target, text, k + 1)
  BY <1>1 DEF Told3
<1>4. ASSUME Told3(id, of, target, text, k + 1),
             ~(Waits(events[1]) /\ events[1].id = id /\ Says3(events[1], of, target, text))
      PROVE  Told3(id, of, target, text, k)'
  <2>1. PICK i \in DOMAIN events : i < k + 1 /\ Waits(events[i]) /\ events[i].id = id
                                   /\ Says3(events[i], of, target, text)
    BY <1>4 DEF Told3
  <2>2. i # 1
    BY <1>4, <2>1
  <2>3. i - 1 < k /\ i - 1 \in DOMAIN events' /\ events'[i - 1] = events[i]
    BY <1>1, <2>1, <2>2
  <2> QED BY <2>1, <2>3 DEF Told3, Says3
<1> QED BY <1>2, <1>3, <1>4

LEMMA KnownMovesUp ==
  ASSUME TypeOK, WaitInv, HandlesFirst, Follows \/ Adds \/ Concludes, NEW k \in Nat \ {0},
         NEW id, NEW of, NEW target, NEW text
  PROVE  Known(id, of, target, text, k)'
           <=> Known(id, of, target, text, k + 1) /\ ~(Settles(events[1]) /\ events[1].id = id)
<1> DEFINE e == events[1]
<1>1. /\ Head(events) = e /\ e \in Told /\ 1 \in DOMAIN events
      /\ \A i \in DOMAIN events : i \in Int
  BY FirstGoes
<1>2. /\ lines \in Seq(Lines) /\ DOMAIN lines = 1..Len(lines) /\ Len(lines) \in Nat
      /\ \A n \in DOMAIN following : following[n] \in DOMAIN lines /\ n \in Nat
  BY IdTypes DEF TypeOK
<1>3. Told3(id, of, target, text, k + 1)
           <=> Told3(id, of, target, text, k)' \/ (Waits(e) /\ e.id = id /\ Says3(e, of, target, text))
  BY ToldMovesUp
<1>4. /\ Known(id, of, target, text, k)' <=> Followed3(id, of, target, text)' \/ Told3(id, of, target, text, k)'
      /\ Known(id, of, target, text, k + 1)
           <=> Followed3(id, of, target, text) \/ Told3(id, of, target, text, k + 1)
  BY DEF Known, Followed3, Told3
<1> HIDE DEF e
<1>5. CASE Follows
  <2>1. /\ Waits(e) /\ ~Settles(e) /\ lines' = Append(lines, Shown(e, TRUE, "sent"))
        /\ DOMAIN following' = DOMAIN following \cup {e.id}
        /\ following'[e.id] = Len(lines) + 1
        /\ \A n \in DOMAIN following : n # e.id => following'[n] = following[n]
    BY <1>1, <1>5 DEF Follows, LinesGrow, Waits, Settles
  <2>2. e.id \notin DOMAIN following
    <3> SUFFICES ASSUME e.id \in DOMAIN following PROVE FALSE
      OBVIOUS
    <3>1. e.id < e.id
      BY <1>1, <2>1 DEF WaitInv, IdsInv, e
    <3> QED BY <1>2, <3>1
  <2>3. /\ \A i \in DOMAIN lines : lines'[i] = lines[i]
        /\ lines'[Len(lines) + 1] = Shown(e, TRUE, "sent")
    <3>1. PICK l : l = Shown(e, TRUE, "sent")
      OBVIOUS
    <3>2. lines' = Append(lines, l)
      BY <2>1, <3>1
    <3>3. (\A i \in DOMAIN lines : lines'[i] = lines[i]) /\ lines'[Len(lines) + 1] = l
      BY <1>2, <3>2
    <3> QED BY <3>1, <3>3
  <2>4. Says3(Shown(e, TRUE, "sent"), of, target, text) <=> Says3(e, of, target, text)
    BY DEF Says3, Shown
  <2>5. Followed3(id, of, target, text)'
          <=> Followed3(id, of, target, text) \/ (e.id = id /\ Says3(e, of, target, text))
    <3>1. CASE id = e.id
      <4>1. Followed3(id, of, target, text)' <=> Says3(lines'[Len(lines) + 1], of, target, text)
        BY <2>1, <3>1 DEF Followed3, Says3
      <4> QED BY <2>2, <2>3, <2>4, <3>1, <4>1 DEF Followed3
    <3>2. CASE id # e.id
      <4>1. id \in DOMAIN following' <=> id \in DOMAIN following
        BY <2>1, <3>2
      <4>2. id \in DOMAIN following => lines'[following'[id]] = lines[following[id]]
        BY <1>2, <2>1, <2>3, <3>2
      <4> QED BY <3>2, <4>1, <4>2 DEF Followed3, Says3
    <3> QED BY <3>1, <3>2
  <2> QED BY <1>3, <1>4, <2>1, <2>5 DEF e
<1>6. CASE Adds
  <2>1. /\ ~Waits(e) /\ ~Settles(e) /\ following' = following
        /\ \E l : lines' = Append(lines, l)
    BY <1>1, <1>6 DEF Adds, LinesGrow, Waits, Settles
  <2>2. \A i \in DOMAIN lines : lines'[i] = lines[i]
    BY <1>2, <2>1
  <2>3. Followed3(id, of, target, text)' <=> Followed3(id, of, target, text)
    BY <1>2, <2>1, <2>2 DEF Followed3, Says3
  <2> QED BY <1>3, <1>4, <2>1, <2>3 DEF e
<1>7. CASE Concludes
  <2>1. /\ Settles(e) /\ ~Waits(e) /\ e.id \in DOMAIN following
        /\ DOMAIN following' = DOMAIN following \ {e.id}
        /\ \A n \in DOMAIN following \ {e.id} : following'[n] = following[n]
        /\ \A i \in DOMAIN lines : i # following[e.id] => lines'[i] = lines[i]
    BY <1>1, <1>7 DEF Concludes, Settles, Waits
  <2>2. CASE id = e.id
    <3>1. ~Followed3(id, of, target, text)'
      BY <2>1, <2>2 DEF Followed3
    <3>2. ~Told3(id, of, target, text, k + 1)
      <4> SUFFICES ASSUME NEW i \in DOMAIN events, Waits(events[i]), events[i].id = e.id
                   PROVE  FALSE
        BY <2>2 DEF Told3
      <4>1. e.id < events[i].id
        BY <2>1 DEF WaitInv, IdsInv
      <4> QED BY <1>2, <2>1, <4>1
    <3> QED BY <1>3, <1>4, <2>1, <2>2, <3>1, <3>2 DEF e
  <2>3. CASE id # e.id
    <3>1. id \in DOMAIN following' <=> id \in DOMAIN following
      BY <2>1, <2>3
    <3>2. id \in DOMAIN following => lines'[following'[id]] = lines[following[id]]
      <4> HAVE id \in DOMAIN following
      <4>1. following[id] # following[e.id]
        BY <2>1, <2>3 DEF WaitInv, FollowInv, FollowedLines
      <4> QED BY <1>2, <2>1, <2>3, <4>1
    <3>3. Followed3(id, of, target, text)' <=> Followed3(id, of, target, text)
      BY <3>1, <3>2 DEF Followed3, Says3
    <3> QED BY <1>3, <1>4, <2>1, <2>3, <3>3 DEF e
  <2> QED BY <2>2, <2>3
<1> QED BY <1>5, <1>6, <1>7

LEMMA OpenMovesUp ==
  ASSUME TypeOK, WaitInv, HandlesFirst, Follows \/ Adds \/ Concludes, NEW k \in Nat \ {0}
  PROVE  Open(k)' = Open(k + 1)
<1> DEFINE e == events[1]
<1>1. Head(events) = e /\ 1 \in DOMAIN events
  BY FirstGoes
<1>2. ToldToWait(k + 1) = ToldToWait(k)' \cup {id \in {e.id} : Waits(e)}
  BY WaitsMoveUp
<1>3. \A id : Settled(id, k + 1) <=> Settled(id, k)' \/ (Settles(e) /\ e.id = id)
  BY SettledMovesUp
<1>4. /\ Open(k)' = {id \in DOMAIN following' \cup ToldToWait(k)' : ~Settled(id, k)'}
      /\ Open(k + 1) = {id \in DOMAIN following \cup ToldToWait(k + 1) : ~Settled(id, k + 1)}
  BY DEF Open, ToldToWait
<1> HIDE DEF e
<1>5. CASE Follows
  BY <1>1, <1>2, <1>3, <1>4, <1>5 DEF Follows, Waits, Settles
<1>6. CASE Adds
  <2>1. ~Waits(e) /\ ~Settles(e) /\ following' = following
    BY <1>1, <1>6 DEF Adds, Waits, Settles
  <2> QED BY <1>2, <1>3, <1>4, <2>1
<1>7. CASE Concludes
  <2>1. /\ Settles(e) /\ ~Waits(e) /\ e.id \in DOMAIN following
        /\ DOMAIN following' = DOMAIN following \ {e.id}
    BY <1>1, <1>7 DEF Concludes, Settles, Waits
  <2>2. e.id \notin ToldToWait(k)'
    <3> SUFFICES ASSUME e.id \in ToldToWait(k + 1) PROVE FALSE
      BY <1>2
    <3>1. PICK i \in DOMAIN events : Waits(events[i]) /\ events[i].id = e.id
      BY DEF ToldToWait
    <3>2. e.id < e.id /\ e.id \in Nat
      BY <2>1, <3>1, IdTypes DEF WaitInv, IdsInv
    <3> QED BY <3>2
  <2> QED BY <1>2, <1>3, <1>4, <2>1, <2>2
<1> QED BY <1>5, <1>6, <1>7

LEMMA HandlingKeepsIds ==
  ASSUME TypeOK, WaitInv, HandlesFirst, Follows \/ Adds \/ Concludes
  PROVE  IdsInv'
<1>1. /\ Head(events) = events[1] /\ 1 \in DOMAIN events
      /\ \A i \in DOMAIN events' : i + 1 \in DOMAIN events /\ events'[i] = events[i + 1]
      /\ DOMAIN events' \subseteq Nat \ {0} /\ DOMAIN events \subseteq Int
  BY FirstGoes
<1>2. worker' = worker
  BY DEF HandlesFirst
<1>3. \A i, j \in DOMAIN events' :
          i < j /\ Waits(events'[i]) /\ Waits(events'[j]) => events'[i].id < events'[j].id
  <2> TAKE i, j \in DOMAIN events'
  <2> HAVE i < j /\ Waits(events'[i]) /\ Waits(events'[j])
  <2>1. i + 1 < j + 1
    BY <1>1
  <2> QED BY <1>1, <2>1 DEF WaitInv, IdsInv
<1>4. \A i \in DOMAIN events' : Waits(events'[i]) => events'[i].id <= worker'.nextId
  BY <1>1, <1>2 DEF WaitInv, IdsInv
<1>5. \A id \in DOMAIN following' :
         id \in DOMAIN following \/ (id = events[1].id /\ Waits(events[1]))
  <2>1. CASE Follows
    BY <1>1, <2>1 DEF Follows
  <2>2. CASE Adds
    BY <2>2 DEF Adds
  <2>3. CASE Concludes
    BY <2>3 DEF Concludes
  <2> QED BY <2>1, <2>2, <2>3
<1>6. \A id \in DOMAIN following', i \in DOMAIN events' : Waits(events'[i]) => id < events'[i].id
  <2> TAKE id \in DOMAIN following', i \in DOMAIN events'
  <2> HAVE Waits(events'[i])
  <2>1. 1 < i + 1 /\ i + 1 \in DOMAIN events /\ events'[i] = events[i + 1]
    BY <1>1
  <2>2. CASE id \in DOMAIN following
    BY <2>1, <2>2 DEF WaitInv, IdsInv
  <2>3. CASE id = events[1].id /\ Waits(events[1])
    BY <1>1, <2>1, <2>3 DEF WaitInv, IdsInv
  <2> QED BY <1>5, <2>2, <2>3
<1>7. \A id \in DOMAIN following' : id <= worker'.nextId
  BY <1>1, <1>2, <1>5 DEF WaitInv, IdsInv
<1> QED BY <1>2, <1>3, <1>4, <1>6, <1>7 DEF WaitInv, IdsInv

LEMMA HandlingKeepsLines ==
  ASSUME TypeOK, WaitInv, HandlesFirst, Follows \/ Adds \/ Concludes
  PROVE  FollowedLines'
<1>1. /\ Head(events) = events[1] /\ events[1] \in Told
  BY FirstGoes
<1>2. /\ lines \in Seq(Lines) /\ DOMAIN lines = 1..Len(lines) /\ Len(lines) \in Nat
      /\ \A n \in DOMAIN following : following[n] \in DOMAIN lines
  BY IdTypes DEF TypeOK
<1>3. FollowedLines
  BY DEF WaitInv, FollowInv
<1> DEFINE e == events[1]
<1> HIDE DEF e
<1>4. CASE Follows
  <2>1. /\ Waits(e) /\ lines' = Append(lines, Shown(e, TRUE, "sent"))
        /\ DOMAIN following' = DOMAIN following \cup {e.id}
        /\ following'[e.id] = Len(lines) + 1
        /\ \A n \in DOMAIN following : n # e.id => following'[n] = following[n]
    BY <1>1, <1>4 DEF Follows, LinesGrow, e
  <2>2. /\ \A i \in DOMAIN lines : lines'[i] = lines[i]
        /\ lines'[Len(lines) + 1] = Shown(e, TRUE, "sent")
    <3>1. PICK l : l = Shown(e, TRUE, "sent")
      OBVIOUS
    <3>2. lines' = Append(lines, l)
      BY <2>1, <3>1
    <3>3. (\A i \in DOMAIN lines : lines'[i] = lines[i]) /\ lines'[Len(lines) + 1] = l
      BY <1>2, <3>2
    <3> QED BY <3>1, <3>3
  <2>3. /\ Shown(e, TRUE, "sent").own /\ Shown(e, TRUE, "sent").status = "sent"
        /\ Shown(e, TRUE, "sent").id = e.id /\ e.id # 0
    BY <2>1 DEF Shown, Waits
  <2>4. \A id \in DOMAIN following :
           id # e.id => following'[id] \in DOMAIN lines /\ following'[id] # Len(lines) + 1
                        /\ lines'[following'[id]] = lines[following[id]]
    <3> TAKE id \in DOMAIN following
    <3> HAVE id # e.id
    <3>1. following'[id] = following[id] /\ following[id] \in DOMAIN lines
      BY <1>2, <2>1
    <3>2. lines'[following[id]] = lines[following[id]]
      BY <2>2, <3>1
    <3>3. \A i \in DOMAIN lines : i # Len(lines) + 1
      BY <1>2
    <3> QED BY <3>1, <3>2, <3>3
  <2>5. ASSUME NEW id \in DOMAIN following'
        PROVE  /\ lines'[following'[id]].own /\ lines'[following'[id]].status = "sent"
               /\ lines'[following'[id]].id # 0
    <3>1. CASE id = e.id
      <4>1. lines'[following'[id]] = Shown(e, TRUE, "sent")
        BY <2>1, <2>2, <3>1
      <4> QED BY <2>3, <4>1
    <3>2. CASE id # e.id
      BY <1>3, <2>1, <2>4, <3>2 DEF FollowedLines
    <3> QED BY <3>1, <3>2
  <2>6. ASSUME NEW id \in DOMAIN following', NEW other \in DOMAIN following',
               following'[id] = following'[other]
        PROVE  id = other
    <3>1. \A n \in DOMAIN following : n # e.id => following'[n] = following[n]
                                                /\ following'[n] # Len(lines) + 1
      BY <2>1, <2>4
    <3>2. CASE id # e.id /\ other # e.id
      <4>1. id \in DOMAIN following /\ other \in DOMAIN following
            /\ following[id] = following[other]
        BY <2>1, <2>6, <3>1, <3>2
      <4> QED BY <1>3, <4>1 DEF FollowedLines
    <3> QED BY <2>1, <2>6, <3>1, <3>2
  <2> QED BY <2>5, <2>6 DEF FollowedLines
<1>5. CASE Adds
  <2>1. following' = following /\ \E l : lines' = Append(lines, l)
    BY <1>5 DEF Adds, LinesGrow
  <2>2. \A i \in DOMAIN lines : lines'[i] = lines[i]
    BY <1>2, <2>1
  <2> QED BY <1>2, <1>3, <2>1, <2>2 DEF FollowedLines
<1>6. CASE Concludes
  <2>1. /\ e.id \in DOMAIN following
        /\ DOMAIN following' = DOMAIN following \ {e.id}
        /\ \A n \in DOMAIN following \ {e.id} : following'[n] = following[n]
        /\ \A i \in DOMAIN lines : i # following[e.id] => lines'[i] = lines[i]
    BY <1>1, <1>6 DEF Concludes, e
  <2>2. \A id \in DOMAIN following' :
           /\ id \in DOMAIN following /\ following'[id] = following[id]
           /\ lines'[following[id]] = lines[following[id]]
    BY <1>2, <1>3, <2>1 DEF FollowedLines
  <2> QED BY <1>3, <2>2 DEF FollowedLines
<1> QED BY <1>4, <1>5, <1>6

LEMMA HandlingKeepsWait ==
  ASSUME TypeOK, WaitInv, HandleEvent
  PROVE  WaitInv'
<1>1. HandlesFirst /\ (Follows \/ Adds \/ Concludes \/ GivesUp)
  BY HandleIs DEF WaitInv
<1>2. /\ Head(events) = events[1] /\ events[1] \in Told /\ 1 \in DOMAIN events
      /\ \A i \in DOMAIN events' : i + 1 \in DOMAIN events /\ events'[i] = events[i + 1]
      /\ DOMAIN events' \subseteq Nat \ {0} /\ DOMAIN events \subseteq Int
      /\ DOMAIN events = 1..Len(events) /\ DOMAIN events' = 1..(Len(events) - 1)
      /\ Len(events) \in Nat \ {0} /\ Len(events') = Len(events) - 1
      /\ End = End' + 1 /\ End' \in Nat \ {0} /\ worker' = worker
  BY <1>1, FirstGoes DEF HandlesFirst
<1>3. CASE Follows \/ Adds \/ Concludes
  <2>1. IdsInv'
    BY <1>1, <1>3, HandlingKeepsIds
  <2>2. ASSUME NEW id, NEW of, NEW t, NEW x, NEW k \in Nat \ {0}
        PROVE  Known(id, of, t, x, k)' <=> Known(id, of, t, x, k + 1)
                                           /\ ~(Settles(events[1]) /\ events[1].id = id)
    BY <1>1, <1>3, KnownMovesUp
  <2>3. \A id, k : k \in Nat \ {0} =>
           (Settled(id, k + 1) <=> Settled(id, k)' \/ (Settles(events[1]) /\ events[1].id = id))
    BY <1>1, SettledMovesUp
  <2>4. \A k \in Nat \ {0} : Open(k)' = Open(k + 1)
    BY <1>1, <1>3, OpenMovesUp
  <2>5. FollowedLines'
    BY <1>1, <1>3, HandlingKeepsLines
  <2>6. AnswersKnown'
    <3>1. ASSUME NEW j \in DOMAIN events', NEW r, r = events'[j], Settles(r)
          PROVE  \E text \in Texts : Known(r.id, r.of, r.target, text, j)'
      <4>1. r = events[j + 1] /\ j + 1 \in DOMAIN events /\ j \in Nat \ {0} /\ j + 1 # 1
        BY <1>2, <3>1
      <4>2. PICK text \in Texts : Known(r.id, r.of, r.target, text, j + 1)
        BY <3>1, <4>1 DEF WaitInv, FollowInv, AnswersKnown
      <4>3. ~(Settles(events[1]) /\ events[1].id = r.id)
        BY <1>2, <3>1, <4>1 DEF WaitInv, FollowInv, AnswersKnown
      <4> QED BY <2>2, <4>1, <4>2, <4>3
    <3>2. ASSUME NEW j \in DOMAIN events', NEW k \in DOMAIN events', j # k,
                 Settles(events'[j]), Settles(events'[k])
          PROVE  events'[j].id # events'[k].id
      <4>1. j + 1 # k + 1
        BY <1>2, <3>2
      <4> QED BY <1>2, <3>2, <4>1 DEF WaitInv, FollowInv, AnswersKnown
    <3> QED BY <3>1, <3>2 DEF AnswersKnown
  <2>7. RoomToFollow'
    BY <1>2, <2>4 DEF WaitInv, FollowInv, RoomToFollow
  <2>8. EndIsLast'
    BY <1>2 DEF WaitInv, FollowInv, EndIsLast
  <2>9. PendingInv'
    <3>2. ASSUME worker.up PROVE PendingKnown'
      <4>1. ASSUME NEW i \in DOMAIN worker'.pending, NEW q, q = worker'.pending[i]
            PROVE  Known(q.id, q.of, q.target, q.text, End)' /\ ~Settled(q.id, End)'
        <5>1. Known(q.id, q.of, q.target, q.text, End) /\ ~Settled(q.id, End)
          BY <1>2, <3>2, <4>1 DEF WaitInv, PendingInv, PendingKnown
        <5>2. PICK k \in Nat \ {0} : k = End' /\ End = k + 1
          BY <1>2
        <5>3. ~Settled(q.id, k)' /\ ~(Settles(events[1]) /\ events[1].id = q.id)
          BY <2>3, <5>1, <5>2
        <5>4. Known(q.id, q.of, q.target, q.text, k)'
          BY <2>2, <5>1, <5>2, <5>3
        <5> QED BY <5>2, <5>3, <5>4
      <4> QED BY <4>1 DEF PendingKnown
    <3>3. ASSUME worker.up PROVE OpenPending'
      <4>1. PICK k \in Nat \ {0} : k = End' /\ End = k + 1
        BY <1>2
      <4>2. Open(End)' = Open(End)
        <5>1. Open(k)' = Open(k + 1)
          BY <2>4
        <5> QED BY <4>1, <5>1 DEF Open
      <4> QED BY <1>2, <3>3, <4>2 DEF WaitInv, PendingInv, OpenPending
    <3> QED BY <1>2, <3>2, <3>3 DEF WaitInv, PendingInv
  <2> QED BY <2>1, <2>5, <2>6, <2>7, <2>8, <2>9 DEF WaitInv, FollowInv
<1>4. CASE GivesUp
  <2>1. following' = << >> /\ events[1].kind = "disconnected"
    BY <1>2, <1>4 DEF GivesUp
  <2>2. Len(events) = 1 /\ ~worker.up
    BY <1>2, <2>1 DEF WaitInv, FollowInv, EndIsLast
  <2>3. DOMAIN events' = {} /\ DOMAIN following' = {}
    BY <1>2, <2>1, <2>2
  <2>4. IdsInv'
    BY <1>2, <2>3 DEF WaitInv, IdsInv
  <2>5. FollowInv'
    BY <2>3 DEF FollowInv, FollowedLines, AnswersKnown, RoomToFollow, EndIsLast
  <2>6. PendingInv'
    BY <1>2, <2>2 DEF PendingInv
  <2> QED BY <2>4, <2>5, <2>6 DEF WaitInv
<1> QED BY <1>1, <1>3, <1>4

-----------------------------------------------------------------------------
(* Types. *)

EventsTyped ==
    /\ events \in Seq(Told)
    /\ \A i \in DOMAIN events : events[i].kind # "confirmed" => events[i].text \in Texts
ToServerTyped ==
    /\ toServer \in Seq(Links)
    /\ \A i \in DOMAIN toServer :
          \/ toServer[i].kind = "text"
          \/ toServer[i].kind = "req" /\ toServer[i].cap \in Capability
ToClientTyped ==
    /\ toClient \in Seq(Links)
    /\ \A i \in DOMAIN toClient :
          toClient[i].kind \in {"granted", "new"} => toClient[i].cap \in Capability
ShownTyped ==
    /\ lines \in Seq(Lines)
    /\ following \in [DOMAIN following -> DOMAIN lines] /\ DOMAIN following \in SUBSET (Nat \ {0})
CountsTyped ==
    /\ relayed \in [Targets -> [Texts -> Nat]] /\ sends \in Nat

LEMMA TypeIs ==
  /\ TypeOK <=> /\ worker \in Workers /\ server \in SUBSET Capability
                /\ EventsTyped /\ ToServerTyped /\ ToClientTyped /\ ShownTyped /\ CountsTyped
  /\ TypeOK' <=> /\ worker' \in Workers /\ server' \in SUBSET Capability
                 /\ EventsTyped' /\ ToServerTyped' /\ ToClientTyped' /\ ShownTyped' /\ CountsTyped'
<1>1. TypeOK <=> /\ worker \in Workers /\ server \in SUBSET Capability
                 /\ EventsTyped /\ ToServerTyped /\ ToClientTyped /\ ShownTyped /\ CountsTyped
  BY DEF TypeOK, EventsTyped, ToServerTyped, ToClientTyped, ShownTyped, CountsTyped
<1>2. TypeOK' <=> /\ worker' \in Workers /\ server' \in SUBSET Capability
                  /\ EventsTyped' /\ ToServerTyped' /\ ToClientTyped' /\ ShownTyped' /\ CountsTyped'
  BY DEF TypeOK, EventsTyped, ToServerTyped, ToClientTyped, ShownTyped, CountsTyped
<1> QED BY <1>1, <1>2

LEMMA ToldTyped ==
  ASSUME EventsTyped, NEW e \in Told, e.kind # "confirmed" => e.text \in Texts,
         events' = Append(events, e)
  PROVE  EventsTyped'
<1>1. /\ events' \in Seq(Told) /\ DOMAIN events = 1..Len(events)
      /\ DOMAIN events' = 1..(Len(events) + 1)
      /\ \A i \in 1..Len(events) : events'[i] = events[i]
      /\ events'[Len(events) + 1] = e /\ Len(events) \in Nat
  BY AppendIs DEF EventsTyped
<1>2. \A i \in DOMAIN events' :
         \/ i \in DOMAIN events /\ events'[i] = events[i]
         \/ events'[i] = e
  BY <1>1
<1> QED BY <1>1, <1>2 DEF EventsTyped

LEMMA WrittenTyped ==
  ASSUME ToServerTyped, NEW m \in Links, m.kind = "text" \/ (m.kind = "req" /\ m.cap \in Capability),
         toServer' = Append(toServer, m)
  PROVE  ToServerTyped'
<1>1. /\ toServer' \in Seq(Links) /\ DOMAIN toServer = 1..Len(toServer)
      /\ DOMAIN toServer' = 1..(Len(toServer) + 1)
      /\ \A i \in 1..Len(toServer) : toServer'[i] = toServer[i]
      /\ toServer'[Len(toServer) + 1] = m /\ Len(toServer) \in Nat
  BY AppendIs DEF ToServerTyped
<1>2. \A i \in DOMAIN toServer' :
         \/ i \in DOMAIN toServer /\ toServer'[i] = toServer[i]
         \/ toServer'[i] = m
  BY <1>1
<1> QED BY <1>1, <1>2 DEF ToServerTyped

LEMMA SaidTyped ==
  ASSUME ToClientTyped, NEW m \in Links, m.kind \in {"granted", "new"} => m.cap \in Capability,
         toClient' = Append(toClient, m)
  PROVE  ToClientTyped'
<1>1. /\ toClient' \in Seq(Links) /\ DOMAIN toClient = 1..Len(toClient)
      /\ DOMAIN toClient' = 1..(Len(toClient) + 1)
      /\ \A i \in 1..Len(toClient) : toClient'[i] = toClient[i]
      /\ toClient'[Len(toClient) + 1] = m /\ Len(toClient) \in Nat
  BY AppendIs DEF ToClientTyped
<1>2. \A i \in DOMAIN toClient' :
         \/ i \in DOMAIN toClient /\ toClient'[i] = toClient[i]
         \/ toClient'[i] = m
  BY <1>1
<1> QED BY <1>1, <1>2 DEF ToClientTyped

LEMMA TakenTyped ==
  /\ ToServerTyped /\ toServer # <<>> /\ toServer' = Tail(toServer) => ToServerTyped'
  /\ ToClientTyped /\ toClient # <<>> /\ toClient' = Tail(toClient) => ToClientTyped'
  /\ EventsTyped /\ events # <<>> /\ events' = Tail(events) => EventsTyped'
<1>1. ASSUME ToServerTyped, toServer # <<>>, toServer' = Tail(toServer) PROVE ToServerTyped'
  <2>1. /\ toServer' \in Seq(Links) /\ Len(toServer) \in Nat \ {0} /\ DOMAIN toServer = 1..Len(toServer)
        /\ DOMAIN toServer' = 1..(Len(toServer) - 1)
        /\ \A i \in 1..(Len(toServer) - 1) : toServer'[i] = toServer[i + 1]
    BY <1>1, TailIs DEF ToServerTyped
  <2>2. \A i \in DOMAIN toServer' : i + 1 \in DOMAIN toServer /\ toServer'[i] = toServer[i + 1]
    BY <2>1
  <2> QED BY <1>1, <2>1, <2>2 DEF ToServerTyped
<1>2. ASSUME ToClientTyped, toClient # <<>>, toClient' = Tail(toClient) PROVE ToClientTyped'
  <2>1. /\ toClient' \in Seq(Links) /\ Len(toClient) \in Nat \ {0} /\ DOMAIN toClient = 1..Len(toClient)
        /\ DOMAIN toClient' = 1..(Len(toClient) - 1)
        /\ \A i \in 1..(Len(toClient) - 1) : toClient'[i] = toClient[i + 1]
    BY <1>2, TailIs DEF ToClientTyped
  <2>2. \A i \in DOMAIN toClient' : i + 1 \in DOMAIN toClient /\ toClient'[i] = toClient[i + 1]
    BY <2>1
  <2> QED BY <1>2, <2>1, <2>2 DEF ToClientTyped
<1>3. ASSUME EventsTyped, events # <<>>, events' = Tail(events) PROVE EventsTyped'
  <2>1. /\ events' \in Seq(Told) /\ Len(events) \in Nat \ {0} /\ DOMAIN events = 1..Len(events)
        /\ DOMAIN events' = 1..(Len(events) - 1)
        /\ \A i \in 1..(Len(events) - 1) : events'[i] = events[i + 1]
    BY <1>3, TailIs DEF EventsTyped
  <2>2. \A i \in DOMAIN events' : i + 1 \in DOMAIN events /\ events'[i] = events[i + 1]
    BY <2>1
  <2> QED BY <1>3, <2>1, <2>2 DEF EventsTyped
<1> QED BY <1>1, <1>2, <1>3

LEMMA InitTyped == Init => TypeOK
<1> SUFFICES ASSUME Init PROVE TypeOK
  OBVIOUS
<1>1. worker \in Workers
  <2>1. PICK e \in Offers : worker = [NewWorker EXCEPT !.enabled = e]
    BY DEF Init
  <2>2. e \in SUBSET Capability
    BY DEF Offers, Capability
  <2>3. <<>> \in Seq(Pendings) /\ <<>> \in Seq(Nat)
    OBVIOUS
  <2> QED BY <2>1, <2>2, <2>3 DEF NewWorker, Workers
<1>2. server \in SUBSET Capability
  <2>1. server = worker.enabled
    BY DEF Init
  <2> QED BY <1>1, <2>1, WorkerParts
<1>3. /\ events = <<>> /\ toServer = <<>> /\ toClient = <<>> /\ lines = <<>> /\ following = << >>
      /\ relayed = NoneSaid /\ sends = 0
  BY DEF Init
<1>4. EventsTyped /\ ToServerTyped /\ ToClientTyped
  BY <1>3 DEF EventsTyped, ToServerTyped, ToClientTyped
<1>5. ShownTyped
  <2>1. DOMAIN following = {} /\ lines \in Seq(Lines)
    BY <1>3
  <2>2. following \in [DOMAIN following -> DOMAIN lines]
    BY <1>3, <2>1
  <2> QED BY <2>1, <2>2 DEF ShownTyped
<1>6. CountsTyped
  BY <1>3 DEF CountsTyped, NoneSaid
<1> QED BY <1>1, <1>2, <1>4, <1>5, <1>6, TypeIs

LEMMA SendTyped ==
  ASSUME TypeOK, NEW target \in Targets, NEW text \in Texts, NEW written \in BOOLEAN,
         Send(target, text, written)
  PROVE  TypeOK'
<1>1. SendsOn
  BY SendIs
<1>2. /\ worker' \in Workers /\ server' = server /\ sends' = sends + 1
      /\ UNCHANGED <<toClient, lines, following, relayed>>
  BY <1>1 DEF SendsOn, windowVars
<1>3. EventsTyped /\ ToServerTyped /\ ToClientTyped /\ ShownTyped /\ CountsTyped /\ server \in SUBSET Capability
  BY TypeIs
<1>4. sends + 1 \in Nat /\ CountsTyped'
  BY <1>2, <1>3 DEF CountsTyped
<1>5. ToClientTyped' /\ ShownTyped'
  BY <1>2, <1>3 DEF ToClientTyped, ShownTyped
<1>6. ASSUME NEW id \in Nat, NEW label \in Nat,
             toServer' = Append(toServer, Line("text", sends + 1, target, text, label)),
             events' = Append(events, Event("accepted", id, sends + 1, target, text))
      PROVE  EventsTyped' /\ ToServerTyped'
  <2>1. /\ Event("accepted", id, sends + 1, target, text) \in Told
        /\ Event("accepted", id, sends + 1, target, text).text = text
    BY <1>4, EventTypes DEF Event
  <2>2. /\ Line("text", sends + 1, target, text, label) \in Links
        /\ Line("text", sends + 1, target, text, label).kind = "text"
    BY <1>4, LineTypes DEF Line, LinkKinds
  <2>3. EventsTyped'
    BY <1>3, <1>6, <2>1, ToldTyped
  <2>4. ToServerTyped'
    BY <1>3, <1>6, <2>2, WrittenTyped
  <2> QED BY <2>3, <2>4
<1>7. EventsTyped' /\ ToServerTyped'
  <2>1. CASE \E p \in Pendings : Tracked(p, target, text)
    <3>1. PICK p \in Pendings : Tracked(p, target, text)
      BY <2>1
    <3>2. p.id \in Nat /\ p.label \in Nat
      BY DEF Pendings
    <3> QED BY <1>6, <3>1, <3>2 DEF Tracked
  <2>2. CASE Unseen(target, text)
    BY <1>6, <2>2 DEF Unseen
  <2>3. CASE Unwritten
    BY <1>3, <2>3 DEF Unwritten, EventsTyped, ToServerTyped
  <2> QED BY <2>1, <2>2, <2>3, SendIs
<1> QED BY <1>2, <1>3, <1>4, <1>5, <1>7, TypeIs

LEMMA ReceiveTyped ==
  ASSUME TypeOK, PendingInv, Receive
  PROVE  TypeOK'
<1> DEFINE m == Head(toClient)
<1>1. Taken
  BY ReceiveIs
<1>2. /\ worker' \in Workers /\ server' = server /\ sends' = sends
      /\ UNCHANGED <<lines, following, relayed>>
      /\ toClient # <<>> /\ toClient' = Tail(toClient)
  BY <1>1 DEF Taken, windowVars
<1>3. EventsTyped /\ ToServerTyped /\ ToClientTyped /\ ShownTyped /\ CountsTyped /\ server \in SUBSET Capability
  BY TypeIs
<1>4. ToClientTyped' /\ ShownTyped' /\ CountsTyped'
  BY <1>2, <1>3, TakenTyped DEF ShownTyped, CountsTyped
<1>5. ToServerTyped'
  <2>1. CASE toServer' = toServer
    BY <1>3, <2>1 DEF ToServerTyped
  <2>2. CASE \E cap \in Capability : toServer' = Append(toServer, CapLine("req", cap))
    <3>1. PICK cap \in Capability : toServer' = Append(toServer, CapLine("req", cap))
      BY <2>2
    <3>2. CapLine("req", cap) \in Links
      BY LineTypes
    <3>3. CapLine("req", cap).kind = "req" /\ CapLine("req", cap).cap = cap
      BY DEF CapLine, Bare, Line
    <3> QED BY <1>3, <3>1, <3>2, <3>3, WrittenTyped
  <2> QED BY <1>1, <2>1, <2>2 DEF Taken
<1>6. m \in Links
  BY <1>2, <1>3, TailIs DEF ToClientTyped
<1>7. EventsTyped'
  <2>1. ASSUME NEW i \in DOMAIN worker.pending, Answered(i) PROVE EventsTyped'
    <3>1. worker.pending[i] \in Pendings
      BY IdTypes
    <3>2. /\ Answer(worker.pending[i], m) \in Told
          /\ Answer(worker.pending[i], m).kind # "confirmed" => Answer(worker.pending[i], m).text \in Texts
      BY <1>6, <3>1, AnswerTypes
    <3> QED BY <1>3, <2>1, <3>2, ToldTyped DEF Answered
  <2>2. CASE Stopped
    <3> DEFINE failures == [i \in DOMAIN worker.pending |-> Failed(worker.pending[i])]
    <3>1. /\ worker.pending \in Seq(Pendings)
          /\ \A i \in DOMAIN worker.pending : worker.pending[i] \in Pendings
      BY IdTypes
    <3>2. \A i \in DOMAIN worker.pending :
             Failed(worker.pending[i]) \in Told /\ Failed(worker.pending[i]).text \in Texts
      BY <3>1, AnswerTypes
    <3>3. failures \in Seq(Told) /\ \A i \in DOMAIN failures : failures[i].text \in Texts
      BY <3>1, <3>2
    <3>4. events' = events \o failures
      BY <2>2 DEF Stopped
    <3> HIDE DEF failures
    <3>5. /\ events \o failures \in Seq(Told) /\ Len(events) \in Nat
          /\ DOMAIN events = 1..Len(events) /\ DOMAIN failures = 1..Len(failures)
          /\ Len(failures) \in Nat
          /\ DOMAIN (events \o failures) = 1..(Len(events) + Len(failures))
          /\ \A i \in 1..Len(events) : (events \o failures)[i] = events[i]
          /\ \A i \in 1..(Len(events) + Len(failures)) :
                i > Len(events) => (events \o failures)[i] = failures[i - Len(events)]
      BY <1>3, <3>3, ConcatIs DEF EventsTyped
    <3>6. \A i \in DOMAIN events' :
             \/ i \in DOMAIN events /\ events'[i] = events[i]
             \/ i - Len(events) \in DOMAIN failures /\ events'[i] = failures[i - Len(events)]
      BY <3>4, <3>5
    <3> QED BY <1>3, <3>3, <3>4, <3>5, <3>6 DEF EventsTyped
  <2>3. CASE ShownAsMessage
    <3>1. m.of \in Nat /\ m.target \in Targets /\ m.text \in Texts
      BY <1>6 DEF Links
    <3>2. /\ Event("message", 0, m.of, m.target, m.text) \in Told
          /\ Event("message", 0, m.of, m.target, m.text).text = m.text
      BY <3>1, EventTypes DEF Event
    <3> QED BY <1>3, <2>3, <3>1, <3>2, ToldTyped DEF ShownAsMessage
  <2>4. CASE Unanswered
    BY <1>3, <2>4 DEF Unanswered, EventsTyped
  <2> QED BY <2>1, <2>2, <2>3, <2>4, ReceiveIs DEF Answered
<1> QED BY <1>2, <1>3, <1>4, <1>5, <1>7, TypeIs

LEMMA ExpireTyped ==
  ASSUME TypeOK, Expire
  PROVE  TypeOK'
<1>1. /\ Leaves(1, Failed(worker.pending[1])) /\ worker' \in Workers
      /\ UNCHANGED <<toServer, toClient, server, windowVars, relayed, sends>>
  BY ExpireIs
<1>2. EventsTyped'
  <2>1. EventsTyped
    BY TypeIs
  <2>2. worker.pending[1] \in Pendings
    BY <1>1, IdTypes DEF Leaves
  <2> QED BY <1>1, <2>1, <2>2, AnswerTypes, ToldTyped DEF Leaves
<1>3. ToServerTyped' /\ ToClientTyped' /\ ShownTyped' /\ CountsTyped' /\ server' \in SUBSET Capability
  <2>1. ToServerTyped /\ ToClientTyped /\ ShownTyped /\ CountsTyped /\ server \in SUBSET Capability
    BY TypeIs
  <2> QED BY <1>1, <2>1 DEF ToServerTyped, ToClientTyped, ShownTyped, CountsTyped, windowVars
<1> QED BY <1>1, <1>2, <1>3, TypeIs

LEMMA HandleTyped ==
  ASSUME TypeOK, WaitInv, HandleEvent
  PROVE  TypeOK'
<1> DEFINE e == Head(events)
<1>1. /\ events # <<>> /\ events' = Tail(events)
      /\ UNCHANGED <<worker, toServer, toClient, server, relayed, sends>>
  BY DEF HandleEvent
<1>2. /\ e \in Told /\ (e.kind # "confirmed" => e.text \in Texts)
      /\ e.of \in Nat /\ e.target \in Targets /\ e.id \in Nat /\ e.text \in Texts \cup {AsSent}
      /\ Settles(e) => e.id \in DOMAIN following
  <2>1. /\ e \in Told /\ (e.kind # "confirmed" => e.text \in Texts)
        /\ Settles(e) => e.id \in DOMAIN following
    BY <1>1, FirstIs DEF WaitInv
  <2> QED BY <2>1 DEF Told
<1>3. /\ lines \in Seq(Lines) /\ following \in [DOMAIN following -> DOMAIN lines]
      /\ DOMAIN following \in SUBSET (Nat \ {0})
      /\ DOMAIN lines = 1..Len(lines) /\ Len(lines) \in Nat
  BY DEF TypeOK
<1>4. EventsTyped' /\ ToServerTyped' /\ ToClientTyped' /\ CountsTyped' /\ server' \in SUBSET Capability
      /\ worker' \in Workers
  <2>1. EventsTyped /\ ToServerTyped /\ ToClientTyped /\ CountsTyped /\ server \in SUBSET Capability
        /\ worker \in Workers
    BY TypeIs
  <2> QED BY <1>1, <2>1, TakenTyped DEF ToServerTyped, ToClientTyped, CountsTyped
<1>9. HandleEvent
  OBVIOUS
<1> HIDE DEF e
<1>5. ASSUME NEW l \in Lines, lines' = Append(lines, l)
      PROVE  lines' \in Seq(Lines) /\ DOMAIN lines' = 1..(Len(lines) + 1) /\ DOMAIN lines \subseteq DOMAIN lines'
  BY <1>3, <1>5
<1>6. ASSUME following' = Without(following, e.id), DOMAIN lines' = DOMAIN lines
      PROVE  following' \in [DOMAIN following' -> DOMAIN lines'] /\ DOMAIN following' \subseteq DOMAIN following
  BY <1>3, <1>6 DEF Without, RestrictDomain, Restrict
<1>7. ShownTyped'
  <2>1. CASE e.kind = "accepted" /\ Accepted(e)
    <3>1. Shown(e, TRUE, "sent") \in Lines
      BY <1>2, <2>1 DEF Shown, Lines
    <3>2. lines' \in Seq(Lines) /\ DOMAIN lines' = 1..(Len(lines) + 1) /\ DOMAIN lines \subseteq DOMAIN lines'
      BY <1>5, <2>1, <3>1 DEF Accepted
    <3>3. CASE following' = following
      BY <1>3, <3>2, <3>3 DEF ShownTyped
    <3>4. CASE following' = With(following, e.id, Len(lines) + 1) /\ e.id # 0
      <4>1. following' = [x \in {e.id} \cup DOMAIN following |->
                            IF x = e.id THEN Len(lines) + 1 ELSE following[x]]
        BY <3>4 DEF With
      <4>2. DOMAIN following' = {e.id} \cup DOMAIN following
        BY <4>1
      <4>3. \A x \in DOMAIN following : following[x] \in DOMAIN lines'
        BY <1>3, <3>2
      <4>4. Len(lines) + 1 \in DOMAIN lines'
        BY <1>3, <3>2
      <4> QED BY <1>2, <1>3, <3>2, <3>4, <4>1, <4>2, <4>3, <4>4 DEF ShownTyped
    <3> QED BY <2>1, <3>3, <3>4 DEF Accepted
  <2>2. CASE e.kind = "confirmed" /\ Confirmed(e)
    <3> DEFINE n == following[e.id]
               final == FinalText(lines[n], e)
    <3>1. e.id \in DOMAIN following /\ n \in DOMAIN lines /\ lines[n] \in Lines
      BY <1>2, <1>3, <2>2 DEF Settles
    <3>2. final \in Texts
      BY <1>2, <3>1 DEF FinalText, Lines
    <3>3. lines' = [lines EXCEPT ![n].status = "confirmed", ![n].text = final]
      BY <2>2, <3>1 DEF Confirmed
    <3> HIDE DEF n, final
    <3>4. DOMAIN lines' = DOMAIN lines /\ lines' \in Seq(Lines)
      <4>1. [lines[n] EXCEPT !.status = "confirmed", !.text = final] \in Lines
        BY <3>1, <3>2 DEF Lines
      <4>2. lines' = [lines EXCEPT ![n] = [lines[n] EXCEPT !.status = "confirmed", !.text = final]]
        BY <1>3, <3>1, <3>3
      <4> QED BY <1>3, <3>1, <4>1, <4>2
    <3>5. following' = Without(following, e.id)
      BY <2>2 DEF Confirmed
    <3> QED BY <1>3, <1>6, <3>4, <3>5 DEF ShownTyped
  <2>3. CASE e.kind = "failed" /\ NotConfirmed(e)
    <3> DEFINE n == following[e.id]
    <3>1. e.id \in DOMAIN following /\ n \in DOMAIN lines /\ lines[n] \in Lines
      BY <1>2, <1>3, <2>3 DEF Settles
    <3>3. lines' = [lines EXCEPT ![n].status = "failed"]
      BY <2>3, <3>1 DEF NotConfirmed
    <3> HIDE DEF n
    <3>4. DOMAIN lines' = DOMAIN lines /\ lines' \in Seq(Lines)
      <4>1. [lines[n] EXCEPT !.status = "failed"] \in Lines
        BY <3>1 DEF Lines
      <4> QED BY <1>3, <3>1, <3>3, <4>1
    <3>5. following' = Without(following, e.id)
      BY <2>3 DEF NotConfirmed
    <3> QED BY <1>3, <1>6, <3>4, <3>5 DEF ShownTyped
  <2>4. CASE e.kind = "message" /\ MessageShown(e)
    <3>1. Shown(e, FALSE, "received") \in Lines
      BY <1>2, <2>4 DEF Shown, Lines
    <3>2. lines' \in Seq(Lines) /\ DOMAIN lines \subseteq DOMAIN lines' /\ following' = following
      BY <1>5, <2>4, <3>1 DEF MessageShown
    <3> QED BY <1>3, <3>2 DEF ShownTyped
  <2>5. CASE e.kind = "disconnected" /\ Disconnected
    <3>1. following' = << >>
          /\ lines' = [i \in DOMAIN lines |-> IF i \in Range(following)
                                        THEN [lines[i] EXCEPT !.status = "failed"]
                                        ELSE lines[i]]
      BY <2>5 DEF Disconnected
    <3>2. \A i \in DOMAIN lines : [lines[i] EXCEPT !.status = "failed"] \in Lines /\ lines[i] \in Lines
      <4> TAKE i \in DOMAIN lines
      <4>1. lines[i] \in Lines
        BY <1>3
      <4> QED BY <4>1 DEF Lines
    <3>3. lines' \in Seq(Lines)
      BY <1>3, <3>1, <3>2
    <3>4. DOMAIN following' = {} /\ following' \in [DOMAIN following' -> DOMAIN lines']
      BY <3>1
    <3> QED BY <3>3, <3>4 DEF ShownTyped
  <2> QED BY <1>9, <2>1, <2>2, <2>3, <2>4, <2>5 DEF HandleEvent, e
<1> QED BY <1>4, <1>7, TypeIs

LEMMA OnceTyped ==
  ASSUME NEW said \in [Targets -> [Texts -> Nat]], NEW target \in Targets, NEW text \in Texts
  PROVE  /\ Once(said, target, text) \in [Targets -> [Texts -> Nat]]
         /\ \A t \in Targets, x \in Texts :
               Once(said, target, text)[t][x]
                 = IF t = target /\ x = text THEN said[t][x] + 1 ELSE said[t][x]
<1>1. said[target] \in [Texts -> Nat] /\ said[target][text] \in Nat
  OBVIOUS
<1>2. [said[target] EXCEPT ![text] = @ + 1] \in [Texts -> Nat]
  BY <1>1
<1>3. Once(said, target, text) = [said EXCEPT ![target] = [said[target] EXCEPT ![text] = @ + 1]]
  BY DEF Once
<1>4. Once(said, target, text) \in [Targets -> [Texts -> Nat]]
  BY <1>2, <1>3
<1>5. ASSUME NEW t \in Targets, NEW x \in Texts
      PROVE  Once(said, target, text)[t][x]
               = IF t = target /\ x = text THEN said[t][x] + 1 ELSE said[t][x]
  <2>1. CASE t = target
    <3>1. Once(said, target, text)[t] = [said[target] EXCEPT ![text] = @ + 1]
      BY <1>3, <2>1
    <3> QED BY <1>1, <2>1, <3>1
  <2>2. CASE t # target
    BY <1>3, <2>2
  <2> QED BY <2>1, <2>2
<1> QED BY <1>4, <1>5

(* Counting. *)
LEMMA StillTakenIs ==
  ASSUME CountsTyped, ToServerTyped, NEW k \in 0..Len(toServer), StillTaken(k)
  PROVE  /\ relayed' \in [Targets -> [Texts -> Nat]]
         /\ \A target \in Targets, text \in Texts : relayed[target][text] <= relayed'[target][text]
<1> DEFINE more(target, text) ==
             Cardinality({i \in DOMAIN SubSeq(toServer, 1, k) :
                            /\ SubSeq(toServer, 1, k)[i].target = target
                            /\ SubSeq(toServer, 1, k)[i].text = text
                            /\ SubSeq(toServer, 1, k)[i].kind = "text"})
<1>1. k \in Nat /\ DOMAIN SubSeq(toServer, 1, k) = 1..k
  BY DEF ToServerTyped
<1>2. \A target \in Targets, text \in Texts : more(target, text) \in Nat
  <2> TAKE target \in Targets, text \in Texts
  <2> DEFINE at == {i \in DOMAIN SubSeq(toServer, 1, k) :
                            /\ SubSeq(toServer, 1, k)[i].target = target
                            /\ SubSeq(toServer, 1, k)[i].text = text
                            /\ SubSeq(toServer, 1, k)[i].kind = "text"}
  <2>1. at \subseteq 1..k
    BY <1>1
  <2>2. IsFiniteSet(1..k)
    BY <1>1, FS_Interval
  <2> HIDE DEF at
  <2>3. IsFiniteSet(at) /\ Cardinality(at) \in Nat
    BY <2>1, <2>2, FS_Subset, FS_CardinalityType
  <2> QED BY <2>3 DEF at
<1>3. relayed' = [target \in Targets |-> [text \in Texts |-> relayed[target][text] + more(target, text)]]
  BY DEF StillTaken, Amount
<1> HIDE DEF more
<1>4. \A target \in Targets, text \in Texts : relayed[target][text] \in Nat
  BY DEF CountsTyped
<1>5. \A target \in Targets, text \in Texts :
         /\ relayed[target][text] + more(target, text) \in Nat
         /\ relayed[target][text] <= relayed[target][text] + more(target, text)
  BY <1>2, <1>4
<1>6. \A target \in Targets, text \in Texts :
         relayed'[target][text] = relayed[target][text] + more(target, text)
  BY <1>3
<1> QED BY <1>3, <1>5, <1>6

LEMMA LinkEndsTyped ==
  ASSUME TypeOK, LinkEnds
  PROVE  TypeOK'
<1>1. EventsTyped /\ ToServerTyped /\ ToClientTyped /\ ShownTyped /\ CountsTyped /\ server \in SUBSET Capability
      /\ worker \in Workers
  BY TypeIs
<1>2. /\ worker' = [worker EXCEPT !.up = FALSE] /\ events' = Append(events, NoMore)
      /\ toServer' = <<>> /\ toClient' = <<>> /\ UNCHANGED <<server, windowVars, sends>>
  BY DEF LinkEnds
<1>3. CountsTyped'
  <2>1. PICK k \in 0..Len(toServer) : StillTaken(k)
    BY DEF LinkEnds
  <2> QED BY <1>1, <1>2, <2>1, StillTakenIs DEF CountsTyped
<1>4. EventsTyped'
  <2>1. NoMore.text \in Texts
    BY LineTypes DEF NoMore
  <2> QED BY <1>1, <1>2, <2>1, EventTypes, ToldTyped
<1>5. ToServerTyped' /\ ToClientTyped' /\ ShownTyped'
  BY <1>1, <1>2 DEF ToServerTyped, ToClientTyped, ShownTyped, windowVars
<1>6. worker' \in Workers
  BY <1>1, <1>2 DEF Workers
<1> QED BY <1>1, <1>2, <1>3, <1>4, <1>5, <1>6, TypeIs

LEMMA ConnectTyped ==
  ASSUME TypeOK, Connect
  PROVE  TypeOK'
<1>1. ShownTyped /\ CountsTyped /\ ToServerTyped
  BY TypeIs
<1>2. /\ events' = <<>> /\ toServer' = <<>> /\ toClient' = <<>> /\ following' = << >>
      /\ UNCHANGED <<lines, sends>>
  BY DEF Connect
<1>3. CountsTyped'
  <2>1. PICK k \in 0..Len(toServer) : StillTaken(k)
    BY DEF Connect
  <2> QED BY <1>1, <1>2, <2>1, StillTakenIs DEF CountsTyped
<1>4. EventsTyped' /\ ToServerTyped' /\ ToClientTyped'
  BY <1>2 DEF EventsTyped, ToServerTyped, ToClientTyped
<1>5. ShownTyped'
  <2>1. DOMAIN following' = {} /\ following' \in [DOMAIN following' -> DOMAIN lines']
    BY <1>2
  <2> QED BY <1>1, <1>2, <2>1 DEF ShownTyped
<1>6. worker' \in Workers /\ server' \in SUBSET Capability
  <2>1. PICK e \in Offers : worker' = [NewWorker EXCEPT !.enabled = e] /\ server' = e
    BY DEF Connect
  <2>2. e \in SUBSET Capability
    BY DEF Offers, Capability
  <2>3. <<>> \in Seq(Pendings) /\ <<>> \in Seq(Nat)
    OBVIOUS
  <2> QED BY <2>1, <2>2, <2>3 DEF NewWorker, Workers
<1> QED BY <1>3, <1>4, <1>5, <1>6, TypeIs

(* The server and another client change the link and its own state only. *)
ServerStep == Serve \/ (\E cap \in Capability : Withdraw(cap) \/ Offer(cap))
              \/ \E target \in Targets, text \in Texts : OtherClientSends(target, text)

LEMMA ServerTyped ==
  ASSUME TypeOK, ServerStep
  PROVE  TypeOK' /\ UNCHANGED <<worker, events, windowVars, sends>>
<1> DEFINE m == Head(toServer)
<1>1. EventsTyped /\ ToServerTyped /\ ToClientTyped /\ ShownTyped /\ CountsTyped /\ server \in SUBSET Capability
      /\ worker \in Workers
  BY TypeIs
<1>2. ASSUME NextTaken
      PROVE  /\ ToServerTyped' /\ m \in Links /\ (m.kind = "req" => m.cap \in Capability)
             /\ UNCHANGED <<worker, events, windowVars, sends>>
  <2>1. toServer # <<>> /\ toServer' = Tail(toServer) /\ UNCHANGED <<worker, events, windowVars, sends>>
    BY <1>2 DEF NextTaken
  <2>2. m \in Links /\ m = toServer[1] /\ 1 \in DOMAIN toServer
    BY <1>1, <2>1, TailIs DEF ToServerTyped
  <2> QED BY <1>1, <2>1, <2>2, TakenTyped DEF ToServerTyped
<1>3. ASSUME UNCHANGED <<worker, events, windowVars, sends>>, server' \in SUBSET Capability,
             ToServerTyped', ToClientTyped', relayed' \in [Targets -> [Texts -> Nat]]
      PROVE  TypeOK'
  <2>1. EventsTyped' /\ ShownTyped' /\ CountsTyped' /\ worker' \in Workers
    BY <1>1, <1>3 DEF EventsTyped, ShownTyped, CountsTyped, windowVars
  <2> QED BY <1>3, <2>1, TypeIs
<1>4. relayed \in [Targets -> [Texts -> Nat]]
  BY <1>1 DEF CountsTyped
<1> HIDE DEF m
<1>14. m \in Links => /\ m.of \in Nat /\ m.target \in Targets /\ m.text \in Texts /\ m.label \in Nat
                      /\ Says(m) \in Nat
  BY DEF Links, Says
<1>5. ASSUME NEW text \in Texts, NEW batched \in BOOLEAN, Deliver(text, batched)
      PROVE  TypeOK' /\ UNCHANGED <<worker, events, windowVars, sends>>
  <2>1. /\ NextTaken /\ server' = server /\ relayed' = Once(relayed, m.target, text)
        /\ toClient' = IF "echo" \in server
                       THEN toClient \o Echo(m, text, Says(m), batched) ELSE toClient
    BY <1>5 DEF Deliver, m
  <2>2. m \in Links /\ m.target \in Targets /\ m.of \in Nat /\ Says(m) \in Nat
    BY <1>2, <1>14, <2>1
  <2>3. ToClientTyped'
    <3> DEFINE echo == Echo(m, text, Says(m), batched)
    <3>1. echo \in Seq(Links) /\ \A i \in DOMAIN echo : echo[i].kind \notin {"granted", "new"}
      <4>1. /\ Line("text", m.of, m.target, text, Says(m)) \in Links
            /\ [Line("text", m.of, m.target, text, Says(m)) EXCEPT !.label = 0, !.batch = Says(m)] \in Links
            /\ Bare("open", Says(m)) \in Links /\ Bare("close", Says(m)) \in Links
        BY <2>2, LineTypes DEF LinkKinds
      <4>2. /\ Line("text", m.of, m.target, text, Says(m)).kind = "text"
            /\ [Line("text", m.of, m.target, text, Says(m)) EXCEPT !.label = 0, !.batch = Says(m)].kind = "text"
            /\ Bare("open", Says(m)).kind = "open" /\ Bare("close", Says(m)).kind = "close"
        BY DEF Line, Bare
      <4>3. ASSUME NEW a \in Links, NEW b \in Links, NEW c \in Links, 
                   a.kind = "open", b.kind = "text", c.kind = "close"
            PROVE  /\ <<a, b, c>> \in Seq(Links)
                   /\ \A i \in DOMAIN <<a, b, c>> : <<a, b, c>>[i].kind \notin {"granted", "new"}
        BY <4>3
      <4>4. ASSUME NEW a \in Links, a.kind = "text"
            PROVE  <<a>> \in Seq(Links) /\ \A i \in DOMAIN <<a>> : <<a>>[i].kind \notin {"granted", "new"}
        BY <4>4
      <4>5. CASE batched
        BY <4>1, <4>2, <4>3, <4>5 DEF Echo
      <4>6. CASE ~batched
        BY <4>1, <4>2, <4>4, <4>6 DEF Echo
      <4> QED BY <4>5, <4>6
    <3> HIDE DEF echo
    <3>2. CASE toClient' = toClient
      BY <1>1, <3>2 DEF ToClientTyped
    <3>3. CASE toClient' = toClient \o echo
      <4>1. /\ toClient \o echo \in Seq(Links) /\ Len(toClient) \in Nat /\ Len(echo) \in Nat
            /\ DOMAIN toClient = 1..Len(toClient) /\ DOMAIN echo = 1..Len(echo)
            /\ DOMAIN (toClient \o echo) = 1..(Len(toClient) + Len(echo))
            /\ \A i \in 1..Len(toClient) : (toClient \o echo)[i] = toClient[i]
            /\ \A i \in 1..(Len(toClient) + Len(echo)) :
                  i > Len(toClient) => (toClient \o echo)[i] = echo[i - Len(toClient)]
        BY <1>1, <3>1, ConcatIs DEF ToClientTyped
      <4>2. \A i \in DOMAIN toClient' :
               \/ i \in DOMAIN toClient /\ toClient'[i] = toClient[i]
               \/ i - Len(toClient) \in DOMAIN echo /\ toClient'[i] = echo[i - Len(toClient)]
        BY <3>3, <4>1
      <4> QED BY <1>1, <3>1, <3>3, <4>1, <4>2 DEF ToClientTyped
    <3> QED BY <2>1, <3>2, <3>3 DEF echo
  <2>4. relayed' \in [Targets -> [Texts -> Nat]]
    BY <1>4, <2>1, <2>2, OnceTyped
  <2> QED BY <1>1, <1>2, <1>3, <2>1, <2>3, <2>4
<1>6. ASSUME NEW kind \in LinkKinds, NEW cap \in Capability \cup {""}, NEW n \in Nat,
             NEW l, l = Bare(kind, n) \/ (kind \in {"new", "granted", "del"} /\ l = CapLine(kind, cap)),
             kind \in {"granted", "new"} => cap \in Capability /\ l = CapLine(kind, cap),
             toClient' = Append(toClient, l)
      PROVE  ToClientTyped'
  <2>1. l \in Links
    <3>1. Bare(kind, n) \in Links
      BY LineTypes
    <3>2. kind \in {"new", "granted", "del"} => CapLine(kind, cap) \in Links
      BY LineTypes
    <3> QED BY <1>6, <3>1, <3>2
  <2>2. l.kind = kind /\ (l = CapLine(kind, cap) => l.cap = cap)
    <3>1. Bare(kind, n).kind = kind
      BY DEF Bare, Line
    <3>2. CapLine(kind, cap).kind = kind /\ CapLine(kind, cap).cap = cap
      BY DEF CapLine, Bare, Line
    <3> QED BY <1>6, <3>1, <3>2
  <2> QED BY <1>1, <1>6, <2>1, <2>2, SaidTyped
<1>7. CASE Acknowledge
  <2>1. /\ NextTaken /\ server' = server /\ relayed' = Once(relayed, m.target, m.text)
        /\ toClient' = Append(toClient, Bare("ack", Says(m)))
    BY <1>7 DEF Acknowledge, m
  <2>2. m \in Links /\ m.target \in Targets /\ m.text \in Texts /\ Says(m) \in Nat
    BY <1>2, <1>14, <2>1
  <2>3. relayed' \in [Targets -> [Texts -> Nat]]
    BY <1>4, <2>1, <2>2, OnceTyped
  <2>4. ToClientTyped'
    BY <1>6, <2>1, <2>2 DEF LinkKinds
  <2> QED BY <1>1, <1>2, <1>3, <2>1, <2>3, <2>4
<1>8. CASE Refuse
  <2>1. /\ NextTaken /\ server' = server /\ relayed' = relayed
        /\ toClient' = Append(toClient, Bare("error", Says(m)))
    BY <1>8 DEF Refuse, m
  <2>2. Says(m) \in Nat
    BY <1>2, <1>14, <2>1
  <2>4. ToClientTyped'
    BY <1>6, <2>1, <2>2 DEF LinkKinds
  <2> QED BY <1>1, <1>2, <1>3, <1>4, <2>1, <2>4
<1>9. CASE Grant
  <2>1. /\ NextTaken /\ server' = server \union {m.cap} /\ m.kind = "req" /\ relayed' = relayed
        /\ toClient' = Append(toClient, CapLine("granted", m.cap))
    BY <1>9 DEF Grant, m
  <2>2. m.cap \in Capability
    BY <1>2, <2>1
  <2>4. ToClientTyped'
    BY <1>6, <2>1, <2>2 DEF LinkKinds
  <2>5. server' \in SUBSET Capability
    BY <1>1, <2>1, <2>2
  <2> QED BY <1>2, <1>3, <1>4, <2>1, <2>4, <2>5
<1>10. ASSUME NEW cap \in Capability, Withdraw(cap)
       PROVE  TypeOK' /\ UNCHANGED <<worker, events, windowVars, sends>>
  <2>1. /\ server' = server \ {cap} /\ toClient' = Append(toClient, CapLine("del", cap))
        /\ UNCHANGED <<worker, events, toServer, windowVars, relayed, sends>>
    BY <1>10 DEF Withdraw
  <2>2. ToClientTyped'
    BY <1>6, <2>1 DEF LinkKinds
  <2>3. server' \in SUBSET Capability /\ ToServerTyped'
    BY <1>1, <2>1 DEF ToServerTyped
  <2> QED BY <1>3, <1>4, <2>1, <2>2, <2>3
<1>11. ASSUME NEW cap \in Capability, Offer(cap)
       PROVE  TypeOK' /\ UNCHANGED <<worker, events, windowVars, sends>>
  <2>1. /\ toClient' = Append(toClient, CapLine("new", cap))
        /\ UNCHANGED <<worker, events, toServer, server, windowVars, relayed, sends>>
    BY <1>11 DEF Offer
  <2>2. ToClientTyped'
    BY <1>6, <2>1 DEF LinkKinds
  <2>3. server' \in SUBSET Capability /\ ToServerTyped'
    BY <1>1, <2>1 DEF ToServerTyped
  <2> QED BY <1>3, <1>4, <2>1, <2>2, <2>3
<1>12. ASSUME NEW target \in Targets, NEW text \in Texts, OtherClientSends(target, text)
       PROVE  TypeOK' /\ UNCHANGED <<worker, events, windowVars, sends>>
  <2>1. /\ relayed' = Once(relayed, target, text)
        /\ toClient' = Append(toClient, Line("text", 0, target, text, 0))
        /\ UNCHANGED <<worker, events, toServer, server, windowVars, sends>>
    BY <1>12 DEF OtherClientSends
  <2>2. ToClientTyped'
    <3>1. Line("text", 0, target, text, 0) \in Links /\ Line("text", 0, target, text, 0).kind = "text"
      BY LineTypes DEF LinkKinds, Line
    <3> QED BY <1>1, <2>1, <3>1, SaidTyped
  <2>3. server' \in SUBSET Capability /\ ToServerTyped'
    BY <1>1, <2>1 DEF ToServerTyped
  <2>4. relayed' \in [Targets -> [Texts -> Nat]]
    BY <1>4, <2>1, OnceTyped
  <2> QED BY <1>3, <2>1, <2>2, <2>3, <2>4
<1>13. CASE Serve
  BY <1>5, <1>7, <1>8, <1>9, <1>13 DEF Serve
<1> QED BY <1>10, <1>11, <1>12, <1>13 DEF ServerStep

-----------------------------------------------------------------------------
(* The window's wait, step by step. *)

LEMMA InitWaits == Init => WaitInv
<1> SUFFICES ASSUME Init PROVE WaitInv
  OBVIOUS
<1>1. worker.pending = <<>> /\ events = <<>> /\ following = << >>
  <2>1. PICK e \in Offers : worker = [NewWorker EXCEPT !.enabled = e]
    BY DEF Init
  <2> QED BY <2>1 DEF Init, NewWorker
<1>2. DOMAIN worker.pending = {} /\ DOMAIN events = {} /\ DOMAIN following = {} /\ Len(worker.pending) = 0
  BY <1>1
<1>3. Open(End) = {}
  BY <1>2 DEF Open
<1> QED BY <1>1, <1>2, <1>3, ConfirmedSendingAssumption
     DEF WaitInv, IdsInv, FollowInv, FollowedLines, AnswersKnown, RoomToFollow, EndIsLast,
         PendingInv, PendingKnown, OpenPending

LEMMA SendKeepsWait ==
  ASSUME TypeOK, WaitInv, NEW target \in Targets, NEW text \in Texts, NEW written \in BOOLEAN,
         Send(target, text, written)
  PROVE  WaitInv'
<1>1. SendsOn
  BY SendIs
<1>2. /\ worker.up /\ worker'.up /\ worker' \in Workers /\ UNCHANGED <<following, lines>>
      /\ worker'.nextId = worker.nextId + 1 /\ worker'.enabled = worker.enabled
      /\ worker.nextId \in Nat /\ worker'.nextId >= worker.nextId /\ sends \in Nat
  BY <1>1, IdTypes DEF SendsOn, windowVars, TypeOK
<1>3. worker.pending # <<>> => "echo" \in worker.enabled
  BY <1>2 DEF WaitInv, PendingInv
<1>4. CASE \E p \in Pendings : Tracked(p, target, text)
  BY <1>1, <1>4, TrackedKeepsWait
<1>5. CASE Unseen(target, text)
  <2> DEFINE e == Event("accepted", 0, sends + 1, target, text)
  <2>1. e \in Told
    BY <1>2, EventTypes
  <2>2. ~Waits(e) /\ ~Settles(e) /\ e.kind # "disconnected"
    BY DEF Waits, Settles, Event
  <2>3. worker'.pending = worker.pending /\ events' = Append(events, e)
    BY <1>5 DEF Unseen
  <2> HIDE DEF e
  <2> QED BY <1>2, <1>3, <2>1, <2>2, <2>3, TellingKeepsWait
<1>6. CASE Unwritten
  BY <1>2, <1>3, <1>6, QuietKeepsWait DEF Unwritten
<1> QED BY <1>4, <1>5, <1>6, SendIs

LEMMA ReceiveKeepsWait ==
  ASSUME TypeOK, WaitInv, Receive
  PROVE  WaitInv'
<1>1. Taken
  BY ReceiveIs DEF WaitInv
<1>2. /\ worker.up /\ worker'.up /\ worker' \in Workers /\ worker'.nextId = worker.nextId
      /\ UNCHANGED <<following, lines>> /\ (worker'.pending # <<>> => "echo" \in worker'.enabled)
      /\ worker.nextId \in Nat /\ worker'.nextId >= worker.nextId
  BY <1>1, IdTypes DEF Taken, windowVars
<1>3. ASSUME NEW i \in DOMAIN worker.pending, Answered(i) PROVE WaitInv'
  BY <1>1, <1>2, <1>3, AnsweredLeaves, LeavesKeepsWait
<1>4. CASE Stopped
  BY <1>2, <1>4, StoppedKeepsWait
<1>5. CASE ShownAsMessage
  <2> DEFINE m == Head(toClient)
             e == Event("message", 0, m.of, m.target, m.text)
  <2>1. m \in Links
    <3>1. toClient \in Seq(Links) /\ toClient # <<>>
      BY <1>1 DEF TypeOK, Taken
    <3> QED BY <3>1, TailIs
  <2>2. m.of \in Nat /\ m.target \in Targets /\ m.text \in Texts
    BY <2>1 DEF Links
  <2> HIDE DEF m
  <2>3. e \in Told
    BY <2>2, EventTypes
  <2>4. ~Waits(e) /\ ~Settles(e) /\ e.kind # "disconnected"
    BY DEF Waits, Settles, Event
  <2>5. worker'.pending = worker.pending /\ events' = Append(events, e)
    BY <1>5 DEF ShownAsMessage, m
  <2> HIDE DEF e
  <2> QED BY <1>2, <2>3, <2>4, <2>5, TellingKeepsWait
<1>6. CASE Unanswered
  BY <1>2, <1>6, QuietKeepsWait DEF Unanswered
<1> QED BY <1>3, <1>4, <1>5, <1>6, ReceiveIs DEF Answered, WaitInv

LEMMA ExpireKeepsWait ==
  ASSUME TypeOK, WaitInv, Expire
  PROVE  WaitInv'
<1> DEFINE e == Failed(worker.pending[1])
<1>1. /\ Leaves(1, e) /\ worker.up /\ worker'.up /\ worker'.nextId = worker.nextId
      /\ UNCHANGED <<following, lines>> /\ worker'.enabled = worker.enabled
  BY ExpireIs DEF windowVars
<1>2. 1 \in DOMAIN worker.pending /\ worker.pending # <<>>
  BY <1>1 DEF Leaves
<1>3. "echo" \in worker'.enabled
  BY <1>1, <1>2 DEF WaitInv, PendingInv
<1> HIDE DEF e
<1> QED BY <1>1, <1>2, <1>3, LeavesKeepsWait

LEMMA LinkEndsKeepsWait ==
  ASSUME TypeOK, WaitInv, LinkEnds
  PROVE  WaitInv'
<1>1. /\ worker.up /\ worker' = [worker EXCEPT !.up = FALSE] /\ events' = Append(events, NoMore)
      /\ UNCHANGED <<lines, following>>
  BY DEF LinkEnds, windowVars
<1>2. worker \in Workers /\ worker.nextId \in Nat
  BY IdTypes DEF TypeOK
<1>3. /\ worker' \in Workers /\ worker'.pending = worker.pending /\ worker'.nextId = worker.nextId
      /\ ~worker'.up
  BY <1>1, <1>2 DEF Workers
<1>4. NoMore \in Told /\ ~Waits(NoMore) /\ ~Settles(NoMore)
  BY EventTypes DEF NoMore, Waits, Settles
<1>5. worker'.nextId >= worker.nextId
  BY <1>2, <1>3
<1> QED BY <1>1, <1>3, <1>4, <1>5, TellingKeepsWait

LEMMA ConnectKeepsWait == Connect => WaitInv'
<1> SUFFICES ASSUME Connect PROVE WaitInv'
  OBVIOUS
<1>1. worker'.pending = <<>> /\ events' = <<>> /\ following' = << >>
  <2>1. PICK e \in Offers : worker' = [NewWorker EXCEPT !.enabled = e]
    BY DEF Connect
  <2> QED BY <2>1 DEF Connect, NewWorker
<1>2. DOMAIN worker'.pending = {} /\ DOMAIN events' = {} /\ DOMAIN following' = {}
      /\ Len(worker'.pending) = 0
  BY <1>1
<1>3. Open(End)' = {}
  BY <1>2 DEF Open
<1> QED BY <1>1, <1>2, <1>3, ConfirmedSendingAssumption
     DEF WaitInv, IdsInv, FollowInv, FollowedLines, AnswersKnown, RoomToFollow, EndIsLast,
         PendingInv, PendingKnown, OpenPending

LEMMA SameWait ==
  ASSUME TypeOK, WaitInv, UNCHANGED <<worker, events, following, lines>>
  PROVE  WaitInv'
<1>1. worker \in Workers /\ worker.nextId \in Nat
  BY IdTypes DEF TypeOK
<1>2. worker'.up /\ worker'.pending # <<>> => "echo" \in worker'.enabled
  BY DEF WaitInv, PendingInv
<1>3. worker'.nextId >= worker.nextId
  BY <1>1
<1> QED BY <1>1, <1>2, <1>3, QuietKeepsWait

(* The actions, as the proofs go through them. *)
LEMMA NextIs ==
  ASSUME Next
  PROVE  \/ \E target \in Targets, text \in Texts, written \in BOOLEAN : Send(target, text, written)
         \/ Receive \/ Expire \/ HandleEvent \/ ServerStep
         \/ \E targets \in SUBSET Targets : SetLogging(targets)
         \/ LinkEnds \/ Connect
BY DEF Next, ServerStep

LEMMA LoggingChangesNothingElse ==
  ASSUME NEW targets \in SUBSET Targets, SetLogging(targets)
  PROVE  UNCHANGED <<worker, events, toServer, toClient, server, lines, following, relayed, sends>>
BY DEF SetLogging

LEMMA SameTyped ==
  ASSUME TypeOK, UNCHANGED <<worker, events, toServer, toClient, server, lines, following,
                             relayed, sends>>
  PROVE  TypeOK'
BY DEF TypeOK

(* Every step keeps the types and what the window waits for. *)
LEMMA WaitStep == TypeOK /\ WaitInv /\ [Next]_vars => TypeOK' /\ WaitInv'
<1> SUFFICES ASSUME TypeOK, WaitInv, [Next]_vars PROVE TypeOK' /\ WaitInv'
  OBVIOUS
<1>1. ASSUME NEW target \in Targets, NEW text \in Texts, NEW written \in BOOLEAN,
             Send(target, text, written)
      PROVE  TypeOK' /\ WaitInv'
  BY <1>1, SendTyped, SendKeepsWait
<1>2. CASE Receive
  BY <1>2, ReceiveTyped, ReceiveKeepsWait DEF WaitInv
<1>3. CASE Expire
  BY <1>3, ExpireTyped, ExpireKeepsWait
<1>4. CASE HandleEvent
  BY <1>4, HandleTyped, HandlingKeepsWait
<1>5. CASE ServerStep
  BY <1>5, ServerTyped, SameWait DEF windowVars
<1>6. ASSUME NEW targets \in SUBSET Targets, SetLogging(targets) PROVE TypeOK' /\ WaitInv'
  BY <1>6, LoggingChangesNothingElse, SameTyped, SameWait
<1>7. CASE LinkEnds
  BY <1>7, LinkEndsTyped, LinkEndsKeepsWait
<1>8. CASE Connect
  BY <1>8, ConnectTyped, ConnectKeepsWait
<1>9. CASE UNCHANGED vars
  BY <1>9, SameTyped, SameWait DEF vars, windowVars
<1> QED BY <1>1, <1>2, <1>3, <1>4, <1>5, <1>6, <1>7, <1>8, <1>9, NextIs

(* The window waits for exactly what is pending, told of what is on the    *)
(* way (FollowedAsTracked; Echoes.pending, ServerSession.pending_sends).   *)
LEMMA WaitIsFollowed == TypeOK /\ WaitInv => FollowedAsTracked
<1> SUFFICES ASSUME TypeOK, WaitInv, worker.up
             PROVE  (DOMAIN following \union Ids({"accepted"})) \ Ids({"confirmed", "failed"})
                      = {worker.pending[i].id : i \in DOMAIN worker.pending}
  BY DEF FollowedAsTracked
<1>1. events \in Seq(Told) /\ DOMAIN events = 1..Len(events) /\ Len(events) \in Nat
      /\ \A i \in DOMAIN events : i < End
  BY DEF TypeOK, End
<1>2. ASSUME NEW id PROVE id \in Ids({"accepted"}) <=> id \in ToldToWait(End)
  BY <1>1 DEF Ids, ToldToWait, Waits
<1>3. ASSUME NEW id, id # 0 PROVE id \in Ids({"confirmed", "failed"}) <=> Settled(id, End)
  BY <1>1, <1>3 DEF Ids, Settled, Settles
<1>4. ASSUME NEW id \in (DOMAIN following \union Ids({"accepted"})) \ Ids({"confirmed", "failed"})
      PROVE  id \in {worker.pending[i].id : i \in DOMAIN worker.pending}
  <2>1. id # 0 /\ id \in DOMAIN following \cup ToldToWait(End)
    BY <1>2 DEF Ids, TypeOK
  <2>2. id \in Open(End)
    BY <1>3, <2>1 DEF Open, ToldToWait
  <2> QED BY <2>2 DEF WaitInv, PendingInv, OpenPending
<1>5. ASSUME NEW i \in DOMAIN worker.pending
      PROVE  worker.pending[i].id
               \in (DOMAIN following \union Ids({"accepted"})) \ Ids({"confirmed", "failed"})
  <2> DEFINE p == worker.pending[i]
  <2>1. Known(p.id, p.of, p.target, p.text, End) /\ ~Settled(p.id, End)
    BY DEF WaitInv, PendingInv, PendingKnown
  <2>2. p.id # 0
    BY IdTypes
  <2> HIDE DEF p
  <2>3. p.id \in DOMAIN following \/ p.id \in ToldToWait(End)
    BY <2>1 DEF Known, ToldToWait
  <2>4. p.id \in (DOMAIN following \union Ids({"accepted"})) \ Ids({"confirmed", "failed"})
    BY <1>2, <1>3, <2>1, <2>2, <2>3
  <2> QED BY <2>4 DEF p
<1> QED BY <1>4, <1>5

-----------------------------------------------------------------------------
(* What the server says. *)

FromMessage(l) ==
    LET m == Head(toServer)
    IN  /\ toServer # <<>> /\ toServer' = Tail(toServer) /\ m.kind = "text"
        /\ l.kind = "text" /\ l.of = m.of /\ l.target = m.target
        /\ \/ l.label = Says(m) /\ l.batch = 0
           \/ l.label = 0 /\ l.batch = Says(m) /\ Says(m) # 0

NoMessage(l) ==
    /\ l.kind # "text" /\ l.of = 0 /\ l.batch = 0
    /\ l.label = 0 \/ (toServer # <<>> /\ l.label = Says(Head(toServer)))

OtherClients(l) == l.kind = "text" /\ l.of = 0 /\ l.label = 0 /\ l.batch = 0

Speaks(s) ==
    /\ s \in Seq(Links) /\ toClient' = toClient \o s
    /\ \A i \in DOMAIN s : FromMessage(s[i]) \/ NoMessage(s[i]) \/ OtherClients(s[i])
    /\ \A i \in DOMAIN s :
          /\ s[i].kind = "text" /\ s[i].batch # 0 =>
               i = 2 /\ s[1].kind = "open" /\ s[1].label = s[2].batch /\ s[2].label = 0
          /\ s[i].kind = "text" /\ s[i].batch = 0 => i = 1
    /\ \/ "label" \in server'
       \/ "label" \notin server /\ \A i \in DOMAIN s : ~GivesLabel(s[i])
       \/ \E i \in DOMAIN s : TakesLabel(s[i]) /\ \A j \in DOMAIN s : ~GivesLabel(s[j])

LEMMA OneLine ==
  ASSUME NEW l \in Links, toClient \in Seq(Links), toClient' = Append(toClient, l),
         FromMessage(l) \/ NoMessage(l) \/ OtherClients(l), l.batch = 0,
         \/ "label" \in server' \/ TakesLabel(l)
         \/ "label" \notin server /\ ~GivesLabel(l)
  PROVE  Speaks(<<l>>)
<1> DEFINE s == <<l>>
<1>1. s \in Seq(Links) /\ DOMAIN s = {1} /\ s[1] = l
  OBVIOUS
<1>2. toClient' = toClient \o s
  OBVIOUS
<1> HIDE DEF s
<1>3. ~(TakesLabel(l) /\ GivesLabel(l))
  BY DEF TakesLabel, GivesLabel
<1> QED BY <1>1, <1>2, <1>3 DEF Speaks, s

LEMMA ServerSpeaks ==
  ASSUME TypeOK, LinkInv, ServerStep
  PROVE  /\ worker.up
         /\ \E s : Speaks(s)
         /\ toServer' = toServer \/ (toServer # <<>> /\ toServer' = Tail(toServer))
<1> DEFINE m == Head(toServer)
<1>1. toClient \in Seq(Links)
  BY DEF TypeOK
<1>2. ASSUME NextTaken
      PROVE  /\ toServer # <<>> /\ toServer' = Tail(toServer) /\ worker.up
             /\ m \in Links /\ m.of \in Nat /\ m.target \in Targets /\ m.text \in Texts
             /\ Says(m) \in Nat
  <2>1. toServer # <<>> /\ toServer' = Tail(toServer) /\ worker.up
    BY <1>2 DEF NextTaken, LinkInv
  <2>2. m \in Links
    BY <2>1, TailIs DEF TypeOK
  <2> QED BY <2>1, <2>2 DEF Links, Says
<1> HIDE DEF m
<1>3. ASSUME NEW text \in Texts, NEW batched \in BOOLEAN, Deliver(text, batched)
      PROVE  worker.up /\ (\E s : Speaks(s)) /\ toServer # <<>> /\ toServer' = Tail(toServer)
  <2> DEFINE line == Line("text", m.of, m.target, text, Says(m))
             open == Bare("open", Says(m))
             inBatch == [line EXCEPT !.label = 0, !.batch = Says(m)]
             close == Bare("close", Says(m))
  <2>1. /\ NextTaken /\ server' = server /\ m.kind = "text" /\ (batched => Says(m) # 0)
        /\ toClient' = IF "echo" \in server
                       THEN toClient \o Echo(m, text, Says(m), batched) ELSE toClient
    BY <1>3 DEF Deliver, m
  <2>2. line \in Links /\ open \in Links /\ inBatch \in Links /\ close \in Links
    BY <1>2, <2>1, LineTypes DEF LinkKinds
  <2>3. /\ line.kind = "text" /\ line.of = m.of /\ line.target = m.target /\ line.label = Says(m)
        /\ line.batch = 0
        /\ inBatch.kind = "text" /\ inBatch.of = m.of /\ inBatch.target = m.target
        /\ inBatch.label = 0 /\ inBatch.batch = Says(m)
        /\ open.kind = "open" /\ open.of = 0 /\ open.batch = 0 /\ open.label = Says(m)
        /\ close.kind = "close" /\ close.of = 0 /\ close.batch = 0 /\ close.label = Says(m)
    BY DEF Line, Bare
  <2>4. Echo(m, text, Says(m), batched) = IF batched THEN <<open, inBatch, close>> ELSE <<line>>
    BY DEF Echo
  <2> HIDE DEF line, open, inBatch, close
  <2>10. toServer # <<>> /\ toServer' = Tail(toServer) /\ worker.up
    BY <1>2, <2>1
  <2>11. "label" \in server' \/ "label" \notin server
    BY <2>1
  <2>5. CASE "echo" \notin server
    <3>1. toClient' = toClient \o <<>> /\ <<>> \in Seq(Links) /\ DOMAIN <<>> = {}
      BY <1>1, <2>1, <2>5
    <3>2. Speaks(<<>>)
      BY <2>11, <3>1 DEF Speaks
    <3> QED BY <2>10, <3>2
  <2>6. CASE "echo" \in server /\ batched
    <3> DEFINE s == <<open, inBatch, close>>
    <3>1. /\ s \in Seq(Links) /\ DOMAIN s = {1, 2, 3}
          /\ s[1] = open /\ s[2] = inBatch /\ s[3] = close
      BY <2>2
    <3>2. toClient' = toClient \o s
      BY <2>1, <2>4, <2>6
    <3> HIDE DEF s
    <3>3. NoMessage(open) /\ FromMessage(inBatch) /\ NoMessage(close)
      BY <2>1, <2>3, <2>6, <2>10 DEF NoMessage, FromMessage, m
    <3>4. ~GivesLabel(open) /\ ~GivesLabel(inBatch) /\ ~GivesLabel(close)
      BY <2>3 DEF GivesLabel
    <3>5. Says(m) # 0
      BY <2>1, <2>6
    <3>6. Speaks(s)
      BY <2>3, <2>11, <3>1, <3>2, <3>3, <3>4, <3>5 DEF Speaks
    <3> QED BY <2>10, <3>6
  <2>7. CASE "echo" \in server /\ ~batched
    <3>1. toClient' = Append(toClient, line)
      BY <1>1, <2>1, <2>2, <2>4, <2>7
    <3>2. FromMessage(line)
      BY <2>1, <2>3, <2>10 DEF FromMessage, m
    <3>3. ~GivesLabel(line)
      BY <2>3 DEF GivesLabel
    <3>4. Speaks(<<line>>)
      BY <1>1, <2>2, <2>3, <2>11, <3>1, <3>2, <3>3, OneLine
    <3> QED BY <2>10, <3>4
  <2> QED BY <2>5, <2>6, <2>7
<1>4. ASSUME NEW kind \in LinkKinds, NEW n \in Nat, kind # "text", kind # "granted",
             n = 0 \/ (toServer # <<>> /\ n = Says(m)),
             toClient' = Append(toClient, Bare(kind, n)), server' = server
      PROVE  \E s : Speaks(s)
  <2> DEFINE l == Bare(kind, n)
  <2>1. l \in Links
    BY LineTypes
  <2>2. l.kind = kind /\ l.of = 0 /\ l.batch = 0 /\ l.label = n
    BY DEF Bare, Line
  <2> HIDE DEF l
  <2>3. NoMessage(l) /\ ~GivesLabel(l)
    BY <1>4, <2>2 DEF NoMessage, GivesLabel, m
  <2>4. Speaks(<<l>>)
    BY <1>1, <1>4, <2>1, <2>2, <2>3, OneLine DEF l
  <2> QED BY <2>4
<1>5. ASSUME NEW kind \in {"del", "new", "granted"}, NEW cap \in Capability,
             toClient' = Append(toClient, CapLine(kind, cap)),
             kind = "granted" => server' = server \cup {cap},
             kind = "del" => server' = server \ {cap},
             kind = "new" => server' = server
      PROVE  \E s : Speaks(s)
  <2> DEFINE l == CapLine(kind, cap)
  <2>1. l \in Links
    BY LineTypes
  <2>2. l.kind = kind /\ l.of = 0 /\ l.batch = 0 /\ l.label = 0 /\ l.cap = cap
    BY DEF CapLine, Bare, Line
  <2> HIDE DEF l
  <2>3. NoMessage(l)
    BY <1>5, <2>2 DEF NoMessage
  <2>4. \/ "label" \in server' \/ TakesLabel(l)
        \/ "label" \notin server /\ ~GivesLabel(l)
    BY <1>5, <2>2 DEF TakesLabel, GivesLabel, Capability
  <2>5. Speaks(<<l>>)
    BY <1>1, <1>5, <2>1, <2>2, <2>3, <2>4, OneLine DEF l
  <2> QED BY <2>5
<1>6. CASE Acknowledge
  <2>1. /\ NextTaken /\ server' = server
        /\ toClient' = Append(toClient, Bare("ack", Says(m)))
    BY <1>6 DEF Acknowledge, m
  <2> QED BY <1>2, <1>4, <2>1 DEF LinkKinds
<1>7. CASE Refuse
  <2>1. /\ NextTaken /\ server' = server
        /\ toClient' = Append(toClient, Bare("error", Says(m)))
    BY <1>7 DEF Refuse, m
  <2> QED BY <1>2, <1>4, <2>1 DEF LinkKinds
<1>8. CASE Grant
  <2>1. /\ NextTaken /\ server' = server \union {m.cap} /\ m.kind = "req"
        /\ toClient' = Append(toClient, CapLine("granted", m.cap))
    BY <1>8 DEF Grant, m
  <2>2. m.cap \in Capability
    <3>1. 1 \in DOMAIN toServer /\ m = toServer[1]
      BY <1>2, <2>1, TailIs DEF TypeOK, m
    <3> QED BY <2>1, <3>1 DEF TypeOK
  <2> QED BY <1>2, <1>5, <2>1, <2>2
<1>9. ASSUME NEW cap \in Capability, Withdraw(cap) \/ Offer(cap)
      PROVE  worker.up /\ (\E s : Speaks(s)) /\ toServer' = toServer
  <2>1. CASE Withdraw(cap)
    BY <1>5, <2>1 DEF Withdraw
  <2>2. CASE Offer(cap)
    BY <1>5, <2>2 DEF Offer
  <2> QED BY <1>9, <2>1, <2>2
<1>10. ASSUME NEW target \in Targets, NEW text \in Texts, OtherClientSends(target, text)
       PROVE  worker.up /\ (\E s : Speaks(s)) /\ toServer' = toServer
  <2> DEFINE l == Line("text", 0, target, text, 0)
  <2>1. l \in Links
    BY LineTypes DEF LinkKinds
  <2>2. l.kind = "text" /\ l.of = 0 /\ l.batch = 0 /\ l.label = 0
    BY DEF Line
  <2>3. toClient' = Append(toClient, l) /\ server' = server /\ worker.up /\ toServer' = toServer
    BY <1>10 DEF OtherClientSends
  <2> HIDE DEF l
  <2>4. OtherClients(l) /\ ~GivesLabel(l)
    BY <2>2 DEF OtherClients, GivesLabel
  <2>5. Speaks(<<l>>)
    BY <1>1, <2>1, <2>2, <2>3, <2>4, OneLine
  <2> QED BY <2>3, <2>5
<1> QED BY <1>3, <1>6, <1>7, <1>8, <1>9, <1>10, <1>2 DEF ServerStep, Serve, Acknowledge, Refuse, Grant

LEMMA SpokenIs ==
  ASSUME toClient \in Seq(Links), NEW s, Speaks(s)
  PROVE  /\ DOMAIN toClient = 1..Len(toClient) /\ Len(toClient) \in Nat
         /\ DOMAIN s = 1..Len(s) /\ Len(s) \in Nat
         /\ DOMAIN toClient' = 1..(Len(toClient) + Len(s))
         /\ Len(toClient') = Len(toClient) + Len(s)
         /\ \A k \in DOMAIN toClient : k \in DOMAIN toClient' /\ toClient'[k] = toClient[k]
         /\ \A k \in DOMAIN s : Len(toClient) + k \in DOMAIN toClient'
                                /\ toClient'[Len(toClient) + k] = s[k]
         /\ \A k \in DOMAIN toClient' :
              \/ k \in DOMAIN toClient /\ toClient'[k] = toClient[k] /\ k <= Len(toClient)
              \/ /\ k > Len(toClient) /\ k - Len(toClient) \in DOMAIN s
                 /\ toClient'[k] = s[k - Len(toClient)]
<1>1. s \in Seq(Links) /\ toClient' = toClient \o s
  BY DEF Speaks
<1>2. /\ Len(toClient) \in Nat /\ Len(s) \in Nat
      /\ Len(toClient \o s) = Len(toClient) + Len(s)
      /\ DOMAIN toClient = 1..Len(toClient) /\ DOMAIN s = 1..Len(s)
      /\ DOMAIN (toClient \o s) = 1..(Len(toClient) + Len(s))
      /\ \A i \in 1..Len(toClient) : (toClient \o s)[i] = toClient[i]
      /\ \A i \in 1..Len(s) : (toClient \o s)[Len(toClient) + i] = s[i]
      /\ \A i \in 1..(Len(toClient) + Len(s)) :
            i > Len(toClient) => (toClient \o s)[i] = s[i - Len(toClient)]
  BY <1>1, ConcatIs
<1> QED BY <1>1, <1>2

LEMMA AppendCases ==
  ASSUME NEW S, NEW q \in Seq(S), NEW x \in S, NEW r, r = Append(q, x)
  PROVE  /\ DOMAIN q = 1..Len(q) /\ Len(q) \in Nat
         /\ DOMAIN r = 1..(Len(q) + 1) /\ r[Len(q) + 1] = x
         /\ \A i \in DOMAIN q : i \in DOMAIN r /\ r[i] = q[i]
         /\ \A i \in DOMAIN r : \/ i \in DOMAIN q /\ r[i] = q[i] /\ i <= Len(q)
                                \/ i = Len(q) + 1 /\ r[i] = x
<1>1. /\ DOMAIN q = 1..Len(q) /\ Len(q) \in Nat
      /\ DOMAIN r = 1..(Len(q) + 1) /\ r[Len(q) + 1] = x
      /\ \A i \in 1..Len(q) : r[i] = q[i]
  BY AppendIs
<1> QED BY <1>1

LEMMA TailCases ==
  ASSUME NEW S, NEW q \in Seq(S), q # <<>>, NEW r, r = Tail(q)
  PROVE  /\ DOMAIN q = 1..Len(q) /\ Len(q) \in Nat \ {0} /\ DOMAIN r = 1..(Len(q) - 1)
         /\ Len(r) = Len(q) - 1
         /\ 1 \in DOMAIN q /\ Head(q) = q[1] /\ Head(q) \in S
         /\ \A i \in DOMAIN r : i \in Nat \ {0} /\ i + 1 \in DOMAIN q /\ r[i] = q[i + 1]
         /\ \A i \in DOMAIN q : i # 1 => i - 1 \in DOMAIN r /\ r[i - 1] = q[i]
<1>1. /\ Len(q) \in Nat \ {0} /\ Len(r) = Len(q) - 1
      /\ DOMAIN q = 1..Len(q) /\ DOMAIN r = 1..(Len(q) - 1)
      /\ \A i \in 1..(Len(q) - 1) : r[i] = q[i + 1]
      /\ Head(q) = q[1] /\ Head(q) \in S
  BY TailIs
<1>2. \A i \in DOMAIN r : i + 1 \in DOMAIN q /\ r[i] = q[i + 1]
  BY <1>1
<1>3. ASSUME NEW i \in DOMAIN q, i # 1 PROVE i - 1 \in DOMAIN r /\ r[i - 1] = q[i]
  <2>1. i - 1 \in DOMAIN r /\ (i - 1) + 1 = i
    BY <1>1, <1>3
  <2> QED BY <1>2, <2>1
<1> QED BY <1>1, <1>2, <1>3

(* The types of the links and what is counted. *)
LEMMA LinkTypes ==
  ASSUME TypeOK
  PROVE  /\ sends \in Nat /\ worker.nextLabel \in Nat
         /\ toServer \in Seq(Links) /\ toClient \in Seq(Links) /\ events \in Seq(Told)
         /\ lines \in Seq(Lines) /\ worker.pending \in Seq(Pendings)
         /\ \A i \in DOMAIN toServer : toServer[i] \in Links /\ toServer[i].of \in Nat
                                       /\ toServer[i].label \in Nat
         /\ \A i \in DOMAIN toClient : toClient[i] \in Links /\ toClient[i].of \in Nat
                                       /\ toClient[i].label \in Nat /\ toClient[i].batch \in Nat
         /\ \A i \in DOMAIN worker.pending :
               /\ worker.pending[i].of \in Nat /\ worker.pending[i].of # 0
               /\ worker.pending[i].label \in Nat
         /\ \A i \in DOMAIN events : events[i].of \in Nat
         /\ \A i \in DOMAIN lines : lines[i].of \in Nat
<1>1. /\ sends \in Nat /\ worker.nextLabel \in Nat
      /\ toServer \in Seq(Links) /\ toClient \in Seq(Links) /\ events \in Seq(Told)
      /\ lines \in Seq(Lines) /\ worker.pending \in Seq(Pendings)
  BY WorkerParts DEF TypeOK
<1>2. /\ \A i \in DOMAIN toServer : toServer[i] \in Links
      /\ \A i \in DOMAIN toClient : toClient[i] \in Links
      /\ \A i \in DOMAIN worker.pending : worker.pending[i] \in Pendings
      /\ \A i \in DOMAIN events : events[i] \in Told
      /\ \A i \in DOMAIN lines : lines[i] \in Lines
  BY <1>1
<1>3. /\ \A l \in Links : l.of \in Nat /\ l.label \in Nat /\ l.batch \in Nat
      /\ \A p \in Pendings : p.of \in Nat /\ p.of # 0 /\ p.label \in Nat
      /\ \A e \in Told : e.of \in Nat
      /\ \A l \in Lines : l.of \in Nat
  BY DEF Links, Pendings, Told, Lines
<1> QED BY <1>1, <1>2, <1>3

(* What a message sent adds to each queue. *)
SentAs(target, text, label, id) ==
    /\ \A i \in DOMAIN worker'.pending :
          \/ i \in DOMAIN worker.pending /\ worker'.pending[i] = worker.pending[i]
          \/ /\ id # 0 /\ worker'.pending[i].of = sends + 1
             /\ worker'.pending[i].label = label /\ worker'.pending[i].target = target
             /\ worker'.pending[i].text = text /\ worker'.pending[i].id = id
    /\ \A i \in DOMAIN toServer' :
          \/ i \in DOMAIN toServer /\ toServer'[i] = toServer[i]
          \/ /\ toServer'[i].of = sends + 1 /\ toServer'[i].label = label
             /\ toServer'[i].target = target /\ toServer'[i].text = text
    /\ \A i \in DOMAIN events' :
          \/ i \in DOMAIN events /\ events'[i] = events[i] /\ i <= Len(events)
          \/ /\ i = Len(events) + 1 /\ events'[i].kind = "accepted"
             /\ events'[i].of = sends + 1 /\ events'[i].id = id
    /\ DOMAIN events \subseteq DOMAIN events' /\ Len(events) \in Nat
    /\ \A i \in DOMAIN events : events'[i] = events[i]
    /\ worker'.nextLabel \in Nat /\ worker'.nextLabel >= worker.nextLabel
    /\ label # 0 => label = worker.nextLabel + 1 /\ worker'.nextLabel = label

LEMMA SentIs ==
  ASSUME TypeOK, NEW target \in Targets, NEW text \in Texts, NEW written \in BOOLEAN,
         Send(target, text, written)
  PROVE  \E label \in Nat, id \in Nat : SentAs(target, text, label, id)
<1>1. /\ worker.pending \in Seq(Pendings) /\ toServer \in Seq(Links) /\ events \in Seq(Told)
      /\ worker.nextLabel \in Nat /\ sends \in Nat
  BY LinkTypes
<1>2. worker' \in Workers
  BY SendIs DEF SendsOn
<1>3. worker'.nextLabel \in Nat
  BY <1>2, WorkerParts
<1>4. ASSUME NEW label \in Nat, NEW id \in Nat,
             toServer' = Append(toServer, Line("text", sends + 1, target, text, label)),
             events' = Append(events, Event("accepted", id, sends + 1, target, text))
      PROVE  /\ \A i \in DOMAIN toServer' :
                   \/ i \in DOMAIN toServer /\ toServer'[i] = toServer[i]
                   \/ /\ toServer'[i].of = sends + 1 /\ toServer'[i].label = label
                      /\ toServer'[i].target = target /\ toServer'[i].text = text
             /\ \A i \in DOMAIN events' :
                   \/ i \in DOMAIN events /\ events'[i] = events[i] /\ i <= Len(events)
                   \/ /\ i = Len(events) + 1 /\ events'[i].kind = "accepted"
                      /\ events'[i].of = sends + 1 /\ events'[i].id = id
             /\ DOMAIN events \subseteq DOMAIN events' /\ Len(events) \in Nat
             /\ \A i \in DOMAIN events : events'[i] = events[i]
  <2> DEFINE m == Line("text", sends + 1, target, text, label)
             e == Event("accepted", id, sends + 1, target, text)
  <2>1. m \in Links /\ m.of = sends + 1 /\ m.label = label /\ m.target = target /\ m.text = text
    <3>2. sends + 1 \in Nat
      BY <1>1
    <3>1. m \in Links
      BY <3>2, LineTypes DEF LinkKinds
    <3> QED BY <3>1 DEF Line
  <2>2. e \in Told /\ e.kind = "accepted" /\ e.of = sends + 1 /\ e.id = id
    <3>1. e \in Told
      BY <1>1, EventTypes
    <3> QED BY <3>1 DEF Event
  <2>3. toServer' = Append(toServer, m) /\ events' = Append(events, e)
    BY <1>4
  <2> HIDE DEF m, e
  <2>4. \A i \in DOMAIN toServer' : \/ i \in DOMAIN toServer /\ toServer'[i] = toServer[i]
                                    \/ toServer'[i] = m
    BY <1>1, <2>1, <2>3, AppendCases
  <2>5. /\ \A i \in DOMAIN events' : \/ i \in DOMAIN events /\ events'[i] = events[i] /\ i <= Len(events)
                                     \/ i = Len(events) + 1 /\ events'[i] = e
        /\ Len(events) \in Nat
        /\ \A i \in DOMAIN events : i \in DOMAIN events' /\ events'[i] = events[i]
    BY <1>1, <2>2, <2>3, AppendCases
  <2> QED BY <2>1, <2>2, <2>4, <2>5
<1>5. CASE \E p \in Pendings : Tracked(p, target, text)
  <2>1. PICK p \in Pendings : Tracked(p, target, text)
    BY <1>5
  <2>2. /\ p.id \in Nat /\ p.id # 0 /\ p.label \in Nat /\ p.of = sends + 1
        /\ p.target = target /\ p.text = text
        /\ worker'.pending = Append(worker.pending, p)
        /\ toServer' = Append(toServer, Line("text", sends + 1, target, text, p.label))
        /\ events' = Append(events, Event("accepted", p.id, sends + 1, target, text))
        /\ \/ p.label = 0 /\ worker'.nextLabel = worker.nextLabel
           \/ p.label = worker.nextLabel + 1 /\ worker'.nextLabel = worker.nextLabel + 1
    BY <2>1 DEF Tracked, Pendings
  <2>3. \A i \in DOMAIN worker'.pending :
                 \/ i \in DOMAIN worker.pending /\ worker'.pending[i] = worker.pending[i]
                 \/ worker'.pending[i] = p
    BY <1>1, <2>2, AppendCases
  <2>4. worker'.nextLabel >= worker.nextLabel
        /\ (p.label # 0 => p.label = worker.nextLabel + 1 /\ worker'.nextLabel = p.label)
    BY <1>1, <2>2
  <2>5. SentAs(target, text, p.label, p.id)
    <3>1. /\ \A i \in DOMAIN toServer' :
                \/ i \in DOMAIN toServer /\ toServer'[i] = toServer[i]
                \/ /\ toServer'[i].of = sends + 1 /\ toServer'[i].label = p.label
                   /\ toServer'[i].target = target /\ toServer'[i].text = text
          /\ \A i \in DOMAIN events' :
                \/ i \in DOMAIN events /\ events'[i] = events[i] /\ i <= Len(events)
                \/ /\ i = Len(events) + 1 /\ events'[i].kind = "accepted"
                   /\ events'[i].of = sends + 1 /\ events'[i].id = p.id
          /\ DOMAIN events \subseteq DOMAIN events' /\ Len(events) \in Nat
          /\ \A i \in DOMAIN events : events'[i] = events[i]
      BY <1>4, <2>2
    <3>2. \A i \in DOMAIN worker'.pending :
             \/ i \in DOMAIN worker.pending /\ worker'.pending[i] = worker.pending[i]
             \/ /\ p.id # 0 /\ worker'.pending[i].of = sends + 1
                /\ worker'.pending[i].label = p.label /\ worker'.pending[i].target = target
                /\ worker'.pending[i].text = text /\ worker'.pending[i].id = p.id
      BY <2>2, <2>3
    <3> QED BY <1>3, <2>4, <3>1, <3>2, Zenon DEF SentAs
  <2> QED BY <2>2, <2>5
<1>6. CASE Unseen(target, text)
  <2>1. /\ worker'.pending = worker.pending /\ worker'.nextLabel = worker.nextLabel
        /\ toServer' = Append(toServer, Line("text", sends + 1, target, text, 0))
        /\ events' = Append(events, Event("accepted", 0, sends + 1, target, text))
    BY <1>6 DEF Unseen
  <2>2. worker'.nextLabel >= worker.nextLabel /\ 0 \in Nat
    BY <1>1, <2>1
  <2>3. SentAs(target, text, 0, 0)
    BY <1>3, <1>4, <2>1, <2>2 DEF SentAs
  <2> QED BY <2>2, <2>3
<1>7. CASE Unwritten
  <2>1. /\ worker'.pending = worker.pending /\ worker'.nextLabel >= worker.nextLabel
        /\ toServer' = toServer /\ events' = events
    BY <1>7 DEF Unwritten
  <2>2. Len(events) \in Nat /\ DOMAIN events = 1..Len(events) /\ 0 \in Nat
    BY <1>1
  <2>3. SentAs(target, text, 0, 0)
    BY <1>3, <2>1, <2>2 DEF SentAs
  <2> QED BY <2>2, <2>3
<1> QED BY <1>5, <1>6, <1>7, SendIs

(* What an answer, a line taken or the timer adds. *)
PendingShrinks ==
    \A i \in DOMAIN worker'.pending :
       \E j \in DOMAIN worker.pending : worker'.pending[i] = worker.pending[j]

ToldOn ==
    /\ Len(events) \in Nat
    /\ \A i \in DOMAIN events : i \in DOMAIN events' /\ events'[i] = events[i] /\ i <= Len(events)
    /\ \A i \in DOMAIN events' :
         i \notin DOMAIN events =>
           /\ i > Len(events)
           /\ \/ /\ Settles(events'[i])
                 /\ \E j \in DOMAIN worker.pending : events'[i].of = worker.pending[j].of
              \/ /\ events'[i].kind = "message" /\ ShownAsMessage /\ i = Len(events) + 1
                 /\ events'[i].of = Head(toClient).of /\ events'[i].target = Head(toClient).target
                 /\ events'[i].text = Head(toClient).text

LEMMA LeavesTells ==
  ASSUME TypeOK, NEW i, NEW e, Leaves(i, e)
  PROVE  PendingShrinks /\ ToldOn
<1>1. /\ i \in DOMAIN worker.pending /\ events' = Append(events, e) /\ e \in Told /\ Settles(e)
      /\ e.of = worker.pending[i].of
      /\ DOMAIN worker.pending = 1..Len(worker.pending) /\ Len(worker.pending) \in Nat
      /\ DOMAIN worker'.pending = 1..(Len(worker.pending) - 1)
      /\ \A j \in 1..(Len(worker.pending) - 1) :
            worker'.pending[j] = worker.pending[IF j < i THEN j ELSE j + 1]
  BY DEF Leaves
<1>2. PendingShrinks
  <2> SUFFICES ASSUME NEW j \in DOMAIN worker'.pending
               PROVE  \E n \in DOMAIN worker.pending : worker'.pending[j] = worker.pending[n]
    BY DEF PendingShrinks
  <2>1. (IF j < i THEN j ELSE j + 1) \in DOMAIN worker.pending
    BY <1>1
  <2> QED BY <1>1, <2>1
<1>3. events \in Seq(Told)
  BY LinkTypes
<1>4. /\ DOMAIN events = 1..Len(events) /\ Len(events) \in Nat
      /\ \A j \in DOMAIN events : j \in DOMAIN events' /\ events'[j] = events[j]
      /\ \A j \in DOMAIN events' : \/ j \in DOMAIN events /\ events'[j] = events[j] /\ j <= Len(events)
                                   \/ j = Len(events) + 1 /\ events'[j] = e
  BY <1>1, <1>3, AppendCases
<1>5. ToldOn
  BY <1>1, <1>4 DEF ToldOn
<1> QED BY <1>2, <1>5

LEMMA ReceiveTells ==
  ASSUME TypeOK, PendingInv, Receive
  PROVE  /\ PendingShrinks /\ ToldOn /\ Taken
         /\ \A i \in DOMAIN toServer' :
              \/ i \in DOMAIN toServer /\ toServer'[i] = toServer[i]
              \/ toServer'[i].kind = "req" /\ toServer'[i].of = 0 /\ toServer'[i].label = 0
<1>1. Taken
  BY ReceiveIs
<1>2. /\ events \in Seq(Told) /\ toServer \in Seq(Links) /\ worker.pending \in Seq(Pendings)
      /\ toClient \in Seq(Links)
  BY LinkTypes
<1>3. \A i \in DOMAIN toServer' :
              \/ i \in DOMAIN toServer /\ toServer'[i] = toServer[i]
              \/ toServer'[i].kind = "req" /\ toServer'[i].of = 0 /\ toServer'[i].label = 0
  <2>1. CASE toServer' = toServer
    BY <2>1
  <2>2. CASE \E cap \in Capability : toServer' = Append(toServer, CapLine("req", cap))
    <3>1. PICK cap \in Capability : toServer' = Append(toServer, CapLine("req", cap))
      BY <2>2
    <3> DEFINE l == CapLine("req", cap)
    <3>2. l \in Links
      BY LineTypes
    <3>3. l.kind = "req" /\ l.of = 0 /\ l.label = 0
      BY DEF CapLine, Bare, Line
    <3>4. toServer' = Append(toServer, l)
      BY <3>1
    <3> HIDE DEF l
    <3>5. \A i \in DOMAIN toServer' : \/ i \in DOMAIN toServer /\ toServer'[i] = toServer[i]
                                      \/ toServer'[i] = l
      BY <1>2, <3>2, <3>4, AppendCases
    <3> QED BY <3>3, <3>5
  <2> QED BY <1>1, <2>1, <2>2 DEF Taken
<1>4. ASSUME NEW i \in DOMAIN worker.pending, Answered(i) PROVE PendingShrinks /\ ToldOn
  BY <1>1, <1>4, AnsweredLeaves, LeavesTells
<1>5. DOMAIN events = 1..Len(events) /\ Len(events) \in Nat
  BY <1>2
<1>6. CASE Stopped
  <2> DEFINE failures == [i \in DOMAIN worker.pending |-> Failed(worker.pending[i])]
  <2>1. DOMAIN worker'.pending = {}
    BY <1>6 DEF Stopped
  <2>2. \A i \in DOMAIN worker.pending : worker.pending[i] \in Pendings
    BY <1>2
  <2>3. failures \in Seq(Told)
    <3>1. \A i \in DOMAIN worker.pending : Failed(worker.pending[i]) \in Told
      BY <2>2, AnswerTypes
    <3>2. worker.pending \in Seq(Pendings)
      BY <1>2
    <3> QED BY <3>1, <3>2
  <2>4. \A i \in DOMAIN failures :
           i \in DOMAIN worker.pending /\ Settles(failures[i]) /\ failures[i].of = worker.pending[i].of
    BY <2>2, AnswerTypes DEF Settles
  <2>5. events' = events \o failures
    BY <1>6 DEF Stopped
  <2> HIDE DEF failures
  <2>6. /\ DOMAIN events = 1..Len(events) /\ DOMAIN failures = 1..Len(failures)
        /\ Len(failures) \in Nat
        /\ DOMAIN (events \o failures) = 1..(Len(events) + Len(failures))
        /\ \A i \in 1..Len(events) : (events \o failures)[i] = events[i]
        /\ \A i \in 1..(Len(events) + Len(failures)) :
              i > Len(events) => (events \o failures)[i] = failures[i - Len(events)]
    BY <1>2, <2>3, ConcatIs
  <2>7. ASSUME NEW i \in DOMAIN events', i \notin DOMAIN events
        PROVE  i > Len(events) /\ Settles(events'[i])
               /\ \E j \in DOMAIN worker.pending : events'[i].of = worker.pending[j].of
    <3>1. i > Len(events) /\ i - Len(events) \in DOMAIN failures
          /\ events'[i] = failures[i - Len(events)]
      BY <1>5, <2>5, <2>6, <2>7
    <3> QED BY <2>4, <3>1
  <2>8. \A i \in DOMAIN events : i \in DOMAIN events' /\ events'[i] = events[i] /\ i <= Len(events)
    BY <1>5, <2>5, <2>6
  <2>9. PendingShrinks
    BY <2>1 DEF PendingShrinks
  <2>10. ToldOn
    BY <1>5, <2>7, <2>8, Zenon DEF ToldOn
  <2> QED BY <1>1, <1>3, <2>9, <2>10
<1>7. CASE ShownAsMessage
  <2> DEFINE m == Head(toClient)
             e == Event("message", 0, m.of, m.target, m.text)
  <2>1. m \in Links
    BY <1>1, <1>2, TailIs DEF Taken
  <2>2. e \in Told
    <3>1. m.of \in Nat /\ m.target \in Targets /\ m.text \in Texts
      BY <2>1 DEF Links
    <3> HIDE DEF m
    <3> QED BY <3>1, EventTypes
  <2>3. e.kind = "message" /\ e.of = m.of /\ e.target = m.target /\ e.text = m.text
    BY DEF Event
  <2>4. events' = Append(events, e)
    BY <1>7 DEF ShownAsMessage
  <2> HIDE DEF e
  <2>5. /\ \A j \in DOMAIN events : j \in DOMAIN events' /\ events'[j] = events[j]
        /\ \A j \in DOMAIN events' : \/ j \in DOMAIN events /\ events'[j] = events[j] /\ j <= Len(events)
                                     \/ j = Len(events) + 1 /\ events'[j] = e
    BY <1>2, <2>2, <2>4, AppendCases
  <2>6. ToldOn
    BY <1>5, <1>7, <2>3, <2>5 DEF ToldOn
  <2>7. PendingShrinks
    <3>1. worker'.pending = worker.pending
      BY <1>7 DEF ShownAsMessage
    <3> QED BY <3>1 DEF PendingShrinks
  <2> QED BY <1>1, <1>3, <2>6, <2>7
<1>8. CASE Unanswered
  <2>1. worker'.pending = worker.pending /\ events' = events
    BY <1>8 DEF Unanswered
  <2>2. PendingShrinks
    BY <2>1 DEF PendingShrinks
  <2>3. ToldOn
    BY <1>5, <2>1 DEF ToldOn
  <2> QED BY <1>1, <1>3, <2>2, <2>3
<1> QED BY <1>1, <1>3, <1>4, <1>6, <1>7, <1>8, ReceiveIs DEF Answered

-----------------------------------------------------------------------------
(* Bounds. *)

LEMMA SendBounded ==
  ASSUME TypeOK, BoundsInv, NEW target \in Targets, NEW text \in Texts, NEW written \in BOOLEAN,
         Send(target, text, written)
  PROVE  BoundsInv'
<1>1. PICK label \in Nat, id \in Nat : SentAs(target, text, label, id)
  BY SentIs
<1>2. sends' = sends + 1 /\ toClient' = toClient /\ lines' = lines
  BY SendIs DEF SendsOn, windowVars
<1>3. OfBounds'
  <2>0. /\ sends \in Nat /\ \A n \in Nat : n <= sends => n <= sends'
        /\ sends + 1 <= sends'
    BY <1>2, LinkTypes
  <2>1. \A i \in DOMAIN worker'.pending : worker'.pending[i].of <= sends'
    <3>1. \A i \in DOMAIN worker.pending : worker.pending[i].of <= sends'
      BY <2>0, LinkTypes DEF BoundsInv, OfBounds
    <3> QED BY <1>1, <2>0, <3>1 DEF SentAs
  <2>2. \A i \in DOMAIN toServer' : toServer'[i].of <= sends'
    <3>1. \A i \in DOMAIN toServer : toServer[i].of <= sends'
      BY <2>0, LinkTypes DEF BoundsInv, OfBounds
    <3> QED BY <1>1, <2>0, <3>1 DEF SentAs
  <2>3. \A i \in DOMAIN toClient' : toClient'[i].of <= sends'
    BY <1>2, LinkTypes DEF BoundsInv, OfBounds
  <2>4. \A i \in DOMAIN events' :
          events'[i].of <= sends' /\ (events'[i].kind = "accepted" => events'[i].of # 0)
    <3>1. \A i \in DOMAIN events :
            events[i].of <= sends' /\ (events[i].kind = "accepted" => events[i].of # 0)
      BY <2>0, LinkTypes DEF BoundsInv, OfBounds
    <3> QED BY <1>1, <2>0, <3>1 DEF SentAs
  <2>5. \A i \in DOMAIN lines' : lines'[i].of <= sends' /\ (lines'[i].own => lines'[i].of # 0)
    BY <1>2, LinkTypes DEF BoundsInv, OfBounds
  <2> QED BY <2>1, <2>2, <2>3, <2>4, <2>5 DEF OfBounds
<1>4. LabelBounds'
  <2>4. worker.nextLabel <= worker'.nextLabel /\ worker'.nextLabel \in Nat /\ worker.nextLabel \in Nat
        /\ (label # 0 => label = worker'.nextLabel)
    BY <1>1, LinkTypes DEF SentAs
  <2>5. \A i \in DOMAIN worker.pending :
           worker.pending[i].label <= worker.nextLabel /\ worker.pending[i].label \in Nat
    BY LinkTypes DEF BoundsInv, LabelBounds
  <2>6. \A i \in DOMAIN worker'.pending :
          \/ i \in DOMAIN worker.pending /\ worker'.pending[i] = worker.pending[i]
          \/ worker'.pending[i].label = label
    BY <1>1 DEF SentAs
  <2>1. \A i \in DOMAIN worker'.pending : worker'.pending[i].label <= worker'.nextLabel
    BY <2>4, <2>5, <2>6
  <2>2. \A i \in DOMAIN toServer' : toServer'[i].label <= worker'.nextLabel
    BY <1>1, LinkTypes DEF SentAs, BoundsInv, LabelBounds
  <2>3. \A i \in DOMAIN toClient' :
          toClient'[i].label <= worker'.nextLabel /\ toClient'[i].batch <= worker'.nextLabel
    BY <1>1, <1>2, LinkTypes DEF SentAs, BoundsInv, LabelBounds
  <2> QED BY <2>1, <2>2, <2>3 DEF LabelBounds
<1> QED BY <1>3, <1>4 DEF BoundsInv

LEMMA TellingBounded ==
  ASSUME TypeOK, BoundsInv, PendingShrinks, ToldOn, worker'.nextLabel = worker.nextLabel,
         \A i \in DOMAIN toServer' :
              \/ i \in DOMAIN toServer /\ toServer'[i] = toServer[i]
              \/ toServer'[i].kind = "req" /\ toServer'[i].of = 0 /\ toServer'[i].label = 0,
         toClient' = toClient \/ (toClient # <<>> /\ toClient' = Tail(toClient)),
         ShownAsMessage => toClient # <<>>,
         UNCHANGED <<lines, sends>>
  PROVE  BoundsInv'
<1>1. \A i \in DOMAIN toClient' : \E j \in DOMAIN toClient : toClient'[i] = toClient[j]
  BY LinkTypes, TailCases
<1>2. toClient # <<>> => Head(toClient).of <= sends
  <2>1. toClient # <<>> => 1 \in DOMAIN toClient /\ Head(toClient) = toClient[1]
    BY LinkTypes, TailCases
  <2> QED BY <2>1 DEF BoundsInv, OfBounds
<1>3. OfBounds'
  <2>1. \A i \in DOMAIN worker'.pending : worker'.pending[i].of <= sends'
    BY DEF PendingShrinks, BoundsInv, OfBounds
  <2>2. \A i \in DOMAIN toServer' : toServer'[i].of <= sends'
    BY LinkTypes DEF BoundsInv, OfBounds
  <2>3. \A i \in DOMAIN toClient' : toClient'[i].of <= sends'
    BY <1>1 DEF BoundsInv, OfBounds
  <2>4. \A i \in DOMAIN events' :
          events'[i].of <= sends' /\ (events'[i].kind = "accepted" => events'[i].of # 0)
    BY <1>2 DEF ToldOn, Settles, BoundsInv, OfBounds
  <2>5. \A i \in DOMAIN lines' : lines'[i].of <= sends' /\ (lines'[i].own => lines'[i].of # 0)
    BY DEF BoundsInv, OfBounds
  <2> QED BY <2>1, <2>2, <2>3, <2>4, <2>5 DEF OfBounds
<1>4. LabelBounds'
  <2>1. \A i \in DOMAIN worker'.pending : worker'.pending[i].label <= worker'.nextLabel
    BY DEF PendingShrinks, BoundsInv, LabelBounds
  <2>2. \A i \in DOMAIN toServer' : toServer'[i].label <= worker'.nextLabel
    BY LinkTypes DEF BoundsInv, LabelBounds
  <2>3. \A i \in DOMAIN toClient' :
          toClient'[i].label <= worker'.nextLabel /\ toClient'[i].batch <= worker'.nextLabel
    BY <1>1 DEF BoundsInv, LabelBounds
  <2> QED BY <2>1, <2>2, <2>3 DEF LabelBounds
<1> QED BY <1>3, <1>4 DEF BoundsInv

LEMMA HandleBounded ==
  ASSUME TypeOK, WaitInv, BoundsInv, HandleEvent
  PROVE  BoundsInv'
<1> DEFINE e == Head(events)
<1>1. HandlesFirst /\ (Follows \/ Adds \/ Concludes \/ GivesUp)
  BY HandleIs DEF WaitInv
<1>2. /\ UNCHANGED <<worker, toServer, toClient, sends>> /\ e = events[1] /\ 1 \in DOMAIN events
      /\ \A i \in DOMAIN events' : i + 1 \in DOMAIN events /\ events'[i] = events[i + 1]
  BY <1>1, FirstGoes DEF HandlesFirst
<1>3. /\ lines \in Seq(Lines) /\ sends \in Nat
      /\ \A i \in DOMAIN lines : lines[i].of <= sends /\ (lines[i].own => lines[i].of # 0)
      /\ e.of <= sends /\ (e.kind = "accepted" => e.of # 0)
  BY <1>2, LinkTypes DEF BoundsInv, OfBounds
<1> HIDE DEF e
<1>4. \A i \in DOMAIN lines' : lines'[i].of <= sends /\ (lines'[i].own => lines'[i].of # 0)
  <2>1. ASSUME NEW own \in BOOLEAN, NEW status, lines' = Append(lines, Shown(e, own, status)),
               own => e.kind = "accepted"
        PROVE  \A i \in DOMAIN lines' : lines'[i].of <= sends /\ (lines'[i].own => lines'[i].of # 0)
    <3> DEFINE l == Shown(e, own, status)
    <3>1. l.of = e.of /\ l.own = own
      BY DEF Shown
    <3>2. lines' = Append(lines, l)
      BY <2>1
    <3> HIDE DEF l
    <3>3. /\ DOMAIN lines = 1..Len(lines) /\ Len(lines) \in Nat /\ DOMAIN lines' = 1..(Len(lines) + 1)
          /\ \A i \in 1..Len(lines) : lines'[i] = lines[i]
          /\ lines'[Len(lines) + 1] = l
      BY <1>3, <3>2
    <3>4. \A i \in DOMAIN lines' : \/ i \in DOMAIN lines /\ lines'[i] = lines[i]
                                   \/ lines'[i] = l
      BY <3>3
    <3> QED BY <1>3, <2>1, <3>1, <3>4
  <2>2. CASE Follows
    <3>1. lines' = Append(lines, Shown(e, TRUE, "sent")) /\ e.kind = "accepted"
      BY <2>2 DEF Follows, LinesGrow, Waits, e
    <3> QED BY <2>1, <3>1
  <2>3. CASE Adds
    <3>1. \/ lines' = Append(lines, Shown(e, TRUE, "sent")) /\ e.kind = "accepted"
          \/ lines' = Append(lines, Shown(e, FALSE, "received"))
      BY <2>3 DEF Adds, LinesGrow, e
    <3> QED BY <2>1, <3>1
  <2>4. CASE Concludes
    <3>1. /\ DOMAIN lines' = DOMAIN lines
          /\ \A i \in DOMAIN lines : lines'[i].of = lines[i].of /\ lines'[i].own = lines[i].own
      BY <2>4 DEF Concludes
    <3> QED BY <1>3, <3>1
  <2>5. CASE GivesUp
    <3>1. \A i \in DOMAIN lines : lines[i] \in Lines
      BY <1>3
    <3>2. /\ DOMAIN lines' = DOMAIN lines
          /\ \A i \in DOMAIN lines : lines'[i].of = lines[i].of /\ lines'[i].own = lines[i].own
      BY <2>5, <3>1 DEF GivesUp, Lines
    <3> QED BY <1>3, <3>2
  <2> QED BY <1>1, <2>2, <2>3, <2>4, <2>5
<1>5. OfBounds'
  BY <1>2, <1>4 DEF BoundsInv, OfBounds
<1>6. LabelBounds'
  BY <1>2 DEF BoundsInv, LabelBounds
<1> QED BY <1>5, <1>6 DEF BoundsInv

LEMMA ServerBounded ==
  ASSUME TypeOK, LinkInv, BoundsInv, ServerStep
  PROVE  BoundsInv'
<1>1. PICK s : Speaks(s)
  BY ServerSpeaks
<1>2. /\ UNCHANGED <<worker, events, lines, sends>>
      /\ toServer' = toServer \/ (toServer # <<>> /\ toServer' = Tail(toServer))
  BY ServerTyped, ServerSpeaks DEF windowVars
<1>3. \A i \in DOMAIN toServer' : \E j \in DOMAIN toServer : toServer'[i] = toServer[j]
  <2>1. toServer \in Seq(Links)
    BY LinkTypes
  <2>2. CASE toServer' = toServer
    BY <2>2
  <2>3. CASE toServer # <<>> /\ toServer' = Tail(toServer)
    <3>1. \A i \in DOMAIN toServer' : i + 1 \in DOMAIN toServer /\ toServer'[i] = toServer[i + 1]
      BY <2>1, <2>3, TailCases
    <3> QED BY <3>1
  <2> QED BY <1>2, <2>2, <2>3
<1>4. sends \in Nat /\ worker.nextLabel \in Nat
  BY LinkTypes
<1>5. ASSUME NEW i \in DOMAIN s
      PROVE  s[i].of <= sends /\ s[i].label <= worker.nextLabel /\ s[i].batch <= worker.nextLabel
  <2>1. toServer # <<>> => 1 \in DOMAIN toServer /\ Head(toServer) = toServer[1]
    BY LinkTypes, TailCases
  <2>2. toServer # <<>> => /\ Head(toServer).of <= sends /\ Head(toServer).label <= worker.nextLabel
    BY <2>1 DEF BoundsInv, OfBounds, LabelBounds
  <2>3. toServer # <<>> => Says(Head(toServer)) <= worker.nextLabel
    BY <1>4, <2>2 DEF Says
  <2>4. FromMessage(s[i]) \/ NoMessage(s[i]) \/ OtherClients(s[i])
    BY <1>1 DEF Speaks
  <2>5. CASE FromMessage(s[i])
    BY <1>4, <2>2, <2>3, <2>5 DEF FromMessage
  <2>6. CASE NoMessage(s[i])
    BY <1>4, <2>3, <2>6 DEF NoMessage
  <2>7. CASE OtherClients(s[i])
    BY <1>4, <2>7 DEF OtherClients
  <2> QED BY <2>4, <2>5, <2>6, <2>7
<1>6. \A i \in DOMAIN toClient' :
         \/ i \in DOMAIN toClient /\ toClient'[i] = toClient[i]
         \/ \E j \in DOMAIN s : toClient'[i] = s[j]
  BY <1>1, LinkTypes, SpokenIs
<1>7. OfBounds'
  <2>1. \A i \in DOMAIN toServer' : toServer'[i].of <= sends'
    BY <1>2, <1>3 DEF BoundsInv, OfBounds
  <2>2. \A i \in DOMAIN toClient' : toClient'[i].of <= sends'
    BY <1>2, <1>5, <1>6 DEF BoundsInv, OfBounds
  <2> QED BY <1>2, <2>1, <2>2 DEF BoundsInv, OfBounds
<1>8. LabelBounds'
  <2>1. \A i \in DOMAIN toServer' : toServer'[i].label <= worker'.nextLabel
    BY <1>2, <1>3 DEF BoundsInv, LabelBounds
  <2>2. \A i \in DOMAIN toClient' :
          toClient'[i].label <= worker'.nextLabel /\ toClient'[i].batch <= worker'.nextLabel
    BY <1>2, <1>5, <1>6 DEF BoundsInv, LabelBounds
  <2> QED BY <1>2, <2>1, <2>2 DEF BoundsInv, LabelBounds
<1> QED BY <1>7, <1>8 DEF BoundsInv

LEMMA ReceiveBounded ==
  ASSUME TypeOK, PendingInv, BoundsInv, Receive
  PROVE  BoundsInv'
<1>1. /\ PendingShrinks /\ ToldOn /\ Taken
      /\ \A i \in DOMAIN toServer' :
              \/ i \in DOMAIN toServer /\ toServer'[i] = toServer[i]
              \/ toServer'[i].kind = "req" /\ toServer'[i].of = 0 /\ toServer'[i].label = 0
  BY ReceiveTells
<1>2. /\ worker'.nextLabel = worker.nextLabel /\ toClient # <<>> /\ toClient' = Tail(toClient)
      /\ UNCHANGED <<lines, sends>>
  BY <1>1 DEF Taken, windowVars
<1> QED BY <1>1, <1>2, TellingBounded

LEMMA ExpireBounded ==
  ASSUME TypeOK, BoundsInv, Expire
  PROVE  BoundsInv'
<1>1. Leaves(1, Failed(worker.pending[1]))
  BY ExpireIs
<1>2. PendingShrinks
  BY <1>1, LeavesTells
<1>3. /\ worker'.nextLabel = worker.nextLabel /\ UNCHANGED <<toServer, toClient, lines, sends>>
  BY ExpireIs DEF windowVars
<1>4. \A i \in DOMAIN events' :
         \/ i \in DOMAIN events /\ events'[i] = events[i]
         \/ Settles(events'[i]) /\ events'[i].of = worker.pending[1].of
  <2>1. /\ events' = Append(events, Failed(worker.pending[1])) /\ Failed(worker.pending[1]) \in Told
        /\ Settles(Failed(worker.pending[1])) /\ Failed(worker.pending[1]).of = worker.pending[1].of
    BY <1>1 DEF Leaves
  <2> QED BY <2>1, LinkTypes, AppendCases
<1>5. 1 \in DOMAIN worker.pending
  BY <1>1 DEF Leaves
<1>6. OfBounds'
  BY <1>2, <1>3, <1>4, <1>5 DEF PendingShrinks, Settles, BoundsInv, OfBounds
<1>7. LabelBounds'
  BY <1>2, <1>3 DEF PendingShrinks, BoundsInv, LabelBounds
<1> QED BY <1>6, <1>7 DEF BoundsInv

LEMMA LinkEndsBounded ==
  ASSUME TypeOK, BoundsInv, LinkEnds
  PROVE  BoundsInv'
<1>1. /\ worker' = [worker EXCEPT !.up = FALSE] /\ events' = Append(events, NoMore)
      /\ toServer' = <<>> /\ toClient' = <<>> /\ UNCHANGED <<lines, sends>>
  BY DEF LinkEnds, windowVars
<1>2. worker \in Workers /\ sends \in Nat
  BY DEF TypeOK
<1>3. worker'.pending = worker.pending /\ worker'.nextLabel = worker.nextLabel
  BY <1>1, <1>2 DEF Workers
<1>4. NoMore \in Told /\ NoMore.of = 0 /\ NoMore.kind = "disconnected"
  BY EventTypes DEF NoMore
<1>5. \A i \in DOMAIN events' : \/ i \in DOMAIN events /\ events'[i] = events[i]
                                \/ events'[i] = NoMore
  BY <1>1, <1>4, LinkTypes, AppendCases
<1>6. OfBounds'
  BY <1>1, <1>2, <1>3, <1>4, <1>5 DEF BoundsInv, OfBounds
<1>7. LabelBounds'
  BY <1>1, <1>3 DEF BoundsInv, LabelBounds
<1> QED BY <1>6, <1>7 DEF BoundsInv

LEMMA ConnectBounded ==
  ASSUME TypeOK, BoundsInv, Connect
  PROVE  BoundsInv'
<1>1. /\ worker'.pending = <<>> /\ events' = <<>> /\ toServer' = <<>> /\ toClient' = <<>>
      /\ UNCHANGED <<lines, sends>>
  <2>1. PICK e \in Offers : worker' = [NewWorker EXCEPT !.enabled = e]
    BY DEF Connect
  <2> QED BY <2>1 DEF Connect, NewWorker
<1>2. /\ DOMAIN worker'.pending = {} /\ DOMAIN events' = {} /\ DOMAIN toServer' = {}
      /\ DOMAIN toClient' = {}
  BY <1>1
<1> QED BY <1>1, <1>2 DEF BoundsInv, OfBounds, LabelBounds

-----------------------------------------------------------------------------
(* Labels, and what they are about. *)

LEMMA OffKept ==
  ASSUME worker'.enabled = worker.enabled,
         \A i \in DOMAIN toClient : i \in DOMAIN toClient' /\ toClient'[i] = toClient[i],
         \A i \in DOMAIN toClient' : i \in DOMAIN toClient \/ i > Len(toClient),
         Len(toClient) \in Nat, DOMAIN toClient' \subseteq Nat,
         NEW k \in Nat, k <= Len(toClient) + 1, OffFrom(k)
  PROVE  OffFrom(k)'
<1>1. ASSUME NEW i \in DOMAIN toClient', i < k PROVE i \in DOMAIN toClient /\ toClient'[i] = toClient[i]
  BY <1>1
<1>2. \A i \in DOMAIN toClient' :
         i < k /\ GivesLabel(toClient'[i]) =>
            \E j \in DOMAIN toClient' : i < j /\ j < k /\ TakesLabel(toClient'[j])
  BY <1>1 DEF OffFrom
<1>3. Labeled(worker)' => \E j \in DOMAIN toClient' : j < k /\ TakesLabel(toClient'[j])
  BY DEF OffFrom, Labeled
<1> QED BY <1>2, <1>3 DEF OffFrom, GivesLabel, TakesLabel

LEMMA OffMovesUp ==
  ASSUME TypeOK, Taken, NEW k \in Nat, k >= 1, OffFrom(k + 1)
  PROVE  OffFrom(k)'
<1>1. /\ toClient \in Seq(Links) /\ toClient # <<>> /\ toClient' = Tail(toClient)
      /\ worker'.enabled = Negotiate(worker, Head(toClient)).enabled /\ worker \in Workers
  BY LinkTypes DEF Taken, TypeOK
<1>2. /\ DOMAIN toClient \subseteq Nat \ {0} /\ Head(toClient) = toClient[1] /\ 1 \in DOMAIN toClient
      /\ \A i \in DOMAIN toClient' : i \in Nat \ {0} /\ i + 1 \in DOMAIN toClient
                                     /\ toClient'[i] = toClient[i + 1]
      /\ \A i \in DOMAIN toClient : i # 1 => i - 1 \in DOMAIN toClient' /\ toClient'[i - 1] = toClient[i]
  BY <1>1, TailCases
<1>3. ASSUME NEW i \in Nat, i >= 1, NEW j \in DOMAIN toClient, i < j, j < k + 1, TakesLabel(toClient[j])
      PROVE  j - 1 \in DOMAIN toClient' /\ i - 1 < j - 1 /\ j - 1 < k /\ TakesLabel(toClient'[j - 1])
  <2>1. j \in Nat /\ j # 1
    BY <1>2, <1>3
  <2>2. j - 1 \in DOMAIN toClient' /\ toClient'[j - 1] = toClient[j]
    BY <1>2, <2>1
  <2> QED BY <1>3, <2>1, <2>2
<1>4. ASSUME NEW i \in DOMAIN toClient', i < k, GivesLabel(toClient'[i])
      PROVE  \E j \in DOMAIN toClient' : i < j /\ j < k /\ TakesLabel(toClient'[j])
  <2>1. i \in Nat /\ i + 1 \in DOMAIN toClient /\ i + 1 < k + 1 /\ GivesLabel(toClient[i + 1])
    BY <1>2, <1>4
  <2>2. PICK j \in DOMAIN toClient : i + 1 < j /\ j < k + 1 /\ TakesLabel(toClient[j])
    BY <2>1 DEF OffFrom
  <2>3. j - 1 \in DOMAIN toClient' /\ (i + 1) - 1 < j - 1 /\ j - 1 < k /\ TakesLabel(toClient'[j - 1])
    BY <1>3, <2>1, <2>2
  <2> QED BY <2>1, <2>3
<1>5. ASSUME "label" \in worker'.enabled
      PROVE  \E j \in DOMAIN toClient' : j < k /\ TakesLabel(toClient'[j])
  <2>1. \/ "label" \in worker.enabled /\ ~TakesLabel(toClient[1])
        \/ GivesLabel(toClient[1])
    BY <1>1, <1>2, <1>5 DEF Negotiate, Workers, TakesLabel, GivesLabel
  <2>2. ASSUME NEW j \in DOMAIN toClient, 1 < j, j < k + 1, TakesLabel(toClient[j])
        PROVE  \E n \in DOMAIN toClient' : n < k /\ TakesLabel(toClient'[n])
    BY <1>3, <2>2
  <2>3. CASE GivesLabel(toClient[1])
    <3>1. \E j \in DOMAIN toClient : 1 < j /\ j < k + 1 /\ TakesLabel(toClient[j])
      BY <1>2, <2>3 DEF OffFrom
    <3> QED BY <2>2, <3>1
  <2>4. CASE "label" \in worker.enabled /\ ~TakesLabel(toClient[1])
    <3>1. PICK j \in DOMAIN toClient : j < k + 1 /\ TakesLabel(toClient[j])
      BY <2>4 DEF OffFrom, Labeled
    <3>2. j # 1 /\ j \in Nat \ {0}
      BY <1>2, <2>4, <3>1
    <3>3. 1 < j
      BY <3>2
    <3> QED BY <2>2, <3>1, <3>3
  <2> QED BY <2>1, <2>3, <2>4
<1> QED BY <1>4, <1>5 DEF OffFrom, Labeled, GivesLabel, TakesLabel

(* The timer and the window, which leave the link alone. *)
LEMMA QuietLabels ==
  ASSUME LabelInv, PendingShrinks, worker'.up => worker.up,
         worker'.enabled = worker.enabled, worker'.batches = worker.batches,
         UNCHANGED <<toServer, toClient, server>>
  PROVE  LabelInv'
<1> SUFFICES ASSUME worker'.up PROVE PendingOnWay' /\ EchoesOnWay' /\ BatchOnWay' /\ PlainOnWay'
  BY DEF LabelInv
<1>1. PendingOnWay /\ EchoesOnWay /\ BatchOnWay /\ PlainOnWay
  BY DEF LabelInv
<1>2. \A k : OffFrom(k)' <=> OffFrom(k)
  BY DEF OffFrom, Labeled, GivesLabel, TakesLabel
<1>3. PendingOnWay'
  BY <1>1 DEF PendingOnWay, PendingShrinks, SameMessage
<1>4. EchoesOnWay'
  BY <1>1 DEF EchoesOnWay, PendingShrinks, ComesOf
<1>5. BatchOnWay'
  BY <1>1 DEF BatchOnWay, PendingShrinks
<1>6. PlainOnWay'
  <2>1. "label" \notin server' => OffFrom(Len(toClient) + 1)'
    BY <1>1, <1>2 DEF PlainOnWay
  <2>2. \A i \in DOMAIN worker'.pending, k \in DOMAIN toClient' :
          /\ toClient'[k].kind = "text" /\ toClient'[k].of = worker'.pending[i].of
          /\ toClient'[k].label = 0 /\ toClient'[k].batch = 0 /\ worker'.pending[i].label # 0
          => OffFrom(k)'
    BY <1>1, <1>2 DEF PlainOnWay, PendingShrinks
  <2> QED BY <2>1, <2>2 DEF PlainOnWay
<1> QED BY <1>3, <1>4, <1>5, <1>6

LEMMA SendLabels ==
  ASSUME TypeOK, BoundsInv, LabelInv, NEW target \in Targets, NEW text \in Texts,
         NEW written \in BOOLEAN, Send(target, text, written)
  PROVE  LabelInv'
<1>1. PICK label \in Nat, id \in Nat : SentAs(target, text, label, id)
  BY SentIs
<1>2. /\ worker.up /\ worker'.enabled = worker.enabled /\ worker'.batches = worker.batches
      /\ UNCHANGED <<toClient, server>>
  BY SendIs DEF SendsOn
<1>3. PendingOnWay /\ EchoesOnWay /\ BatchOnWay /\ PlainOnWay
  BY <1>2 DEF LabelInv
<1>4. /\ sends \in Nat /\ worker.nextLabel \in Nat
      /\ \A i \in DOMAIN worker.pending :
            /\ worker.pending[i].of \in Nat /\ worker.pending[i].label \in Nat
            /\ worker.pending[i].of <= sends /\ worker.pending[i].label <= worker.nextLabel
      /\ \A i \in DOMAIN toServer :
            /\ toServer[i].of \in Nat /\ toServer[i].label \in Nat
            /\ toServer[i].of <= sends /\ toServer[i].label <= worker.nextLabel
      /\ \A i \in DOMAIN toClient :
            /\ toClient[i].of \in Nat /\ toClient[i].label \in Nat /\ toClient[i].batch \in Nat
            /\ toClient[i].of <= sends /\ toClient[i].label <= worker.nextLabel
            /\ toClient[i].batch <= worker.nextLabel
  BY LinkTypes DEF BoundsInv, OfBounds, LabelBounds
<1>5. /\ \A i \in DOMAIN worker'.pending :
            \/ i \in DOMAIN worker.pending /\ worker'.pending[i] = worker.pending[i]
            \/ /\ worker'.pending[i].of = sends + 1 /\ worker'.pending[i].label = label
               /\ worker'.pending[i].target = target /\ worker'.pending[i].text = text
      /\ \A i \in DOMAIN toServer' :
            \/ i \in DOMAIN toServer /\ toServer'[i] = toServer[i]
            \/ /\ toServer'[i].of = sends + 1 /\ toServer'[i].label = label
               /\ toServer'[i].target = target /\ toServer'[i].text = text
      /\ label # 0 => label = worker.nextLabel + 1
  BY <1>1 DEF SentAs
<1>6. \A k : OffFrom(k)' <=> OffFrom(k)
  BY <1>2 DEF OffFrom, Labeled, GivesLabel, TakesLabel
<1>7. PendingOnWay'
  <2>1. ASSUME NEW i \in DOMAIN worker'.pending, NEW k \in DOMAIN toServer',
               NEW p, p = worker'.pending[i], NEW m, m = toServer'[k], m.kind = "text"
        PROVE  SameMessage(m, p)
    <3>1. CASE i \in DOMAIN worker.pending /\ p = worker.pending[i]
               /\ k \in DOMAIN toServer /\ m = toServer[k]
      BY <1>3, <2>1, <3>1 DEF PendingOnWay
    <3>2. CASE p.of = sends + 1 /\ p.label = label /\ k \in DOMAIN toServer /\ m = toServer[k]
      <4>1. m.of # p.of /\ ~(m.label = p.label /\ m.label # 0)
        BY <1>4, <1>5, <3>2
      <4> QED BY <4>1 DEF SameMessage
    <3>3. CASE m.of = sends + 1 /\ m.label = label /\ i \in DOMAIN worker.pending
               /\ p = worker.pending[i]
      <4>1. m.of # p.of /\ ~(m.label = p.label /\ m.label # 0)
        BY <1>4, <1>5, <3>3
      <4> QED BY <4>1 DEF SameMessage
    <3>4. CASE /\ p.of = sends + 1 /\ p.label = label /\ p.target = target /\ p.text = text
               /\ m.of = sends + 1 /\ m.label = label /\ m.target = target /\ m.text = text
      BY <3>4 DEF SameMessage
    <3> QED BY <1>5, <2>1, <3>1, <3>2, <3>3, <3>4
  <2> QED BY <2>1 DEF PendingOnWay, SameMessage
<1>8. EchoesOnWay'
  <2>1. ASSUME NEW i \in DOMAIN worker'.pending, NEW k \in DOMAIN toClient,
               NEW p, p = worker'.pending[i], toClient[k].kind = "text"
        PROVE  ComesOf(toClient[k], p)
    <3>1. CASE i \in DOMAIN worker.pending /\ p = worker.pending[i]
      BY <1>3, <2>1, <3>1 DEF EchoesOnWay
    <3>2. CASE p.of = sends + 1 /\ p.label = label
      <4>1. /\ toClient[k].of # p.of /\ ~(toClient[k].label = p.label /\ toClient[k].label # 0)
            /\ ~(toClient[k].batch = p.label /\ toClient[k].batch # 0)
        BY <1>4, <1>5, <3>2
      <4> QED BY <4>1 DEF ComesOf
    <3> QED BY <1>5, <2>1, <3>1, <3>2
  <2> QED BY <1>2, <2>1 DEF EchoesOnWay, ComesOf
<1>9. BatchOnWay'
  <2>1. ASSUME NEW i \in DOMAIN worker'.pending, 1 \in DOMAIN toClient, toClient[1].batch # 0,
               worker'.pending[i].label = toClient[1].batch
        PROVE  i \in DOMAIN worker.pending /\ worker'.pending[i] = worker.pending[i]
    BY <1>4, <1>5, <2>1
  <2> QED BY <1>2, <1>3, <2>1 DEF BatchOnWay
<1>10. PlainOnWay'
  <2>1. "label" \notin server' => OffFrom(Len(toClient) + 1)'
    BY <1>2, <1>3, <1>6 DEF PlainOnWay
  <2>2. \A i \in DOMAIN worker'.pending, k \in DOMAIN toClient :
          /\ toClient[k].kind = "text" /\ toClient[k].of = worker'.pending[i].of
          /\ toClient[k].label = 0 /\ toClient[k].batch = 0 /\ worker'.pending[i].label # 0
          => OffFrom(k)
    BY <1>3, <1>4, <1>5 DEF PlainOnWay
  <2> QED BY <1>2, <1>6, <2>1, <2>2 DEF PlainOnWay
<1> QED BY <1>7, <1>8, <1>9, <1>10 DEF LabelInv

LEMMA ServerLabels ==
  ASSUME TypeOK, LinkInv, LabelInv, ServerStep
  PROVE  LabelInv'
<1>1. PICK s : Speaks(s)
  BY ServerSpeaks
<1>2. /\ worker.up /\ UNCHANGED worker /\ toClient \in Seq(Links) /\ toServer \in Seq(Links)
      /\ toServer' = toServer \/ (toServer # <<>> /\ toServer' = Tail(toServer))
  BY ServerTyped, ServerSpeaks, LinkTypes
<1>3. PendingOnWay /\ EchoesOnWay /\ BatchOnWay /\ PlainOnWay
  BY <1>2 DEF LabelInv
<1>4. /\ DOMAIN toClient = 1..Len(toClient) /\ Len(toClient) \in Nat
      /\ DOMAIN s = 1..Len(s) /\ Len(s) \in Nat
      /\ DOMAIN toClient' = 1..(Len(toClient) + Len(s)) /\ Len(toClient') = Len(toClient) + Len(s)
      /\ \A k \in DOMAIN toClient : k \in DOMAIN toClient' /\ toClient'[k] = toClient[k]
      /\ \A k \in DOMAIN s : Len(toClient) + k \in DOMAIN toClient'
                             /\ toClient'[Len(toClient) + k] = s[k]
      /\ \A k \in DOMAIN toClient' :
              \/ k \in DOMAIN toClient /\ toClient'[k] = toClient[k] /\ k <= Len(toClient)
              \/ /\ k > Len(toClient) /\ k - Len(toClient) \in DOMAIN s
                 /\ toClient'[k] = s[k - Len(toClient)]
  BY <1>1, <1>2, SpokenIs
<1> DEFINE n == Len(toClient)
<1> HIDE DEF n
<1>5. ASSUME NEW i \in DOMAIN worker.pending, NEW j \in DOMAIN s, s[j].kind = "text",
             NEW p, p = worker.pending[i]
      PROVE  /\ ComesOf(s[j], p)
             /\ s[j].of = p.of /\ s[j].label = 0 /\ s[j].batch = 0 /\ p.label # 0 =>
                  j = 1 /\ "label" \notin server
  <2>1. p.of # 0 /\ p.of \in Nat /\ p.label \in Nat
    BY <1>5, LinkTypes
  <2>2. CASE FromMessage(s[j])
    <3> DEFINE m == Head(toServer)
    <3>1. toServer # <<>> /\ m.kind = "text" /\ s[j].of = m.of /\ s[j].target = m.target
          /\ \/ s[j].label = Says(m) /\ s[j].batch = 0
             \/ s[j].label = 0 /\ s[j].batch = Says(m) /\ Says(m) # 0
      BY <2>2 DEF FromMessage
    <3>2. m = toServer[1] /\ 1 \in DOMAIN toServer
      BY <1>2, <3>1, TailCases
    <3>3. SameMessage(m, p)
      BY <1>3, <1>5, <3>1, <3>2 DEF PendingOnWay
    <3>4. Says(m) = IF "label" \in server THEN m.label ELSE 0
      BY DEF Says
    <3> HIDE DEF m
    <3>5. ComesOf(s[j], p)
      BY <3>1, <3>3, <3>4 DEF SameMessage, ComesOf
    <3>6. s[j].batch = 0 => j = 1
      BY <1>1, <1>5 DEF Speaks
    <3> QED BY <3>1, <3>3, <3>4, <3>5, <3>6 DEF SameMessage
  <2>3. CASE OtherClients(s[j])
    BY <2>1, <2>3 DEF OtherClients, ComesOf
  <2>4. ~NoMessage(s[j])
    BY <1>5 DEF NoMessage
  <2>5. FromMessage(s[j]) \/ OtherClients(s[j])
    BY <1>1, <2>4 DEF Speaks
  <2> QED BY <2>2, <2>3, <2>5
<1>6. ASSUME NEW k \in Nat, k <= n + 1, OffFrom(k)
      PROVE  OffFrom(k)'
  <2>1. \A i \in DOMAIN toClient' : i \in DOMAIN toClient \/ i > Len(toClient)
    BY <1>4
  <2>2. worker'.enabled = worker.enabled /\ DOMAIN toClient' \subseteq Nat
    BY <1>2, <1>4
  <2> QED BY <1>4, <1>6, <2>1, <2>2, OffKept DEF n
<1>7. PendingOnWay'
  <2>1. \A k \in DOMAIN toServer' : \E j \in DOMAIN toServer : toServer'[k] = toServer[j]
    <3>1. CASE toServer' = toServer
      BY <3>1
    <3>2. CASE toServer # <<>> /\ toServer' = Tail(toServer)
      <4>1. \A i \in DOMAIN toServer' : i + 1 \in DOMAIN toServer /\ toServer'[i] = toServer[i + 1]
        BY <1>2, <3>2, TailCases
      <4> QED BY <4>1
    <3> QED BY <1>2, <3>1, <3>2
  <2>2. ASSUME NEW i \in DOMAIN worker.pending, NEW k \in DOMAIN toServer',
               NEW m, m = toServer'[k], m.kind = "text"
        PROVE  SameMessage(m, worker.pending[i])
    BY <1>3, <2>1, <2>2 DEF PendingOnWay
  <2> QED BY <1>2, <2>2 DEF PendingOnWay, SameMessage
<1>8. EchoesOnWay'
  <2>1. ASSUME NEW i \in DOMAIN worker.pending, NEW k \in DOMAIN toClient',
               NEW m, m = toClient'[k], m.kind = "text"
        PROVE  ComesOf(m, worker.pending[i])
    <3>1. CASE k \in DOMAIN toClient /\ m = toClient[k]
      BY <1>3, <2>1, <3>1 DEF EchoesOnWay
    <3>2. CASE k - n \in DOMAIN s /\ m = s[k - n]
      BY <1>5, <2>1, <3>2
    <3> QED BY <1>4, <2>1, <3>1, <3>2 DEF n
  <2> QED BY <1>2, <2>1 DEF EchoesOnWay, ComesOf
<1>9. BatchOnWay'
  <2>1. ASSUME NEW k \in DOMAIN toClient', NEW m, m = toClient'[k], m.kind = "text", m.batch # 0
        PROVE  /\ m.label = 0
               /\ k > 1 => toClient'[k - 1].kind = "open" /\ toClient'[k - 1].label = m.batch
               /\ k = 1 => \A i \in DOMAIN worker.pending :
                        worker.pending[i].label = m.batch => m.batch \in ToSet(worker.batches)
    <3>1. CASE k \in DOMAIN toClient /\ m = toClient[k]
      <4>1. k > 1 => k - 1 \in DOMAIN toClient /\ toClient'[k - 1] = toClient[k - 1]
        BY <1>4, <3>1
      <4> QED BY <1>3, <2>1, <3>1, <4>1 DEF BatchOnWay
    <3>2. CASE k > n /\ k - n \in DOMAIN s /\ m = s[k - n]
      <4>1. k - n = 2 /\ s[1].kind = "open" /\ s[1].label = m.batch /\ m.label = 0
        BY <1>1, <2>1, <3>2 DEF Speaks
      <4>2. 1 \in DOMAIN s /\ k - 1 = n + 1 /\ k # 1
        BY <1>4, <3>2, <4>1 DEF n
      <4>3. toClient'[k - 1] = s[1]
        BY <1>4, <4>2 DEF n
      <4> QED BY <4>1, <4>2, <4>3
    <3> QED BY <1>4, <2>1, <3>1, <3>2 DEF n
  <2> QED BY <1>2, <2>1 DEF BatchOnWay
<1>10. ASSUME "label" \notin server', NEW last \in Nat, last = n + Len(s) + 1
       PROVE  OffFrom(last)'
  <2>1. \A i \in DOMAIN toClient' : i < last
    BY <1>4, <1>10 DEF n
  <2>2. CASE "label" \notin server /\ \A i \in DOMAIN s : ~GivesLabel(s[i])
    <3>1. OffFrom(n + 1)
      BY <1>3, <2>2 DEF PlainOnWay, n
    <3>2. \A i \in DOMAIN toClient' : GivesLabel(toClient'[i]) =>
              i \in DOMAIN toClient /\ i < n + 1 /\ toClient'[i] = toClient[i]
      BY <1>4, <2>2 DEF n
    <3>3. ASSUME NEW i \in DOMAIN toClient', GivesLabel(toClient'[i])
          PROVE  \E j \in DOMAIN toClient' : i < j /\ j < last /\ TakesLabel(toClient'[j])
      <4>1. PICK j \in DOMAIN toClient : i < j /\ TakesLabel(toClient[j])
        BY <3>1, <3>2, <3>3 DEF OffFrom
      <4> QED BY <1>4, <2>1, <4>1
    <3>4. Labeled(worker') => \E j \in DOMAIN toClient' : j < last /\ TakesLabel(toClient'[j])
      <4>1. Labeled(worker') => \E j \in DOMAIN toClient : TakesLabel(toClient[j])
        BY <1>2, <3>1 DEF OffFrom, Labeled
      <4> QED BY <1>4, <2>1, <4>1
    <3> QED BY <3>3, <3>4 DEF OffFrom, GivesLabel, TakesLabel, Labeled
  <2>3. CASE \E i \in DOMAIN s : TakesLabel(s[i]) /\ \A j \in DOMAIN s : ~GivesLabel(s[j])
    <3>1. PICK i \in DOMAIN s : TakesLabel(s[i]) /\ \A j \in DOMAIN s : ~GivesLabel(s[j])
      BY <2>3
    <3>2. n + i \in DOMAIN toClient' /\ TakesLabel(toClient'[n + i]) /\ n + i < last
      BY <1>4, <2>1, <3>1 DEF n
    <3>3. \A k \in DOMAIN toClient' : GivesLabel(toClient'[k]) => k < n + i
      BY <1>4, <3>1 DEF n
    <3> QED BY <3>2, <3>3 DEF OffFrom, GivesLabel, TakesLabel
  <2> QED BY <1>1, <1>10, <2>2, <2>3 DEF Speaks
<1>11. ASSUME NEW i \in DOMAIN worker.pending, NEW k \in DOMAIN toClient',
              NEW m, m = toClient'[k], m.kind = "text", m.of = worker.pending[i].of,
              m.label = 0, m.batch = 0, worker.pending[i].label # 0
       PROVE  OffFrom(k)'
  <2>1. k \in Nat
    BY <1>4
  <2>2. CASE k \in DOMAIN toClient /\ m = toClient[k] /\ k <= n
    <3>1. OffFrom(k)
      BY <1>3, <1>11, <2>2 DEF PlainOnWay
    <3> QED BY <1>4, <1>6, <2>1, <2>2, <3>1 DEF n
  <2>3. CASE k - n \in DOMAIN s /\ m = s[k - n]
    <3>1. k - n = 1 /\ "label" \notin server
      BY <1>5, <1>11, <2>3
    <3>2. OffFrom(n + 1) /\ k = n + 1
      BY <1>3, <1>4, <2>1, <3>1 DEF PlainOnWay, n
    <3> QED BY <1>6, <2>1, <3>2
  <2> QED BY <1>4, <1>11, <2>2, <2>3 DEF n
<1>12. PlainOnWay'
  <2>1. Len(toClient') + 1 = n + Len(s) + 1
    BY <1>4 DEF n
  <2>2. ("label" \notin server => OffFrom(Len(toClient) + 1))'
    <3>1. PICK last \in Nat : last = n + Len(s) + 1
      BY <1>4 DEF n
    <3>2. "label" \notin server' => OffFrom(last)'
      BY <1>10, <3>1
    <3>3. Len(toClient') + 1 = last
      BY <2>1, <3>1
    <3> QED BY <3>2, <3>3 DEF OffFrom, GivesLabel, TakesLabel, Labeled
  <2>3. \A i \in DOMAIN worker'.pending, k \in DOMAIN toClient' :
          /\ toClient'[k].kind = "text" /\ toClient'[k].of = worker'.pending[i].of
          /\ toClient'[k].label = 0 /\ toClient'[k].batch = 0 /\ worker'.pending[i].label # 0
          => OffFrom(k)'
    BY <1>2, <1>11
  <2> QED BY <2>2, <2>3 DEF PlainOnWay
<1> QED BY <1>7, <1>8, <1>9, <1>12 DEF LabelInv

LEMMA ReceiveLabels ==
  ASSUME TypeOK, PendingInv, LabelInv, Receive
  PROVE  LabelInv'
<1>1. /\ PendingShrinks /\ Taken
      /\ \A i \in DOMAIN toServer' :
              \/ i \in DOMAIN toServer /\ toServer'[i] = toServer[i]
              \/ toServer'[i].kind = "req" /\ toServer'[i].of = 0 /\ toServer'[i].label = 0
  BY ReceiveTells
<1>2. /\ worker.up /\ toClient \in Seq(Links) /\ toClient # <<>> /\ toClient' = Tail(toClient)
      /\ server' = server
  BY <1>1, LinkTypes DEF Taken
<1>3. PendingOnWay /\ EchoesOnWay /\ BatchOnWay /\ PlainOnWay
  BY <1>2 DEF LabelInv
<1>4. /\ Len(toClient) \in Nat \ {0} /\ Len(toClient') = Len(toClient) - 1
      /\ 1 \in DOMAIN toClient /\ Head(toClient) = toClient[1]
      /\ \A i \in DOMAIN toClient' : i \in Nat \ {0} /\ i + 1 \in DOMAIN toClient
                                     /\ toClient'[i] = toClient[i + 1]
  BY <1>2, TailCases
<1>5. PendingOnWay'
  <2>1. ASSUME NEW i \in DOMAIN worker'.pending, NEW k \in DOMAIN toServer', toServer'[k].kind = "text"
        PROVE  SameMessage(toServer'[k], worker'.pending[i])
    <3>1. k \in DOMAIN toServer /\ toServer'[k] = toServer[k]
      BY <1>1, <2>1
    <3>2. PICK j \in DOMAIN worker.pending : worker'.pending[i] = worker.pending[j]
      BY <1>1 DEF PendingShrinks
    <3> QED BY <1>3, <2>1, <3>1, <3>2 DEF PendingOnWay
  <2> QED BY <2>1 DEF PendingOnWay, SameMessage
<1>6. EchoesOnWay'
  <2>1. ASSUME NEW i \in DOMAIN worker'.pending, NEW k \in DOMAIN toClient', toClient'[k].kind = "text"
        PROVE  ComesOf(toClient'[k], worker'.pending[i])
    <3>2. PICK j \in DOMAIN worker.pending : worker'.pending[i] = worker.pending[j]
      BY <1>1 DEF PendingShrinks
    <3> QED BY <1>3, <1>4, <2>1, <3>2 DEF EchoesOnWay
  <2> QED BY <2>1 DEF EchoesOnWay, ComesOf
<1>7. BatchOnWay'
  <2>1. ASSUME NEW k \in DOMAIN toClient', NEW m, m = toClient'[k], m.kind = "text", m.batch # 0
        PROVE  /\ m.label = 0
               /\ k > 1 => toClient'[k - 1].kind = "open" /\ toClient'[k - 1].label = m.batch
               /\ k = 1 => \A i \in DOMAIN worker'.pending :
                        worker'.pending[i].label = m.batch => m.batch \in ToSet(worker'.batches)
    <3>1. k \in Nat \ {0} /\ k + 1 \in DOMAIN toClient /\ m = toClient[k + 1] /\ k + 1 > 1
          /\ (k + 1) - 1 = k
      BY <1>4, <2>1
    <3>2. m.label = 0 /\ toClient[k].kind = "open" /\ toClient[k].label = m.batch
      BY <1>3, <2>1, <3>1 DEF BatchOnWay
    <3>3. CASE k > 1
      <4>1. k - 1 \in DOMAIN toClient' /\ toClient'[k - 1] = toClient[k]
        <5>1. k \in DOMAIN toClient /\ k # 1
          <6>1. DOMAIN toClient = 1..Len(toClient)
            BY <1>2, TailCases
          <6> QED BY <1>4, <3>1, <3>3, <6>1
        <5> QED BY <1>2, <5>1, TailCases
      <4> QED BY <3>1, <3>2, <3>3, <4>1
    <3>4. CASE k = 1
      <4>1. Head(toClient).kind = "open" /\ Head(toClient).label = m.batch
        BY <1>4, <3>2, <3>4
      <4>2. Unanswered
        BY <4>1, ReceiveIs DEF Answered, Stopped, ShownAsMessage, Belongs
      <4>3. \A i \in DOMAIN worker'.pending :
                worker'.pending[i].label = m.batch => m.batch \in ToSet(worker'.batches)
        BY <4>1, <4>2 DEF Unanswered
      <4> QED BY <3>2, <3>4, <4>3
    <3> QED BY <3>1, <3>3, <3>4
  <2> QED BY <2>1 DEF BatchOnWay
<1>8. PlainOnWay'
  <2>1. (("label" \notin server) => OffFrom(Len(toClient) + 1))'
    <3> SUFFICES ASSUME "label" \notin server' PROVE OffFrom(Len(toClient) + 1)'
      OBVIOUS
    <3>1. PICK k \in Nat : k = Len(toClient)
      BY <1>4
    <3>2. k >= 1 /\ k = Len(toClient') + 1
      BY <1>4, <3>1
    <3>3. OffFrom(k + 1)
      BY <1>2, <1>3, <3>1 DEF PlainOnWay
    <3>4. OffFrom(k)'
      BY <1>1, <3>2, <3>3, OffMovesUp
    <3> QED BY <3>2, <3>4 DEF OffFrom, GivesLabel, TakesLabel, Labeled
  <2>2. ASSUME NEW i \in DOMAIN worker'.pending, NEW k \in DOMAIN toClient',
               toClient'[k].kind = "text", toClient'[k].of = worker'.pending[i].of,
               toClient'[k].label = 0, toClient'[k].batch = 0, worker'.pending[i].label # 0
        PROVE  OffFrom(k)'
    <3>1. PICK j \in DOMAIN worker.pending : worker'.pending[i] = worker.pending[j]
      BY <1>1 DEF PendingShrinks
    <3>2. k \in Nat /\ k >= 1 /\ OffFrom(k + 1)
      BY <1>3, <1>4, <2>2, <3>1 DEF PlainOnWay
    <3> QED BY <1>1, <3>2, OffMovesUp
  <2> QED BY <2>1, <2>2 DEF PlainOnWay
<1> QED BY <1>5, <1>6, <1>7, <1>8 DEF LabelInv

LEMMA InitLabels == Init => LabelInv
<1> SUFFICES ASSUME Init PROVE LabelInv
  OBVIOUS
<1>1. /\ worker.pending = <<>> /\ toServer = <<>> /\ toClient = <<>> /\ server = worker.enabled
  BY DEF Init, NewWorker
<1>2. DOMAIN worker.pending = {} /\ DOMAIN toServer = {} /\ DOMAIN toClient = {}
  BY <1>1
<1> QED BY <1>1, <1>2 DEF LabelInv, PendingOnWay, EchoesOnWay, BatchOnWay, PlainOnWay, OffFrom,
                          Labeled

LEMMA ConnectLabels == Connect => LabelInv'
<1> SUFFICES ASSUME Connect PROVE LabelInv'
  OBVIOUS
<1>1. /\ worker'.pending = <<>> /\ toServer' = <<>> /\ toClient' = <<>>
      /\ server' = worker'.enabled
  BY DEF Connect, NewWorker
<1>2. DOMAIN worker'.pending = {} /\ DOMAIN toServer' = {} /\ DOMAIN toClient' = {}
  BY <1>1
<1> QED BY <1>1, <1>2 DEF LabelInv, PendingOnWay, EchoesOnWay, BatchOnWay, PlainOnWay, OffFrom,
                          Labeled

(* Every step keeps what the lines on the way say. *)
LEMMA LabelStep ==
  ASSUME TypeOK, WaitInv, BoundsInv, LinkInv, LabelInv, [Next]_vars
  PROVE  LabelInv'
<1>1. CASE \E target \in Targets, text \in Texts, written \in BOOLEAN : Send(target, text, written)
  BY <1>1, SendLabels
<1>2. CASE Receive
  BY <1>2, ReceiveLabels DEF WaitInv
<1>3. CASE Expire
  <2>1. /\ PendingShrinks /\ worker.up /\ worker'.batches = worker.batches
        /\ worker'.enabled = worker.enabled /\ UNCHANGED <<toServer, toClient, server>>
    BY <1>3, ExpireIs, LeavesTells
  <2> QED BY <2>1, QuietLabels
<1>4. CASE UNCHANGED <<worker, toServer, toClient, server>>
  <2>1. PendingShrinks
    BY <1>4 DEF PendingShrinks
  <2> QED BY <1>4, <2>1, QuietLabels
<1>5. CASE ServerStep
  BY <1>5, ServerLabels
<1>6. CASE LinkEnds
  <2>1. ~worker'.up
    BY <1>6 DEF LinkEnds, TypeOK, Workers
  <2> QED BY <2>1 DEF LabelInv
<1>7. CASE Connect
  BY <1>7, ConnectLabels
<1> QED BY <1>1, <1>2, <1>3, <1>4, <1>5, <1>6, <1>7, NextIs, LoggingChangesNothingElse
        DEF vars, windowVars, HandleEvent

LEMMA InitBounded == Init => BoundsInv /\ LinkInv
<1> SUFFICES ASSUME Init PROVE BoundsInv /\ LinkInv
  OBVIOUS
<1>1. /\ worker.pending = <<>> /\ events = <<>> /\ toServer = <<>> /\ toClient = <<>>
      /\ lines = <<>>
  BY DEF Init, NewWorker
<1>2. /\ DOMAIN worker.pending = {} /\ DOMAIN events = {} /\ DOMAIN toServer = {}
      /\ DOMAIN toClient = {} /\ DOMAIN lines = {}
  BY <1>1
<1> QED BY <1>1, <1>2 DEF BoundsInv, OfBounds, LabelBounds, LinkInv

LEMMA BoundsStep ==
  ASSUME TypeOK, WaitInv, BoundsInv, LinkInv, [Next]_vars
  PROVE  BoundsInv'
<1>1. CASE \E target \in Targets, text \in Texts, written \in BOOLEAN : Send(target, text, written)
  BY <1>1, SendBounded
<1>2. CASE Receive
  BY <1>2, ReceiveBounded DEF WaitInv
<1>3. CASE Expire
  BY <1>3, ExpireBounded
<1>4. CASE HandleEvent
  BY <1>4, HandleBounded
<1>5. CASE ServerStep
  BY <1>5, ServerBounded
<1>6. CASE LinkEnds
  BY <1>6, LinkEndsBounded
<1>7. CASE Connect
  BY <1>7, ConnectBounded
<1>8. CASE UNCHANGED <<worker, events, toServer, toClient, lines, sends>>
  BY <1>8 DEF BoundsInv, OfBounds, LabelBounds
<1> QED BY <1>1, <1>2, <1>3, <1>4, <1>5, <1>6, <1>7, <1>8, NextIs, LoggingChangesNothingElse
        DEF vars, windowVars

(* A link that has ended carries nothing. *)
LEMMA LinkStep ==
  ASSUME TypeOK, WaitInv, LinkInv, [Next]_vars
  PROVE  LinkInv'
<1>1. CASE \E target \in Targets, text \in Texts, written \in BOOLEAN : Send(target, text, written)
  BY <1>1, SendIs DEF SendsOn, LinkInv
<1>2. CASE Receive
  BY <1>2, ReceiveIs DEF WaitInv, Taken, LinkInv
<1>3. CASE Expire
  BY <1>3, ExpireIs DEF LinkInv
<1>4. CASE UNCHANGED <<worker, toServer, toClient>>
  BY <1>4 DEF LinkInv
<1>5. CASE ServerStep
  BY <1>5, ServerSpeaks, ServerTyped DEF LinkInv
<1>6. CASE LinkEnds \/ Connect
  BY <1>6 DEF LinkEnds, Connect, LinkInv
<1> QED BY <1>1, <1>2, <1>3, <1>4, <1>5, <1>6, NextIs, LoggingChangesNothingElse
        DEF vars, windowVars, HandleEvent

-----------------------------------------------------------------------------
(* Nothing is shown twice. *)

LEMMA TypedOnLines ==
  ASSUME TypeOK
  PROVE  /\ lines \in Seq(Lines) /\ DOMAIN lines = 1..Len(lines) /\ Len(lines) \in Nat
         /\ events \in Seq(Told) /\ DOMAIN events = 1..Len(events) /\ Len(events) \in Nat
         /\ \A i \in DOMAIN lines : lines[i] \in Lines
         /\ \A i \in DOMAIN events : events[i] \in Told
BY DEF TypeOK

(* What was settled before stays settled. *)
LEMMA SettledOn ==
  ASSUME \A i \in DOMAIN events : i \in DOMAIN events' /\ events'[i] = events[i],
         DOMAIN events \subseteq Nat,
         NEW k \in Nat, NEW j \in Nat, k <= j, NEW id, Settled(id, k)
  PROVE  Settled(id, j)'
<1>1. PICK i \in DOMAIN events : i < k /\ Settles(events[i]) /\ events[i].id = id
  BY DEF Settled
<1>2. i < j /\ i \in DOMAIN events' /\ events'[i] = events[i]
  BY <1>1
<1> QED BY <1>1, <1>2 DEF Settled

(* A message told comes late for every line with its words. *)
ComesLate(of, text) ==
    /\ \A j \in DOMAIN lines :
          Sent(lines[j]) /\ of = lines[j].of /\ text = lines[j].text =>
            \E id \in DOMAIN following : following[id] = j /\ Settled(id, End)
    /\ \A i \in DOMAIN events :
          Waits(events[i]) /\ of = events[i].of /\ text = events[i].text =>
            Settled(events[i].id, End)

LEMMA TellingKeepsTwice ==
  ASSUME TypeOK, NeverTwice, SentIsOwn, ToldOnce, EchoIsLate, UNCHANGED <<lines, following>>,
         \A i \in DOMAIN events : i \in DOMAIN events' /\ events'[i] = events[i],
         \A i \in DOMAIN events' : i \notin DOMAIN events =>
            /\ i \in Nat /\ i > Len(events) /\ events'[i].kind # "accepted"
            /\ events'[i].kind = "message" => ComesLate(events'[i].of, events'[i].text)
  PROVE  NeverTwice' /\ SentIsOwn' /\ ToldOnce' /\ EchoIsLate'
<1>1. DOMAIN events = 1..Len(events) /\ Len(events) \in Nat /\ End = Len(events) + 1 /\ End \in Nat
  BY TypedOnLines DEF End
<1>2. NeverTwice' /\ SentIsOwn'
  BY DEF NeverTwice, SentIsOwn
<1>3. ToldOnce'
  <2>1. \A i \in DOMAIN lines', k \in DOMAIN events' :
          events'[k].kind = "accepted" => lines'[i].of # events'[k].of
    BY DEF ToldOnce
  <2>2. ASSUME NEW i \in DOMAIN events', NEW k \in DOMAIN events', events'[k].kind = "accepted",
               events'[i].kind \in {"message", "accepted"}, i < k
        PROVE  events'[i].of # events'[k].of
    <3>1. k \in DOMAIN events
      BY <2>2
    <3>2. i \in DOMAIN events
      BY <1>1, <2>2, <3>1
    <3> QED BY <2>2, <3>1, <3>2 DEF ToldOnce
  <2> QED BY <2>1, <2>2 DEF ToldOnce
<1>4. \A k \in DOMAIN events' : k \in Nat /\ (k \notin DOMAIN events => End <= k)
  BY <1>1
<1>5. ASSUME NEW k \in DOMAIN events', NEW j \in DOMAIN lines, events'[k].kind = "message",
             Sent(lines[j]), events'[k].of = lines[j].of, events'[k].text = lines[j].text
      PROVE  \E id \in DOMAIN following : following[id] = j /\ Settled(id, k)'
  <2>1. CASE k \in DOMAIN events
    <3>1. PICK id \in DOMAIN following : following[id] = j /\ Settled(id, k)
      BY <1>5, <2>1 DEF EchoIsLate
    <3>2. Settled(id, k)'
      BY <1>1, <1>4, <3>1, SettledOn
    <3> QED BY <3>1, <3>2
  <2>2. CASE k \notin DOMAIN events
    <3>1. PICK id \in DOMAIN following : following[id] = j /\ Settled(id, End)
      BY <1>5, <2>2 DEF ComesLate
    <3>2. PICK n \in Nat : n = End
      BY <1>1
    <3>3. Settled(id, n) /\ n <= k
      BY <1>4, <2>2, <3>1, <3>2
    <3>4. Settled(id, k)'
      BY <1>1, <1>4, <3>3, SettledOn
    <3> QED BY <3>1, <3>4
  <2> QED BY <2>1, <2>2
<1>6. ASSUME NEW k \in DOMAIN events', NEW i \in DOMAIN events', events'[k].kind = "message",
             Waits(events'[i]), events'[k].of = events'[i].of, events'[k].text = events'[i].text,
             NEW id, id = events'[i].id
      PROVE  Settled(id, k)'
  <2>1. i \in DOMAIN events /\ events'[i] = events[i]
    BY <1>6 DEF Waits
  <2>2. CASE k \in DOMAIN events
    <3>1. Settled(id, k)
      BY <1>6, <2>1, <2>2 DEF EchoIsLate
    <3> QED BY <1>1, <1>4, <3>1, SettledOn
  <2>3. CASE k \notin DOMAIN events
    <3>1. Settled(id, End)
      BY <1>6, <2>1, <2>3 DEF ComesLate
    <3>2. PICK n \in Nat : n = End
      BY <1>1
    <3>3. Settled(id, n) /\ n <= k
      BY <1>4, <2>3, <3>1, <3>2
    <3> QED BY <1>1, <1>4, <3>3, SettledOn
  <2> QED BY <2>2, <2>3
<1>7. EchoIsLate'
  <2>1. (\A k \in DOMAIN events, j \in DOMAIN lines :
          events[k].kind = "message" /\ Sent(lines[j]) /\ events[k].of = lines[j].of
            /\ events[k].text = lines[j].text =>
          \E id \in DOMAIN following : following[id] = j /\ Settled(id, k))'
    BY <1>5 DEF Sent
  <2>2. (\A k, i \in DOMAIN events :
          events[k].kind = "message" /\ Waits(events[i]) /\ events[k].of = events[i].of
            /\ events[k].text = events[i].text => Settled(events[i].id, k))'
    <3> SUFFICES ASSUME NEW k \in DOMAIN events', NEW i \in DOMAIN events',
                        events'[k].kind = "message", Waits(events'[i]),
                        events'[k].of = events'[i].of, events'[k].text = events'[i].text
                 PROVE  Settled(events[i].id, k)'
      BY DEF Waits
    <3>1. PICK id : id = events'[i].id
      OBVIOUS
    <3>2. Settled(id, k)'
      BY <1>6, <3>1
    <3> QED BY <3>1, <3>2 DEF Settled, Settles
  <2> QED BY <2>1, <2>2, Zenon DEF EchoIsLate
<1> QED BY <1>2, <1>3, <1>7

(* The line a message makes first belongs to it while it is pending, if    *)
(* the server left its words alone.                                        *)
LEMMA EchoBelongs ==
  ASSUME TypeOK, LabelInv, worker.up, toClient # <<>>, NEW i \in DOMAIN worker.pending,
         Head(toClient).kind = "text", Head(toClient).of = worker.pending[i].of,
         Head(toClient).text = worker.pending[i].text
  PROVE  Belongs(worker, Head(toClient), worker.pending[i])
<1> DEFINE m == Head(toClient)
           p == worker.pending[i]
<1>1. m = toClient[1] /\ 1 \in DOMAIN toClient /\ DOMAIN toClient \subseteq Nat \ {0}
  <2>1. toClient \in Seq(Links)
    BY LinkTypes
  <2> QED BY <2>1, TailCases
<1>2. EchoesOnWay /\ BatchOnWay /\ PlainOnWay
  BY DEF LabelInv
<1>3. ComesOf(m, p)
  BY <1>1, <1>2 DEF EchoesOnWay
<1>4. m.target = p.target /\ m.label \in {0, p.label} /\ m.batch \in {0, p.label}
  BY <1>3 DEF ComesOf
<1>5. m.batch # 0 => p.label = m.batch /\ m.batch \in ToSet(worker.batches)
  BY <1>1, <1>2, <1>4 DEF BatchOnWay
<1>6. m.label = 0 /\ m.batch = 0 /\ p.label # 0 => ~Labeled(worker)
  <2>1. m.label = 0 /\ m.batch = 0 /\ p.label # 0 => OffFrom(1)
    BY <1>1, <1>2 DEF PlainOnWay
  <2>2. OffFrom(1) => ~Labeled(worker)
    BY <1>1 DEF OffFrom
  <2> QED BY <2>1, <2>2
<1>7. LabelOf(worker, m) = IF m.label # 0 THEN m.label
                           ELSE IF m.batch # 0 /\ m.batch \in ToSet(worker.batches) THEN m.batch ELSE 0
  BY DEF LabelOf
<1>8. m.kind = "text" /\ m.text = p.text
  OBVIOUS
<1> HIDE DEF m, p
<1>9. Belongs(worker, m, p)
  <2>1. CASE m.label # 0
    BY <1>4, <1>7, <1>8, <2>1 DEF Belongs
  <2>2. CASE m.label = 0 /\ m.batch # 0
    BY <1>4, <1>5, <1>7, <1>8, <2>2 DEF Belongs
  <2>3. CASE m.label = 0 /\ m.batch = 0
    BY <1>4, <1>6, <1>7, <1>8, <2>3 DEF Belongs, Resembles
  <2> QED BY <2>1, <2>2, <2>3
<1> QED BY <1>9 DEF m, p

(* What the window waits for is pending under its words. *)
LEMMA OpenIsPending ==
  ASSUME TypeOK, WaitInv, worker.up, NEW id \in Open(End)
  PROVE  \E i \in DOMAIN worker.pending :
           /\ worker.pending[i].id = id
           /\ id \in DOMAIN following =>
                /\ lines[following[id]].of = worker.pending[i].of
                /\ lines[following[id]].text = worker.pending[i].text
           /\ \A j \in DOMAIN events : Waits(events[j]) /\ events[j].id = id =>
                events[j].of = worker.pending[i].of /\ events[j].text = worker.pending[i].text
<1>1. PICK i \in DOMAIN worker.pending : worker.pending[i].id = id
  BY DEF WaitInv, PendingInv, OpenPending
<1>2. PICK p : p = worker.pending[i]
  OBVIOUS
<1>3. Known(id, p.of, p.target, p.text, End)
  BY <1>1, <1>2 DEF WaitInv, PendingInv, PendingKnown
<1>4. /\ \A n \in DOMAIN following : n \in Nat
      /\ \A j \in DOMAIN events : events[j].id \in Nat /\ j \in Nat
  BY TypedOnLines DEF TypeOK, Told
<1>5. \A n \in DOMAIN following, j \in DOMAIN events : Waits(events[j]) => n < events[j].id
  BY DEF WaitInv, IdsInv
<1>6. ASSUME NEW j \in DOMAIN events, NEW k \in DOMAIN events, Waits(events[j]), Waits(events[k]),
             events[j].id = events[k].id
      PROVE  j = k
  BY <1>4, <1>6 DEF WaitInv, IdsInv
<1>7. CASE id \in DOMAIN following /\ Says3(lines[following[id]], p.of, p.target, p.text)
  <2>1. \A j \in DOMAIN events : ~(Waits(events[j]) /\ events[j].id = id)
    BY <1>4, <1>5, <1>7
  <2> QED BY <1>1, <1>2, <1>7, <2>1 DEF Says3
<1>8. CASE \E j \in DOMAIN events :
              Waits(events[j]) /\ events[j].id = id /\ Says3(events[j], p.of, p.target, p.text)
  <2>1. PICK j \in DOMAIN events :
              Waits(events[j]) /\ events[j].id = id /\ Says3(events[j], p.of, p.target, p.text)
    BY <1>8
  <2>2. id \notin DOMAIN following
    BY <1>4, <1>5, <2>1
  <2>3. \A k \in DOMAIN events : Waits(events[k]) /\ events[k].id = id => k = j
    BY <1>6, <2>1
  <2> QED BY <1>1, <1>2, <2>1, <2>2, <2>3 DEF Says3
<1> QED BY <1>3, <1>7, <1>8 DEF Known

LEMMA ShownComesLate ==
  ASSUME TypeOK, WaitInv, LabelInv, TwiceInv, worker.up, toClient # <<>>, ShownAsMessage
  PROVE  ComesLate(Head(toClient).of, Head(toClient).text)
<1> DEFINE m == Head(toClient)
<1>1. m = toClient[1] /\ 1 \in DOMAIN toClient /\ m.kind = "text"
  <2>1. toClient \in Seq(Links)
    BY LinkTypes
  <2> QED BY <2>1, TailCases DEF ShownAsMessage
<1>2. \A i \in DOMAIN worker.pending :
         ~(m.of = worker.pending[i].of /\ m.text = worker.pending[i].text)
  BY <1>1, EchoBelongs DEF ShownAsMessage
<1> HIDE DEF m
<1>3. ASSUME NEW j \in DOMAIN lines, Sent(lines[j]), m.of = lines[j].of, m.text = lines[j].text
      PROVE  \E id \in DOMAIN following : following[id] = j /\ Settled(id, End)
  <2>1. PICK id \in DOMAIN following : following[id] = j
    BY <1>1, <1>3 DEF TwiceInv, NothingComes
  <2>2. SUFFICES ASSUME ~Settled(id, End) PROVE FALSE
    BY <2>1
  <2>3. id \in Open(End)
    BY <2>2 DEF Open
  <2> QED BY <1>2, <1>3, <2>1, <2>3, OpenIsPending
<1>4. ASSUME NEW i \in DOMAIN events, Waits(events[i]), m.of = events[i].of, m.text = events[i].text
      PROVE  Settled(events[i].id, End)
  <2>1. SUFFICES ASSUME ~Settled(events[i].id, End) PROVE FALSE
    OBVIOUS
  <2>2. i < End
    BY TypedOnLines DEF End
  <2>3. events[i].id \in Open(End)
    BY <1>4, <2>1, <2>2 DEF Open
  <2> QED BY <1>2, <1>4, <2>3, OpenIsPending
<1> QED BY <1>3, <1>4 DEF ComesLate, m

LEMMA ReceiveTwice ==
  ASSUME TypeOK, WaitInv, BoundsInv, LabelInv, TwiceInv, Receive
  PROVE  TwiceInv'
<1>1. /\ ToldOn /\ Taken
      /\ \A i \in DOMAIN toServer' :
              \/ i \in DOMAIN toServer /\ toServer'[i] = toServer[i]
              \/ toServer'[i].kind = "req" /\ toServer'[i].of = 0 /\ toServer'[i].label = 0
  BY ReceiveTells DEF WaitInv
<1>2. worker.up /\ toClient # <<>> /\ toClient' = Tail(toClient) /\ UNCHANGED <<lines, following>>
  BY <1>1 DEF Taken, windowVars
<1>3. \A i \in DOMAIN events' : i \notin DOMAIN events =>
            /\ i \in Nat /\ i > Len(events) /\ events'[i].kind # "accepted"
            /\ events'[i].kind = "message" => ComesLate(events'[i].of, events'[i].text)
  <2> SUFFICES ASSUME NEW i \in DOMAIN events', i \notin DOMAIN events
               PROVE  /\ i \in Nat /\ i > Len(events) /\ events'[i].kind # "accepted"
                      /\ events'[i].kind = "message" => ComesLate(events'[i].of, events'[i].text)
    OBVIOUS
  <2>1. i \in Nat
    <3>1. events' \in Seq(Told)
      BY ReceiveTyped DEF TypeOK, WaitInv
    <3> QED BY <3>1
  <2>2. PICK of, text : of = Head(toClient).of /\ text = Head(toClient).text
    OBVIOUS
  <2>3. ShownAsMessage => ComesLate(of, text)
    BY <1>2, <2>2, ShownComesLate
  <2>4. /\ i > Len(events)
        /\ \/ Settles(events'[i])
           \/ events'[i].kind = "message" /\ ShownAsMessage /\ events'[i].of = of /\ events'[i].text = text
    BY <1>1, <2>2 DEF ToldOn
  <2> QED BY <2>1, <2>3, <2>4 DEF Settles
<1>4. NeverTwice' /\ SentIsOwn' /\ ToldOnce' /\ EchoIsLate'
  <2>1. \A i \in DOMAIN events : i \in DOMAIN events' /\ events'[i] = events[i]
    BY <1>1 DEF ToldOn
  <2> QED BY <1>2, <1>3, <2>1, TellingKeepsTwice DEF TwiceInv
<1>5. NothingComes'
  <2>1. \A i \in DOMAIN toClient' : i + 1 \in DOMAIN toClient /\ toClient'[i] = toClient[i + 1]
    <3>1. toClient \in Seq(Links)
      BY LinkTypes
    <3> QED BY <1>2, <3>1, TailCases
  <2>2. \A j \in DOMAIN lines : Sent(lines[j]) => lines[j].of # 0
    BY DEF Sent, BoundsInv, OfBounds
  <2> QED BY <1>1, <1>2, <2>1, <2>2 DEF TwiceInv, NothingComes, Sent
<1> QED BY <1>4, <1>5 DEF TwiceInv

LEMMA ExpireTwice ==
  ASSUME TypeOK, TwiceInv, Expire
  PROVE  TwiceInv'
<1>1. /\ Leaves(1, Failed(worker.pending[1]))
      /\ UNCHANGED <<toServer, toClient, lines, following>>
  BY ExpireIs DEF windowVars
<1>2. PICK e \in Told : e.kind \in {"confirmed", "failed"} /\ events' = Append(events, e)
  BY <1>1 DEF Leaves, Settles
<1>3. events \in Seq(Told)
  BY LinkTypes
<1>4. /\ \A i \in DOMAIN events : i \in DOMAIN events' /\ events'[i] = events[i]
      /\ \A i \in DOMAIN events' : \/ i \in DOMAIN events
                                   \/ i = Len(events) + 1 /\ events'[i] = e
      /\ Len(events) \in Nat
  BY <1>2, <1>3, AppendCases
<1>5. NeverTwice' /\ SentIsOwn' /\ ToldOnce' /\ EchoIsLate'
  BY <1>1, <1>2, <1>4, TellingKeepsTwice DEF TwiceInv
<1>6. NothingComes'
  BY <1>1 DEF TwiceInv, NothingComes, Sent
<1> QED BY <1>5, <1>6 DEF TwiceInv

LEMMA LinkEndsTwice ==
  ASSUME TypeOK, TwiceInv, LinkEnds
  PROVE  TwiceInv'
<1>1. /\ events' = Append(events, NoMore) /\ toServer' = <<>> /\ toClient' = <<>>
      /\ UNCHANGED <<lines, following>>
  BY DEF LinkEnds, windowVars
<1>2. NoMore \in Told /\ NoMore.kind = "disconnected"
  BY EventTypes DEF NoMore
<1>3. events \in Seq(Told)
  BY LinkTypes
<1>4. /\ \A i \in DOMAIN events : i \in DOMAIN events' /\ events'[i] = events[i]
      /\ \A i \in DOMAIN events' : \/ i \in DOMAIN events
                                   \/ i = Len(events) + 1 /\ events'[i] = NoMore
      /\ Len(events) \in Nat
  BY <1>1, <1>2, <1>3, AppendCases
<1>5. NeverTwice' /\ SentIsOwn' /\ ToldOnce' /\ EchoIsLate'
  BY <1>1, <1>2, <1>4, TellingKeepsTwice DEF TwiceInv
<1>6. NothingComes'
  BY <1>1 DEF NothingComes
<1> QED BY <1>5, <1>6 DEF TwiceInv

LEMMA ConnectTwice ==
  ASSUME TwiceInv, Connect
  PROVE  TwiceInv'
<1>1. /\ events' = <<>> /\ toServer' = <<>> /\ toClient' = <<>> /\ UNCHANGED lines
  BY DEF Connect
<1>2. DOMAIN events' = {} /\ DOMAIN toServer' = {} /\ DOMAIN toClient' = {}
  BY <1>1
<1> QED BY <1>1, <1>2 DEF TwiceInv, NeverTwice, SentIsOwn, ToldOnce, EchoIsLate, NothingComes

LEMMA SendTwice ==
  ASSUME TypeOK, BoundsInv, TwiceInv, NEW target \in Targets, NEW text \in Texts,
         NEW written \in BOOLEAN, Send(target, text, written)
  PROVE  TwiceInv'
<1>1. PICK label \in Nat, id \in Nat : SentAs(target, text, label, id)
  BY SentIs
<1>2. UNCHANGED <<toClient, lines, following>>
  BY SendIs DEF SendsOn, windowVars
<1>3. /\ sends \in Nat
      /\ \A i \in DOMAIN lines : lines[i].of \in Nat /\ lines[i].of <= sends
      /\ \A i \in DOMAIN events : events[i].of \in Nat /\ events[i].of <= sends
      /\ DOMAIN events = 1..Len(events) /\ Len(events) \in Nat
  BY LinkTypes, TypedOnLines DEF BoundsInv, OfBounds
<1>4. /\ \A i \in DOMAIN events : i \in DOMAIN events' /\ events'[i] = events[i]
      /\ \A i \in DOMAIN events' :
          \/ i \in DOMAIN events /\ events'[i] = events[i]
          \/ /\ i = Len(events) + 1 /\ events'[i].kind = "accepted" /\ events'[i].of = sends + 1
      /\ \A i \in DOMAIN toServer' :
          \/ i \in DOMAIN toServer /\ toServer'[i] = toServer[i]
          \/ toServer'[i].of = sends + 1
  BY <1>1 DEF SentAs
<1>5. NeverTwice' /\ SentIsOwn'
  BY <1>2 DEF TwiceInv, NeverTwice, SentIsOwn
<1>6. ToldOnce'
  <2>1. \A i \in DOMAIN lines, k \in DOMAIN events' :
          events'[k].kind = "accepted" => lines[i].of # events'[k].of
    BY <1>3, <1>4 DEF TwiceInv, ToldOnce
  <2>2. ASSUME NEW i \in DOMAIN events', NEW k \in DOMAIN events', events'[k].kind = "accepted",
               events'[i].kind \in {"message", "accepted"}, i < k
        PROVE  events'[i].of # events'[k].of
    <3>1. i \in DOMAIN events /\ events'[i] = events[i]
      BY <1>3, <1>4, <2>2
    <3> QED BY <1>3, <1>4, <2>2, <3>1 DEF TwiceInv, ToldOnce
  <2> QED BY <1>2, <2>1, <2>2 DEF ToldOnce
<1>7. EchoIsLate'
  <2>1. ASSUME NEW k \in DOMAIN events', events'[k].kind = "message"
        PROVE  k \in DOMAIN events /\ events'[k] = events[k] /\ k \in Nat
               /\ \A n : Settled(n, k) => Settled(n, k)'
    <3>1. k \in DOMAIN events /\ events'[k] = events[k] /\ k \in Nat
      BY <1>3, <1>4, <2>1
    <3> QED BY <1>3, <1>4, <3>1, SettledOn
  <2>2. (\A k \in DOMAIN events, j \in DOMAIN lines :
          events[k].kind = "message" /\ Sent(lines[j]) /\ events[k].of = lines[j].of
            /\ events[k].text = lines[j].text =>
          \E n \in DOMAIN following : following[n] = j /\ Settled(n, k))'
    BY <1>2, <2>1 DEF TwiceInv, EchoIsLate, Sent
  <2>3. (\A k, i \in DOMAIN events :
          events[k].kind = "message" /\ Waits(events[i]) /\ events[k].of = events[i].of
            /\ events[k].text = events[i].text => Settled(events[i].id, k))'
    <3> SUFFICES ASSUME NEW k \in DOMAIN events', NEW i \in DOMAIN events',
                        events'[k].kind = "message", Waits(events'[i]),
                        events'[k].of = events'[i].of, events'[k].text = events'[i].text
                 PROVE  Settled(events[i].id, k)'
      BY DEF Waits
    <3>1. PICK n : n = events'[i].id
      OBVIOUS
    <3>2. i \in DOMAIN events /\ events'[i] = events[i]
      BY <1>3, <1>4, <2>1
    <3>3. Settled(n, k)
      BY <2>1, <3>1, <3>2 DEF TwiceInv, EchoIsLate
    <3>4. Settled(n, k)'
      BY <2>1, <3>3
    <3> QED BY <3>1, <3>4 DEF Settled, Settles
  <2> QED BY <2>2, <2>3, Zenon DEF EchoIsLate
<1>8. NothingComes'
  BY <1>2, <1>3, <1>4 DEF TwiceInv, NothingComes, Sent
<1> QED BY <1>5, <1>6, <1>7, <1>8 DEF TwiceInv

LEMMA ServerTwice ==
  ASSUME TypeOK, LinkInv, BoundsInv, TwiceInv, ServerStep
  PROVE  TwiceInv'
<1>1. PICK s : Speaks(s)
  BY ServerSpeaks
<1>2. /\ UNCHANGED <<events, lines, following>> /\ toClient \in Seq(Links) /\ toServer \in Seq(Links)
      /\ toServer' = toServer \/ (toServer # <<>> /\ toServer' = Tail(toServer))
  BY ServerTyped, ServerSpeaks, LinkTypes DEF windowVars
<1>3. NeverTwice' /\ SentIsOwn' /\ ToldOnce'
  BY <1>2 DEF TwiceInv, NeverTwice, SentIsOwn, ToldOnce
<1>4. EchoIsLate'
  BY <1>2 DEF TwiceInv, EchoIsLate, Settled, Settles, Waits, Sent
<1>5. \A i \in DOMAIN toServer' : \E j \in DOMAIN toServer : toServer'[i] = toServer[j]
  <2>1. CASE toServer' = toServer
    BY <2>1
  <2>2. CASE toServer # <<>> /\ toServer' = Tail(toServer)
    <3>1. \A i \in DOMAIN toServer' : i + 1 \in DOMAIN toServer /\ toServer'[i] = toServer[i + 1]
      BY <1>2, <2>2, TailCases
    <3> QED BY <3>1
  <2> QED BY <1>2, <2>1, <2>2
<1>6. \A i \in DOMAIN s :
         s[i].of = 0 \/ \E j \in DOMAIN toServer : s[i].of = toServer[j].of
  <2> TAKE i \in DOMAIN s
  <2>1. toServer # <<>> => 1 \in DOMAIN toServer /\ Head(toServer) = toServer[1]
    BY <1>2, TailCases
  <2>2. FromMessage(s[i]) \/ NoMessage(s[i]) \/ OtherClients(s[i])
    BY <1>1 DEF Speaks
  <2> QED BY <2>1, <2>2 DEF FromMessage, NoMessage, OtherClients
<1>7. \A i \in DOMAIN toClient' :
         \/ i \in DOMAIN toClient /\ toClient'[i] = toClient[i]
         \/ \E j \in DOMAIN s : toClient'[i] = s[j]
  BY <1>1, <1>2, SpokenIs
<1>8. \A j \in DOMAIN lines : Sent(lines[j]) => lines[j].of # 0
  BY DEF Sent, BoundsInv, OfBounds
<1>9. NothingComes'
  <2> SUFFICES ASSUME NEW j \in DOMAIN lines, Sent(lines[j]),
                      \A id \in DOMAIN following : following[id] # j
               PROVE  /\ \A i \in DOMAIN toServer' : toServer'[i].of # lines[j].of
                      /\ \A i \in DOMAIN toClient' : toClient'[i].of # lines[j].of
    BY <1>2 DEF NothingComes, Sent
  <2>1. /\ \A i \in DOMAIN toServer : toServer[i].of # lines[j].of
        /\ \A i \in DOMAIN toClient : toClient[i].of # lines[j].of
    BY DEF TwiceInv, NothingComes
  <2> QED BY <1>5, <1>6, <1>7, <1>8, <2>1
<1> QED BY <1>3, <1>4, <1>9 DEF TwiceInv

LEMMA FollowsTwice ==
  ASSUME TypeOK, WaitInv, TwiceInv, HandlesFirst, Follows
  PROVE  TwiceInv'
<1> DEFINE e == events[1]
<1>1. /\ Head(events) = e /\ 1 \in DOMAIN events
      /\ \A i \in DOMAIN events' : i \in Nat \ {0} /\ i + 1 \in DOMAIN events /\ events'[i] = events[i + 1]
  BY FirstGoes
<1>2. /\ Waits(e) /\ ~Settles(e) /\ lines' = Append(lines, Shown(e, TRUE, "sent"))
      /\ DOMAIN following' = DOMAIN following \cup {e.id}
      /\ following'[e.id] = Len(lines) + 1
      /\ \A id \in DOMAIN following : id # e.id => following'[id] = following[id]
      /\ UNCHANGED <<toServer, toClient>>
  BY <1>1 DEF Follows, LinesGrow, Waits, Settles, HandlesFirst
<1>3. e.id \notin DOMAIN following
  <2> SUFFICES ASSUME e.id \in DOMAIN following PROVE FALSE
    OBVIOUS
  <2>1. e.id < e.id /\ e.id \in Nat
    BY <1>1, <1>2, IdTypes DEF WaitInv, IdsInv
  <2> QED BY <2>1
<1> DEFINE n == Len(lines) + 1
<1>4. PICK l : l = Shown(e, TRUE, "sent")
  OBVIOUS
<1>5. /\ l.of = e.of /\ l.text = e.text /\ l.id = e.id /\ l.own /\ l.status = "sent"
  BY <1>4 DEF Shown
<1>6. /\ DOMAIN lines = 1..Len(lines) /\ Len(lines) \in Nat /\ n \notin DOMAIN lines
      /\ n \in DOMAIN lines' /\ lines'[n] = l
      /\ \A j \in DOMAIN lines : j \in DOMAIN lines' /\ lines'[j] = lines[j]
      /\ \A j \in DOMAIN lines' : j = n \/ j \in DOMAIN lines
  <2>1. lines \in Seq(Lines) /\ lines' = Append(lines, l)
    BY <1>2, <1>4, TypedOnLines
  <2> QED BY <2>1
<1> HIDE DEF e, n
<1>7. e.kind = "accepted" /\ e.id # 0
  BY <1>2 DEF Waits
<1>8. NeverTwice'
  <2>1. \A i \in DOMAIN lines : lines[i].of # e.of
    BY <1>1, <1>7 DEF TwiceInv, ToldOnce, e
  <2> QED BY <1>5, <1>6, <2>1 DEF TwiceInv, NeverTwice
<1>9. SentIsOwn'
  BY <1>5, <1>6 DEF TwiceInv, SentIsOwn
<1>10. ToldOnce'
  <2>1. \A i \in DOMAIN lines', k \in DOMAIN events' :
          events'[k].kind = "accepted" => lines'[i].of # events'[k].of
    <3> SUFFICES ASSUME NEW i \in DOMAIN lines', NEW k \in DOMAIN events',
                        events'[k].kind = "accepted"
                 PROVE  lines'[i].of # events'[k].of
      OBVIOUS
    <3>1. k + 1 \in DOMAIN events /\ events'[k] = events[k + 1] /\ 1 < k + 1
      BY <1>1
    <3>2. e.of # events[k + 1].of
      BY <1>1, <1>7, <3>1 DEF TwiceInv, ToldOnce, e
    <3> QED BY <1>5, <1>6, <3>1, <3>2 DEF TwiceInv, ToldOnce
  <2>2. ASSUME NEW i \in DOMAIN events', NEW k \in DOMAIN events', events'[k].kind = "accepted",
               events'[i].kind \in {"message", "accepted"}, i < k
        PROVE  events'[i].of # events'[k].of
    <3>1. /\ k + 1 \in DOMAIN events /\ events'[k] = events[k + 1]
          /\ i + 1 \in DOMAIN events /\ events'[i] = events[i + 1] /\ i + 1 < k + 1
      BY <1>1, <2>2
    <3> QED BY <2>2, <3>1 DEF TwiceInv, ToldOnce
  <2> QED BY <2>1, <2>2 DEF ToldOnce
<1>11. ASSUME NEW k \in DOMAIN events'
       PROVE  /\ k \in Nat \ {0} /\ k + 1 \in DOMAIN events /\ events'[k] = events[k + 1]
              /\ \A id : Settled(id, k + 1) => Settled(id, k)'
  <2>1. k \in Nat \ {0} /\ k + 1 \in DOMAIN events /\ events'[k] = events[k + 1]
    BY <1>1
  <2> QED BY <1>2, <2>1, SettledMovesUp DEF e
<1>12. EchoIsLate'
  <2>1. ASSUME NEW k \in DOMAIN events', NEW j \in DOMAIN lines',
               events'[k].kind = "message", Sent(lines'[j]), events'[k].of = lines'[j].of,
               events'[k].text = lines'[j].text
        PROVE  \E id \in DOMAIN following' : following'[id] = j /\ Settled(id, k)'
    <3>1. CASE j \in DOMAIN lines
      <4>1. PICK id \in DOMAIN following : following[id] = j /\ Settled(id, k + 1)
        BY <1>6, <1>11, <2>1, <3>1 DEF TwiceInv, EchoIsLate
      <4> QED BY <1>2, <1>3, <1>11, <4>1
    <3>2. CASE j = n
      <4>1. Settled(e.id, k + 1)
        <5>1. /\ k + 1 \in DOMAIN events /\ events[k + 1].kind = "message"
              /\ events[k + 1].of = e.of /\ events[k + 1].text = e.text
          BY <1>5, <1>6, <1>11, <2>1, <3>2
        <5>2. 1 \in DOMAIN events /\ Waits(events[1]) /\ e = events[1]
          BY <1>1, <1>2 DEF e
        <5> QED BY <5>1, <5>2 DEF TwiceInv, EchoIsLate
      <4>2. PICK id : id = e.id
        OBVIOUS
      <4>3. Settled(id, k)' /\ id \in DOMAIN following' /\ following'[id] = j
        BY <1>2, <1>11, <3>2, <4>1, <4>2 DEF n
      <4> QED BY <4>3
    <3> QED BY <1>6, <3>1, <3>2
  <2>2. ASSUME NEW k \in DOMAIN events', NEW i \in DOMAIN events',
               events'[k].kind = "message", Waits(events'[i]),
               events'[k].of = events'[i].of, events'[k].text = events'[i].text,
               NEW id, id = events'[i].id
        PROVE  Settled(id, k)'
    BY <1>11, <2>2 DEF TwiceInv, EchoIsLate
  <2>3. (\A k \in DOMAIN events, j \in DOMAIN lines :
          events[k].kind = "message" /\ Sent(lines[j]) /\ events[k].of = lines[j].of
            /\ events[k].text = lines[j].text =>
          \E id \in DOMAIN following : following[id] = j /\ Settled(id, k))'
    BY <2>1 DEF Sent
  <2>4. (\A k, i \in DOMAIN events :
          events[k].kind = "message" /\ Waits(events[i]) /\ events[k].of = events[i].of
            /\ events[k].text = events[i].text => Settled(events[i].id, k))'
    <3> SUFFICES ASSUME NEW k \in DOMAIN events', NEW i \in DOMAIN events',
                        events'[k].kind = "message", Waits(events'[i]),
                        events'[k].of = events'[i].of, events'[k].text = events'[i].text
                 PROVE  Settled(events[i].id, k)'
      BY DEF Waits
    <3>1. PICK id : id = events'[i].id
      OBVIOUS
    <3>2. Settled(id, k)'
      BY <2>2, <3>1
    <3> QED BY <3>1, <3>2 DEF Settled, Settles
  <2> QED BY <2>3, <2>4, Zenon DEF EchoIsLate
<1>13. NothingComes'
  <2> SUFFICES ASSUME NEW j \in DOMAIN lines', Sent(lines'[j]),
                      \A id \in DOMAIN following' : following'[id] # j
               PROVE  /\ \A i \in DOMAIN toServer : toServer[i].of # lines'[j].of
                      /\ \A i \in DOMAIN toClient : toClient[i].of # lines'[j].of
    BY <1>2 DEF NothingComes, Sent
  <2>1. j # n
    BY <1>2 DEF n
  <2>2. j \in DOMAIN lines /\ lines'[j] = lines[j] /\ \A id \in DOMAIN following : following[id] # j
    BY <1>2, <1>3, <1>6, <2>1
  <2> QED BY <2>2 DEF TwiceInv, NothingComes
<1> QED BY <1>8, <1>9, <1>10, <1>12, <1>13 DEF TwiceInv

LEMMA AddsTwice ==
  ASSUME TypeOK, WaitInv, TwiceInv, HandlesFirst, Adds
  PROVE  TwiceInv'
<1> DEFINE e == events[1]
<1>1. /\ Head(events) = e /\ 1 \in DOMAIN events
      /\ \A i \in DOMAIN events' : i \in Nat \ {0} /\ i + 1 \in DOMAIN events /\ events'[i] = events[i + 1]
  BY FirstGoes
<1> DEFINE n == Len(lines) + 1
<1>2. PICK l : /\ lines' = Append(lines, l) /\ l.of = e.of /\ l.text = e.text
               /\ \/ e.kind = "accepted" /\ l.id = 0 /\ l.own /\ l.status = "sent"
                  \/ e.kind = "message" /\ ~l.own /\ l.status = "received"
  <2>1. CASE e.kind = "accepted" /\ e.id = 0 /\ LinesGrow(Shown(e, TRUE, "sent"))
    <3>1. PICK l : l = Shown(e, TRUE, "sent")
      OBVIOUS
    <3>2. /\ lines' = Append(lines, l) /\ l.of = e.of /\ l.text = e.text
          /\ l.id = 0 /\ l.own /\ l.status = "sent"
      BY <2>1, <3>1 DEF LinesGrow, Shown
    <3> QED BY <2>1, <3>2
  <2>2. CASE e.kind = "message" /\ LinesGrow(Shown(e, FALSE, "received"))
    <3>1. PICK l : l = Shown(e, FALSE, "received")
      OBVIOUS
    <3>2. /\ lines' = Append(lines, l) /\ l.of = e.of /\ l.text = e.text
          /\ ~l.own /\ l.status = "received"
      BY <2>2, <3>1 DEF LinesGrow, Shown
    <3> QED BY <2>2, <3>2
  <2> QED BY <1>1, <2>1, <2>2 DEF Adds
<1>3. ~Settles(e) /\ following' = following /\ UNCHANGED <<toServer, toClient>>
      /\ e.kind \in {"accepted", "message"}
  BY <1>1, <1>2 DEF Adds, Settles, HandlesFirst
<1>4. /\ DOMAIN lines = 1..Len(lines) /\ Len(lines) \in Nat /\ n \notin DOMAIN lines
      /\ n \in DOMAIN lines' /\ lines'[n] = l
      /\ \A j \in DOMAIN lines : j \in DOMAIN lines' /\ lines'[j] = lines[j]
      /\ \A j \in DOMAIN lines' : j = n \/ j \in DOMAIN lines
  <2>1. lines \in Seq(Lines) /\ lines' = Append(lines, l)
    BY <1>2, TypedOnLines
  <2> QED BY <2>1
<1> HIDE DEF e, n
<1>5. ~Sent(l)
  BY <1>2 DEF Sent
<1>6. \A k \in DOMAIN events' : \A id : Settled(id, k + 1) => Settled(id, k)'
  <2> TAKE k \in DOMAIN events'
  <2>1. k \in Nat \ {0}
    BY <1>1
  <2> QED BY <1>3, <2>1, SettledMovesUp DEF e
<1>7. NeverTwice'
  <2>1. \A id : ~Settled(id, 1)
    <3>1. \A i \in DOMAIN events : ~(i < 1)
      BY TypedOnLines
    <3> QED BY <3>1 DEF Settled
  <2>2. ASSUME NEW j \in DOMAIN lines, e.kind = "message", lines[j].status = "sent",
               lines[j].id # 0, e.of = lines[j].of, e.text = lines[j].text
        PROVE  FALSE
    <3>1. Sent(lines[j])
      BY <2>2 DEF Sent, TwiceInv, SentIsOwn
    <3> QED BY <1>1, <2>1, <2>2, <3>1 DEF TwiceInv, EchoIsLate, e
  <2> QED BY <1>2, <1>4, <2>2 DEF TwiceInv, NeverTwice
<1>8. SentIsOwn'
  BY <1>2, <1>4 DEF TwiceInv, SentIsOwn
<1>9. ToldOnce'
  <2>1. \A i \in DOMAIN lines', k \in DOMAIN events' :
          events'[k].kind = "accepted" => lines'[i].of # events'[k].of
    <3> SUFFICES ASSUME NEW i \in DOMAIN lines', NEW k \in DOMAIN events',
                        events'[k].kind = "accepted"
                 PROVE  lines'[i].of # events'[k].of
      OBVIOUS
    <3>1. k + 1 \in DOMAIN events /\ events'[k] = events[k + 1] /\ 1 < k + 1
      BY <1>1
    <3>2. e.of # events[k + 1].of
      BY <1>1, <1>3, <3>1 DEF TwiceInv, ToldOnce, e
    <3> QED BY <1>2, <1>4, <3>1, <3>2 DEF TwiceInv, ToldOnce
  <2>2. ASSUME NEW i \in DOMAIN events', NEW k \in DOMAIN events', events'[k].kind = "accepted",
               events'[i].kind \in {"message", "accepted"}, i < k
        PROVE  events'[i].of # events'[k].of
    <3>1. /\ k + 1 \in DOMAIN events /\ events'[k] = events[k + 1]
          /\ i + 1 \in DOMAIN events /\ events'[i] = events[i + 1] /\ i + 1 < k + 1
      BY <1>1, <2>2
    <3> QED BY <2>2, <3>1 DEF TwiceInv, ToldOnce
  <2> QED BY <2>1, <2>2 DEF ToldOnce
<1>10. EchoIsLate'
  <2>1. ASSUME NEW k \in DOMAIN events', NEW j \in DOMAIN lines',
               events'[k].kind = "message", Sent(lines'[j]), events'[k].of = lines'[j].of,
               events'[k].text = lines'[j].text
        PROVE  \E id \in DOMAIN following' : following'[id] = j /\ Settled(id, k)'
    <3>1. j \in DOMAIN lines
      BY <1>4, <1>5, <2>1
    <3>2. PICK id \in DOMAIN following : following[id] = j /\ Settled(id, k + 1)
      BY <1>1, <1>4, <2>1, <3>1 DEF TwiceInv, EchoIsLate
    <3> QED BY <1>3, <1>6, <3>2
  <2>2. ASSUME NEW k \in DOMAIN events', NEW i \in DOMAIN events',
               events'[k].kind = "message", Waits(events'[i]),
               events'[k].of = events'[i].of, events'[k].text = events'[i].text,
               NEW id, id = events'[i].id
        PROVE  Settled(id, k)'
    BY <1>1, <1>6, <2>2 DEF TwiceInv, EchoIsLate
  <2>3. (\A k \in DOMAIN events, j \in DOMAIN lines :
          events[k].kind = "message" /\ Sent(lines[j]) /\ events[k].of = lines[j].of
            /\ events[k].text = lines[j].text =>
          \E id \in DOMAIN following : following[id] = j /\ Settled(id, k))'
    BY <2>1 DEF Sent
  <2>4. (\A k, i \in DOMAIN events :
          events[k].kind = "message" /\ Waits(events[i]) /\ events[k].of = events[i].of
            /\ events[k].text = events[i].text => Settled(events[i].id, k))'
    <3> SUFFICES ASSUME NEW k \in DOMAIN events', NEW i \in DOMAIN events',
                        events'[k].kind = "message", Waits(events'[i]),
                        events'[k].of = events'[i].of, events'[k].text = events'[i].text
                 PROVE  Settled(events[i].id, k)'
      BY DEF Waits
    <3>1. PICK id : id = events'[i].id
      OBVIOUS
    <3>2. Settled(id, k)'
      BY <2>2, <3>1
    <3> QED BY <3>1, <3>2 DEF Settled, Settles
  <2> QED BY <2>3, <2>4, Zenon DEF EchoIsLate
<1>11. NothingComes'
  <2> SUFFICES ASSUME NEW j \in DOMAIN lines', Sent(lines'[j]),
                      \A id \in DOMAIN following : following[id] # j
               PROVE  /\ \A i \in DOMAIN toServer : toServer[i].of # lines'[j].of
                      /\ \A i \in DOMAIN toClient : toClient[i].of # lines'[j].of
    BY <1>3 DEF NothingComes, Sent
  <2>1. j \in DOMAIN lines /\ lines'[j] = lines[j]
    BY <1>4, <1>5
  <2> QED BY <2>1 DEF TwiceInv, NothingComes
<1> QED BY <1>7, <1>8, <1>9, <1>10, <1>11 DEF TwiceInv

LEMMA ConcludesTwice ==
  ASSUME TypeOK, WaitInv, TwiceInv, HandlesFirst, Concludes
  PROVE  TwiceInv'
<1> DEFINE e == events[1]
           n == following[e.id]
<1>1. /\ Head(events) = e /\ 1 \in DOMAIN events
      /\ \A i \in DOMAIN events' : i \in Nat \ {0} /\ i + 1 \in DOMAIN events /\ events'[i] = events[i + 1]
  BY FirstGoes
<1>2. /\ Settles(e) /\ e.id \in DOMAIN following
      /\ DOMAIN following' = DOMAIN following \ {e.id}
      /\ \A id \in DOMAIN following \ {e.id} : following'[id] = following[id]
      /\ DOMAIN lines' = DOMAIN lines
      /\ \A i \in DOMAIN lines : i # n => lines'[i] = lines[i]
      /\ lines'[n].of = lines[n].of
      /\ lines'[n].status \in {"confirmed", "failed"}
      /\ UNCHANGED <<toServer, toClient>>
  BY <1>1 DEF Concludes, HandlesFirst
<1> HIDE DEF e, n
<1>3. ASSUME NEW k \in DOMAIN events', NEW id, id # e.id, Settled(id, k + 1)
      PROVE  Settled(id, k)'
  <2>1. k \in Nat \ {0}
    BY <1>1
  <2> QED BY <1>3, <2>1, SettledMovesUp DEF e
<1>4. NeverTwice' /\ SentIsOwn'
  BY <1>2 DEF TwiceInv, NeverTwice, SentIsOwn
<1>5. ToldOnce'
  <2>1. \A i \in DOMAIN lines', k \in DOMAIN events' :
          events'[k].kind = "accepted" => lines'[i].of # events'[k].of
    <3> SUFFICES ASSUME NEW i \in DOMAIN lines', NEW k \in DOMAIN events',
                        events'[k].kind = "accepted"
                 PROVE  lines'[i].of # events'[k].of
      OBVIOUS
    <3>1. lines'[i].of = lines[i].of /\ i \in DOMAIN lines
      BY <1>2
    <3> QED BY <1>1, <3>1 DEF TwiceInv, ToldOnce
  <2>2. ASSUME NEW i \in DOMAIN events', NEW k \in DOMAIN events', events'[k].kind = "accepted",
               events'[i].kind \in {"message", "accepted"}, i < k
        PROVE  events'[i].of # events'[k].of
    <3>1. /\ k + 1 \in DOMAIN events /\ events'[k] = events[k + 1]
          /\ i + 1 \in DOMAIN events /\ events'[i] = events[i + 1] /\ i + 1 < k + 1
      BY <1>1, <2>2
    <3> QED BY <2>2, <3>1 DEF TwiceInv, ToldOnce
  <2> QED BY <2>1, <2>2 DEF ToldOnce
<1>6. EchoIsLate'
  <2>1. ASSUME NEW k \in DOMAIN events', NEW j \in DOMAIN lines',
               events'[k].kind = "message", Sent(lines'[j]), events'[k].of = lines'[j].of,
               events'[k].text = lines'[j].text
        PROVE  \E id \in DOMAIN following' : following'[id] = j /\ Settled(id, k)'
    <3>1. j # n /\ j \in DOMAIN lines /\ lines'[j] = lines[j]
      BY <1>2, <2>1 DEF Sent
    <3>2. PICK id \in DOMAIN following : following[id] = j /\ Settled(id, k + 1)
      BY <1>1, <2>1, <3>1 DEF TwiceInv, EchoIsLate
    <3>3. id # e.id
      BY <3>1, <3>2 DEF n
    <3> QED BY <1>2, <1>3, <3>2, <3>3
  <2>2. ASSUME NEW k \in DOMAIN events', NEW i \in DOMAIN events',
               events'[k].kind = "message", Waits(events'[i]),
               events'[k].of = events'[i].of, events'[k].text = events'[i].text,
               NEW id, id = events'[i].id
        PROVE  Settled(id, k)'
    <3>1. Settled(id, k + 1) /\ i + 1 \in DOMAIN events /\ Waits(events[i + 1]) /\ events[i + 1].id = id
      BY <1>1, <2>2 DEF TwiceInv, EchoIsLate
    <3>2. e.id < id /\ e.id \in Nat
      BY <1>2, <3>1, IdTypes DEF WaitInv, IdsInv
    <3>3. id # e.id
      BY <3>2
    <3> QED BY <1>3, <3>1, <3>3
  <2>3. (\A k \in DOMAIN events, j \in DOMAIN lines :
          events[k].kind = "message" /\ Sent(lines[j]) /\ events[k].of = lines[j].of
            /\ events[k].text = lines[j].text =>
          \E id \in DOMAIN following : following[id] = j /\ Settled(id, k))'
    BY <2>1 DEF Sent
  <2>4. (\A k, i \in DOMAIN events :
          events[k].kind = "message" /\ Waits(events[i]) /\ events[k].of = events[i].of
            /\ events[k].text = events[i].text => Settled(events[i].id, k))'
    <3> SUFFICES ASSUME NEW k \in DOMAIN events', NEW i \in DOMAIN events',
                        events'[k].kind = "message", Waits(events'[i]),
                        events'[k].of = events'[i].of, events'[k].text = events'[i].text
                 PROVE  Settled(events[i].id, k)'
      BY DEF Waits
    <3>1. PICK id : id = events'[i].id
      OBVIOUS
    <3>2. Settled(id, k)'
      BY <2>2, <3>1
    <3> QED BY <3>1, <3>2 DEF Settled, Settles
  <2> QED BY <2>3, <2>4, Zenon DEF EchoIsLate
<1>7. NothingComes'
  <2> SUFFICES ASSUME NEW j \in DOMAIN lines', Sent(lines'[j]),
                      \A id \in DOMAIN following' : following'[id] # j
               PROVE  /\ \A i \in DOMAIN toServer : toServer[i].of # lines'[j].of
                      /\ \A i \in DOMAIN toClient : toClient[i].of # lines'[j].of
    BY <1>2 DEF NothingComes, Sent
  <2>1. j # n /\ j \in DOMAIN lines /\ lines'[j] = lines[j]
    BY <1>2 DEF Sent
  <2>2. \A id \in DOMAIN following : following[id] # j
    BY <1>2, <2>1 DEF n
  <2> QED BY <2>1, <2>2 DEF TwiceInv, NothingComes
<1> QED BY <1>4, <1>5, <1>6, <1>7 DEF TwiceInv

LEMMA GivesUpTwice ==
  ASSUME TypeOK, WaitInv, LinkInv, TwiceInv, HandlesFirst, GivesUp
  PROVE  TwiceInv'
<1>1. /\ Head(events) = events[1] /\ 1 \in DOMAIN events /\ Len(events) \in Nat
      /\ DOMAIN events' = 1..(Len(events) - 1)
  BY FirstGoes
<1>2. events[1].kind = "disconnected"
  BY <1>1 DEF GivesUp
<1>3. 1 = Len(events) /\ ~worker.up
  BY <1>1, <1>2 DEF WaitInv, FollowInv, EndIsLast
<1>4. DOMAIN events' = {} /\ toServer' = <<>> /\ toClient' = <<>>
  <2>1. DOMAIN events' = {}
    <3>1. PICK last \in Nat : last = Len(events)
      BY <1>1
    <3>2. last - 1 = 0 /\ DOMAIN events' = 1..(last - 1)
      BY <1>1, <1>3, <3>1
    <3> QED BY <3>2
  <2>2. toServer' = <<>> /\ toClient' = <<>>
    BY <1>3 DEF LinkInv, HandlesFirst
  <2> QED BY <2>1, <2>2
<1>5. /\ DOMAIN lines' = DOMAIN lines
      /\ \A i \in DOMAIN lines : /\ lines'[i].of = lines[i].of /\ lines'[i].text = lines[i].text
                                 /\ lines'[i].id = lines[i].id /\ lines'[i].own = lines[i].own
                                 /\ lines'[i].status \in {lines[i].status, "failed"}
  <2>1. \A i \in DOMAIN lines : lines[i] \in Lines
    BY TypedOnLines
  <2> QED BY <2>1 DEF GivesUp, Lines
<1>6. NeverTwice' /\ SentIsOwn'
  BY <1>5 DEF TwiceInv, NeverTwice, SentIsOwn
<1> QED BY <1>4, <1>6 DEF TwiceInv, ToldOnce, EchoIsLate, NothingComes

LEMMA InitTwice == Init => TwiceInv
<1> SUFFICES ASSUME Init PROVE TwiceInv
  OBVIOUS
<1>1. events = <<>> /\ lines = <<>>
  BY DEF Init
<1>2. DOMAIN events = {} /\ DOMAIN lines = {}
  BY <1>1
<1> QED BY <1>1, <1>2 DEF TwiceInv, NeverTwice, SentIsOwn, ToldOnce, EchoIsLate, NothingComes

(* Every step keeps that no message is shown twice. *)
LEMMA TwiceStep ==
  ASSUME TypeOK, WaitInv, BoundsInv, LabelInv, LinkInv, TwiceInv, [Next]_vars
  PROVE  TwiceInv'
<1>1. CASE \E target \in Targets, text \in Texts, written \in BOOLEAN : Send(target, text, written)
  BY <1>1, SendTwice
<1>2. CASE Receive
  BY <1>2, ReceiveTwice
<1>3. CASE Expire
  BY <1>3, ExpireTwice
<1>4. CASE HandleEvent
  <2>1. HandlesFirst /\ (Follows \/ Adds \/ Concludes \/ GivesUp)
    BY <1>4, HandleIs DEF WaitInv
  <2> QED BY <2>1, FollowsTwice, AddsTwice, ConcludesTwice, GivesUpTwice
<1>5. CASE ServerStep
  BY <1>5, ServerTwice
<1>6. CASE LinkEnds
  BY <1>6, LinkEndsTwice
<1>7. CASE Connect
  BY <1>7, ConnectTwice
<1>8. CASE UNCHANGED <<events, toServer, toClient, lines, following>>
  BY <1>8 DEF TwiceInv, NeverTwice, SentIsOwn, ToldOnce, EchoIsLate, NothingComes, Settled,
              Settles, Waits, Sent
<1> QED BY <1>1, <1>2, <1>3, <1>4, <1>5, <1>6, <1>7, <1>8, NextIs, LoggingChangesNothingElse
        DEF vars, windowVars

-----------------------------------------------------------------------------
(* Nothing is shown that was not delivered. *)

LEMMA FewerOf ==
  ASSUME NEW B, IsFiniteSet(B), NEW A, A \subseteq B
  PROVE  /\ IsFiniteSet(A) /\ Cardinality(A) \in Nat /\ Cardinality(B) \in Nat
         /\ Cardinality(A) <= Cardinality(B)
<1>1. A \in SUBSET B
  OBVIOUS
<1> QED BY <1>1, FS_Subset, FS_CardinalityType

LEMMA OneMoreOf ==
  ASSUME NEW B, IsFiniteSet(B), NEW x, NEW A, A \subseteq B \cup {x}
  PROVE  /\ IsFiniteSet(A) /\ Cardinality(A) \in Nat /\ Cardinality(B) \in Nat
         /\ Cardinality(A) <= Cardinality(B) + 1
<1>1. /\ IsFiniteSet(B \cup {x}) /\ Cardinality(B) \in Nat
      /\ Cardinality(B \cup {x}) = IF x \in B THEN Cardinality(B) ELSE Cardinality(B) + 1
  BY FS_AddElement, FS_CardinalityType
<1>2. IsFiniteSet(A) /\ Cardinality(A) \in Nat /\ Cardinality(A) <= Cardinality(B \cup {x})
  BY <1>1, FewerOf
<1> QED BY <1>1, <1>2

(* What follows the first moves up. *)
LEMMA MovedUp ==
  ASSUME NEW B, IsFiniteSet(B), NEW A, A \subseteq Nat \ {0}, \A i \in A : i + 1 \in B
  PROVE  /\ IsFiniteSet(A) /\ Cardinality(A) \in Nat /\ Cardinality(B) \in Nat
         /\ Cardinality(A) <= Cardinality(B)
         /\ 1 \in B => Cardinality(A) + 1 <= Cardinality(B)
<1> DEFINE C == B \ {1}
           f == [i \in A |-> i + 1]
<1>1. IsFiniteSet(C) /\ Cardinality(B) \in Nat /\ Cardinality(C) \in Nat
      /\ Cardinality(C) = IF 1 \in B THEN Cardinality(B) - 1 ELSE Cardinality(B)
  BY FS_RemoveElement, FS_CardinalityType
<1>2. f \in Injection(A, C)
  BY DEF Injection, IsInjective
<1> HIDE DEF C, f
<1>3. IsFiniteSet(A) /\ Cardinality(A) <= Cardinality(C)
  BY <1>1, <1>2, FS_Injection
<1>4. Cardinality(A) \in Nat
  BY <1>3, FS_CardinalityType
<1> QED BY <1>1, <1>3, <1>4

LEMMA FiniteCounts ==
  ASSUME TypeOK, NEW target, NEW text
  PROVE  /\ IsFiniteSet(ShownOf(target, text)) /\ Cardinality(ShownOf(target, text)) \in Nat
         /\ IsFiniteSet(ToldOf(target, text)) /\ Cardinality(ToldOf(target, text)) \in Nat
         /\ IsFiniteSet(OnWayOf(target, text)) /\ Cardinality(OnWayOf(target, text)) \in Nat
<1>1. /\ DOMAIN lines = 1..Len(lines) /\ Len(lines) \in Nat
      /\ DOMAIN events = 1..Len(events) /\ Len(events) \in Nat
      /\ DOMAIN toClient = 1..Len(toClient) /\ Len(toClient) \in Nat
  BY DEF TypeOK
<1>2. IsFiniteSet(DOMAIN lines) /\ IsFiniteSet(DOMAIN events) /\ IsFiniteSet(DOMAIN toClient)
  BY <1>1, FS_Interval
<1>3. ShownOf(target, text) \subseteq DOMAIN lines
  BY DEF ShownOf
<1>4. ToldOf(target, text) \subseteq DOMAIN events
  BY DEF ToldOf
<1>5. OnWayOf(target, text) \subseteq DOMAIN toClient
  BY DEF OnWayOf
<1> QED BY <1>2, <1>3, <1>4, <1>5, FewerOf

(* The window knows one message by an id. *)
LEMMA KnownOnce ==
  ASSUME TypeOK, WaitInv, NEW id, NEW of, NEW target, NEW text, NEW k,
         NEW of2, NEW target2, NEW text2, NEW k2,
         Known(id, of, target, text, k), Known(id, of2, target2, text2, k2)
  PROVE  of = of2 /\ target = target2 /\ text = text2
<1>1. /\ \A n \in DOMAIN following : n \in Nat
      /\ \A j \in DOMAIN events : events[j].id \in Nat /\ j \in Nat
  BY TypedOnLines DEF TypeOK, Told
<1>2. \A n \in DOMAIN following, j \in DOMAIN events : Waits(events[j]) => n < events[j].id
  BY DEF WaitInv, IdsInv
<1>3. ASSUME NEW j \in DOMAIN events, NEW n \in DOMAIN events, Waits(events[j]), Waits(events[n]),
             events[j].id = events[n].id
      PROVE  j = n
  BY <1>1, <1>3 DEF WaitInv, IdsInv
<1>4. CASE id \in DOMAIN following
  <2>1. \A j \in DOMAIN events : ~(Waits(events[j]) /\ events[j].id = id)
    BY <1>1, <1>2, <1>4
  <2> QED BY <1>4, <2>1 DEF Known, Says3
<1>5. CASE id \notin DOMAIN following
  <2>1. PICK j \in DOMAIN events : Waits(events[j]) /\ events[j].id = id /\ Says3(events[j], of, target, text)
    BY <1>5 DEF Known
  <2>2. PICK n \in DOMAIN events : Waits(events[n]) /\ events[n].id = id /\ Says3(events[n], of2, target2, text2)
    BY <1>5 DEF Known
  <2>3. j = n
    BY <1>3, <2>1, <2>2
  <2> QED BY <2>1, <2>2, <2>3 DEF Says3
<1> QED BY <1>4, <1>5

(* What is told later adds nothing to what was told. *)
LEMMA BringsOn ==
  ASSUME events \in Seq(Told), events' \in Seq(Told), Len(events) <= Len(events'),
         \A i \in DOMAIN events : events'[i] = events[i], UNCHANGED <<following, lines>>,
         NEW k \in DOMAIN events, NEW target, NEW text
  PROVE  Brings(k, target, text)' <=> Brings(k, target, text)
<1>1. k \in Int /\ k <= Len(events) + 1
  OBVIOUS
<1>2. \A id, of, t, x : Known(id, of, t, x, k)' <=> Known(id, of, t, x, k)
  BY <1>1, LaterKeeps
<1>3. PICK e : e = events[k]
  OBVIOUS
<1>4. events'[k] = e
  BY <1>3
<1>5. \A sent : Known(e.id, e.of, target, sent, k)' <=> Known(e.id, e.of, target, sent, k)
  BY <1>2
<1>6. Brings(k, target, text) <=>
        \/ e.kind = "message" /\ e.target = target /\ e.text = text
        \/ e.kind = "confirmed"
           /\ \E sent \in Texts : /\ Known(e.id, e.of, target, sent, k)
                                  /\ text = IF e.text = AsSent THEN sent ELSE e.text
  BY <1>3 DEF Brings
<1>7. Brings(k, target, text)' <=>
        \/ e.kind = "message" /\ e.target = target /\ e.text = text
        \/ e.kind = "confirmed"
           /\ \E sent \in Texts : /\ Known(e.id, e.of, target, sent, k)'
                                  /\ text = IF e.text = AsSent THEN sent ELSE e.text
  BY <1>4 DEF Brings, Known, Waits, Says3
<1> QED BY <1>5, <1>6, <1>7

LEMMA CountsFall ==
  ASSUME TypeOK, TypeOK', NEW target \in Targets, NEW text \in Texts, CountFor(target, text),
         relayed[target][text] <= relayed'[target][text],
         ShownOf(target, text)' \subseteq ShownOf(target, text),
         ToldOf(target, text)' \subseteq ToldOf(target, text),
         OnWayOf(target, text)' \subseteq OnWayOf(target, text)
  PROVE  CountFor(target, text)'
<1>1. /\ IsFiniteSet(ShownOf(target, text)) /\ IsFiniteSet(ToldOf(target, text))
      /\ IsFiniteSet(OnWayOf(target, text))
  BY FiniteCounts
<1>2. /\ Cardinality(ShownOf(target, text)') \in Nat /\ Cardinality(ShownOf(target, text)) \in Nat
      /\ Cardinality(ShownOf(target, text)') <= Cardinality(ShownOf(target, text))
  BY <1>1, FewerOf
<1>3. /\ Cardinality(ToldOf(target, text)') \in Nat /\ Cardinality(ToldOf(target, text)) \in Nat
      /\ Cardinality(ToldOf(target, text)') <= Cardinality(ToldOf(target, text))
  BY <1>1, FewerOf
<1>4. /\ Cardinality(OnWayOf(target, text)') \in Nat /\ Cardinality(OnWayOf(target, text)) \in Nat
      /\ Cardinality(OnWayOf(target, text)') <= Cardinality(OnWayOf(target, text))
  BY <1>1, FewerOf
<1>5. relayed[target][text] \in Nat /\ relayed'[target][text] \in Nat
  BY DEF TypeOK
<1> QED BY <1>2, <1>3, <1>4, <1>5 DEF CountFor

LEMMA ShownSame ==
  ASSUME UNCHANGED lines, NEW target, NEW text
  PROVE  ShownOf(target, text)' = ShownOf(target, text)
BY DEF ShownOf

(* Nothing told now will be shown as delivered. *)
LEMMA ToldSame ==
  ASSUME events \in Seq(Told), events' \in Seq(Told), Len(events) <= Len(events'),
         \A i \in DOMAIN events : events'[i] = events[i], UNCHANGED <<following, lines>>,
         NEW target, NEW text,
         \A i \in DOMAIN events' : i \notin DOMAIN events =>
            events'[i].kind \notin {"message", "confirmed"}
  PROVE  ToldOf(target, text)' \subseteq ToldOf(target, text)
<1> SUFFICES ASSUME NEW k \in DOMAIN events', Brings(k, target, text)'
             PROVE  k \in DOMAIN events /\ Brings(k, target, text)
  BY DEF ToldOf
<1>1. k \in DOMAIN events
  BY DEF Brings
<1> QED BY <1>1, BringsOn

(* A line carries what it did while fewer messages are pending. *)
LEMMA CarriesOn ==
  ASSUME PendingShrinks, NEW m, NEW target, NEW text, Carries(m, target, text)'
  PROVE  Carries(m, target, text)
BY DEF Carries, PendingShrinks

LEMMA SendCounts ==
  ASSUME TypeOK, TypeOK', BoundsInv, CountInv, NEW to \in Targets, NEW said \in Texts,
         NEW written \in BOOLEAN, Send(to, said, written)
  PROVE  CountInv'
<1>1. PICK label \in Nat, id \in Nat : SentAs(to, said, label, id)
  BY SentIs
<1>2. UNCHANGED <<toClient, lines, following, relayed>>
  BY SendIs DEF SendsOn, windowVars
<1>3. \A k \in DOMAIN toClient' : toClient'[k].kind = "ack" => toClient'[k].batch = 0
  BY <1>2 DEF CountInv
<1> SUFFICES ASSUME NEW target \in Targets, NEW text \in Texts PROVE CountFor(target, text)'
  BY <1>3 DEF CountInv
<1>4. ShownOf(target, text)' \subseteq ShownOf(target, text)
  BY <1>2, ShownSame
<1>5. ToldOf(target, text)' \subseteq ToldOf(target, text)
  <2>1. events \in Seq(Told) /\ events' \in Seq(Told)
    BY DEF TypeOK
  <2>2. /\ \A i \in DOMAIN events : i \in DOMAIN events' /\ events'[i] = events[i]
        /\ \A i \in DOMAIN events' : i \notin DOMAIN events => events'[i].kind = "accepted"
    BY <1>1 DEF SentAs
  <2>3. Len(events) <= Len(events')
    BY <2>1, <2>2
  <2> QED BY <1>2, <2>1, <2>2, <2>3, ToldSame
<1>6. OnWayOf(target, text)' \subseteq OnWayOf(target, text)
  <2> SUFFICES ASSUME NEW k \in DOMAIN toClient, Carries(toClient[k], target, text)'
               PROVE  Carries(toClient[k], target, text)
    BY <1>2 DEF OnWayOf
  <2>1. PICK m : m = toClient[k] /\ toClient'[k] = m
    BY <1>2
  <2>2. m.label \in Nat /\ m.label <= worker.nextLabel /\ worker.nextLabel \in Nat
    BY <2>1, LinkTypes DEF BoundsInv, LabelBounds
  <2>3. label # 0 => label = worker.nextLabel + 1
    BY <1>1 DEF SentAs
  <2>4. m.label # 0 => m.label # label
    BY <2>2, <2>3
  <2>5. \A i \in DOMAIN worker'.pending :
          \/ i \in DOMAIN worker.pending /\ worker'.pending[i] = worker.pending[i]
          \/ worker'.pending[i].label = label
    BY <1>1 DEF SentAs
  <2>6. Carries(m, target, text)'
    BY <2>1 DEF Carries
  <2>7. Carries(m, target, text)
    BY <2>4, <2>5, <2>6 DEF Carries
  <2> QED BY <2>1, <2>7
<1>7. relayed[target][text] <= relayed'[target][text]
  <2>1. relayed[target][text] \in Nat
    BY DEF TypeOK
  <2> QED BY <1>2, <2>1
<1> QED BY <1>4, <1>5, <1>6, <1>7, CountsFall DEF CountInv

LEMMA ExpireCounts ==
  ASSUME TypeOK, TypeOK', CountInv, Expire
  PROVE  CountInv'
<1>1. /\ Leaves(1, Failed(worker.pending[1]))
      /\ UNCHANGED <<toClient, lines, following, relayed>>
  BY ExpireIs DEF windowVars
<1>2. PendingShrinks
  BY <1>1, LeavesTells
<1>3. \A k \in DOMAIN toClient' : toClient'[k].kind = "ack" => toClient'[k].batch = 0
  BY <1>1 DEF CountInv
<1> SUFFICES ASSUME NEW target \in Targets, NEW text \in Texts PROVE CountFor(target, text)'
  BY <1>3 DEF CountInv
<1>4. ShownOf(target, text)' \subseteq ShownOf(target, text)
  BY <1>1, ShownSame
<1>5. ToldOf(target, text)' \subseteq ToldOf(target, text)
  <2>1. events \in Seq(Told) /\ events' \in Seq(Told)
    BY DEF TypeOK
  <2>2. PICK e \in Told : e.kind = "failed" /\ events' = Append(events, e)
    <3>1. Failed(worker.pending[1]).kind = "failed"
      BY DEF Failed, Event
    <3> QED BY <1>1, <3>1 DEF Leaves
  <2>3. /\ \A i \in DOMAIN events : i \in DOMAIN events' /\ events'[i] = events[i]
        /\ \A i \in DOMAIN events' : i \in DOMAIN events \/ events'[i] = e
    BY <2>1, <2>2, AppendCases
  <2>4. Len(events) <= Len(events')
    BY <2>1, <2>3
  <2> QED BY <1>1, <2>1, <2>2, <2>3, <2>4, ToldSame
<1>6. OnWayOf(target, text)' \subseteq OnWayOf(target, text)
  <2> SUFFICES ASSUME NEW k \in DOMAIN toClient, Carries(toClient[k], target, text)'
               PROVE  Carries(toClient[k], target, text)
    BY <1>1 DEF OnWayOf
  <2>1. PICK m : m = toClient[k] /\ toClient'[k] = m
    BY <1>1
  <2>2. Carries(m, target, text)'
    BY <2>1 DEF Carries
  <2> QED BY <1>2, <2>1, <2>2, CarriesOn
<1>7. relayed[target][text] <= relayed'[target][text]
  <2>1. relayed[target][text] \in Nat
    BY DEF TypeOK
  <2> QED BY <1>1, <2>1
<1> QED BY <1>4, <1>5, <1>6, <1>7, CountsFall DEF CountInv

LEMMA LinkEndsCounts ==
  ASSUME TypeOK, TypeOK', CountInv, LinkEnds
  PROVE  CountInv'
<1>1. /\ events' = Append(events, NoMore) /\ toClient' = <<>> /\ UNCHANGED <<lines, following>>
      /\ \E k \in 0..Len(toServer) : StillTaken(k)
  BY DEF LinkEnds, windowVars
<1>2. DOMAIN toClient' = {}
  BY <1>1
<1> SUFFICES ASSUME NEW target \in Targets, NEW text \in Texts PROVE CountFor(target, text)'
  BY <1>2 DEF CountInv
<1>3. ShownOf(target, text)' \subseteq ShownOf(target, text)
  BY <1>1, ShownSame
<1>4. ToldOf(target, text)' \subseteq ToldOf(target, text)
  <2>1. events \in Seq(Told) /\ events' \in Seq(Told)
    BY DEF TypeOK
  <2>2. NoMore \in Told /\ NoMore.kind = "disconnected"
    BY EventTypes DEF NoMore
  <2>3. /\ \A i \in DOMAIN events : i \in DOMAIN events' /\ events'[i] = events[i]
        /\ \A i \in DOMAIN events' : i \in DOMAIN events \/ events'[i] = NoMore
    BY <1>1, <2>1, <2>2, AppendCases
  <2>4. Len(events) <= Len(events')
    BY <2>1, <2>3
  <2> QED BY <1>1, <2>1, <2>2, <2>3, <2>4, ToldSame
<1>5. OnWayOf(target, text)' \subseteq OnWayOf(target, text)
  BY <1>2 DEF OnWayOf
<1>6. relayed[target][text] <= relayed'[target][text]
  BY <1>1, StillTakenIs, TypeIs
<1> QED BY <1>3, <1>4, <1>5, <1>6, CountsFall DEF CountInv

LEMMA ConnectCounts ==
  ASSUME TypeOK, TypeOK', CountInv, Connect
  PROVE  CountInv'
<1>1. /\ events' = <<>> /\ toClient' = <<>> /\ UNCHANGED lines
      /\ \E k \in 0..Len(toServer) : StillTaken(k)
  BY DEF Connect
<1>2. DOMAIN toClient' = {} /\ DOMAIN events' = {}
  BY <1>1
<1> SUFFICES ASSUME NEW target \in Targets, NEW text \in Texts PROVE CountFor(target, text)'
  BY <1>2 DEF CountInv
<1>3. ShownOf(target, text)' \subseteq ShownOf(target, text)
  BY <1>1, ShownSame
<1>4. ToldOf(target, text)' \subseteq ToldOf(target, text)
  BY <1>2 DEF ToldOf
<1>5. OnWayOf(target, text)' \subseteq OnWayOf(target, text)
  BY <1>2 DEF OnWayOf
<1>6. relayed[target][text] <= relayed'[target][text]
  BY <1>1, StillTakenIs, TypeIs
<1> QED BY <1>3, <1>4, <1>5, <1>6, CountsFall DEF CountInv

(* What the worker tells of as delivered is what the line it takes says. *)
LEMMA AnsweredBrings ==
  ASSUME TypeOK, TypeOK', WaitInv, LabelInv, CountInv, Taken,
         NEW i \in DOMAIN worker.pending, Answered(i),
         NEW n \in Nat, n = Len(events) + 1, NEW target, NEW text, Brings(n, target, text)'
  PROVE  Carries(Head(toClient), target, text)
<1> DEFINE m == Head(toClient)
           p == worker.pending[i]
           e == Answer(p, m)
<1>1. /\ worker.up /\ toClient # <<>> /\ UNCHANGED <<lines, following>>
  BY DEF Taken, windowVars
<1>2. /\ m = toClient[1] /\ 1 \in DOMAIN toClient /\ m \in Links
      /\ p \in Pendings /\ events \in Seq(Told) /\ events' \in Seq(Told)
  <2>1. toClient \in Seq(Links) /\ worker.pending \in Seq(Pendings) /\ events \in Seq(Told)
    BY LinkTypes
  <2>2. events' \in Seq(Told)
    BY DEF TypeOK
  <2> QED BY <1>1, <2>1, <2>2, TailCases
<1>3. /\ Belongs(worker, m, p) /\ events' = Append(events, e)
  BY DEF Answered
<1>4. /\ e \in Told /\ e.id = p.id /\ e.of = p.of /\ e.target = p.target
      /\ e.kind = "confirmed" => e.text = IF m.kind = "ack" \/ m.text = p.text THEN AsSent ELSE m.text
      /\ m.kind = "error" => e.kind = "failed"
      /\ e.kind \in {"confirmed", "failed"}
  <2>1. m.kind = "error" => e.kind = "failed"
    BY DEF Answer, Failed, Event
  <2> QED BY <1>2, <2>1, AnswerTypes
<1>5. Known(p.id, p.of, p.target, p.text, End)
  BY <1>1 DEF WaitInv, PendingInv, PendingKnown
<1>6. p.text \in Texts /\ m.text \in Texts /\ m.label \in Nat /\ m.batch \in Nat
  BY <1>2 DEF Links, Pendings
<1>7. (m.kind = "text" => ComesOf(m, p)) /\ (m.kind = "ack" => m.batch = 0)
  BY <1>1, <1>2 DEF LabelInv, EchoesOnWay, CountInv
<1>8. LabelOf(worker, m) = IF m.label # 0 THEN m.label
                           ELSE IF m.batch # 0 /\ m.batch \in ToSet(worker.batches) THEN m.batch ELSE 0
  BY DEF LabelOf
<1>9. PICK id, of : id = p.id /\ of = p.of
  OBVIOUS
<1>10. \A sent : Known(id, of, target, sent, n)' => Known(id, of, target, sent, n)
  <2>1. Len(events) \in Nat /\ Len(events') = Len(events) + 1
        /\ \A j \in DOMAIN events : events'[j] = events[j]
    BY <1>2, <1>3, <1>4, AppendIs
  <2>2. Len(events) <= Len(events') /\ n \in Int /\ n <= Len(events) + 1
    BY <2>1
  <2> QED BY <1>1, <1>2, <2>1, <2>2, LaterKeeps
<1> HIDE DEF m, p, e
<1>11. events'[n] = e /\ n \in DOMAIN events'
  BY <1>2, <1>3, <1>4, AppendIs
<1>12. PICK f : f = e
  OBVIOUS
<1>13. events'[n] = f
  BY <1>11, <1>12
<1>14. Brings(n, target, text)' <=>
         \/ f.kind = "message" /\ f.target = target /\ f.text = text
         \/ f.kind = "confirmed"
            /\ \E sent \in Texts : /\ Known(f.id, f.of, target, sent, n)'
                                   /\ text = IF f.text = AsSent THEN sent ELSE f.text
  BY <1>13 DEF Brings, Known, Waits, Says3
<1>15. f.kind = "confirmed" /\ f.id = id /\ f.of = of
  BY <1>4, <1>9, <1>12, <1>14
<1>16. PICK sent \in Texts : /\ Known(id, of, target, sent, n)
                             /\ text = IF f.text = AsSent THEN sent ELSE f.text
  BY <1>10, <1>14, <1>15
<1>17. target = p.target /\ sent = p.text
  <2>1. n = End
    BY DEF End
  <2>2. Known(id, of, p.target, p.text, End)
    BY <1>5, <1>9
  <2> QED BY <1>16, <2>1, <2>2, KnownOnce
<1>18. m.kind \in {"text", "ack"}
  BY <1>3, <1>4, <1>12, <1>15 DEF Belongs
<1>19. CASE m.kind = "ack"
  <2>1. text = p.text
    BY <1>4, <1>12, <1>15, <1>16, <1>17, <1>19
  <2>2. p.label = m.label /\ m.label # 0
    BY <1>3, <1>7, <1>8, <1>19 DEF Belongs
  <2> QED BY <1>17, <1>19, <2>1, <2>2 DEF Carries, p, m
<1>20. CASE m.kind = "text"
  <2>1. text = m.text
    <3>1. m.text # AsSent
      BY <1>6, ConfirmedSendingAssumption
    <3> QED BY <1>4, <1>12, <1>15, <1>16, <1>17, <1>20, <3>1
  <2>2. m.target = p.target
    BY <1>3, <1>7, <1>8, <1>20 DEF Belongs, ComesOf, Resembles
  <2> QED BY <1>17, <1>20, <2>1, <2>2 DEF Carries, m
<1> QED BY <1>18, <1>19, <1>20

(* The line taken goes, the rest carries what it did. *)
LEMMA TakenOnWay ==
  ASSUME TypeOK, TypeOK', Taken, PendingShrinks, NEW target, NEW text
  PROVE  /\ Cardinality(OnWayOf(target, text)') \in Nat
         /\ Cardinality(OnWayOf(target, text)) \in Nat
         /\ Cardinality(OnWayOf(target, text)') <= Cardinality(OnWayOf(target, text))
         /\ Carries(Head(toClient), target, text) =>
              Cardinality(OnWayOf(target, text)') + 1 <= Cardinality(OnWayOf(target, text))
<1> DEFINE A == OnWayOf(target, text)'
           B == OnWayOf(target, text)
<1>1. toClient # <<>> /\ toClient' = Tail(toClient)
  BY DEF Taken
<1>2. toClient \in Seq(Links)
  BY LinkTypes
<1>3. /\ 1 \in DOMAIN toClient /\ Head(toClient) = toClient[1]
      /\ \A k \in DOMAIN toClient' : /\ k \in Nat \ {0} /\ k + 1 \in DOMAIN toClient
                                     /\ toClient'[k] = toClient[k + 1]
  BY <1>1, <1>2, TailCases
<1>4. ASSUME NEW k \in A PROVE k \in Nat \ {0} /\ k + 1 \in B
  <2>1. k \in DOMAIN toClient' /\ Carries(toClient[k], target, text)'
    BY <1>4 DEF OnWayOf
  <2>2. PICK l : l = toClient'[k] /\ toClient[k + 1] = l
    BY <1>3, <2>1
  <2>3. Carries(l, target, text)'
    BY <2>1, <2>2 DEF Carries
  <2>4. Carries(l, target, text)
    BY <2>3, CarriesOn
  <2> QED BY <1>3, <2>1, <2>2, <2>4 DEF OnWayOf
<1>5. IsFiniteSet(B)
  BY FiniteCounts
<1>6. Carries(Head(toClient), target, text) => 1 \in B
  BY <1>3 DEF OnWayOf
<1> HIDE DEF A, B
<1>7. A \subseteq Nat \ {0} /\ \A k \in A : k + 1 \in B
  BY <1>4
<1>8. /\ Cardinality(A) \in Nat /\ Cardinality(B) \in Nat
      /\ Cardinality(A) <= Cardinality(B)
      /\ 1 \in B => Cardinality(A) + 1 <= Cardinality(B)
  BY <1>5, <1>7, MovedUp
<1> QED BY <1>6, <1>8 DEF A, B

(* One more event is one more told, if at all, and only of what it brings. *)
LEMMA OneMoreTold ==
  ASSUME TypeOK, TypeOK', UNCHANGED <<following, lines>>, NEW e \in Told, events' = Append(events, e),
         NEW n \in Nat, n = Len(events) + 1, NEW target, NEW text
  PROVE  /\ Cardinality(ToldOf(target, text)') \in Nat /\ Cardinality(ToldOf(target, text)) \in Nat
         /\ Cardinality(ToldOf(target, text)') <= Cardinality(ToldOf(target, text)) + 1
         /\ ~Brings(n, target, text)' =>
              Cardinality(ToldOf(target, text)') <= Cardinality(ToldOf(target, text))
<1> DEFINE A == ToldOf(target, text)'
           B == ToldOf(target, text)
<1>1. events \in Seq(Told) /\ events' \in Seq(Told)
  BY DEF TypeOK
<1>2. /\ \A i \in DOMAIN events : i \in DOMAIN events' /\ events'[i] = events[i]
      /\ \A i \in DOMAIN events' : i \in DOMAIN events \/ i = n
      /\ Len(events) <= Len(events')
  <2>1. /\ \A i \in DOMAIN events : i \in DOMAIN events' /\ events'[i] = events[i]
        /\ \A i \in DOMAIN events' : i \in DOMAIN events \/ i = Len(events) + 1
    BY <1>1, AppendCases
  <2> QED BY <1>1, <2>1
<1>3. ASSUME NEW k \in A PROVE k \in B \/ (k = n /\ Brings(n, target, text)')
  <2>1. k \in DOMAIN events' /\ Brings(k, target, text)'
    BY <1>3 DEF ToldOf
  <2>2. CASE k \in DOMAIN events
    <3>1. Brings(k, target, text)
      BY <1>1, <1>2, <2>1, <2>2, BringsOn
    <3> QED BY <2>2, <3>1 DEF ToldOf
  <2>3. CASE k = n
    BY <2>1, <2>3
  <2> QED BY <1>2, <2>1, <2>2, <2>3
<1>4. IsFiniteSet(B)
  BY FiniteCounts
<1> HIDE DEF A, B
<1>5. A \subseteq B \cup {n} /\ (~Brings(n, target, text)' => A \subseteq B)
  BY <1>3
<1>6. /\ Cardinality(A) \in Nat /\ Cardinality(B) \in Nat
      /\ Cardinality(A) <= Cardinality(B) + 1
  BY <1>4, <1>5, OneMoreOf
<1>7. ~Brings(n, target, text)' => Cardinality(A) <= Cardinality(B)
  BY <1>4, <1>5, FewerOf
<1> QED BY <1>6, <1>7 DEF A, B

LEMMA ReceiveCounts ==
  ASSUME TypeOK, TypeOK', WaitInv, LabelInv, CountInv, Receive
  PROVE  CountInv'
<1>1. /\ PendingShrinks /\ Taken
      /\ \/ \E i \in DOMAIN worker.pending : Answered(i)
         \/ Stopped \/ ShownAsMessage \/ Unanswered
  BY ReceiveTells, ReceiveIs DEF WaitInv
<1>2. /\ toClient # <<>> /\ toClient' = Tail(toClient) /\ worker.up
      /\ UNCHANGED <<lines, following, relayed>>
  BY <1>1 DEF Taken, windowVars
<1>3. toClient \in Seq(Links) /\ events \in Seq(Told) /\ events' \in Seq(Told)
  BY LinkTypes DEF TypeOK
<1>4. \A k \in DOMAIN toClient' : k + 1 \in DOMAIN toClient /\ toClient'[k] = toClient[k + 1]
  BY <1>2, <1>3, TailCases
<1>5. \A k \in DOMAIN toClient' : toClient'[k].kind = "ack" => toClient'[k].batch = 0
  BY <1>4 DEF CountInv
<1> SUFFICES ASSUME NEW target \in Targets, NEW text \in Texts PROVE CountFor(target, text)'
  BY <1>5 DEF CountInv
<1> DEFINE way == Cardinality(OnWayOf(target, text))
           way2 == Cardinality(OnWayOf(target, text)')
           told == Cardinality(ToldOf(target, text))
           told2 == Cardinality(ToldOf(target, text)')
           shown == Cardinality(ShownOf(target, text))
           shown2 == Cardinality(ShownOf(target, text)')
<1>6. /\ way \in Nat /\ way2 \in Nat /\ way2 <= way
      /\ Carries(Head(toClient), target, text) => way2 + 1 <= way
  BY <1>1, TakenOnWay
<1>7. shown2 = shown /\ shown \in Nat
  BY <1>2, ShownSame, FiniteCounts
<1>8. /\ relayed[target][text] \in Nat /\ relayed'[target][text] = relayed[target][text]
      /\ shown + told + way <= relayed[target][text]
  BY <1>2 DEF TypeOK, CountInv, CountFor
<1>9. told \in Nat /\ told2 \in Nat /\ told2 + way2 <= told + way
  <2>1. CASE \E i \in DOMAIN worker.pending : Answered(i)
    <3>1. PICK i \in DOMAIN worker.pending : Answered(i)
      BY <2>1
    <3>2. PICK e \in Told : events' = Append(events, e)
      <4>1. worker.pending[i] \in Pendings /\ Head(toClient) \in Links
        BY <1>2, <1>3, LinkTypes, TailCases
      <4>2. Answer(worker.pending[i], Head(toClient)) \in Told
        BY <4>1, AnswerTypes
      <4> QED BY <3>1, <4>2 DEF Answered
    <3>3. PICK n \in Nat : n = Len(events) + 1
      BY <1>3
    <3>4. /\ told \in Nat /\ told2 \in Nat /\ told2 <= told + 1
          /\ ~Brings(n, target, text)' => told2 <= told
      BY <1>2, <3>2, <3>3, OneMoreTold
    <3>5. Brings(n, target, text)' => Carries(Head(toClient), target, text)
      BY <1>1, <3>1, <3>3, AnsweredBrings
    <3> HIDE DEF told, told2, way, way2
    <3> QED BY <1>6, <3>4, <3>5
  <2>2. CASE Stopped
    <3> DEFINE failures == [i \in DOMAIN worker.pending |-> Failed(worker.pending[i])]
    <3>1. worker.pending \in Seq(Pendings) /\ \A i \in DOMAIN worker.pending :
             Failed(worker.pending[i]) \in Told
      <4>1. worker.pending \in Seq(Pendings)
        BY LinkTypes
      <4> QED BY <4>1, AnswerTypes
    <3>7. failures \in Seq(Told) /\ \A i \in DOMAIN failures : failures[i].kind = "failed"
      <4>1. failures \in Seq(Told)
        BY <3>1
      <4>2. \A p : Failed(p).kind = "failed"
        BY DEF Failed, Event
      <4> QED BY <4>1, <4>2
    <3>8. events' = events \o failures
      BY <2>2 DEF Stopped
    <3> HIDE DEF failures
    <3>9. /\ DOMAIN events = 1..Len(events) /\ Len(events) \in Nat
          /\ DOMAIN failures = 1..Len(failures) /\ Len(failures) \in Nat
          /\ DOMAIN events' = 1..(Len(events) + Len(failures))
          /\ \A i \in 1..Len(events) : events'[i] = events[i]
          /\ \A i \in 1..(Len(events) + Len(failures)) :
                i > Len(events) => events'[i] = failures[i - Len(events)]
      BY <1>3, <3>7, <3>8, ConcatIs
    <3>2. \A k \in DOMAIN events : k \in DOMAIN events' /\ events'[k] = events[k]
      BY <3>9
    <3>3. ASSUME NEW k \in DOMAIN events', k \notin DOMAIN events
          PROVE  events'[k].kind \notin {"message", "confirmed"}
      <4>1. k > Len(events) /\ k - Len(events) \in DOMAIN failures
            /\ events'[k] = failures[k - Len(events)]
        BY <3>3, <3>9
      <4> QED BY <3>7, <4>1
    <3>4. ToldOf(target, text)' \subseteq ToldOf(target, text)
      <4>1. Len(events) <= Len(events')
        BY <1>3, <3>2
      <4> QED BY <1>2, <1>3, <3>2, <3>3, <4>1, ToldSame
    <3>5. IsFiniteSet(ToldOf(target, text))
      BY FiniteCounts
    <3>6. told \in Nat /\ told2 \in Nat /\ told2 <= told
      BY <3>4, <3>5, FewerOf
    <3> HIDE DEF told, told2, way, way2
    <3> QED BY <1>6, <3>6
  <2>3. CASE ShownAsMessage
    <3>1. PICK e \in Told : /\ events' = Append(events, e) /\ e.kind = "message"
                            /\ e.target = Head(toClient).target /\ e.text = Head(toClient).text
      <4>1. Head(toClient) \in Links
        BY <1>2, <1>3, TailCases
      <4> DEFINE e == Event("message", 0, Head(toClient).of, Head(toClient).target,
                            Head(toClient).text)
      <4>2. e \in Told
        BY <4>1 DEF Event, Told, Links
      <4>3. /\ e.kind = "message" /\ e.target = Head(toClient).target
            /\ e.text = Head(toClient).text
        BY DEF Event
      <4>4. events' = Append(events, e)
        BY <2>3 DEF ShownAsMessage
      <4> HIDE DEF e
      <4> QED BY <4>2, <4>3, <4>4
    <3>2. PICK n \in Nat : n = Len(events) + 1
      BY <1>3
    <3>3. /\ told \in Nat /\ told2 \in Nat /\ told2 <= told + 1
          /\ ~Brings(n, target, text)' => told2 <= told
      BY <1>2, <3>1, <3>2, OneMoreTold
    <3>4. Brings(n, target, text)' => Carries(Head(toClient), target, text)
      <4>1. events'[n] = e
        BY <1>3, <3>1, <3>2, AppendCases
      <4>2. Head(toClient).kind = "text"
        BY <2>3 DEF ShownAsMessage
      <4>3. Brings(n, target, text)' => e.target = target /\ e.text = text
        BY <3>1, <4>1 DEF Brings
      <4> QED BY <3>1, <4>2, <4>3 DEF Carries
    <3> HIDE DEF told, told2, way, way2
    <3> QED BY <1>6, <3>3, <3>4
  <2>4. CASE Unanswered
    <3>1. events' = events
      BY <2>4 DEF Unanswered
    <3>2. ToldOf(target, text)' \subseteq ToldOf(target, text)
      BY <1>2, <1>3, <3>1, ToldSame
    <3>3. IsFiniteSet(ToldOf(target, text))
      BY FiniteCounts
    <3>4. told \in Nat /\ told2 \in Nat /\ told2 <= told
      BY <3>2, <3>3, FewerOf
    <3> HIDE DEF told, told2, way, way2
    <3> QED BY <1>6, <3>4
  <2> QED BY <1>1, <2>1, <2>2, <2>3, <2>4
<1> HIDE DEF told, told2, way, way2, shown, shown2
<1>10. shown2 + told2 + way2 <= relayed'[target][text]
  BY <1>6, <1>7, <1>8, <1>9
<1> QED BY <1>10 DEF CountFor, told2, way2, shown2

(* One line more, or changed, is one more shown, if at all. *)
LEMMA OneMoreShown ==
  ASSUME TypeOK, NEW n, \A i \in DOMAIN lines' : i # n => i \in DOMAIN lines /\ lines'[i] = lines[i],
         NEW target, NEW text
  PROVE  /\ Cardinality(ShownOf(target, text)') \in Nat /\ Cardinality(ShownOf(target, text)) \in Nat
         /\ Cardinality(ShownOf(target, text)') <= Cardinality(ShownOf(target, text)) + 1
         /\ n \notin ShownOf(target, text)' =>
              Cardinality(ShownOf(target, text)') <= Cardinality(ShownOf(target, text))
<1> DEFINE A == ShownOf(target, text)'
           B == ShownOf(target, text)
<1>1. A \subseteq B \cup {n}
  BY DEF ShownOf
<1>2. IsFiniteSet(B)
  BY FiniteCounts
<1> HIDE DEF A, B
<1>3. /\ Cardinality(A) \in Nat /\ Cardinality(B) \in Nat
      /\ Cardinality(A) <= Cardinality(B) + 1
  BY <1>1, <1>2, OneMoreOf
<1>4. n \notin A => Cardinality(A) <= Cardinality(B)
  <2> HAVE n \notin A
  <2>1. A \subseteq B
    BY <1>1
  <2> QED BY <1>2, <2>1, FewerOf
<1> QED BY <1>3, <1>4 DEF A, B

(* What the window was told first goes, the rest brings what it did. *)
LEMMA HandledTold ==
  ASSUME TypeOK, TypeOK', WaitInv, HandlesFirst, Follows \/ Adds \/ Concludes,
         NEW target, NEW text
  PROVE  /\ Cardinality(ToldOf(target, text)') \in Nat /\ Cardinality(ToldOf(target, text)) \in Nat
         /\ Cardinality(ToldOf(target, text)') <= Cardinality(ToldOf(target, text))
         /\ Brings(1, target, text) =>
              Cardinality(ToldOf(target, text)') + 1 <= Cardinality(ToldOf(target, text))
<1> DEFINE A == ToldOf(target, text)'
           B == ToldOf(target, text)
<1>1. /\ 1 \in DOMAIN events
      /\ \A k \in DOMAIN events' : /\ k \in Nat \ {0} /\ k + 1 \in DOMAIN events
                                   /\ events'[k] = events[k + 1]
  BY FirstGoes
<1>2. ASSUME NEW k \in A PROVE k \in Nat \ {0} /\ k + 1 \in B
  <2>1. k \in DOMAIN events' /\ Brings(k, target, text)'
    BY <1>2 DEF ToldOf
  <2>2. k \in Nat \ {0} /\ k + 1 \in DOMAIN events
    BY <1>1, <2>1
  <2>3. PICK f : f = events'[k] /\ events[k + 1] = f
    BY <1>1, <2>1
  <2>4. \/ f.kind = "message" /\ f.target = target /\ f.text = text
        \/ f.kind = "confirmed"
           /\ \E sent \in Texts : /\ Known(f.id, f.of, target, sent, k)'
                                  /\ text = IF f.text = AsSent THEN sent ELSE f.text
    BY <2>1, <2>3 DEF Brings, Known, Waits, Says3
  <2>5. \A sent : Known(f.id, f.of, target, sent, k)' => Known(f.id, f.of, target, sent, k + 1)
    BY <2>2, KnownMovesUp
  <2>6. Brings(k + 1, target, text)
    BY <2>3, <2>4, <2>5 DEF Brings
  <2> QED BY <2>2, <2>6 DEF ToldOf
<1>3. IsFiniteSet(B)
  BY FiniteCounts
<1>4. Brings(1, target, text) => 1 \in B
  BY <1>1 DEF ToldOf
<1> HIDE DEF A, B
<1>5. A \subseteq Nat \ {0} /\ \A k \in A : k + 1 \in B
  BY <1>2
<1>6. /\ Cardinality(A) \in Nat /\ Cardinality(B) \in Nat
      /\ Cardinality(A) <= Cardinality(B)
      /\ 1 \in B => Cardinality(A) + 1 <= Cardinality(B)
  BY <1>3, <1>5, MovedUp
<1> QED BY <1>4, <1>6 DEF A, B

(* What the window shows as delivered now was told to it as that. *)
LEMMA ShownWasTold ==
  ASSUME TypeOK, WaitInv, HandlesFirst, Follows \/ Adds \/ Concludes
  PROVE  \E n : /\ \A i \in DOMAIN lines' : i # n => i \in DOMAIN lines /\ lines'[i] = lines[i]
                /\ \A target, text : n \in ShownOf(target, text)' => Brings(1, target, text)
<1> DEFINE e == events[1]
<1>1. Head(events) = e /\ 1 \in DOMAIN events /\ e \in Told
  BY FirstGoes
<1>2. /\ lines \in Seq(Lines) /\ DOMAIN lines = 1..Len(lines) /\ Len(lines) \in Nat
      /\ \A i \in DOMAIN lines : lines[i] \in Lines
  BY TypedOnLines
<1> HIDE DEF e
<1>3. CASE Follows \/ Adds
  <2>1. PICK l : /\ lines' = Append(lines, l)
                 /\ l.status = "sent" \/ (e.kind = "message" /\ l.target = e.target /\ l.text = e.text)
    <3>1. CASE lines' = Append(lines, Shown(e, TRUE, "sent"))
      <4>1. PICK l : l = Shown(e, TRUE, "sent")
        OBVIOUS
      <4>2. l.status = "sent"
        BY <4>1 DEF Shown
      <4> QED BY <3>1, <4>1, <4>2
    <3>2. CASE e.kind = "message" /\ lines' = Append(lines, Shown(e, FALSE, "received"))
      <4>1. PICK l : l = Shown(e, FALSE, "received")
        OBVIOUS
      <4>2. l.target = e.target /\ l.text = e.text
        BY <4>1 DEF Shown
      <4> QED BY <3>2, <4>1, <4>2
    <3> QED BY <1>1, <1>3, <3>1, <3>2 DEF Follows, Adds, LinesGrow
  <2>2. PICK n : n = Len(lines) + 1
    OBVIOUS
  <2>3. /\ \A i \in DOMAIN lines' : i # n => i \in DOMAIN lines /\ lines'[i] = lines[i]
        /\ lines'[n] = l
    BY <1>2, <2>1, <2>2
  <2>4. ASSUME NEW target, NEW text, n \in ShownOf(target, text)' PROVE Brings(1, target, text)
    <3>1. l.target = target /\ l.text = text /\ l.status \in {"confirmed", "received"}
      BY <2>3, <2>4 DEF ShownOf
    <3> QED BY <2>1, <3>1 DEF Brings, e
  <2> QED BY <2>3, <2>4
<1>4. CASE Concludes
  <2>1. PICK n : n = following[e.id]
    OBVIOUS
  <2>2. /\ Settles(e) /\ e.id \in DOMAIN following /\ n \in DOMAIN lines
        /\ DOMAIN lines' = DOMAIN lines
        /\ \A i \in DOMAIN lines : i # n => lines'[i] = lines[i]
        /\ lines'[n].target = lines[n].target
        /\ \/ e.kind = "confirmed" /\ lines'[n].text = FinalText(lines[n], e)
           \/ e.kind = "failed" /\ lines'[n].status = "failed"
    BY <1>1, <1>4, <2>1 DEF Concludes, TypeOK
  <2>3. lines[n].of = e.of /\ lines[n].target = e.target
    BY <1>1, <2>1, <2>2, FirstIs DEF WaitInv, HandlesFirst
  <2>4. ASSUME NEW target, NEW text, n \in ShownOf(target, text)' PROVE Brings(1, target, text)
    <3>1. /\ lines'[n].target = target /\ lines'[n].text = text
          /\ lines'[n].status \in {"confirmed", "received"}
      BY <2>4 DEF ShownOf
    <3>2. /\ e.kind = "confirmed" /\ text = FinalText(lines[n], e) /\ lines[n].target = target
      BY <2>2, <3>1
    <3>3. PICK sent \in Texts : sent = lines[n].text
      BY <1>2, <2>2 DEF Lines
    <3>4. Known(e.id, e.of, target, sent, 1)
      BY <2>1, <2>2, <2>3, <3>2, <3>3 DEF Known, Says3
    <3>5. text = IF e.text = AsSent THEN sent ELSE e.text
      BY <3>2, <3>3 DEF FinalText
    <3> QED BY <3>2, <3>4, <3>5 DEF Brings, e
  <2> QED BY <2>2, <2>4
<1> QED BY <1>3, <1>4

LEMMA HandleCounts ==
  ASSUME TypeOK, TypeOK', WaitInv, CountInv, HandleEvent
  PROVE  CountInv'
<1>1. HandlesFirst /\ (Follows \/ Adds \/ Concludes \/ GivesUp)
  BY HandleIs DEF WaitInv
<1>2. UNCHANGED <<toClient, relayed, worker>>
  BY <1>1 DEF HandlesFirst
<1>3. \A k \in DOMAIN toClient' : toClient'[k].kind = "ack" => toClient'[k].batch = 0
  BY <1>2 DEF CountInv
<1> SUFFICES ASSUME NEW target \in Targets, NEW text \in Texts PROVE CountFor(target, text)'
  BY <1>3 DEF CountInv
<1>4. OnWayOf(target, text)' = OnWayOf(target, text)
  BY <1>2 DEF OnWayOf, Carries
<1>5. relayed[target][text] \in Nat /\ relayed'[target][text] = relayed[target][text]
  BY <1>2 DEF TypeOK
<1>6. CASE Follows \/ Adds \/ Concludes
  <2>1. PICK n : /\ \A i \in DOMAIN lines' : i # n => i \in DOMAIN lines /\ lines'[i] = lines[i]
                 /\ \A t, x : n \in ShownOf(t, x)' => Brings(1, t, x)
    BY <1>1, <1>6, ShownWasTold
  <2> DEFINE shown == Cardinality(ShownOf(target, text))
             shown2 == Cardinality(ShownOf(target, text)')
             told == Cardinality(ToldOf(target, text))
             told2 == Cardinality(ToldOf(target, text)')
             way == Cardinality(OnWayOf(target, text))
  <2>2. /\ shown \in Nat /\ shown2 \in Nat /\ shown2 <= shown + 1
        /\ n \notin ShownOf(target, text)' => shown2 <= shown
    BY <2>1, OneMoreShown
  <2>3. /\ told \in Nat /\ told2 \in Nat /\ told2 <= told
        /\ Brings(1, target, text) => told2 + 1 <= told
    BY <1>1, <1>6, HandledTold
  <2>4. n \in ShownOf(target, text)' => Brings(1, target, text)
    BY <2>1
  <2>5. way \in Nat /\ shown + told + way <= relayed[target][text]
    BY FiniteCounts DEF CountInv, CountFor
  <2> HIDE DEF shown, shown2, told, told2, way
  <2>6. shown2 + told2 + way <= relayed'[target][text]
    BY <1>5, <2>2, <2>3, <2>4, <2>5
  <2> QED BY <1>4, <2>6 DEF CountFor, shown2, told2, way
<1>7. CASE GivesUp
  <2>1. DOMAIN events' = {}
    <3>1. /\ Head(events) = events[1] /\ 1 \in DOMAIN events /\ Len(events) \in Nat
          /\ DOMAIN events' = 1..(Len(events) - 1)
      BY <1>1, FirstGoes
    <3>2. 1 = Len(events)
      BY <1>7, <3>1 DEF GivesUp, WaitInv, FollowInv, EndIsLast
    <3>3. PICK last \in Nat : last = Len(events)
      BY <3>1
    <3>4. last - 1 = 0 /\ DOMAIN events' = 1..(last - 1)
      BY <3>1, <3>2, <3>3
    <3> QED BY <3>4
  <2>2. ToldOf(target, text)' \subseteq ToldOf(target, text)
    BY <2>1 DEF ToldOf
  <2>3. /\ DOMAIN lines' = DOMAIN lines
        /\ \A i \in DOMAIN lines : lines'[i] = lines[i] \/ lines'[i].status = "failed"
    <3>1. \A i \in DOMAIN lines : lines[i] \in Lines
      BY TypedOnLines
    <3> QED BY <1>7, <3>1 DEF GivesUp, Lines
  <2>4. ShownOf(target, text)' \subseteq ShownOf(target, text)
    BY <2>3 DEF ShownOf
  <2> QED BY <1>4, <1>5, <2>2, <2>4, CountsFall DEF CountInv
<1> QED BY <1>1, <1>6, <1>7

(* What the server sends carries what it delivered, once. *)
SaysOnce(s, i, t, x) ==
    /\ s \in Seq(Links) /\ toClient' = toClient \o s
    /\ relayed' = relayed \/ relayed' = Once(relayed, t, x)
    /\ \A k \in DOMAIN s :
          /\ s[k].kind = "ack" => s[k].batch = 0
          /\ s[k].kind \in {"text", "ack"} => k = i /\ relayed' = Once(relayed, t, x)
    /\ i \in DOMAIN s => \A target, text : Carries(s[i], target, text) => target = t /\ text = x

LEMMA OneSaid ==
  ASSUME NEW l \in Links, toClient \in Seq(Links), toClient' = Append(toClient, l),
         l.kind = "ack" => l.batch = 0, NEW t, NEW x,
         \/ relayed' = relayed /\ l.kind \notin {"text", "ack"}
         \/ relayed' = Once(relayed, t, x),
         \A target, text : Carries(l, target, text) => target = t /\ text = x
  PROVE  SaysOnce(<<l>>, 1, t, x)
<1> DEFINE s == <<l>>
<1>1. s \in Seq(Links) /\ DOMAIN s = {1} /\ s[1] = l
  OBVIOUS
<1>2. toClient' = toClient \o s
  OBVIOUS
<1> HIDE DEF s
<1>3. \A k \in DOMAIN s :
        /\ s[k].kind = "ack" => s[k].batch = 0
        /\ s[k].kind \in {"text", "ack"} => k = 1 /\ relayed' = Once(relayed, t, x)
  BY <1>1
<1>4. 1 \in DOMAIN s => \A target, text : Carries(s[1], target, text) => target = t /\ text = x
  BY <1>1
<1>5. SaysOnce(s, 1, t, x)
  BY <1>1, <1>2, <1>3, <1>4 DEF SaysOnce
<1> QED BY <1>5 DEF s

LEMMA CarriesNothing ==
  ASSUME NEW l, l.kind \notin {"text", "ack"}
  PROVE  \A target, text : ~Carries(l, target, text)
BY DEF Carries

LEMMA ServerSaysOnce ==
  ASSUME TypeOK, LinkInv, LabelInv, ServerStep
  PROVE  \E s, i : \E t \in Targets, x \in Texts : SaysOnce(s, i, t, x)
<1> DEFINE m == Head(toServer)
<1>1. toClient \in Seq(Links) /\ AnyTarget \in Targets /\ AnyText \in Texts
  BY LineTypes DEF TypeOK
<1>2. ASSUME NextTaken
      PROVE  /\ worker.up /\ m = toServer[1] /\ 1 \in DOMAIN toServer
             /\ m \in Links /\ m.of \in Nat /\ m.target \in Targets /\ m.text \in Texts
             /\ Says(m) \in Nat
  <2>1. toServer # <<>> /\ worker.up
    BY <1>2 DEF NextTaken, LinkInv
  <2>2. m \in Links /\ m = toServer[1] /\ 1 \in DOMAIN toServer
    BY <2>1, TailIs DEF TypeOK
  <2> QED BY <2>1, <2>2 DEF Links, Says
<1> HIDE DEF m
<1>3. ASSUME NEW text \in Texts, NEW batched \in BOOLEAN, Deliver(text, batched)
      PROVE  \E s, i : \E t \in Targets, x \in Texts : SaysOnce(s, i, t, x)
  <2> DEFINE line == Line("text", m.of, m.target, text, Says(m))
             open == Bare("open", Says(m))
             inBatch == [line EXCEPT !.label = 0, !.batch = Says(m)]
             close == Bare("close", Says(m))
  <2>1. /\ NextTaken /\ m.kind = "text" /\ relayed' = Once(relayed, m.target, text)
        /\ toClient' = IF "echo" \in server
                       THEN toClient \o Echo(m, text, Says(m), batched) ELSE toClient
    BY <1>3 DEF Deliver, m
  <2>2. line \in Links /\ open \in Links /\ inBatch \in Links /\ close \in Links
    BY <1>2, <2>1, LineTypes DEF LinkKinds
  <2>3. /\ line.kind = "text" /\ line.target = m.target /\ line.text = text
        /\ inBatch.kind = "text" /\ inBatch.target = m.target /\ inBatch.text = text
        /\ open.kind = "open" /\ close.kind = "close"
    BY DEF Line, Bare
  <2>4. Echo(m, text, Says(m), batched) = IF batched THEN <<open, inBatch, close>> ELSE <<line>>
    BY DEF Echo
  <2> HIDE DEF line, open, inBatch, close
  <2>10. PICK t \in Targets : t = m.target
    BY <1>2, <2>1
  <2>11. \A target, words : /\ Carries(line, target, words) => target = t /\ words = text
                            /\ Carries(inBatch, target, words) => target = t /\ words = text
    BY <2>3, <2>10 DEF Carries
  <2>5. CASE "echo" \notin server
    <3>1. toClient' = toClient \o <<>> /\ <<>> \in Seq(Links) /\ DOMAIN <<>> = {}
      BY <1>1, <2>1, <2>5
    <3>2. SaysOnce(<<>>, 1, t, text)
      BY <2>1, <2>10, <3>1 DEF SaysOnce
    <3> QED BY <3>2
  <2>6. CASE "echo" \in server /\ batched
    <3> DEFINE s == <<open, inBatch, close>>
    <3>1. /\ s \in Seq(Links) /\ DOMAIN s = {1, 2, 3}
          /\ s[1] = open /\ s[2] = inBatch /\ s[3] = close
      BY <2>2
    <3>2. toClient' = toClient \o s
      BY <2>1, <2>4, <2>6
    <3> HIDE DEF s
    <3>3. SaysOnce(s, 2, t, text)
      BY <2>1, <2>3, <2>10, <2>11, <3>1, <3>2 DEF SaysOnce
    <3> QED BY <3>3
  <2>7. CASE "echo" \in server /\ ~batched
    <3>1. toClient' = Append(toClient, line)
      BY <1>1, <2>1, <2>2, <2>4, <2>7
    <3>2. SaysOnce(<<line>>, 1, t, text)
      BY <1>1, <2>1, <2>2, <2>3, <2>10, <2>11, <3>1, OneSaid
    <3> QED BY <3>2
  <2> QED BY <2>5, <2>6, <2>7
<1>4. ASSUME NEW l \in Links, l.kind \notin {"text", "ack"}, toClient' = Append(toClient, l),
             relayed' = relayed
      PROVE  \E s, i : \E t \in Targets, x \in Texts : SaysOnce(s, i, t, x)
  <2>1. SaysOnce(<<l>>, 1, AnyTarget, AnyText)
    BY <1>1, <1>4, CarriesNothing, OneSaid
  <2> QED BY <1>1, <2>1
<1>5. CASE Acknowledge
  <2>1. /\ NextTaken /\ m.kind = "text" /\ Says(m) # 0
        /\ relayed' = Once(relayed, m.target, m.text)
        /\ toClient' = Append(toClient, Bare("ack", Says(m)))
    BY <1>5 DEF Acknowledge, m
  <2>2. PICK t \in Targets, x \in Texts : t = m.target /\ x = m.text
    BY <1>2, <2>1
  <2>3. PICK l \in Links : l = Bare("ack", Says(m))
    BY <1>2, <2>1, LineTypes DEF LinkKinds
  <2>4. l.kind = "ack" /\ l.label = Says(m) /\ l.batch = 0
    BY <2>3 DEF Bare, Line
  <2>5. m.label = Says(m)
    BY <2>1 DEF Says
  <2>6. ASSUME NEW target, NEW text, Carries(l, target, text) PROVE target = t /\ text = x
    <3>1. PICK i \in DOMAIN worker.pending :
             /\ worker.pending[i].label = l.label
             /\ worker.pending[i].target = target /\ worker.pending[i].text = text
      BY <2>4, <2>6 DEF Carries
    <3>2. SameMessage(m, worker.pending[i])
      BY <1>2, <2>1 DEF LabelInv, PendingOnWay
    <3> QED BY <2>1, <2>2, <2>4, <2>5, <3>1, <3>2 DEF SameMessage
  <2>7. SaysOnce(<<l>>, 1, t, x)
    BY <1>1, <2>1, <2>2, <2>3, <2>4, <2>6, OneSaid
  <2> QED BY <2>7
<1>6. CASE Refuse
  <2>1. NextTaken /\ toClient' = Append(toClient, Bare("error", Says(m))) /\ relayed' = relayed
    BY <1>6 DEF Refuse, m
  <2>2. Bare("error", Says(m)) \in Links /\ Bare("error", Says(m)).kind = "error"
    BY <1>2, <2>1, LineTypes DEF LinkKinds, Bare, Line
  <2> QED BY <1>4, <2>1, <2>2
<1>7. ASSUME NEW kind \in {"del", "new", "granted"}, NEW cap \in Capability \cup {""},
             toClient' = Append(toClient, CapLine(kind, cap)), relayed' = relayed
      PROVE  \E s, i : \E t \in Targets, x \in Texts : SaysOnce(s, i, t, x)
  <2>1. CapLine(kind, cap) \in Links
    BY LineTypes
  <2>2. CapLine(kind, cap).kind = kind
    BY DEF CapLine, Bare, Line
  <2> QED BY <1>4, <1>7, <2>1, <2>2
<1>8. CASE Grant
  <2>1. NextTaken /\ toClient' = Append(toClient, CapLine("granted", m.cap)) /\ relayed' = relayed
    BY <1>8 DEF Grant, m
  <2>2. m.cap \in Capability \cup {""}
    BY <1>2, <2>1 DEF Links
  <2> QED BY <1>7, <2>1, <2>2
<1>9. ASSUME NEW cap \in Capability, Withdraw(cap) \/ Offer(cap)
      PROVE  \E s, i : \E t \in Targets, x \in Texts : SaysOnce(s, i, t, x)
  <2>1. CASE Withdraw(cap)
    BY <1>7, <2>1 DEF Withdraw
  <2>2. CASE Offer(cap)
    BY <1>7, <2>2 DEF Offer
  <2> QED BY <1>9, <2>1, <2>2
<1>10. ASSUME NEW target \in Targets, NEW text \in Texts, OtherClientSends(target, text)
       PROVE  \E s, i : \E t \in Targets, x \in Texts : SaysOnce(s, i, t, x)
  <2>1. /\ toClient' = Append(toClient, Line("text", 0, target, text, 0))
        /\ relayed' = Once(relayed, target, text)
    BY <1>10 DEF OtherClientSends
  <2>2. PICK l \in Links : l = Line("text", 0, target, text, 0)
    BY LineTypes DEF LinkKinds
  <2>3. l.kind = "text" /\ l.target = target /\ l.text = text
    BY <2>2 DEF Line
  <2>4. \A t, x : Carries(l, t, x) => t = target /\ x = text
    BY <2>3 DEF Carries
  <2>5. SaysOnce(<<l>>, 1, target, text)
    BY <1>1, <2>1, <2>2, <2>3, <2>4, OneSaid
  <2> QED BY <2>5
<1> QED BY <1>3, <1>5, <1>6, <1>8, <1>9, <1>10 DEF ServerStep, Serve

LEMMA ServerCounts ==
  ASSUME TypeOK, LinkInv, LabelInv, CountInv, ServerStep
  PROVE  CountInv'
<1>1. PICK s, i : \E t \in Targets, x \in Texts : SaysOnce(s, i, t, x)
  BY ServerSaysOnce
<1>2. PICK t \in Targets, x \in Texts : SaysOnce(s, i, t, x)
  BY <1>1
<1>3. UNCHANGED <<worker, events, following, lines>> /\ TypeOK'
  BY ServerTyped DEF windowVars
<1>4. toClient \in Seq(Links) /\ s \in Seq(Links) /\ toClient' = toClient \o s
  BY <1>2 DEF TypeOK, SaysOnce
<1>5. PICK last \in Nat : last = Len(toClient)
  BY <1>4
<1>6. \A k \in DOMAIN toClient' :
        \/ k \in DOMAIN toClient /\ toClient'[k] = toClient[k]
        \/ k \in Int /\ k - last \in DOMAIN s /\ toClient'[k] = s[k - last]
  <2>1. /\ Len(s) \in Nat /\ DOMAIN toClient = 1..last /\ DOMAIN s = 1..Len(s)
        /\ DOMAIN toClient' = 1..(last + Len(s))
        /\ \A k \in 1..last : toClient'[k] = toClient[k]
        /\ \A k \in 1..(last + Len(s)) : k > last => toClient'[k] = s[k - last]
    BY <1>4, <1>5, ConcatIs
  <2> QED BY <1>5, <2>1
<1>7. \A k \in DOMAIN toClient' : toClient'[k].kind = "ack" => toClient'[k].batch = 0
  BY <1>2, <1>6 DEF CountInv, SaysOnce
<1> SUFFICES ASSUME NEW target \in Targets, NEW text \in Texts PROVE CountFor(target, text)'
  BY <1>7 DEF CountInv
<1>8. ShownOf(target, text)' = ShownOf(target, text)
  BY <1>3, ShownSame
<1>9. ToldOf(target, text)' = ToldOf(target, text)
  BY <1>3 DEF ToldOf, Brings, Known, Waits, Says3
<1> DEFINE A == OnWayOf(target, text)'
           B == OnWayOf(target, text)
<1>10. ASSUME NEW k \in A, k \notin B
       PROVE  k = i + last /\ target = t /\ text = x /\ relayed' = Once(relayed, t, x)
  <2>1. k \in DOMAIN toClient' /\ Carries(toClient[k], target, text)'
    BY <1>10 DEF OnWayOf
  <2>2. PICK l : l = toClient'[k]
    OBVIOUS
  <2>3. Carries(l, target, text)
    BY <1>3, <2>1, <2>2 DEF Carries
  <2>4. k \in Int /\ k - last \in DOMAIN s /\ l = s[k - last]
    BY <1>6, <1>10, <2>1, <2>2, <2>3 DEF OnWayOf
  <2>5. l.kind \in {"text", "ack"}
    BY <2>3, CarriesNothing
  <2>6. k - last = i /\ relayed' = Once(relayed, t, x)
    BY <1>2, <2>4, <2>5 DEF SaysOnce
  <2>7. target = t /\ text = x
    BY <1>2, <2>3, <2>4, <2>6 DEF SaysOnce
  <2>8. k = i + last
    BY <1>5, <2>4, <2>6
  <2> QED BY <2>6, <2>7, <2>8
<1>11. IsFiniteSet(B) /\ Cardinality(ShownOf(target, text)) \in Nat
       /\ Cardinality(ToldOf(target, text)) \in Nat
  BY FiniteCounts
<1> HIDE DEF A, B
<1>12. A \subseteq B \cup {i + last}
  BY <1>10
<1>13. Cardinality(A) \in Nat /\ Cardinality(B) \in Nat /\ Cardinality(A) <= Cardinality(B) + 1
  BY <1>11, <1>12, OneMoreOf
<1>14. relayed \in [Targets -> [Texts -> Nat]] /\ relayed[target][text] \in Nat
  BY DEF TypeOK
<1>15. /\ relayed'[target][text] \in Nat /\ relayed[target][text] <= relayed'[target][text]
       /\ relayed' = Once(relayed, t, x) /\ target = t /\ text = x
            => relayed'[target][text] = relayed[target][text] + 1
  <2>1. Once(relayed, t, x)[target][text]
          = IF target = t /\ text = x THEN relayed[target][text] + 1 ELSE relayed[target][text]
    BY <1>14, OnceTyped
  <2>2. relayed' = relayed \/ relayed' = Once(relayed, t, x)
    BY <1>2 DEF SaysOnce
  <2>3. \/ relayed'[target][text] = relayed[target][text]
          /\ ~(relayed' = Once(relayed, t, x) /\ target = t /\ text = x)
        \/ relayed'[target][text] = relayed[target][text] + 1
    BY <1>14, <2>1, <2>2
  <2>4. relayed' = Once(relayed, t, x) /\ target = t /\ text = x
          => relayed'[target][text] = relayed[target][text] + 1
    BY <2>1
  <2> QED BY <1>14, <2>3, <2>4
<1>16. Cardinality(ShownOf(target, text)) + Cardinality(ToldOf(target, text)) + Cardinality(B)
         <= relayed[target][text]
  BY DEF CountInv, CountFor, B
<1>17. Cardinality(ShownOf(target, text)) + Cardinality(ToldOf(target, text)) + Cardinality(A)
         <= relayed'[target][text]
  <2>1. CASE A \subseteq B
    <3>1. Cardinality(A) <= Cardinality(B)
      BY <1>11, <2>1, FewerOf
    <3> QED BY <1>11, <1>13, <1>14, <1>15, <1>16, <3>1
  <2>2. CASE ~(A \subseteq B)
    <3>1. relayed'[target][text] = relayed[target][text] + 1
      BY <1>10, <1>15, <2>2
    <3> QED BY <1>11, <1>13, <1>14, <1>16, <3>1
  <2> QED BY <2>1, <2>2
<1> QED BY <1>8, <1>9, <1>17 DEF CountFor, A

LEMMA InitCounts == Init => CountInv
<1> SUFFICES ASSUME Init PROVE CountInv
  OBVIOUS
<1>1. /\ events = <<>> /\ lines = <<>> /\ toClient = <<>> /\ relayed = NoneSaid
  BY DEF Init
<1>2. DOMAIN events = {} /\ DOMAIN lines = {} /\ DOMAIN toClient = {}
  BY <1>1
<1> SUFFICES ASSUME NEW target \in Targets, NEW text \in Texts PROVE CountFor(target, text)
  BY <1>2 DEF CountInv
<1>3. ShownOf(target, text) = {} /\ ToldOf(target, text) = {} /\ OnWayOf(target, text) = {}
  BY <1>2 DEF ShownOf, ToldOf, OnWayOf
<1>4. relayed[target][text] = 0
  BY <1>1 DEF NoneSaid
<1>5. Cardinality({}) = 0
  BY FS_EmptySet
<1> QED BY <1>3, <1>4, <1>5 DEF CountFor

(* Every step keeps that no more is shown than was delivered. *)
LEMMA CountStep ==
  ASSUME TypeOK, TypeOK', WaitInv, BoundsInv, LabelInv, LinkInv, CountInv, [Next]_vars
  PROVE  CountInv'
<1>1. CASE \E target \in Targets, text \in Texts, written \in BOOLEAN : Send(target, text, written)
  BY <1>1, SendCounts
<1>2. CASE Receive
  BY <1>2, ReceiveCounts
<1>3. CASE Expire
  BY <1>3, ExpireCounts
<1>4. CASE HandleEvent
  BY <1>4, HandleCounts
<1>5. CASE ServerStep
  BY <1>5, ServerCounts
<1>6. CASE LinkEnds
  BY <1>6, LinkEndsCounts
<1>7. CASE Connect
  BY <1>7, ConnectCounts
<1>8. CASE UNCHANGED <<worker, events, toClient, lines, following, relayed>>
  <2>1. \A target, text : /\ ShownOf(target, text)' = ShownOf(target, text)
                          /\ ToldOf(target, text)' = ToldOf(target, text)
                          /\ OnWayOf(target, text)' = OnWayOf(target, text)
    BY <1>8 DEF ShownOf, ToldOf, OnWayOf, Brings, Carries, Known, Waits, Says3
  <2> QED BY <1>8, <2>1 DEF CountInv, CountFor
<1> QED BY <1>1, <1>2, <1>3, <1>4, <1>5, <1>6, <1>7, <1>8, NextIs, LoggingChangesNothingElse
        DEF vars, windowVars

-----------------------------------------------------------------------------
(* The theorems.                                                           *)

LEMMA ConfirmStep == TypeOK /\ ConfirmInv /\ [Next]_vars => TypeOK' /\ ConfirmInv'
<1> SUFFICES ASSUME TypeOK, ConfirmInv, [Next]_vars PROVE TypeOK' /\ ConfirmInv'
  OBVIOUS
<1>1. WaitInv /\ BoundsInv /\ LabelInv /\ LinkInv /\ TwiceInv /\ CountInv
  BY DEF ConfirmInv
<1>2. TypeOK' /\ WaitInv'
  BY <1>1, WaitStep
<1>3. BoundsInv' /\ LinkInv' /\ LabelInv'
  BY <1>1, BoundsStep, LinkStep, LabelStep
<1>4. TwiceInv'
  BY <1>1, TwiceStep
<1>5. CountInv'
  BY <1>1, <1>2, CountStep
<1> QED BY <1>2, <1>3, <1>4, <1>5 DEF ConfirmInv

LEMMA ConfirmHolds == Spec => [](TypeOK /\ ConfirmInv)
<1>1. Init => TypeOK /\ ConfirmInv
  BY InitTyped, InitWaits, InitBounded, InitLabels, InitTwice, InitCounts DEF ConfirmInv
<1>2. (TypeOK /\ ConfirmInv) /\ [Next]_vars => (TypeOK /\ ConfirmInv)'
  BY ConfirmStep
<1> QED BY <1>1, <1>2, PTL DEF Spec

(* Every record, line, event and counter keeps its type, and a line the    *)
(* window follows is a line it shows (pending_sends).                      *)
THEOREM ConfirmTypes == Spec => []TypeOK
BY ConfirmHolds, PTL

(* The window waits for exactly the messages the worker still has pending, *)
(* once it is told of what is on the way, whatever table is full and       *)
(* however answers, timeouts, lost capabilities and the end of the link    *)
(* interleave (Echoes.pending, ServerSession.pending_sends).               *)
THEOREM WaitsAsTracked == Spec => []FollowedAsTracked
<1>1. TypeOK /\ ConfirmInv => FollowedAsTracked
  BY WaitIsFollowed DEF ConfirmInv
<1> QED BY <1>1, ConfirmHolds, PTL

(* No more lines with a text are shown as delivered to a target than the   *)
(* server delivered to it: no echo, ACK or label confirms the line of      *)
(* another message with words that were not said (Echoes::observe,         *)
(* AppState::confirm_message).                                             *)
THEOREM ConfirmationsAreTrue == Spec => []ShownAsDelivered
<1>1. TypeOK /\ ConfirmInv => ShownAsDelivered
  <2> SUFFICES ASSUME TypeOK, ConfirmInv, NEW target \in Targets, NEW text \in Texts
               PROVE  Amount(lines, target, text,
                             LAMBDA l : l.status \in {"confirmed", "received"})
                        <= relayed[target][text]
    BY DEF ShownAsDelivered
  <2>1. Amount(lines, target, text, LAMBDA l : l.status \in {"confirmed", "received"})
          = Cardinality(ShownOf(target, text))
    BY DEF Amount, ShownOf
  <2>2. /\ Cardinality(ShownOf(target, text)) \in Nat /\ Cardinality(ToldOf(target, text)) \in Nat
        /\ Cardinality(OnWayOf(target, text)) \in Nat /\ relayed[target][text] \in Nat
    BY FiniteCounts DEF TypeOK
  <2>3. Cardinality(ShownOf(target, text)) <= relayed[target][text]
    BY <2>2 DEF ConfirmInv, CountInv, CountFor
  <2> QED BY <2>1, <2>3
<1> QED BY <1>1, ConfirmHolds, PTL

(* The echo of a message that the server did not change is never a line of *)
(* its own next to the line that waits for it: with labels, without, and   *)
(* while they are being withdrawn or granted (Echoes::observe).            *)
THEOREM EchoesAreRecognized == Spec => []NeverTwice
<1>1. TypeOK /\ ConfirmInv => NeverTwice
  BY DEF ConfirmInv, TwiceInv
<1> QED BY <1>1, ConfirmHolds, PTL

=============================================================================

------------------------- MODULE CredentialMoveProofs -------------------------
(***************************************************************************)
(* Theorems about CredentialMove, for every set of passwords, channel keys *)
(* and values, every store of the system and every fault.                  *)
(***************************************************************************)
EXTENDS CredentialMove, FiniteSetTheorems, FunctionTheorems, TLAPS

Jobs ==
    [op : {"set"}, key : Keys, value : Values, form : BOOLEAN]
    \cup [op : {"delete"}, key : Keys, value : {None}, form : BOOLEAN]
    \cup [op : Choices, key : {AnyKey}, value : {None}, form : {TRUE}, keys : SUBSET Keys]
Answered ==
    [op : {"set", "delete"}, key : Keys, form : BOOLEAN, ok : BOOLEAN]
    \cup [op : Choices, key : {AnyKey}, form : {TRUE}, ok : BOOLEAN]
Files == [kind : Choices, noted : SUBSET Keys]
Moves == [at : {"rest", "read", "copy", "reload", "save", "undo", "originals"},
          kind : Choices \cup {"none"}, todo : SUBSET Keys, found : Secrets,
          copied : SUBSET Keys, unavailable : BOOLEAN, read : Files \cup {NoFile}]

(* The types of TypeOK in full.                                            *)
Shape ==
    /\ file \in Files
    /\ running \in BOOLEAN /\ current \in Choices
    /\ move \in Moves
    /\ edited = NotEdited \/ edited \in [file : Files, form : BOOLEAN]
    /\ saved \in [Keys -> Values \cup {None, Unknown}]
    /\ lostUpdate \in BOOLEAN

(* Entries of a queue whose result the settings window waits for.          *)
FormsIn(entries) == Cardinality({i \in DOMAIN entries : entries[i].form})

(* The settings window waits for exactly the results still to come.        *)
QueueInv ==
    /\ queue \in Seq(Jobs)
    /\ answers \in Seq(Answered)
    /\ window \in [noted : SUBSET Keys, pending : BOOLEAN, waits : Nat]
    /\ window.waits = FormsIn(queue) + FormsIn(answers)

(* A process that does not run has nothing under way; a move is the job at *)
(* the head of the queue, from the store in use to the other one.          *)
MoveInv ==
    /\ ~running => queue = <<>> /\ answers = <<>> /\ move = AtRest /\ edited = NotEdited
    /\ move # AtRest =>
          /\ move.at # "rest" /\ queue # <<>> /\ move.kind = queue[1].op
          /\ move.kind \in Choices /\ move.kind # current
    /\ move.at = "save" => move.read \in Files /\ move.read.kind = move.kind
    /\ move.at = "reload" => move.unavailable /\ move.todo = {}
    /\ move.at \in {"read", "copy"} => ~move.unavailable
    /\ move.at = "copy" => \A k \in move.todo : move.found[k] \in Values

(* What a store has cached is what it holds; the file is not cached.       *)
Coherent(s) ==
    \A k \in Keys : \/ s.cache[k] = Unread
                    \/ s.cache[k] = s.item[k] /\ s.kind # "local_file"

StoresInv == stores \in [Choices -> Stores] /\ \A c \in Choices : Coherent(stores[c])

(* The store answers a read of the key with this value, from its item or   *)
(* from an entry of an earlier version that it has not looked at.          *)
Has(s, k, v) ==
    \/ s.item[k] = v
    \/ /\ s.kind = "vault" /\ s.item[k] = None
       /\ s.separate[k] = v /\ k \notin s.checked

(* The store that the settings file names. *)
InUse == IF move.at = "originals" THEN move.kind ELSE current

(* What the user was told is saved is in the store the file names, for     *)
(* this process and for the next one; and how far a move is with it.       *)
Safe(k) ==
    /\ running => Has(stores[file.kind], k, saved[k])
    /\ Has(Opened(stores[file.kind]), k, saved[k])
Moved(k) ==
    /\ move.at = "read" => k \in move.todo \/ move.found[k] = saved[k]
    /\ move.at = "copy" =>
          /\ move.found[k] = saved[k]
          /\ k \in move.todo \/ Has(stores[move.kind], k, saved[k])
    /\ move.at = "save" => move.unavailable \/ Has(stores[move.kind], k, saved[k])

Chosen == running => file.kind = InUse
SecretsInv ==
    ~lostUpdate =>
       /\ Chosen
       /\ \A k \in Passwords : saved[k] \in Values => Safe(k) /\ Moved(k)

MovingInv == Shape /\ QueueInv /\ StoresInv /\ MoveInv /\ SecretsInv

-----------------------------------------------------------------------------
(* The stores. *)

LEMMA ValueFacts ==
  /\ None \notin Values /\ Unread \notin Values /\ None # Unread
  /\ Values \subseteq Nat /\ None \in Values \cup {None}
  BY SecretBackendsAssumption DEF None, Unread

(* Reading the vault changes only what is cached. *)
LEMMA LoadedIs ==
  ASSUME NEW s \in Stores, Coherent(s), s.kind = "vault"
  PROVE  /\ Loaded(s) \in Stores /\ Coherent(Loaded(s))
         /\ Loaded(s).kind = s.kind /\ Loaded(s).item = s.item
         /\ Loaded(s).separate = s.separate /\ Loaded(s).checked = s.checked
         /\ Loaded(s).cache = s.item
<1>1. /\ s.kind \in Kinds /\ s.item \in Secrets /\ s.separate \in Secrets
      /\ s.cache \in [Keys -> Values \cup {None, Unread}] /\ s.checked \in SUBSET Keys
  BY DEF Stores
<1> USE DEF Kinds
<1>2. CASE \A k \in Keys : s.cache[k] # Unread
  <2>1. \A k \in Keys : s.cache[k] = s.item[k]
    BY <1>2 DEF Coherent
  <2>2. s.cache = s.item
    BY <1>1, <2>1 DEF Secrets
  <2> QED BY <1>2, <2>2 DEF Loaded
<1>3. CASE ~(\A k \in Keys : s.cache[k] # Unread)
  <2>1. Loaded(s) = [s EXCEPT !.cache = s.item]
    BY <1>3 DEF Loaded
  <2>2. s.item \in [Keys -> Values \cup {None, Unread}]
    BY <1>1 DEF Secrets
  <2>3. /\ Loaded(s) \in Stores
        /\ Loaded(s).kind = s.kind /\ Loaded(s).item = s.item
        /\ Loaded(s).separate = s.separate /\ Loaded(s).checked = s.checked
        /\ Loaded(s).cache = s.item
    BY <2>1, <2>2 DEF Stores
  <2> QED BY <2>3 DEF Coherent
<1> QED BY <1>2, <1>3

LEMMA PutIs ==
  ASSUME NEW s \in Stores, Coherent(s), NEW k \in Keys, NEW v \in Values \cup {None}
  PROVE  /\ Put(s, k, v) \in Stores /\ Coherent(Put(s, k, v))
         /\ Put(s, k, v).kind = s.kind /\ Put(s, k, v).item = [s.item EXCEPT ![k] = v]
         /\ Put(s, k, v).separate = s.separate /\ Put(s, k, v).checked = s.checked
<1>1. /\ s.kind \in Kinds /\ s.item \in Secrets /\ s.separate \in Secrets
      /\ s.cache \in [Keys -> Values \cup {None, Unread}] /\ s.checked \in SUBSET Keys
  BY DEF Stores
<1> DEFINE known == IF s.kind = "local_file" THEN s.cache[k] ELSE v
<1> DEFINE t == [s EXCEPT !.item = [s.item EXCEPT ![k] = v],
                          !.cache = [s.cache EXCEPT ![k] = known]]
<1>2. Put(s, k, v) = t
  BY <1>1 DEF Put, Stores
<1>3. /\ [s.item EXCEPT ![k] = v] \in Secrets
      /\ [s.cache EXCEPT ![k] = known] \in [Keys -> Values \cup {None, Unread}]
  BY <1>1 DEF Secrets
<1>4. /\ t \in Stores /\ t.kind = s.kind /\ t.item = [s.item EXCEPT ![k] = v]
      /\ t.separate = s.separate /\ t.checked = s.checked
      /\ t.cache = [s.cache EXCEPT ![k] = known]
  BY <1>3 DEF Stores
<1>5. (known = v /\ s.kind # "local_file") \/ known = Unread
  BY DEF Coherent
<1> HIDE DEF t, known
<1>6. Coherent(t)
  BY <1>1, <1>4, <1>5 DEF Coherent, Secrets
<1> QED BY <1>2, <1>4, <1>6

LEMMA ClearIs ==
  ASSUME NEW s \in Stores, Coherent(s), NEW k \in Keys, NEW fails
  PROVE  LET t == ClearSeparate(s, k, fails)
         IN  /\ t \in Stores /\ Coherent(t)
             /\ t.kind = s.kind /\ t.item = s.item
             /\ \A j \in Keys : j # k => t.separate[j] = s.separate[j]
             /\ t.checked = s.checked \cup {k}
<1> DEFINE entry == IF "remove" \in fails THEN s.separate[k] ELSE None
<1> DEFINE t == [s EXCEPT !.checked = @ \cup {k},
                          !.separate = [s.separate EXCEPT ![k] = entry]]
<1>1. /\ s.kind \in Kinds /\ s.item \in Secrets /\ s.separate \in Secrets
      /\ s.cache \in [Keys -> Values \cup {None, Unread}] /\ s.checked \in SUBSET Keys
  BY DEF Stores
<1>2. CASE k \in s.checked
  BY <1>1, <1>2 DEF ClearSeparate
<1>3. CASE k \notin s.checked
  <2>1. ClearSeparate(s, k, fails) = t
    BY <1>1, <1>3 DEF ClearSeparate, Stores
  <2>2. entry \in Values \cup {None}
    BY <1>1 DEF Secrets
  <2> HIDE DEF entry
  <2>3. [s.separate EXCEPT ![k] = entry] \in Secrets /\ s.checked \cup {k} \in SUBSET Keys
    BY <1>1, <2>2 DEF Secrets
  <2>4. /\ t \in Stores /\ t.kind = s.kind /\ t.item = s.item /\ t.cache = s.cache
        /\ t.separate = [s.separate EXCEPT ![k] = entry] /\ t.checked = s.checked \cup {k}
    BY <2>3 DEF Stores
  <2>5. \A j \in Keys : j # k => t.separate[j] = s.separate[j]
    BY <1>1, <2>4 DEF Secrets
  <2> HIDE DEF t
  <2> QED BY <2>1, <2>4, <2>5 DEF Coherent
<1> QED BY <1>2, <1>3

(* What a read answers now, and after a restart. *)
LEMMA SeenIs ==
  ASSUME NEW s \in Stores, Coherent(s), NEW k \in Keys
  PROVE  /\ \A v \in Values : Seen(s, k) = v <=> Has(s, k, v)
         /\ Seen(s, k) \in Values \cup {None}
<1>1. /\ s.kind \in Kinds /\ s.item[k] \in Values \cup {None}
      /\ s.separate[k] \in Values \cup {None}
      /\ s.cache \in [Keys -> Values \cup {None, Unread}]
  BY DEF Stores, Secrets
<1>2. ~ReadFails(s, k, {})
  BY DEF ReadFails
<1>3. CASE s.kind = "local_file"
  <2>1. Seen(s, k) = s.item[k]
    BY <1>2, <1>3 DEF Seen, Get, Answer
  <2> QED BY <1>1, <1>3, <2>1 DEF Has
<1>4. CASE s.kind = "entries"
  <2>1. Seen(s, k) = s.item[k]
    <3>1. CASE s.cache[k] = Unread
      <4> DEFINE known == [s EXCEPT !.cache = [s.cache EXCEPT ![k] = s.item[k]]]
      <4>1. Seen(s, k) = known.cache[k]
        BY <1>2, <1>4, <3>1 DEF Seen, Get, Answer, Stores
      <4>2. known.cache = [s.cache EXCEPT ![k] = s.item[k]]
        BY DEF Stores
      <4> QED BY <1>1, <4>1, <4>2
    <3>2. CASE s.cache[k] # Unread
      BY <1>2, <1>4, <3>2 DEF Seen, Get, Answer, Coherent
    <3> QED BY <3>1, <3>2
  <2> QED BY <1>1, <1>4, <2>1 DEF Has
<1>5. CASE s.kind = "vault"
  <2> DEFINE t == Loaded(s)
  <2>1. /\ t.kind = s.kind /\ t.item = s.item /\ t.separate = s.separate
        /\ t.checked = s.checked /\ t.cache = s.item
    BY <1>5, LoadedIs
  <2>2. Seen(s, k) = GetFromVault(t, k, {}).value
    BY <1>2, <1>5 DEF Seen, Get
  <2> HIDE DEF t
  <2>3. GetFromVault(t, k, {}).value =
           IF s.item[k] # None THEN s.item[k]
           ELSE IF k \in s.checked THEN None ELSE s.separate[k]
    BY <2>1 DEF GetFromVault, Answer, Done
  <2> QED BY <1>1, <1>5, <2>2, <2>3, ValueFacts DEF Has
<1> QED BY <1>1, <1>3, <1>4, <1>5 DEF Kinds

LEMMA OpenedIs ==
  ASSUME NEW s \in Stores
  PROVE  /\ Opened(s) \in Stores /\ Coherent(Opened(s))
         /\ Opened(s).kind = s.kind /\ Opened(s).item = s.item
         /\ Opened(s).separate = s.separate /\ Opened(s).checked = {}
         /\ \A k, v : Has(s, k, v) => Has(Opened(s), k, v)
<1>1. NothingRead \in [Keys -> Values \cup {None, Unread}] /\ {} \in SUBSET Keys
  BY DEF NothingRead
<1>2. /\ Opened(s) \in Stores /\ Opened(s).kind = s.kind /\ Opened(s).item = s.item
      /\ Opened(s).separate = s.separate /\ Opened(s).checked = {}
      /\ Opened(s).cache = NothingRead
  BY <1>1 DEF Opened, Stores
<1> QED BY <1>2 DEF Coherent, NothingRead, Has

LEMMA KeptIs ==
  ASSUME NEW s \in Stores, NEW k \in Keys, NEW v \in Values
  PROVE  Kept(s, k) = v <=> Has(Opened(s), k, v)
  BY OpenedIs, SeenIs DEF Kept

(* What a store did that failed or not: every other secret is answered as  *)
(* before.                                                                 *)
KeepsOthers(s, t, k) ==
    /\ t \in Stores /\ Coherent(t) /\ t.kind = s.kind
    /\ \A j \in Keys \ {k}, v \in Values :
          /\ Has(s, j, v) => Has(t, j, v)
          /\ Has(Opened(s), j, v) => Has(Opened(t), j, v)

LEMMA SameAnswers ==
  ASSUME NEW s \in Stores, NEW t \in Stores, t.kind = s.kind, NEW j \in Keys,
         t.item[j] = s.item[j], t.separate[j] = s.separate[j],
         j \in t.checked => j \in s.checked
  PROVE  \A v : /\ Has(s, j, v) => Has(t, j, v)
                /\ Has(Opened(s), j, v) => Has(Opened(t), j, v)
  BY OpenedIs DEF Has

LEMMA PutKeepsOthers ==
  ASSUME NEW s \in Stores, Coherent(s), NEW k \in Keys, NEW v \in Values \cup {None}
  PROVE  /\ KeepsOthers(s, Put(s, k, v), k)
         /\ Has(Put(s, k, v), k, v) /\ Has(Opened(Put(s, k, v)), k, v)
<1> DEFINE t == Put(s, k, v)
<1>1. /\ t \in Stores /\ Coherent(t) /\ t.kind = s.kind
      /\ t.item = [s.item EXCEPT ![k] = v]
      /\ t.separate = s.separate /\ t.checked = s.checked
  BY PutIs
<1>2. s.item \in Secrets
  BY DEF Stores
<1> HIDE DEF t
<1>3. t.item[k] = v /\ \A j \in Keys \ {k} : t.item[j] = s.item[j]
  BY <1>1, <1>2 DEF Secrets
<1>4. KeepsOthers(s, t, k)
  BY <1>1, <1>3, SameAnswers DEF KeepsOthers
<1>5. Has(t, k, v) /\ Has(Opened(t), k, v)
  BY <1>1, <1>3, OpenedIs DEF Has
<1> QED BY <1>4, <1>5 DEF t

LEMMA ClearKeepsOthers ==
  ASSUME NEW s \in Stores, Coherent(s), NEW k \in Keys, NEW fails
  PROVE  /\ KeepsOthers(s, ClearSeparate(s, k, fails), k)
         /\ \A v \in Values : s.item[k] = v =>
               /\ Has(ClearSeparate(s, k, fails), k, v)
               /\ Has(Opened(ClearSeparate(s, k, fails)), k, v)
<1> DEFINE t == ClearSeparate(s, k, fails)
<1>1. /\ t \in Stores /\ Coherent(t) /\ t.kind = s.kind /\ t.item = s.item
      /\ \A j \in Keys : j # k => t.separate[j] = s.separate[j]
      /\ t.checked = s.checked \cup {k}
  BY ClearIs
<1> HIDE DEF t
<1>2. KeepsOthers(s, t, k)
  BY <1>1, SameAnswers DEF KeepsOthers
<1>3. \A v \in Values : s.item[k] = v => Has(t, k, v) /\ Has(Opened(t), k, v)
  BY <1>1, OpenedIs DEF Has
<1> QED BY <1>2, <1>3 DEF t

LEMMA LoadedKeeps ==
  ASSUME NEW s \in Stores, Coherent(s), s.kind = "vault", NEW k \in Keys
  PROVE  /\ KeepsOthers(s, Loaded(s), k)
         /\ \A v : /\ Has(s, k, v) => Has(Loaded(s), k, v)
                   /\ Has(Opened(s), k, v) => Has(Opened(Loaded(s)), k, v)
  BY LoadedIs, SameAnswers DEF KeepsOthers

LEMMA KeepsOthersChain ==
  ASSUME NEW s, NEW t, NEW u, NEW k, KeepsOthers(s, t, k), KeepsOthers(t, u, k)
  PROVE  KeepsOthers(s, u, k)
  BY DEF KeepsOthers

LEMMA KeepsOthersItself ==
  ASSUME NEW s \in Stores, Coherent(s), NEW k
  PROVE  KeepsOthers(s, s, k)
  BY DEF KeepsOthers

(* A write that is done is answered from now on; one that is refused has   *)
(* left the secret as it was.                                              *)
Written(s, k, v, done) ==
    /\ KeepsOthers(s, done.store, k)
    /\ done.error = "" => Has(done.store, k, v) /\ Has(Opened(done.store), k, v)
    /\ done.error # "" => \A w :
          /\ Has(s, k, w) => Has(done.store, k, w)
          /\ Has(Opened(s), k, w) => Has(Opened(done.store), k, w)

LEMMA SetIs ==
  ASSUME NEW s \in Stores, Coherent(s), NEW k \in Keys, NEW v \in Values, NEW fails
  PROVE  Written(s, k, v, Set(s, k, v, fails))
<1>1. Written(s, k, v, Answer(s, "refused", None))
  BY KeepsOthersItself DEF Answer, Written
<1>2. ASSUME NEW t, KeepsOthers(s, t, k), Has(t, k, v), Has(Opened(t), k, v)
      PROVE  Written(s, k, v, Done(t))
  BY <1>2 DEF Done, Answer, Written
<1>3. Written(s, k, v, Done(Put(s, k, v)))
  <2>1. v \in Values \cup {None}
    OBVIOUS
  <2> QED BY <1>2, <2>1, PutKeepsOthers
<1>4. CASE s.kind = "local_file"
  <2>1. \/ Set(s, k, v, fails) = Answer(s, "refused", None)
        \/ Set(s, k, v, fails) = Done(Put(s, k, v))
    BY <1>4 DEF Set
  <2> QED BY <1>1, <1>3, <2>1
<1>5. CASE s.kind = "entries"
  <2>1. \/ Set(s, k, v, fails) = Answer(s, "refused", None)
        \/ Set(s, k, v, fails) = Done(Put(s, k, v))
        \/ Set(s, k, v, fails) = Done(s) /\ s.cache[k] = v
    BY <1>5 DEF Set
  <2>2. ASSUME s.cache[k] = v PROVE Written(s, k, v, Done(s))
    <3>1. Has(s, k, v)
      BY <2>2, ValueFacts DEF Coherent, Has
    <3> QED BY <1>2, <3>1, KeepsOthersItself, OpenedIs
  <2> QED BY <1>1, <1>3, <2>1, <2>2
<1>6. CASE s.kind = "vault"
  <2> DEFINE t == Loaded(s)
  <2>1. t \in Stores /\ Coherent(t) /\ KeepsOthers(s, t, k)
        /\ \A w : /\ Has(s, k, w) => Has(t, k, w)
                  /\ Has(Opened(s), k, w) => Has(Opened(t), k, w)
    BY <1>6, LoadedIs, LoadedKeeps
  <2> HIDE DEF t
  <2>2. Written(s, k, v, Answer(t, "refused", None))
    <3>1. Answer(t, "refused", None).store = t /\ Answer(t, "refused", None).error # ""
      BY DEF Answer
    <3> QED BY <2>1, <3>1, Zenon DEF Written
  <2> DEFINE u == Put(t, k, v)
  <2> DEFINE w == ClearSeparate(u, k, fails)
  <2>3. /\ u \in Stores /\ Coherent(u) /\ KeepsOthers(t, u, k)
        /\ u.item = [t.item EXCEPT ![k] = v] /\ t.item \in Secrets
    <3>1. v \in Values \cup {None}
      OBVIOUS
    <3>2. t.item \in Secrets
      BY <2>1 DEF Stores
    <3> QED BY <2>1, <3>1, <3>2, PutIs, PutKeepsOthers
  <2>4. u.item[k] = v
    BY <2>3 DEF Secrets
  <2> HIDE DEF u
  <2>5. KeepsOthers(u, w, k) /\ Has(w, k, v) /\ Has(Opened(w), k, v)
    BY <2>3, <2>4, ClearKeepsOthers
  <2> HIDE DEF w
  <2>6. KeepsOthers(s, w, k)
    BY <2>1, <2>3, <2>5, KeepsOthersChain
  <2>7. Written(s, k, v, Done(w))
    BY <1>2, <2>5, <2>6
  <2>8. \/ Set(s, k, v, fails) = Answer(s, "refused", None)
        \/ Set(s, k, v, fails) = Answer(t, "refused", None)
        \/ Set(s, k, v, fails) = Done(w)
    BY <1>6 DEF Set, SetInVault, t, u, w
  <2> QED BY <1>1, <2>2, <2>7, <2>8
<1>7. s.kind \in Kinds
  BY DEF Stores
<1> QED BY <1>4, <1>5, <1>6, <1>7 DEF Kinds

(* A removal leaves the others as they were. *)
LEMMA DeleteIs ==
  ASSUME NEW s \in Stores, Coherent(s), NEW k \in Keys, NEW fails
  PROVE  KeepsOthers(s, Delete(s, k, fails).store, k)
<1>1. s.kind \in Kinds /\ KeepsOthers(s, s, k) /\ KeepsOthers(s, Put(s, k, None), k)
  BY KeepsOthersItself, PutKeepsOthers, ValueFacts DEF Stores
<1>2. CASE s.kind = "local_file" \/ s.kind = "entries"
  <2>1. \/ Delete(s, k, fails).store = s
        \/ Delete(s, k, fails).store = Put(s, k, None)
    BY <1>2 DEF Delete, Done, Answer
  <2> QED BY <1>1, <2>1
<1>3. CASE s.kind = "vault"
  <2> DEFINE t == Loaded(s)
  <2> DEFINE u == Put(t, k, None)
  <2>1. t \in Stores /\ Coherent(t) /\ KeepsOthers(s, t, k)
    BY <1>3, LoadedIs, LoadedKeeps
  <2> HIDE DEF t
  <2>2. u \in Stores /\ Coherent(u) /\ KeepsOthers(t, u, k)
    BY <2>1, ValueFacts, PutIs, PutKeepsOthers
  <2> HIDE DEF u
  <2>3. KeepsOthers(s, ClearSeparate(u, k, fails), k)
    BY <2>1, <2>2, ClearKeepsOthers, KeepsOthersChain
  <2>4. \/ Delete(s, k, fails).store = s
        \/ Delete(s, k, fails).store = t
        \/ Delete(s, k, fails).store = ClearSeparate(u, k, fails)
    BY <1>3 DEF Delete, DeleteFromVault, Answer, t, u
  <2> QED BY <1>1, <2>1, <2>3, <2>4
<1> QED BY <1>1, <1>2, <1>3 DEF Kinds

(* A read answers what the store has, moved out of an old entry or not.    *)
Answers(s, k, got) ==
    /\ KeepsOthers(s, got.store, k)
    /\ \A v \in Values : Has(s, k, v) =>
          /\ Has(got.store, k, v) /\ Has(Opened(got.store), k, v)
          /\ got.error = "" => got.value = v
    /\ got.value \in Values \cup {None}

LEMMA GetIs ==
  ASSUME NEW s \in Stores, Coherent(s), NEW k \in Keys, NEW fails
  PROVE  Answers(s, k, Get(s, k, fails))
<1>1. /\ s.kind \in Kinds /\ s.item \in Secrets /\ s.separate \in Secrets
      /\ s.cache \in [Keys -> Values \cup {None, Unread}] /\ s.checked \in SUBSET Keys
      /\ s.item[k] \in Values \cup {None} /\ s.separate[k] \in Values \cup {None}
      /\ \A v : Has(s, k, v) => Has(Opened(s), k, v)
  BY OpenedIs DEF Stores, Secrets
<1>2. ASSUME NEW t, KeepsOthers(s, t, k), NEW error, NEW value \in Values \cup {None},
             \A v \in Values : Has(s, k, v) =>
                (error = "" => value = v) /\ Has(t, k, v) /\ Has(Opened(t), k, v)
      PROVE  Answers(s, k, Answer(t, error, value))
  <2>1. Answer(t, error, value).store = t /\ Answer(t, error, value).error = error
        /\ Answer(t, error, value).value = value
    BY DEF Answer
  <2> QED BY <1>2, <2>1 DEF Answers
<1>3. Answers(s, k, Answer(s, "refused", None))
  BY <1>1, <1>2, KeepsOthersItself
<1>4. CASE s.kind = "local_file"
  <2>1. \A v \in Values : Has(s, k, v) => s.item[k] = v
    BY <1>4 DEF Has
  <2>2. Answers(s, k, Answer(s, "", s.item[k]))
    BY <1>1, <1>2, <2>1, KeepsOthersItself
  <2>3. \/ Get(s, k, fails) = Answer(s, "refused", None)
        \/ Get(s, k, fails) = Answer(s, "", s.item[k])
    BY <1>4 DEF Get
  <2> QED BY <1>3, <2>2, <2>3
<1>5. CASE s.kind = "entries"
  <2> DEFINE known == IF s.cache[k] = Unread
                      THEN [s EXCEPT !.cache[k] = s.item[k]] ELSE s
  <2>1. /\ known \in Stores /\ Coherent(known) /\ known.kind = s.kind
        /\ known.item = s.item /\ known.separate = s.separate
        /\ known.checked = s.checked /\ known.cache[k] = s.item[k]
    <3>1. CASE s.cache[k] = Unread
      <4> DEFINE t == [s EXCEPT !.cache = [s.cache EXCEPT ![k] = s.item[k]]]
      <4>1. known = t
        BY <3>1 DEF Stores
      <4>2. [s.cache EXCEPT ![k] = s.item[k]] \in [Keys -> Values \cup {None, Unread}]
        BY <1>1
      <4>3. /\ t \in Stores /\ t.kind = s.kind /\ t.item = s.item
            /\ t.separate = s.separate /\ t.checked = s.checked
            /\ t.cache = [s.cache EXCEPT ![k] = s.item[k]]
        BY <4>2 DEF Stores
      <4> HIDE DEF t, known
      <4>4. Coherent(t) /\ t.cache[k] = s.item[k]
        BY <1>1, <1>5, <4>3 DEF Coherent
      <4> QED BY <4>1, <4>3, <4>4
    <3>2. CASE s.cache[k] # Unread
      BY <3>2 DEF Coherent
    <3> QED BY <3>1, <3>2
  <2>2. \/ Get(s, k, fails) = Answer(s, "refused", None)
        \/ Get(s, k, fails) = Answer(known, "", known.cache[k])
    BY <1>5 DEF Get
  <2> HIDE DEF known
  <2>3. KeepsOthers(s, known, k)
    BY <2>1, SameAnswers DEF KeepsOthers
  <2>4. \A v \in Values : Has(s, k, v) =>
           known.cache[k] = v /\ Has(known, k, v) /\ Has(Opened(known), k, v)
    BY <1>5, <2>1, OpenedIs DEF Has
  <2>5. known.cache[k] \in Values \cup {None}
    BY <1>1, <2>1
  <2>6. Answers(s, k, Answer(known, "", known.cache[k]))
    BY <1>2, <2>3, <2>4, <2>5
  <2> QED BY <1>3, <2>2, <2>6
<1>6. CASE s.kind = "vault"
  <2> DEFINE t == Loaded(s)
  <2>1. /\ t \in Stores /\ Coherent(t) /\ KeepsOthers(s, t, k)
        /\ t.kind = "vault" /\ t.item = s.item /\ t.separate = s.separate
        /\ t.checked = s.checked /\ t.cache = s.item
    BY <1>6, LoadedIs, LoadedKeeps
  <2>2. \A v : Has(s, k, v) => Has(t, k, v) /\ Has(Opened(t), k, v)
    <3>1. /\ KeepsOthers(s, t, k)
          /\ \A v : /\ Has(s, k, v) => Has(t, k, v)
                    /\ Has(Opened(s), k, v) => Has(Opened(t), k, v)
      BY <1>6, LoadedKeeps
    <3> QED BY <1>1, <3>1, Zenon
  <2>3. \/ Get(s, k, fails) = Answer(s, "refused", None)
        \/ Get(s, k, fails) = GetFromVault(t, k, fails)
    BY <1>6 DEF Get
  <2> HIDE DEF t
  <2>4. CASE s.item[k] # None
    <3>1. \A v \in Values : Has(s, k, v) => s.item[k] = v
      BY <2>4 DEF Has
    <3>2. Answers(s, k, Answer(t, "", s.item[k]))
      BY <1>1, <1>2, <2>1, <2>2, <3>1
    <3>3. GetFromVault(t, k, fails) = Answer(t, "", s.item[k])
      BY <2>1, <2>4 DEF GetFromVault
    <3> QED BY <1>3, <2>3, <3>2, <3>3
  <2>5. CASE s.item[k] = None /\ k \in s.checked
    <3>1. \A v \in Values : ~Has(s, k, v)
      BY <2>5, ValueFacts DEF Has
    <3>2. Answers(s, k, Answer(t, "", None))
      BY <1>2, <2>1, <3>1, ValueFacts
    <3>3. GetFromVault(t, k, fails) = Answer(t, "", None)
      BY <2>1, <2>5 DEF GetFromVault, Done
    <3> QED BY <1>3, <2>3, <3>2, <3>3
  <2>6. CASE s.item[k] = None /\ k \notin s.checked
    <3>1. Answers(s, k, Answer(t, "refused", None))
      BY <1>2, <2>1, <2>2, ValueFacts
    <3>2. CASE s.separate[k] = None
      <4> DEFINE u == [t EXCEPT !.checked = t.checked \cup {k}]
      <4>1. /\ u \in Stores /\ u.kind = t.kind /\ u.item = t.item
            /\ u.separate = t.separate /\ u.cache = t.cache
            /\ u.checked = t.checked \cup {k}
        BY <2>1 DEF Stores
      <4>2. \/ GetFromVault(t, k, fails) = Answer(t, "refused", None)
            \/ GetFromVault(t, k, fails) = Answer(u, "", None)
        BY <2>1, <2>6, <3>2 DEF GetFromVault, Done
      <4> HIDE DEF u
      <4>3. Coherent(u) /\ KeepsOthers(t, u, k)
        BY <2>1, <4>1, SameAnswers DEF KeepsOthers, Coherent
      <4>4. KeepsOthers(s, u, k)
        BY <2>1, <4>3, KeepsOthersChain
      <4>5. \A v \in Values : ~Has(s, k, v)
        BY <2>6, <3>2, ValueFacts DEF Has
      <4>6. Answers(s, k, Answer(u, "", None))
        BY <1>2, <4>4, <4>5, ValueFacts
      <4> QED BY <1>3, <2>3, <3>1, <4>2, <4>6
    <3>3. CASE s.separate[k] # None
      <4> DEFINE v == s.separate[k]
      <4> DEFINE u == ClearSeparate(Put(t, k, v), k, fails)
      <4>1. v \in Values /\ v \in Values \cup {None}
        BY <1>1, <3>3
      <4>2. \/ GetFromVault(t, k, fails) = Answer(t, "refused", None)
            \/ GetFromVault(t, k, fails) = Answer(t, "", v)
            \/ GetFromVault(t, k, fails) = Answer(u, "", v)
        BY <2>1, <2>6, <3>3 DEF GetFromVault
      <4>3. \A w \in Values : Has(s, k, w) => w = v
        BY <2>6, ValueFacts DEF Has
      <4> HIDE DEF v
      <4>4. /\ Put(t, k, v) \in Stores /\ Coherent(Put(t, k, v))
            /\ KeepsOthers(t, Put(t, k, v), k)
            /\ Put(t, k, v).item = [t.item EXCEPT ![k] = v]
        BY <2>1, <4>1, PutIs, PutKeepsOthers
      <4>5. Put(t, k, v).item[k] = v
        BY <1>1, <2>1, <4>4 DEF Secrets
      <4>6. KeepsOthers(Put(t, k, v), u, k) /\ Has(u, k, v) /\ Has(Opened(u), k, v)
        BY <4>1, <4>4, <4>5, ClearKeepsOthers
      <4> HIDE DEF u
      <4>7. KeepsOthers(s, u, k)
        BY <2>1, <4>4, <4>6, KeepsOthersChain
      <4>8. Answers(s, k, Answer(u, "", v))
        BY <1>2, <4>1, <4>3, <4>6, <4>7
      <4>9. Answers(s, k, Answer(t, "", v))
        BY <1>2, <2>1, <2>2, <4>1, <4>3
      <4> QED BY <1>3, <2>3, <3>1, <4>2, <4>8, <4>9
    <3> QED BY <3>2, <3>3
  <2> QED BY <2>4, <2>5, <2>6
<1> QED BY <1>1, <1>4, <1>5, <1>6 DEF Kinds


-----------------------------------------------------------------------------
(* The queues. *)

LEMMA HeadAndTail ==
  ASSUME NEW S, NEW q \in Seq(S), q # <<>>
  PROVE  /\ q[1] \in S /\ Tail(q) \in Seq(S) /\ Len(q) \in Nat \ {0}
         /\ DOMAIN q = 1..Len(q) /\ DOMAIN Tail(q) = 1..(Len(q) - 1)
         /\ \A i \in 1..(Len(q) - 1) : Tail(q)[i] = q[i + 1]
  OBVIOUS

LEMMA AppendType ==
  ASSUME NEW S, NEW q \in Seq(S), NEW e \in S
  PROVE  /\ Append(q, e) \in Seq(S) /\ Append(q, e) # <<>> /\ Len(q) \in Nat
         /\ DOMAIN q = 1..Len(q) /\ DOMAIN Append(q, e) = 1..(Len(q) + 1)
         /\ \A i \in 1..Len(q) : Append(q, e)[i] = q[i]
         /\ Append(q, e)[Len(q) + 1] = e
  OBVIOUS

LEMMA FormsOfNone == FormsIn(<<>>) = 0
<1>1. {i \in DOMAIN <<>> : <<>>[i].form} = {}
  OBVIOUS
<1> QED BY <1>1, FS_EmptySet DEF FormsIn

LEMMA FormsType ==
  ASSUME NEW S, NEW q \in Seq(S)
  PROVE  /\ FormsIn(q) \in Nat /\ IsFiniteSet({i \in DOMAIN q : q[i].form})
<1>1. DOMAIN q = 1..Len(q) /\ 1 \in Int /\ Len(q) \in Int
  OBVIOUS
<1>2. IsFiniteSet(DOMAIN q)
  BY <1>1, FS_Interval
<1>3. {i \in DOMAIN q : q[i].form} \in SUBSET (DOMAIN q)
  OBVIOUS
<1>4. IsFiniteSet({i \in DOMAIN q : q[i].form})
  BY <1>2, <1>3, FS_Subset
<1> QED BY <1>4, FS_CardinalityType DEF FormsIn

LEMMA FormsAppended ==
  ASSUME NEW S, NEW q \in Seq(S), NEW e \in S
  PROVE  FormsIn(Append(q, e)) = FormsIn(q) + IF e.form THEN 1 ELSE 0
<1> DEFINE these == {i \in DOMAIN q : q[i].form}
<1>1. /\ Append(q, e) \in Seq(S) /\ Len(q) \in Nat
      /\ DOMAIN q = 1..Len(q) /\ DOMAIN Append(q, e) = 1..(Len(q) + 1)
      /\ \A i \in 1..Len(q) : Append(q, e)[i] = q[i]
      /\ Append(q, e)[Len(q) + 1] = e
  BY AppendType
<1>2. {i \in DOMAIN Append(q, e) : Append(q, e)[i].form} =
         IF e.form THEN these \cup {Len(q) + 1} ELSE these
  BY <1>1
<1>3. Len(q) + 1 \notin these /\ IsFiniteSet(these) /\ Cardinality(these) \in Nat
  BY <1>1, FormsType DEF FormsIn
<1>4. FormsIn(q) = Cardinality(these)
  BY DEF FormsIn
<1> HIDE DEF these
<1>5. Cardinality(these \cup {Len(q) + 1}) = Cardinality(these) + 1
  BY <1>3, FS_AddElement
<1>6. FormsIn(Append(q, e)) =
         Cardinality(IF e.form THEN these \cup {Len(q) + 1} ELSE these)
  BY <1>2 DEF FormsIn
<1>7. CASE e.form
  BY <1>3, <1>4, <1>5, <1>6, <1>7
<1>8. CASE ~e.form
  BY <1>3, <1>4, <1>6, <1>8
<1> QED BY <1>7, <1>8

LEMMA FormsTaken ==
  ASSUME NEW S, NEW q \in Seq(S), q # <<>>
  PROVE  FormsIn(q) = FormsIn(Tail(q)) + IF q[1].form THEN 1 ELSE 0
<1> DEFINE these == {i \in DOMAIN q : q[i].form}
<1> DEFINE rest == {i \in DOMAIN Tail(q) : Tail(q)[i].form}
<1> DEFINE back == [i \in rest |-> i + 1]
<1>1. /\ Len(q) \in Nat \ {0}
      /\ DOMAIN q = 1..Len(q) /\ DOMAIN Tail(q) = 1..(Len(q) - 1)
      /\ \A i \in 1..(Len(q) - 1) : Tail(q)[i] = q[i + 1]
  BY HeadAndTail
<1>2. IsFiniteSet(these) /\ IsFiniteSet(rest) /\ IsFiniteSet(these \ {1})
  <2>1. Tail(q) \in Seq(S)
    BY HeadAndTail
  <2>2. IsFiniteSet(these) /\ IsFiniteSet(rest)
    BY <2>1, FormsType
  <2> HIDE DEF these, rest
  <2> QED BY <2>2, FS_RemoveElement
<1>3. back \in Bijection(rest, these \ {1})
  <2>1. back \in [rest -> these \ {1}]
    BY <1>1
  <2>2. \A i, j \in rest : back[i] = back[j] => i = j
    BY <1>1
  <2>3. \A j \in these \ {1} : \E i \in rest : back[i] = j
    <3>1. SUFFICES ASSUME NEW j \in these \ {1} PROVE j - 1 \in rest /\ back[j - 1] = j
      BY Zenon
    <3> QED BY <1>1, <3>1
  <2> HIDE DEF back, these, rest
  <2> QED BY <2>1, <2>2, <2>3, Fun_IsBij
<1>4. Cardinality(these \ {1}) = Cardinality(rest)
  <2> HIDE DEF back, these, rest
  <2>1. ExistsBijection(rest, these \ {1})
    BY <1>3 DEF ExistsBijection
  <2> QED BY <1>2, <2>1, FS_Bijection
<1>5. 1 \in these <=> q[1].form
  BY <1>1
<1>6. FormsIn(q) = Cardinality(these) /\ FormsIn(Tail(q)) = Cardinality(rest)
  BY DEF FormsIn
<1> HIDE DEF these, rest, back
<1>7. /\ Cardinality(these) \in Nat
      /\ Cardinality(these \ {1}) =
            IF 1 \in these THEN Cardinality(these) - 1 ELSE Cardinality(these)
  BY <1>2, FS_RemoveElement, FS_CardinalityType
<1> QED BY <1>4, <1>5, <1>6, <1>7

LEMMA JobType ==
  ASSUME NEW job \in Jobs
  PROVE  /\ job.op \in {"set", "delete"} \cup Choices /\ job.form \in BOOLEAN
         /\ job.op \in {"set", "delete"} => job.key \in Keys
         /\ job.op = "set" => job.value \in Values
         /\ job.op = "delete" => job.value = None
         /\ job.op \in Choices => job.keys \in SUBSET Keys
         /\ \A ok \in BOOLEAN :
               [op |-> job.op, key |-> job.key, form |-> job.form, ok |-> ok] \in Answered
<1> USE DEF Choices
<1>1. CASE job \in [op : {"set"}, key : Keys, value : Values, form : BOOLEAN]
  BY <1>1 DEF Answered
<1>2. CASE job \in [op : {"delete"}, key : Keys, value : {None}, form : BOOLEAN]
  BY <1>2 DEF Answered
<1>3. CASE job \in [op : Choices, key : {AnyKey}, value : {None}, form : {TRUE}, keys : SUBSET Keys]
  BY <1>3 DEF Answered
<1> QED BY <1>1, <1>2, <1>3 DEF Jobs

LEMMA AnswerType ==
  ASSUME NEW a \in Answered
  PROVE  /\ a.op \in {"set", "delete"} \cup Choices /\ a.form \in BOOLEAN
         /\ a.op \in {"set", "delete"} => a.key \in Keys
  BY DEF Answered, Choices

(* A job is queued; its answer follows; the answer is taken.               *)
LEMMA QueueAdded ==
  ASSUME QueueInv, NEW job \in Jobs, queue' = Append(queue, job), answers' = answers,
         window' = [window EXCEPT !.waits = IF job.form THEN @ + 1 ELSE @]
  PROVE  QueueInv'
<1>1. queue' \in Seq(Jobs) /\ FormsIn(queue') = FormsIn(queue) + IF job.form THEN 1 ELSE 0
  BY AppendType, FormsAppended DEF QueueInv
<1> DEFINE w == IF job.form THEN window.waits + 1 ELSE window.waits
<1>2. /\ window' \in [noted : SUBSET Keys, pending : BOOLEAN, waits : Nat]
      /\ window'.waits = w
  <2>1. window \in [noted : SUBSET Keys, pending : BOOLEAN, waits : Nat]
    BY DEF QueueInv
  <2>2. w \in Nat /\ window' = [window EXCEPT !.waits = w]
    BY <2>1
  <2> HIDE DEF w
  <2> QED BY <2>1, <2>2
<1>3. FormsIn(queue) \in Nat /\ FormsIn(answers) \in Nat
  BY FormsType DEF QueueInv
<1> QED BY <1>1, <1>2, <1>3 DEF QueueInv

LEMMA QueueAnswered ==
  ASSUME QueueInv, queue # <<>>, NEW ok \in BOOLEAN,
         queue' = Tail(queue), answers' = Reply(queue[1], ok), window' = window
  PROVE  QueueInv'
<1> DEFINE a == [op |-> queue[1].op, key |-> queue[1].key, form |-> queue[1].form, ok |-> ok]
<1>1. queue[1] \in Jobs /\ queue' \in Seq(Jobs)
  BY HeadAndTail DEF QueueInv
<1>2. a \in Answered /\ a.form = queue[1].form
  BY <1>1, JobType
<1>3. answers' = Append(answers, a)
  BY DEF Reply
<1> HIDE DEF a
<1>4. /\ answers' \in Seq(Answered)
      /\ FormsIn(answers') = FormsIn(answers) + IF queue[1].form THEN 1 ELSE 0
  BY <1>2, <1>3, AppendType, FormsAppended DEF QueueInv
<1>5. FormsIn(queue) = FormsIn(queue') + IF queue[1].form THEN 1 ELSE 0
  BY FormsTaken DEF QueueInv
<1>6. FormsIn(queue') \in Nat /\ FormsIn(answers) \in Nat
  BY <1>1, FormsType DEF QueueInv
<1>7. FormsIn(queue') + FormsIn(answers') = FormsIn(queue) + FormsIn(answers)
  <2>1. CASE queue[1].form
    BY <1>4, <1>5, <1>6, <2>1
  <2>2. CASE ~queue[1].form
    BY <1>4, <1>5, <1>6, <2>2
  <2> QED BY <2>1, <2>2
<1> QED BY <1>1, <1>4, <1>7 DEF QueueInv

LEMMA QueueTaken ==
  ASSUME QueueInv, answers # <<>>, queue' = queue, answers' = Tail(answers),
         window'.noted \in SUBSET Keys, window'.pending \in BOOLEAN,
         window' = [noted |-> window'.noted, pending |-> window'.pending,
                    waits |-> IF answers[1].form THEN window.waits - 1 ELSE window.waits]
  PROVE  QueueInv'
<1>1. answers[1] \in Answered /\ answers' \in Seq(Answered)
  BY HeadAndTail DEF QueueInv
<1>2. FormsIn(answers) = FormsIn(answers') + IF answers[1].form THEN 1 ELSE 0
  BY FormsTaken DEF QueueInv
<1>3. FormsIn(queue) \in Nat /\ FormsIn(answers') \in Nat
  BY <1>1, FormsType DEF QueueInv
<1> DEFINE w == IF answers[1].form THEN window.waits - 1 ELSE window.waits
<1>4. w \in Nat /\ w = FormsIn(queue') + FormsIn(answers')
  BY <1>2, <1>3 DEF QueueInv
<1>5. window' = [noted |-> window'.noted, pending |-> window'.pending, waits |-> w]
  OBVIOUS
<1> HIDE DEF w
<1>6. window'.waits = w
  BY <1>5
<1> QED BY <1>1, <1>4, <1>5, <1>6 DEF QueueInv

LEMMA QueueKept ==
  ASSUME QueueInv, UNCHANGED <<queue, answers>>,
         window' = window \/ \E pending \in BOOLEAN :
                                window' = [window EXCEPT !.pending = pending]
  PROVE  QueueInv'
<1>1. window \in [noted : SUBSET Keys, pending : BOOLEAN, waits : Nat]
  BY DEF QueueInv
<1>2. /\ window' \in [noted : SUBSET Keys, pending : BOOLEAN, waits : Nat]
      /\ window'.waits = window.waits
  BY <1>1
<1> QED BY <1>2 DEF QueueInv

LEMMA QueueEnded ==
  ASSUME queue' = <<>>, answers' = <<>>, NEW noted \in SUBSET Keys, window' = Window(noted)
  PROVE  QueueInv'
<1>1. <<>> \in Seq(Jobs) /\ <<>> \in Seq(Answered)
  OBVIOUS
<1>2. /\ window' \in [noted : SUBSET Keys, pending : BOOLEAN, waits : Nat]
      /\ window'.waits = 0
  BY DEF Window
<1>3. FormsIn(queue') = 0 /\ FormsIn(answers') = 0
  BY FormsOfNone
<1> QED BY <1>1, <1>2, <1>3 DEF QueueInv

(* A move under way. *)
LEMMA UnderWay ==
  ASSUME MoveInv, move.at # "rest"
  PROVE  /\ queue # <<>> /\ move.kind = queue[1].op
         /\ move.kind \in Choices /\ move.kind # current
<1>1. AtRest.at = "rest"
  BY DEF AtRest
<1> QED BY <1>1 DEF MoveInv

(* What the windows queue. *)
LEMMA UserQueues ==
  ASSUME SaveSecret \/ SaveInForm \/ ForgetKey \/ DeleteInForm
  PROVE  \E job \in Jobs : Queue(job)
<1>1. Passwords \subseteq Keys /\ ChannelKeys \subseteq Keys
  BY DEF Keys
<1>2. ASSUME NEW k \in Keys, NEW v \in Values, NEW form \in BOOLEAN
      PROVE  Job("set", k, v, form) \in Jobs /\ Job("delete", k, None, form) \in Jobs
  BY DEF Job, Jobs
<1>3. CASE SaveSecret
  <2>1. PICK k \in Keys, v \in Values : Queue(Job("set", k, v, FALSE))
    BY <1>3 DEF SaveSecret
  <2>2. Job("set", k, v, FALSE) \in Jobs
    BY <1>2
  <2> QED BY <2>1, <2>2, Zenon
<1>4. CASE SaveInForm
  <2>1. PICK k \in Passwords, v \in Values : Queue(Job("set", k, v, TRUE))
    BY <1>4 DEF SaveInForm
  <2>2. Job("set", k, v, TRUE) \in Jobs
    BY <1>1, <1>2
  <2> QED BY <2>1, <2>2, Zenon
<1>5. CASE ForgetKey
  <2>1. PICK k \in ChannelKeys : Queue(Job("delete", k, None, FALSE))
    BY <1>5 DEF ForgetKey
  <2>2. Job("delete", k, None, FALSE) \in Jobs
    <3>1. k \in Keys
      BY <1>1
    <3> QED BY <3>1 DEF Job, Jobs
  <2> QED BY <2>1, <2>2, Zenon
<1>6. CASE DeleteInForm
  <2>1. PICK k \in Passwords : Queue(Job("delete", k, None, TRUE))
    BY <1>6 DEF DeleteInForm
  <2>2. Job("delete", k, None, TRUE) \in Jobs
    <3>1. k \in Keys
      BY <1>1
    <3> QED BY <3>1 DEF Job, Jobs
  <2> QED BY <2>1, <2>2, Zenon
<1> QED BY <1>3, <1>4, <1>5, <1>6

LEMMA QueueStep ==
  ASSUME Shape, QueueInv, MoveInv, [Next]_vars
  PROVE  QueueInv'
<1> USE DEF procVars, bounds
<1>1. ASSUME NEW ok \in BOOLEAN, EndMove(ok), queue # <<>>, UNCHANGED window
      PROVE  QueueInv'
  BY <1>1, QueueAnswered DEF EndMove
<1>2. ASSUME UNCHANGED <<queue, answers, window>> PROVE QueueInv'
  BY <1>2, QueueKept
<1>3. CASE UNCHANGED vars
  BY <1>2, <1>3 DEF vars
<1>4. CASE SaveSecret \/ SaveInForm \/ ForgetKey \/ DeleteInForm
  <2>1. PICK job \in Jobs : Queue(job)
    BY <1>4, UserQueues
  <2>2. /\ queue' = Append(queue, job) /\ answers' = answers
        /\ window' = [window EXCEPT !.waits = IF job.form THEN @ + 1 ELSE @]
    BY <2>1 DEF Queue
  <2> QED BY <2>2, QueueAdded
<1>5. ASSUME NEW kind \in Choices, SwitchBackend(kind) PROVE QueueInv'
  <2>0. PICK keys \in SUBSET (window.noted \cap ChannelKeys) :
           queue' = Append(queue, MoveTo(kind, keys))
    BY <1>5 DEF SwitchBackend
  <2>1. MoveTo(kind, keys) \in Jobs /\ MoveTo(kind, keys).form = TRUE
    BY DEF MoveTo, Jobs, Keys
  <2>2. /\ queue' = Append(queue, MoveTo(kind, keys)) /\ answers' = answers
        /\ window' = [window EXCEPT !.waits = @ + 1]
    BY <1>5, <2>0 DEF SwitchBackend
  <2>3. window' = [window EXCEPT !.waits = IF MoveTo(kind, keys).form THEN @ + 1 ELSE @]
    BY <2>1, <2>2
  <2> QED BY <2>1, <2>2, <2>3, QueueAdded
<1>6. CASE ReadFile
  <2>1. answers # <<>> /\ queue' = queue /\ answers' = Tail(answers)
    BY <1>6 DEF ReadFile
  <2>2. answers[1] \in Answered /\ answers[1].op \in {"set", "delete"}
        /\ answers[1].key \in Keys
    <3>1. answers[1] \in Answered
      BY <2>1, HeadAndTail DEF QueueInv
    <3>2. answers[1].op \in {"set", "delete"}
      BY <1>6 DEF ReadFile, Noting
    <3> QED BY <3>1, <3>2, AnswerType
  <2> DEFINE noted == NotedWith(window.noted, answers[1])
  <2> DEFINE pending == window.pending \/ (~answers[1].form /\ noted # window.noted)
  <2>3. noted \in SUBSET Keys
    BY <2>2 DEF NotedWith, QueueInv
  <2>4. pending \in BOOLEAN
    BY Zenon DEF QueueInv
  <2>5. window' = [noted |-> noted, pending |-> pending,
                   waits |-> IF answers[1].form THEN window.waits - 1 ELSE window.waits]
    BY <1>6 DEF ReadFile
  <2> HIDE DEF noted, pending
  <2>6. window'.noted = noted /\ window'.pending = pending
    BY <2>5
  <2> QED BY <2>1, <2>3, <2>4, <2>5, <2>6, QueueTaken
<1>17. ASSUME NEW ok \in BOOLEAN, EndWriting(ok), UNCHANGED <<queue, answers>>
       PROVE  QueueInv'
  <2> DEFINE pending == window.pending /\ (edited.form \/ ~ok)
  <2>1. pending \in BOOLEAN
    BY Zenon DEF QueueInv
  <2>2. window' = [window EXCEPT !.pending = pending]
    BY <1>17 DEF EndWriting
  <2> HIDE DEF pending
  <2> QED BY <1>17, <2>1, <2>2, QueueKept
<1>7. CASE WriteFile
  <2>1. UNCHANGED <<queue, answers>> /\ \E ok \in BOOLEAN : EndWriting(ok)
    BY <1>7, Zenon DEF WriteFile
  <2> QED BY <1>17, <2>1
<1>18. CASE SaveTogether
  <2>1. UNCHANGED <<queue, answers>> /\ \E ok \in BOOLEAN : EndWriting(ok)
    BY <1>18, Zenon DEF SaveTogether
  <2> QED BY <1>17, <2>1
<1>8. CASE TakeAnswer
  <2>1. answers # <<>> /\ queue' = queue /\ answers' = Tail(answers)
        /\ window' = [window EXCEPT !.waits = IF answers[1].form THEN @ - 1 ELSE @]
    BY <1>8 DEF TakeAnswer
  <2>2. /\ window'.noted = window.noted /\ window'.pending = window.pending
        /\ window.noted \in SUBSET Keys /\ window.pending \in BOOLEAN
        /\ window' = [noted |-> window.noted, pending |-> window.pending,
                      waits |-> IF answers[1].form THEN window.waits - 1 ELSE window.waits]
    <3> DEFINE w == IF answers[1].form THEN window.waits - 1 ELSE window.waits
    <3>1. window \in [noted : SUBSET Keys, pending : BOOLEAN, waits : Nat]
      BY DEF QueueInv
    <3>2. window' = [window EXCEPT !.waits = w]
      BY <2>1
    <3> HIDE DEF w
    <3>3. /\ window'.noted = window.noted /\ window'.pending = window.pending
          /\ window' = [noted |-> window.noted, pending |-> window.pending, waits |-> w]
      BY <3>1, <3>2
    <3> QED BY <3>1, <3>3 DEF w
  <2> QED BY <2>1, <2>2, QueueTaken
<1>9. CASE RunWrite
  <2>1. PICK fails \in StoreCalls :
           LET job == queue[1]
               done == IF job.op = "set" THEN Set(stores[current], job.key, job.value, fails)
                       ELSE Delete(stores[current], job.key, fails)
           IN  answers' = Reply(job, done.error = "")
    BY <1>9 DEF RunWrite
  <2>2. PICK ok \in BOOLEAN : answers' = Reply(queue[1], ok)
    BY <2>1, Zenon
  <2>3. queue # <<>> /\ queue' = Tail(queue) /\ window' = window
    BY <1>9 DEF RunWrite, ThreadFree
  <2> QED BY <2>2, <2>3, QueueAnswered
<1>10. CASE StartMove
  <2>1. queue # <<>> /\ UNCHANGED window
    BY <1>10 DEF StartMove, ThreadFree
  <2>2. EndMove(queue[1].op = current) \/ UNCHANGED <<queue, answers>>
    BY <1>10 DEF StartMove
  <2>3. (queue[1].op = current) \in BOOLEAN
    BY Zenon
  <2> QED BY <1>1, <1>2, <2>1, <2>2, <2>3
<1>11. ASSUME NEW k \in Keys, ReadOriginal(k) PROVE QueueInv'
  <2>1. UNCHANGED window /\ queue # <<>> /\ FALSE \in BOOLEAN
    BY <1>11, UnderWay DEF ReadOriginal
  <2>2. EndMove(FALSE) \/ UNCHANGED <<queue, answers>>
    BY <1>11 DEF ReadOriginal
  <2> QED BY <1>1, <1>2, <2>1, <2>2
<1>12. CASE ReloadFile
  <2>1. UNCHANGED window /\ queue # <<>> /\ FALSE \in BOOLEAN
    BY <1>12, UnderWay DEF ReloadFile
  <2>2. EndMove(FALSE) \/ UNCHANGED <<queue, answers>>
    BY <1>12 DEF ReloadFile
  <2> QED BY <1>1, <1>2, <2>1, <2>2
<1>13. CASE FinishMove
  <2>1. UNCHANGED window /\ queue # <<>> /\ EndMove(move.at = "originals")
    BY <1>13, UnderWay DEF FinishMove
  <2>2. (move.at = "originals") \in BOOLEAN
    BY Zenon
  <2> QED BY <1>1, <2>1, <2>2
<1>14. CASE StartCopy \/ RecordChoice \/ \E k \in Keys : CopySecret(k) \/ RemoveSecret(k)
  <2>1. UNCHANGED <<queue, answers, window>>
    BY <1>14 DEF StartCopy, RecordChoice, CopySecret, RemoveSecret
  <2> QED BY <1>2, <2>1
<1>15. CASE Stop
  <2>1. queue' = <<>> /\ answers' = <<>> /\ window' = Window({}) /\ {} \in SUBSET Keys
    BY <1>15 DEF Stop
  <2> QED BY <2>1, QueueEnded
<1>16. CASE Start
  <2>1. queue' = <<>> /\ answers' = <<>> /\ window' = Window(file.noted)
        /\ file.noted \in SUBSET Keys
    BY <1>16 DEF Start, MoveInv, Shape, Files
  <2> QED BY <2>1, QueueEnded
<1> QED
  BY <1>3, <1>4, <1>5, <1>6, <1>7, <1>8, <1>9, <1>10, <1>11, <1>12, <1>13, <1>14, <1>15, <1>16,
     <1>18 DEF Next, UserStep, WindowStep, ThreadStep

-----------------------------------------------------------------------------
(* The types. *)

LEMMA StoresStep ==
  ASSUME Shape, QueueInv, StoresInv, MoveInv, [Next]_vars
  PROVE  StoresInv'
<1> USE DEF procVars, bounds
<1>1. ASSUME UNCHANGED stores PROVE StoresInv'
  BY <1>1 DEF StoresInv
<1>2. ASSUME NEW c \in Choices, NEW t, NEW k, KeepsOthers(stores[c], t, k),
             stores' = [stores EXCEPT ![c] = t]
      PROVE  StoresInv'
  BY <1>2 DEF StoresInv, KeepsOthers
<1>3. \A c \in Choices : stores[c] \in Stores /\ Coherent(stores[c])
  BY DEF StoresInv
<1>4. current \in Choices
  BY DEF Shape
<1>5. CASE RunWrite
  <2>1. PICK fails \in StoreCalls :
           stores' = [stores EXCEPT ![current] =
              IF queue[1].op = "set"
              THEN Set(stores[current], queue[1].key, queue[1].value, fails).store
              ELSE Delete(stores[current], queue[1].key, fails).store]
    BY <1>5 DEF RunWrite
  <2>2. queue[1] \in Jobs /\ queue[1].op \in {"set", "delete"}
    BY <1>5, HeadAndTail DEF RunWrite, ThreadFree, QueueInv
  <2>3. queue[1].key \in Keys /\ (queue[1].op = "set" => queue[1].value \in Values)
    BY <2>2, JobType
  <2>4. CASE queue[1].op = "set"
    BY <1>2, <1>3, <1>4, <2>1, <2>3, <2>4, SetIs DEF Written
  <2>5. CASE queue[1].op # "set"
    BY <1>2, <1>3, <1>4, <2>1, <2>3, <2>5, DeleteIs
  <2> QED BY <2>4, <2>5
<1>6. ASSUME NEW k \in Keys, ReadOriginal(k) PROVE StoresInv'
  <2>1. \/ UNCHANGED stores
        \/ \E fails : stores' = [stores EXCEPT ![current] = Get(From, k, fails).store]
    BY <1>6 DEF ReadOriginal
  <2> QED BY <1>1, <1>2, <1>3, <1>4, <2>1, GetIs DEF Answers, From
<1>7. ASSUME NEW k \in Keys, CopySecret(k) PROVE StoresInv'
  <2>1. \E fails : stores' = [stores EXCEPT ![move.kind] =
                                 Set(To, k, move.found[k], fails).store]
    BY <1>7 DEF CopySecret
  <2>2. move.kind \in Choices /\ move.found[k] \in Values
    BY <1>7, UnderWay DEF CopySecret, MoveInv
  <2> QED BY <1>2, <1>3, <2>1, <2>2, SetIs DEF Written, To
<1>8. ASSUME NEW k \in Keys, RemoveSecret(k) PROVE StoresInv'
  <2>1. PICK c \in {move.kind, current} :
           \E fails : stores' = [stores EXCEPT ![c] = Delete(stores[c], k, fails).store]
    BY <1>8 DEF RemoveSecret
  <2>2. c \in Choices
    BY <1>4, <1>8, <2>1, UnderWay DEF RemoveSecret
  <2> QED BY <1>2, <1>3, <2>1, <2>2, DeleteIs
<1>9. CASE Start
  <2>1. stores' = [c \in Choices |-> Opened(stores[c])]
    BY <1>9 DEF Start
  <2> QED BY <1>3, <2>1, OpenedIs DEF StoresInv
<1>10. CASE UNCHANGED vars \/ UserStep \/ WindowStep \/ Stop \/ StartMove \/ StartCopy
            \/ ReloadFile \/ RecordChoice \/ FinishMove \/ SaveTogether
  <2>1. UNCHANGED stores
    BY <1>10 DEF vars, UserStep, SaveSecret, SaveInForm, ForgetKey, DeleteInForm, Queue,
       SwitchBackend, WindowStep, ReadFile, WriteFile, TakeAnswer, Stop, StartMove,
       StartCopy, ReloadFile, RecordChoice, FinishMove, SaveTogether
  <2> QED BY <1>1, <2>1
<1> QED
  BY <1>5, <1>6, <1>7, <1>8, <1>9, <1>10 DEF Next, ThreadStep

LEMMA ShapeStep ==
  ASSUME Shape, QueueInv, StoresInv, MoveInv, [Next]_vars
  PROVE  Shape'
<1> USE DEF procVars, bounds
<1>0. /\ file \in Files /\ running \in BOOLEAN /\ current \in Choices
      /\ move \in Moves
      /\ edited = NotEdited \/ edited \in [file : Files, form : BOOLEAN]
      /\ saved \in [Keys -> Values \cup {None, Unknown}] /\ lostUpdate \in BOOLEAN
  BY DEF Shape
<1>1. current' \in Choices
  <2>1. ASSUME NEW ok, EndMove(ok), queue # <<>>, queue[1].op \in Choices
        PROVE  current' \in Choices
    BY <1>0, <2>1 DEF EndMove
  <2>2. CASE StartMove
    <3>1. queue # <<>> /\ queue[1].op \in Choices
      BY <2>2 DEF StartMove, ThreadFree
    <3>2. UNCHANGED current \/ EndMove(queue[1].op = current)
      BY <2>2 DEF StartMove
    <3> QED BY <1>0, <2>1, <3>1, <3>2
  <2>3. CASE ReloadFile \/ FinishMove \/ \E k \in Keys : ReadOriginal(k)
    <3>1. queue # <<>> /\ queue[1].op \in Choices
      BY <2>3, UnderWay DEF ReloadFile, FinishMove, ReadOriginal
    <3>2. UNCHANGED current \/ EndMove(FALSE) \/ EndMove(move.at = "originals")
      BY <2>3 DEF ReloadFile, FinishMove, ReadOriginal
    <3> QED BY <1>0, <2>1, <3>1, <3>2
  <2>4. CASE Start
    BY <1>0, <2>4 DEF Start, Files
  <2>5. CASE UNCHANGED vars \/ UserStep \/ WindowStep \/ Stop \/ RunWrite \/ StartCopy
             \/ RecordChoice \/ SaveTogether \/ \E k \in Keys : CopySecret(k) \/ RemoveSecret(k)
    BY <1>0, <2>5 DEF vars, UserStep, SaveSecret, SaveInForm, ForgetKey, DeleteInForm, Queue,
       SwitchBackend, WindowStep, ReadFile, WriteFile, TakeAnswer, Stop, RunWrite,
       StartCopy, RecordChoice, SaveTogether, CopySecret, RemoveSecret
  <2> QED BY <2>2, <2>3, <2>4, <2>5 DEF Next, ThreadStep
<1>2. file' \in Files
  <2>1. CASE WriteFile
    <3>1. edited # NotEdited /\ file' \in {file, edited.file}
      BY <2>1 DEF WriteFile
    <3> QED BY <1>0, <3>1
  <2>2. CASE RecordChoice
    BY <1>0, <2>2 DEF RecordChoice, MoveInv
  <2>5. CASE SaveTogether
    <3>1. /\ edited # NotEdited /\ move.at = "save"
          /\ file' \in {file, move.read, edited.file}
      BY <2>5 DEF SaveTogether
    <3> QED BY <1>0, <3>1 DEF MoveInv
  <2>3. CASE UNCHANGED file
    BY <1>0, <2>3
  <2>4. CASE UNCHANGED vars \/ UserStep \/ ReadFile \/ TakeAnswer \/ Stop \/ Start \/ RunWrite
             \/ StartMove \/ StartCopy \/ ReloadFile \/ FinishMove
             \/ \E k \in Keys : ReadOriginal(k) \/ CopySecret(k) \/ RemoveSecret(k)
    BY <2>3, <2>4 DEF vars, UserStep, SaveSecret, SaveInForm, ForgetKey, DeleteInForm, Queue,
       SwitchBackend, ReadFile, TakeAnswer, Stop, Start, RunWrite, StartMove,
       StartCopy, ReloadFile, FinishMove, ReadOriginal, CopySecret, RemoveSecret
  <2> QED BY <2>1, <2>2, <2>4, <2>5 DEF Next, WindowStep, ThreadStep
<1>3. move' \in Moves
  <2>1. AtRest \in Moves
    BY DEF AtRest, Moves, NoSecrets, Secrets
  <2>2. CASE StartMove
    <3>0. queue[1] \in Jobs /\ queue[1].op \in Choices
      BY <2>2, HeadAndTail DEF StartMove, ThreadFree, QueueInv
    <3>3. queue[1].keys \in SUBSET Keys
      BY <3>0, JobType
    <3>1. /\ queue[1].op \in Choices
          /\ Passwords \cup queue[1].keys \cup file.noted \in SUBSET Keys
      BY <1>0, <3>0, <3>3 DEF Files, Keys
    <3>2. \/ move' = AtRest
          \/ move' = [AtRest EXCEPT !.at = "read", !.kind = queue[1].op,
                                    !.todo = Passwords \cup queue[1].keys \cup file.noted]
      BY <2>2 DEF StartMove, EndMove
    <3> QED BY <2>1, <3>1, <3>2 DEF Moves
  <2>3. ASSUME NEW k \in Keys, ReadOriginal(k) PROVE move' \in Moves
    <3>1. PICK fails : \/ move' = AtRest
                       \/ move' = [move EXCEPT !.at = "reload", !.todo = {},
                                      !.found = NoSecrets, !.unavailable = TRUE]
                       \/ move' = [move EXCEPT !.todo = @ \ {k},
                                      !.found[k] = Get(From, k, fails).value]
      BY <2>3 DEF ReadOriginal, EndMove
    <3>2. Get(From, k, fails).value \in Values \cup {None}
      BY <1>0, GetIs DEF StoresInv, Answers, From
    <3>3. NoSecrets \in Secrets
      BY DEF NoSecrets, Secrets
    <3> DEFINE value == Get(From, k, fails).value
    <3> HIDE DEF value
    <3>4. CASE move' = [move EXCEPT !.todo = @ \ {k}, !.found[k] = value]
      <4>1. /\ move.todo \ {k} \in SUBSET Keys
            /\ [move.found EXCEPT ![k] = value] \in Secrets
        BY <1>0, <3>2 DEF Moves, Secrets, value
      <4> QED BY <1>0, <3>4, <4>1 DEF Moves
    <3> QED BY <1>0, <2>1, <3>1, <3>3, <3>4 DEF Moves, value
  <2>4. CASE StartCopy
    BY <1>0, <2>4 DEF StartCopy, Moves
  <2>5. ASSUME NEW k \in Keys, CopySecret(k) \/ RemoveSecret(k) PROVE move' \in Moves
    <3>1. \/ move' = [move EXCEPT !.todo = @ \ {k}, !.copied = @ \cup {k}]
          \/ move' = [move EXCEPT !.at = "undo", !.todo = move.copied]
          \/ move' = [move EXCEPT !.todo = @ \ {k}]
      BY <2>5 DEF CopySecret, RemoveSecret
    <3>2. /\ move.todo \ {k} \in SUBSET Keys /\ move.copied \cup {k} \in SUBSET Keys
          /\ move.copied \in SUBSET Keys
      BY <1>0 DEF Moves
    <3> QED BY <1>0, <3>1, <3>2 DEF Moves
  <2>6. CASE ReloadFile
    <3>1. \/ move' = AtRest
          \/ move' = [move EXCEPT !.at = "save", !.read = [file EXCEPT !.kind = move.kind]]
      BY <2>6 DEF ReloadFile, EndMove
    <3>2. move.kind \in Choices
      BY <2>6, UnderWay DEF ReloadFile
    <3>3. [file EXCEPT !.kind = move.kind] \in Files
      BY <1>0, <3>2 DEF Files
    <3> QED BY <1>0, <2>1, <3>1, <3>3 DEF Moves
  <2>7. CASE RecordChoice \/ SaveTogether
    <3>1. \/ move' = [move EXCEPT !.at = "undo", !.todo = move.copied]
          \/ move' = [move EXCEPT !.at = "originals", !.todo = move.copied]
      BY <2>7 DEF RecordChoice, SaveTogether, EndRecording
    <3> QED BY <1>0, <3>1 DEF Moves
  <2>8. CASE FinishMove \/ Stop
    BY <2>1, <2>8 DEF FinishMove, EndMove, Stop
  <2>9. CASE UNCHANGED vars \/ UserStep \/ WindowStep \/ Start \/ RunWrite
    BY <1>0, <2>9 DEF vars, UserStep, SaveSecret, SaveInForm, ForgetKey, DeleteInForm, Queue,
       SwitchBackend, WindowStep, ReadFile, WriteFile, TakeAnswer, Start, RunWrite
  <2> QED BY <2>2, <2>3, <2>4, <2>5, <2>6, <2>7, <2>8, <2>9 DEF Next, ThreadStep
<1>4. edited' = NotEdited \/ edited' \in [file : Files, form : BOOLEAN]
  <2>1. CASE ReadFile
    <3>1. answers[1] \in Answered /\ answers[1].op \in {"set", "delete"}
      BY <2>1, HeadAndTail DEF QueueInv, ReadFile, Noting
    <3>2. answers[1].key \in Keys
      BY <3>1, AnswerType
    <3>3. \A noted \in SUBSET Keys : NotedWith(noted, answers[1]) \in SUBSET Keys
      BY <3>2 DEF NotedWith
    <3>4. /\ window.noted \in SUBSET Keys /\ file.noted \in SUBSET Keys
          /\ answers[1].form \in BOOLEAN
      BY <1>0, <3>1, AnswerType DEF QueueInv, Files
    <3>5. \/ edited' = NotEdited
          \/ \E noted \in {NotedWith(file.noted, answers[1]),
                            NotedWith(window.noted, answers[1]), file.noted} :
                edited' = [file |-> [file EXCEPT !.noted = noted], form |-> answers[1].form]
      BY <2>1 DEF ReadFile
    <3>6. \A noted \in SUBSET Keys : [file EXCEPT !.noted = noted] \in Files
      BY <1>0 DEF Files
    <3> QED BY <3>3, <3>4, <3>5, <3>6
  <2>2. CASE edited' = edited \/ edited' = NotEdited
    BY <1>0, <2>2
  <2>3. CASE UNCHANGED vars \/ UserStep \/ WriteFile \/ TakeAnswer \/ Stop \/ Start \/ ThreadStep
             \/ SaveTogether
    BY <2>2, <2>3 DEF vars, UserStep, SaveSecret, SaveInForm, ForgetKey, DeleteInForm, Queue,
       SwitchBackend, WriteFile, TakeAnswer, Stop, Start, ThreadStep, RunWrite, StartMove,
       StartCopy, ReloadFile, RecordChoice, FinishMove, ReadOriginal, CopySecret, RemoveSecret,
       SaveTogether, EndWriting
  <2> QED BY <2>1, <2>3 DEF Next, WindowStep
<1>5. saved' \in [Keys -> Values \cup {None, Unknown}]
  <2>1. CASE RunWrite
    <3>1. queue[1] \in Jobs /\ queue[1].op \in {"set", "delete"}
      BY <2>1, HeadAndTail DEF RunWrite, ThreadFree, QueueInv
    <3>2. queue[1].key \in Keys /\ queue[1].value \in Values \cup {None}
      BY <3>1, JobType
    <3>3. \/ saved' = [saved EXCEPT ![queue[1].key] = queue[1].value]
          \/ saved' = [saved EXCEPT ![queue[1].key] = Unknown]
          \/ saved' = saved
      BY <2>1 DEF RunWrite
    <3> QED BY <1>0, <3>2, <3>3
  <2>2. CASE RecordChoice \/ SaveTogether
    <3>1. move.kind \in Choices
      BY <2>2, UnderWay DEF RecordChoice, SaveTogether
    <3>2. \A k \in Keys : Seen(To, k) \in Values \cup {None}
      BY <3>1, SeenIs DEF StoresInv, To
    <3>3. saved' = saved \/ saved' = [k \in Keys |-> Seen(To, k)]
      BY <2>2 DEF RecordChoice, SaveTogether, EndRecording
    <3> QED BY <1>0, <3>2, <3>3
  <2>3. CASE UNCHANGED saved
    BY <1>0, <2>3
  <2>4. CASE UNCHANGED vars \/ UserStep \/ WindowStep \/ Stop \/ Start
             \/ StartMove \/ StartCopy \/ ReloadFile \/ FinishMove
             \/ \E k \in Keys : ReadOriginal(k) \/ CopySecret(k) \/ RemoveSecret(k)
    BY <2>3, <2>4 DEF vars, UserStep, SaveSecret, SaveInForm, ForgetKey, DeleteInForm, Queue,
       SwitchBackend, WindowStep, ReadFile, WriteFile, TakeAnswer, Stop, Start, StartMove,
       StartCopy, ReloadFile, FinishMove, ReadOriginal, CopySecret, RemoveSecret
  <2> QED BY <2>1, <2>2, <2>4 DEF Next, ThreadStep
<1>6. lostUpdate' \in BOOLEAN
  <2>1. \/ lostUpdate' = lostUpdate
        \/ lostUpdate' = (lostUpdate \/ file.kind # edited.file.kind)
        \/ lostUpdate' = (lostUpdate \/ move.read.noted # file.noted)
        \/ lostUpdate' = TRUE
    BY DEF Next, vars, UserStep, SaveSecret, SaveInForm, ForgetKey, DeleteInForm, Queue,
       SwitchBackend, WindowStep, ReadFile, WriteFile, TakeAnswer, Stop, Start, StartMove,
       ThreadStep, RunWrite, StartCopy, ReloadFile, RecordChoice, FinishMove,
       ReadOriginal, CopySecret, RemoveSecret, SaveTogether
  <2> QED BY <1>0, <2>1, Zenon
<1>7. running' \in BOOLEAN
  BY <1>0 DEF Next, vars, UserStep, SaveSecret, SaveInForm, ForgetKey, DeleteInForm, Queue,
     SwitchBackend, WindowStep, ReadFile, WriteFile, TakeAnswer, Stop, Start, StartMove,
     ThreadStep, RunWrite, StartCopy, ReloadFile, RecordChoice, FinishMove,
     ReadOriginal, CopySecret, RemoveSecret, SaveTogether
<1> QED BY <1>1, <1>2, <1>3, <1>4, <1>5, <1>6, <1>7 DEF Shape

(* A process that ends forgets what was under way.                         *)
LEMMA MoveStep ==
  ASSUME Shape, QueueInv, MoveInv, [Next]_vars
  PROVE  MoveInv'
<1> USE DEF procVars, bounds
<1>0. /\ file \in Files /\ current \in Choices /\ move \in Moves
  BY DEF Shape
<1>1. ASSUME running', move' = AtRest PROVE MoveInv'
  BY <1>1 DEF MoveInv, AtRest
<1>2. ASSUME running', running, UNCHANGED <<move, current>>,
             queue # <<>> => queue' # <<>> /\ queue'[1] = queue[1]
      PROVE  MoveInv'
  BY <1>2 DEF MoveInv
<1>3. ASSUME ThreadStep PROVE running /\ running'
  <2>1. running' = running /\ running
    <3>1. CASE RunWrite
      BY <3>1 DEF RunWrite, ThreadFree
    <3>2. CASE StartMove
      BY <3>2 DEF StartMove, ThreadFree
    <3>3. CASE StartCopy \/ ReloadFile \/ RecordChoice \/ FinishMove
      BY <3>3 DEF StartCopy, ReloadFile, RecordChoice, FinishMove
    <3>4. CASE \E k \in Keys : ReadOriginal(k) \/ CopySecret(k) \/ RemoveSecret(k)
      BY <3>4 DEF ReadOriginal, CopySecret, RemoveSecret
    <3> QED BY <1>3, <3>1, <3>2, <3>3, <3>4 DEF ThreadStep
  <2> QED BY <2>1, Zenon
<1>4. CASE UNCHANGED vars
  BY <1>4 DEF vars, MoveInv
<1>5. ASSUME NEW job \in Jobs, queue' = Append(queue, job), running, running',
             UNCHANGED <<move, current>>
      PROVE  MoveInv'
  <2>1. queue # <<>> => queue' # <<>> /\ queue'[1] = queue[1]
    <3>1. ASSUME queue # <<>> PROVE 1 \in 1..Len(queue)
      BY <3>1, HeadAndTail DEF QueueInv
    <3> QED BY <1>5, <3>1, AppendType DEF QueueInv
  <2> QED BY <1>2, <1>5, <2>1
<1>6. CASE UserStep
  <2>1. CASE SaveSecret \/ SaveInForm \/ ForgetKey \/ DeleteInForm
    <3>1. PICK job \in Jobs : Queue(job)
      BY <2>1, UserQueues
    <3> QED BY <1>5, <3>1 DEF Queue, UiFree
  <2>2. ASSUME NEW kind \in Choices, SwitchBackend(kind) PROVE MoveInv'
    <3>1. PICK keys \in SUBSET (window.noted \cap ChannelKeys) :
             queue' = Append(queue, MoveTo(kind, keys))
      BY <2>2 DEF SwitchBackend
    <3>2. MoveTo(kind, keys) \in Jobs
      BY DEF MoveTo, Jobs, Keys
    <3>3. running /\ running' /\ UNCHANGED <<move, current>>
      BY <2>2 DEF SwitchBackend, UiFree
    <3> QED BY <1>5, <3>1, <3>2, <3>3
  <2> QED BY <1>6, <2>1, <2>2 DEF UserStep
<1>7. CASE WindowStep
  <2>1. running /\ running' /\ UNCHANGED <<queue, move, current>>
    BY <1>7 DEF WindowStep, ReadFile, WriteFile, TakeAnswer, UiFree
  <2> QED BY <1>2, <2>1
<1>8. CASE RunWrite
  <2>1. move' = AtRest
    BY <1>8 DEF RunWrite, ThreadFree
  <2> QED BY <1>1, <1>3, <1>8, <2>1 DEF ThreadStep
<1>9. CASE StartMove
  <2>1. CASE move' = AtRest
    BY <1>1, <1>3, <1>9, <2>1 DEF ThreadStep
  <2>2. CASE move' # AtRest
    <3>1. /\ queue # <<>> /\ queue[1].op \in Choices /\ queue[1].op # current
          /\ running /\ running' /\ UNCHANGED <<queue, current>>
          /\ move' = [AtRest EXCEPT !.at = "read", !.kind = queue[1].op,
                                    !.todo = Passwords \cup queue[1].keys \cup file.noted]
      BY <1>9, <2>2 DEF StartMove, ThreadFree, EndMove
    <3>2. move'.at = "read" /\ move'.kind = queue[1].op /\ ~move'.unavailable
      BY <3>1 DEF AtRest
    <3> QED BY <3>1, <3>2 DEF MoveInv
  <2> QED BY <2>1, <2>2
<1>10. ASSUME running, UNCHANGED <<running, queue, current>>, move.at # "rest",
              move'.kind = move.kind, move'.at # "rest",
              move'.at = "save" => move'.read \in Files /\ move'.read.kind = move'.kind,
              move'.at = "reload" => move'.unavailable /\ move'.todo = {},
              move'.at \in {"read", "copy"} => ~move'.unavailable,
              move'.at = "copy" => \A k \in move'.todo : move'.found[k] \in Values
       PROVE  MoveInv'
  BY <1>10, UnderWay DEF MoveInv
<1>11. ASSUME NEW k \in Keys, ReadOriginal(k) PROVE MoveInv'
  <2>1. CASE move' = AtRest
    BY <1>1, <1>3, <1>11, <2>1 DEF ThreadStep
  <2>2. CASE move' # AtRest
    <3>1. PICK fails :
             \/ move' = [move EXCEPT !.at = "reload", !.todo = {},
                                     !.found = NoSecrets, !.unavailable = TRUE]
             \/ move' = [move EXCEPT !.todo = @ \ {k},
                                     !.found[k] = Get(From, k, fails).value]
      BY <1>11, <2>2 DEF ReadOriginal, EndMove
    <3>2. /\ running /\ UNCHANGED <<running, queue, current>> /\ move.at = "read"
      BY <1>11, <2>2 DEF ReadOriginal, EndMove
    <3>3. ~move.unavailable
      BY <3>2 DEF MoveInv
    <3>4. CASE move' = [move EXCEPT !.at = "reload", !.todo = {},
                                    !.found = NoSecrets, !.unavailable = TRUE]
      <4>1. /\ move'.at = "reload" /\ move'.kind = move.kind
            /\ move'.unavailable /\ move'.todo = {}
        BY <1>0, <3>4 DEF Moves
      <4> QED BY <1>10, <3>2, <4>1
    <3>5. CASE move' = [move EXCEPT !.todo = @ \ {k},
                                    !.found[k] = Get(From, k, fails).value]
      <4>1. move'.at = "read" /\ move'.kind = move.kind /\ ~move'.unavailable
        BY <1>0, <3>2, <3>3, <3>5 DEF Moves
      <4> QED BY <1>10, <3>2, <4>1
    <3> QED BY <3>1, <3>4, <3>5
  <2> QED BY <2>1, <2>2
<1>12. CASE StartCopy
  <2>1. /\ running /\ UNCHANGED <<running, queue, current>> /\ move.at = "read"
        /\ move' = [move EXCEPT !.at = "copy", !.todo = {k \in Keys : move.found[k] # None}]
    BY <1>12 DEF StartCopy
  <2>2. /\ move'.at = "copy" /\ move'.kind = move.kind /\ ~move'.unavailable
        /\ move'.found = move.found /\ move'.todo = {k \in Keys : move.found[k] # None}
    BY <1>0, <2>1 DEF Moves, MoveInv
  <2>3. \A k \in move'.todo : move'.found[k] \in Values
    BY <1>0, <2>2 DEF Moves, Secrets
  <2> QED BY <1>10, <2>1, <2>2, <2>3
<1>13. ASSUME NEW k \in Keys, CopySecret(k) PROVE MoveInv'
  <2>1. /\ running /\ UNCHANGED <<running, queue, current>> /\ move.at = "copy"
        /\ \/ move' = [move EXCEPT !.todo = @ \ {k}, !.copied = @ \cup {k}]
           \/ move' = [move EXCEPT !.at = "undo", !.todo = move.copied]
    BY <1>13 DEF CopySecret
  <2>2. ~move.unavailable /\ \A j \in move.todo : move.found[j] \in Values
    BY <2>1 DEF MoveInv
  <2>3. CASE move' = [move EXCEPT !.todo = @ \ {k}, !.copied = @ \cup {k}]
    <3>1. /\ move'.at = "copy" /\ move'.kind = move.kind /\ ~move'.unavailable
          /\ move'.found = move.found /\ move'.todo = move.todo \ {k}
      BY <1>0, <2>1, <2>2, <2>3 DEF Moves
    <3> QED BY <1>10, <2>1, <2>2, <3>1
  <2>4. CASE move' = [move EXCEPT !.at = "undo", !.todo = move.copied]
    <3>1. move'.at = "undo" /\ move'.kind = move.kind
      BY <1>0, <2>4 DEF Moves
    <3> QED BY <1>10, <2>1, <3>1
  <2> QED BY <2>1, <2>3, <2>4
<1>14. ASSUME NEW k \in Keys, RemoveSecret(k) PROVE MoveInv'
  <2>1. /\ running /\ UNCHANGED <<running, queue, current>>
        /\ move.at \in {"undo", "originals"} /\ move' = [move EXCEPT !.todo = @ \ {k}]
    BY <1>14 DEF RemoveSecret
  <2>2. move'.at = move.at /\ move'.kind = move.kind
    BY <1>0, <2>1 DEF Moves
  <2> QED BY <1>10, <2>1, <2>2
<1>15. CASE ReloadFile
  <2>1. CASE move' = AtRest
    BY <1>1, <1>3, <1>15, <2>1 DEF ThreadStep
  <2>2. CASE move' # AtRest
    <3>1. /\ running /\ UNCHANGED <<running, queue, current>>
          /\ move.at \in {"copy", "reload"}
          /\ move' = [move EXCEPT !.at = "save", !.read = [file EXCEPT !.kind = move.kind]]
      BY <1>15, <2>2 DEF ReloadFile, EndMove
    <3>2. move.kind \in Choices
      BY <3>1, UnderWay
    <3> DEFINE read == [file EXCEPT !.kind = move.kind]
    <3>3. read \in Files /\ read.kind = move.kind
      BY <1>0, <3>2 DEF Files
    <3> HIDE DEF read
    <3>4. move' = [move EXCEPT !.at = "save", !.read = read]
      BY <3>1 DEF read
    <3>5. move'.at = "save" /\ move'.kind = move.kind /\ move'.read = read
      BY <1>0, <3>4 DEF Moves
    <3> QED BY <1>10, <3>1, <3>3, <3>5
  <2> QED BY <2>1, <2>2
<1>16. CASE RecordChoice \/ SaveTogether
  <2>1. /\ running /\ UNCHANGED <<running, queue, current>> /\ move.at = "save"
        /\ \/ move' = [move EXCEPT !.at = "undo", !.todo = move.copied]
           \/ move' = [move EXCEPT !.at = "originals", !.todo = move.copied]
    BY <1>16 DEF RecordChoice, SaveTogether, EndRecording
  <2>2. move'.at \in {"undo", "originals"} /\ move'.kind = move.kind
    BY <1>0, <2>1 DEF Moves
  <2> QED BY <1>10, <2>1, <2>2
<1>17. CASE FinishMove
  <2>1. move' = AtRest
    BY <1>17 DEF FinishMove, EndMove
  <2> QED BY <1>1, <1>3, <1>17, <2>1 DEF ThreadStep
<1>18. CASE Stop
  BY <1>18 DEF Stop, MoveInv, AtRest
<1>19. CASE Start
  <2>1. running' /\ move' = AtRest
    BY <1>19 DEF Start, MoveInv
  <2> QED BY <1>1, <2>1
<1> QED
  BY <1>4, <1>6, <1>7, <1>8, <1>9, <1>11, <1>12, <1>13, <1>14, <1>15, <1>16, <1>17, <1>18, <1>19
     DEF Next, ThreadStep

-----------------------------------------------------------------------------
(* Two writers that overlapped stay on record. *)
LEMMA LostStep ==
  ASSUME [Next]_vars, ~lostUpdate'
  PROVE  /\ ~lostUpdate /\ ~SaveTogether
         /\ \/ file' = file
            \/ WriteFile /\ file' = edited.file /\ edited.file.kind = file.kind
            \/ RecordChoice /\ file' = move.read
<1> USE DEF procVars, bounds
<1>4. ~SaveTogether
  BY DEF SaveTogether
<1>1. CASE WriteFile
  <2>1. \/ UNCHANGED <<file, lostUpdate>>
        \/ /\ file' = edited.file
           /\ lostUpdate' = (lostUpdate \/ file.kind # edited.file.kind)
    BY <1>1 DEF WriteFile
  <2>2. CASE UNCHANGED <<file, lostUpdate>>
    BY <1>4, <2>2
  <2>3. CASE /\ file' = edited.file
             /\ lostUpdate' = (lostUpdate \/ file.kind # edited.file.kind)
    BY <1>1, <1>4, <2>3, Zenon
  <2> QED BY <2>1, <2>2, <2>3
<1>2. CASE RecordChoice
  <2>1. \/ UNCHANGED <<file, lostUpdate>>
        \/ /\ file' = move.read
           /\ lostUpdate' = (lostUpdate \/ move.read.noted # file.noted)
    BY <1>2 DEF RecordChoice
  <2>2. CASE UNCHANGED <<file, lostUpdate>>
    BY <1>4, <2>2
  <2>3. CASE /\ file' = move.read
             /\ lostUpdate' = (lostUpdate \/ move.read.noted # file.noted)
    BY <1>2, <1>4, <2>3, Zenon
  <2> QED BY <2>1, <2>2, <2>3
<1>3. CASE UNCHANGED vars \/ UserStep \/ ReadFile \/ TakeAnswer \/ Stop \/ Start
           \/ RunWrite \/ StartMove \/ StartCopy \/ ReloadFile \/ FinishMove
           \/ \E k \in Keys : ReadOriginal(k) \/ CopySecret(k) \/ RemoveSecret(k)
  <2>1. UNCHANGED <<file, lostUpdate>>
    BY <1>3 DEF vars, UserStep, SaveSecret, SaveInForm, ForgetKey, DeleteInForm, Queue,
       SwitchBackend, ReadFile, TakeAnswer, Stop, Start, RunWrite, StartMove,
       StartCopy, ReloadFile, FinishMove, ReadOriginal, CopySecret, RemoveSecret
  <2> QED BY <1>4, <2>1
<1> QED BY <1>1, <1>2, <1>3, <1>4 DEF Next, WindowStep, ThreadStep

(* The file names the store in use, or the one whose move is recorded.     *)
LEMMA ChosenStep ==
  ASSUME Shape, MoveInv, Chosen, [Next]_vars, ~lostUpdate'
  PROVE  Chosen'
<1> USE DEF procVars, bounds
<1>0. current \in Choices /\ move \in Moves /\ AtRest.at = "rest"
  BY DEF Shape, AtRest
<1>1. ASSUME file'.kind = file.kind, running, current' = current,
             move'.at = "originals" <=> move.at = "originals",
             move'.at = "originals" => move'.kind = move.kind
      PROVE  Chosen'
  BY <1>1 DEF Chosen, InUse
<1>2. ASSUME file' = file, running, move.at # "originals", move' = AtRest,
             current' = current
      PROVE  Chosen'
  BY <1>0, <1>2 DEF Chosen, InUse
<1>3. CASE UNCHANGED vars
  BY <1>3 DEF vars, Chosen, InUse
<1>4. CASE UserStep \/ WindowStep
  <2>1. running /\ UNCHANGED <<current, move>>
    BY <1>4 DEF UserStep, SaveSecret, SaveInForm, ForgetKey, DeleteInForm, Queue, SwitchBackend,
       UiFree, WindowStep, ReadFile, WriteFile, TakeAnswer
  <2>2. file'.kind = file.kind
    <3>1. CASE WriteFile
      BY <3>1, LostStep DEF WriteFile, RecordChoice
    <3>2. CASE UserStep \/ ReadFile \/ TakeAnswer
      BY <3>2 DEF UserStep, SaveSecret, SaveInForm, ForgetKey, DeleteInForm, Queue,
         SwitchBackend, ReadFile, TakeAnswer
    <3> QED BY <1>4, <3>1, <3>2 DEF WindowStep
  <2> QED BY <1>1, <2>1, <2>2
<1>5. CASE RunWrite
  BY <1>1, <1>5 DEF RunWrite, ThreadFree
<1>6. CASE StartMove
  <2>1. running /\ file' = file /\ move = AtRest
    BY <1>6 DEF StartMove, ThreadFree
  <2>2. current' = current
    BY <1>6 DEF StartMove, EndMove
  <2>3. \/ move' = AtRest
        \/ move' = [AtRest EXCEPT !.at = "read", !.kind = queue[1].op,
                                  !.todo = Passwords \cup queue[1].keys \cup file.noted]
    BY <1>6 DEF StartMove, EndMove
  <2>4. move'.at # "originals"
    <3>1. AtRest.at = "rest" /\ [AtRest EXCEPT !.at = "read", !.kind = queue[1].op,
                                  !.todo = Passwords \cup queue[1].keys \cup file.noted].at = "read"
      BY DEF AtRest
    <3> QED BY <2>3, <3>1
  <2> QED BY <1>0, <1>1, <2>1, <2>2, <2>4
<1>7. ASSUME NEW k \in Keys, ReadOriginal(k) PROVE Chosen'
  <2>1. running /\ file' = file /\ current' = current /\ move.at = "read"
    BY <1>7 DEF ReadOriginal, EndMove
  <2>2. \/ move' = AtRest \/ move'.at = "reload" \/ move'.at = "read"
    BY <1>0, <1>7 DEF ReadOriginal, EndMove, Moves
  <2> QED BY <1>0, <1>1, <2>1, <2>2
<1>8. ASSUME StartCopy \/ \E k \in Keys : CopySecret(k) \/ RemoveSecret(k) PROVE Chosen'
  <2>1. running /\ file' = file /\ current' = current
    BY <1>8 DEF StartCopy, CopySecret, RemoveSecret
  <2>2. /\ move'.at = "originals" <=> move.at = "originals"
        /\ move'.kind = move.kind
    BY <1>0, <1>8 DEF StartCopy, CopySecret, RemoveSecret, Moves
  <2> QED BY <1>1, <2>1, <2>2
<1>9. CASE ReloadFile
  <2>1. running /\ file' = file /\ current' = current /\ move.at # "originals"
    BY <1>9 DEF ReloadFile, EndMove
  <2>2. move' = AtRest \/ move'.at = "save"
    BY <1>0, <1>9 DEF ReloadFile, EndMove, Moves
  <2> QED BY <1>0, <1>1, <2>1, <2>2
<1>10. CASE RecordChoice
  <2>1. /\ running /\ current' = current /\ move.at = "save"
        /\ \/ file' = file /\ move' = [move EXCEPT !.at = "undo", !.todo = move.copied]
           \/ file' = move.read /\ move' = [move EXCEPT !.at = "originals", !.todo = move.copied]
    BY <1>10 DEF RecordChoice, EndRecording
  <2>2. move.read.kind = move.kind
    BY <2>1 DEF MoveInv
  <2>3. CASE file' = file /\ move' = [move EXCEPT !.at = "undo", !.todo = move.copied]
    <3>1. move'.at = "undo"
      BY <1>0, <2>3 DEF Moves
    <3> QED BY <1>1, <2>1, <2>3, <3>1
  <2>4. CASE file' = move.read /\ move' = [move EXCEPT !.at = "originals", !.todo = move.copied]
    <3>1. move'.at = "originals" /\ move'.kind = move.kind
      BY <1>0, <2>4 DEF Moves
    <3> QED BY <2>2, <2>4, <3>1 DEF Chosen, InUse
  <2> QED BY <2>1, <2>3, <2>4
<1>11. CASE FinishMove
  <2>1. /\ running /\ file' = file /\ move' = AtRest
        /\ current' = IF move.at = "originals" THEN queue[1].op ELSE current
        /\ move.kind = queue[1].op
    BY <1>11, UnderWay DEF FinishMove, EndMove
  <2> QED BY <1>0, <2>1 DEF Chosen, InUse
<1>12. CASE Stop
  BY <1>12 DEF Stop, Chosen
<1>13. CASE Start
  BY <1>0, <1>13 DEF Start, Chosen, InUse, MoveInv
<1> QED
  BY <1>3, <1>4, <1>5, <1>6, <1>7, <1>8, <1>9, <1>10, <1>11, <1>12, <1>13, LostStep
     DEF Next, ThreadStep

(* A step keeps a password where the file says it is.                      *)
LEMMA SafeStep ==
  ASSUME Shape, QueueInv, StoresInv, MoveInv, Chosen, [Next]_vars, ~lostUpdate',
         NEW k \in Passwords, saved'[k] \in Values,
         saved[k] \in Values => Safe(k) /\ Moved(k)
  PROVE  Safe(k)'
<1> USE DEF procVars, bounds
<1>0. /\ k \in Keys /\ current \in Choices /\ move \in Moves /\ file.kind \in Choices
      /\ saved \in [Keys -> Values \cup {None, Unknown}] /\ running \in BOOLEAN
      /\ \A c \in Choices : stores[c] \in Stores /\ Coherent(stores[c])
      /\ DOMAIN stores = Choices
  BY DEF Shape, StoresInv, Files, Keys
<1>1. ASSUME stores'[file'.kind] = stores[file.kind], saved' = saved, running' => running
      PROVE  Safe(k)'
  BY <1>1 DEF Safe
<1>2. ASSUME NEW c \in Choices, NEW t, NEW j, KeepsOthers(stores[c], t, j),
             stores' = [stores EXCEPT ![c] = t], file' = file, running,
             c # file.kind \/ k # j, saved'[k] = saved[k]
      PROVE  Safe(k)'
  <2>1. stores'[file'.kind] = stores[file.kind] \/ (stores'[file'.kind] = t /\ k # j /\ c = file.kind)
    BY <1>0, <1>2
  <2>2. CASE stores'[file'.kind] = stores[file.kind]
    BY <1>2, <2>2 DEF Safe
  <2>3. CASE stores'[file'.kind] = t /\ k # j /\ c = file.kind
    BY <1>0, <1>2, <2>3 DEF Safe, KeepsOthers
  <2> QED BY <2>1, <2>2, <2>3
<1>3. ASSUME stores' = stores, file'.kind = file.kind, saved' = saved, running' => running
      PROVE  Safe(k)'
  BY <1>1, <1>3
<1>4. CASE UNCHANGED vars
  BY <1>3, <1>4 DEF vars
<1>5. CASE UserStep \/ WindowStep \/ Stop
  <2>1. /\ stores' = stores /\ saved' = saved /\ running
    BY <1>5 DEF UserStep, SaveSecret, SaveInForm, ForgetKey, DeleteInForm, Queue, SwitchBackend,
       UiFree, WindowStep, ReadFile, WriteFile, TakeAnswer, Stop
  <2>2. file'.kind = file.kind
    <3>1. CASE WriteFile
      BY <3>1, LostStep DEF WriteFile, RecordChoice
    <3>2. CASE UserStep \/ ReadFile \/ TakeAnswer \/ Stop
      BY <3>2 DEF UserStep, SaveSecret, SaveInForm, ForgetKey, DeleteInForm, Queue,
         SwitchBackend, ReadFile, TakeAnswer, Stop
    <3> QED BY <1>5, <3>1, <3>2 DEF WindowStep
  <2> QED BY <1>3, <2>1, <2>2
<1>6. CASE RunWrite
  <2> DEFINE j == queue[1].key
  <2> DEFINE v == queue[1].value
  <2>1. /\ running /\ file' = file /\ queue[1] \in Jobs /\ queue[1].op \in {"set", "delete"}
    BY <1>6, HeadAndTail DEF RunWrite, ThreadFree, QueueInv
  <2>2. j \in Keys /\ (queue[1].op = "set" => v \in Values)
        /\ (queue[1].op = "delete" => v = None)
    BY <2>1, JobType
  <2>3. file.kind = current
    BY <1>6 DEF RunWrite, ThreadFree, Chosen, InUse, AtRest
  <2>4. CASE queue[1].op = "set"
    <3>1. PICK fails :
             LET done == Set(stores[current], j, v, fails)
             IN  /\ stores' = [stores EXCEPT ![current] = done.store]
                 /\ saved' = IF done.error = "" THEN [saved EXCEPT ![j] = v] ELSE saved
      BY <1>6, <2>4 DEF RunWrite
    <3> DEFINE done == Set(stores[current], j, v, fails)
    <3>2. Written(stores[current], j, v, done)
      BY <1>0, <2>2, <2>4, SetIs
    <3>3. /\ stores' = [stores EXCEPT ![current] = done.store]
          /\ \/ done.error = "" /\ saved' = [saved EXCEPT ![j] = v]
             \/ done.error # "" /\ saved' = saved
      BY <3>1
    <3> HIDE DEF done, j, v
    <3>4. CASE k # j
      <4>1. saved'[k] = saved[k]
        BY <1>0, <3>3, <3>4
      <4> QED BY <1>0, <1>2, <2>1, <3>2, <3>3, <3>4, <4>1 DEF Written
    <3>5. CASE k = j
      <4>1. stores'[file'.kind] = done.store
        BY <1>0, <2>1, <2>3, <3>3
      <4>2. CASE done.error = "" /\ saved' = [saved EXCEPT ![j] = v]
        <5>1. saved'[k] = v
          BY <1>0, <3>5, <4>2
        <5> QED BY <3>2, <3>5, <4>1, <4>2, <5>1 DEF Written, Safe
      <4>3. CASE done.error # "" /\ saved' = saved
        BY <2>1, <2>3, <3>2, <3>5, <4>1, <4>3 DEF Written, Safe
      <4> QED BY <3>3, <4>2, <4>3
    <3> QED BY <3>4, <3>5
  <2>5. CASE queue[1].op = "delete"
    <3>1. PICK fails :
             /\ stores' = [stores EXCEPT ![current] = Delete(stores[current], j, fails).store]
             /\ saved' = [saved EXCEPT ![j] = v] \/ saved' = [saved EXCEPT ![j] = Unknown]
      BY <1>6, <2>5 DEF RunWrite
    <3>2. KeepsOthers(stores[current], Delete(stores[current], j, fails).store, j)
      BY <1>0, <2>2, DeleteIs
    <3>3. v \notin Values /\ Unknown \notin Values
      BY <2>2, <2>5, ValueFacts DEF Unknown
    <3> HIDE DEF j, v
    <3>4. k # j /\ saved'[k] = saved[k]
      BY <1>0, <2>2, <3>1, <3>3
    <3> QED BY <1>0, <1>2, <2>1, <3>1, <3>2, <3>4
  <2> QED BY <2>1, <2>4, <2>5
<1>7. ASSUME NEW j \in Keys, ReadOriginal(j) PROVE Safe(k)'
  <2>1. /\ running /\ file' = file /\ saved' = saved /\ file.kind = current /\ running' = running
    BY <1>7 DEF ReadOriginal, Chosen, InUse
  <2>2. PICK fails : \/ stores' = stores
                     \/ stores' = [stores EXCEPT ![current] = Get(From, j, fails).store]
    BY <1>7 DEF ReadOriginal
  <2> DEFINE got == Get(From, j, fails)
  <2>3. Answers(stores[current], j, got)
    BY <1>0, GetIs DEF From
  <2> HIDE DEF got
  <2>4. CASE stores' = stores
    BY <1>3, <2>1, <2>4
  <2>5. CASE stores' = [stores EXCEPT ![current] = got.store]
    <3>1. CASE k # j
      BY <1>0, <1>2, <2>1, <2>3, <2>5, <3>1 DEF Answers
    <3>2. CASE k = j
      <4>1. stores'[file'.kind] = got.store
        BY <1>0, <2>1, <2>5
      <4> QED BY <2>1, <2>3, <3>2, <4>1 DEF Answers, Safe
    <3> QED BY <3>1, <3>2
  <2> QED BY <2>2, <2>4, <2>5 DEF got
<1>8. ASSUME NEW j \in Keys, CopySecret(j) PROVE Safe(k)'
  <2>1. /\ running /\ file' = file /\ saved' = saved /\ file.kind = current
    BY <1>8 DEF CopySecret, Chosen, InUse
  <2>2. move.kind \in Choices /\ move.kind # file.kind /\ move.found[j] \in Values
    BY <1>8, <2>1, UnderWay DEF CopySecret, MoveInv
  <2>3. PICK fails : stores' = [stores EXCEPT ![move.kind] = Set(To, j, move.found[j], fails).store]
    BY <1>8 DEF CopySecret
  <2>4. KeepsOthers(stores[move.kind], Set(To, j, move.found[j], fails).store, j)
    BY <1>0, <2>2, SetIs DEF To, Written
  <2> QED BY <1>2, <2>1, <2>2, <2>3, <2>4
<1>9. ASSUME NEW j \in Keys, RemoveSecret(j) PROVE Safe(k)'
  <2>1. /\ running /\ file' = file /\ saved' = saved /\ move.at \in {"undo", "originals"}
    BY <1>9 DEF RemoveSecret
  <2>2. move.kind \in Choices /\ move.kind # current
    BY <2>1, UnderWay
  <2> DEFINE c == IF move.at = "undo" THEN move.kind ELSE current
  <2>3. c \in Choices /\ c # file.kind
    BY <1>0, <2>1, <2>2 DEF Chosen, InUse
  <2>4. PICK fails : stores' = [stores EXCEPT ![c] = Delete(stores[c], j, fails).store]
    BY <1>9 DEF RemoveSecret
  <2> HIDE DEF c
  <2>5. KeepsOthers(stores[c], Delete(stores[c], j, fails).store, j)
    BY <1>0, <1>9, <2>3, DeleteIs
  <2> QED BY <1>2, <2>1, <2>3, <2>4, <2>5
<1>10. CASE StartMove \/ StartCopy \/ ReloadFile \/ FinishMove
  <2>1. stores' = stores /\ file' = file /\ saved' = saved /\ running
    BY <1>10 DEF StartMove, ThreadFree, StartCopy, ReloadFile, FinishMove
  <2> QED BY <1>3, <2>1
<1>11. CASE RecordChoice
  <2>1. /\ running /\ stores' = stores /\ move.at = "save"
        /\ \/ file' = file /\ saved' = saved
           \/ /\ file' = move.read
              /\ saved' = IF move.unavailable THEN [j \in Keys |-> Seen(To, j)] ELSE saved
    BY <1>11 DEF RecordChoice, EndRecording
  <2>2. move.read.kind = move.kind /\ move.kind \in Choices
    BY <2>1, UnderWay DEF MoveInv
  <2>3. CASE file' = file /\ saved' = saved
    BY <1>3, <2>1, <2>3
  <2>4. CASE /\ file' = move.read
             /\ saved' = IF move.unavailable THEN [j \in Keys |-> Seen(To, j)] ELSE saved
    <3>1. Has(stores[move.kind], k, saved'[k])
      <4>1. CASE move.unavailable
        <5>1. saved'[k] = Seen(To, k)
          BY <1>0, <2>4, <4>1
        <5> QED BY <1>0, <2>2, <5>1, SeenIs DEF To
      <4>2. CASE ~move.unavailable
        BY <2>1, <2>4, <4>2 DEF Moved
      <4> QED BY <4>1, <4>2
    <3>2. Has(Opened(stores[move.kind]), k, saved'[k])
      BY <1>0, <2>2, <3>1, OpenedIs
    <3>3. stores'[file'.kind] = stores[move.kind]
      BY <2>1, <2>2, <2>4
    <3> QED BY <3>1, <3>2, <3>3 DEF Safe
  <2> QED BY <2>1, <2>3, <2>4
<1>12. CASE Start
  <2>1. stores'[file'.kind] = Opened(stores[file.kind]) /\ saved' = saved
    BY <1>0, <1>12 DEF Start
  <2>2. Has(Opened(stores[file.kind]), k, saved[k])
    BY <2>1 DEF Safe
  <2>3. Has(Opened(Opened(stores[file.kind])), k, saved[k])
    BY <1>0, <2>2, OpenedIs
  <2> QED BY <2>1, <2>2, <2>3 DEF Safe
<1> QED
  BY <1>4, <1>5, <1>6, <1>7, <1>8, <1>9, <1>10, <1>11, <1>12, LostStep DEF Next, ThreadStep

(* What a move has found and copied is the password as it was saved last.  *)
LEMMA MovedStep ==
  ASSUME Shape, QueueInv, StoresInv, MoveInv, Chosen, [Next]_vars, ~lostUpdate',
         NEW k \in Passwords, saved'[k] \in Values,
         saved[k] \in Values => Safe(k) /\ Moved(k)
  PROVE  Moved(k)'
<1> USE DEF procVars, bounds
<1>0. /\ k \in Keys /\ current \in Choices /\ move \in Moves
      /\ \A c \in Choices : stores[c] \in Stores /\ Coherent(stores[c])
      /\ DOMAIN stores = Choices
  BY DEF Shape, StoresInv, Keys
<1>1. ASSUME move'.at \notin {"read", "copy", "save"} PROVE Moved(k)'
  BY <1>1 DEF Moved
<1>2. AtRest.at \notin {"read", "copy", "save"}
  BY DEF AtRest
<1>3. ASSUME move' = AtRest PROVE Moved(k)'
  BY <1>1, <1>2, <1>3
<1>4. CASE UNCHANGED vars \/ UserStep \/ WindowStep
  <2>1. UNCHANGED <<stores, move, saved>>
    BY <1>4 DEF vars, UserStep, SaveSecret, SaveInForm, ForgetKey, DeleteInForm, Queue,
       SwitchBackend, WindowStep, ReadFile, WriteFile, TakeAnswer
  <2> QED BY <2>1 DEF Moved
<1>5. CASE RunWrite
  BY <1>3, <1>5 DEF RunWrite, ThreadFree
<1>6. CASE StartMove
  <2>1. \/ move' = AtRest
        \/ move' = [AtRest EXCEPT !.at = "read", !.kind = queue[1].op,
                                  !.todo = Passwords \cup queue[1].keys \cup file.noted]
    BY <1>6 DEF StartMove, EndMove
  <2>2. CASE move' = [AtRest EXCEPT !.at = "read", !.kind = queue[1].op,
                                    !.todo = Passwords \cup queue[1].keys \cup file.noted]
    <3>1. move'.at = "read" /\ k \in move'.todo
      BY <2>2 DEF AtRest
    <3> QED BY <3>1 DEF Moved
  <2> QED BY <1>3, <2>1, <2>2
<1>7. ASSUME NEW j \in Keys, ReadOriginal(j) PROVE Moved(k)'
  <2>1. /\ saved' = saved /\ file.kind = current /\ running /\ move.at = "read"
    BY <1>7 DEF ReadOriginal, Chosen, InUse
  <2>2. PICK fails :
           \/ move' = AtRest
           \/ move' = [move EXCEPT !.at = "reload", !.todo = {},
                                   !.found = NoSecrets, !.unavailable = TRUE]
           \/ /\ Get(From, j, fails).error = ""
              /\ move' = [move EXCEPT !.todo = @ \ {j}, !.found[j] = Get(From, j, fails).value]
    BY <1>7 DEF ReadOriginal, EndMove
  <2> DEFINE got == Get(From, j, fails)
  <2>3. Answers(stores[current], j, got)
    BY <1>0, GetIs DEF From
  <2> HIDE DEF got
  <2>4. CASE move' = [move EXCEPT !.at = "reload", !.todo = {},
                                  !.found = NoSecrets, !.unavailable = TRUE]
    <3>1. move'.at = "reload"
      BY <1>0, <2>4 DEF Moves
    <3> QED BY <1>1, <3>1
  <2>5. CASE /\ got.error = ""
             /\ move' = [move EXCEPT !.todo = @ \ {j}, !.found[j] = got.value]
    <3>1. /\ move'.at = "read" /\ move'.todo = move.todo \ {j}
          /\ move'.found[j] = got.value /\ (k # j => move'.found[k] = move.found[k])
      BY <1>0, <2>1, <2>5 DEF Moves, Secrets
    <3>2. k \in move.todo \/ move.found[k] = saved[k]
      BY <2>1 DEF Moved
    <3>3. k = j => got.value = saved[k]
      BY <2>1, <2>3, <2>5 DEF Answers, Safe
    <3> QED BY <2>1, <3>1, <3>2, <3>3 DEF Moved
  <2> QED BY <1>3, <2>2, <2>4, <2>5 DEF got
<1>8. CASE StartCopy
  <2>1. /\ saved' = saved /\ move.at = "read" /\ move.todo = {}
        /\ move' = [move EXCEPT !.at = "copy", !.todo = {j \in Keys : move.found[j] # None}]
    BY <1>8 DEF StartCopy
  <2>2. move.found[k] = saved[k] /\ saved[k] # None
    BY <2>1, ValueFacts DEF Moved
  <2>3. move'.at = "copy" /\ move'.found = move.found /\ k \in move'.todo
    BY <1>0, <2>1, <2>2 DEF Moves
  <2> QED BY <2>1, <2>2, <2>3 DEF Moved
<1>9. ASSUME NEW j \in Keys, CopySecret(j) PROVE Moved(k)'
  <2>1. PICK fails :
           /\ saved' = saved /\ move.at = "copy"
           /\ stores' = [stores EXCEPT ![move.kind] = Set(To, j, move.found[j], fails).store]
           /\ \/ /\ Set(To, j, move.found[j], fails).error = ""
                 /\ move' = [move EXCEPT !.todo = @ \ {j}, !.copied = @ \cup {j}]
              \/ move' = [move EXCEPT !.at = "undo", !.todo = move.copied]
    BY <1>9 DEF CopySecret
  <2> DEFINE done == Set(To, j, move.found[j], fails)
  <2>2. move.kind \in Choices /\ move.found[j] \in Values
    BY <1>9, UnderWay DEF CopySecret, MoveInv
  <2>3. Written(stores[move.kind], j, move.found[j], done)
    BY <1>0, <2>2, SetIs DEF To
  <2> HIDE DEF done
  <2>4. CASE move' = [move EXCEPT !.at = "undo", !.todo = move.copied]
    <3>1. move'.at = "undo"
      BY <1>0, <2>4 DEF Moves
    <3> QED BY <1>1, <3>1
  <2>5. CASE /\ done.error = ""
             /\ move' = [move EXCEPT !.todo = @ \ {j}, !.copied = @ \cup {j}]
    <3>1. /\ move'.at = "copy" /\ move'.found = move.found /\ move'.kind = move.kind
          /\ move'.todo = move.todo \ {j}
      BY <1>0, <2>1, <2>5 DEF Moves
    <3>2. /\ move.found[k] = saved[k]
          /\ k \in move.todo \/ Has(stores[move.kind], k, saved[k])
      BY <2>1 DEF Moved
    <3>3. stores'[move.kind] = done.store
      BY <1>0, <2>1, <2>2 DEF done
    <3>4. k \in move'.todo \/ Has(stores'[move'.kind], k, saved'[k])
      <4>1. CASE k = j
        BY <2>1, <2>3, <2>5, <3>1, <3>2, <3>3, <4>1 DEF Written
      <4>2. CASE k # j
        <5>1. KeepsOthers(stores[move.kind], done.store, j)
          BY <2>3 DEF Written
        <5> QED BY <1>0, <2>1, <3>1, <3>2, <3>3, <4>2, <5>1 DEF KeepsOthers
      <4> QED BY <4>1, <4>2
    <3> QED BY <2>1, <3>1, <3>2, <3>4 DEF Moved
  <2> QED BY <2>1, <2>4, <2>5 DEF done
<1>10. ASSUME NEW j \in Keys, RemoveSecret(j) PROVE Moved(k)'
  <2>1. move'.at \in {"undo", "originals"}
    BY <1>0, <1>10 DEF RemoveSecret, Moves
  <2> QED BY <1>1, <2>1
<1>11. CASE ReloadFile
  <2>1. /\ saved' = saved /\ stores' = stores /\ move.at \in {"copy", "reload"} /\ move.todo = {}
        /\ \/ move' = AtRest
           \/ move' = [move EXCEPT !.at = "save", !.read = [file EXCEPT !.kind = move.kind]]
    BY <1>11 DEF ReloadFile, EndMove
  <2>2. CASE move' = [move EXCEPT !.at = "save", !.read = [file EXCEPT !.kind = move.kind]]
    <3>1. /\ move'.at = "save" /\ move'.kind = move.kind
          /\ move'.unavailable = move.unavailable
      BY <1>0, <2>2 DEF Moves
    <3>2. move.at = "copy" => Has(stores[move.kind], k, saved[k])
      BY <2>1 DEF Moved
    <3>3. move.at = "reload" => move.unavailable
      BY DEF MoveInv
    <3> QED BY <2>1, <3>1, <3>2, <3>3 DEF Moved
  <2> QED BY <1>3, <2>1, <2>2
<1>12. CASE RecordChoice
  <2>1. move'.at \in {"undo", "originals"}
    BY <1>0, <1>12 DEF RecordChoice, EndRecording, Moves
  <2> QED BY <1>1, <2>1
<1>13. CASE FinishMove \/ Stop \/ Start
  BY <1>3, <1>13 DEF FinishMove, EndMove, Stop, Start, MoveInv
<1> QED
  BY <1>4, <1>5, <1>6, <1>7, <1>8, <1>9, <1>10, <1>11, <1>12, <1>13, LostStep
     DEF Next, ThreadStep

LEMMA MovingStep == MovingInv /\ [Next]_vars => MovingInv'
<1> SUFFICES ASSUME MovingInv, [Next]_vars PROVE MovingInv'
  OBVIOUS
<1>1. Shape' /\ QueueInv' /\ StoresInv' /\ MoveInv'
  BY ShapeStep, QueueStep, StoresStep, MoveStep DEF MovingInv
<1>2. SecretsInv'
  <2> SUFFICES ASSUME ~lostUpdate'
               PROVE  /\ Chosen'
                      /\ \A k \in Passwords : saved'[k] \in Values => Safe(k)' /\ Moved(k)'
    BY Zenon DEF SecretsInv
  <2>1. Chosen /\ \A k \in Passwords : saved[k] \in Values => Safe(k) /\ Moved(k)
    BY LostStep DEF MovingInv, SecretsInv
  <2>2. Chosen'
    BY <2>1, ChosenStep DEF MovingInv
  <2>3. ASSUME NEW k \in Passwords, saved'[k] \in Values PROVE Safe(k)' /\ Moved(k)'
    BY <2>1, <2>3, SafeStep, MovedStep DEF MovingInv
  <2> QED BY <2>2, <2>3
<1> QED BY <1>1, <1>2 DEF MovingInv

LEMMA MovingInit == Init => MovingInv
<1> SUFFICES ASSUME Init PROVE MovingInv
  OBVIOUS
<1>0. PICK kind \in Choices, system \in Systems, before \in Secrets, old \in BOOLEAN :
         LET separately == old /\ kind = "system" /\ system = "vault"
             noted == {k \in Keys : before[k] # None}
             Empty(c) == [kind |-> IF c = "system" THEN system ELSE c,
                          item |-> NoSecrets, separate |-> NoSecrets,
                          cache |-> NothingRead, checked |-> {}]
         IN  /\ stores = [c \in Choices |->
                             IF c # kind THEN Empty(c)
                             ELSE IF separately THEN [Empty(c) EXCEPT !.separate = before]
                             ELSE [Empty(c) EXCEPT !.item = before]]
             /\ file = [kind |-> kind, noted |-> noted]
             /\ running = TRUE
             /\ current = kind
             /\ queue = <<>>
             /\ move = AtRest
             /\ answers = <<>>
             /\ window = Window(noted)
             /\ edited = NotEdited
             /\ saved = before
             /\ lostUpdate = FALSE
             /\ writes = 0 /\ moves = 0 /\ faults = 0 /\ starts = 0
  BY Zenon DEF Init
<1> DEFINE separately == old /\ kind = "system" /\ system = "vault"
<1> DEFINE Empty(c) ==
       [kind |-> IF c = "system" THEN system ELSE c, item |-> NoSecrets,
        separate |-> NoSecrets, cache |-> NothingRead, checked |-> {}]
<1>1. /\ separately => kind = "system" /\ system = "vault"
      /\ stores = [c \in Choices |->
                      IF c # kind THEN Empty(c)
                      ELSE IF separately THEN [Empty(c) EXCEPT !.separate = before]
                      ELSE [Empty(c) EXCEPT !.item = before]]
      /\ file = [kind |-> kind, noted |-> {k \in Keys : before[k] # None}]
      /\ running = TRUE /\ current = kind /\ queue = <<>> /\ move = AtRest
      /\ answers = <<>> /\ window = Window({k \in Keys : before[k] # None})
      /\ edited = NotEdited /\ saved = before /\ lostUpdate = FALSE
  BY <1>0
<1> HIDE DEF separately
<1>2. /\ NoSecrets \in Secrets /\ {} \in SUBSET Keys
      /\ NothingRead \in [Keys -> Values \cup {None, Unread}]
      /\ \A k \in Keys : NothingRead[k] = Unread /\ NoSecrets[k] = None
  BY DEF NoSecrets, NothingRead, Secrets
<1>3. system \in {"entries", "vault"}
  BY CredentialMoveAssumption
<1>4. \A c \in Choices :
         /\ stores[c] \in Stores /\ stores[c].cache = NothingRead
         /\ stores[c].checked = {}
  BY <1>1, <1>2, <1>3 DEF Choices, Kinds, Stores
<1>5. StoresInv
  BY <1>1, <1>2, <1>4 DEF StoresInv, Coherent
<1>6. AtRest \in Moves /\ AtRest.at = "rest"
  BY <1>2 DEF AtRest, Moves
<1>7. Shape
  BY <1>1, <1>6 DEF Shape, Files, Secrets
<1>8. MoveInv
  BY <1>1, <1>6 DEF MoveInv
<1>9. QueueInv
  <2>1. FormsIn(queue) = 0 /\ FormsIn(answers) = 0
    BY <1>1, FormsOfNone
  <2>2. /\ window \in [noted : SUBSET Keys, pending : BOOLEAN, waits : Nat]
        /\ window.waits = 0
    BY <1>1 DEF Window
  <2>3. queue \in Seq(Jobs) /\ answers \in Seq(Answered)
    BY <1>1
  <2> QED BY <2>1, <2>2, <2>3 DEF QueueInv
<1>10. SecretsInv
  <2>1. Chosen
    BY <1>1, <1>6 DEF Chosen, InUse
  <2>2. ASSUME NEW k \in Passwords, saved[k] \in Values PROVE Safe(k) /\ Moved(k)
    <3>1. k \in Keys
      BY DEF Keys
    <3>2. \/ stores[kind].item = before
          \/ /\ stores[kind].kind = "vault" /\ stores[kind].item = NoSecrets
             /\ stores[kind].separate = before
      BY <1>1
    <3>3. Has(stores[kind], k, saved[k])
      BY <1>1, <1>2, <1>4, <3>1, <3>2 DEF Has
    <3>4. Has(Opened(stores[kind]), k, saved[k])
      BY <1>4, <3>3, OpenedIs
    <3> QED BY <1>1, <1>6, <3>3, <3>4 DEF Safe, Moved
  <2> QED BY <2>1, <2>2 DEF SecretsInv
<1> QED BY <1>5, <1>7, <1>8, <1>9, <1>10 DEF MovingInv

(* However jobs, moves, failing calls, writes of the settings file and     *)
(* restarts interleave, the stores, the file and the queues keep their     *)
(* types, and the settings window waits for exactly the results that are   *)
(* still to come: its jobs that are queued and answers not taken yet.      *)
THEOREM MovingTypes == Spec => [](TypeOK /\ QueueInv)
<1>1. MovingInv => TypeOK /\ QueueInv
  BY DEF MovingInv, Shape, QueueInv, StoresInv, TypeOK, Files, Moves
<1> QED BY MovingInit, MovingStep, <1>1, PTL DEF Spec

(* SecretsSurvive: whatever moment the process ends at, a password whose   *)
(* store confirmed it is in the store that the settings file names.        *)
THEOREM PasswordsSurvive == Spec => []SecretsSurvive
<1>1. MovingInv => SecretsSurvive
  <2> SUFFICES ASSUME MovingInv, NEW k \in Passwords, ~lostUpdate, saved[k] \in Values
               PROVE  Kept(stores[file.kind], k) = saved[k]
    BY DEF SecretsSurvive
  <2>1. stores[file.kind] \in Stores /\ k \in Keys
    BY DEF MovingInv, Shape, StoresInv, Files, Keys
  <2>2. Has(Opened(stores[file.kind]), k, saved[k])
    BY DEF MovingInv, SecretsInv, Safe
  <2> QED BY <2>1, <2>2, KeptIs
<1> QED BY MovingInit, MovingStep, <1>1, PTL DEF Spec

(* SecretsInUse: between its jobs the store thread finds every password    *)
(* that was confirmed in the store it uses.                                *)
THEOREM PasswordsInUse == Spec => []SecretsInUse
<1>1. MovingInv => SecretsInUse
  <2> SUFFICES ASSUME MovingInv, NEW k \in Passwords, running, move = AtRest,
                      ~lostUpdate, saved[k] \in Values
               PROVE  Seen(stores[current], k) = saved[k]
    BY DEF SecretsInUse
  <2>1. /\ stores[current] \in Stores /\ Coherent(stores[current]) /\ k \in Keys
    BY DEF MovingInv, Shape, StoresInv, Keys
  <2>2. file.kind = current
    BY DEF MovingInv, SecretsInv, Chosen, InUse, AtRest
  <2>3. Has(stores[current], k, saved[k])
    BY <2>2 DEF MovingInv, SecretsInv, Safe
  <2> QED BY <2>1, <2>3, SeenIs
<1> QED BY MovingInit, MovingStep, <1>1, PTL DEF Spec

(* ChoiceAgrees: between its jobs the store thread uses the store that the *)
(* settings file names, after a move that failed half way too.             *)
THEOREM StoreIsTheChoice == Spec => []ChoiceAgrees
<1>1. MovingInv => ChoiceAgrees
  BY DEF MovingInv, SecretsInv, Chosen, InUse, AtRest, ChoiceAgrees
<1> QED BY MovingInit, MovingStep, <1>1, PTL DEF Spec
=============================================================================

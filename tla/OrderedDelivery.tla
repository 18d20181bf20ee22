-------------------------- MODULE OrderedDelivery --------------------------
(***************************************************************************)
(* What a connection promises for the messages it accepts, without queues, *)
(* timers or threads: messages are numbered in the order they were         *)
(* accepted; one is either written to the server or refused; a message is  *)
(* written only when no earlier one is still waiting, and never twice.     *)
(* What still waits when the link ends is dropped.  Connection.tla, the    *)
(* worker of crates/irc-core, is shown to implement this.                  *)
(***************************************************************************)
EXTENDS Naturals, Sequences

CONSTANT MaxIds           \* bound: the messages of one behaviour

VARIABLES nextId,         \* the number the next accepted message gets
          pending,        \* accepted, neither written nor refused yet
          written,        \* written to the server, in order
          open            \* the link has not ended

deliveryVars == <<nextId, pending, written, open>>

DeliveryInit ==
    /\ nextId = 1
    /\ pending = {}
    /\ written = <<>>
    /\ open = TRUE

(* The connection accepts k messages at once (a paste) or one. *)
Accept(k) ==
    /\ open
    /\ nextId + k <= MaxIds + 1
    /\ nextId' = nextId + k
    /\ pending' = pending \cup nextId..(nextId + k - 1)
    /\ UNCHANGED <<written, open>>

(* The oldest waiting message is written. *)
Write(id) ==
    /\ open
    /\ id \in pending
    /\ \A other \in pending : id <= other
    /\ pending' = pending \ {id}
    /\ written' = Append(written, id)
    /\ UNCHANGED <<nextId, open>>

(* Some waiting messages are refused and reported. *)
Refuse(ids) ==
    /\ open
    /\ ids \subseteq pending
    /\ pending' = pending \ ids
    /\ UNCHANGED <<nextId, written, open>>

(* The link ends; what waits is dropped. *)
Stop ==
    /\ open
    /\ open' = FALSE
    /\ pending' = {}
    /\ UNCHANGED <<nextId, written>>

DeliveryNext ==
    \/ \E k \in 1..MaxIds : Accept(k)
    \/ \E id \in pending : Write(id)
    \/ \E ids \in SUBSET pending : Refuse(ids)
    \/ Stop

DeliverySpec == DeliveryInit /\ [][DeliveryNext]_deliveryVars
=============================================================================

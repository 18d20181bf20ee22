--------------------------- MODULE CapNegotiation ---------------------------
(***************************************************************************)
(* IRCv3 capability negotiation: crates/irc-core/src/cap.rs with the parts *)
(* of sasl.rs it drives, against a server over the two directions of one   *)
(* stream.  The client is CapNegotiation::observe, one action per kind of  *)
(* line; whatever the line, enforce_dependencies and end_if_settled follow *)
(* it in the same step (Finish).                                           *)
(*                                                                         *)
(* The server is external.  It may know nothing of CAP; it answers every   *)
(* request on a line of its own, in order; and it may add and withdraw     *)
(* capabilities at any time once it has listed them.                       *)
(***************************************************************************)
EXTENDS Naturals, Sequences, SequencesExt

CONSTANTS Options,     \* the fields of Ircv3Options that are on
          Utf8,        \* the wire encoding is UTF-8
          UsesSasl,    \* SASL credentials are configured
          ServerCaps,  \* capabilities the server may offer
          Refusable,   \* those it may reject though it offers them
          Volatile,    \* those it may add or withdraw
          MaxChanges   \* bound: times it does so

VARIABLES
    \* CapNegotiation, and the worker's registered.
    phase, offered, enabled, pending, ackLines, sasl, registered,
    refused,           \* the negotiation was refused: the connection ends
    \* The server.
    offers, granted,
    capable,           \* it knows CAP
    mechanism,         \* it lists the mechanism the user chose
    listed,            \* it has answered CAP LS
    authenticated, saslDenied, welcomed, changes,
    saslWithdrawn,     \* it has withdrawn sasl
    \* The stream.
    toServer, toClient

clientVars == <<phase, offered, enabled, pending, ackLines, sasl, registered,
                refused>>
serverVars == <<offers, granted, capable, mechanism, listed, authenticated,
                saslDenied, welcomed, changes, saslWithdrawn>>
capVars == <<clientVars, serverVars, toServer, toClient>>

SASL == "sasl"
MESSAGE_TAGS == "message-tags"
SERVER_TIME == "server-time"
BATCH == "batch"
METADATA == "metadata-2"
ECHO_MESSAGE == "echo-message"
LABELED_RESPONSE == "labeled-response"
CHATHISTORY == "chathistory"

(* Whether an option makes the client want a capability, and whether by    *)
(* its own opt-in or only for an extension that needs it.                  *)
On(options) == options \cap Options # {}

WantedFor(name) ==
    CASE name = MESSAGE_TAGS ->
           Utf8 /\ On({"message_tags", "chathistory", "confirmed_sending"})
      [] name = SERVER_TIME -> On({"server_time", "chathistory", "confirmed_sending"})
      [] name = BATCH ->
           On({"batch", "metadata", "chathistory"}) \/ (Utf8 /\ On({"confirmed_sending"}))
      [] name = METADATA -> On({"metadata"})
      [] name = ECHO_MESSAGE -> On({"confirmed_sending"})
      [] name = LABELED_RESPONSE -> Utf8 /\ On({"confirmed_sending"})
      [] name \in {"account-notify", "extended-join"} -> On({"accounts"})
      [] name = CHATHISTORY -> On({"chathistory"})

(* Optional capabilities, in the order of their requests. *)
Negotiable == <<MESSAGE_TAGS, SERVER_TIME, BATCH, METADATA, ECHO_MESSAGE,
                LABELED_RESPONSE, "account-notify", "extended-join", CHATHISTORY>>
OptedIn == SelectSeq(Negotiable, WantedFor)
Negotiates == UsesSasl \/ OptedIn # <<>>
Optional ==
    IF Negotiates
    THEN OptedIn \o (IF Utf8 THEN <<"account-tag">> ELSE <<>>) \o <<"setname">>
    ELSE <<>>

Explicit(name) ==
    CASE name = MESSAGE_TAGS -> On({"message_tags"})
      [] name = SERVER_TIME  -> On({"server_time"})
      [] name = BATCH        -> On({"batch"})
      [] OTHER               -> TRUE

NeedsBatch == {METADATA, CHATHISTORY, LABELED_RESPONSE}

Dependents(name) ==
    CASE name = BATCH        -> NeedsBatch
      [] name = MESSAGE_TAGS -> {CHATHISTORY, ECHO_MESSAGE, LABELED_RESPONSE}
      [] name = SERVER_TIME  -> {CHATHISTORY, ECHO_MESSAGE}
      [] OTHER               -> {}

Capabilities == ToSet(Optional) \cup {SASL}

-----------------------------------------------------------------------------
(* Lines.  A line of the server names one capability, except for the list  *)
(* of LS; more marks a line that the next one continues.                   *)

Command(verb, name) == [verb |-> verb, name |-> name]
Request(names) == [i \in DOMAIN names |-> Command("REQ", names[i])]

Line(verb, caps, more) == [verb |-> verb, caps |-> caps, more |-> more]

Init ==
    /\ phase = IF Negotiates THEN "Listing" ELSE "Inactive"
    /\ toServer = <<Command(IF Negotiates THEN "LS" ELSE "END", "")>>
    /\ toClient = <<>>
    /\ offered = {} /\ enabled = {} /\ pending = {} /\ ackLines = {}
    /\ sasl = IF UsesSasl THEN "Idle" ELSE "None"
    /\ registered = FALSE /\ refused = FALSE
    /\ offers \in SUBSET ServerCaps /\ granted = {}
    /\ capable \in BOOLEAN /\ mechanism \in BOOLEAN /\ listed = FALSE
    /\ authenticated = FALSE /\ saslDenied = FALSE /\ welcomed = FALSE
    /\ changes = 0 /\ saslWithdrawn = FALSE

-----------------------------------------------------------------------------
(* The client.  An operator below says what observe does to the state; the *)
(* names en, pe, of, sa stand for enabled, pending, offered and sasl as    *)
(* they are at that point of the handler.                                  *)

(* request_optional: the capabilities to request now. *)
RequestOptional(of, en, pe) ==
    LET wanted(name) ==
            /\ name \in of \ (en \cup pe)
            /\ name \in NeedsBatch => BATCH \in en
            /\ name = LABELED_RESPONSE => MESSAGE_TAGS \in en
            /\ \/ Explicit(name)
               \/ Dependents(name) \cap ToSet(Optional) \cap of # {}
    IN  SelectSeq(Optional, wanted)

(* Slip: a request that still waits is not taken back. *)
WithoutBatchKeepingRequests(en, pe) ==
    IF BATCH \in en THEN {} ELSE NeedsBatch \cap en

(* enforce_dependencies: what must not outlive batch. *)
WithoutBatch(en, pe) ==
    IF BATCH \in en THEN {} ELSE NeedsBatch \cap (en \cup pe)

(* end_if_settled. *)
Settled(ph, pe, sa) ==
    ph = "Requesting" /\ pe = {} /\ sa \in {"None", "Complete"}

(* The end of observe, after a line that leaves en, pe and sa and sends    *)
(* these commands.                                                         *)
Finish(ph, en, pe, sa, commands) ==
    LET gone  == WithoutBatch(en, pe)
        drops == SelectSeq(<<METADATA, CHATHISTORY, LABELED_RESPONSE>>,
                           LAMBDA name : name \in gone)
        ends  == Settled(ph, pe \ gone, sa)
    IN  /\ enabled' = en \ gone
        /\ pending' = pe \ gone
        /\ sasl' = sa
        /\ phase' = IF ends THEN "Ended" ELSE ph
        /\ toServer' = toServer \o commands
                         \o [i \in DOMAIN drops |-> Command("DROP", drops[i])]
                         \o (IF ends THEN <<Command("END", "")>> ELSE <<>>)

Receive(verb) ==
    /\ ~refused
    /\ toClient # <<>>
    /\ Head(toClient).verb = verb
    /\ toClient' = Tail(toClient)
    /\ UNCHANGED serverVars

Refuse ==
    /\ refused' = TRUE
    /\ UNCHANGED <<phase, enabled, pending, sasl, toServer>>

(* An LS line; request_after_listing on the last one. *)
ReceiveLS ==
    /\ Receive("LS")
    /\ phase = "Listing"
    /\ offered' = offered \cup Head(toClient).caps
    /\ IF Head(toClient).more
       THEN Finish(phase, enabled, pending, sasl, <<>>) /\ UNCHANGED refused
       ELSE IF UsesSasl /\ ~(SASL \in offered' /\ mechanism)
       THEN Refuse
       ELSE LET first == IF UsesSasl THEN <<SASL>> ELSE <<>>
                names == first \o RequestOptional(offered', enabled,
                                                  pending \cup ToSet(first))
            IN  /\ Finish("Requesting", enabled, pending \cup ToSet(names), sasl,
                          Request(names))
                /\ UNCHANGED refused
    /\ UNCHANGED <<ackLines, registered>>

(* append_ack: only a requested capability, or the disabling of an enabled *)
(* one, is kept.                                                           *)
AppendAck(line) ==
    ackLines \cup {token \in line.caps :
                     IF token.off THEN token.name \in enabled
                                  ELSE token.name \in pending}

(* acknowledge, for the one capability a server acknowledges at a time. *)
Acknowledge(token) ==
    LET en == IF token.off THEN enabled \ {token.name} ELSE enabled \cup {token.name}
        pe == IF token.off THEN pending ELSE pending \ {token.name}
        begins == ~token.off /\ token.name = SASL /\ sasl # "None"
        more == IF ~token.off /\ token.name \in {BATCH, MESSAGE_TAGS}
                THEN RequestOptional(offered, en, pe) ELSE <<>>
    IN  Finish(phase, en, pe \cup ToSet(more), IF begins THEN "Starting" ELSE sasl,
               Request(more) \o (IF begins THEN <<Command("AUTH", "")>> ELSE <<>>))

ReceiveACK ==
    /\ Receive("ACK")
    /\ LET kept == AppendAck(Head(toClient)) IN
       IF Head(toClient).more
       THEN /\ ackLines' = kept
            /\ Finish(phase, enabled, pending, sasl, <<>>)
       ELSE /\ ackLines' = {}
            /\ \/ \E token \in kept : Acknowledge(token)
               \/ kept = {} /\ Finish(phase, enabled, pending, sasl, <<>>)
    /\ UNCHANGED <<offered, registered, refused>>

(* Slip: a declined capability keeps its request waiting. *)
ReceiveNAKIgnored ==
    /\ Receive("NAK")
    /\ Finish(phase, enabled, pending, sasl, <<>>)
    /\ UNCHANGED <<offered, ackLines, registered, refused>>

ReceiveNAK ==
    /\ Receive("NAK")
    /\ LET names == Head(toClient).caps \cap pending IN
       IF SASL \in names
       THEN Refuse
       ELSE Finish(phase, enabled, pending \ names, sasl, <<>>) /\ UNCHANGED refused
    /\ UNCHANGED <<offered, ackLines, registered>>

ReceiveNEW ==
    /\ Receive("NEW")
    /\ offered' = offered \cup Head(toClient).caps
    /\ LET names == IF phase = "Listing" THEN <<>>
                    ELSE RequestOptional(offered', enabled, pending) IN
       Finish(phase, enabled, pending \cup ToSet(names), sasl, Request(names))
    /\ UNCHANGED <<ackLines, registered, refused>>

ReceiveDEL ==
    /\ Receive("DEL")
    /\ LET gone == Head(toClient).caps IN
       /\ offered' = offered \ gone
       /\ Finish(phase, enabled \ gone, pending \ gone, sasl, <<>>)
    /\ UNCHANGED <<ackLines, registered, refused>>

(* SaslHandshake::observe: AUTHENTICATE, 903 and the failure numerics.     *)
ReceiveChallenge ==
    /\ Receive("AUTHENTICATE")
    /\ IF sasl = "Starting"
       THEN Finish(phase, enabled, pending, "WaitingForResult",
                   <<Command("RESPONSE", "")>>)
       ELSE Finish(phase, enabled, pending, sasl, <<>>)
    /\ UNCHANGED <<offered, ackLines, registered, refused>>

ReceiveSuccess ==
    /\ Receive("903")
    /\ IF sasl = "Starting"
       THEN Refuse
       ELSE /\ Finish(phase, enabled, pending,
                      IF sasl = "WaitingForResult" THEN "Complete" ELSE sasl, <<>>)
            /\ UNCHANGED refused
    /\ UNCHANGED <<offered, ackLines, registered>>

ReceiveFailure ==
    /\ Receive("904")
    /\ IF sasl # "None"
       THEN Refuse
       ELSE Finish(phase, enabled, pending, sasl, <<>>) /\ UNCHANGED refused
    /\ UNCHANGED <<offered, ackLines, registered>>

(* Slip: 001 is taken though SASL has not finished. *)
ReceiveWelcomeUnauthenticated ==
    /\ Receive("001")
    /\ registered' = TRUE
    /\ sasl' = "None"
    /\ phase' = IF phase = "Inactive" THEN phase ELSE "Ended"
    /\ UNCHANGED <<enabled, pending, toServer, refused, offered, ackLines>>

(* 001: CapNegotiation::registered. *)
ReceiveWelcome ==
    /\ Receive("001")
    /\ IF sasl \notin {"None", "Complete"}
       THEN Refuse /\ UNCHANGED registered
       ELSE /\ registered' = TRUE
            /\ sasl' = "None"
            /\ phase' = IF phase = "Inactive" THEN phase ELSE "Ended"
            /\ UNCHANGED <<enabled, pending, toServer, refused>>
    /\ UNCHANGED <<offered, ackLines>>

ClientStep ==
    \/ ReceiveLS \/ ReceiveACK \/ ReceiveNAK \/ ReceiveNEW \/ ReceiveDEL
    \/ ReceiveChallenge \/ ReceiveSuccess \/ ReceiveFailure \/ ReceiveWelcome

-----------------------------------------------------------------------------
(* The server. *)

Take(verb) ==
    /\ toServer # <<>>
    /\ Head(toServer).verb = verb
    /\ toServer' = Tail(toServer)
    /\ UNCHANGED clientVars

Reply(lines) == toClient' = toClient \o lines

(* One line, or two of which the second may be empty. *)
Lines(verb, caps) ==
    {<<Line(verb, caps, FALSE)>>} \cup
    {<<Line(verb, part, TRUE), Line(verb, caps \ part, FALSE)>> : part \in SUBSET caps}

Token(name, off) == [name |-> name, off |-> off]

AnswerLS ==
    /\ Take("LS")
    /\ IF capable
       THEN \E lines \in Lines("LS", offers) : Reply(lines) /\ listed' = TRUE
       ELSE UNCHANGED <<toClient, listed>>
    /\ UNCHANGED <<offers, granted, capable, mechanism, authenticated, saslDenied,
                   welcomed, changes, saslWithdrawn>>

Accept ==
    /\ Take("REQ")
    /\ LET name == Head(toServer).name IN
       /\ name \in offers
       /\ granted' = granted \cup {name}
       /\ \E lines \in Lines("ACK", {Token(name, FALSE)}) : Reply(lines)
    /\ UNCHANGED <<offers, capable, mechanism, listed, authenticated, saslDenied,
                   welcomed, changes, saslWithdrawn>>

Reject ==
    /\ Take("REQ")
    /\ LET name == Head(toServer).name IN
       /\ name \notin offers \/ name \in Refusable
       /\ Reply(<<Line("NAK", {name}, FALSE)>>)
       /\ saslDenied' = (saslDenied \/ name = SASL)
    /\ UNCHANGED <<offers, granted, capable, mechanism, listed, authenticated,
                   welcomed, changes, saslWithdrawn>>

Disable ==
    /\ Take("DROP")
    /\ granted' = granted \ {Head(toServer).name}
    /\ Reply(<<Line("ACK", {Token(Head(toServer).name, TRUE)}, FALSE)>>)
    /\ UNCHANGED <<offers, capable, mechanism, listed, authenticated, saslDenied,
                   welcomed, changes, saslWithdrawn>>

Challenge ==
    /\ Take("AUTH")
    /\ \/ Reply(<<Line("AUTHENTICATE", {}, FALSE)>>) /\ UNCHANGED saslDenied
       \/ /\ SASL \in Refusable \/ SASL \notin granted
          /\ Reply(<<Line("904", {}, FALSE)>>)
          /\ saslDenied' = TRUE
    /\ UNCHANGED <<offers, granted, capable, mechanism, listed, authenticated,
                   welcomed, changes, saslWithdrawn>>

Judge ==
    /\ Take("RESPONSE")
    /\ \/ /\ authenticated' = TRUE
          /\ Reply(<<Line("903", {}, FALSE)>>)
          /\ UNCHANGED saslDenied
       \/ /\ SASL \in Refusable
          /\ Reply(<<Line("904", {}, FALSE)>>)
          /\ saslDenied' = TRUE
          /\ UNCHANGED authenticated
    /\ UNCHANGED <<offers, granted, capable, mechanism, listed, welcomed, changes,
                   saslWithdrawn>>

(* A server that knows CAP holds registration back until CAP END. *)
EndRegistration ==
    /\ Take("END")
    /\ IF welcomed
       THEN UNCHANGED <<toClient, welcomed>>
       ELSE Reply(<<Line("001", {}, FALSE)>>) /\ welcomed' = TRUE
    /\ UNCHANGED <<offers, granted, capable, mechanism, listed, authenticated,
                   saslDenied, changes, saslWithdrawn>>

WelcomeWithoutCap ==
    /\ ~capable /\ ~welcomed
    /\ welcomed' = TRUE
    /\ Reply(<<Line("001", {}, FALSE)>>)
    /\ UNCHANGED <<clientVars, offers, granted, capable, mechanism, listed,
                   authenticated, saslDenied, changes, saslWithdrawn, toServer>>

Change ==
    /\ listed /\ changes < MaxChanges
    /\ changes' = changes + 1
    /\ UNCHANGED <<clientVars, capable, mechanism, listed, authenticated, saslDenied,
                   welcomed, toServer>>

Offer(name) ==
    /\ Change
    /\ name \notin offers
    /\ offers' = offers \cup {name}
    /\ Reply(<<Line("NEW", {name}, FALSE)>>)
    /\ UNCHANGED <<granted, saslWithdrawn>>

Withdraw(name) ==
    /\ Change
    /\ name \in offers
    /\ offers' = offers \ {name}
    /\ granted' = granted \ {name}
    /\ saslWithdrawn' = (saslWithdrawn \/ name = SASL)
    /\ Reply(<<Line("DEL", {name}, FALSE)>>)

ServerStep ==
    \/ AnswerLS \/ Accept \/ Reject \/ Disable \/ Challenge \/ Judge
    \/ EndRegistration \/ WelcomeWithoutCap

Next ==
    \/ ClientStep
    \/ ServerStep
    \/ \E name \in Volatile : Offer(name) \/ Withdraw(name)

Spec == Init /\ [][Next]_capVars

(* The worker reads what arrives, and the server answers what it reads.    *)
FairSpec == Spec /\ WF_capVars(ClientStep) /\ WF_capVars(ServerStep)

-----------------------------------------------------------------------------
(* Properties. *)

(* The type invariant. *)
TypeOK ==
    /\ phase \in {"Inactive", "Listing", "Requesting", "Ended"}
    /\ offered \subseteq ServerCaps
    /\ enabled \subseteq Capabilities /\ pending \subseteq Capabilities
    /\ enabled \cap pending = {}
    /\ \A token \in ackLines : token.name \in Capabilities /\ token.off \in BOOLEAN
    /\ sasl \in {"None", "Idle", "Starting", "WaitingForResult", "Complete"}
    /\ registered \in BOOLEAN /\ refused \in BOOLEAN
    /\ offers \subseteq ServerCaps /\ granted \subseteq offers
    /\ changes \in 0..MaxChanges

(* Extensions whose replies only make sense inside batches are never       *)
(* enabled, nor asked for, while batch is off.                             *)
NeverWithoutBatch ==
    NeedsBatch \cap (enabled \cup pending) # {} => BATCH \in enabled

(* Once nothing is in flight, the client relies only on capabilities the   *)
(* server has on: NEW, DEL, ACK and requests that cross on the way do not  *)
(* leave it waiting for echoes, labels or batches that never come.         *)
Quiet == toServer = <<>> /\ toClient = <<>>
EnabledMeansGranted == Quiet => enabled \subseteq granted

(* With SASL configured, the client never goes on as registered without    *)
(* the server having authenticated it, whatever capabilities come and go   *)
(* or whether the server knows CAP at all.                                 *)
RegisteredIsAuthenticated == registered /\ UsesSasl => authenticated

(* Only SASL can refuse a connection: no answer to an optional extension   *)
(* ends it.                                                                *)
OnlySaslRefuses ==
    refused => UsesSasl /\ (saslDenied \/ ~mechanism \/ ~capable \/ SASL \notin offered)

(* CAP END is sent at most once, and no authentication follows it.         *)
EndIsLast ==
    \A i \in DOMAIN toServer : toServer[i].verb = "END" =>
        \A j \in DOMAIN toServer : j > i => toServer[j].verb \notin {"AUTH", "RESPONSE", "END"}

(* Negotiation ends: the client registers or is refused, unless the server *)
(* withdraws sasl in the middle (the registration timeout then ends it).   *)
NegotiationEnds ==
    phase = "Listing" ~> registered \/ refused \/ (UsesSasl /\ saslWithdrawn)
=============================================================================

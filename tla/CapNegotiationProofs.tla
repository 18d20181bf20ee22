------------------------ MODULE CapNegotiationProofs ------------------------
(***************************************************************************)
(* What CapNegotiation promises of every set of options, capabilities and  *)
(* server.                                                                 *)
(***************************************************************************)
EXTENDS CapNegotiation, SequenceTheorems, TLAPS

-----------------------------------------------------------------------------
(* Extensions that need batch. *)

(* However a line changes the two sets, enforce_dependencies leaves none   *)
(* of the extensions without batch.                                        *)
LEMMA FinishKeepsBatch ==
    ASSUME NEW ph, NEW en, NEW pe, NEW sa, NEW commands,
           Finish(ph, en, pe, sa, commands)
    PROVE  NeverWithoutBatch'
<1>1. enabled' = en \ WithoutBatch(en, pe) /\ pending' = pe \ WithoutBatch(en, pe)
  BY DEF Finish
<1>2. CASE BATCH \in en
  <2>1. WithoutBatch(en, pe) = {}
    BY <1>2 DEF WithoutBatch
  <2> QED
    BY <1>1, <1>2, <2>1 DEF NeverWithoutBatch
<1>3. CASE BATCH \notin en
  <2>1. WithoutBatch(en, pe) = NeedsBatch \cap (en \cup pe)
    BY <1>3 DEF WithoutBatch
  <2> QED
    BY <1>1, <2>1 DEF NeverWithoutBatch
<1> QED
  BY <1>2, <1>3

(* A line that refuses the connection changes neither set. *)
LEMMA SameSetsKeepBatch ==
    ASSUME NeverWithoutBatch, UNCHANGED <<enabled, pending>>
    PROVE  NeverWithoutBatch'
BY DEF NeverWithoutBatch

(* Every line of the server keeps the rule. *)
LEMMA ClientKeepsBatch ==
    ASSUME NeverWithoutBatch, ClientStep
    PROVE  NeverWithoutBatch'
<1>1. CASE ReceiveLS
  BY <1>1, FinishKeepsBatch, SameSetsKeepBatch DEF ReceiveLS, Refuse
<1>2. CASE ReceiveACK
  BY <1>2, FinishKeepsBatch DEF ReceiveACK, Acknowledge
<1>3. CASE ReceiveNAK
  BY <1>3, FinishKeepsBatch, SameSetsKeepBatch DEF ReceiveNAK, Refuse
<1>4. CASE ReceiveNEW
  BY <1>4, FinishKeepsBatch DEF ReceiveNEW
<1>5. CASE ReceiveDEL
  BY <1>5, FinishKeepsBatch DEF ReceiveDEL
<1>6. CASE ReceiveChallenge
  BY <1>6, FinishKeepsBatch DEF ReceiveChallenge
<1>7. CASE ReceiveSuccess
  BY <1>7, FinishKeepsBatch, SameSetsKeepBatch DEF ReceiveSuccess, Refuse
<1>8. CASE ReceiveFailure
  BY <1>8, FinishKeepsBatch, SameSetsKeepBatch DEF ReceiveFailure, Refuse
<1>9. CASE ReceiveWelcome
  BY <1>9, SameSetsKeepBatch DEF ReceiveWelcome, Refuse
<1> QED
  BY <1>1, <1>2, <1>3, <1>4, <1>5, <1>6, <1>7, <1>8, <1>9 DEF ClientStep

(* The server touches neither set. *)
LEMMA ServerLeavesClient ==
    ASSUME \/ ServerStep
           \/ \E name \in Volatile : Offer(name) \/ Withdraw(name)
    PROVE  UNCHANGED clientVars
BY DEF ServerStep, AnswerLS, Accept, Reject, Disable, Challenge, Judge,
       EndRegistration, WelcomeWithoutCap, Offer, Withdraw, Change, Take

(* No extension whose replies need batches is enabled or asked for while   *)
(* batch is off, for every combination of options and every server.        *)
THEOREM BatchFirst == Spec => []NeverWithoutBatch
<1>1. Init => NeverWithoutBatch
  BY DEF Init, NeverWithoutBatch
<1>2. NeverWithoutBatch /\ [Next]_capVars => NeverWithoutBatch'
  <2>1. CASE ClientStep
    BY <2>1, ClientKeepsBatch
  <2>2. CASE ServerStep \/ \E name \in Volatile : Offer(name) \/ Withdraw(name)
    BY <2>2, ServerLeavesClient, SameSetsKeepBatch DEF clientVars
  <2>3. CASE UNCHANGED capVars
    BY <2>3, SameSetsKeepBatch DEF capVars, clientVars
  <2> QED
    BY <2>1, <2>2, <2>3 DEF Next
<1> QED
  BY <1>1, <1>2, PTL DEF Spec

-----------------------------------------------------------------------------
(* Registration and authentication. *)

(* A stream of lines, and one that holds no 903. *)
IsStream(lines) == \E S : lines \in Seq(S)
NoSuccess(lines) == \A i \in DOMAIN lines : lines[i].verb # "903"

(* Until the server has authenticated the user, no 903 is on its way, the  *)
(* exchange is neither over nor forgotten, and the client has not          *)
(* registered.  RegisteredIsAuthenticated alone is not inductive: it says  *)
(* nothing of the 903 and the state that the next 001 is judged by.        *)
AuthInv ==
    UsesSasl /\ ~authenticated =>
        /\ ~registered
        /\ sasl \in {"Idle", "Starting", "WaitingForResult"}
        /\ NoSuccess(toClient)

(* Reading a line leaves a stream, and its first line was one of it. *)
LEMMA TailOfStream ==
    ASSUME NEW lines, IsStream(lines), lines # <<>>
    PROVE  /\ IsStream(Tail(lines))
           /\ NoSuccess(lines) => Head(lines).verb # "903" /\ NoSuccess(Tail(lines))
<1>1. PICK S : lines \in Seq(S)
  BY DEF IsStream
<1>2. Tail(lines) \in Seq(S) /\ Len(lines) \in Nat /\ Len(lines) > 0
  BY <1>1
<1>3. ASSUME NoSuccess(lines)
      PROVE  Head(lines).verb # "903" /\ NoSuccess(Tail(lines))
  <2>1. Head(lines) = lines[1] /\ 1 \in DOMAIN lines
    BY <1>1, <1>2
  <2>2. ASSUME NEW i \in DOMAIN Tail(lines)
        PROVE  Tail(lines)[i] = lines[i + 1] /\ i + 1 \in DOMAIN lines
    BY <1>1, <1>2
  <2> QED
    BY <1>3, <2>1, <2>2 DEF NoSuccess
<1> QED
  BY <1>2, <1>3 DEF IsStream

(* Adding a line leaves a stream. *)
LEMMA AppendToStream ==
    ASSUME NEW lines, NEW line, IsStream(lines)
    PROVE  /\ IsStream(lines \o <<line>>)
           /\ NoSuccess(lines) /\ line.verb # "903" => NoSuccess(lines \o <<line>>)
<1>1. PICK S : lines \in Seq(S)
  BY DEF IsStream
<1> DEFINE T == S \cup {line}
<1>2. lines \in Seq(T) /\ <<line>> \in Seq(T)
  BY <1>1
<1>3. lines \o <<line>> \in Seq(T)
  BY <1>2
<1>4. ASSUME NEW i \in DOMAIN (lines \o <<line>>)
      PROVE  IF i \in DOMAIN lines THEN (lines \o <<line>>)[i] = lines[i]
                                   ELSE (lines \o <<line>>)[i] = line
  BY <1>2
<1> QED
  BY <1>3, <1>4 DEF IsStream, NoSuccess

(* So does adding the one or two lines of a reply. *)
LEMMA ReplyToStream ==
    ASSUME NEW verb, NEW caps, NEW lines \in Lines(verb, caps),
           IsStream(toClient), Reply(lines)
    PROVE  /\ IsStream(toClient')
           /\ NoSuccess(toClient) /\ verb # "903" => NoSuccess(toClient')
<1>1. CASE lines = <<Line(verb, caps, FALSE)>>
  BY <1>1, AppendToStream DEF Reply, Line
<1>2. CASE \E part \in SUBSET caps :
             lines = <<Line(verb, part, TRUE), Line(verb, caps \ part, FALSE)>>
  <2>1. PICK part \in SUBSET caps :
             lines = <<Line(verb, part, TRUE), Line(verb, caps \ part, FALSE)>>
    BY <1>2
  <2> DEFINE first == Line(verb, part, TRUE)
             second == Line(verb, caps \ part, FALSE)
  <2>2. PICK S : toClient \in Seq(S)
    BY DEF IsStream
  <2>3. toClient \o <<first, second>> = (toClient \o <<first>>) \o <<second>>
    <3> HIDE DEF first, second
    <3> DEFINE T == S \cup {first, second}
    <3>1. toClient \in Seq(T) /\ <<first>> \in Seq(T) /\ <<second>> \in Seq(T)
      BY <2>2
    <3> HIDE DEF T
    <3>2. <<first>> \o <<second>> = <<first, second>>
      <4> DEFINE both == <<first>> \o <<second>>
      <4>1. both \in Seq(T) /\ Len(both) = 2 /\ both[1] = first /\ both[2] = second
        BY <3>1
      <4> HIDE DEF both
      <4>2. both = <<first, second>>
        BY <4>1
      <4> QED
        BY <4>2 DEF both
    <3>3. (toClient \o <<first>>) \o <<second>> = toClient \o (<<first>> \o <<second>>)
      <4> DEFINE one == <<first>>
                 other == <<second>>
      <4>1. toClient \in Seq(T) /\ one \in Seq(T) /\ other \in Seq(T)
        BY <3>1
      <4> HIDE DEF one, other
      <4>2. (toClient \o one) \o other = toClient \o (one \o other)
        BY <4>1, ConcatAssociative
      <4> QED
        BY <4>2 DEF one, other
    <3> QED
      BY <3>2, <3>3
  <2>4. first.verb = verb /\ second.verb = verb
    BY DEF Line
  <2>5. toClient' = (toClient \o <<first>>) \o <<second>>
    BY <2>1, <2>3 DEF Reply
  <2> HIDE DEF first, second
  <2>6. /\ IsStream(toClient \o <<first>>)
        /\ NoSuccess(toClient) /\ verb # "903" => NoSuccess(toClient \o <<first>>)
    BY <2>4, AppendToStream
  <2> QED
    BY <2>4, <2>5, <2>6, AppendToStream
<1> QED
  BY <1>1, <1>2 DEF Lines

(* The client keeps the invariant. *)
LEMMA ClientKeepsAuth ==
    ASSUME AuthInv, IsStream(toClient), ClientStep
    PROVE  AuthInv' /\ IsStream(toClient')
<1>1. toClient # <<>> /\ toClient' = Tail(toClient) /\ UNCHANGED authenticated
  BY DEF ClientStep, ReceiveLS, ReceiveACK, ReceiveNAK, ReceiveNEW, ReceiveDEL,
         ReceiveChallenge, ReceiveSuccess, ReceiveFailure, ReceiveWelcome, Receive,
         serverVars
<1>2. /\ IsStream(toClient')
      /\ NoSuccess(toClient) => Head(toClient).verb # "903" /\ NoSuccess(toClient')
  BY <1>1, TailOfStream
<1>3. ASSUME UsesSasl, ~authenticated
      PROVE  ~registered' /\ sasl' \in {"Idle", "Starting", "WaitingForResult"}
  <2>1. ~registered /\ sasl \in {"Idle", "Starting", "WaitingForResult"}
        /\ NoSuccess(toClient)
    BY <1>3 DEF AuthInv
  <2>2. CASE ReceiveLS
    BY <2>1, <2>2 DEF ReceiveLS, Finish, Refuse
  <2>3. CASE ReceiveACK
    BY <2>1, <2>3 DEF ReceiveACK, Acknowledge, Finish
  <2>4. CASE ReceiveNAK
    BY <2>1, <2>4 DEF ReceiveNAK, Finish, Refuse
  <2>5. CASE ReceiveNEW
    BY <2>1, <2>5 DEF ReceiveNEW, Finish
  <2>6. CASE ReceiveDEL
    BY <2>1, <2>6 DEF ReceiveDEL, Finish
  <2>7. CASE ReceiveChallenge
    BY <2>1, <2>7 DEF ReceiveChallenge, Finish
  <2>8. CASE ReceiveSuccess
    BY <1>2, <2>1, <2>8 DEF ReceiveSuccess, Receive
  <2>9. CASE ReceiveFailure
    BY <2>1, <2>9 DEF ReceiveFailure, Finish, Refuse
  <2>10. CASE ReceiveWelcome
    BY <2>1, <2>10 DEF ReceiveWelcome, Refuse
  <2> QED
    BY <2>2, <2>3, <2>4, <2>5, <2>6, <2>7, <2>8, <2>9, <2>10 DEF ClientStep
<1> QED
  BY <1>1, <1>2, <1>3 DEF AuthInv

(* The server keeps it: it sends 903 only as it authenticates the user. *)
LEMMA ServerKeepsAuth ==
    ASSUME AuthInv, IsStream(toClient),
           ServerStep \/ \E name \in Volatile : Offer(name) \/ Withdraw(name)
    PROVE  AuthInv' /\ IsStream(toClient')
<1>1. UNCHANGED <<sasl, registered>>
  BY ServerLeavesClient DEF clientVars
<1>2. SUFFICES
        /\ IsStream(toClient')
        /\ \/ authenticated'
           \/ UNCHANGED authenticated /\ (NoSuccess(toClient) => NoSuccess(toClient'))
  BY <1>1 DEF AuthInv
<1>3. CASE AnswerLS
  BY <1>3, ReplyToStream DEF AnswerLS
<1>4. CASE Accept
  BY <1>4, ReplyToStream DEF Accept
<1>5. CASE Reject
  BY <1>5, AppendToStream DEF Reject, Reply, Line
<1>6. CASE Disable
  BY <1>6, AppendToStream DEF Disable, Reply, Line
<1>7. CASE Challenge
  BY <1>7, AppendToStream DEF Challenge, Reply, Line
<1>8. CASE Judge
  BY <1>8, AppendToStream DEF Judge, Reply, Line
<1>9. CASE EndRegistration
  BY <1>9, AppendToStream DEF EndRegistration, Reply, Line
<1>10. CASE WelcomeWithoutCap
  BY <1>10, AppendToStream DEF WelcomeWithoutCap, Reply, Line
<1>11. CASE \E name \in Volatile : Offer(name) \/ Withdraw(name)
  BY <1>11, AppendToStream DEF Offer, Withdraw, Change, Reply, Line
<1> QED
  BY <1>3, <1>4, <1>5, <1>6, <1>7, <1>8, <1>9, <1>10, <1>11 DEF ServerStep

(* With SASL configured, a client that goes on as registered has been      *)
(* authenticated by the server, whatever the server offers, withdraws or   *)
(* answers (ReceiveWelcome: CapNegotiation::registered).                   *)
THEOREM NoUnauthenticatedRegistration == Spec => []RegisteredIsAuthenticated
<1>1. Init => AuthInv /\ IsStream(toClient)
  <2>1. SUFFICES ASSUME Init PROVE AuthInv /\ IsStream(toClient)
    OBVIOUS
  <2>2. toClient = <<>> /\ ~registered /\ (UsesSasl => sasl = "Idle")
    BY <2>1 DEF Init
  <2>3. toClient \in Seq({})
    BY <2>2
  <2> QED
    BY <2>2, <2>3 DEF AuthInv, IsStream, NoSuccess
<1>2. (AuthInv /\ IsStream(toClient)) /\ [Next]_capVars
        => (AuthInv /\ IsStream(toClient))'
  <2>1. SUFFICES ASSUME AuthInv, IsStream(toClient), [Next]_capVars
                 PROVE  AuthInv' /\ IsStream(toClient')
    BY DEF IsStream
  <2>2. CASE UNCHANGED capVars
    BY <2>1, <2>2 DEF capVars, clientVars, serverVars, AuthInv, NoSuccess, IsStream
  <2>3. CASE Next
    BY <2>1, <2>3, ClientKeepsAuth, ServerKeepsAuth DEF Next
  <2> QED
    BY <2>1, <2>2, <2>3
<1>3. AuthInv => RegisteredIsAuthenticated
  BY DEF AuthInv, RegisteredIsAuthenticated
<1> QED
  BY <1>1, <1>2, <1>3, PTL DEF Spec

=============================================================================

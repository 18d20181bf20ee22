---------------------------- MODULE SessionProofs ----------------------------
(***************************************************************************)
(* Theorems about Session, for every number of connections and callbacks.  *)
(***************************************************************************)
EXTENDS Session, TLAPS

(* The types of TypeOK in full, which the steps are followed with.         *)
Resumes == {"none", "fresh", "reconnect"}
Prompts == [resume : Resumes, submitting : BOOLEAN, fits : BOOLEAN, opened : Nat]
Jobs == [kind : {"reconnect", "saved", "startup", "settings", "keys"}, token : Nat,
         refused : BOOLEAN, resume : Resumes, fits : BOOLEAN, asked : Nat, dialog : Nat]
Reports == {"registered", "nickRejected"} \cup Ends
Requests == {"disconnect", "quit", "sleep", "dropped"}
Workers == [state : {"none", "opening", "registered", "ended"},
            asked : SUBSET Requests, reports : Seq(Reports)]

FlagsOK ==
    /\ activeConfig \in BOOLEAN /\ manualDisconnect \in BOOLEAN /\ starting \in BOOLEAN
    /\ readingSaved \in BOOLEAN /\ asleep \in BOOLEAN /\ retryPending \in BOOLEAN
    /\ nickPrompt \in BOOLEAN /\ profileFits \in BOOLEAN

CountersOK ==
    /\ generation \in 0..MaxGenerations /\ irc \in {0, generation}
    /\ retryToken \in Nat /\ timers \subseteq 0..retryToken
    /\ uses \in 0..MaxUses /\ power \in {"awake", "sleeping"}
    /\ userEnded \in {"no", "disconnect", "quit"}
    /\ gaveUp \in {"no", "told", "dialogClosed"}

Shape ==
    /\ FlagsOK /\ CountersOK
    /\ prompt \in Prompts /\ jobs \in Seq(Jobs) /\ workers \in [Generations -> Workers]

(* A closed worker was asked to close; the one the session holds was not   *)
(* dropped, and asked to end only as the session says.                     *)
ClosedWasAsked(worker) ==
    (\E i \in DOMAIN worker.reports : worker.reports[i] = "closed") => worker.asked # {}

WorkersInv ==
    /\ \A g \in Generations :
          /\ g > generation \/ (g = generation /\ irc = 0) => workers[g] = NoWorker
          /\ ClosedWasAsked(workers[g])
    /\ irc # 0 =>
          /\ "dropped" \notin workers[irc].asked
          /\ "disconnect" \in workers[irc].asked => manualDisconnect
          /\ "sleep" \in workers[irc].asked => asleep \/ manualDisconnect

(* What the user ended is marked, and nothing else is.                     *)
EndedInv ==
    /\ manualDisconnect => userEnded # "no"
    /\ userEnded = "disconnect" => manualDisconnect

(* A retry that is pending has its timer, and nothing that would stop it.  *)
(* A server asleep is already on its way back, its connection still there  *)
(* or not.                                                                 *)
RetryInv ==
    /\ retryPending => irc = 0 /\ ~asleep /\ ~manualDisconnect /\ retryToken \in timers
    /\ prompt # NoPrompt => prompt.resume # "none"
    /\ activeConfig /\ ~manualDisconnect /\ (irc = 0 \/ asleep) => Returning \/ gaveUp # "no"

SessionInv == Shape /\ WorkersInv /\ EndedInv /\ RetryInv

-----------------------------------------------------------------------------
(* The types. *)

LEMMA JobType ==
  ASSUME Shape, NEW kind \in {"reconnect", "saved", "startup", "settings", "keys"},
         NEW token \in Nat, NEW refused \in BOOLEAN, NEW resume \in Resumes
  PROVE  Job(kind, token, refused, resume) \in Jobs
<1>1. generation \in Nat /\ prompt.opened \in Nat
  BY SessionAssumption DEF Shape, CountersOK, Prompts
<1> QED BY <1>1 DEF Job, Jobs

LEMMA PromptType ==
  ASSUME Shape, NEW resume \in Resumes
  PROVE  Prompt(resume) \in Prompts /\ NoPrompt \in Prompts
<1>1. uses \in Nat
  BY SessionAssumption DEF Shape, CountersOK
<1> QED BY <1>1 DEF Prompt, NoPrompt, Prompts, Resumes

LEMMA WorkerType == NoWorker \in Workers /\ NewWorker \in Workers
<1>1. <<>> \in Seq(Reports) /\ {} \in SUBSET Requests
  OBVIOUS
<1> QED BY <1>1 DEF NoWorker, NewWorker, Workers

(* The session's own worker is one of the workers. *)
LEMMA IrcType == Shape /\ irc # 0 => irc = generation /\ irc \in Generations
  BY SessionAssumption DEF Shape, CountersOK, Generations

LEMMA AskedType ==
  ASSUME Shape, NEW how \in Requests
  PROVE  /\ Asked(how) \in [Generations -> Workers]
         /\ \A g \in Generations :
               Asked(how)[g] = IF g = irc THEN [workers[g] EXCEPT !.asked = @ \cup {how}]
                               ELSE workers[g]
<1>1. workers \in [Generations -> Workers] /\ 0 \notin Generations
  BY DEF Shape, Generations
<1>2. CASE irc = 0
  BY <1>1, <1>2 DEF Asked
<1>3. CASE irc # 0
  <2>1. irc \in Generations /\ workers[irc] \in Workers
    BY <1>1, <1>3, IrcType
  <2>2. [workers[irc] EXCEPT !.asked = @ \cup {how}] \in Workers
    BY <2>1 DEF Workers
  <2> QED BY <1>1, <1>3, <2>1, <2>2 DEF Asked
<1> QED BY <1>2, <1>3

LEMMA HeadAndTail ==
  ASSUME NEW S, NEW queue \in Seq(S), queue # <<>>
  PROVE  Head(queue) \in S /\ Tail(queue) \in Seq(S) /\ Head(queue) = queue[1]
  OBVIOUS

LEMMA AppendType ==
  ASSUME NEW S, NEW queue \in Seq(S), NEW e \in S
  PROVE  Append(queue, e) \in Seq(S)
  OBVIOUS

LEMMA ReadSecretsType ==
  ASSUME Shape, NEW queue \in Seq(Jobs), NEW token \in Nat, retryToken <= token,
         NEW refused \in BOOLEAN, ReadSecrets(queue, token, refused)
  PROVE  /\ retryPending' = FALSE /\ retryToken' = token + 1 /\ retryToken' \in Nat
         /\ timers \subseteq 0..retryToken'
         /\ jobs' \in Seq(Jobs) /\ gaveUp' \in {"no", "told"}
<1>1. Job("reconnect", token + 1, refused, "none") \in Jobs
  BY JobType DEF Resumes
<1>2. timers \subseteq 0..(token + 1)
  BY DEF Shape, CountersOK
<1> QED BY <1>1, <1>2 DEF ReadSecrets

LEMMA ScheduleRetryType ==
  ASSUME Shape, NEW token \in Nat, retryToken <= token, NEW manual, NEW sleeps, NEW config,
         ScheduleRetry(token, manual, sleeps, config)
  PROVE  /\ retryPending' \in BOOLEAN /\ retryToken' \in Nat
         /\ timers' \subseteq 0..retryToken' /\ timers \subseteq timers'
         /\ retryPending' <=> ~(manual \/ sleeps \/ ~config)
         /\ retryPending' => retryToken' \in timers'
         /\ ~retryPending' => retryToken' = token
<1>1. timers \subseteq 0..retryToken /\ retryToken \in Nat
  BY DEF Shape, CountersOK
<1>2. timers \subseteq 0..token /\ timers \cup {token + 1} \subseteq 0..(token + 1)
  BY <1>1
<1>3. CASE manual \/ sleeps \/ ~config
  BY <1>2, <1>3 DEF ScheduleRetry
<1>4. CASE ~(manual \/ sleeps \/ ~config)
  <2>1. retryPending' = TRUE /\ retryToken' = token + 1 /\ timers' = timers \cup {token + 1}
    BY <1>4 DEF ScheduleRetry
  <2>2. token + 1 \in Nat /\ retryToken' \in timers'
    BY <2>1
  <2> QED BY <1>2, <1>4, <2>1, <2>2
<1> QED BY <1>3, <1>4

(* What a new connection, or the failure to start one, leaves behind.      *)
LEMMA ConnectEffect ==
  ASSUME Shape, NEW token \in Nat, retryToken <= token, NEW manual, Connect(token, manual)
  PROVE  /\ generation' = generation + 1 /\ generation' \in Generations
         /\ irc' \in {0, generation'}
         /\ asleep' = FALSE /\ gaveUp' = "no"
         /\ retryPending' \in BOOLEAN /\ retryToken' \in Nat
         /\ timers' \subseteq 0..retryToken'
         /\ retryPending' <=> irc' = 0 /\ ~manual
         /\ retryPending' => retryToken' \in timers'
         /\ workers' \in [Generations -> Workers]
         /\ workers' = IF irc' = 0 THEN Asked("dropped")
                       ELSE [Asked("dropped") EXCEPT ![generation'] = NewWorker]
<1>1. /\ generation \in Nat /\ MaxGenerations \in Nat /\ generation + 1 \in Generations
      /\ generation + 1 # 0
  BY SessionAssumption DEF Shape, CountersOK, Connect, Generations
<1>2. timers \subseteq 0..token
  BY DEF Shape, CountersOK
<1>3. Asked("dropped") \in [Generations -> Workers] /\ NewWorker \in Workers
  BY AskedType, WorkerType DEF Requests
<1>4. CASE irc' = generation + 1
           /\ workers' = [Asked("dropped") EXCEPT ![generation + 1] = NewWorker]
           /\ retryPending' = FALSE /\ retryToken' = token /\ UNCHANGED timers
  BY <1>1, <1>2, <1>3, <1>4 DEF Connect
<1>5. CASE irc' = 0 /\ workers' = Asked("dropped")
           /\ ScheduleRetry(token, manual, FALSE, TRUE)
  <2>1. /\ generation' = generation + 1 /\ generation' \in Generations
        /\ asleep' = FALSE /\ gaveUp' = "no"
    BY <1>1 DEF Connect
  <2>2. /\ retryPending' \in BOOLEAN /\ retryToken' \in Nat
        /\ timers' \subseteq 0..retryToken'
        /\ retryPending' => retryToken' \in timers'
    BY <1>5, ScheduleRetryType
  <2>3. retryPending' <=> ~manual
    <3>1. manual => retryPending' = FALSE
      BY <1>5 DEF ScheduleRetry
    <3>2. ~manual => retryPending' = TRUE
      BY <1>5 DEF ScheduleRetry
    <3> QED BY <3>1, <3>2
  <2> QED BY <1>3, <1>5, <2>1, <2>2, <2>3
<1> QED BY <1>4, <1>5 DEF Connect

(* The calls of the user keep the types. *)
LEMMA UserShape ==
  ASSUME Shape, UserStep
  PROVE  Shape'
<1> USE DEF sessionVars, windowVars, historyVars, Shape
<1>1. uses \in 0..MaxUses /\ retryToken \in Nat /\ MaxUses \in Nat
      /\ timers \subseteq 0..retryToken /\ timers \subseteq 0..(retryToken + 1)
      /\ timers \subseteq 0..(retryToken + 2)
  BY SessionAssumption DEF CountersOK
<1>2. \A op : Use(op) => uses' \in 0..MaxUses
  BY <1>1 DEF Use
<1>3. ASSUME ReadSecrets(jobs, retryToken + 1, FALSE)
      PROVE  /\ retryPending' = FALSE /\ retryToken' \in Nat
             /\ timers \subseteq 0..retryToken'
             /\ jobs' \in Seq(Jobs) /\ gaveUp' \in {"no", "told"}
  <2>1. retryToken + 1 \in Nat /\ retryToken <= retryToken + 1
    BY <1>1
  <2> QED BY <1>3, <2>1, ReadSecretsType
<1>4. CASE Reconnect
  <2>1. CASE activeConfig
    <3>1. ReadSecrets(jobs, retryToken + 1, FALSE)
      BY <1>4, <2>1 DEF Reconnect
    <3>2. CountersOK'
      BY <1>2, <1>3, <1>4, <2>1, <3>1 DEF Reconnect, CountersOK
    <3>3. FlagsOK'
      BY <1>3, <1>4, <2>1, <3>1 DEF Reconnect, FlagsOK
    <3>4. (prompt \in Prompts /\ jobs \in Seq(Jobs) /\ workers \in [Generations -> Workers])'
      BY <1>3, <1>4, <3>1 DEF Reconnect
    <3> QED BY <3>2, <3>3, <3>4
  <2>2. CASE ~activeConfig
    <3>1. Job("saved", 0, FALSE, "none") \in Jobs
      BY JobType DEF Resumes
    <3>2. CountersOK'
      BY <1>2, <1>4, <2>2 DEF Reconnect, CountersOK
    <3>3. FlagsOK'
      BY <1>4, <2>2 DEF Reconnect, FlagsOK
    <3>4. (prompt \in Prompts /\ jobs \in Seq(Jobs) /\ workers \in [Generations -> Workers])'
      BY <1>4, <2>2, <3>1, AppendType DEF Reconnect
    <3> QED BY <3>2, <3>3, <3>4
  <2> QED BY <2>1, <2>2
<1>5. CASE ConnectFromSettings
  <2>1. Job("settings", 0, FALSE, "none") \in Jobs
    BY JobType DEF Resumes
  <2>2. CountersOK'
    BY <1>2, <1>5 DEF ConnectFromSettings, CountersOK
  <2>3. FlagsOK'
    BY <1>5 DEF ConnectFromSettings, FlagsOK
  <2>4. (prompt \in Prompts /\ jobs \in Seq(Jobs) /\ workers \in [Generations -> Workers])'
    BY <1>5, <2>1, AppendType DEF ConnectFromSettings
  <2> QED BY <2>2, <2>3, <2>4
<1>6. ASSUME DisconnectSession
      PROVE  /\ workers' \in [Generations -> Workers]
             /\ manualDisconnect' \in BOOLEAN /\ asleep' \in BOOLEAN /\ retryPending' \in BOOLEAN
             /\ retryToken' = retryToken + 1 /\ userEnded' = "disconnect"
  <2>1. Asked("disconnect") \in [Generations -> Workers]
    BY AskedType DEF Requests
  <2> QED BY <1>6, <2>1 DEF DisconnectSession
<1>7. CASE Disconnect
  <2>1. CountersOK'
    BY <1>1, <1>2, <1>6, <1>7 DEF Disconnect, CountersOK
  <2>2. FlagsOK'
    BY <1>6, <1>7 DEF Disconnect, FlagsOK
  <2>3. (prompt \in Prompts /\ jobs \in Seq(Jobs) /\ workers \in [Generations -> Workers])'
    BY <1>6, <1>7 DEF Disconnect
  <2> QED BY <2>1, <2>2, <2>3
<1>8. CASE QuitCommand
  <2>1. workers' \in [Generations -> Workers]
    BY <1>8, AskedType DEF QuitCommand, Requests
  <2>2. CountersOK'
    BY <1>2, <1>8 DEF QuitCommand, CountersOK
  <2>3. FlagsOK'
    BY <1>8 DEF QuitCommand, FlagsOK
  <2>4. (prompt \in Prompts /\ jobs \in Seq(Jobs))'
    BY <1>8 DEF QuitCommand
  <2> QED BY <2>1, <2>2, <2>3, <2>4
<1>9. CASE SubmitNickname
  <2>1. /\ retryPending' \in BOOLEAN /\ manualDisconnect' \in BOOLEAN /\ retryToken' \in Nat
        /\ timers \subseteq 0..retryToken' /\ jobs' \in Seq(Jobs)
        /\ gaveUp' \in {"no", "told", "dialogClosed"} /\ userEnded' \in {"no", "disconnect", "quit"}
    BY <1>1, <1>3, <1>9 DEF SubmitNickname, FlagsOK, CountersOK
  <2>2. CountersOK'
    BY <1>2, <1>9, <2>1 DEF SubmitNickname, CountersOK
  <2>3. FlagsOK'
    BY <1>9, <2>1 DEF SubmitNickname, FlagsOK
  <2>4. (prompt \in Prompts /\ workers \in [Generations -> Workers])'
    BY <1>9 DEF SubmitNickname
  <2> QED BY <2>1, <2>2, <2>3, <2>4
<1>10. CASE CancelNickname
  <2>1. CountersOK'
    BY <1>1, <1>2, <1>6, <1>10 DEF CancelNickname, CountersOK
  <2>2. FlagsOK'
    BY <1>6, <1>10 DEF CancelNickname, FlagsOK
  <2>3. (prompt \in Prompts /\ jobs \in Seq(Jobs) /\ workers \in [Generations -> Workers])'
    BY <1>6, <1>10 DEF CancelNickname
  <2> QED BY <2>1, <2>2, <2>3
<1>11. CASE SubmitPrompt
  <2>1. prompt.resume \in Resumes /\ "fresh" \in Resumes
    BY DEF Prompts, Resumes
  <2>2. (IF prompt.fits THEN prompt.resume ELSE "fresh") \in Resumes
    BY <2>1
  <2>3. Job("keys", 0, FALSE, IF prompt.fits THEN prompt.resume ELSE "fresh") \in Jobs
    BY <2>2, JobType
  <2>4. prompt' \in Prompts
    BY <1>11 DEF SubmitPrompt, Prompts
  <2>5. CountersOK'
    BY <1>2, <1>11 DEF SubmitPrompt, CountersOK
  <2>6. FlagsOK'
    BY <1>11 DEF SubmitPrompt, FlagsOK
  <2>7. (jobs \in Seq(Jobs) /\ workers \in [Generations -> Workers])'
    BY <1>11, <2>3, AppendType DEF SubmitPrompt
  <2> QED BY <2>4, <2>5, <2>6, <2>7
<1>12. CASE CancelPrompt
  <2>1. prompt' \in Prompts
    BY <1>12, PromptType DEF CancelPrompt, Resumes
  <2>2. CountersOK'
    BY <1>1, <1>2, <1>12 DEF CancelPrompt, CountersOK
  <2>3. FlagsOK'
    BY <1>12 DEF CancelPrompt, FlagsOK
  <2>4. (jobs \in Seq(Jobs) /\ workers \in [Generations -> Workers])'
    BY <1>12 DEF CancelPrompt
  <2> QED BY <2>1, <2>2, <2>3, <2>4
<1>13. CASE ChangeSettings
  <2>1. prompt' \in Prompts
    BY <1>13 DEF ChangeSettings, Prompts
  <2>2. jobs' \in Seq(Jobs)
    <3>1. \A i \in DOMAIN jobs : [jobs[i] EXCEPT !.fits = FALSE] \in Jobs
      <4>1. \A job \in Jobs : [job EXCEPT !.fits = FALSE] \in Jobs
        BY DEF Jobs
      <4> QED BY <4>1
    <3>2. DOMAIN jobs = 1..Len(jobs) /\ Len(jobs) \in Nat
      OBVIOUS
    <3>3. jobs' \in [1..Len(jobs) -> Jobs]
      BY <1>13, <3>1, <3>2 DEF ChangeSettings
    <3> QED BY <3>2, <3>3
  <2>3. CountersOK'
    BY <1>2, <1>13 DEF ChangeSettings, CountersOK
  <2>4. FlagsOK'
    BY <1>13 DEF ChangeSettings, FlagsOK
  <2>5. (workers \in [Generations -> Workers])'
    BY <1>13 DEF ChangeSettings
  <2> QED BY <2>1, <2>2, <2>3, <2>4, <2>5
<1> QED
  BY <1>4, <1>5, <1>7, <1>8, <1>9, <1>10, <1>11, <1>12, <1>13 DEF UserStep

(* So do sleep, wake-up and the retry timers. *)
LEMMA PowerShape ==
  ASSUME Shape, PrepareForSleep \/ Wake \/ \E token \in timers : RetryTimer(token)
  PROVE  Shape'
<1> USE DEF sessionVars, windowVars, historyVars, Shape
<1>1. uses \in 0..MaxUses /\ retryToken \in Nat /\ MaxUses \in Nat
      /\ timers \subseteq 0..retryToken /\ timers \subseteq 0..(retryToken + 1)
      /\ retryToken + 1 \in Nat /\ retryToken <= retryToken /\ retryToken <= retryToken + 1
      /\ jobs \in Seq(Jobs)
  BY SessionAssumption DEF CountersOK
<1>2. \A op : Use(op) => uses' \in 0..MaxUses
  BY <1>1 DEF Use
<1>3. CASE PrepareForSleep
  <2>1. workers' \in [Generations -> Workers]
    <3>1. Asked("sleep") \in [Generations -> Workers]
      BY AskedType DEF Requests
    <3> QED BY <1>3, <3>1 DEF PrepareForSleep
  <2>2. retryToken' \in {retryToken, retryToken + 1}
    BY <1>3 DEF PrepareForSleep
  <2>3. CountersOK'
    BY <1>1, <1>2, <1>3, <2>2 DEF PrepareForSleep, CountersOK
  <2>4. FlagsOK'
    BY <1>3 DEF PrepareForSleep, FlagsOK
  <2>5. (prompt \in Prompts /\ jobs \in Seq(Jobs))'
    BY <1>3 DEF PrepareForSleep
  <2> QED BY <2>1, <2>3, <2>4, <2>5
<1>4. CASE Wake
  <2>1. /\ retryPending' \in BOOLEAN /\ retryToken' \in Nat
        /\ timers \subseteq 0..retryToken' /\ jobs' \in Seq(Jobs)
        /\ gaveUp' \in {"no", "told", "dialogClosed"}
    <3>1. CASE ReadSecrets(jobs, retryToken + 1, FALSE)
      BY <1>1, <3>1, ReadSecretsType
    <3>2. CASE UNCHANGED <<retryPending, retryToken, jobs, gaveUp>>
      BY <1>1, <3>2 DEF FlagsOK, CountersOK
    <3> QED BY <1>4, <3>1, <3>2 DEF Wake
  <2>2. uses' \in 0..MaxUses
    BY <1>1, <1>2, <1>4 DEF Wake
  <2>3. CountersOK'
    BY <1>4, <2>1, <2>2 DEF Wake, CountersOK
  <2>4. FlagsOK'
    BY <1>4, <2>1 DEF Wake, FlagsOK
  <2>5. (prompt \in Prompts /\ workers \in [Generations -> Workers])'
    BY <1>4 DEF Wake
  <2> QED BY <2>1, <2>3, <2>4, <2>5
<1>5. ASSUME NEW token \in timers, RetryTimer(token) PROVE Shape'
  <2>1. /\ retryPending' \in BOOLEAN /\ retryToken' \in Nat
        /\ timers \subseteq 0..retryToken' /\ jobs' \in Seq(Jobs)
        /\ gaveUp' \in {"no", "told", "dialogClosed"}
    <3>1. CASE ReadSecrets(jobs, retryToken, FALSE)
      BY <1>1, <3>1, ReadSecretsType
    <3>2. CASE UNCHANGED <<retryPending, retryToken, jobs, gaveUp>>
      BY <1>1, <3>2 DEF FlagsOK, CountersOK
    <3> QED BY <1>5, <3>1, <3>2 DEF RetryTimer
  <2>2. timers' \subseteq 0..retryToken'
    BY <1>5, <2>1 DEF RetryTimer
  <2>3. CountersOK'
    BY <1>5, <2>1, <2>2 DEF RetryTimer, CountersOK
  <2>4. FlagsOK'
    BY <1>5, <2>1 DEF RetryTimer, FlagsOK
  <2>5. (prompt \in Prompts /\ workers \in [Generations -> Workers])'
    BY <1>5 DEF RetryTimer
  <2> QED BY <2>1, <2>3, <2>4, <2>5
<1> QED BY <1>3, <1>4, <1>5

(* What a read that connects, asks or is dropped does to all but the jobs  *)
(* and the two flags of its own.                                           *)
ReadLeaves ==
    /\ activeConfig' \in BOOLEAN /\ manualDisconnect' \in BOOLEAN /\ asleep' \in BOOLEAN
    /\ retryPending' \in BOOLEAN /\ nickPrompt' \in BOOLEAN /\ profileFits' \in BOOLEAN
    /\ generation' \in 0..MaxGenerations /\ irc' \in {0, generation'}
    /\ retryToken' \in Nat /\ timers' \subseteq 0..retryToken'
    /\ userEnded' \in {"no", "disconnect", "quit"}
    /\ gaveUp' \in {"no", "told", "dialogClosed"}
    /\ prompt' \in Prompts /\ workers' \in [Generations -> Workers]

LEMMA StartReconnectType == Shape /\ StartReconnectWith => ReadLeaves
<1> SUFFICES ASSUME Shape, StartReconnectWith PROVE ReadLeaves
  OBVIOUS
<1>1. retryToken \in Nat /\ retryToken <= retryToken /\ NoPrompt \in Prompts
  BY PromptType DEF Shape, CountersOK, Resumes
<1>2. /\ Connect(retryToken, manualDisconnect) /\ prompt' = NoPrompt
      /\ UNCHANGED <<activeConfig, manualDisconnect, nickPrompt, profileFits, userEnded>>
  BY DEF StartReconnectWith
<1>3. generation' \in 0..MaxGenerations
  <2>1. generation' \in Generations
    BY <1>1, <1>2, ConnectEffect
  <2> QED BY <2>1, SessionAssumption DEF Generations
<1> HIDE DEF StartReconnectWith
<1> QED BY <1>1, <1>2, <1>3, ConnectEffect DEF ReadLeaves, Shape, FlagsOK, CountersOK

LEMMA ApplyConnectionType ==
  ASSUME Shape, NEW fits \in BOOLEAN, ApplyConnection(fits)
  PROVE  ReadLeaves
<1>1. retryToken + 1 \in Nat /\ retryToken <= retryToken + 1 /\ NoPrompt \in Prompts
  BY PromptType DEF Shape, CountersOK, Resumes
<1>2. /\ Connect(retryToken + 1, FALSE) /\ prompt' = NoPrompt
      /\ activeConfig' = TRUE /\ manualDisconnect' = FALSE /\ nickPrompt' = FALSE
      /\ profileFits' = fits /\ userEnded' = "no"
  BY DEF ApplyConnection
<1>3. generation' \in 0..MaxGenerations
  <2>1. generation' \in Generations
    BY <1>1, <1>2, ConnectEffect
  <2> QED BY <2>1, SessionAssumption DEF Generations
<1>4. gaveUp' = "no" /\ asleep' = FALSE
  BY <1>2 DEF Connect
<1> QED BY <1>1, <1>2, <1>3, <1>4, ConnectEffect DEF ReadLeaves

LEMMA LeftAloneType == Shape /\ LeftAlone => ReadLeaves
  BY DEF ReadLeaves, LeftAlone, windowVars, historyVars, Shape, FlagsOK, CountersOK

LEMMA ConnectFreshType == Shape /\ ConnectFresh => ReadLeaves
<1> SUFFICES ASSUME Shape, ConnectFresh PROVE ReadLeaves
  OBVIOUS
<1>1. CASE ApplyConnection(TRUE)
  BY <1>1, ApplyConnectionType
<1>2. CASE prompt' = Prompt("fresh")
           /\ UNCHANGED <<irc, activeConfig, manualDisconnect, asleep, retryPending,
                          retryToken, generation, nickPrompt, profileFits, timers,
                          workers, historyVars>>
  <2>1. prompt' \in Prompts
    BY <1>2, PromptType DEF Resumes
  <2> QED BY <1>2, <2>1 DEF ReadLeaves, historyVars, Shape, FlagsOK, CountersOK
<1> QED BY <1>1, <1>2 DEF ConnectFresh

(* The answers of the credential store keep the types. *)
LEMMA StoreShape ==
  ASSUME Shape, StoreStep
  PROVE  Shape'
<1>1. /\ jobs \in Seq(Jobs) /\ jobs # <<>> /\ Head(jobs) \in Jobs /\ Tail(jobs) \in Seq(Jobs)
      /\ UNCHANGED <<power, uses>>
  <2>1. jobs # <<>> /\ UNCHANGED <<power, uses>>
    BY DEF StoreStep, SecretsRead, SavedRead, SettingsRead, KeysRead, ReadDone
  <2>2. jobs \in Seq(Jobs)
    BY DEF Shape
  <2> QED BY <2>1, <2>2, HeadAndTail
<1>2. ASSUME ReadLeaves, jobs' \in Seq(Jobs), starting' \in BOOLEAN, readingSaved' \in BOOLEAN
      PROVE  Shape'
  BY <1>1, <1>2 DEF ReadLeaves, Shape, FlagsOK, CountersOK
<1>3. starting \in BOOLEAN /\ readingSaved \in BOOLEAN
  BY DEF Shape, FlagsOK
<1>4. CASE SecretsRead
  <2>1. jobs' \in Seq(Jobs) /\ UNCHANGED <<starting, readingSaved>>
    BY <1>1, <1>4 DEF SecretsRead
  <2>2. CASE StartReconnectWith
    BY <1>2, <1>3, <2>1, <2>2, StartReconnectType
  <2>3. CASE UNCHANGED <<irc, activeConfig, manualDisconnect, asleep, retryPending,
                         retryToken, generation, nickPrompt, profileFits, timers,
                         workers, userEnded>>
             /\ prompt' \in {prompt, Prompt("reconnect")} /\ gaveUp' \in {gaveUp, "told"}
    <3>1. prompt' \in Prompts
      BY <2>3, PromptType DEF Resumes, Shape
    <3>2. ReadLeaves
      BY <2>3, <3>1 DEF ReadLeaves, Shape, FlagsOK, CountersOK
    <3> QED BY <1>2, <1>3, <2>1, <3>2
  <2> QED BY <1>4, <2>2, <2>3 DEF SecretsRead
<1>5. CASE SavedRead
  <2>1. Job("saved", 0, FALSE, "none") \in Jobs
    BY JobType DEF Resumes
  <2>2. jobs' \in Seq(Jobs)
    BY <1>1, <1>5, <2>1, AppendType DEF SavedRead
  <2>3. starting' \in BOOLEAN /\ readingSaved' \in BOOLEAN
    BY <1>5, Zenon DEF SavedRead
  <2>4. ReadLeaves
    BY <1>5, LeftAloneType, ConnectFreshType DEF SavedRead
  <2> QED BY <1>2, <2>2, <2>3, <2>4
<1>6. CASE SettingsRead
  <2>1. Job("settings", 0, FALSE, "none") \in Jobs
    BY JobType DEF Resumes
  <2>2. jobs' \in Seq(Jobs) /\ UNCHANGED <<starting, readingSaved>>
    BY <1>1, <1>6, <2>1, AppendType DEF SettingsRead
  <2>3. ReadLeaves
    BY <1>6, LeftAloneType, ConnectFreshType DEF SettingsRead
  <2> QED BY <1>2, <1>3, <2>2, <2>3
<1>7. CASE KeysRead
  <2>1. jobs' \in Seq(Jobs) /\ UNCHANGED <<starting, readingSaved>>
    BY <1>1, <1>7 DEF KeysRead
  <2>2. Head(jobs).fits \in BOOLEAN
    BY <1>1 DEF Jobs
  <2>3. CASE ApplyConnection(Head(jobs).fits) \/ StartReconnectWith
    BY <1>2, <1>3, <2>1, <2>2, <2>3, ApplyConnectionType, StartReconnectType
  <2>4. CASE prompt' = [prompt EXCEPT !.submitting = FALSE]
             /\ UNCHANGED <<irc, activeConfig, manualDisconnect, asleep, retryPending,
                            retryToken, generation, nickPrompt, profileFits, timers,
                            workers, historyVars>>
    <3>1. prompt' \in Prompts
      BY <2>4 DEF Prompts, Shape
    <3>2. ReadLeaves
      BY <2>4, <3>1 DEF ReadLeaves, historyVars, Shape, FlagsOK, CountersOK
    <3> QED BY <1>2, <1>3, <2>1, <3>2
  <2> QED BY <1>7, <2>3, <2>4 DEF KeysRead
<1> QED BY <1>4, <1>5, <1>6, <1>7 DEF StoreStep

(* A worker with one report less, with one more, or gone, is a worker. *)
LEMMA WorkerChanges ==
  ASSUME Shape, NEW g \in Generations
  PROVE  /\ [workers EXCEPT ![g] = NoWorker] \in [Generations -> Workers]
         /\ workers[g].reports # <<>> =>
               Took(g) \in [Generations -> Workers] /\ Report(g) \in Reports
         /\ \A state \in {"opening", "registered", "ended"}, reports \in Seq(Reports) :
               [workers EXCEPT ![g].state = state, ![g].reports = @ \o reports]
                  \in [Generations -> Workers]
<1>1. /\ workers \in [Generations -> Workers] /\ workers[g] \in Workers
      /\ workers[g].reports \in Seq(Reports) /\ NoWorker \in Workers
  BY WorkerType DEF Shape, Workers
<1>2. ASSUME workers[g].reports # <<>>
      PROVE  Took(g) \in [Generations -> Workers] /\ Report(g) \in Reports
  <2>1. /\ Head(workers[g].reports) \in Reports
        /\ Tail(workers[g].reports) \in Seq(Reports)
    BY <1>1, <1>2, HeadAndTail
  <2>2. [workers[g] EXCEPT !.reports = Tail(@)] \in Workers
    BY <1>1, <2>1 DEF Workers
  <2> QED BY <1>1, <2>1, <2>2 DEF Took, Report
<1>3. ASSUME NEW state \in {"opening", "registered", "ended"}, NEW reports \in Seq(Reports)
      PROVE  [workers EXCEPT ![g].state = state, ![g].reports = @ \o reports]
                \in [Generations -> Workers]
  <2>1. workers[g].reports \o reports \in Seq(Reports)
    BY <1>1
  <2>2. [[workers[g] EXCEPT !.state = state] EXCEPT !.reports = @ \o reports] \in Workers
    BY <1>1, <2>1 DEF Workers
  <2> QED BY <1>1, <2>1, <2>2 DEF Workers
<1> QED BY <1>1, <1>2, <1>3

(* The reports of the workers keep the types. *)
LEMMA WorkerShape ==
  ASSUME Shape, NEW g \in Generations,
         StopPump(g) \/ Register(g) \/ RejectNickname(g) \/ EndOfWorker(g)
  PROVE  Shape'
<1> USE DEF sessionVars, windowVars, historyVars
<1>1. workers' \in [Generations -> Workers]
  <2>1. \A end \in {"registered", "nickRejected"} \cup Ends : <<end>> \in Seq(Reports)
    BY DEF Reports
  <2>2. <<>> \in Seq(Reports) /\ Ends \subseteq {"registered", "nickRejected"} \cup Ends
    OBVIOUS
  <2>3. CASE StopPump(g)
    BY <2>3, WorkerChanges DEF StopPump
  <2>4. CASE Register(g) \/ RejectNickname(g)
    <3>1. /\ <<"registered">> \in Seq(Reports) /\ <<"nickRejected">> \in Seq(Reports)
          /\ "registered" \in {"opening", "registered", "ended"}
          /\ "opening" \in {"opening", "registered", "ended"}
      BY <2>1
    <3>2. \/ WorkerReports(g, "registered", <<"registered">>)
          \/ WorkerReports(g, "opening", <<"nickRejected">>)
      BY <2>4 DEF Register, RejectNickname
    <3>3. PICK state \in {"opening", "registered", "ended"}, reports \in Seq(Reports) :
             WorkerReports(g, state, reports)
      BY <3>1, <3>2, Zenon
    <3> QED BY <3>3, WorkerChanges DEF WorkerReports
  <2>5. CASE EndOfWorker(g)
    <3>1. PICK word \in {<<>>} \cup {<<end>> : end \in Ends} :
             WorkerReports(g, "ended", word)
      BY <2>5 DEF EndOfWorker
    <3>2. word \in Seq(Reports)
      BY <2>1, <2>2
    <3>3. PICK state \in {"opening", "registered", "ended"}, reports \in Seq(Reports) :
             WorkerReports(g, state, reports)
      BY <3>1, <3>2, Zenon
    <3> QED BY <3>3, WorkerChanges DEF WorkerReports
  <2> QED BY <2>3, <2>4, <2>5
<1>2. UNCHANGED <<sessionVars, windowVars, jobs, timers, power, uses, historyVars>>
  BY DEF StopPump, Register, RejectNickname, EndOfWorker, WorkerReports
<1> QED BY <1>1, <1>2 DEF Shape, FlagsOK, CountersOK

(* So does what the session makes of them. *)
LEMMA PumpShape ==
  ASSUME Shape, NEW g \in Generations, Pump(g)
  PROVE  Shape'
<1> USE DEF sessionVars, windowVars, historyVars
<1>1. /\ retryToken \in Nat /\ retryToken <= retryToken /\ jobs \in Seq(Jobs)
      /\ timers \subseteq 0..retryToken
  BY DEF Shape, CountersOK
<1>2. CASE StopPump(g)
  BY <1>2, WorkerShape
<1>3. CASE workers[g].reports # <<>> /\ (HandleRegistered(g) \/ HandleNicknameRejected(g))
  <2>1. workers' \in [Generations -> Workers]
    BY <1>3, WorkerChanges DEF HandleRegistered, HandleNicknameRejected
  <2>2. prompt' \in Prompts /\ nickPrompt' \in BOOLEAN
    BY <1>3, PromptType DEF HandleRegistered, HandleNicknameRejected, Shape, Resumes
  <2>3. gaveUp' \in {"no", "told", "dialogClosed"}
    BY <1>3 DEF HandleRegistered, HandleNicknameRejected, Shape, CountersOK
  <2>4. UNCHANGED <<sessionVars, profileFits, jobs, timers, power, uses, userEnded>>
    BY <1>3 DEF HandleRegistered, HandleNicknameRejected
  <2> QED BY <2>1, <2>2, <2>3, <2>4 DEF Shape, FlagsOK, CountersOK
<1>4. ASSUME NEW manual \in BOOLEAN, Ended(g, manual),
             workers' = [workers EXCEPT ![g] = NoWorker],
             retryPending' \in BOOLEAN, retryToken' \in Nat, timers' \subseteq 0..retryToken',
             jobs' \in Seq(Jobs), userEnded' \in {"no", "disconnect", "quit"},
             gaveUp' \in {"no", "told", "dialogClosed"}
      PROVE  Shape'
  <2>1. workers' \in [Generations -> Workers]
    BY <1>4, WorkerChanges
  <2>2. FlagsOK'
    BY <1>4 DEF Ended, Shape, FlagsOK
  <2>3. CountersOK'
    BY <1>4 DEF Ended, Shape, CountersOK
  <2> QED BY <1>4, <2>1, <2>2, <2>3 DEF Ended, Shape
<1>5. CASE HandleClosed(g)
  <2> DEFINE manual == manualDisconnect \/ ~asleep
  <2>1. manual \in BOOLEAN
    BY Zenon
  <2>2. /\ Ended(g, manual) /\ ScheduleRetry(retryToken, manual, asleep, activeConfig)
        /\ workers' = [workers EXCEPT ![g] = NoWorker] /\ UNCHANGED <<jobs, gaveUp>>
    BY <1>5 DEF HandleClosed
  <2>3. userEnded' \in {"no", "disconnect", "quit"} /\ gaveUp \in {"no", "told", "dialogClosed"}
    BY <1>5 DEF HandleClosed, Shape, CountersOK
  <2> HIDE DEF manual
  <2>4. /\ retryPending' \in BOOLEAN /\ retryToken' \in Nat
        /\ timers' \subseteq 0..retryToken'
    BY <1>1, <2>2, ScheduleRetryType
  <2> QED BY <1>1, <1>4, <2>1, <2>2, <2>3, <2>4
<1>6. CASE HandleDisconnected(g) \/ HandleWorkerClosed(g)
  <2>1. /\ Ended(g, manualDisconnect)
        /\ ScheduleRetry(retryToken, manualDisconnect, asleep, activeConfig)
        /\ workers' = [workers EXCEPT ![g] = NoWorker] /\ UNCHANGED <<jobs, gaveUp, userEnded>>
    BY <1>6 DEF HandleDisconnected, HandleWorkerClosed
  <2>2. /\ userEnded \in {"no", "disconnect", "quit"} /\ gaveUp \in {"no", "told", "dialogClosed"}
        /\ manualDisconnect \in BOOLEAN
    BY DEF Shape, FlagsOK, CountersOK
  <2>3. /\ retryPending' \in BOOLEAN /\ retryToken' \in Nat
        /\ timers' \subseteq 0..retryToken'
    BY <1>1, <2>1, ScheduleRetryType
  <2> QED BY <1>1, <1>4, <2>1, <2>2, <2>3
<1>7. CASE HandleRefused(g)
  <2>1. /\ Ended(g, manualDisconnect) /\ workers' = [workers EXCEPT ![g] = NoWorker]
        /\ gaveUp' = "told" /\ UNCHANGED <<retryPending, retryToken, jobs, timers, userEnded>>
    BY <1>7 DEF HandleRefused
  <2>2. /\ userEnded \in {"no", "disconnect", "quit"} /\ manualDisconnect \in BOOLEAN
        /\ retryPending \in BOOLEAN
    BY DEF Shape, FlagsOK, CountersOK
  <2> QED BY <1>1, <1>4, <2>1, <2>2
<1>8. CASE HandlePasswordRefused(g)
  <2>1. /\ Ended(g, manualDisconnect) /\ workers' = [workers EXCEPT ![g] = NoWorker]
        /\ ReadSecrets(jobs, retryToken, TRUE) /\ UNCHANGED <<timers, userEnded>>
    BY <1>8 DEF HandlePasswordRefused
  <2>2. userEnded \in {"no", "disconnect", "quit"} /\ manualDisconnect \in BOOLEAN
    BY DEF Shape, FlagsOK, CountersOK
  <2>3. /\ retryPending' \in BOOLEAN /\ retryToken' \in Nat
        /\ timers \subseteq 0..retryToken' /\ jobs' \in Seq(Jobs)
        /\ gaveUp' \in {"no", "told", "dialogClosed"}
    BY <1>1, <2>1, ReadSecretsType
  <2> QED BY <1>4, <2>1, <2>2, <2>3
<1> QED
  BY <1>2, <1>3, <1>5, <1>6, <1>7, <1>8 DEF Pump

LEMMA ShapeStep == Shape /\ [Next]_allVars => Shape'
<1> SUFFICES ASSUME Shape, [Next]_allVars PROVE Shape'
  OBVIOUS
<1>1. CASE UNCHANGED allVars
  BY <1>1 DEF allVars, sessionVars, windowVars, historyVars, Shape, FlagsOK, CountersOK
<1> QED BY <1>1, UserShape, PowerShape, StoreShape, PumpShape, WorkerShape DEF Next

LEMMA ShapeInit == Init => Shape
<1> SUFFICES ASSUME Init PROVE Shape
  OBVIOUS
<1>1. prompt = NoPrompt /\ prompt \in Prompts
  BY DEF Init, NoPrompt, Prompts, Resumes
<1>2. jobs \in Seq(Jobs)
  <2>1. Job("startup", 0, FALSE, "none") \in Jobs
    BY <1>1 DEF Init, Job, Jobs, NoPrompt, Resumes
  <2>2. <<>> \in Seq(Jobs) /\ \A S, e : e \in S => <<e>> \in Seq(S)
    OBVIOUS
  <2>3. jobs = <<>> \/ jobs = <<Job("startup", 0, FALSE, "none")>>
    BY DEF Init
  <2> QED BY <2>1, <2>2, <2>3
<1>3. workers \in [Generations -> Workers]
  BY WorkerType DEF Init
<1>4. CountersOK
  <2>1. {} \subseteq 0..0 /\ 0 \in 0..MaxGenerations /\ 0 \in 0..MaxUses /\ 0 \in {0, 0}
    BY SessionAssumption
  <2> QED BY <2>1 DEF Init, CountersOK
<1>5. FlagsOK
  BY DEF Init, FlagsOK
<1> QED BY <1>1, <1>2, <1>3, <1>4, <1>5 DEF Shape


-----------------------------------------------------------------------------
(* The workers.  A step does one of five things to them. *)

LEMMA WorkersKept ==
  ASSUME Shape, WorkersInv, UNCHANGED <<workers, generation, irc>>,
         irc # 0 => /\ manualDisconnect => manualDisconnect'
                    /\ asleep => asleep' \/ manualDisconnect'
  PROVE  WorkersInv'
  BY DEF WorkersInv, ClosedWasAsked

LEMMA WorkersAsked ==
  ASSUME Shape, WorkersInv, NEW how \in {"disconnect", "quit", "sleep"},
         workers' = Asked(how), UNCHANGED <<generation, irc>>,
         how = "disconnect" => manualDisconnect',
         how = "sleep" => asleep' \/ manualDisconnect',
         manualDisconnect => manualDisconnect',
         asleep => asleep' \/ manualDisconnect'
  PROVE  WorkersInv'
<1>1. \A g \in Generations :
         workers'[g] = IF g = irc THEN [workers[g] EXCEPT !.asked = @ \cup {how}]
                       ELSE workers[g]
  BY AskedType DEF Requests
<1>2. \A g \in Generations : workers[g] \in Workers
  BY DEF Shape
<1>3. generation \in Nat /\ irc \in {0, generation}
  BY SessionAssumption DEF Shape, CountersOK
<1>4. ASSUME NEW g \in Generations
      PROVE  /\ (g > generation \/ (g = generation /\ irc = 0) => workers[g] = NoWorker)'
             /\ ClosedWasAsked(workers[g])'
  <2>1. /\ g > generation \/ (g = generation /\ irc = 0) => workers[g] = NoWorker
        /\ ClosedWasAsked(workers[g]) /\ workers[g] \in Workers
    BY <1>2 DEF WorkersInv
  <2>2. CASE g = irc
    <3>1. workers'[g] = [workers[g] EXCEPT !.asked = @ \cup {how}]
      BY <1>1, <2>2
    <3>2. workers'[g].asked # {}
      BY <2>1, <3>1 DEF Workers
    <3>3. g \in Nat /\ g # 0
      BY DEF Generations
    <3> QED BY <1>3, <2>2, <3>2, <3>3 DEF ClosedWasAsked
  <2>3. CASE g # irc
    BY <1>1, <2>1, <2>3 DEF ClosedWasAsked
  <2> QED BY <2>2, <2>3
<1>5. ASSUME irc # 0
      PROVE  /\ "dropped" \notin workers'[irc].asked
             /\ "disconnect" \in workers'[irc].asked => manualDisconnect'
             /\ "sleep" \in workers'[irc].asked => asleep' \/ manualDisconnect'
  <2>1. irc \in Generations /\ workers[irc] \in Workers
    BY <1>2, <1>5, IrcType
  <2>2. workers'[irc].asked = workers[irc].asked \cup {how}
    BY <1>1, <2>1 DEF Workers
  <2> QED BY <1>5, <2>2 DEF WorkersInv
<1> QED BY <1>4, <1>5 DEF WorkersInv

LEMMA WorkersConnect ==
  ASSUME Shape, WorkersInv, NEW token \in Nat, retryToken <= token, NEW manual,
         Connect(token, manual)
  PROVE  WorkersInv'
<1>1. /\ generation' = generation + 1 /\ generation' \in Generations
      /\ irc' \in {0, generation'}
      /\ workers' = IF irc' = 0 THEN Asked("dropped")
                    ELSE [Asked("dropped") EXCEPT ![generation'] = NewWorker]
      /\ generation \in Nat /\ irc \in {0, generation}
  <2>1. generation \in Nat /\ irc \in {0, generation}
    BY SessionAssumption DEF Shape, CountersOK
  <2> QED BY <2>1, ConnectEffect
<1>2. /\ Asked("dropped") \in [Generations -> Workers]
      /\ \A g \in Generations :
            Asked("dropped")[g] =
               IF g = irc THEN [workers[g] EXCEPT !.asked = @ \cup {"dropped"}]
               ELSE workers[g]
      /\ \A g \in Generations : workers[g] \in Workers
  BY AskedType DEF Requests, Shape
<1>3. ASSUME NEW g \in Generations
      PROVE  ClosedWasAsked(Asked("dropped")[g])
  <2>1. CASE g = irc
    <3>1. /\ workers[g] \in Workers
          /\ Asked("dropped")[g] = [workers[g] EXCEPT !.asked = @ \cup {"dropped"}]
      BY <1>2, <2>1
    <3>2. Asked("dropped")[g].asked = workers[g].asked \cup {"dropped"}
      BY <3>1 DEF Workers
    <3> QED BY <3>2 DEF ClosedWasAsked
  <2>2. CASE g # irc
    BY <1>2, <2>2 DEF WorkersInv
  <2> QED BY <2>1, <2>2
<1>4. ASSUME NEW g \in Generations, g >= generation'
      PROVE  Asked("dropped")[g] = NoWorker
  <2>1. g > generation /\ g # irc /\ g \in Nat
    BY <1>1, <1>4 DEF Generations
  <2> QED BY <1>2, <2>1 DEF WorkersInv
<1>5. ClosedWasAsked(NewWorker) /\ NewWorker.asked = {}
  BY DEF ClosedWasAsked, NewWorker, NoWorker
<1>6. CASE irc' = 0
  <2>1. workers' = Asked("dropped")
    BY <1>1, <1>6
  <2>2. \A g \in Generations : g > generation' \/ g = generation' => g >= generation'
    BY <1>1 DEF Generations
  <2> QED BY <1>3, <1>4, <1>6, <2>1, <2>2 DEF WorkersInv, ClosedWasAsked
<1>7. CASE irc' # 0
  <2>1. /\ irc' = generation' /\ workers'[generation'] = NewWorker
        /\ \A g \in Generations : g # generation' => workers'[g] = Asked("dropped")[g]
    BY <1>1, <1>2, <1>7
  <2>2. \A g \in Generations : g > generation' => g >= generation' /\ g # generation'
    BY <1>1 DEF Generations
  <2>3. \A g \in Generations : ClosedWasAsked(workers'[g])
    BY <1>3, <1>5, <2>1
  <2>4. \A g \in Generations : g > generation' => workers'[g] = NoWorker
    BY <1>4, <2>1, <2>2
  <2> QED BY <1>5, <1>7, <2>1, <2>3, <2>4 DEF WorkersInv, ClosedWasAsked
<1> QED BY <1>6, <1>7

(* A worker is gone: that of the session, which keeps none, or another.    *)
LEMMA WorkersGone ==
  ASSUME Shape, WorkersInv, NEW g \in Generations,
         workers' = [workers EXCEPT ![g] = NoWorker], UNCHANGED generation,
         \/ g = generation /\ irc' = 0
         \/ g # generation /\ UNCHANGED <<irc, manualDisconnect, asleep>>
  PROVE  WorkersInv'
<1>1. \A h \in Generations :
         workers'[h] = IF h = g THEN NoWorker ELSE workers[h]
  BY DEF Shape
<1>2. ClosedWasAsked(NoWorker)
  BY DEF ClosedWasAsked, NoWorker
<1>3. ASSUME NEW h \in Generations
      PROVE  ClosedWasAsked(workers'[h])
  BY <1>1, <1>2 DEF WorkersInv
<1>4. ASSUME NEW h \in Generations, h > generation \/ (h = generation /\ irc' = 0)
      PROVE  workers'[h] = NoWorker
  BY <1>1, <1>4 DEF WorkersInv
<1>5. ASSUME irc' # 0
      PROVE  workers'[irc'] = workers[irc] /\ irc' = irc
             /\ UNCHANGED <<manualDisconnect, asleep>>
  BY <1>1, <1>5, IrcType
<1> QED BY <1>3, <1>4, <1>5 DEF WorkersInv, ClosedWasAsked

(* A worker that is there reports, or what it reported is taken.           *)
LEMMA WorkersReported ==
  ASSUME Shape, WorkersInv, NEW g \in Generations, NEW worker \in Workers,
         workers[g] # NoWorker,
         workers' = [workers EXCEPT ![g] = worker],
         worker.asked = workers[g].asked, ClosedWasAsked(worker),
         UNCHANGED <<generation, irc, manualDisconnect, asleep>>
  PROVE  WorkersInv'
<1>1. \A h \in Generations :
         workers'[h] = IF h = g THEN worker ELSE workers[h]
  BY DEF Shape
<1>2. ASSUME NEW h \in Generations
      PROVE  ClosedWasAsked(workers'[h])
  BY <1>1 DEF WorkersInv
<1>3. ASSUME NEW h \in Generations, h > generation \/ (h = generation /\ irc = 0)
      PROVE  workers'[h] = NoWorker
  BY <1>1, <1>3 DEF WorkersInv
<1>4. irc # 0 => workers'[irc].asked = workers[irc].asked
  BY <1>1, IrcType
<1> QED BY <1>2, <1>3, <1>4 DEF WorkersInv, ClosedWasAsked

(* A read that is answered connects, asks, or leaves the session alone.    *)
Connects ==
    StartReconnectWith \/ \E fits \in BOOLEAN : ApplyConnection(fits)

LEMMA StoreEffect ==
  ASSUME Shape, StoreStep
  PROVE  \/ Connects
         \/ UNCHANGED <<irc, activeConfig, manualDisconnect, asleep, retryPending,
                        retryToken, generation, timers, workers, userEnded>>
<1>1. LeftAlone => UNCHANGED <<irc, activeConfig, manualDisconnect, asleep, retryPending,
                               retryToken, generation, timers, workers, userEnded>>
  BY DEF LeftAlone, historyVars
<1>2. ConnectFresh =>
         \/ Connects
         \/ UNCHANGED <<irc, activeConfig, manualDisconnect, asleep, retryPending,
                        retryToken, generation, timers, workers, userEnded>>
  <2>1. ApplyConnection(TRUE) => Connects
    BY DEF Connects
  <2> QED BY <2>1 DEF ConnectFresh, historyVars
<1>3. CASE SecretsRead
  BY <1>3 DEF SecretsRead, Connects
<1>4. CASE SavedRead
  BY <1>1, <1>2, <1>4 DEF SavedRead
<1>5. CASE SettingsRead
  BY <1>1, <1>2, <1>5 DEF SettingsRead
<1>6. CASE KeysRead
  <2>1. Head(jobs).fits \in BOOLEAN
    <3>1. jobs # <<>> /\ jobs \in Seq(Jobs)
      BY <1>6 DEF KeysRead, ReadDone, Shape
    <3>2. Head(jobs) \in Jobs
      BY <3>1, HeadAndTail
    <3> QED BY <3>2 DEF Jobs
  <2> QED BY <1>6, <2>1 DEF KeysRead, Connects, historyVars
<1> QED BY <1>3, <1>4, <1>5, <1>6 DEF StoreStep

(* What a connection by the session is made with. *)
LEMMA ConnectsType ==
  ASSUME Shape, Connects
  PROVE  \E token \in Nat, manual \in BOOLEAN :
            /\ retryToken <= token /\ Connect(token, manual)
            /\ manual = manualDisconnect'
            /\ prompt' = NoPrompt
            /\ \/ UNCHANGED <<manualDisconnect, userEnded>>
               \/ manualDisconnect' = FALSE /\ userEnded' = "no"
<1>1. /\ retryToken \in Nat /\ retryToken + 1 \in Nat /\ retryToken <= retryToken
      /\ retryToken <= retryToken + 1 /\ manualDisconnect \in BOOLEAN
  BY DEF Shape, CountersOK, FlagsOK
<1>2. CASE StartReconnectWith
  <2>1. /\ Connect(retryToken, manualDisconnect) /\ prompt' = NoPrompt
        /\ manualDisconnect' = manualDisconnect /\ userEnded' = userEnded
    BY <1>2 DEF StartReconnectWith
  <2> QED BY <1>1, <2>1, Zenon
<1>3. ASSUME NEW fits \in BOOLEAN, ApplyConnection(fits)
      PROVE  /\ Connect(retryToken + 1, FALSE) /\ prompt' = NoPrompt
             /\ manualDisconnect' = FALSE /\ userEnded' = "no"
  BY <1>3 DEF ApplyConnection
<1>4. CASE \E fits \in BOOLEAN : ApplyConnection(fits)
  <2>1. /\ Connect(retryToken + 1, FALSE) /\ prompt' = NoPrompt
        /\ manualDisconnect' = FALSE /\ userEnded' = "no" /\ FALSE \in BOOLEAN
    BY <1>3, <1>4
  <2> QED BY <1>1, <2>1, Zenon
<1> QED BY <1>2, <1>4 DEF Connects

LEMMA WorkersOfUser ==
  ASSUME Shape, WorkersInv, UserStep
  PROVE  WorkersInv'
<1> USE DEF sessionVars
<1>1. ASSUME DisconnectSession, UNCHANGED <<irc, generation>> PROVE WorkersInv'
  <2>1. /\ workers' = workers \/ workers' = Asked("disconnect")
        /\ manualDisconnect' = TRUE /\ UNCHANGED <<irc, generation>>
    BY <1>1 DEF DisconnectSession
  <2>2. CASE workers' = workers
    BY <2>1, <2>2, WorkersKept
  <2>3. CASE workers' = Asked("disconnect")
    BY <2>1, <2>3, WorkersAsked
  <2> QED BY <2>1, <2>2, <2>3
<1>2. CASE Reconnect
  BY <1>2, WorkersKept DEF Reconnect
<1>3. CASE ConnectFromSettings \/ SubmitPrompt \/ ChangeSettings
  <2>1. UNCHANGED <<workers, generation, irc, manualDisconnect, asleep>>
    BY <1>3 DEF ConnectFromSettings, SubmitPrompt, ChangeSettings
  <2> QED BY <2>1, WorkersKept
<1>4. CASE Disconnect
  BY <1>1, <1>4 DEF Disconnect
<1>5. CASE QuitCommand
  BY <1>5, WorkersAsked DEF QuitCommand
<1>6. CASE SubmitNickname
  BY <1>6, WorkersKept DEF SubmitNickname
<1>7. CASE CancelNickname
  <2>1. CASE irc = 0
    BY <1>7, <2>1, WorkersKept DEF CancelNickname
  <2>2. CASE irc # 0
    BY <1>1, <1>7, <2>2 DEF CancelNickname
  <2> QED BY <2>1, <2>2
<1>8. CASE CancelPrompt
  BY <1>8, WorkersKept DEF CancelPrompt
<1> QED BY <1>2, <1>3, <1>4, <1>5, <1>6, <1>7, <1>8 DEF UserStep

LEMMA WorkersOfPower ==
  ASSUME Shape, WorkersInv, PrepareForSleep \/ Wake \/ \E token \in timers : RetryTimer(token)
  PROVE  WorkersInv'
<1>1. CASE PrepareForSleep
  <2>1. UNCHANGED <<irc, generation, manualDisconnect>>
    BY <1>1 DEF PrepareForSleep
  <2>2. CASE UNCHANGED <<asleep, workers>>
    BY <2>1, <2>2, WorkersKept
  <2>3. CASE asleep' = TRUE /\ workers' = Asked("sleep")
    BY <2>1, <2>3, WorkersAsked
  <2> QED BY <1>1, <2>2, <2>3 DEF PrepareForSleep
<1>2. CASE Wake
  BY <1>2, WorkersKept DEF Wake
<1>3. CASE \E token \in timers : RetryTimer(token)
  <2>1. UNCHANGED <<irc, generation, manualDisconnect, asleep, workers>>
    BY <1>3 DEF RetryTimer
  <2> QED BY <2>1, WorkersKept
<1> QED BY <1>1, <1>2, <1>3

LEMMA WorkersOfStore ==
  ASSUME Shape, WorkersInv, StoreStep
  PROVE  WorkersInv'
<1>1. CASE Connects
  BY <1>1, ConnectsType, WorkersConnect
<1>2. CASE UNCHANGED <<irc, manualDisconnect, asleep, generation, workers>>
  BY <1>2, WorkersKept
<1> QED BY <1>1, <1>2, StoreEffect

LEMMA WorkersOfPump ==
  ASSUME Shape, WorkersInv, NEW g \in Generations, Pump(g)
  PROVE  WorkersInv'
<1> USE DEF sessionVars
<1>1. workers[g] \in Workers
  BY DEF Shape
<1>2. CASE g # generation
  BY <1>2, WorkersGone DEF Pump, IsCurrent, StopPump
<1>3. CASE g = generation /\ workers[g].reports # <<>>
           /\ (HandleRegistered(g) \/ HandleNicknameRejected(g))
  <2> DEFINE worker == [workers[g] EXCEPT !.reports = Tail(@)]
  <2>1. /\ workers[g].reports \in Seq(Reports) /\ Tail(workers[g].reports) \in Seq(Reports)
        /\ DOMAIN workers[g].reports = 1..Len(workers[g].reports)
        /\ \A i \in DOMAIN Tail(workers[g].reports) :
              /\ i + 1 \in DOMAIN workers[g].reports
              /\ Tail(workers[g].reports)[i] = workers[g].reports[i + 1]
    <3>1. workers[g].reports \in Seq(Reports)
      BY <1>1 DEF Workers
    <3> QED BY <1>3, <3>1
  <2>2. /\ worker \in Workers /\ worker.asked = workers[g].asked
        /\ worker.reports = Tail(workers[g].reports)
    BY <1>1, <2>1 DEF Workers
  <2>3. workers[g] # NoWorker
    BY <1>3 DEF NoWorker
  <2>4. workers' = [workers EXCEPT ![g] = worker]
        /\ UNCHANGED <<generation, irc, manualDisconnect, asleep>>
    BY <1>3 DEF HandleRegistered, HandleNicknameRejected, Took, Shape
  <2> HIDE DEF worker
  <2>5. ClosedWasAsked(worker)
    BY <2>1, <2>2 DEF WorkersInv, ClosedWasAsked
  <2> QED BY <2>2, <2>3, <2>4, <2>5, WorkersReported
<1>4. CASE g = generation /\ irc' = 0 /\ UNCHANGED generation
           /\ workers' = [workers EXCEPT ![g] = NoWorker]
  BY <1>4, WorkersGone
<1> QED
  BY <1>2, <1>3, <1>4 DEF Pump, IsCurrent, HandleWorkerClosed, HandleClosed,
     HandleDisconnected, HandleRefused, HandlePasswordRefused, Ended

LEMMA WorkersOfWorkers ==
  ASSUME Shape, WorkersInv, NEW g \in Generations,
         Register(g) \/ RejectNickname(g) \/ EndOfWorker(g)
  PROVE  WorkersInv'
<1>1. workers[g] \in Workers /\ workers[g].reports \in Seq(Reports)
  BY DEF Shape, Workers
<1>2. PICK state \in {"opening", "registered", "ended"}, reports \in Seq(Reports) :
         /\ WorkerReports(g, state, reports)
         /\ (\E i \in DOMAIN reports : reports[i] = "closed") => workers[g].asked # {}
  <2>1. \A S, e : e \in S => /\ <<e>> \in Seq(S) /\ DOMAIN <<e>> = {1} /\ <<e>>[1] = e
    OBVIOUS
  <2>2. <<>> \in Seq(Reports) /\ DOMAIN <<>> = {} /\ Ends \subseteq Reports
    BY DEF Reports
  <2>3. /\ <<"registered">> \in Seq(Reports) /\ <<"nickRejected">> \in Seq(Reports)
        /\ DOMAIN <<"registered">> = {1} /\ <<"registered">>[1] # "closed"
        /\ DOMAIN <<"nickRejected">> = {1} /\ <<"nickRejected">>[1] # "closed"
        /\ "registered" \in {"opening", "registered", "ended"}
        /\ "opening" \in {"opening", "registered", "ended"}
        /\ "ended" \in {"opening", "registered", "ended"}
    BY <2>1 DEF Reports
  <2>4. CASE Register(g)
    BY <2>3, <2>4 DEF Register
  <2>5. CASE RejectNickname(g)
    BY <2>3, <2>5 DEF RejectNickname
  <2>6. ASSUME NEW end \in Ends, end = "closed" => workers[g].asked # {},
               WorkerReports(g, "ended", <<end>>)
        PROVE  \E state \in {"opening", "registered", "ended"}, reports \in Seq(Reports) :
                  /\ WorkerReports(g, state, reports)
                  /\ (\E i \in DOMAIN reports : reports[i] = "closed")
                        => workers[g].asked # {}
    <3>1. <<end>> \in Seq(Reports) /\ DOMAIN <<end>> = {1} /\ <<end>>[1] = end
      BY <2>1, <2>2
    <3>2. (\E i \in DOMAIN <<end>> : <<end>>[i] = "closed") => workers[g].asked # {}
      BY <2>6, <3>1
    <3> QED BY <2>3, <2>6, <3>1, <3>2, Zenon
  <2>7. CASE WorkerReports(g, "ended", <<>>)
    BY <2>2, <2>3, <2>7, Zenon
  <2> QED BY <2>4, <2>5, <2>6, <2>7 DEF EndOfWorker
<1> DEFINE worker == [[workers[g] EXCEPT !.state = state] EXCEPT !.reports = @ \o reports]
<1>3. workers[g].reports \o reports \in Seq(Reports)
      /\ \A i \in DOMAIN (workers[g].reports \o reports) :
            \/ i \in DOMAIN workers[g].reports
               /\ (workers[g].reports \o reports)[i] = workers[g].reports[i]
            \/ i - Len(workers[g].reports) \in DOMAIN reports
               /\ (workers[g].reports \o reports)[i] = reports[i - Len(workers[g].reports)]
  BY <1>1
<1>4. /\ worker \in Workers /\ worker.asked = workers[g].asked
      /\ worker.reports = workers[g].reports \o reports
  BY <1>1, <1>3 DEF Workers
<1>5. workers[g] # NoWorker
  BY <1>2 DEF WorkerReports, NoWorker
<1>6. workers' = [workers EXCEPT ![g] = worker]
  BY <1>2 DEF WorkerReports, Shape
<1>7. UNCHANGED <<generation, irc, manualDisconnect, asleep>>
  BY <1>2 DEF WorkerReports, sessionVars
<1> HIDE DEF worker
<1>8. ClosedWasAsked(worker)
  <2>1. ClosedWasAsked(workers[g])
    BY DEF WorkersInv
  <2> QED BY <1>2, <1>3, <1>4, <2>1 DEF ClosedWasAsked
<1> QED BY <1>4, <1>5, <1>6, <1>7, <1>8, WorkersReported

LEMMA WorkersStep == Shape /\ WorkersInv /\ [Next]_allVars => WorkersInv'
<1> SUFFICES ASSUME Shape, WorkersInv, [Next]_allVars PROVE WorkersInv'
  OBVIOUS
<1>1. CASE UNCHANGED allVars
  BY <1>1, WorkersKept DEF allVars, sessionVars
<1> QED
  BY <1>1, WorkersOfUser, WorkersOfPower, WorkersOfStore, WorkersOfPump, WorkersOfWorkers
     DEF Next

-----------------------------------------------------------------------------
(* What the user ended.  Only the Closed of a connection that the user did *)
(* not disconnect marks it late; that one was asked to quit.               *)

LEMMA EndedStep == Shape /\ WorkersInv /\ EndedInv /\ [Next]_allVars => EndedInv'
<1> SUFFICES ASSUME Shape, WorkersInv, EndedInv, [Next]_allVars PROVE EndedInv'
  OBVIOUS
<1> USE DEF sessionVars, historyVars
<1>1. ASSUME UNCHANGED <<manualDisconnect, userEnded>> PROVE EndedInv'
  BY <1>1 DEF EndedInv
<1>2. ASSUME manualDisconnect' = FALSE, userEnded' = "no" PROVE EndedInv'
  BY <1>2 DEF EndedInv
<1>3. ASSUME manualDisconnect' = TRUE, userEnded' = "disconnect" PROVE EndedInv'
  BY <1>3 DEF EndedInv
<1>4. CASE UNCHANGED allVars
  BY <1>1, <1>4 DEF allVars
<1>5. CASE UserStep
  <2>1. \/ UNCHANGED <<manualDisconnect, userEnded>>
        \/ manualDisconnect' = FALSE /\ userEnded' = "no"
        \/ manualDisconnect' = TRUE /\ userEnded' = "disconnect"
    <3>1. CASE Reconnect \/ SubmitNickname
      BY <3>1 DEF Reconnect, SubmitNickname
    <3>2. CASE Disconnect \/ CancelNickname \/ CancelPrompt
      BY <3>2 DEF Disconnect, CancelNickname, CancelPrompt, DisconnectSession
    <3>3. CASE ConnectFromSettings \/ QuitCommand \/ SubmitPrompt \/ ChangeSettings
      BY <3>3 DEF ConnectFromSettings, QuitCommand, SubmitPrompt, ChangeSettings
    <3> QED BY <1>5, <3>1, <3>2, <3>3 DEF UserStep
  <2> QED BY <1>1, <1>2, <1>3, <2>1
<1>6. CASE PrepareForSleep \/ Wake \/ \E token \in timers : RetryTimer(token)
  <2>1. UNCHANGED <<manualDisconnect, userEnded>>
    BY <1>6 DEF PrepareForSleep, Wake, RetryTimer
  <2> QED BY <1>1, <2>1
<1>7. CASE StoreStep
  <2>1. CASE Connects
    BY <1>1, <1>2, <2>1, ConnectsType
  <2> QED BY <1>1, <1>7, <2>1, StoreEffect
<1>8. ASSUME NEW g \in Generations, HandleClosed(g), g = generation, workers[g].reports # <<>>
      PROVE  EndedInv'
  <2>1. workers[g] \in Workers /\ workers[g].reports \in Seq(Reports)
    BY DEF Shape, Workers
  <2>2. 1 \in DOMAIN workers[g].reports /\ workers[g].reports[1] = "closed"
    <3>1. Head(workers[g].reports) = workers[g].reports[1] /\ 1 \in DOMAIN workers[g].reports
      BY <1>8, <2>1
    <3> QED BY <1>8, <3>1 DEF HandleClosed, Report
  <2>3. workers[g].asked # {} /\ workers[g].asked \subseteq Requests
    BY <2>1, <2>2 DEF WorkersInv, ClosedWasAsked, Workers
  <2>4. irc = g
    <3>1. workers[g] # NoWorker
      BY <1>8 DEF NoWorker
    <3>2. irc # 0
      BY <1>8, <3>1 DEF WorkersInv
    <3> QED BY <1>8, <3>2, IrcType
  <2>5. irc # 0
    BY <2>4 DEF Generations
  <2>6. /\ manualDisconnect' = (manualDisconnect \/ ~asleep)
        /\ userEnded' = IF "quit" \in workers[g].asked THEN "quit" ELSE userEnded
    BY <1>8 DEF HandleClosed, Ended
  <2>7. ~manualDisconnect /\ ~asleep => "quit" \in workers[g].asked
    BY <2>3, <2>4, <2>5 DEF WorkersInv, Requests
  <2> QED BY <2>6, <2>7 DEF EndedInv
<1>9. ASSUME NEW g \in Generations, Pump(g)
      PROVE  EndedInv'
  <2>1. CASE g = generation /\ workers[g].reports # <<>> /\ HandleClosed(g)
    BY <1>8, <2>1
  <2>2. CASE \/ HandleRegistered(g) \/ HandleNicknameRejected(g) \/ StopPump(g)
    BY <1>1, <2>2 DEF HandleRegistered, HandleNicknameRejected, StopPump
  <2>3. CASE \/ HandleDisconnected(g) \/ HandleWorkerClosed(g)
             \/ HandleRefused(g) \/ HandlePasswordRefused(g)
    <3>1. UNCHANGED <<manualDisconnect, userEnded>>
      BY <2>3 DEF HandleDisconnected, HandleWorkerClosed, HandleRefused,
         HandlePasswordRefused, Ended
    <3> QED BY <1>1, <3>1
  <2> QED BY <1>9, <2>1, <2>2, <2>3 DEF Pump, IsCurrent
<1>10. CASE \E g \in Generations : Register(g) \/ RejectNickname(g) \/ EndOfWorker(g)
  <2>1. UNCHANGED <<manualDisconnect, userEnded>>
    BY <1>10 DEF Register, RejectNickname, EndOfWorker, WorkerReports
  <2> QED BY <1>1, <2>1
<1> QED BY <1>4, <1>5, <1>6, <1>7, <1>9, <1>10 DEF Next

-----------------------------------------------------------------------------
(* The way back. *)

(* A read of the attempt with this token is queued. *)
ReadIn(queue, token) ==
    \E i \in DOMAIN queue : queue[i].kind = "reconnect" /\ queue[i].token = token

(* It stays when a read is queued behind it, or another answered before.   *)
LEMMA ReadStays ==
  ASSUME NEW queue \in Seq(Jobs), NEW token, ReadIn(queue, token)
  PROVE  /\ \A job \in Jobs : ReadIn(Append(queue, job), token)
         /\ queue # <<>>
         /\ \/ ReadIn(Tail(queue), token)
            \/ Head(queue).kind = "reconnect" /\ Head(queue).token = token
<1>1. PICK i \in DOMAIN queue : queue[i].kind = "reconnect" /\ queue[i].token = token
  BY DEF ReadIn
<1>2. ASSUME NEW job \in Jobs
      PROVE  ReadIn(Append(queue, job), token)
  <2>1. i \in DOMAIN Append(queue, job) /\ Append(queue, job)[i] = queue[i]
    OBVIOUS
  <2> QED BY <1>1, <2>1 DEF ReadIn
<1>3. queue # <<>>
  OBVIOUS
<1>4. CASE i = 1
  <2>1. Head(queue) = queue[1]
    BY <1>3
  <2> QED BY <1>1, <1>2, <1>3, <1>4, <2>1
<1>5. CASE i # 1
  <2>1. i - 1 \in DOMAIN Tail(queue) /\ Tail(queue)[i - 1] = queue[i]
    BY <1>3, <1>5
  <2>2. ReadIn(Tail(queue), token)
    BY <1>1, <2>1 DEF ReadIn
  <2> QED BY <1>2, <1>3, <2>2
<1> QED BY <1>4, <1>5

LEMMA TypeOfJobs == Shape => jobs \in Seq(Jobs) /\ retryToken \in Nat
  BY DEF Shape, CountersOK

(* Whatever begins to read the passwords is on its way back. *)
LEMMA ReadSecretsReturns ==
  ASSUME Shape, NEW token \in Nat, NEW refused \in BOOLEAN,
         ReadSecrets(jobs, token, refused)
  PROVE  retryPending' = FALSE /\ (Returning' \/ gaveUp' # "no")
<1>1. CASE profileFits
  <2> DEFINE job == Job("reconnect", token + 1, refused, "none")
  <2>1. job \in Jobs /\ job.kind = "reconnect" /\ job.token = token + 1
    <3>1. "none" \in Resumes /\ token + 1 \in Nat
      BY DEF Resumes
    <3> QED BY <3>1, JobType DEF Job
  <2>2. jobs' = Append(jobs, job) /\ retryToken' = token + 1 /\ retryPending' = FALSE
    BY <1>1 DEF ReadSecrets
  <2> HIDE DEF job
  <2>3. Len(jobs) + 1 \in DOMAIN Append(jobs, job) /\ Append(jobs, job)[Len(jobs) + 1] = job
    BY <2>1, TypeOfJobs
  <2>4. Returning'
    BY <2>1, <2>2, <2>3 DEF Returning
  <2> QED BY <2>2, <2>4
<1>2. CASE ~profileFits
  BY <1>2 DEF ReadSecrets
<1> QED BY <1>1, <1>2

(* A step that reads the passwords, or ends the server for the user, and   *)
(* leaves the dialog as it was.                                            *)
LEMMA RetryRead ==
  ASSUME Shape, RetryInv, NEW token \in Nat, NEW refused \in BOOLEAN,
         ReadSecrets(jobs, token, refused), UNCHANGED prompt
  PROVE  RetryInv'
<1>1. retryPending' = FALSE /\ (Returning' \/ gaveUp' # "no")
  BY ReadSecretsReturns
<1> QED BY <1>1 DEF RetryInv, NoPrompt

LEMMA RetryEnded ==
  ASSUME RetryInv, retryPending' = FALSE, manualDisconnect' = TRUE,
         prompt' \in {prompt, NoPrompt}
  PROVE  RetryInv'
  BY DEF RetryInv, NoPrompt

(* A step that leaves the retry alone, and takes no way back.              *)
LEMMA RetryKept ==
  ASSUME Shape, RetryInv, UNCHANGED <<retryPending, retryToken, activeConfig>>,
         retryPending => /\ irc' = 0 /\ ~asleep' /\ ~manualDisconnect'
                         /\ retryToken \in timers => retryToken \in timers',
         prompt' # NoPrompt => prompt'.resume # "none",
         activeConfig /\ ~manualDisconnect' /\ (irc' = 0 \/ asleep') =>
            /\ ~manualDisconnect /\ (irc = 0 \/ asleep)
            /\ ReadIn(jobs, retryToken) =>
                  ReadIn(jobs', retryToken) \/ prompt' # NoPrompt \/ gaveUp' # "no"
            /\ prompt # NoPrompt => prompt' # NoPrompt \/ gaveUp' # "no"
            /\ asleep /\ power = "sleeping" => asleep' /\ power' = "sleeping"
            /\ gaveUp # "no" => gaveUp' # "no"
  PROVE  RetryInv'
<1>1. (retryPending => irc = 0 /\ ~asleep /\ ~manualDisconnect /\ retryToken \in timers)'
  BY DEF RetryInv
<1>2. ASSUME activeConfig, ~manualDisconnect', irc' = 0 \/ asleep'
      PROVE  Returning' \/ gaveUp' # "no"
  <2>1. Returning \/ gaveUp # "no"
    BY <1>2 DEF RetryInv
  <2>2. CASE retryPending /\ retryToken \in timers
    BY <2>2 DEF Returning
  <2>3. CASE ReadIn(jobs, retryToken)
    BY <1>2, <2>3 DEF ReadIn, Returning
  <2>4. CASE prompt # NoPrompt \/ (asleep /\ power = "sleeping") \/ gaveUp # "no"
    <3>1. prompt' # NoPrompt \/ (asleep' /\ power' = "sleeping") \/ gaveUp' # "no"
      BY <1>2, <2>4
    <3> QED BY <3>1 DEF Returning, NoPrompt
  <2> QED BY <2>1, <2>2, <2>3, <2>4 DEF Returning, ReadIn
<1> QED BY <1>1, <1>2 DEF RetryInv, NoPrompt

LEMMA RetryOfUser ==
  ASSUME Shape, RetryInv, UserStep
  PROVE  RetryInv'
<1> USE DEF sessionVars, windowVars, historyVars
<1>1. ASSUME ReadSecrets(jobs, retryToken + 1, FALSE), UNCHANGED prompt PROVE RetryInv'
  <2>1. retryToken + 1 \in Nat /\ FALSE \in BOOLEAN
    BY TypeOfJobs
  <2> QED BY <1>1, <2>1, RetryRead
<1>2. ASSUME DisconnectSession, UNCHANGED prompt PROVE RetryInv'
  BY <1>2, RetryEnded DEF DisconnectSession
<1>3. ASSUME UNCHANGED <<irc, activeConfig, manualDisconnect, asleep, retryPending,
                         retryToken, timers, power, gaveUp>>,
             ReadIn(jobs, retryToken) => ReadIn(jobs', retryToken),
             prompt' # NoPrompt => prompt'.resume # "none",
             prompt # NoPrompt => prompt' # NoPrompt
      PROVE  RetryInv'
  <2>1. retryPending => irc = 0 /\ ~asleep /\ ~manualDisconnect
    BY DEF RetryInv
  <2> QED BY <1>3, <2>1, RetryKept
<1>4. \A kind \in {"saved", "settings"} : ReadIn(jobs, retryToken) =>
         ReadIn(Append(jobs, Job(kind, 0, FALSE, "none")), retryToken)
  <2>1. \A kind \in {"saved", "settings"} : Job(kind, 0, FALSE, "none") \in Jobs
    BY JobType DEF Resumes
  <2> QED BY <2>1, ReadStays, TypeOfJobs
<1>5. prompt # NoPrompt => prompt.resume # "none"
  BY DEF RetryInv
<1>6. CASE Reconnect
  <2>1. CASE activeConfig
    BY <1>1, <1>6, <2>1 DEF Reconnect
  <2>2. CASE ~activeConfig
    <3>1. UNCHANGED <<irc, activeConfig, manualDisconnect, asleep, retryPending,
                      retryToken, timers, power, gaveUp, prompt>>
          /\ jobs' = Append(jobs, Job("saved", 0, FALSE, "none"))
      BY <1>6, <2>2 DEF Reconnect
    <3> QED BY <1>3, <1>4, <1>5, <3>1
  <2> QED BY <2>1, <2>2
<1>7. CASE ConnectFromSettings
  <2>1. UNCHANGED <<irc, activeConfig, manualDisconnect, asleep, retryPending,
                    retryToken, timers, power, gaveUp, prompt>>
        /\ jobs' = Append(jobs, Job("settings", 0, FALSE, "none"))
    BY <1>7 DEF ConnectFromSettings
  <2> QED BY <1>3, <1>4, <1>5, <2>1
<1>8. CASE Disconnect
  BY <1>2, <1>8 DEF Disconnect
<1>9. CASE QuitCommand
  <2>1. UNCHANGED <<irc, activeConfig, manualDisconnect, asleep, retryPending,
                    retryToken, timers, power, gaveUp, prompt, jobs>>
    BY <1>9 DEF QuitCommand
  <2> QED BY <1>3, <1>5, <2>1
<1>10. CASE SubmitNickname
  <2>1. CASE irc = 0
    BY <1>1, <1>10, <2>1 DEF SubmitNickname
  <2>2. CASE irc # 0
    <3>1. UNCHANGED <<irc, activeConfig, manualDisconnect, asleep, retryPending,
                      retryToken, timers, power, gaveUp, prompt, jobs>>
      BY <1>10, <2>2 DEF SubmitNickname
    <3> QED BY <1>3, <1>5, <3>1
  <2> QED BY <2>1, <2>2
<1>11. CASE CancelNickname
  <2>1. CASE irc # 0
    BY <1>2, <1>11, <2>1 DEF CancelNickname
  <2>2. CASE irc = 0
    <3>1. UNCHANGED <<irc, activeConfig, manualDisconnect, asleep, retryPending,
                      retryToken, timers, power, gaveUp, prompt, jobs>>
      BY <1>11, <2>2 DEF CancelNickname
    <3> QED BY <1>3, <1>5, <3>1
  <2> QED BY <2>1, <2>2
<1>12. CASE SubmitPrompt
  <2> DEFINE job == Job("keys", 0, FALSE, IF prompt.fits THEN prompt.resume ELSE "fresh")
  <2>1. job \in Jobs
    <3>1. prompt.resume \in Resumes /\ "fresh" \in Resumes
      BY DEF Shape, Prompts, Resumes
    <3>2. (IF prompt.fits THEN prompt.resume ELSE "fresh") \in Resumes
      BY <3>1
    <3> QED BY <3>2, JobType
  <2>2. UNCHANGED <<irc, activeConfig, manualDisconnect, asleep, retryPending,
                    retryToken, timers, power, gaveUp>>
        /\ jobs' = Append(jobs, job) /\ prompt' = [prompt EXCEPT !.submitting = TRUE]
        /\ prompt # NoPrompt
    BY <1>12 DEF SubmitPrompt
  <2>3. prompt'.resume # "none" /\ prompt'.submitting = TRUE
    BY <1>5, <2>2 DEF Shape, Prompts
  <2>4. prompt' # NoPrompt
    BY <2>3 DEF NoPrompt
  <2> HIDE DEF job
  <2>5. ReadIn(jobs, retryToken) => ReadIn(jobs', retryToken)
    BY <2>1, <2>2, ReadStays, TypeOfJobs
  <2> QED BY <1>3, <2>2, <2>3, <2>4, <2>5
<1>13. CASE CancelPrompt
  BY <1>13, RetryEnded DEF CancelPrompt
<1>14. CASE ChangeSettings
  <2>1. UNCHANGED <<irc, activeConfig, manualDisconnect, asleep, retryPending,
                    retryToken, timers, power, gaveUp>>
    BY <1>14 DEF ChangeSettings
  <2>2. ReadIn(jobs, retryToken) => ReadIn(jobs', retryToken)
    <3>1. jobs' = [i \in DOMAIN jobs |-> [jobs[i] EXCEPT !.fits = FALSE]]
      BY <1>14 DEF ChangeSettings
    <3>2. \A i \in DOMAIN jobs : jobs[i] \in Jobs
      BY TypeOfJobs
    <3>3. DOMAIN jobs' = DOMAIN jobs
          /\ \A i \in DOMAIN jobs :
                jobs'[i].kind = jobs[i].kind /\ jobs'[i].token = jobs[i].token
      BY <3>1, <3>2 DEF Jobs
    <3> QED BY <3>3 DEF ReadIn
  <2>3. CASE prompt = NoPrompt
    BY <1>3, <1>14, <2>1, <2>2, <2>3 DEF ChangeSettings
  <2>4. CASE prompt # NoPrompt
    <3>1. prompt'.resume # "none" /\ prompt'.fits = FALSE
      BY <1>5, <1>14, <2>4 DEF ChangeSettings, Shape, Prompts
    <3>2. prompt' # NoPrompt
      BY <3>1 DEF NoPrompt
    <3> QED BY <1>3, <2>1, <2>2, <3>1, <3>2
  <2> QED BY <2>3, <2>4
<1> QED
  BY <1>6, <1>7, <1>8, <1>9, <1>10, <1>11, <1>12, <1>13, <1>14 DEF UserStep

LEMMA RetryOfPower ==
  ASSUME Shape, RetryInv, PrepareForSleep \/ Wake \/ \E token \in timers : RetryTimer(token)
  PROVE  RetryInv'
<1> USE DEF sessionVars, windowVars, historyVars
<1>1. /\ prompt # NoPrompt => prompt.resume # "none"
      /\ retryPending => irc = 0 /\ ~asleep /\ ~manualDisconnect
      /\ retryToken \in Nat /\ retryToken + 1 \in Nat /\ FALSE \in BOOLEAN
  BY TypeOfJobs DEF RetryInv
<1>2. CASE PrepareForSleep
  <2>1. UNCHANGED <<irc, activeConfig, manualDisconnect, prompt, jobs, timers, gaveUp>>
        /\ power = "awake" /\ power' = "sleeping"
    BY <1>2 DEF PrepareForSleep
  <2>2. CASE UNCHANGED <<asleep, retryPending, retryToken>>
    BY <1>1, <2>1, <2>2, RetryKept
  <2>3. CASE asleep' = TRUE /\ \/ irc # 0 /\ UNCHANGED <<retryPending, retryToken>>
                               \/ retryPending' = FALSE
    <3>1. retryPending' = FALSE
      <4>1. retryPending \in BOOLEAN
        BY DEF Shape, FlagsOK
      <4> QED BY <1>1, <2>3, <4>1
    <3>2. Returning'
      BY <2>1, <2>3 DEF Returning
    <3> QED BY <1>1, <2>1, <3>1, <3>2 DEF RetryInv, NoPrompt
  <2> QED BY <1>2, <2>2, <2>3 DEF PrepareForSleep
<1>3. CASE Wake
  <2>1. UNCHANGED <<irc, activeConfig, manualDisconnect, prompt, timers>>
        /\ power' = "awake"
    BY <1>3 DEF Wake
  <2>2. CASE manualDisconnect
    <3>1. UNCHANGED <<retryPending, retryToken, jobs, gaveUp>>
      BY <1>3, <2>2 DEF Wake
    <3> QED BY <1>1, <2>1, <2>2, <3>1, RetryKept
  <2>3. CASE ~manualDisconnect /\ asleep
    <3>1. ReadSecrets(jobs, retryToken + 1, FALSE)
      BY <1>3, <2>3 DEF Wake
    <3> QED BY <1>1, <2>1, <3>1, RetryRead
  <2>4. CASE ~manualDisconnect /\ ~asleep
    <3>1. UNCHANGED <<retryPending, retryToken, jobs, gaveUp, asleep>>
      BY <1>3, <2>4 DEF Wake
    <3> QED BY <1>1, <2>1, <2>4, <3>1, RetryKept
  <2> QED BY <2>2, <2>3, <2>4
<1>4. ASSUME NEW token \in timers, RetryTimer(token) PROVE RetryInv'
  <2>1. UNCHANGED <<irc, activeConfig, manualDisconnect, asleep, prompt, power>>
        /\ timers' = timers \ {token}
    BY <1>4 DEF RetryTimer
  <2>2. CASE retryToken = token /\ ~manualDisconnect /\ ~asleep /\ irc = 0
    <3>1. ReadSecrets(jobs, retryToken, FALSE)
      BY <1>4, <2>2 DEF RetryTimer
    <3> QED BY <1>1, <2>1, <3>1, RetryRead
  <2>3. CASE ~(retryToken = token /\ ~manualDisconnect /\ ~asleep /\ irc = 0)
    <3>1. UNCHANGED <<retryPending, retryToken, jobs, gaveUp>>
      BY <1>4, <2>3 DEF RetryTimer
    <3> QED BY <1>1, <2>1, <2>3, <3>1, RetryKept
  <2> QED BY <2>2, <2>3
<1> QED BY <1>2, <1>3, <1>4

LEMMA RetryOfStore ==
  ASSUME Shape, RetryInv, StoreStep
  PROVE  RetryInv'
<1> USE DEF windowVars, historyVars
<1>1. /\ prompt # NoPrompt => prompt.resume # "none"
      /\ retryPending => irc = 0 /\ ~asleep /\ ~manualDisconnect
  BY DEF RetryInv
<1>2. CASE Connects
  <2>1. PICK token \in Nat, manual \in BOOLEAN :
           /\ retryToken <= token /\ Connect(token, manual)
           /\ manual = manualDisconnect' /\ prompt' = NoPrompt
    BY <1>2, ConnectsType
  <2>2. /\ asleep' = FALSE
        /\ retryPending' <=> irc' = 0 /\ ~manualDisconnect'
        /\ retryPending' => retryToken' \in timers'
    BY <2>1, ConnectEffect
  <2>3. (activeConfig /\ ~manualDisconnect /\ (irc = 0 \/ asleep) => Returning)'
    BY <2>2 DEF Returning
  <2>4. (retryPending => irc = 0 /\ ~asleep /\ ~manualDisconnect /\ retryToken \in timers)'
    BY <2>2
  <2>5. prompt' = NoPrompt' /\ prompt' = NoPrompt
    BY <2>1 DEF NoPrompt
  <2> QED BY <2>3, <2>4, <2>5 DEF RetryInv
<1>3. ASSUME UNCHANGED <<irc, activeConfig, manualDisconnect, asleep, retryPending,
                         retryToken, timers, power>>,
             prompt' # NoPrompt => prompt'.resume # "none",
             prompt # NoPrompt => prompt' # NoPrompt,
             gaveUp # "no" => gaveUp' # "no",
             ~manualDisconnect /\ ReadIn(jobs, retryToken) =>
                ReadIn(jobs', retryToken) \/ prompt' # NoPrompt \/ gaveUp' # "no"
      PROVE  RetryInv'
  BY <1>1, <1>3, RetryKept
<1>4. /\ jobs # <<>> /\ Head(jobs) \in Jobs /\ Tail(jobs) \in Seq(Jobs)
      /\ UNCHANGED power
  <2>1. jobs # <<>> /\ UNCHANGED power
    BY DEF StoreStep, SecretsRead, SavedRead, SettingsRead, KeysRead, ReadDone
  <2> QED BY <2>1, TypeOfJobs, HeadAndTail
<1>5. \A resume \in {"fresh", "reconnect"} :
         Prompt(resume) # NoPrompt /\ Prompt(resume).resume # "none"
  BY DEF Prompt, NoPrompt
<1>6. Head(jobs).kind # "reconnect" /\ ReadIn(jobs, retryToken) =>
         /\ ReadIn(Tail(jobs), retryToken)
         /\ \A job \in Jobs : ReadIn(Append(Tail(jobs), job), retryToken)
  <2>1. SUFFICES ASSUME Head(jobs).kind # "reconnect", ReadIn(jobs, retryToken)
                 PROVE  /\ ReadIn(Tail(jobs), retryToken)
                        /\ \A job \in Jobs : ReadIn(Append(Tail(jobs), job), retryToken)
    OBVIOUS
  <2>2. ReadIn(Tail(jobs), retryToken)
    BY <2>1, ReadStays, TypeOfJobs
  <2> QED BY <1>4, <2>2, ReadStays
<1>7. ASSUME LeftAlone \/ ConnectFresh, ~Connects, Head(jobs).kind # "reconnect",
             \/ jobs' = Tail(jobs)
             \/ \E job \in Jobs : jobs' = Append(Tail(jobs), job)
      PROVE  RetryInv'
  <2>1. TRUE \in BOOLEAN /\ ~ApplyConnection(TRUE)
    BY <1>7 DEF Connects
  <2>2. UNCHANGED <<irc, activeConfig, manualDisconnect, asleep, retryPending,
                    retryToken, timers, gaveUp>>
        /\ (prompt' = prompt \/ prompt' = Prompt("fresh"))
    BY <1>7, <2>1 DEF LeftAlone, ConnectFresh
  <2>3. ReadIn(jobs, retryToken) => ReadIn(jobs', retryToken)
    BY <1>6, <1>7
  <2> QED BY <1>1, <1>3, <1>4, <1>5, <2>2, <2>3
<1>8. CASE SecretsRead /\ ~Connects
  <2>1. /\ jobs' = Tail(jobs)
        /\ UNCHANGED <<irc, activeConfig, manualDisconnect, asleep, retryPending,
                       retryToken, timers>>
        /\ \/ Current(Head(jobs)) /\ prompt' = Prompt("reconnect") /\ UNCHANGED gaveUp
           \/ Current(Head(jobs)) /\ gaveUp' = "told" /\ UNCHANGED prompt
           \/ ~Current(Head(jobs)) /\ UNCHANGED <<prompt, gaveUp>>
    BY <1>8 DEF SecretsRead, Connects
  <2>2. ~manualDisconnect /\ ReadIn(jobs, retryToken) =>
           ReadIn(Tail(jobs), retryToken) \/ Current(Head(jobs))
    BY ReadStays, TypeOfJobs DEF Current
  <2> QED BY <1>1, <1>3, <1>4, <1>5, <2>1, <2>2
<1>9. CASE SavedRead /\ ~Connects
  <2>1. Job("saved", 0, FALSE, "none") \in Jobs
    BY JobType DEF Resumes
  <2>2. Head(jobs).kind # "reconnect" /\ (LeftAlone \/ ConnectFresh)
        /\ (jobs' = Tail(jobs) \/ jobs' = Append(Tail(jobs), Job("saved", 0, FALSE, "none")))
    BY <1>9 DEF SavedRead, ReadDone
  <2> QED BY <1>7, <1>9, <2>1, <2>2
<1>10. CASE SettingsRead /\ ~Connects
  <2>1. Job("settings", 0, FALSE, "none") \in Jobs
    BY JobType DEF Resumes
  <2>2. Head(jobs).kind # "reconnect" /\ (LeftAlone \/ ConnectFresh)
        /\ (jobs' = Tail(jobs) \/ jobs' = Append(Tail(jobs), Job("settings", 0, FALSE, "none")))
    BY <1>10 DEF SettingsRead, ReadDone
  <2> QED BY <1>7, <1>10, <2>1, <2>2
<1>11. CASE KeysRead /\ ~Connects
  <2>1. Head(jobs).fits \in BOOLEAN
    BY <1>4 DEF Jobs
  <2>2. /\ jobs' = Tail(jobs) /\ Head(jobs).kind # "reconnect"
        /\ prompt' = [prompt EXCEPT !.submitting = FALSE]
        /\ UNCHANGED <<irc, activeConfig, manualDisconnect, asleep, retryPending,
                       retryToken, timers, gaveUp>>
    BY <1>11, <2>1 DEF KeysRead, ReadDone, Connects
  <2>3. prompt'.resume = prompt.resume /\ (prompt = NoPrompt => prompt' = NoPrompt)
    <3>1. prompt \in Prompts
      BY DEF Shape
    <3>2. prompt'.resume = prompt.resume
      BY <2>2, <3>1 DEF Prompts
    <3>3. prompt.submitting = FALSE => [prompt EXCEPT !.submitting = FALSE] = prompt
      BY <3>1 DEF Prompts
    <3>4. NoPrompt.submitting = FALSE
      BY DEF NoPrompt
    <3>5. prompt = NoPrompt => prompt' = prompt
      BY <2>2, <3>3, <3>4
    <3> QED BY <3>2, <3>5
  <2>4. prompt # NoPrompt => prompt' # NoPrompt /\ prompt'.resume # "none"
    BY <1>1, <2>3 DEF NoPrompt
  <2> QED BY <1>3, <1>4, <1>6, <2>2, <2>3, <2>4
<1> QED BY <1>2, <1>8, <1>9, <1>10, <1>11 DEF StoreStep

LEMMA RetryOfPump ==
  ASSUME Shape, WorkersInv, RetryInv, NEW g \in Generations, Pump(g)
  PROVE  RetryInv'
<1> USE DEF sessionVars, windowVars, historyVars
<1>1. /\ prompt # NoPrompt => prompt.resume # "none"
      /\ retryPending => irc = 0 /\ ~asleep /\ ~manualDisconnect
      /\ retryPending \in BOOLEAN /\ retryToken \in Nat /\ retryToken <= retryToken
  BY TypeOfJobs DEF RetryInv, Shape, FlagsOK
<1>2. CASE StopPump(g)
  <2>1. UNCHANGED <<irc, activeConfig, manualDisconnect, asleep, retryPending,
                    retryToken, timers, power, gaveUp, prompt, jobs>>
    BY <1>2 DEF StopPump
  <2> QED BY <1>1, <2>1, RetryKept
<1>3. CASE HandleRegistered(g) \/ HandleNicknameRejected(g)
  <2>1. UNCHANGED <<irc, activeConfig, manualDisconnect, asleep, retryPending,
                    retryToken, timers, power, jobs>>
    BY <1>3 DEF HandleRegistered, HandleNicknameRejected
  <2>2. CASE HandleRegistered(g)
    <3>1. prompt' = NoPrompt /\ gaveUp' = IF prompt = NoPrompt THEN gaveUp ELSE "dialogClosed"
      BY <2>2 DEF HandleRegistered
    <3> QED BY <1>1, <2>1, <3>1, RetryKept
  <2>3. CASE HandleNicknameRejected(g)
    <3>1. UNCHANGED <<prompt, gaveUp>>
      BY <2>3 DEF HandleNicknameRejected
    <3> QED BY <1>1, <2>1, <3>1, RetryKept
  <2> QED BY <1>3, <2>2, <2>3
<1>4. ASSUME NEW manual \in BOOLEAN, Ended(g, manual), manualDisconnect => manual,
             ScheduleRetry(retryToken, manual, asleep, activeConfig),
             UNCHANGED <<jobs, gaveUp>>
      PROVE  RetryInv'
  <2>1. irc' = 0 /\ manualDisconnect' = manual
        /\ UNCHANGED <<activeConfig, asleep, prompt, power>>
    BY <1>4 DEF Ended
  <2>2. CASE manual \/ asleep \/ ~activeConfig
    <3>1. retryPending' = FALSE /\ retryToken' = retryToken /\ timers' = timers
      BY <1>4, <2>2 DEF ScheduleRetry
    <3>2. ASSUME activeConfig, ~manual
          PROVE  Returning' \/ gaveUp' # "no"
      <4>1. asleep /\ ~manualDisconnect
        BY <1>4, <2>2, <3>2
      <4>2. (Returning \/ gaveUp # "no") /\ ~retryPending
        BY <1>1, <3>2, <4>1 DEF RetryInv
      <4> QED BY <1>4, <2>1, <3>1, <4>2 DEF Returning, NoPrompt
    <3> QED BY <1>1, <2>1, <3>1, <3>2 DEF RetryInv, NoPrompt
  <2>3. CASE ~(manual \/ asleep \/ ~activeConfig)
    <3>1. retryPending' = TRUE /\ retryToken' = retryToken + 1
          /\ timers' = timers \cup {retryToken + 1}
      BY <1>4, <2>3 DEF ScheduleRetry
    <3>2. retryToken' \in timers'
      BY <3>1
    <3> QED BY <1>1, <2>1, <2>3, <3>1, <3>2 DEF RetryInv, Returning, NoPrompt
  <2> QED BY <2>2, <2>3
<1>5. CASE HandleClosed(g)
  <2> DEFINE manual == manualDisconnect \/ ~asleep
  <2>1. manual \in BOOLEAN
    BY Zenon
  <2>2. /\ Ended(g, manual) /\ ScheduleRetry(retryToken, manual, asleep, activeConfig)
        /\ UNCHANGED <<jobs, gaveUp>>
    BY <1>5 DEF HandleClosed
  <2>3. manualDisconnect => manual
    OBVIOUS
  <2> HIDE DEF manual
  <2> QED BY <1>4, <2>1, <2>2, <2>3, Zenon
<1>6. CASE HandleDisconnected(g) \/ HandleWorkerClosed(g)
  <2>1. /\ Ended(g, manualDisconnect)
        /\ ScheduleRetry(retryToken, manualDisconnect, asleep, activeConfig)
        /\ UNCHANGED <<jobs, gaveUp>> /\ manualDisconnect \in BOOLEAN
    BY <1>6 DEF HandleDisconnected, HandleWorkerClosed, Shape, FlagsOK
  <2> QED BY <1>4, <2>1
<1>7. CASE HandleRefused(g)
  <2>1. /\ irc' = 0 /\ gaveUp' = "told"
        /\ UNCHANGED <<activeConfig, manualDisconnect, asleep, retryPending,
                       retryToken, timers, power, jobs, prompt>>
    BY <1>7 DEF HandleRefused, Ended
  <2> QED BY <1>1, <2>1 DEF RetryInv, NoPrompt
<1>8. CASE HandlePasswordRefused(g)
  <2>1. ReadSecrets(jobs, retryToken, TRUE) /\ UNCHANGED prompt /\ TRUE \in BOOLEAN
    BY <1>8 DEF HandlePasswordRefused, Ended
  <2> QED BY <1>1, <2>1, RetryRead
<1> QED
  BY <1>2, <1>3, <1>5, <1>6, <1>7, <1>8 DEF Pump

LEMMA RetryStep == Shape /\ WorkersInv /\ RetryInv /\ [Next]_allVars => RetryInv'
<1> SUFFICES ASSUME Shape, WorkersInv, RetryInv, [Next]_allVars PROVE RetryInv'
  OBVIOUS
<1>1. retryPending => irc = 0 /\ ~asleep /\ ~manualDisconnect
  BY DEF RetryInv
<1>2. prompt # NoPrompt => prompt.resume # "none"
  BY DEF RetryInv
<1>3. ASSUME UNCHANGED <<irc, activeConfig, manualDisconnect, asleep, retryPending,
                         retryToken, timers, power, gaveUp, prompt, jobs>>
      PROVE  RetryInv'
  BY <1>1, <1>2, <1>3, RetryKept
<1>4. CASE UNCHANGED allVars
  BY <1>3, <1>4 DEF allVars, sessionVars, windowVars, historyVars
<1>5. CASE \E g \in Generations : Register(g) \/ RejectNickname(g) \/ EndOfWorker(g)
  <2>1. UNCHANGED <<sessionVars, windowVars, jobs, timers, power, uses, historyVars>>
    BY <1>5 DEF Register, RejectNickname, EndOfWorker, WorkerReports
  <2> QED BY <1>3, <2>1 DEF sessionVars, windowVars, historyVars
<1> QED BY <1>4, <1>5, RetryOfUser, RetryOfPower, RetryOfStore, RetryOfPump DEF Next

-----------------------------------------------------------------------------
(* The theorems. *)

LEMMA SessionInit == Init => SessionInv
<1> SUFFICES ASSUME Init PROVE SessionInv
  OBVIOUS
<1>1. Shape
  BY ShapeInit
<1>2. WorkersInv
  BY DEF Init, WorkersInv, ClosedWasAsked, NoWorker
<1>3. EndedInv /\ RetryInv
  BY DEF Init, EndedInv, RetryInv, NoPrompt
<1> QED BY <1>1, <1>2, <1>3 DEF SessionInv

LEMMA SessionStep == SessionInv /\ [Next]_allVars => SessionInv'
  BY ShapeStep, WorkersStep, EndedStep, RetryStep DEF SessionInv

LEMMA SessionAlways == Spec => []SessionInv
  BY SessionInit, SessionStep, PTL DEF Spec

(* The types of the session's state: among them that it holds the last     *)
(* connection made or none, that no timer has a token of the future, and   *)
(* that no worker is older than the count of connections says.             *)
THEOREM SessionTypes == Spec => []TypeOK
<1>1. ASSUME SessionInv PROVE TypeOK
  <2> USE DEF SessionInv, Shape
  <2>1. \A i \in DOMAIN jobs :
           jobs[i].kind \in {"reconnect", "saved", "startup", "settings", "keys"}
    <3>1. \A i \in DOMAIN jobs : jobs[i] \in Jobs
      BY <1>1
    <3> QED BY <3>1 DEF Jobs
  <2>2. \A g \in Generations : workers[g].state # "none" => g <= generation
    <3>1. \A g \in Generations : g > generation => workers[g].state = "none"
      BY <1>1 DEF WorkersInv, NoWorker
    <3>2. generation \in Nat /\ \A g \in Generations : g \in Nat
      BY <1>1, SessionAssumption DEF CountersOK, Generations
    <3> QED BY <3>1, <3>2
  <2>3. {activeConfig, manualDisconnect, starting, readingSaved, asleep, retryPending,
         nickPrompt, profileFits} \subseteq BOOLEAN
    BY <1>1, Zenon DEF FlagsOK
  <2>4. prompt.resume \in {"none", "fresh", "reconnect"}
    BY <1>1 DEF Prompts, Resumes
  <2> QED BY <1>1, <2>1, <2>2, <2>3, <2>4 DEF TypeOK, CountersOK
<1> QED BY <1>1, SessionAlways, PTL

(* Only the user stops a server for good: Closed marks it as ended by hand *)
(* only when the worker that ended had been asked to quit, so neither a    *)
(* connection that was replaced nor one ended for sleep does.              *)
THEOREM OnlyTheUserStops == Spec => []OnlyUserStops
<1>1. SessionInv => OnlyUserStops
  BY DEF SessionInv, EndedInv, OnlyUserStops
<1> QED BY <1>1, SessionAlways, PTL

(* A server that was not given up and has no connection is on its way      *)
(* back: whatever read, timer, dialog or sleep it waits for, no step takes *)
(* the last of them away without connecting, telling or replacing it.      *)
THEOREM AlwaysOnItsWay == Spec => []NeverStranded
<1>1. SessionInv => NeverStranded
  BY DEF SessionInv, RetryInv, NeverStranded
<1> QED BY <1>1, SessionAlways, PTL

(* After Disconnect or Cancel nothing that was under way connects the      *)
(* server: the mark of the user's end and the mark that the reads compare  *)
(* are set and cleared together.                                           *)
THEOREM DisconnectHolds == Spec => DisconnectStays
<1>1. ASSUME SessionInv, [Next]_allVars, ReconnectStarts
      PROVE  userEnded # "disconnect"
  <2>1. generation' # generation /\ jobs # <<>> /\ Head(jobs).kind = "reconnect"
    BY <1>1 DEF ReconnectStarts
  <2>2. StoreStep
    BY <1>1, <2>1 DEF Next, allVars, sessionVars, UserStep, Reconnect, ConnectFromSettings,
       Disconnect, QuitCommand, SubmitNickname, CancelNickname, SubmitPrompt,
       CancelPrompt, ChangeSettings, PrepareForSleep, Wake, RetryTimer, Pump, StopPump,
       HandleRegistered, HandleNicknameRejected, HandleClosed, HandleDisconnected,
       HandleRefused, HandlePasswordRefused, HandleWorkerClosed, Ended, Register,
       RejectNickname, EndOfWorker, WorkerReports
  <2>3. SecretsRead
    BY <2>1, <2>2 DEF StoreStep, SavedRead, SettingsRead, KeysRead, ReadDone
  <2>4. ~manualDisconnect
    BY <2>1, <2>3 DEF SecretsRead, Current
  <2> QED BY <1>1, <2>4 DEF SessionInv, EndedInv
<1>2. SessionInv /\ [Next]_allVars =>
         [ReconnectStarts => userEnded # "disconnect"]_allVars
  BY <1>1
<1> QED BY <1>2, SessionAlways, PTL DEF Spec, DisconnectStays
=============================================================================

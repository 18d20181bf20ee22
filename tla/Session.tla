------------------------------ MODULE Session -------------------------------
(***************************************************************************)
(* One server in the chat window: ServerSession of crates/ui/src/session.rs *)
(* with the code of main.rs and connect_auth.rs that connects it,          *)
(* reconnects it, asks for passwords, and ends it for the machine's sleep. *)
(* Everything runs on the UI thread, one callback at a time; between two   *)
(* callbacks the credential store reads, retry timers run, workers report, *)
(* the user acts and the machine sleeps, and each callback must find out   *)
(* whether what it was started for still stands.  retryToken and generation *)
(* are what it compares.                                                   *)
(*                                                                         *)
(* A connection is known by the generation it was made with.  Of its       *)
(* worker (Connection.tla) only what the session sees is kept: it takes    *)
(* requests to end, and reports events of which the last is terminal.      *)
(***************************************************************************)
EXTENDS Naturals, Sequences, SequencesExt

CONSTANTS Operations,       \* what the user and the machine do
          MaxGenerations,   \* bound: connections made
          MaxUses,          \* bound: those operations
          MaxReports        \* bound: events of a worker not yet taken

ASSUME SessionAssumption ==
    /\ MaxGenerations \in Nat /\ MaxUses \in Nat /\ MaxReports \in Nat

VARIABLES
    \* ServerSession.
    irc,               \* the generation of the connection it holds, or 0
    activeConfig,      \* a connection was tried in this run
    manualDisconnect, starting, readingSaved, asleep,
    retryPending, retryToken, generation,
    \* The window.
    nickPrompt,        \* the nickname dialog shows this server
    prompt,            \* its password dialog
    profileFits,       \* the saved profile still matches active_config
    \* What will call back.
    jobs,              \* reads queued on the credential store thread
    timers,            \* tokens of the retry timers that run
    workers,           \* the workers by generation
    \* The machine.
    power, uses,
    \* History.
    userEnded,         \* the user ended it since it was last connected by hand
    gaveUp             \* "no"; the user was told; or a dialog was closed

sessionVars == <<irc, activeConfig, manualDisconnect, starting, readingSaved,
                 asleep, retryPending, retryToken, generation>>
windowVars  == <<nickPrompt, prompt, profileFits>>
historyVars == <<userEnded, gaveUp>>
allVars == <<sessionVars, windowVars, jobs, timers, workers, power, uses, historyVars>>

Generations == 1..MaxGenerations
Ends == {"disconnected", "closed", "refused", "passwordRefused"}

(* The dialog: what its answer starts, whether its channel keys are being  *)
(* read, whether the settings are still those it opened with, and when it  *)
(* opened, which tells it from one that replaces it after an answer.       *)
Prompt(resume) ==
    [resume |-> resume, submitting |-> FALSE, fits |-> TRUE, opened |-> uses]
NoPrompt == [resume |-> "none", submitting |-> FALSE, fits |-> TRUE, opened |-> 0]

(* A read: of the passwords of a reconnect (with the token it was started  *)
(* under and whether a password was refused), of what is saved for a first *)
(* connection, or of the channel keys of a submitted dialog.  History: the *)
(* connection when it was asked for, the dialog.                           *)
Job(kind, token, refused, resume) ==
    [kind |-> kind, token |-> token, refused |-> refused, resume |-> resume,
     fits |-> TRUE, asked |-> generation, dialog |-> prompt.opened]

NoWorker == [state |-> "none", asked |-> {}, reports |-> <<>>]
NewWorker == [NoWorker EXCEPT !.state = "opening"]

Init ==
    /\ irc = 0 /\ activeConfig = FALSE /\ manualDisconnect = FALSE
    /\ starting \in BOOLEAN /\ readingSaved = FALSE /\ asleep = FALSE
    /\ retryPending = FALSE /\ retryToken = 0 /\ generation = 0
    /\ nickPrompt = FALSE /\ prompt = NoPrompt /\ profileFits = TRUE
    /\ jobs = IF starting THEN <<Job("startup", 0, FALSE, "none")>> ELSE <<>>
    /\ timers = {}
    /\ workers = [g \in Generations |-> NoWorker]
    /\ power = "awake" /\ uses = 0
    /\ userEnded = "no" /\ gaveUp = "no"

Used == irc # 0 \/ activeConfig

(* The workers once the session asks its own, if any, to end; a request    *)
(* through a full command queue is lost.                                   *)
Asked(how) ==
    IF irc = 0 THEN workers ELSE [workers EXCEPT ![irc].asked = @ \cup {how}]

-----------------------------------------------------------------------------
(* What the callbacks share. *)

(* Slip: the timer is given the token of before the retry. *)
ScheduleRetryOldToken(token, manual, sleeps, config) ==
    IF manual \/ sleeps \/ ~config
    THEN /\ retryPending' = FALSE
         /\ retryToken' = token
         /\ UNCHANGED timers
    ELSE /\ retryPending' = TRUE
         /\ retryToken' = token + 1
         /\ timers' = timers \cup {token}

(* schedule_retry, when the fields are these; no retry was pending. *)
ScheduleRetry(token, manual, sleeps, config) ==
    IF manual \/ sleeps \/ ~config
    THEN /\ retryPending' = FALSE
         /\ retryToken' = token
         /\ UNCHANGED timers
    ELSE /\ retryPending' = TRUE
         /\ retryToken' = token + 1
         /\ timers' = timers \cup {token + 1}

(* reconnect_with_stored_secrets, begun under this token: the read is      *)
(* queued, unless the settings no longer fit.                              *)
ReadSecrets(queue, token, refused) ==
    /\ retryPending' = FALSE
    /\ retryToken' = token + 1
    /\ IF profileFits
       THEN /\ jobs' = Append(queue, Job("reconnect", token + 1, refused, "none"))
            /\ gaveUp' = "no"
       ELSE /\ jobs' = queue
            /\ gaveUp' = "told"

(* Connection::connect for the next generation: it starts, or the session  *)
(* retries later.                                                          *)
Connect(token, manual) ==
    /\ generation < MaxGenerations
    /\ generation' = generation + 1
    /\ asleep' = FALSE
    /\ gaveUp' = "no"
    /\ \/ /\ irc' = generation + 1
          /\ workers' = [Asked("dropped") EXCEPT ![generation + 1] = NewWorker]
          /\ retryPending' = FALSE /\ retryToken' = token
          /\ UNCHANGED timers
       \/ /\ irc' = 0
          /\ workers' = Asked("dropped")
          /\ ScheduleRetry(token, manual, FALSE, TRUE)

(* start_reconnect_with. *)
StartReconnectWith ==
    /\ Connect(retryToken, manualDisconnect)
    /\ prompt' = NoPrompt
    /\ UNCHANGED <<activeConfig, manualDisconnect, nickPrompt, profileFits, userEnded>>

(* apply_connection, with ServerSession::close: the user's own connect,    *)
(* with settings that are, or are not, still the saved ones.               *)
ApplyConnection(fits) ==
    /\ Connect(retryToken + 1, FALSE)
    /\ activeConfig' = TRUE
    /\ manualDisconnect' = FALSE
    /\ prompt' = NoPrompt
    /\ nickPrompt' = FALSE
    /\ profileFits' = fits
    /\ userEnded' = "no"
   

(* The read leaves the session as it was. *)
LeftAlone ==
    UNCHANGED <<irc, activeConfig, manualDisconnect, asleep, retryPending, retryToken,
                generation, windowVars, timers, workers, historyVars>>

(* connect_fresh: the passwords are asked for, or the connection starts. *)
ConnectFresh ==
    \/ ApplyConnection(TRUE)
    \/ /\ prompt' = Prompt("fresh")
       /\ UNCHANGED <<irc, activeConfig, manualDisconnect, asleep, retryPending,
                      retryToken, generation, nickPrompt, profileFits, timers,
                      workers, historyVars>>

-----------------------------------------------------------------------------
(* The user. *)

Use(op) ==
    /\ op \in Operations
    /\ uses < MaxUses
    /\ uses' = uses + 1

(* Reconnect and Connect in the tree, the toolbar and the menus; offered   *)
(* without a connection only.                                              *)
Reconnect ==
    /\ Use("reconnect")
    /\ irc = 0
    /\ IF activeConfig
       THEN /\ manualDisconnect' = FALSE
            /\ userEnded' = "no"
            /\ ReadSecrets(jobs, retryToken + 1, FALSE)
            /\ UNCHANGED readingSaved
       ELSE /\ ~readingSaved
            /\ readingSaved' = TRUE
            /\ jobs' = Append(jobs, Job("saved", 0, FALSE, "none"))
            /\ UNCHANGED <<manualDisconnect, retryPending, retryToken, historyVars>>
    /\ UNCHANGED <<irc, activeConfig, starting, asleep, generation, windowVars,
                   timers, workers, power>>

(* Connect in the settings window, whose read of the store ends in         *)
(* connect_profile.                                                        *)
ConnectFromSettings ==
    /\ Use("connect")
    /\ jobs' = Append(jobs, Job("settings", 0, FALSE, "none"))
    /\ UNCHANGED <<sessionVars, windowVars, timers, workers, power, historyVars>>

(* What disconnect does, with Connection::disconnect on the worker; that   *)
(* fails on a full queue.                                                  *)
DisconnectSession ==
    /\ manualDisconnect' = TRUE
    /\ asleep' = FALSE
    /\ retryPending' = FALSE
    /\ retryToken' = retryToken + 1
    /\ workers' \in {workers, Asked("disconnect")}
    /\ userEnded' = "disconnect"

Disconnect ==
    /\ Use("disconnect")
    /\ irc # 0 \/ retryPending
    /\ DisconnectSession
    /\ UNCHANGED <<irc, activeConfig, starting, readingSaved, generation, windowVars,
                   jobs, timers, power, gaveUp>>

(* /quit goes to the worker alone; its Closed tells the session. *)
QuitCommand ==
    /\ Use("quit")
    /\ irc # 0
    /\ workers' = Asked("quit")
    /\ UNCHANGED <<sessionVars, windowVars, jobs, timers, power, historyVars>>

(* retry_nickname: NICK on a live connection, a reconnect on a closed one. *)
SubmitNickname ==
    /\ Use("nick")
    /\ nickPrompt
    /\ nickPrompt' = FALSE
    /\ IF irc # 0
       THEN UNCHANGED <<manualDisconnect, retryPending, retryToken, jobs, historyVars>>
       ELSE /\ manualDisconnect' = FALSE
            /\ userEnded' = "no"
            /\ ReadSecrets(jobs, retryToken + 1, FALSE)
    /\ UNCHANGED <<irc, activeConfig, starting, readingSaved, asleep, generation,
                   prompt, profileFits, timers, workers, power>>

CancelNickname ==
    /\ Use("nick")
    /\ nickPrompt
    /\ nickPrompt' = FALSE
    /\ IF irc # 0
       THEN DisconnectSession
       ELSE UNCHANGED <<manualDisconnect, asleep, retryPending, retryToken, workers,
                        userEnded>>
    /\ UNCHANGED <<irc, activeConfig, starting, readingSaved, generation, prompt,
                   profileFits, jobs, timers, power, gaveUp>>

(* submit_credential_prompt: the channel keys are read first. *)
SubmitPrompt ==
    /\ Use("prompt")
    /\ prompt # NoPrompt /\ ~prompt.submitting
    /\ prompt' = [prompt EXCEPT !.submitting = TRUE]
    /\ jobs' = Append(jobs, Job("keys", 0, FALSE,
                                IF prompt.fits THEN prompt.resume ELSE "fresh"))
    /\ UNCHANGED <<sessionVars, nickPrompt, profileFits, timers, workers, power,
                   historyVars>>

(* cancel_credential_prompt. *)
CancelPrompt ==
    /\ Use("prompt")
    /\ prompt # NoPrompt
    /\ prompt' = NoPrompt
    /\ manualDisconnect' = TRUE
    /\ retryPending' = FALSE
    /\ retryToken' = retryToken + 1
    /\ userEnded' = "disconnect"
    /\ UNCHANGED <<irc, activeConfig, starting, readingSaved, asleep, generation,
                   nickPrompt, profileFits, jobs, timers, workers, power, gaveUp>>

(* The server's settings are saved with another host, account or policy.   *)
ChangeSettings ==
    /\ Use("settings")
    /\ profileFits' = FALSE
    /\ prompt' = IF prompt = NoPrompt THEN prompt ELSE [prompt EXCEPT !.fits = FALSE]
    /\ jobs' = [i \in DOMAIN jobs |-> [jobs[i] EXCEPT !.fits = FALSE]]
    /\ UNCHANGED <<sessionVars, nickPrompt, timers, workers, power, historyVars>>

-----------------------------------------------------------------------------
(* Sleep and wake-up. *)

(* Slip: a held retry is not marked for the wake-up. *)
PrepareForSleepForgetting ==
    /\ Use("sleep")
    /\ power = "awake" /\ power' = "sleeping"
    /\ IF manualDisconnect \/ asleep
       THEN UNCHANGED <<asleep, retryPending, retryToken, workers>>
       ELSE IF irc # 0
       THEN asleep' = TRUE /\ workers' = Asked("sleep")
            /\ UNCHANGED <<retryPending, retryToken>>
       ELSE /\ retryPending' = FALSE
            /\ retryToken' = IF retryPending THEN retryToken + 1 ELSE retryToken
            /\ UNCHANGED <<asleep, workers>>
    /\ UNCHANGED <<irc, activeConfig, manualDisconnect, starting, readingSaved,
                   generation, windowVars, jobs, timers, historyVars>>

(* prepare_for_sleep: the connection is asked to end, a retry held back. *)
PrepareForSleep ==
    /\ Use("sleep")
    /\ power = "awake" /\ power' = "sleeping"
    /\ IF manualDisconnect \/ asleep \/ (irc = 0 /\ ~retryPending)
       THEN UNCHANGED <<asleep, retryPending, retryToken, workers>>
       ELSE /\ asleep' = TRUE
            /\ workers' = Asked("sleep")
            /\ IF irc # 0
               THEN UNCHANGED <<retryPending, retryToken>>
               ELSE retryPending' = FALSE /\ retryToken' = retryToken + 1
    /\ UNCHANGED <<irc, activeConfig, manualDisconnect, starting, readingSaved,
                   generation, windowVars, jobs, timers, historyVars>>

(* check_connections_after_wake; the alive check of a connection that was  *)
(* not ended for sleep is Connection's.  Wake-up notices may repeat.       *)
Wake ==
    /\ power = "sleeping" \/ Use("wake")
    /\ power' = "awake"
    /\ power = "sleeping" => UNCHANGED uses
    /\ IF manualDisconnect
       THEN asleep' = FALSE /\ UNCHANGED <<retryPending, retryToken, jobs, gaveUp>>
       ELSE /\ UNCHANGED asleep
            /\ IF asleep
               THEN ReadSecrets(jobs, retryToken + 1, FALSE)
               ELSE UNCHANGED <<retryPending, retryToken, jobs, gaveUp>>
    /\ UNCHANGED <<irc, activeConfig, manualDisconnect, starting, readingSaved,
                   generation, windowVars, timers, workers, userEnded>>

-----------------------------------------------------------------------------
(* Callbacks. *)

(* A retry timer ends; it is due if nothing has happened since. *)
RetryTimer(token) ==
    /\ token \in timers
    /\ timers' = timers \ {token}
    /\ IF retryToken = token /\ ~manualDisconnect /\ ~asleep /\ irc = 0
       THEN ReadSecrets(jobs, retryToken, FALSE)
       ELSE UNCHANGED <<retryPending, retryToken, jobs, gaveUp>>
    /\ UNCHANGED <<irc, activeConfig, manualDisconnect, starting, readingSaved,
                   asleep, generation, windowVars, workers, power, uses, userEnded>>

ReadDone(kind) ==
    /\ jobs # <<>>
    /\ Head(jobs).kind = kind
    /\ UNCHANGED <<power, uses>>

(* Slip: a read that something newer has replaced still counts. *)
AlwaysCurrent(job) == TRUE

(* Whether the attempt the read was for still stands. *)
Current(job) == job.token = retryToken /\ ~manualDisconnect

(* stored_secrets_read: what is missing is asked for, without its key the  *)
(* server is left alone, or the reconnect starts.                          *)
SecretsRead ==
    /\ ReadDone("reconnect")
    /\ jobs' = Tail(jobs)
    /\ UNCHANGED <<starting, readingSaved>>
    /\ \/ /\ Current(Head(jobs)) /\ ~Head(jobs).refused
          /\ StartReconnectWith
       \/ /\ UNCHANGED <<irc, activeConfig, manualDisconnect, asleep, retryPending,
                         retryToken, generation, nickPrompt, profileFits, timers,
                         workers, userEnded>>
          /\ \/ /\ Current(Head(jobs))
                /\ prompt' = Prompt("reconnect")
                /\ UNCHANGED gaveUp
             \/ /\ Current(Head(jobs))
                /\ gaveUp' = "told"
                /\ UNCHANGED prompt
             \/ ~Current(Head(jobs)) /\ UNCHANGED <<prompt, gaveUp>>

(* connect_saved and connect_startup_read: connected by hand meanwhile;    *)
(* read for other settings, so read again; unusable; or connect_fresh.     *)
SavedRead ==
    /\ \E kind \in {"saved", "startup"} : ReadDone(kind)
    /\ starting' = (starting /\ Head(jobs).kind # "startup")
    /\ LET again  == ~Used /\ ~Head(jobs).fits
           reads  == readingSaved /\ Head(jobs).kind # "saved"
       IN  /\ readingSaved' = (again \/ reads)
           /\ jobs' = IF again THEN Append(Tail(jobs), Job("saved", 0, FALSE, "none"))
                               ELSE Tail(jobs)
           /\ \/ LeftAlone
              \/ ~Used /\ ~again /\ ConnectFresh

(* connect_with_stored of the settings window: read again for the form as  *)
(* it is now, unusable, or connect_profile.                                *)
SettingsRead ==
    /\ ReadDone("settings")
    /\ UNCHANGED <<starting, readingSaved>>
    /\ \/ /\ ~Head(jobs).fits
          /\ jobs' = Append(Tail(jobs), Job("settings", 0, FALSE, "none"))
          /\ LeftAlone
       \/ /\ jobs' = Tail(jobs)
          /\ LeftAlone \/ (Head(jobs).fits /\ ConnectFresh)

(* finish_credential_prompt: nothing if the dialog was closed or replaced; *)
(* an error keeps it open.                                                 *)
KeysRead ==
    /\ ReadDone("keys")
    /\ jobs' = Tail(jobs)
    /\ UNCHANGED <<starting, readingSaved>>
    /\ \/ /\ prompt.submitting
          /\ IF Head(jobs).resume = "fresh"
             THEN ApplyConnection(Head(jobs).fits)
             ELSE StartReconnectWith
       \/ /\ prompt' = [prompt EXCEPT !.submitting = FALSE]
          /\ UNCHANGED <<irc, activeConfig, manualDisconnect, asleep, retryPending,
                         retryToken, generation, nickPrompt, profileFits, timers,
                         workers, historyVars>>

-----------------------------------------------------------------------------
(* The event pump of each connection. *)

IsCurrent(g) == g = generation

Report(g) == Head(workers[g].reports)
Took(g) == [workers EXCEPT ![g].reports = Tail(@)]

(* The session keeps no connection; what follows depends on the report. *)
Ended(g, manual) ==
    /\ irc' = 0
    /\ manualDisconnect' = manual
    /\ UNCHANGED <<activeConfig, starting, readingSaved, asleep, generation,
                   windowVars, power, uses>>

HandleRegistered(g) ==
    /\ Report(g) = "registered"
    /\ workers' = Took(g)
    /\ nickPrompt' = FALSE
    /\ prompt' = NoPrompt
    /\ gaveUp' = IF prompt = NoPrompt THEN gaveUp ELSE "dialogClosed"
    /\ UNCHANGED <<sessionVars, profileFits, jobs, timers, power, uses, userEnded>>

HandleNicknameRejected(g) ==
    /\ Report(g) = "nickRejected"
    /\ workers' = Took(g)
    /\ nickPrompt' = TRUE
    /\ UNCHANGED <<sessionVars, prompt, profileFits, jobs, timers, power, uses,
                   historyVars>>

(* Slip: an end for sleep counts as the user's. *)
HandleClosedAsUsers(g) ==
    /\ Report(g) = "closed"
    /\ workers' = [workers EXCEPT ![g] = NoWorker]
    /\ Ended(g, TRUE)
    /\ ScheduleRetry(retryToken, TRUE, asleep, activeConfig)
    /\ userEnded' = IF "quit" \in workers[g].asked THEN "quit" ELSE userEnded
    /\ UNCHANGED <<jobs, gaveUp>>

HandleClosed(g) ==
    /\ Report(g) = "closed"
    /\ workers' = [workers EXCEPT ![g] = NoWorker]
    /\ Ended(g, manualDisconnect \/ ~asleep)
    /\ ScheduleRetry(retryToken, manualDisconnect \/ ~asleep, asleep, activeConfig)
    /\ userEnded' = IF "quit" \in workers[g].asked THEN "quit" ELSE userEnded
    /\ UNCHANGED <<jobs, gaveUp>>

HandleDisconnected(g) ==
    /\ Report(g) = "disconnected"
    /\ workers' = [workers EXCEPT ![g] = NoWorker]
    /\ Ended(g, manualDisconnect)
    /\ ScheduleRetry(retryToken, manualDisconnect, asleep, activeConfig)
    /\ UNCHANGED <<jobs, historyVars>>

(* A refusal no dialog answers is not retried. *)
HandleRefused(g) ==
    /\ Report(g) = "refused"
    /\ workers' = [workers EXCEPT ![g] = NoWorker]
    /\ Ended(g, manualDisconnect)
    /\ gaveUp' = "told"
    /\ UNCHANGED <<retryPending, retryToken, jobs, timers, userEnded>>

(* 464 or SASL: password_refused. *)
HandlePasswordRefused(g) ==
    /\ Report(g) = "passwordRefused"
    /\ workers' = [workers EXCEPT ![g] = NoWorker]
    /\ Ended(g, manualDisconnect)
    /\ ReadSecrets(jobs, retryToken, TRUE)
    /\ UNCHANGED <<timers, userEnded>>

(* The worker ended without a terminal event (Worker::Closed). *)
HandleWorkerClosed(g) ==
    /\ workers[g].state = "ended" /\ workers[g].reports = <<>>
    /\ workers' = [workers EXCEPT ![g] = NoWorker]
    /\ Ended(g, manualDisconnect)
    /\ ScheduleRetry(retryToken, manualDisconnect, asleep, activeConfig)
    /\ UNCHANGED <<jobs, historyVars>>

(* The pump of a replaced connection stops at its next event. *)
StopPump(g) ==
    /\ workers[g].state = "ended" \/ workers[g].reports # <<>>
    /\ workers' = [workers EXCEPT ![g] = NoWorker]
    /\ UNCHANGED <<sessionVars, windowVars, jobs, timers, power, uses, historyVars>>

Pump(g) ==
    IF IsCurrent(g)
    THEN \/ HandleWorkerClosed(g)
         \/ /\ workers[g].reports # <<>>
            /\ \/ HandleRegistered(g) \/ HandleNicknameRejected(g) \/ HandleClosed(g)
               \/ HandleDisconnected(g) \/ HandleRefused(g)
               \/ HandlePasswordRefused(g)
    ELSE StopPump(g)

-----------------------------------------------------------------------------
(* The workers, as Connection.tla has them. *)

WorkerReports(g, state, reports) ==
    /\ workers[g].state \notin {"none", "ended"}
    /\ workers' = [workers EXCEPT ![g].state = state, ![g].reports = @ \o reports]
    /\ UNCHANGED <<sessionVars, windowVars, jobs, timers, power, uses, historyVars>>

Register(g) ==
    /\ workers[g].state = "opening"
    /\ Len(workers[g].reports) < MaxReports
    /\ WorkerReports(g, "registered", <<"registered">>)

RejectNickname(g) ==
    /\ workers[g].state = "opening"
    /\ Len(workers[g].reports) < MaxReports
    /\ WorkerReports(g, "opening", <<"nickRejected">>)

(* Closed needs a request to end, a refusal comes before registration, and *)
(* after a request to sleep the last event may be dropped.                 *)
EndOfWorker(g) ==
    \/ \E end \in Ends :
          /\ end = "closed" => workers[g].asked # {}
          /\ end \in {"refused", "passwordRefused"} => workers[g].state = "opening"
          /\ WorkerReports(g, "ended", <<end>>)
    \/ "sleep" \in workers[g].asked /\ WorkerReports(g, "ended", <<>>)

UserStep ==
    \/ Reconnect \/ ConnectFromSettings \/ Disconnect \/ QuitCommand
    \/ SubmitNickname \/ CancelNickname \/ SubmitPrompt \/ CancelPrompt
    \/ ChangeSettings

StoreStep == SecretsRead \/ SavedRead \/ SettingsRead \/ KeysRead

Next ==
    \/ UserStep
    \/ PrepareForSleep
    \/ Wake
    \/ StoreStep
    \/ \E token \in timers : RetryTimer(token)
    \/ \E g \in Generations :
          Pump(g) \/ Register(g) \/ RejectNickname(g) \/ EndOfWorker(g)

Spec == Init /\ [][Next]_allVars

(* The executor runs every callback, the store answers, timers end.        *)
FairSpec ==
    /\ Spec
    /\ WF_allVars(StoreStep)
    /\ WF_allVars(\E token \in timers : RetryTimer(token))
    /\ WF_allVars(\E g \in Generations : Pump(g))

-----------------------------------------------------------------------------
(* Properties. *)

(* The type invariant; the connection held is that of the last generation. *)
TypeOK ==
    /\ generation \in 0..MaxGenerations /\ irc \in {0, generation}
    /\ {activeConfig, manualDisconnect, starting, readingSaved, asleep, retryPending,
        nickPrompt, profileFits} \subseteq BOOLEAN
    /\ retryToken \in Nat /\ timers \subseteq 0..retryToken
    /\ prompt.resume \in {"none", "fresh", "reconnect"}
    /\ \A i \in DOMAIN jobs :
          jobs[i].kind \in {"reconnect", "saved", "startup", "settings", "keys"}
    /\ \A g \in Generations : workers[g].state # "none" => g <= generation
    /\ power \in {"awake", "sleeping"} /\ uses \in 0..MaxUses
    /\ userEnded \in {"no", "disconnect", "quit"}
    /\ gaveUp \in {"no", "told", "dialogClosed"}

(* A server the user did not end, and that has no connection, is always on *)
(* its way back: a retry whose timer runs, a read that still counts, a     *)
(* dialog, or a sleep to wake from; or the user was told that it is not,   *)
(* or a registration closed the dialog (WakeUpReconnects).                 *)
Returning ==
    \/ retryPending /\ retryToken \in timers
    \/ \E i \in DOMAIN jobs : jobs[i].kind = "reconnect" /\ jobs[i].token = retryToken
    \/ prompt # NoPrompt
    \/ asleep /\ power = "sleeping"
NeverStranded == activeConfig /\ ~manualDisconnect /\ irc = 0 => Returning \/ gaveUp # "no"

(* A reconnect that a timer, a wake-up or a click asked for starts. *)
ReconnectStarts ==
    /\ generation' # generation
    /\ jobs # <<>> /\ Head(jobs).kind = "reconnect" /\ jobs' = Tail(jobs)

(* After Disconnect or Cancel no timer, wake-up or read that was under way *)
(* connects the server, until the user does.                               *)
DisconnectStays == [][ReconnectStarts => userEnded # "disconnect"]_allVars

(* Only the user stops a server for good: neither the end of a replaced    *)
(* connection nor one for sleep, however late it is reported, does.        *)
OnlyUserStops == manualDisconnect => userEnded # "no"

(* A server that lost its connection and was not given up is connected     *)
(* again, or waits for the user, while the machine is awake.               *)
Recovers ==
    activeConfig /\ ~manualDisconnect /\ irc = 0 /\ power = "awake" ~>
        \/ irc # 0 \/ manualDisconnect \/ gaveUp # "no" \/ prompt # NoPrompt
        \/ power = "sleeping" \/ generation = MaxGenerations

(* What prepare_for_sleep says of the sessions it marks: the wake-up       *)
(* reconnects them.  A dialog that the wake-up opened is closed when the   *)
(* connection ended for sleep still reports its registration.              *)
WakeUpReconnects ==
    asleep /\ power = "awake" /\ ~manualDisconnect /\ irc = 0
        => Returning \/ gaveUp = "told"

(* What spec/architecture.md says of a connection the user ended with      *)
(* /quit: the UI never reconnects it.  A sleep notice before its Closed    *)
(* makes the wake-up reconnect it.                                         *)
QuitStays == [][ReconnectStarts => userEnded # "quit"]_allVars

(* What finish_credential_prompt says: nothing happens when the dialog was *)
(* closed or replaced.  The answer of a replaced dialog connects when the  *)
(* one that replaced it is submitted too.                                  *)
KeysStart ==
    /\ generation' # generation
    /\ jobs # <<>> /\ Head(jobs).kind = "keys" /\ jobs' = Tail(jobs)
ReplacedDialogIsSilent == [][KeysStart => Head(jobs).dialog = prompt.opened]_allVars

(* What reconnect_with_stored_secrets says of its read: a newer attempt    *)
(* makes it stale.  The connection of an answered dialog does not.         *)
NewerAttemptStands ==
    [][ReconnectStarts => Head(jobs).asked = generation]_allVars
=============================================================================

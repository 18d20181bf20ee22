---------------------------- MODULE CredentialMove ----------------------------
(***************************************************************************)
(* Secrets and the store they are in: the one thread that reads and        *)
(* writes the store (crates/ui/secrets.rs), the move of every secret to    *)
(* the other store (account_settings.rs, crates/storage/credentials.rs),   *)
(* the settings file that names the store in use and notes which secrets   *)
(* are saved, the windows that queue the jobs and write the notes from     *)
(* their answers, and a process that ends at any moment and starts again.  *)
(*                                                                         *)
(* The window and the store thread both read the settings file, change     *)
(* their copy and write it back.  Each of these is two steps here.         *)
(***************************************************************************)
EXTENDS SecretBackends, Sequences

CONSTANTS
    Systems,       \* what the system's store may be: "entries", "vault"
    Faults,        \* the underlying calls that may fail
    MaxWrites,     \* bound: secrets saved and deleted
    MaxMoves,      \* bound: moves asked for
    MaxFaults,     \* bound: failing operations
    MaxStarts      \* bound: restarts

Choices == {"system", "local_file"}

ASSUME CredentialMoveAssumption ==
    /\ Systems \subseteq {"entries", "vault"}
    /\ Faults \subseteq Failures \union {"unavailable", "load", "save"}
    /\ MaxWrites \in Nat /\ MaxMoves \in Nat /\ MaxFaults \in Nat /\ MaxStarts \in Nat

VARIABLES
    stores,      \* what each choice of the user holds
    file,        \* the settings file: the choice, and the secrets noted as saved
    running,     \* the process runs
    current,     \* Worker.current
    queue,       \* jobs for the store thread
    move,        \* how far the store thread is with a move
    answers,     \* results on their way to the windows
    window,      \* notes of the chat window, results the settings window waits for
    edited,      \* the file as a window read it, with its notes, not written
                 \* yet, and whether it is the settings window that writes it
    saved,       \* history: the secrets as the store's answers tell the user
    lostUpdate,  \* history: a file written from a copy read before another save
    writes, moves, faults, starts

procVars == <<running, current, queue, move, answers, window, edited>>
bounds == <<writes, moves, starts>>
vars == <<stores, file, procVars, saved, lostUpdate, bounds, faults>>

Other(kind) == CHOOSE c \in Choices : c # kind
NoFile == [kind |-> "none", noted |-> {}]
NotEdited == [file |-> NoFile, form |-> FALSE]

Unknown == -1

AtRest == [at |-> "rest", kind |-> "none", todo |-> {}, found |-> NoSecrets,
           copied |-> {}, unavailable |-> FALSE, read |-> NoFile]

Window(noted) == [noted |-> noted, pending |-> FALSE, waits |-> 0]

Job(op, key, value, form) == [op |-> op, key |-> key, value |-> value, form |-> form]
AnyKey == CHOOSE k \in Keys : TRUE
MoveTo(kind, keys) ==
    [op |-> kind, key |-> AnyKey, value |-> None, form |-> TRUE, keys |-> keys]

TypeOK ==
    /\ stores \in [Choices -> Stores]
    /\ file.kind \in Choices /\ file.noted \subseteq Keys
    /\ running \in BOOLEAN /\ current \in Choices
    /\ move.at \in {"rest", "read", "copy", "reload", "save", "undo", "originals"}
    /\ move.todo \subseteq Keys /\ move.copied \subseteq Keys
    /\ window.waits \in Nat
    /\ saved \in [Keys -> Values \union {None, Unknown}]

(* A profile with some secrets saved and noted; an earlier version may have *)
(* left them in separate entries of the system's store.                    *)
Init ==
    \E kind \in Choices, system \in Systems, before \in Secrets, old \in BOOLEAN :
        LET separately == old /\ kind = "system" /\ system = "vault"
            noted == {k \in Keys : before[k] # None}
            Empty(c) == [kind |-> IF c = "system" THEN system ELSE c,
                         item |-> NoSecrets, separate |-> NoSecrets,
                         cache |-> NothingRead, checked |-> {}]
        IN  /\ stores = [c \in Choices |->
                            IF c # kind THEN Empty(c)
                            ELSE IF separately THEN [Empty(c) EXCEPT !.separate = before]
                            ELSE [Empty(c) EXCEPT !.item = before]]
            /\ file = [kind |-> kind, noted |-> noted]
            /\ running = TRUE
            /\ current = kind
            /\ queue = <<>>
            /\ move = AtRest
            /\ answers = <<>>
            /\ window = Window(noted)
            /\ edited = NotEdited
            /\ saved = before
            /\ lostUpdate = FALSE
            /\ writes = 0 /\ moves = 0 /\ faults = 0 /\ starts = 0

(* Which of the calls of a step fail.                                      *)
Failing(calls, fails) ==
    /\ fails = {} \/ (faults < MaxFaults /\ fails \subseteq calls \intersect Faults
                      /\ \E f \in calls : fails = {f})
    /\ faults' = IF fails = {} THEN faults ELSE faults + 1
StoreCalls == {{}} \union {{f} : f \in Failures}

-----------------------------------------------------------------------------
(* The windows, on the UI thread.                                          *)

UiFree == running /\ edited = NotEdited

(* key_join_succeeded, save_prompted_secrets: the chat window queues the    *)
(* write of a key that worked or of a password typed; store_credential and *)
(* delete_credential: the settings window does, and waits for the result.  *)
Queue(job) ==
    /\ UiFree /\ writes < MaxWrites
    /\ queue' = Append(queue, job)
    /\ window' = [window EXCEPT !.waits = IF job.form THEN @ + 1 ELSE @]
    /\ writes' = writes + 1
    /\ UNCHANGED <<stores, file, running, current, move, answers, edited, saved,
                   lostUpdate, moves, faults, starts>>

SaveSecret == \E k \in Keys, v \in Values : Queue(Job("set", k, v, FALSE))
SaveInForm == \E k \in Passwords, v \in Values : Queue(Job("set", k, v, TRUE))
ForgetKey == \E k \in ChannelKeys : Queue(Job("delete", k, None, FALSE))
DeleteInForm == \E k \in Passwords : Queue(Job("delete", k, None, TRUE))

(* switch_credential_backend: not while the settings window waits for a    *)
(* result.  The choice may be one made before the last move, and the notes *)
(* of the form those of an earlier time.                                   *)
SwitchBackend(kind) ==
    /\ UiFree /\ moves < MaxMoves
    /\ window.waits = 0
    /\ \E keys \in SUBSET (window.noted \intersect ChannelKeys) :
          queue' = Append(queue, MoveTo(kind, keys))
    /\ window' = [window EXCEPT !.waits = @ + 1]
    /\ moves' = moves + 1
    /\ UNCHANGED <<stores, file, running, current, move, answers, edited, saved,
                   lostUpdate, writes, faults, starts>>

(* key_store_written takes a result only if no later write of the channel  *)
(* was queued: the revision it carries is then the last one.               *)
Latest(a) ==
    /\ \A i \in 1..Len(queue) : queue[i].op \in {"set", "delete"} => queue[i].key # a.key
    /\ \A i \in 2..Len(answers) :
          answers[i].op \in {"set", "delete"} => answers[i].key # a.key
Noting(a) ==
    /\ a.op \in {"set", "delete"} /\ a.ok
    /\ a.form \/ a.key \in Passwords \/ Latest(a)

NotedWith(noted, a) == IF a.op = "set" THEN noted \union {a.key} ELSE noted \ {a.key}

(* A result that is noted: the window corrects its own notes and reads the *)
(* settings file (write_pending_notes, credential_done), which may fail.   *)
ReadFile ==
    /\ UiFree /\ answers # <<>> /\ Noting(answers[1])
    /\ \E fails \in {{}, {"load"}} :
        LET a == answers[1]
            noted == NotedWith(window.noted, a)
        IN  /\ Failing({"load"}, fails)
            /\ answers' = Tail(answers)
            /\ window' = [noted |-> noted,
                          pending |-> window.pending
                                      \/ (~a.form /\ noted # window.noted),
                          waits |-> IF a.form THEN window.waits - 1 ELSE window.waits]
            /\ edited' = IF fails # {} THEN NotEdited
                         ELSE [file |-> [file EXCEPT !.noted =
                                            IF a.form THEN NotedWith(@, a)
                                            ELSE IF window'.pending THEN noted ELSE @],
                               form |-> a.form]
    /\ UNCHANGED <<stores, file, running, current, queue, move, saved, lostUpdate, bounds>>

(* The settings window's own notes leave those of the chat window pending. *)
EndWriting(ok) ==
    /\ edited' = NotEdited
    /\ window' = [window EXCEPT !.pending = @ /\ (edited.form \/ ~ok)]

(* ... and writes it back, which may fail too.                             *)
WriteFile ==
    /\ running /\ edited # NotEdited
    /\ \E fails \in {{}, {"save"}} :
        /\ Failing({"save"}, fails)
        /\ EndWriting(fails = {})
        /\ IF fails # {} THEN UNCHANGED <<file, lostUpdate>>
           ELSE /\ file' = edited.file
                /\ lostUpdate' = (lostUpdate \/ file.kind # edited.file.kind)
    /\ UNCHANGED <<stores, running, current, queue, move, answers, saved, bounds>>

(* Mutant: only a result that is an error ends a wait.                     *)
TakeAnswer_ErrorsOnly ==
    /\ UiFree /\ answers # <<>> /\ ~Noting(answers[1])
    /\ answers' = Tail(answers)
    /\ window' = [window EXCEPT !.waits =
                     IF answers[1].form /\ ~answers[1].ok THEN @ - 1 ELSE @]
    /\ UNCHANGED <<stores, file, running, current, queue, move, edited, saved,
                   lostUpdate, bounds, faults>>

(* Every other result: a move's, a failure, one a later write overtook.     *)
TakeAnswer ==
    /\ UiFree /\ answers # <<>> /\ ~Noting(answers[1])
    /\ answers' = Tail(answers)
    /\ window' = [window EXCEPT !.waits = IF answers[1].form THEN @ - 1 ELSE @]
    /\ UNCHANGED <<stores, file, running, current, queue, move, edited, saved,
                   lostUpdate, bounds, faults>>

-----------------------------------------------------------------------------
(* The store thread.                                                       *)

Reply(job, ok) == Append(answers, [op |-> job.op, key |-> job.key, form |-> job.form, ok |-> ok])
ThreadFree == running /\ move = AtRest /\ queue # <<>>

RunWrite ==
    /\ ThreadFree /\ queue[1].op \in {"set", "delete"}
    /\ \E fails \in StoreCalls :
        LET job == queue[1]
            done == IF job.op = "set" THEN Set(stores[current], job.key, job.value, fails)
                    ELSE Delete(stores[current], job.key, fails)
        IN  /\ Failing(Failures, fails)
            /\ stores' = [stores EXCEPT ![current] = done.store]
            \* A refused deletion may have been done, as the vault's is when
            \* only the separate entry stays.
            /\ saved' = IF done.error = "" THEN [saved EXCEPT ![job.key] = job.value]
                        ELSE IF job.op = "set" THEN saved
                        ELSE [saved EXCEPT ![job.key] = Unknown]
            /\ answers' = Reply(job, done.error = "")
    /\ queue' = Tail(queue)
    /\ UNCHANGED <<file, running, current, move, window, edited, lostUpdate, bounds>>

(* Mutant: the store is switched when the move has failed, too.            *)
EndMove_Switches(ok) ==
    /\ move' = AtRest
    /\ queue' = Tail(queue)
    /\ answers' = Reply(queue[1], ok)
    /\ current' = queue[1].op

(* The job of a move is over; the store it moved to is the current one.    *)
EndMove(ok) ==
    /\ move' = AtRest
    /\ queue' = Tail(queue)
    /\ answers' = Reply(queue[1], ok)
    /\ current' = IF ok THEN queue[1].op ELSE current

From == stores[current]
To == stores[move.kind]

(* move_secrets: nothing for the store in use; else the keys of the move   *)
(* come from the form and from the settings file.                          *)
StartMove ==
    /\ ThreadFree /\ queue[1].op \in Choices
    /\ \E fails \in {{}, {"load"}} :
        /\ Failing({"load"}, fails)
        /\ IF queue[1].op = current \/ fails # {}
           THEN EndMove(queue[1].op = current)
           ELSE /\ move' = [AtRest EXCEPT !.at = "read", !.kind = queue[1].op,
                                          !.todo = Passwords \union queue[1].keys
                                                                     \union file.noted]
                /\ UNCHANGED <<queue, answers, current>>
    /\ UNCHANGED <<stores, file, running, window, edited, saved, lostUpdate, bounds>>

(* copy_secrets reads all secrets first.  A source that is unavailable     *)
(* leaves nothing to copy, one that refuses ends the move.                 *)
ReadOriginal(k) ==
    /\ running /\ move.at = "read" /\ k \in move.todo
    /\ \E fails \in StoreCalls \union {{"unavailable"}} :
        LET got == Get(From, k, fails)
            unavailable == fails = {"unavailable"} /\ Get(From, k, {"read"}).error # ""
        IN  /\ Failing(Failures \union {"unavailable"}, fails)
            /\ fails = {"unavailable"} => unavailable
            /\ IF unavailable
               THEN /\ move' = [move EXCEPT !.at = "reload", !.todo = {},
                                            !.found = NoSecrets, !.unavailable = TRUE]
                    /\ UNCHANGED <<stores, queue, answers, current>>
               ELSE /\ stores' = [stores EXCEPT ![current] = got.store]
                    /\ IF got.error # "" THEN EndMove(FALSE)
                       ELSE /\ move' = [move EXCEPT !.todo = @ \ {k}, !.found[k] = got.value]
                            /\ UNCHANGED <<queue, answers, current>>
    /\ UNCHANGED <<file, running, window, edited, saved, lostUpdate, bounds>>

StartCopy ==
    /\ running /\ move.at = "read" /\ move.todo = {}
    /\ move' = [move EXCEPT !.at = "copy", !.todo = {k \in Keys : move.found[k] # None}]
    /\ UNCHANGED <<stores, file, running, current, queue, answers, window, edited, saved,
                   lostUpdate, bounds, faults>>

(* Mutant: a copy that failed counts as made.                              *)
CopySecret_PassedOver(k) ==
    /\ running /\ move.at = "copy" /\ k \in move.todo
    /\ \E fails \in StoreCalls :
        LET done == Set(To, k, move.found[k], fails)
        IN  /\ Failing(Failures, fails)
            /\ stores' = [stores EXCEPT ![move.kind] = done.store]
            /\ move' = [move EXCEPT !.todo = @ \ {k}, !.copied = @ \union {k}]
    /\ UNCHANGED <<file, running, current, queue, answers, window, edited, saved,
                   lostUpdate, bounds>>

CopySecret(k) ==
    /\ running /\ move.at = "copy" /\ k \in move.todo
    /\ \E fails \in StoreCalls :
        LET done == Set(To, k, move.found[k], fails)
        IN  /\ Failing(Failures, fails)
            /\ stores' = [stores EXCEPT ![move.kind] = done.store]
            /\ move' = IF done.error = ""
                       THEN [move EXCEPT !.todo = @ \ {k}, !.copied = @ \union {k}]
                       ELSE [move EXCEPT !.at = "undo", !.todo = move.copied]
    /\ UNCHANGED <<file, running, current, queue, answers, window, edited, saved,
                   lostUpdate, bounds>>

(* The file is read again after the copy ...                               *)
ReloadFile ==
    /\ running /\ move.todo = {} /\ move.at \in {"copy", "reload"}
    /\ \E fails \in {{}, {"load"}} :
        /\ Failing({"load"}, fails)
        /\ IF fails # {} THEN EndMove(FALSE)
           ELSE /\ move' = [move EXCEPT !.at = "save",
                                        !.read = [file EXCEPT !.kind = move.kind]]
                /\ UNCHANGED <<queue, answers, current>>
    /\ UNCHANGED <<stores, file, running, window, edited, saved, lostUpdate, bounds>>

(* When the user is told that the old store could not be read, what is     *)
(* saved is what the new one has.                                          *)
EndRecording(ok) ==
    /\ move' = [move EXCEPT !.at = IF ok THEN "originals" ELSE "undo", !.todo = move.copied]
    /\ saved' = IF ok /\ move.unavailable THEN [k \in Keys |-> Seen(To, k)] ELSE saved

(* ... and written at once with the new choice.                            *)
RecordChoice ==
    /\ running /\ move.at = "save"
    /\ \E fails \in {{}, {"save"}} :
        /\ Failing({"save"}, fails)
        /\ EndRecording(fails = {})
        /\ IF fails # {} THEN UNCHANGED <<file, lostUpdate>>
           ELSE /\ file' = move.read
                /\ lostUpdate' = (lostUpdate \/ move.read.noted # file.noted)
    /\ UNCHANGED <<stores, running, current, queue, answers, window, edited, bounds>>

(* private_file::write names its temporary file after the process and      *)
(* removes the one that is there: when both threads save, each may rename  *)
(* or remove the other's, and what a save answers says nothing of what is  *)
(* in the file, only that one of them got there when one answers Ok.       *)
SaveTogether ==
    /\ running /\ move.at = "save" /\ edited # NotEdited
    /\ \E recorded, written \in BOOLEAN :
        /\ EndRecording(recorded) /\ EndWriting(written)
        /\ file' \in IF recorded \/ written THEN {move.read, edited.file} ELSE {file}
    /\ lostUpdate' = TRUE
    /\ UNCHANGED <<stores, running, current, queue, answers, bounds, faults>>

(* Copied::remove_copies and remove_originals: errors are ignored.          *)
RemoveSecret(k) ==
    /\ running /\ move.at \in {"undo", "originals"} /\ k \in move.todo
    /\ \E fails \in StoreCalls :
        LET c == IF move.at = "undo" THEN move.kind ELSE current
        IN  /\ Failing(Failures, fails)
            /\ stores' = [stores EXCEPT ![c] = Delete(stores[c], k, fails).store]
    /\ move' = [move EXCEPT !.todo = @ \ {k}]
    /\ UNCHANGED <<file, running, current, queue, answers, window, edited, saved,
                   lostUpdate, bounds>>

FinishMove ==
    /\ running /\ move.at \in {"undo", "originals"} /\ move.todo = {}
    /\ EndMove(move.at = "originals")
    /\ UNCHANGED <<stores, file, running, window, edited, saved, lostUpdate, bounds, faults>>

-----------------------------------------------------------------------------
(* The process ends: a crash, or a quit whose flush of the store thread    *)
(* took longer than its limit.                                             *)
Stop ==
    /\ running /\ starts < MaxStarts
    /\ running' = FALSE
    /\ queue' = <<>> /\ answers' = <<>> /\ move' = AtRest /\ edited' = NotEdited
    /\ window' = Window({})
    /\ UNCHANGED <<stores, file, current, saved, lostUpdate, bounds, faults>>

(* main: the store is the one the settings file names.                     *)
Start ==
    /\ ~running
    /\ running' = TRUE
    /\ starts' = starts + 1
    /\ current' = file.kind
    /\ window' = Window(file.noted)
    /\ stores' = [c \in Choices |-> Opened(stores[c])]
    /\ UNCHANGED <<file, queue, move, answers, edited, saved, lostUpdate, writes, moves, faults>>

UserStep == SaveSecret \/ SaveInForm \/ ForgetKey \/ DeleteInForm
            \/ \E kind \in Choices : SwitchBackend(kind)
WindowStep == ReadFile \/ WriteFile \/ TakeAnswer
ThreadStep == \/ RunWrite \/ StartMove \/ StartCopy \/ ReloadFile \/ RecordChoice \/ FinishMove
              \/ \E k \in Keys : ReadOriginal(k) \/ CopySecret(k) \/ RemoveSecret(k)

Next == UserStep \/ WindowStep \/ ThreadStep \/ SaveTogether \/ Stop \/ Start

(* The store thread and the UI thread go on while the process runs.  The   *)
(* system's store answers in the end, a permission dialog included.        *)
Spec == Init /\ [][Next]_vars /\ WF_vars(ThreadStep) /\ WF_vars(WindowStep)

-----------------------------------------------------------------------------
(* Whatever moment the process ends at, a password the store has confirmed *)
(* is in the store that the settings file names, as it was saved last: the *)
(* order copy, record, delete of move_secrets.  Two writers of the file    *)
(* that overlap are excepted: the later one puts the old choice back.      *)
SecretsSurvive ==
    \A k \in Passwords :
        ~lostUpdate /\ saved[k] \in Values => Kept(stores[file.kind], k) = saved[k]

(* Between its jobs the store thread finds every confirmed password in the *)
(* store it uses, whatever failed in the writes and moves before.          *)
SecretsInUse ==
    \A k \in Passwords :
        running /\ move = AtRest /\ ~lostUpdate /\ saved[k] \in Values
        => Seen(stores[current], k) = saved[k]

(* Between its jobs the store in use is the one that the settings file     *)
(* names, after a move that failed half way as after one that succeeded.   *)
ChoiceAgrees == running /\ move = AtRest /\ ~lostUpdate => file.kind = current

(* The settings window's wait for a result ends: a move or a write it has  *)
(* queued is answered, whatever fails on the way.                          *)
WaitsEnd == window.waits > 0 ~> window.waits = 0

(* "a password saved or removed while it runs is queued before it (and     *)
(* copied) or after it (and goes to the new store), never in between"      *)
(* (account_settings.rs:152): a channel key too is found in the store in   *)
(* use, once every job is done and noted.                                  *)
KeysMoveToo ==
    \A k \in ChannelKeys :
        /\ running /\ move = AtRest /\ queue = <<>> /\ answers = <<>> /\ edited = NotEdited
        /\ saved[k] \in Values
        => Seen(stores[current], k) = saved[k]

(* "Saving now could write the old value back, so the save waits until the *)
(* store thread is done" (settings_window.rs:2068-2071): only a move       *)
(* changes the choice that the settings file records.                      *)
OnlyMovesChoose == [][file'.kind # file.kind => move.at = "save"]_vars

(* "Removes the secret" (credentials.rs:186): what the store has confirmed *)
(* as deleted is not there for the next process.                           *)
DeletedIsGone ==
    \A k \in Keys :
        ~lostUpdate /\ saved[k] = None => Kept(stores[file.kind], k) = None

=============================================================================

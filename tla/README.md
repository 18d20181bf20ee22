# CayenChat in TLA+

CayenChat (`src/README.md`) is an IRC desktop client in Rust. A window on one UI
thread talks to one tokio task per server connection, through queues, and to a
thread that reads secrets; servers, users, machine sleep and lost links do the
rest. This directory models the part of it that is hard to test: the order in
which these things happen.

## The system

| component (crate) | state it keeps | operations | talks to |
|---|---|---|---|
| Connection worker and handle (`irc-core/lib.rs`) | command and event queues, quit signal, held commands of an alive check, paced lines and their burst, deadlines, a remembered refusal | every call of `Connection`, every branch of the worker's select loop | UI by two bounded queues, server by the link |
| Capability negotiation, SASL (`cap.rs`, `sasl.rs`) | offered, pending, enabled capabilities; phase; exchange | `start`, `observe`, `registered` | server; the worker carries its lines |
| Operator regain (`regain.rs`, `chanmodes.rs`) | per channel: roster facts, an attempt and what to put back | events in, steps out, a poll when due | worker, server |
| Server session (`ui/main.rs`, `session.rs`, `connect_auth.rs`, `secrets.rs`) | connection handle, generation, retry token and flags, asleep and manual-disconnect marks, dialogs | connect, reconnect, disconnect, `/quit`, timers, dialogs, sleep, wake-up, event pump | workers, secrets thread, OS |
| Sleep watch (`ui/wake.rs`) | - | sleep and wake-up notices, possibly only one of them | session |
| Channel history (`history.rs`, `app/lib.rs`) | one outstanding request and a queue, abandoned requests, open batches; per channel the log, its duplicate filter, held lines, the older page asked for | join, resume, older page, reply, failure, timeout, CAP NEW and DEL, disconnect | worker, server, window |
| Confirmed sending (`echo.rs`, `ui/main.rs`, `conversation_log.rs`) | pending messages with labels and texts, label batches; lines that wait, records held for the log | send, echo, ACK, error, expiry, reset | worker, server, window, log |
| Presence, rosters, accounts (`presence.rs`, `accounts.rs`, `irc-core/lib.rs`) | the library's lists, published roles, renamed roles, a two-way index, accounts, one WHO query and its queue | JOIN, PART, KICK, QUIT, NICK, MODE, ACCOUNT, NAMES, WHO | library, server, window |
| Credential store (`credentials.rs`, `ui/secrets.rs`, `account_settings.rs`) | three kinds of store with caches; jobs; the move in progress; the settings file's choice and notes | get, set, delete, move, note, restart | system store, settings file, two windows |
| Application state (`app`) | conversations, logs, duplicate filter, unread, rosters | events of every worker | UI |
| Metadata, CTCP avatars (`irc-core`) | subscriptions, lookups | lines in, commands out | worker |
| Other storage (`storage`) | settings, layout, order, logs | write and rename, append | UI, a writer thread |
| Media, upload (`media`, `upload`) | bounded record of loads, one attachment flow | request, done, failed | UI, background jobs |
| Model, widgets (`model`, `ui`) | types, forms, drawing | - | - |

Hard behaviours: two bounded queues that can both be full; events of a worker
that was already replaced; answers of reads, dialogs and timers that come late;
sleep and wake-up without any order between them and the network; capability
lines that cross; echoes of our own commands that look alike; a link that is
dead and does not say so; replies that come after their timeout, or about people
who have left and whose nickname somebody else took; a settings file that two
threads read, change and write.

What makes the components correct:

- worker: every accepted message is written once, or refused, in order; limits
  are kept; nothing is written to a link whose life is in doubt; exactly one
  last word to the UI, and the right one; it always ends when told to;
- negotiation: only what was granted and has what it needs is enabled; nobody
  registers unauthenticated who has credentials; it ends;
- regain: never more attempts than earned, never against the user, never a
  false "regained"; every attempt ends;
- session: a server comes back unless the user ended it; what the user ended
  stays ended; only the user ends;
- history: each older page ends exactly once; what was missed while disconnected
  is in the log or the log says that something is missing;
- confirmed sending: each line settles, is not shown twice, and is neither shown
  nor logged as said unless it was delivered;
- rosters: a presence, a role, an account and a chosen member stay with the person
  they are about, through every change of nickname and every late reply;
- credentials: no confirmed secret is lost by a move that fails or is cut short,
  and the store in use is the one the next start opens.

## Modules

| module | models | extends or uses |
|---|---|---|
| `OrderedDelivery` | what a connection promises: accepted messages are delivered at most once and in order until it closes | |
| `Connection` | handle, queues, worker, link and the UI's event pump | instantiates `OrderedDelivery` |
| `CapNegotiation` | negotiation, SASL and a server that may offer, reject, withdraw | |
| `OpRegain` | regain, known flags, server, user, one other | |
| `Session` | one session, its workers' ends, store reads, dialogs, timers, sleep | |
| `HistoryRequests` | the methods of `HistoryRequests` as operators on its value | |
| `Timeline` | what `AppState` keeps for a channel's log, as operators | |
| `ChannelHistory` | window, worker, link and server around the two | extends both |
| `ConfirmedSending` | worker, window, log, server and another client of the same nickname | |
| `SecretBackends` | the three kinds of store, as operators with failing calls | |
| `CredentialMove` | store thread, two windows, settings file, process that ends and starts | extends `SecretBackends` |
| `PresenceIndex`, `UserAccounts` | `presence.rs` and `accounts.rs` as operators | |
| `Rosters` | server with its people, library, worker, window | instantiates both |
| `MC...` | instances for TLC | the module named |
| `ConnectionProofs` | type correctness of `Connection`, its safety theorems, what becomes of accepted messages, the refinement of `OrderedDelivery`, and that an end is reported | `Connection`, TLAPS |
| `CapNegotiationProofs` | safety of the negotiation | `CapNegotiation`, TLAPS |
| `OpRegainProofs` | attempts are earned, what the user left stays left | `OpRegain`, TLAPS |
| `SessionProofs` | safety of the session, for any number of generations | `Session`, TLAPS |
| `CredentialMoveProofs` | passwords through moves, failures and restarts | `CredentialMove`, TLAPS |
| `ConfirmedSendingProofs` | what is waited for and shown of own messages is true | `ConfirmedSending`, TLAPS |
| `RostersLemmas` | the folds over sets and sequences; the index of presences stays consistent; what each operation of the index, the accounts and the worker gives | `Rosters`, TLAPS |
| `RostersProofs` | presences, roles, the window's mirror and its chosen member stay with the people they are about | `RostersLemmas` |

### Connection

One action is one turn of a task: a call of the handle (`SendMessage`,
`SendLines`, `SendCommand`, `CheckAlive`, `Disconnect`, `Shutdown`, `Sleep`,
dropping it), a branch of the `select!` of `run_cancellable`, or one `await`
inside a branch. Where the code awaits room in the event queue, the reports
still to be given are in `out` and the worker takes no other step until `Emit`
has passed them on; that is what lets a full queue block it, and what
`EventSender::send` avoids once a quit was requested. `pc` says where the worker
is: resolving, opening, running, flushing the held commands, draining after
QUIT, ended. Messages are numbers in the order in which they were accepted.
`linkDead` is the environment's: the link is gone but reads do not fail.
`checkedDead` records that a check began on such a link. Time is abstracted: a
deadline may pass whenever it is set. Every other command of the handle is the
kind `other`, which writes one line without a number.

### CapNegotiation

`toServer` and `toClient` are the link; the server answers each request on a
line of its own, in order, and may at any time withdraw (`Withdraw`) or offer
(`Offer`) a capability, at most `MaxChanges` times. It may also not know CAP at
all. Capabilities without a rule of their own are represented by those the
options of the instance want. One challenge stands for the rounds of PLAIN,
SCRAM and ECDSA. `ReceiveWelcome` ends a negotiation the server ended. A
server that withdraws `sasl` while the exchange runs leaves the client waiting;
the worker's registration timeout ends that, so `NegotiationEnds` names this
case (`saslWithdrawn`) as an exception.

### OpRegain

`channel[c]` is the `Channel` record with its stage, `known[c]` the flags that
`ChannelModes` holds, `toServer` and `toClient` the two directions of the link.
`Receive` takes one line through `Worker::deliver`; `PollWith` is a poll at an
instant at which some set of channels is due and the worker is ready or not.
The server drops a channel with its last member, makes the one who creates it
operator or does not, refuses or ignores JOINs, and tells rosters and topics
as they are when it answers. `credit` counts the attempts a channel has earned:
one for each JOIN the user sent and each time we became operator.
`SlowServer = FALSE` assumes that a server answers a user's PART before the five
seconds of `STABLE` pass; without it a long behaviour of two joins, a PART and a
kick breaks `UserLeaveStays` (a hazard in PROJECT.json). `before` is the channel as
it was when the attempt began; `RegainedRestoresAll` is about attempts that begin
with nothing of the channel on its way to us and no PART of ours (`Quiet`), as a
line on its way tells of a change the program could not put back. Topics are none, one
that can be put back and one too long; flags are set or not.

### Session

The state of a `ServerSession` and the two dialogs, one worker per generation
with what it still will report, the secrets thread's queue of reads, and the
live timers by token. Each UI callback is one action, since the UI thread runs
them to completion. A worker's own behaviour is reduced to what `Connection`
shows of it: registered or not, asked to end or not, at most one last event,
which is what `TerminalEventIsLast`, `EndIsReported` and `ClosedOnlyWhenAsked`
establish there. `userEnded` and `gaveUp` are history variables.

### History

Lines of a channel are numbered in the order in which the server has them and
carry a msgid and a time, so a reference is a line's number. `HistoryRequests`
has one operator for each method (`ask`, `observe` of a batch, its close, a
failure, `tick`, `forget`, `reset`), `Timeline` one for each call of `AppState`
that changes the log of a channel. `ChannelHistory` joins them by four queues
and adds a server that replies late, in any order of lines, partly, with FAIL,
or not at all; members that speak; kicks, JOIN and PART; CAP DEL and NEW; a lost
link and a new connection. A batch's reference is the number of its request.
`gaveUp` marks channels whose missed lines nobody asks for any more, where the
code does so: the capability is missing or a page is under way when the link is
lost, the channel was left, the latest lines are asked for instead, or the request
failed.
Left out: references a server sent that cannot be used as a selector
(`history.rs:462`), trimming the log at 2,000 lines and the filter at 512 keys, nested
batches, TARGETS and private conversations, servers that send more than asked.

### Confirmed sending

`of` on lines and events tells the model which message they are about; the code
has no such mark and the properties alone read it. `Send` is a command taken by
the worker (the command queue is `Connection`'s), `Receive` one line through
`Echoes::observe` and the CAP handling, `Expire` the timer of the oldest pending
message, `HandleEvent` the window. The server delivers, rewrites, refuses or
acknowledges, inside a batch or not, with the label or not, and may withdraw or
offer either capability. Abstracted: message kinds (ACTION, notice), redacted
credentials and closing a conversation. With two messages the table of
`MAX_PENDING` fills but is not passed, so a message that is not tracked because
of it is not reached; one sent between the request and the grant of echo-message
is shown twice and `NeverTwice` excepts it by looking at tracked lines only.

### Credentials

`SecretBackends` gives each operation of the plain file, the separate entries
and the vault, as a function of the store and the underlying calls that fail.
`CredentialMove` has the store thread (`ThreadStep`: one job, or one stage of a
move: copy each secret, record the choice, delete the originals), the windows
(`WindowStep`), and `Stop` and `Start` of the process at any moment. Reading and
writing the settings file are two steps each, on the UI thread and on the store
thread; `lostUpdate` is set when one overwrites what the other wrote in between,
and the properties that would follow from that single cause except it, as a
finding shows it by itself. When both write at once (`SaveTogether`), they share one
temporary name (`private_file.rs:34`): either content may be what lands, with any
pair of answers, and `lostUpdate` is set too. A refused delete leaves the user's
expectation unknown. `pending` are the notes of the chat window that its own write
alone clears. The keys of a move are those of the settings file and of the form,
whose notes may be older. One profile, one password, one channel key. A job writes
one secret: `write_marked_passwords`, which writes two up to the first failure, is
two jobs here. The settings window's own save, which waits for the store thread, is
left out. A file is replaced whole: half of a file in place, while two writers share
the name, is not modelled, and what a power loss does to a rename is the file
system's.

### Rosters

People are known to the model and nicknames to the program. Each line carries
`at`, the server's truth when it sent it; `ghost` remembers what the lines told,
for the properties. `Deliver` is one line through the library (`Listed`) and
`Worker::deliver` in the code's order: accounts, then the tracker, then the
published rosters with the accounts they forget, then the next WHO. `out` is the
order of our commands to the server, which may let other lines come between those
of a WHO reply (`chunks`). A PART we send drops the library's list at once, as it
does in the code, whether it has one yet or not. The window takes everything queued as one batch. A presence's
number is reused when it is free. Left out: our own nickname, case mapping
changes, the limits on users and queued channels, real names beyond known or not,
multi-prefix (a NAMES line gives the highest role only), avatars' use of presence.

## Runs

Deadlock is not checked in any run: a worker ends, a negotiation is over, a
bounded user has nothing left to do.

| run | shows | bounds |
|---|---|---|
| `sending` | messages, pastes, commands, checks and pacing together: `EveryMessageAccounted`, `FloodLimited`, `NothingSentDuringCheck`, `NothingSentToDeadLink`, `ImplementsDelivery` | `Send.cfg`: 5 calls, 4 messages, pastes of 2, command queue 2, event queue 1, 2 held, 3 paced, burst 1 |
| `ending` | every way a worker can end: `TerminalEventIsLast`, `EndIsReported`, `ClosedOnlyWhenAsked`; and under fairness `QuitAlwaysEnds`, `DisconnectEnds`, `MessagesSettle` | `Ending.cfg`: 3 calls, 2 messages, 1 held, 2 paced, all openings and failures |
| `negotiating` | `NeverWithoutBatch`, `RegisteredIsAuthenticated`, `NegotiationEnds` | `Capabilities.cfg`: SASL, avatars and confirmed sending; every offer; 2 changes of it |
| `regaining` | `AttemptsAreEarned`, `UserLeaveStays`, `RegainedRestoresAll`, `AttemptsConclude` | `Regaining.cfg`: one channel, 6 acts of the user and of the other |
| `reconnecting` | `NeverStranded`, `OnlyUserStops`, `DisconnectStays`, `Recovers` | `Reconnecting.cfg`: 3 generations, 3 acts, 1 report of each kind |
| `history` | `OlderPageAnsweredOnce`, `NoSilentGap`, `OlderPageEnds` | `History.cfg`: one channel of 3 lines, 3 acts, pages of 2, every queue of one |
| `confirming` | `FollowedAsTracked`, `ShownAsDelivered`, `NeverTwice`, `EveryLineSettles` | `Confirming.cfg`: 2 messages of 2 texts, 2 turns of server, user and link |
| `moving` | `SecretsSurvive`, `SecretsInUse`, `ChoiceAgrees`, `WaitsEnd` | `Moving.cfg`: both kinds of system store, 1 write, 2 moves, 1 failing call, 1 restart |
| `rosters` | `PresenceIsOnePerson`, `PresenceIsKept`, `NoRoleInvented`, `AccountsAreTrue`, `KnownWhereNoted`, `MirrorAgrees`, `ChosenIsThePerson` | `Rosters.cfg`: 2 people, 3 nicknames, 2 channels, 3 moves of people (2 where accounts are kept, and with own commands and timeouts 4 together), 2 own commands (1 where the choice is looked at) |

Three runs show a disagreement between the code and what the repository says of
it (details and quotes under "findings" in PROJECT.json): `wake_up`,
`replaced_log` and `choice_lost`.

### Disagreements

Every disagreement met while modelling has a configuration that shows the
shortest way to it: TLC finds the property violated. Three of them are runs of
the project; the others are kept beside them and run the same way.

| configuration, module | property | what happens |
|---|---|---|
| `WakeUp`, `MCSession` | `WakeUpReconnects` | the late `Registered` of the connection ended for sleep closes the dialog the wake-up opened, and nothing reconnects |
| `ReplacedLog`, `MCConfirmedSending` | `LogIsTrue` | a new connection replaces a running one; the log's held records of the old one are released by the ids of the new (`session.rs:173`) |
| `ChoiceLost`, `MCCredentialMove` | `OnlyMovesChoose` | the note of a channel key, written from a copy of the settings, puts the old choice of store back (`channel_keys.rs:691`) |
| `HeldDropped`, `MCConnection` | `HeldCommandsReported` | a quit during an alive check drops the held commands without a word (`lib.rs:2620` says they are reported) |
| `StaleRefusal`, `MCConnection` | `LinkLossIsNotRefused` | a 433 to a second NICK, while the first is accepted, makes the later loss of the link a refusal that is not retried |
| `QuitStays`, `MCSession` | `QuitStays` | `/quit` just before sleep is undone by the wake-up |
| `ReadOvertakes`, `MCSession` | `NewerAttemptStands` | a read started before an answered dialog replaces its connection |
| `DialogReplaced`, `MCSession` | `ReplacedDialogIsSilent` | the answer of a replaced dialog connects once the new one is submitted |
| `LateReply`, `MCChannelHistory` | `LateReplyIsNotAnothers` | a late reply is taken for that of the next request of the channel (`history.rs:924`, against `spec/architecture.md:1716`) |
| `ShownTwice`, `MCChannelHistory` | `NoLineTwice` | lines of an older page are not in the duplicate filter and are shown again by recent history (`app/lib.rs:1901`) |
| `KeyLeftBehind`, `MCCredentialMove` | `KeysMoveToo` | a key saved by the job before a move is not noted yet and stays in the old store (`account_settings.rs:152`) |
| `DeletedReturns`, `MCCredentialMove` | `DeletedIsGone` | a separate entry whose removal failed is not removed by a second delete, which answers Ok (`credentials.rs:606`) |
| `LostRole`, `MCRosters` | `RoleIsTheHighest` | after a NICK of an operator a `MODE +v` clears the carried role, and the roster shows `+` (`lib.rs:4792`: "so a NICK change can carry the role over") |
| `StaleWho`, `MCRosters` | `KnownArePresent` | somebody leaves, another takes the nickname with a NICK, which takes it off the list of those who left (`accounts.rs:313`), and leaves too: the rest of the WHO reply, made before, makes the nickname known though nobody has it (`accounts.rs:9`: "remembered only while they share a channel with us"; `accounts.rs:67`: "must not bring them back") |
| `ForgottenWhileShared`, `MCRosters` | `KnownWhileShared` | a WHO line notes the asked channel only, so leaving it forgets somebody still sharing another (`accounts.rs:19`) |
| `PresenceReused`, `MCRosters` | `EachPresenceIsOne` | somebody leaves while our PART is on its way; whoever joins later under the nickname gets the presence (`presence.rs:7`) |

Configurations named `...More` are those of passing runs with the type
invariants and further facts: `EnabledMeansGranted`, `OnlySaslRefuses`,
`EndIsLast` (`CapabilitiesMore`); `RecentIsAnswered`, `QueueIsServed`,
`RecentEnds` (`HistoryMore`); `IndexAgrees` (`RostersMore`). TLC finds no error in
them. Where the type invariant is a theorem there is no such configuration.

### Why the bounds are enough

- Connection: the queues are of the size at which each can be full, non-empty
  and empty in combination; two held commands with a paste of two overflow a
  paced queue of three, the only place where three limits meet; a burst of one
  already distinguishes "burst left" from "timer due". Four messages give two
  pastes, or a paste around typed messages, which is what ordering needs.
- Ending: each failure is an action that may come at any time, so three calls
  reach all pairs of a request to end and a failure; with two messages and a
  burst of one a paste needs the pacing timer. A message is a paste of one line
  there.
- Negotiation: two changes make a withdrawal and a new offer of the same
  capability, or of batch and of something that needs it.
- Regain: six acts are two joins, a leave and three interferences, enough for
  the known bad behaviour of a slow server. Channels share only the limit of
  rejoins in one poll, which no property here is about, so one channel is run.
- Session: three generations are a connection, its replacement, and one that
  comes while both still report.
- History: an act is a page asked for, a disconnect, a kick, a JOIN or PART or a
  change of the capability; three are a cut, a recovery and something that
  disturbs it. A latest limit of one and pages of two make every reply full and
  not full. With queues of one each request may meet a full queue.
- Confirming: two equal or different texts to one channel; either capability is
  withdrawn and offered again.
- Moving: two moves are there and back; one failing call, any of them.
- Rosters: a nickname is always free, so a NICK may take one that somebody left.
  `OneSideAtATime` splits the behaviours, so that each looks at accounts, at roles,
  or at the window's choice: the three do not read each other's state. Where a
  role is looked at, somebody has one from the start. The choice needs only that we
  are in the channel; leaving and coming back is in the other two.

### Fairness

- `select!` of tokio picks among ready branches at random. A branch that is
  ready again and again is taken at last (strong fairness of the paced timer, of
  taking a command, of the quit signal and of the alive deadline); one that stays
  ready needs only weak fairness. Steps inside a branch, and the steps of the
  opening, are weakly fair: nothing else can run in that task. The pacing
  interval passes, and the drain after QUIT has a time limit.
- The UI is not assumed to take events. Where a property needs it, it says so
  (`Pumped`, in `DisconnectEnds` and `MessagesSettle`); `QuitAlwaysEnds` holds
  without.
- The server of `CapNegotiation` and of `OpRegain` answers, and the worker reads
  and polls. A JOIN may be ignored; the attempt's timeout is the poll's fairness.
- Session: the secrets thread works off its queue, retry timers fire, the pump
  runs. The user and the machine owe nothing.
- History: the worker reads lines and commands and its timer fires, the window
  handles events (weak fairness); the server owes no reply.
- Confirming: the expiry timer and the window's pump; the server owes nothing.
- Moving: the store thread and the UI thread go on while the process runs; the
  system's store answers in the end, its permission dialog included.

## Proofs

All theorems hold for every value of the constants that satisfies the named
assumption of the module (`ConnectionAssumption`: capacities and limits are
positive or natural numbers; `OpRegainAssumption`: finitely many channels, as a
`HashMap` holds them; `ConfirmedSendingAssumption`: the window finds again at least
as many lines as the worker tracks, 64 and 32 in the code; the sets of capabilities of `CapNegotiation` are arbitrary;
`RostersAssumption`: finitely many people, nicknames and levels, the signs for none
not among them, no more people than nicknames). Each invariant below was checked
by TLC on the run's constants before it was proved.

`Connection` (`ConnectionProofs`):

- `TypeCorrect` (`Spec => []TypeOK`), one lemma for each action.
- `TerminalOnce` (`TerminalEventIsLast`). The property alone is not inductive: a
  terminal event enters the queue from `out`, so `EndInv` adds that a terminal
  report is the last of `out`, that the worker is then `Ending`, and that an
  ended worker has nothing in `out`.
- `FloodNeverExceeded` (`FloodLimited`). `FloodInv` ties the lines written since
  the last interval to the burst that is left.
- `SilentDuringCheck`, `DeadLinkSilent` (`NothingSentDuringCheck`,
  `NothingSentToDeadLink`). `CheckInv`: the marks of a check belong to a running
  worker, or to one whose last report is under way, which writes nothing.
- `BacklogsBounded` (`BacklogBounded`): needs that a command holds no more lines
  than it was made with, from the type invariant.
- `ClosedWasAsked` (`ClosedOnlyWhenAsked`). `AskedInv` follows the request
  from the call through the command queue and the held commands to draining.
- `MessagesAccounted` (`EveryMessageAccounted`). What a step does to the messages is
  one of three things (`MessageStep`): it accepts some with the next numbers, it
  settles some that wait as written or refused, or it moves waiting ones. To say
  that a moved message stays in place, `OrderInv` has the backlogs in order: the
  paced lines before what is held, that before the command queue, all numbered
  below the next. (TLC: 3,036,058 states of `Send.cfg`.)
- `ConnectionDelivers` (`ImplementsDelivery`): from the same classification each
  step is a step of `OrderedDelivery` under the refinement mapping, or a stutter;
  `OrderInv` gives that what is written next has the lowest number waiting.
- `EndAlwaysReported` (`EndIsReported`): while somebody listens a worker ends only
  by putting its terminal report into the event queue (`EndingStep`), and from there
  only the UI takes it. The two invariants above and `EndInv` are what it needs.

`CapNegotiation`:

- `BatchFirst` (`NeverWithoutBatch`): inductive with the type of `pending` and
  `enabled`, as every step ends with `WithoutBatch`.
- `NoUnauthenticatedRegistration` (`RegisteredIsAuthenticated`). `AuthInv`
  follows the verdict of the server through the link to the end of the
  negotiation.

`OpRegain`. `RegainInv` says of each channel, from its record and the two
directions of the link:

- `Staged`: what a record of each stage can be;
- `InTurn`: on the way to us a JOIN and what ends it (a PART or a KICK) take turns,
  and the last of them agrees with the server's members;
- `LeftAlone`: what the user left has no JOIN on its way that a PART of the user
  does not follow, and no attempt;
- `StatusTold`: a roster follows each JOIN, and the last status on its way is the
  server's;
- `Earned`: `credit` covers what the channel may yet try. That is the JOINs of the
  user on their way, the lines that will say we became operator (`Rises`), and
  what its own state still has coming (`Rest`).

`RejoinsAreEarned` (`AttemptsAreEarned`) follows from `Earned`, as no part of its sum
but one is negative and that one is covered; `LeavesHold` (`UserLeaveStays`) from
`LeftAlone`; `RegainTypes` from `Staged`. All three assume `~SlowServer`, as the run
does: with a slow server `UserLeaveStays` is false (a hazard in PROJECT.json). A
step either moves the lines of a channel (`CalmKeeps`), takes one of four lines, or
is one of the server's four answers (`Elsewhere`, `Refuses`, `PutOut`, `Admitted`), a
roster told (`Announced`), an attempt, or an act of the user; one lemma for each.
(TLC: 11,811,297 states of one channel and 8 acts, 3,909,921 of two channels and 4.)

`Session`. `SessionInv`, for any number of generations: connections that were not
made have no worker, a worker ends `Closed` only if asked, and the session's own
worker was asked only for what the session's marks say (`WorkersInv`); what the
user ended is marked, and nothing else is (`EndedInv`); a pending retry has its
timer and nothing that would stop it, and a server that sleeps is on its way back
even before its connection has ended (`RetryInv`). `NeverStranded` alone is not
inductive: it looks at servers without a connection, and a connection that ends
during sleep needs the marks that were set while it ran. From it `SessionTypes`,
`OnlyTheUserStops` (`OnlyUserStops`), `AlwaysOnItsWay` (`NeverStranded`) and the action
property `DisconnectHolds` (`DisconnectStays`). (TLC: 2,126,723 states of
`Reconnecting.cfg`.)

`CredentialMove`. `MovingInv`: the settings window waits for exactly the results
still to come (`QueueInv`); caches tell what their stores have (`StoresInv`); the move
in progress is the job at the head of the queue, from the store in use to the
other (`MoveInv`); and each confirmed password is in the store that the settings
file names, in the one in use, and, once a move has passed it, in the new one
(`SecretsInv`), unless two writers of the settings file overlapped (`lostUpdate`). From
it `MovingTypes`, `PasswordsSurvive` (`SecretsSurvive`), `PasswordsInUse`
(`SecretsInUse`) and `StoreIsTheChoice` (`ChoiceAgrees`). (TLC: 925,537 states of
`Moving.cfg`.)

`ConfirmedSending`. `ConfirmInv` is a conjunction of six, each proved with the ones
before it, and `Spec => [](TypeOK /\ ConfirmInv)` is `ConfirmHolds`:

- `WaitInv`: ids are given in order; what the window follows, or will follow once it
  is told of the events in front, is what the worker has pending (`PendingKnown`,
  `OpenPending`); each answer is about one of these and is the only one
  (`AnswersKnown`); and when the window is told of a message there is room to
  follow it (`RoomToFollow`, which needs `MaxPending <= Followed`).
- `BoundsInv`: nothing names a message not yet sent or a label not yet given, so a
  new one cannot be mistaken for what is on the way. `LinkInv`: an ended link is
  empty.
- `LabelInv`: what is on the way with the label of a message, or in its batch,
  comes of that message; the line of a batch comes right after its start; and an
  echo without the label of its message has the withdrawal of labels in front of
  it (`PlainOnWay`), so that the worker by then compares texts.
- `TwiceInv`: `NeverTwice`, and what keeps it: a message told to the window with
  the words of one that waits comes after the answer to that one (`EchoIsLate`),
  and nothing comes any more of a line that waits unfollowed (`NothingComes`).
- `CountInv`: for each target and text, the lines shown as delivered, the events
  that will show one (`ToldOf`) and the lines on the way that will cause one
  (`OnWayOf`) are together no more than what the server delivered. Each step moves
  one thing from one count to the next, and the sets are counted with the
  library's theorems on cardinality.

From them `ConfirmTypes`, `WaitsAsTracked` (`FollowedAsTracked`), `EchoesAreRecognized`
(`NeverTwice`) and `ConfirmationsAreTrue` (`ShownAsDelivered`). Neither of the last two
is inductive: both look only at lines, while what goes wrong comes over the link.
(TLC: 475,004 states of `Confirming.cfg`.)

`PresenceIndex` and `Rosters` (`RostersLemmas`, `RostersProofs`). The model folds
over sets of nicknames and sequences of events, so the proofs begin with what a
fold gives: `LeastSubset` is induction over the subsets of a finite set, drawn
from the library's theorem that a well-founded order has least elements (that one
is about sets, not operators), and `SetFoldKeeps`, `StepsKeep` and their like say that
what each step keeps the fold keeps.

- `OperationsKeepAgreement`: the empty index of presences is consistent and every
  operation of `PresenceIndex` keeps it so, for any finite set of nicknames. It is
  a theorem about operators, so it holds for every order of lines. `Consistent` is
  inductive as it stands (`Named`, `Placed`, `Mutual`); inside an operation it is
  not, and `Leaving` and `PlacedExcept` say what is then still owed. That a free
  number always exists needs a count: the presences are as many as the nicknames
  that have one (`NumbersSuffice`).
- `WorkerIsTyped` (`TypeOK`) and `MirrorIsTheWorkers` (`MirrorAgrees`), from `Typed`:
  the types, a consistent index, and a mirror equal to the accounts once the
  events of a line are applied. Each operation of `UserAccounts` returns the
  accounts with the events that tell of the change, and the lemmas show for each
  that those events, applied in order, leave the same.
- `PresencesArePeople` (`PresenceIsOnePerson`), `IndexIsTheLists` (`IndexAgrees`) and
  the action property `PresencesAreKept` (`PresenceIsKept`), from `Rightly`. None of
  the three is inductive: each looks at the worker, while what goes wrong is on
  the link. `LinesTell` says of every line on the way which people it moves, from
  what was true when the line before it was sent to what is true when it was, and
  that the last of them agrees with the server; `PlacedRightly` says that the lists
  of the channels we follow are who was there when the last line read was sent,
  that the index is those lists, and that each presence but those in
  `ghost.strayed` is of the person it was made for.
- `RolesAreGiven` (`NoRoleInvented`), from `Rightly` and `RolesTrue`: the library's
  level of a member, the role carried over a NICK and the role last published are
  each one that the server has told of the person who holds the nickname.
- `ChoiceIsKept` (`ChosenIsThePerson`), from `Rightly` and `WindowSo`. The property
  looks only at what is shown, and what is shown next is decided by what is queued.
  The views of a channel are what is shown and then the queued rosters, in order:
  from each view to the next whoever stays listed under a nickname is the same
  person (`Passes`), the last is the library's list while we are in the channel, and
  after our departure the next is blank or without us (`Blanks`). The choice is, in
  the shown view, the person who was chosen, or the next view drops it (`ChoiceSo`).
  A batch shows only the last roster of each channel (`Superseded`), so `Passes` has
  to carry over those it leaves out. TLC checked `WindowSo` with `Rosters.cfg`.

Two of these proofs failed first for a good reason. `CASE` arms that overlap are
an arbitrary choice in TLA+, though TLC takes the first: `Listed` and `Accounted` had
such arms, and now say which comes first. And two invariants of the accounts that
TLC had found true were so only by the bounds: `KnownArePresent` is false with three
moves when lines come between those of a WHO reply (`StaleWho.cfg` shows it), and
`AccountsAreTrue` with five, when somebody leaves a channel after we sent our own
PART and says ACCOUNT before they quit elsewhere: the channel is taken from a
roster nobody keeps any more. The run now checks `KnownWhereNoted`, which holds
of every nickname that was not taken by a NICK while a reply was awaited, and
`AccountsAreTrue` without the presences that strayed. Both were then checked with
these exceptions by simulation up to 14 moves of 3 people.

Only model-checked:

- the liveness properties (temporal proofs under fairness are out of the prover's
  reach);
- `RegainedRestoresAll`, which needs an invariant about topics and flags on their
  way besides `RegainInv`;
- `AccountsAreTrue` and `KnownWhereNoted`: a stale WHO line is told from a current one
  by a token that comes round after 999 queries, so both hold only while no more
  than that are on the way, and need an invariant of the queries, the lists of
  those who left and the replies on the link;
- `OlderPageAnsweredOnce` and `NoSilentGap` of `ChannelHistory`.

## Not modelled

Drawing, forms, text input, parsing and encoding of lines, cryptography, HTTP,
decoding and the vendored crates but for the member lists: no interleaving of
their own. Image previews and uploads, the log writer thread and the avatars of
metadata and CTCP do have state worth checking; PROJECT.json's components say
what each would need. Of the modelled parts: contents of lines, the transcript
and diagnostics, the length of delays, the removal of a server and leaving the
application, and everything PROJECT.json's component notes name. Of the program's
lines most are of these kinds (settings pages, widgets, documents and their
migrations, text), so the share of lines a model stands for stays small.

## Plan

Done, in this order because each rests on the one before: `Connection` with its
abstract specification, its runs and proofs; `CapNegotiation`; `Session`, which
uses what `Connection` shows of the end of a worker; `OpRegain`;
`ChannelHistory`; `ConfirmedSending`; `CredentialMove`; `Rosters`.

Worth doing next: `RegainedRestoresAll` and the invariants of `ChannelHistory`
proved; the log writer and the record
of image loads; `Session` with leaving the application and removing a server.

## Running it

    tlc -workers 2 -config Send.cfg MCConnection
    tlapm RostersProofs.tla

Each run's module and configuration are in PROJECT.json.

--------------------------- MODULE HistoryRequests ---------------------------
(***************************************************************************)
(* The requests for channel history of one connection                      *)
(* (crates/irc-core/src/history.rs): at most one is being answered, the    *)
(* others wait, and what the server says is told apart from live traffic.  *)
(*                                                                         *)
(* The value h stands for the struct HistoryRequests; each operator is one *)
(* of its methods and gives the value afterwards.  Lines of a channel are  *)
(* numbered in the order the server has them, and every line carries its   *)
(* msgid, so a reference is a line's number.                               *)
(***************************************************************************)
EXTENDS Integers, Sequences, SequencesExt

CONSTANTS Channels,
          Limit,          \* HISTORY_LIMIT
          MaxQueued,      \* MAX_QUEUED
          MaxAbandoned    \* MAX_ABANDONED

ASSUME HistoryRequestsAssumption ==
    /\ Limit \in Nat \ {0}
    /\ MaxQueued \in Nat \ {0}
    /\ MaxAbandoned \in Nat \ {0}

Pages  == {"latest", "resume", "before"}
Recent == {"latest", "resume"}

Request(c, page, number, line) ==
    [channel |-> c, page |-> page, number |-> number, line |-> line]

NoRequest == [page |-> "none"]

(* A request as it waits for its reply: the batch it opened (0: none yet). *)
Asked(request) ==
    [page |-> request.page, request |-> request, ref |-> 0, end |-> FALSE, kept |-> 0]

(* Requests of a connection that resumes a channel after resume[c] (0: it  *)
(* does not).                                                              *)
WithResume(resume) ==
    [queue |-> <<>>, outstanding |-> NoRequest, resume |-> resume,
     abandoned |-> <<>>, discarding |-> {}]

Finished(request, lines, end, incomplete, failed) ==
    [channel |-> request.channel, page |-> request.page, number |-> request.number,
     lines |-> lines, end |-> end, incomplete |-> incomplete, failed |-> failed]

Failed(request, lines) == Finished(request, lines, FALSE, FALSE, TRUE)

OlderStatus(finished) ==
    CASE finished.failed -> "failed"
      [] ~finished.failed /\ (finished.end \/ finished.lines = 0) -> "beginning"
      [] OTHER -> "more"

Idle(h) == h.outstanding.page = "none"

(* A request of one of these pages for the channel waits or is being       *)
(* answered.                                                               *)
Has(h, c, pages) ==
    \/ \E i \in DOMAIN h.queue : h.queue[i].channel = c /\ h.queue[i].page \in pages
    \/ h.outstanding.page \in pages /\ h.outstanding.request.channel = c

Full(h) == Len(h.queue) >= MaxQueued

Enqueue(h, c) ==
    IF Has(h, c, Recent) \/ Full(h) THEN h
    ELSE [h EXCEPT !.resume[c] = 0,
                   !.queue = Append(@, Request(c, IF h.resume[c] = 0 THEN "latest" ELSE "resume",
                                               0, h.resume[c]))]

MayEnqueueOlder(h, c) == ~Has(h, c, {"before"}) /\ ~Full(h)

EnqueueOlder(h, c, number, line) ==
    [h EXCEPT !.queue = <<Request(c, "before", number, line)>> \o @]

(* fall_back: a resumed request that failed asks for the latest lines.     *)
FallBack(h, request) ==
    IF request.page = "resume" /\ ~Full(h)
    THEN [h EXCEPT !.queue = Append(@, Request(request.channel, "latest", 0, 0))]
    ELSE h

(* The older pages among these requests end as failures.                   *)
FailedOlder(requests) ==
    LET older == SelectSeq(requests, LAMBDA r : r.page = "before")
    IN  [i \in DOMAIN older |-> Failed(older[i], 0)]

Forget(h, c) == [h EXCEPT !.queue = SelectSeq(@, LAMBDA r : r.channel # c)]

(* Slip: an older page that waited for a channel we left ends unheard. *)
ForgottenSilently(h, c) == <<>>

Forgotten(h, c) == FailedOlder(SelectSeq(h.queue, LAMBDA r : r.channel = c))

NextRequest(h) ==
    [h EXCEPT !.queue = Tail(@), !.outstanding = Asked(Head(h.queue))]

(* The outstanding request timed out.                                      *)
Tick(h) ==
    LET o == h.outstanding
        given == [h EXCEPT !.outstanding = NoRequest]
        left ==
            IF o.ref # 0 THEN [given EXCEPT !.discarding = @ \union {o.ref}]
            ELSE [given EXCEPT !.abandoned =
                    Append(IF Len(@) >= MaxAbandoned THEN Tail(@) ELSE @, o.request.channel)]
    IN  FallBack(left, o.request)

(* The capability went away.                                               *)
Reset(h) == WithResume(h.resume)

EndedByReset(h) ==
    (IF Idle(h) THEN <<>> ELSE <<Failed(h.outstanding.request, 0)>>)
    \o FailedOlder(h.queue)

-----------------------------------------------------------------------------
(* What a line of the server is to the requests.  A batch is known by its  *)
(* reference, a number.                                                    *)

Unrelated(h)       == [h |-> h, what |-> "unrelated"]
Consumed(h)        == [h |-> h, what |-> "consumed"]
Streamed(h)        == [h |-> h, what |-> "message"]
Ended(h, finished) == [h |-> h, what |-> "finished", finished |-> finished]

Remove1(seq, x) ==
    LET i == CHOOSE i \in DOMAIN seq : seq[i] = x /\ \A j \in 1 .. i - 1 : seq[j] # x
    IN  RemoveAt(seq, i)

ObserveOpen(h, ref, c, end) ==
    LET o == h.outstanding
    IN  IF o.page # "none" /\ o.ref = 0 /\ o.request.channel = c
        THEN Consumed([h EXCEPT !.outstanding.ref = ref, !.outstanding.end = end])
        ELSE IF c \in ToSet(h.abandoned)
        THEN Consumed([h EXCEPT !.abandoned = Remove1(@, c),
                                !.discarding = @ \union {ref}])
        ELSE Unrelated(h)

(* Slip: only more lines than asked for may have missed some. *)
ObserveCloseComplete(h, ref) ==
    LET o == h.outstanding
    IN  CASE ref \in h.discarding ->
               Consumed([h EXCEPT !.discarding = @ \ {ref}])
          [] ref \notin h.discarding /\ o.page # "none" /\ o.ref = ref ->
               Ended([h EXCEPT !.outstanding = NoRequest],
                     Finished(o.request, o.kept, o.end,
                              o.page = "resume" /\ ~o.end /\ o.kept > Limit, FALSE))
          [] OTHER -> Unrelated(h)

ObserveClose(h, ref) ==
    LET o == h.outstanding
        incomplete == o.page = "resume" /\ ~o.end /\ o.kept >= Limit
    IN  CASE ref \in h.discarding ->
               Consumed([h EXCEPT !.discarding = @ \ {ref}])
          [] ref \notin h.discarding /\ o.page # "none" /\ o.ref = ref ->
               Ended([h EXCEPT !.outstanding = NoRequest],
                     Finished(o.request, o.kept, o.end, incomplete, FALSE))
          [] OTHER -> Unrelated(h)

ObserveLine(h, ref) ==
    CASE ref # 0 /\ ref \in h.discarding -> Consumed(h)
      [] ref # 0 /\ ref \notin h.discarding /\ ~Idle(h) /\ h.outstanding.ref = ref ->
           Streamed([h EXCEPT !.outstanding.kept = @ + 1])
      [] OTHER -> Unrelated(h)

ObserveFail(h) ==
    LET o == h.outstanding
    IN  IF o.page # "none" /\ o.ref = 0
        THEN Ended(FallBack([h EXCEPT !.outstanding = NoRequest], o.request), Failed(o.request, 0))
        ELSE Unrelated(h)

=============================================================================

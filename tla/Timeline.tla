------------------------------ MODULE Timeline ------------------------------
(***************************************************************************)
(* The log of one channel in the application (crates/app/src/lib.rs): live *)
(* lines and the replies to requests for recent history go to its end,     *)
(* older pages to its top, and a disconnect marks where it was cut off.    *)
(*                                                                         *)
(* The value t stands for everything AppState keeps for the conversation.  *)
(* Lines are numbered in the order the server has them and carry msgid and *)
(* time.  The bounds of the log (2,000 lines) and of the duplicate filter  *)
(* (512 keys) are not reached.                                             *)
(***************************************************************************)
EXTENDS Integers, Sequences, SequencesExt, FiniteSetsExt

(* The line "Some messages sent while disconnected are not shown."         *)
Gap == 0

Empty ==
    [log |-> <<>>,            \* Conversation.messages
     seen |-> {},             \* the keys of duplicates
     active |-> FALSE,        \* in active_channels
     waiting |-> FALSE,       \* in pending_history
     held |-> <<>>,           \* its lines
     flight |-> 0,            \* OlderHistory.in_flight, 0: none
     over |-> FALSE,          \* OlderHistory.finished
     block |-> 0,             \* HistoryBlock.request, 0: none
     top |-> 0,               \* lines of the log in that block
     cut |-> 0]               \* the resume point, 0: none

Lines(t) == ToSet(t.log) \ {Gap}

(* server_time_order: every line has a time.                               *)
InServerOrder(lines) == SortSeq(lines, LAMBDA a, b : a < b)

(* append_to_conversation: unless the duplicate filter knows the line.     *)
AppendLine(t, n) ==
    IF n \in t.seen THEN t
    ELSE [t EXCEPT !.log = Append(@, n), !.seen = @ \union {n}]

Joined(t) == [t EXCEPT !.active = TRUE]

Parted(t) ==
    [t EXCEPT !.active = FALSE, !.flight = 0, !.over = FALSE, !.cut = 0]

(* cut_off_channels: the earliest cut that was not answered stays.         *)
CutOff(t, couldPage) ==
    IF ~t.active THEN t.cut
    ELSE IF ~couldPage THEN 0
    ELSE IF t.cut # 0 \/ Lines(t) = {} THEN t.cut
    ELSE Max(Lines(t))

Disconnected(t, couldPage) ==
    [t EXCEPT !.cut = CutOff(t, couldPage), !.active = FALSE, !.waiting = FALSE,
              !.held = <<>>, !.flight = 0, !.over = FALSE]

-----------------------------------------------------------------------------
(* Recent history: held until the reply ends.                              *)

HistoryRequested(t) == [t EXCEPT !.cut = 0, !.waiting = TRUE, !.held = <<>>]

HistoryResumed(t) == [t EXCEPT !.waiting = TRUE, !.held = <<>>]

PushHistoryLine(t, n) == IF t.waiting THEN [t EXCEPT !.held = Append(@, n)] ELSE t

FinishHistory(t, gap) ==
    IF ~t.waiting THEN t
    ELSE LET ended == [t EXCEPT !.cut = 0, !.waiting = FALSE, !.held = <<>>,
                                !.log = IF gap THEN Append(@, Gap) ELSE @]
         IN  FoldLeft(AppendLine, ended, InServerOrder(t.held))

-----------------------------------------------------------------------------
(* Older pages: shown line by line above everything.                       *)

MayAskOlder(t, paging) ==
    paging /\ t.active /\ ~t.waiting /\ t.flight = 0 /\ ~t.over /\ Lines(t) # {}

OlderReference(t) == Min(Lines(t))

AskOlder(t, number) == [t EXCEPT !.flight = number]

PushOlderLine(t, number, n) ==
    LET top == IF t.block = number THEN t.top ELSE 0
    IN  CASE t.flight # number -> t
          [] t.flight = number /\ n \in t.seen \union Lines(t) ->
               [t EXCEPT !.block = number, !.top = top]
          [] OTHER ->
               [t EXCEPT !.block = number, !.top = top + 1, !.log = InsertAt(@, top + 1, n)]

(* settle_block puts the lines of the page in order.                       *)
FinishOlder(t, number, beginning) ==
    LET added == IF t.block = number THEN t.top ELSE 0
        page == SubSeq(t.log, 1, added)
        rest == SubSeq(t.log, added + 1, Len(t.log))
    IN  IF t.flight = 0 \/ t.flight # number THEN t
        ELSE [t EXCEPT !.flight = 0, !.block = 0, !.top = 0,
                       !.log = InServerOrder(page) \o rest,
                       !.over = beginning \/ added = 0]

=============================================================================

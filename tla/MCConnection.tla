---------------------------- MODULE MCConnection ----------------------------
(***************************************************************************)
(* Instances of Connection for TLC.  Each set of operations is one         *)
(* question: what the user can do to the connection in that run.           *)
(***************************************************************************)
EXTENDS Connection

(* Messages, pastes, other commands and wake-up checks, with a disconnect   *)
(* at any point.                                                            *)
SendingOperations == {"message", "lines", "command", "check", "disconnect"}

(* Every way a connection can end, raced by pastes, nickname retries and a  *)
(* UI that drops its ends of the queues.  A message is a paste of one line. *)
EndingOperations == {"lines", "nick", "check", "quit", "disconnect", "shutdown",
                     "sleep", "drop", "dropReceiver"}

(* The smallest mixes that show two disagreements with the comments.       *)
HeldOperations == {"message", "check", "disconnect"}
NickOperations == {"nick"}
=============================================================================

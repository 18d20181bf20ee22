----------------------------- MODULE MCSession ------------------------------
(***************************************************************************)
(* Session for TLC: what the user and the machine may do in each run.      *)
(***************************************************************************)
EXTENDS Session

(* Everything. *)
AllOperations ==
    {"reconnect", "connect", "disconnect", "quit", "nick", "prompt", "settings",
     "sleep", "wake"}
=============================================================================

------------------------- MODULE MCConfirmedSending -------------------------
(***************************************************************************)
(* A channel and a person, and a table of pending messages that fills up.  *)
(***************************************************************************)
EXTENDS ConfirmedSending, TLC

=============================================================================

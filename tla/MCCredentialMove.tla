--------------------------- MODULE MCCredentialMove ---------------------------
(***************************************************************************)
(* One password, which has a place in every move, and one channel key,     *)
(* which has one when the settings file notes it.                          *)
(***************************************************************************)
EXTENDS CredentialMove, TLC

=============================================================================

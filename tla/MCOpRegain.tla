---------------------------- MODULE MCOpRegain ------------------------------
(***************************************************************************)
(* OpRegain for TLC: one channel, or two that share a poll.                *)
(***************************************************************************)
EXTENDS OpRegain, TLC

CONSTANTS c1, c2

OneChannel == {c1}
TwoChannels == {c1, c2}
=============================================================================

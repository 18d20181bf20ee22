-------------------------- MODULE MCChannelHistory --------------------------
(***************************************************************************)
(* One channel, whose latest line is asked for, and older lines by pages   *)
(* of two, with queues and a list of abandoned requests of the least size. *)
(***************************************************************************)
EXTENDS ChannelHistory

MCLimit == 1
MCOlderLimit == 2

=============================================================================

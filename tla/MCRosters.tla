------------------------------ MODULE MCRosters ------------------------------
EXTENDS Rosters

(* Two people and three nicknames: one is always free to be taken.         *)
MCNicks == {"a", "b", "c"}
MCOne == {"#x"}
MCTwo == {"#x", "#y"}
MCLogins == {"acc"}
MCLevels == {1, 2}       \* voice, operator
MCOp == {2}
MCNone == {}
MaxTrackedMoves == 2
MaxTracked == 4

Roled(w) == \E c \in Channels, p \in People : w.roles[c][p] # {}

(* The window takes what there is before anything else, and chooses nobody. *)
WindowKeepsUp == chosen' = NobodyChosen /\ (events # <<>> => events' = <<>>)

NobodyLogsInOrOut ==
    \A p \in People : world'.nick[p] # NoNick => world'.login[p] = world.login[p]

NobodyRemovesUs == world'.meIn # world.meIn => out' # out

(* Each behaviour looks at one side: the accounts, with nobody in a role;  *)
(* the roles, while somebody has one; or the window's choice.  In the last *)
(* two, and when lines come between those of a WHO reply, nobody logs in   *)
(* or out; then we are not kicked either.  Only in the last the window     *)
(* falls behind; there we join once and stay.                              *)
OneSideAtATime ==
    /\ Roled(world') => Roled(world)
    /\ worker.tracked \/ Roled(world) => WindowKeepsUp
    /\ worker.tracked =>
          /\ ~Roled(world)
          /\ spent'.moves <= MaxTrackedMoves
          /\ spent'.moves + spent'.own + spent'.timeouts <= MaxTracked
          /\ world.chunks => spent'.timeouts = 0 /\ NobodyRemovesUs
    /\ ~worker.tracked \/ world.chunks => NobodyLogsInOrOut
    /\ ~worker.tracked /\ ~Roled(world) => spent'.own <= 1

(* Lines come between those of a WHO reply; people move once we have       *)
(* joined, and nobody has a role.                                          *)
AccountsAlone ==
    /\ world'.chunks /\ worker'.tracked /\ ~Roled(world') /\ NobodyLogsInOrOut
    /\ spent'.moves > 0 => spent'.own = MaxOwn
==============================================================================

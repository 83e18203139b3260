----------------------------- MODULE MCRoundRobin -----------------------------
(* Three processes that need 2, 1 and 3 units of a memory of 4: the first two *)
(* share it, the third must wait until freed blocks have merged, and the      *)
(* work of p1 takes more than one turn.                                       *)
EXTENDS RoundRobin

CONSTANTS p1, p2, p3
MCProcesses == {p1, p2, p3}
MCIdOf == p1 :> 1 @@ p2 :> 2 @@ p3 :> 3
MCNeed == p1 :> 2 @@ p2 :> 1 @@ p3 :> 3
MCTicks == p1 :> 3 @@ p2 :> 2 @@ p3 :> 1
===============================================================================

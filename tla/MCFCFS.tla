-------------------------------- MODULE MCFCFS --------------------------------
(* More processes than cores, of different lengths, so that a core is reused  *)
(* and the queue holds a process that waits for one.                          *)
EXTENDS FCFSReports

CONSTANTS p1, p2, p3
MCProcesses == {p1, p2, p3}
MCIdOf == p1 :> 1 @@ p2 :> 2 @@ p3 :> 3
MCTicks == p1 :> 2 @@ p2 :> 1 @@ p3 :> 1
===============================================================================

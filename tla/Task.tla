--------------------------------- MODULE Task ---------------------------------
(***************************************************************************)
(* What a scheduler sees of a process: a countdown of the calls of         *)
(* executeNextInstruction that it takes to finish. RoundRobin and FCFS     *)
(* model their processes this way; module Process implements it.           *)
(***************************************************************************)
EXTENDS Naturals

VARIABLES
  ticksLeft,    \* the calls still needed
  isFinished

Init ==
  /\ ticksLeft \in Nat \ {0}
  /\ isFinished = FALSE

Tick ==
  /\ ~isFinished
  /\ ticksLeft' = ticksLeft - 1
  /\ isFinished' = (ticksLeft = 1)

Spec == Init /\ [][Tick]_<<ticksLeft, isFinished>> /\ WF_<<ticksLeft, isFinished>>(Tick)

===============================================================================

------------------------------- MODULE Scheduling ------------------------------
(***************************************************************************)
(* What a scheduler promises, whatever its queues and lists: where each    *)
(* process is. A process is submitted once, is on at most one core, shares *)
(* no core, and once finished stays so. RoundRobin and FCFS implement it.  *)
(***************************************************************************)
EXTENDS Functions

CONSTANTS
  Processes,
  Cores,
  Preemptive    \* whether a process may lose its core before it has finished

VARIABLE place  \* place[p]: where process p is

Outside == <<"outside">>
Waiting == <<"waiting">>
On(c) == <<"core", c>>
Finished == <<"finished">>

Init == place = [p \in Processes |-> Outside]

Move(p, from, to) == place[p] = from /\ place' = [place EXCEPT ![p] = to]

Submit(p) == Move(p, Outside, Waiting)

FreeCores == {c \in Cores : \A p \in Processes : place[p] # On(c)}

\* Some waiting processes get a free core each.
Serve ==
  \E served \in (SUBSET {p \in Processes : place[p] = Waiting}) \ {{}} :
    \E core \in Injection(served, FreeCores) :
      place' = [p \in Processes |-> IF p \in served THEN On(core[p]) ELSE place[p]]

Preempt(p, c) == Preemptive /\ Move(p, On(c), Waiting)

Complete(p, c) == Move(p, On(c), Finished)

Next ==
  \/ Serve
  \/ \E p \in Processes :
       Submit(p) \/ \E c \in Cores : Preempt(p, c) \/ Complete(p, c)

Spec == Init /\ [][Next]_place

===============================================================================

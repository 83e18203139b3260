---------------------- MODULE RoundRobinSchedulingProofs ----------------------
(***************************************************************************)
(* RoundRobin implements the abstract preemptive scheduler of Scheduling,  *)
(* for every number of cores, every quantum and memory size and every set  *)
(* of processes whose ids differ.                                          *)
(***************************************************************************)
EXTENDS RoundRobinProofs

\* Where p is, in terms of the queue, the processes held and those added.
PlaceIn(p, queue, holding, known) ==
  IF \E c \in Cores : holding[c] = p THEN <<"core", CHOOSE c \in Cores : holding[c] = p>>
  ELSE IF InQueue(queue, p) THEN <<"waiting">>
  ELSE IF p \in known THEN <<"finished">> ELSE <<"outside">>

Places == [p \in Processes |-> PlaceOf(p)]

\* Places, as an operator of the variables it reads.
LEMMA PlacesAreIn ==
  /\ Places = [p \in Processes |-> PlaceIn(p, readyQueue, current, added)]
  /\ Places' = [p \in Processes |-> PlaceIn(p, readyQueue', current', added')]
<1>1. \A p : PlaceOf(p) = PlaceIn(p, readyQueue, current, added)
  BY DEF PlaceOf, PlaceIn, Held, HeldBy, Queued, InQueue
<1>2. \A p : PlaceOf(p)' = PlaceIn(p, readyQueue', current', added')
  BY DEF PlaceOf, PlaceIn, Held, HeldBy, Queued, InQueue
<1> QED
  BY <1>1, <1>2 DEF Places

\* No step moves a process unless it changes the queue, a worker or `added'.
LEMMA NothingMoves ==
  ASSUME UNCHANGED <<readyQueue, current, added>>
  PROVE  Places' = Places
BY PlacesAreIn

\* addProcess is a Submit of the abstract scheduler.
LEMMA AddingSubmits ==
  ASSUME OwnerInv, NEW p \in Processes, addProcess(p)
  PROVE  AScheduler!Submit(p)
<1>1. OwnersTyped /\ FinishedWereAdded /\ PlacedOnce(readyQueue, current, isFinished, added)
  BY OneOwnerIsPlacedOnce DEF OwnerInv
<1>2. p \notin added /\ added' = added \cup {p} /\ readyQueue' = Append(readyQueue, p)
  BY DEF addProcess
<1>3. current' = current
  BY DEF addProcess
<1>4. ~InQueue(readyQueue, p) /\ \A c \in Cores : current[c] # p
  BY <1>1, <1>2 DEF PlacedOnce
<1>5. \A q : InQueue(readyQueue', q) <=> InQueue(readyQueue, q) \/ q = p
  BY <1>1, <1>2, <1>4, AppendedLast DEF OwnersTyped, PlacedOnce
<1>6. Places[p] = <<"outside">>
  BY <1>2, <1>4, PlacesAreIn DEF PlaceIn
<1>7. \A q \in Processes :
        PlaceIn(q, readyQueue', current', added')
          = IF q = p THEN <<"waiting">> ELSE PlaceIn(q, readyQueue, current, added)
  BY <1>2, <1>3, <1>4, <1>5 DEF PlaceIn
<1>8. Places' = [Places EXCEPT ![p] = <<"waiting">>]
  BY <1>7, PlacesAreIn
<1> QED
  BY <1>6, <1>8 DEF AScheduler!Submit, AScheduler!Move, AScheduler!Outside,
                    AScheduler!Waiting, Places

\* Picking puts the picked process on the core, and no other.
LEMMA PickingServes ==
  ASSUME OwnerInv, NEW c \in Cores, Pick(c)
  PROVE  AScheduler!Serve
<1> DEFINE k == SelectInSeq(readyQueue, LAMBDA q : Runnable(q))
<1>1. /\ OwnersTyped /\ HoldsWhileRunning
      /\ PlacedOnce(readyQueue, current, isFinished, added)
  BY OneOwnerIsPlacedOnce DEF OwnerInv
<1>2. k \in 1..Len(readyQueue)
  BY <1>1, PickedIsQueued DEF Pick, OwnersTyped
<1>3. PICK p : p = readyQueue[k]
  OBVIOUS
<1>4. /\ pc[c] = "top"
      /\ readyQueue' = Rotated(readyQueue, k)
      /\ current' = [current EXCEPT ![c] = p]
      /\ added' = added
  BY <1>3 DEF Pick, MayPick
<1> HIDE DEF k
<1>5. p \in Processes /\ p # None /\ InQueue(readyQueue, p)
  BY <1>1, <1>2, <1>3, ElementOfSeq, RRAssumption DEF OwnersTyped, InQueue
<1>6. \A q : InQueue(readyQueue', q) <=> InQueue(readyQueue, q) /\ q # p
  BY <1>1, <1>2, <1>3, <1>4, RotatedTakesOne DEF OwnersTyped, PlacedOnce
<1>7. current[c] = None /\ \A d \in Cores : current'[d] = IF d = c THEN p ELSE current[d]
  BY <1>1, <1>4 DEF HoldsWhileRunning, OwnersTyped
<1>8. \A d \in Cores : current[d] # p
  BY <1>1, <1>5 DEF PlacedOnce
<1>9. PlaceIn(p, readyQueue, current, added) = <<"waiting">>
  BY <1>5, <1>8 DEF PlaceIn
<1>10. PlaceIn(p, readyQueue', current', added') = <<"core", c>>
  <2>1. (CHOOSE d \in Cores : current'[d] = p) = c
    BY <1>7, <1>8
  <2> QED
    BY <1>7, <2>1 DEF PlaceIn
<1>11. ASSUME NEW q \in Processes, q # p
       PROVE  PlaceIn(q, readyQueue', current', added') = PlaceIn(q, readyQueue, current, added)
  <2>1. \A d \in Cores : current'[d] = q <=> current[d] = q
    BY <1>7, <1>11, RRAssumption
  <2>2. (CHOOSE d \in Cores : current'[d] = q) = (CHOOSE d \in Cores : current[d] = q)
    BY <2>1
  <2> QED
    BY <1>4, <1>6, <1>11, <2>1, <2>2 DEF PlaceIn
<1>12. ASSUME NEW q \in Processes
       PROVE  PlaceIn(q, readyQueue, current, added) # <<"core", c>>
  <2>1. CASE \E d \in Cores : current[d] = q
    <3>1. (CHOOSE d \in Cores : current[d] = q) # c
      BY <1>7, <2>1, RRAssumption
    <3> QED
      BY <2>1, <3>1 DEF PlaceIn
  <2>2. CASE ~ \E d \in Cores : current[d] = q
    BY <2>2 DEF PlaceIn
  <2> QED
    BY <2>1, <2>2
<1>13. /\ \A q \in Processes : Places[q] # <<"core", c>>
       /\ Places[p] = <<"waiting">>
       /\ Places' = [q \in Processes |-> IF q \in {p} THEN <<"core", c>> ELSE Places[q]]
  BY <1>5, <1>9, <1>10, <1>11, <1>12, PlacesAreIn
<1>14. c \in AScheduler!FreeCores
  BY <1>13 DEF AScheduler!FreeCores, AScheduler!On, Places
<1> DEFINE onto == [q \in {p} |-> c]
<1>15. onto \in AScheduler!Injection({p}, AScheduler!FreeCores)
  BY <1>14 DEF AScheduler!Injection, AScheduler!IsInjective
<1>16. {p} \in (SUBSET {q \in Processes : Places[q] = <<"waiting">>}) \ {{}}
  BY <1>5, <1>13
<1>17. Places' = [q \in Processes |-> IF q \in {p} THEN <<"core", onto[q]>> ELSE Places[q]]
  BY <1>13
<1> QED
  BY <1>15, <1>16, <1>17 DEF AScheduler!Serve, AScheduler!Waiting, AScheduler!On, Places

\* The end of a turn preempts the process or completes it.
LEMMA EndingTurnLeavesCore ==
  ASSUME IdsDiffer, OwnerInv, NEW c \in Cores, EndTurn(c)
  PROVE  \/ AScheduler!Preempt(current[c], c)
         \/ AScheduler!Complete(current[c], c)
<1>1. /\ OwnersTyped /\ HoldsWhileRunning
      /\ PlacedOnce(readyQueue, current, isFinished, added)
  BY OneOwnerIsPlacedOnce DEF OwnerInv
<1>2. PICK p : p = current[c]
  OBVIOUS
<1>3. /\ pc[c] = "exec"
      /\ current' = [current EXCEPT ![c] = None]
      /\ added' = added
      /\ readyQueue' = IF isFinished[p] THEN readyQueue ELSE Append(readyQueue, p)
  BY <1>2 DEF EndTurn, Retire, Requeue
<1>4. p # None /\ p \in Processes
  BY <1>1, <1>2, <1>3 DEF HoldsWhileRunning, OwnersTyped
<1>5. ~InQueue(readyQueue, p) /\ p \in added
  BY <1>1, <1>2, <1>4 DEF PlacedOnce
<1>6. \A q : InQueue(readyQueue', q) <=> InQueue(readyQueue, q) \/ (q = p /\ ~isFinished[p])
  <2>1. CASE isFinished[p]
    BY <1>3, <2>1
  <2>2. CASE ~isFinished[p]
    BY <1>1, <1>3, <1>4, <1>5, <2>2, AppendedLast DEF OwnersTyped, PlacedOnce
  <2> QED
    BY <2>1, <2>2
<1>7. \A d \in Cores : current'[d] = IF d = c THEN None ELSE current[d]
  BY <1>1, <1>3 DEF OwnersTyped
<1>8. \A d \in Cores : current[d] = p <=> d = c
  BY <1>1, <1>2, <1>4 DEF PlacedOnce
<1>9. PlaceIn(p, readyQueue, current, added) = <<"core", c>>
  <2>1. (CHOOSE d \in Cores : current[d] = p) = c
    BY <1>8
  <2> QED
    BY <1>8, <2>1 DEF PlaceIn
<1>10. PlaceIn(p, readyQueue', current', added')
         = IF isFinished[p] THEN <<"finished">> ELSE <<"waiting">>
  <2>1. \A d \in Cores : current'[d] # p
    BY <1>4, <1>7, <1>8
  <2> QED
    BY <1>3, <1>5, <1>6, <2>1 DEF PlaceIn
<1>11. ASSUME NEW q \in Processes, q # p
       PROVE  PlaceIn(q, readyQueue', current', added') = PlaceIn(q, readyQueue, current, added)
  <2>1. \A d \in Cores : current'[d] = q <=> current[d] = q
    BY <1>2, <1>7, <1>11, RRAssumption
  <2>2. (CHOOSE d \in Cores : current'[d] = q) = (CHOOSE d \in Cores : current[d] = q)
    BY <2>1
  <2> QED
    BY <1>3, <1>6, <1>11, <2>1, <2>2 DEF PlaceIn
<1>12. /\ Places[p] = <<"core", c>>
       /\ Places' = [Places EXCEPT ![p] = IF isFinished[p] THEN <<"finished">> ELSE <<"waiting">>]
  BY <1>4, <1>9, <1>10, <1>11, PlacesAreIn
<1> QED
  BY <1>2, <1>12 DEF AScheduler!Preempt, AScheduler!Complete, AScheduler!Move, AScheduler!On,
                     AScheduler!Waiting, AScheduler!Finished, Places

\* At first no process has been submitted.
LEMMA SchedulingInitially == Init => AScheduler!Init
<1> SUFFICES ASSUME Init
             PROVE  AScheduler!Init
  OBVIOUS
<1>1. readyQueue = << >> /\ current = [c \in Cores |-> None] /\ added = {}
  BY DEF Init
<1>2. \A p \in Processes : ~InQueue(readyQueue, p) /\ \A c \in Cores : current[c] # p
  BY <1>1, RRAssumption DEF InQueue
<1>3. Places = [p \in Processes |-> <<"outside">>]
  BY <1>1, <1>2, PlacesAreIn DEF PlaceIn
<1> QED
  BY <1>3 DEF AScheduler!Init, AScheduler!Outside, Places

\* Every step is one of the abstract scheduler or leaves all places as they are.
LEMMA SchedulingStep ==
  ASSUME IdsDiffer, OwnerInv, [Next]_vars
  PROVE  [AScheduler!Next]_Places
<1>1. CASE (OwnerStep /\ UNCHANGED <<handlerVars, rrVars>>) \/ WakeWorkers \/ WaitStep
           \/ UNCHANGED vars
  BY <1>1, NothingMoves DEF WakeWorkers, WaitStep, vars, rrVars
<1>2. ASSUME NEW p \in Processes, addProcess(p)
      PROVE  AScheduler!Next
  BY <1>2, AddingSubmits DEF AScheduler!Next
<1>3. ASSUME NEW c \in Cores, Pick(c)
      PROVE  AScheduler!Next
  BY <1>3, PickingServes DEF AScheduler!Next
<1>4. ASSUME NEW c \in Cores, EndTurn(c)
      PROVE  AScheduler!Next
  <2>1. current[c] \in Processes
    BY <1>4 DEF OwnerInv, OwnersTyped, HoldsWhileRunning, EndTurn
  <2> QED
    BY <1>4, <2>1, EndingTurnLeavesCore DEF AScheduler!Next
<1>5. ASSUME NEW c \in Cores, PickNone(c) \/ Execute(c) \/ NotifyOthers(c)
      PROVE  Places' = Places
  BY <1>5, NothingMoves DEF PickNone, Execute, NotifyOthers, rrVars
<1> QED
  BY <1>1, <1>2, <1>3, <1>4, <1>5 DEF Next, WorkerStep

\* Whatever the interleaving of the workers, RRScheduler::workerLoop only ever
\* moves a process from the queue to a core that nobody uses, back into the
\* queue, or to its end.
THEOREM RoundRobinImplementsScheduling ==
  ASSUME IdsDiffer PROVE Spec => ImplementsScheduling
<1>1. OwnerInv /\ [Next]_vars => OwnerInv'
  BY OwnerInvKept
<1>2. OwnerInv /\ [Next]_vars => [AScheduler!Next]_Places
  BY SchedulingStep
<1> QED
  BY <1>1, <1>2, OwnerInvInitially, SchedulingInitially, PTL
  DEF Spec, ImplementsScheduling, AScheduler!Spec, Places

===============================================================================

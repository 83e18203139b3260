--------------------------------- MODULE FCFS ---------------------------------
(***************************************************************************)
(* FCFSScheduler: the scheduler thread gives the oldest waiting process to *)
(* the lowest free core, and the worker of that core runs it to its end.   *)
(* A process that has finished stays in the running list of the handler;   *)
(* the memory manager is never used.                                       *)
(*                                                                         *)
(* Running a process is abstracted to a countdown, as in RoundRobin.       *)
(***************************************************************************)
EXTENDS Scheduler, FiniteSetsExt

CONSTANTS
  Ticks,    \* Ticks[p] is the number of executeNextInstruction calls p needs
  None      \* the null shared_ptr

ASSUME FCFSAssumption ==
  /\ Ticks \in [Processes -> Nat \ {0}]
  /\ None \notin Processes

VARIABLES
  processQueue,
  coreAvailable,
  current,         \* current[c], the process worker c holds, or None
  ticksLeft,
  added            \* processes handed to addProcess so far

fcfsVars == <<processQueue, coreAvailable, current, ticksLeft, added>>
vars == <<schedulerVars, handlerVars, fcfsVars>>

Init ==
  /\ SchedulerInit
  /\ HandlerInit
  /\ processQueue = << >>
  /\ coreAvailable = [c \in Cores |-> TRUE]
  /\ current = [c \in Cores |-> None]
  /\ ticksLeft = Ticks
  /\ added = {}

-------------------------------------------------------------------------------
\* populateProcesses hands over each process once, after start().
addProcess(p) ==
  /\ mainPc # "constructed"
  /\ QueueMutexFree
  /\ p \notin added
  /\ added' = added \cup {p}
  /\ processQueue' = Append(processQueue, p)
  /\ NotifyOne
  /\ UNCHANGED <<running, mainPc, handlerVars, coreAvailable, current, ticksLeft>>

FreeCores == {c \in Cores : coreAvailable[c]}

\* findAvailableCore returns the lowest free core: of those it returns one after
\* the other in an iteration of schedulerLoop, c is the Rank(c)-th ...
Rank(c) == Cardinality({d \in FreeCores : d <= c})

\* ... and it is asked for as many as there are processes.
ServedCores == {c \in FreeCores : Rank(c) <= Len(processQueue)}

DropDispatched_All(queue, n) == << >>

DropDispatched(queue, n) == SubSeq(queue, n + 1, Len(queue))

\* One iteration of schedulerLoop, with queueMutex held throughout: as long as
\* there are a process and a free core the one goes to the other.
Dispatch ==
  /\ pc[SchedulerThread] = "top"
  /\ QueueMutexFree
  /\ running
  /\ processQueue # << >>
  /\ FreeCores # {}
  /\ LET n == Cardinality(ServedCores)
         Given(p) == {c \in ServedCores : processQueue[Rank(c)] = p}
     IN  /\ processQueue' = DropDispatched(processQueue, n)
         /\ assignedCore' = [p \in Processes |->
              IF Given(p) = {} THEN assignedCore[p] ELSE Max(Given(p))]
         /\ runningList' = FoldLeft(WithProcess, runningList, SubSeq(processQueue, 1, n))
  /\ coreAvailable' = [c \in Cores |-> coreAvailable[c] /\ c \notin ServedCores]
  /\ pc' = NotifyAll(pc)
  /\ UNCHANGED <<running, mainPc, finishedList, isFinished, current, ticksLeft, added>>

Awaited_EldestOnly(t) ==
  IF t = SchedulerThread THEN processQueue # << >>
  ELSE \E i \in 1..Len(runningList) :
         /\ \A j \in 1..i : assignedCore[runningList[j]] = t => i = j
         /\ UnfinishedOnCore(runningList[i], t)

\* What thread t waits for, besides the end.
Awaited(t) ==
  IF t = SchedulerThread THEN processQueue # << >> ELSE hasUnfinishedProcessOnCore(t)

WaitStep ==
  /\ \E t \in Threads : \/ BeginWait(t, Awaited(t))
                        \/ Block(t)
                        \/ SpuriousWakeup(t)
                        \/ LeaveLoop(t)
  /\ UNCHANGED <<handlerVars, fcfsVars>>

-------------------------------------------------------------------------------
(* workerLoop *)

Take(c) ==
  /\ pc[c] = "top"
  /\ QueueMutexFree
  /\ running
  /\ hasUnfinishedProcessOnCore(c)
  /\ current' = [current EXCEPT ![c] = firstUnfinishedProcessOnCore(c)]
  /\ pc' = [pc EXCEPT ![c] = "exec"]
  /\ UNCHANGED <<running, mainPc, handlerVars, processQueue, coreAvailable,
                 ticksLeft, added>>

TurnContinues_Forever(c) == running

TurnContinues(c) == ~isFinished[current[c]] /\ running

\* executeNextInstruction
Execute(c) ==
  /\ pc[c] = "exec"
  /\ TurnContinues(c)
  /\ LET p == current[c]
     IN  /\ ticksLeft' = [ticksLeft EXCEPT ![p] = @ - 1]
         /\ isFinished' = [isFinished EXCEPT ![p] = (ticksLeft[p] = 1)]
  /\ UNCHANGED <<schedulerVars, runningList, finishedList, assignedCore,
                 processQueue, coreAvailable, current, added>>

FreeCore_Every(c) == coreAvailable' = [d \in Cores |-> TRUE]
FreeCore_Never(c) == UNCHANGED coreAvailable

FreeCore(c) == coreAvailable' = [coreAvailable EXCEPT ![c] = TRUE]

\* The worker frees its core and notifies, all under queueMutex. (Setting
\* isFinished of a process that has finished changes nothing.)
EndRun(c) ==
  /\ pc[c] = "exec"
  /\ ~TurnContinues(c)
  /\ QueueMutexFree
  /\ FreeCore(c)
  /\ current' = [current EXCEPT ![c] = None]
  /\ pc' = NotifyAll([pc EXCEPT ![c] = "top"])
  /\ UNCHANGED <<running, mainPc, handlerVars, processQueue, ticksLeft, added>>

WorkerStep(c) == Take(c) \/ Execute(c) \/ EndRun(c)

Next ==
  \/ OwnerStep /\ UNCHANGED <<handlerVars, fcfsVars>>
  \/ \E p \in Processes : addProcess(p)
  \/ Dispatch
  \/ WaitStep
  \/ \E c \in Cores : WorkerStep(c)

Spec == Init /\ [][Next]_vars
-------------------------------------------------------------------------------
(* Properties *)

\* A worker holds a process exactly while it is in the loop that runs it, and
\* does not run a process that has finished.
TypeOK ==
  /\ HandlerTypeOK
  /\ running \in BOOLEAN
  /\ mainPc \in {"constructed", "started", "stopping", "joining", "stopped"}
  /\ pc \in [Threads -> {"top", "blocking", "waiting", "done", "exec"}]
  /\ \A c \in Cores : pc[c] = "exec" <=> current[c] # None
  /\ processQueue \in Seq(Processes)
  /\ coreAvailable \in [Cores -> BOOLEAN]
  /\ current \in [Cores -> Processes \cup {None}]
  /\ ticksLeft \in [Processes -> Nat]
  /\ added \subseteq Processes

Dispatched(p) == p \in ToSet(runningList)
Queued(p) == p \in ToSet(processQueue)

\* Until stop() no core has more than one unfinished process, a core with one is
\* not available, and the process a worker runs is the one its core was given:
\* a core is freed by its worker alone, and only when its process has finished.
OneProcessPerCore ==
  mainPc \in {"constructed", "started"} =>
    \A c \in Cores :
      LET unfinished == {p \in Processes : Dispatched(p) /\ UnfinishedOnCore(p, c)}
      IN  /\ Cardinality(unfinished) <= 1
          /\ coreAvailable[c] => unfinished = {} /\ current[c] = None
          /\ current[c] # None => unfinished \subseteq {current[c]}

\* A core is taken only while a process is assigned to it or its worker has yet
\* to free it: no core is lost to a process that the handler does not record.
NoCoreIsLost ==
  \A c \in Cores : ~coreAvailable[c] =>
    hasUnfinishedProcessOnCore(c) \/ current[c] # None

\* Every process added is either waiting in the queue or recorded as dispatched,
\* never both and never twice.
NoneLost ==
  /\ \A p \in Processes : p \in added <=> Queued(p) \/ Dispatched(p)
  /\ IsInjective(runningList \o processQueue)

\* First come, first served: processes reach cores in the order they were
\* added, and are listed in that order.
FirstComeFirstServed ==
  [][IsPrefix(runningList \o processQueue, runningList' \o processQueue')]_vars

PlaceOf(p) ==
  IF p \notin added THEN <<"outside">>
  ELSE IF isFinished[p] THEN <<"finished">>
  ELSE IF Queued(p) THEN <<"waiting">>
  ELSE <<"core", assignedCore[p]>>

AScheduler == INSTANCE Scheduling
  WITH Preemptive <- FALSE, place <- [p \in Processes |-> PlaceOf(p)]

\* FCFS is a scheduler without preemption: a process added waits until it gets a
\* core of its own, which it keeps until it has finished.
ImplementsScheduling == AScheduler!Spec

-------------------------------------------------------------------------------
(* Liveness, under the assumptions of RoundRobin *)

TakesMutex(t) ==
  \/ BeginWait(t, Awaited(t)) /\ UNCHANGED <<handlerVars, fcfsVars>>
  \/ t = SchedulerThread /\ Dispatch
  \/ t \in Cores /\ (Take(t) \/ EndRun(t))

WithoutMutex(t) ==
  \/ (Block(t) \/ LeaveLoop(t)) /\ UNCHANGED <<handlerVars, fcfsVars>>
  \/ t \in Cores /\ Execute(t)

ThreadFairness ==
  /\ WF_vars(OwnerProgress /\ UNCHANGED <<handlerVars, fcfsVars>>)
  /\ \A t \in Threads : SF_vars(TakesMutex(t)) /\ WF_vars(WithoutMutex(t))

FairSpec == Spec /\ ThreadFairness

\* A process is queued, the scheduler thread is asleep, and no worker runs a
\* process at whose end it would notify.
Stalled ==
  /\ processQueue # << >>
  /\ pc[SchedulerThread] = "waiting"
  /\ \A c \in Cores : pc[c] # "exec"

\* Every process added finishes, unless stop() is called, a thread has left
\* early, or the notification of addProcess woke a worker.
AddedFinishes ==
  \A p \in Processes : p \in added ~> isFinished[p] \/ ~running \/ LeftEarly \/ Stalled

===============================================================================

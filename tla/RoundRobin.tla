------------------------------ MODULE RoundRobin ------------------------------
(***************************************************************************)
(* RRScheduler: workers take turns to pick a process from the ready queue, *)
(* give it memory if it has none, run it for at most a quantum and put it  *)
(* back, or retire it when it has finished.                                *)
(*                                                                         *)
(* Running a process is abstracted to a countdown of calls of              *)
(* executeNextInstruction, ticksLeft (module Process shows that a process  *)
(* is such a countdown).                                                   *)
(***************************************************************************)
EXTENDS Scheduler, MemoryBlocks

CONSTANTS
  Quantum,    \* executeNextInstruction calls per turn
  Need,       \* Need[p] is p's memoryRequired
  Ticks,      \* Ticks[p] is the number of calls p needs to finish
  None        \* the null shared_ptr

ASSUME RRAssumption ==
  /\ Quantum \in Nat
  /\ Need \in [Processes -> Nat]
  /\ Ticks \in [Processes -> Nat \ {0}]
  /\ None \notin Processes
  /\ IdOf \in [Processes -> ProcessIds]

VARIABLES
  readyQueue,
  memoryBlocks,
  nextCoreId,      \* the core whose turn it is
  coreAvailable,
  current,         \* current[c], the process worker c holds, or None
  cyclesUsed,      \* cyclesUsed[c], calls made in this turn of worker c
  ticksLeft,
  added            \* processes handed to addProcess so far

rrVars == <<readyQueue, memoryBlocks, nextCoreId, coreAvailable, current,
            cyclesUsed, ticksLeft, added>>
vars == <<schedulerVars, handlerVars, rrVars>>

Init ==
  /\ SchedulerInit
  /\ HandlerInit
  /\ readyQueue = << >>
  /\ memoryBlocks = InitialBlocks
  /\ nextCoreId = 0
  /\ coreAvailable = [c \in Cores |-> TRUE]
  /\ current = [c \in Cores |-> None]
  /\ cyclesUsed = [c \in Cores |-> 0]
  /\ ticksLeft = Ticks
  /\ added = {}

-------------------------------------------------------------------------------
\* populateProcesses hands over each process once, after start().
addProcess(p) ==
  /\ mainPc # "constructed"
  /\ QueueMutexFree
  /\ p \notin added
  /\ added' = added \cup {p}
  /\ readyQueue' = Append(readyQueue, p)
  /\ NotifyOne
  /\ UNCHANGED <<running, mainPc, handlerVars, memoryBlocks, nextCoreId,
                 coreAvailable, current, cyclesUsed, ticksLeft>>

\* One iteration of schedulerLoop that finds the queue not empty.
WakeWorkers ==
  /\ pc[SchedulerThread] = "top"
  /\ QueueMutexFree
  /\ running
  /\ readyQueue # << >>
  /\ pc' = NotifyAll(pc)
  /\ UNCHANGED <<running, mainPc, handlerVars, rrVars>>

\* Both loops wait for the queue not to be empty, or for the end.
WaitStep ==
  /\ \E t \in Threads : \/ BeginWait(t, readyQueue # << >>)
                        \/ Block(t)
                        \/ SpuriousWakeup(t)
                        \/ LeaveLoop(t)
  /\ UNCHANGED <<handlerVars, rrVars>>

-------------------------------------------------------------------------------
(* workerLoop *)

\* The worker is past its wait and it is its turn. (A worker that finds it is
\* not its turn goes back to the head of its loop: a step that changes nothing.)
MayPick(c) ==
  /\ pc[c] = "top"
  /\ QueueMutexFree
  /\ running
  /\ readyQueue # << >>
  /\ nextCoreId = c

Runnable(p) ==
  IsInMemory(memoryBlocks, IdOf[p]) \/ CanAllocate(memoryBlocks, IdOf[p], Need[p])

PassTurn_WithoutWrap == nextCoreId' = nextCoreId + 1

PassTurn == nextCoreId' = (nextCoreId + 1) % NumCores

\* The queue after its k-th process is taken: those before it, which found no
\* memory, have been put back in the order they came.
Rotated_KeepsTaken(queue, k) ==
  SubSeq(queue, k, Len(queue)) \o SubSeq(queue, 1, k - 1)

Rotated(queue, k) == SubSeq(queue, k + 1, Len(queue)) \o SubSeq(queue, 1, k - 1)

AssignCore_OnAdmission(p, c) ==
  assignedCore' = IF p \in ToSet(runningList) THEN assignedCore
                  ELSE [assignedCore EXCEPT ![p] = c]

\* setAssignedCore
AssignCore(p, c) == assignedCore' = [assignedCore EXCEPT ![p] = c]

Pick(c) ==
  /\ MayPick(c)
  /\ \E i \in 1..Len(readyQueue) : Runnable(readyQueue[i])
  /\ LET k == SelectInSeq(readyQueue, LAMBDA p : Runnable(p))
         p == readyQueue[k]
     IN  /\ readyQueue' = Rotated(readyQueue, k)
         /\ memoryBlocks' = AfterAllocate(memoryBlocks, IdOf[p], Need[p])
         /\ current' = [current EXCEPT ![c] = p]
         /\ AssignCore(p, c)
         /\ runningList' = WithProcess(runningList, p)
  /\ coreAvailable' = [coreAvailable EXCEPT ![c] = FALSE]
  /\ cyclesUsed' = [cyclesUsed EXCEPT ![c] = 0]
  /\ PassTurn
  /\ pc' = [pc EXCEPT ![c] = "exec"]
  /\ UNCHANGED <<running, mainPc, finishedList, isFinished, ticksLeft, added>>

\* Every process in the queue was tried and put back.
PickNone(c) ==
  /\ MayPick(c)
  /\ \A i \in 1..Len(readyQueue) : ~Runnable(readyQueue[i])
  /\ PassTurn
  /\ UNCHANGED <<schedulerVars, handlerVars, readyQueue, memoryBlocks,
                 coreAvailable, current, cyclesUsed, ticksLeft, added>>

TurnContinues(c) ==
  cyclesUsed[c] < Quantum /\ ~isFinished[current[c]] /\ running

\* executeNextInstruction
Execute(c) ==
  /\ pc[c] = "exec"
  /\ TurnContinues(c)
  /\ LET p == current[c]
     IN  /\ ticksLeft' = [ticksLeft EXCEPT ![p] = @ - 1]
         /\ isFinished' = [isFinished EXCEPT ![p] = (ticksLeft[p] = 1)]
  /\ cyclesUsed' = [cyclesUsed EXCEPT ![c] = @ + 1]
  /\ UNCHANGED <<schedulerVars, runningList, finishedList, assignedCore,
                 readyQueue, memoryBlocks, nextCoreId, coreAvailable, current, added>>

Retire_KeepsMemory(p) ==
  /\ MoveToFinished(IdOf[p])
  /\ UNCHANGED <<memoryBlocks, readyQueue, assignedCore>>

Retire(p) ==
  /\ MoveToFinished(IdOf[p])
  /\ memoryBlocks' = AfterDeallocate(memoryBlocks, IdOf[p])
  /\ UNCHANGED <<readyQueue, assignedCore>>

Requeue_InFront(p) ==
  /\ readyQueue' = <<p>> \o readyQueue
  /\ UNCHANGED <<handlerVars, memoryBlocks>>

Requeue(p) ==
  /\ readyQueue' = Append(readyQueue, p)
  /\ UNCHANGED <<handlerVars, memoryBlocks>>

\* The worker gives up its process under queueMutex ...
EndTurn(c) ==
  /\ pc[c] = "exec"
  /\ ~TurnContinues(c)
  /\ QueueMutexFree
  /\ IF isFinished[current[c]] THEN Retire(current[c]) ELSE Requeue(current[c])
  /\ coreAvailable' = [coreAvailable EXCEPT ![c] = TRUE]
  /\ current' = [current EXCEPT ![c] = None]
  /\ cyclesUsed' = [cyclesUsed EXCEPT ![c] = 0]
  /\ pc' = [pc EXCEPT ![c] = "notify"]
  /\ UNCHANGED <<running, mainPc, nextCoreId, ticksLeft, added>>

\* ... and notifies the others after releasing it.
NotifyOthers(c) ==
  /\ pc[c] = "notify"
  /\ pc' = NotifyAll([pc EXCEPT ![c] = "top"])
  /\ UNCHANGED <<running, mainPc, handlerVars, rrVars>>

WorkerStep(c) ==
  Pick(c) \/ PickNone(c) \/ Execute(c) \/ EndTurn(c) \/ NotifyOthers(c)

Next ==
  \/ OwnerStep /\ UNCHANGED <<handlerVars, rrVars>>
  \/ \E p \in Processes : addProcess(p)
  \/ WakeWorkers
  \/ WaitStep
  \/ \E c \in Cores : WorkerStep(c)

Spec == Init /\ [][Next]_vars
-------------------------------------------------------------------------------
(* Properties *)

ThreadStates == {"top", "blocking", "waiting", "done", "exec", "notify"}

\* The turn stays on a core there is, and no worker exceeds its quantum.
TypeOK ==
  /\ HandlerTypeOK
  /\ running \in BOOLEAN
  /\ mainPc \in {"constructed", "started", "stopping", "joining", "stopped"}
  /\ pc \in [Threads -> ThreadStates]
  /\ readyQueue \in Seq(Processes)
  /\ memoryBlocks \in Seq(Blocks)
  /\ nextCoreId \in Cores
  /\ coreAvailable \in [Cores -> BOOLEAN]
  /\ current \in [Cores -> Processes \cup {None}]
  /\ cyclesUsed \in [Cores -> 0..Quantum]
  /\ ticksLeft \in [Processes -> Nat]
  /\ added \subseteq Processes

Queued(p) == \E i \in 1..Len(readyQueue) : readyQueue[i] = p
HeldBy(c, p) == current[c] = p
Held(p) == \E c \in Cores : HeldBy(c, p)
Retired(p) == p \in added /\ isFinished[p] /\ ~Held(p)

\* A process handed to addProcess is always in exactly one place: once in the
\* ready queue, with one worker, or retired. So no two workers ever run the
\* same process, and none is dropped between a worker and the queue.
OneOwner ==
  /\ \A i, j \in 1..Len(readyQueue) : readyQueue[i] = readyQueue[j] => i = j
  /\ \A c, d \in Cores : current[c] = current[d] /\ current[c] # None => c = d
  /\ \A p \in Processes :
       /\ Queued(p) => ~Held(p) /\ ~isFinished[p]
       /\ Queued(p) \/ Held(p) \/ Retired(p) <=> p \in added

\* A worker runs a process only while the process has a block of the size it
\* asked for: memory given at its first turn is not taken by others' calls
\* of allocateMemory or deallocateMemory between its turns.
RunsInMemory ==
  \A c \in Cores : current[c] # None =>
    \E i \in 1..Len(memoryBlocks) :
      /\ HoldsProcess(memoryBlocks[i], IdOf[current[c]])
      /\ memoryBlocks[i].size = Need[current[c]]

\* MemoryManager and ProcessHandler, two structures with locks of their own,
\* agree on which processes are admitted: the running list holds exactly the
\* processes with memory, each once, and the finished list the retired ones.
ListsMatchMemory ==
  /\ \A p \in Processes : IsInMemory(memoryBlocks, IdOf[p]) <=> p \in ToSet(runningList)
  /\ \A p \in Processes : Retired(p) <=> p \in ToSet(finishedList)
  /\ \A i, j \in 1..Len(runningList) : runningList[i] = runningList[j] => i = j
  /\ \A i, j \in 1..Len(finishedList) : finishedList[i] = finishedList[j] => i = j

\* When no process is admitted all of memory is one free block again, whatever
\* the order in which the processes came and went.
MemoryComesBack == runningList = << >> => memoryBlocks = InitialBlocks

\* The screen -ls line of a process that is running names the core it runs on,
\* and coreAvailable is false exactly for the cores that hold a process.
CoresMatchWorkers ==
  \A c \in Cores :
    /\ coreAvailable[c] <=> current[c] = None
    /\ current[c] # None => assignedCore[current[c]] = c

Before(queue, p, q) ==
  \E i, j \in 1..Len(queue) : i < j /\ queue[i] = p /\ queue[j] = q

\* No process that has memory is overtaken in the queue by any other: those
\* put back for want of memory, preempted or new go behind it.
ResidentsKeepOrder ==
  [][\A p, q \in Processes :
       /\ Queued(p) /\ Queued(p)'
       /\ IsInMemory(memoryBlocks, IdOf[p])
       /\ Before(readyQueue', q, p)
       => Before(readyQueue, q, p)]_vars

PlaceOf(p) ==
  IF Held(p) THEN <<"core", CHOOSE c \in Cores : HeldBy(c, p)>>
  ELSE IF Queued(p) THEN <<"waiting">>
  ELSE IF p \in added THEN <<"finished">> ELSE <<"outside">>

AScheduler == INSTANCE Scheduling
  WITH Preemptive <- TRUE, place <- [p \in Processes |-> PlaceOf(p)]

\* Round robin is a preemptive scheduler: every process added waits, is on one
\* core that it does not share, or has finished for good, and moves between
\* these only from a waiting process to a free core and back, or to its end.
ImplementsScheduling == AScheduler!Spec

-------------------------------------------------------------------------------
(* Liveness. The operating system schedules every thread. queueMutex is held
   only briefly, so a thread that keeps asking for it gets it: strong fairness
   for the steps that lock it, since others may lock it again and again. Nothing
   obliges addProcess or stop to be called, or cv to wake a waiter spuriously. *)

TakesMutex(t) ==
  \/ BeginWait(t, readyQueue # << >>) /\ UNCHANGED <<handlerVars, rrVars>>
  \/ t = SchedulerThread /\ WakeWorkers
  \/ t \in Cores /\ (Pick(t) \/ PickNone(t) \/ EndTurn(t))

WithoutMutex(t) ==
  \/ (Block(t) \/ LeaveLoop(t)) /\ UNCHANGED <<handlerVars, rrVars>>
  \/ t \in Cores /\ (Execute(t) \/ NotifyOthers(t))

ThreadFairness ==
  /\ WF_vars(OwnerProgress /\ UNCHANGED <<handlerVars, rrVars>>)
  /\ \A t \in Threads : SF_vars(TakesMutex(t)) /\ WF_vars(WithoutMutex(t))

FairSpec == Spec /\ ThreadFairness

\* A process is queued, and no thread will act on it: the worker whose turn it
\* is and the scheduler thread are both asleep, and no worker is about to notify.
Stalled ==
  /\ readyQueue # << >>
  /\ pc[nextCoreId] \in {"waiting", "done"}
  /\ pc[SchedulerThread] \in {"waiting", "done"}
  /\ \A c \in Cores : pc[c] \notin {"exec", "notify"}

\* Every process that fits in memory and was added is retired, unless stop() is
\* called, a thread has left early, or a notification went to the wrong thread:
\* no process starves in the queue for want of memory or of its turn.
AddedIsRetired ==
  \A p \in Processes : Need[p] <= MaxMemory =>
    (p \in added ~> Retired(p) \/ ~running \/ LeftEarly \/ Stalled)

\* `Fair turn-based access per core' (RoundRobin.cpp:51): while processes are
\* queued the turn moves on from every core.
TurnMovesOn ==
  \A c \in Cores :
    nextCoreId = c /\ readyQueue # << >> ~>
      nextCoreId # c \/ readyQueue = << >> \/ ~running \/ LeftEarly

\* `screen -ls -> displays running and finished processes as well as CPU
\* utilization' (README.md:57): a process it lists as running on a core is the
\* one the core's worker runs.
ListedIsRunning ==
  mainPc = "started" =>
    \A p \in CurrentlyActivePerCore(Cores) : current[assignedCore[p]] = p

===============================================================================

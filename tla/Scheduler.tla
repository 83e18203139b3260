------------------------------- MODULE Scheduler ------------------------------
(***************************************************************************)
(* What both schedulers inherit: the thread that builds, starts and stops  *)
(* the scheduler, and the waiting of its threads on the one condition      *)
(* variable cv with queueMutex.                                            *)
(*                                                                         *)
(* Threads are numbered: a worker has the number of its core, and the      *)
(* thread of schedulerLoop the number after the last core. A thread is     *)
(*   "top"      at the head of its loop: it reads `running' and, holding   *)
(*              queueMutex, its wait predicate. A thread that cv has woken *)
(*              evaluates the predicate again, so it is back here;         *)
(*   "blocking" inside cv.wait, holding queueMutex, having found the       *)
(*              predicate false, not yet registered as a waiter;           *)
(*   "waiting"  registered with cv, without queueMutex;                    *)
(*   "done"     returned from its loop.                                    *)
(* The subclasses add the states of a worker that holds a process. All     *)
(* else done under queueMutex is one action, so a thread is seen holding   *)
(* queueMutex only while it is "blocking".                                 *)
(***************************************************************************)
EXTENDS ProcessHandler

CONSTANT NumCores

ASSUME NumCoresAssumption == NumCores \in Nat \ {0}

VARIABLES
  running,    \* Scheduler::running, the atomic flag the loops test
  mainPc,     \* the thread that owns the scheduler: see the actions below
  pc          \* pc[t], the state of thread t

schedulerVars == <<running, mainPc, pc>>

Cores == 0..(NumCores - 1)
SchedulerThread == NumCores
Threads == 0..NumCores

QueueMutexFree == \A t \in Threads : pc[t] # "blocking"

SchedulerInit ==
  /\ running = FALSE
  /\ mainPc = "constructed"
  /\ pc = [t \in Threads |-> "top"]

-------------------------------------------------------------------------------
(* std::condition_variable *)

\* notify_all: every registered waiter resumes and evaluates its predicate.
NotifyAll(states) ==
  [t \in Threads |-> IF states[t] = "waiting" THEN "top" ELSE states[t]]

\* notify_one: one registered waiter resumes, whichever; none if there is none.
NotifyOne ==
  \/ \E t \in Threads : pc[t] = "waiting" /\ pc' = [pc EXCEPT ![t] = "top"]
  \/ (\A t \in Threads : pc[t] # "waiting") /\ UNCHANGED pc

\* cv.wait may resume a waiter without a notification; it never has to.
SpuriousWakeup(t) ==
  /\ pc[t] = "waiting"
  /\ pc' = [pc EXCEPT ![t] = "top"]
  /\ UNCHANGED <<running, mainPc>>

BeginWait_IgnoringStop(t, predicate) ==
  /\ pc[t] = "top"
  /\ QueueMutexFree
  /\ ~predicate
  /\ pc' = [pc EXCEPT ![t] = "blocking"]
  /\ UNCHANGED <<running, mainPc>>

\* cv.wait found its predicate false ...
BeginWait(t, predicate) ==
  /\ pc[t] = "top"
  /\ QueueMutexFree
  /\ running
  /\ ~predicate
  /\ pc' = [pc EXCEPT ![t] = "blocking"]
  /\ UNCHANGED <<running, mainPc>>

\* ... and registers the thread and releases queueMutex in one step.
Block(t) ==
  /\ pc[t] = "blocking"
  /\ pc' = [pc EXCEPT ![t] = "waiting"]
  /\ UNCHANGED <<running, mainPc>>

\* `while (running)', or `if (!running) break' after the wait.
LeaveLoop(t) ==
  /\ pc[t] = "top"
  /\ ~running
  /\ pc' = [pc EXCEPT ![t] = "done"]
  /\ UNCHANGED <<running, mainPc>>

-------------------------------------------------------------------------------
(* start and stop, called by the thread that constructed the scheduler     *)

\* The constructor has started the threads before start() sets the flag.
start ==
  /\ mainPc = "constructed"
  /\ mainPc' = "started"
  /\ running' = TRUE
  /\ UNCHANGED pc

stop_ClearFlag ==
  /\ mainPc = "started"
  /\ mainPc' = "stopping"
  /\ running' = FALSE
  /\ UNCHANGED pc

\* cv.notify_all(), without queueMutex.
stop_NotifyAll ==
  /\ mainPc = "stopping"
  /\ mainPc' = "joining"
  /\ pc' = NotifyAll(pc)
  /\ UNCHANGED running

stop_Join ==
  /\ mainPc = "joining"
  /\ \A t \in Threads : pc[t] = "done"
  /\ mainPc' = "stopped"
  /\ UNCHANGED <<running, pc>>

OwnerStep == start \/ stop_ClearFlag \/ stop_NotifyAll \/ stop_Join

\* start() follows the constructor, and stop() runs to its end once called;
\* whether it is called is the user's choice.
OwnerProgress == start \/ stop_NotifyAll \/ stop_Join

-------------------------------------------------------------------------------
(* Properties of both schedulers *)

\* A thread has returned from its loop although nobody has called stop().
LeftEarly == mainPc \in {"constructed", "started"} /\ \E t \in Threads : pc[t] = "done"

\* stop() returns if at its notify_all no thread was inside cv.wait between its
\* test of the predicate and its sleep: a thread that wakes, or ends its turn,
\* after `running' was cleared never goes to sleep again.
StopReturnsIfAllAwake ==
  mainPc = "joining" /\ (\A t \in Threads : pc[t] \notin {"blocking", "waiting"})
    ~> mainPc = "stopped"

\* `Type exit to quit' (main.cpp:74): stop(), which exit calls, returns.
StopReturns == mainPc = "stopping" ~> mainPc = "stopped"

\* `num-cpu = number of scheduler cpu cores' (README.md:24): a started scheduler
\* has all its workers until it is stopped.
AllCoresServe == mainPc = "started" => \A c \in Cores : pc[c] # "done"

===============================================================================

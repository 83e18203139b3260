------------------------------- MODULE FCFSProofs ------------------------------
(***************************************************************************)
(* FCFS gives every process one core, for itself and until it has          *)
(* finished, loses no process and no core, serves in the order of          *)
(* addProcess, and implements the abstract scheduler; and what screen -ls  *)
(* prints beside it is complete. For every number of cores and every set   *)
(* of processes whose ids differ.                                          *)
(***************************************************************************)
EXTENDS FCFSReports, ListLemmas

\* What ShellProofs shows of the processes of one populate thread.
IdsDiffer == \A p, q \in Processes : IdOf[p] = IdOf[q] => p = q

NotStopped == mainPc \in {"constructed", "started"}

RunsWhileStarted == running <=> mainPc = "started"

\* Processes are handed over after start().
AddedAfterStart == mainPc = "constructed" => added = {}

\* executeNextInstruction is called only while calls are left.
CountsDown == \A p \in Processes : isFinished[p] <=> ticksLeft[p] = 0

\* Only dispatched processes have finished, have a core, or are with a worker.
DispatchedFirst ==
  /\ \A p \in Processes : isFinished[p] => Dispatched(p)
  /\ \A p \in Processes : Dispatched(p) => assignedCore[p] \in Cores
  /\ \A c \in Cores : current[c] # None =>
       Dispatched(current[c]) /\ assignedCore[current[c]] = c

Unfinished(p, c) == Dispatched(p) /\ UnfinishedOnCore(p, c)

\* OneProcessPerCore, process by process.
CoresAreOwned ==
  NotStopped =>
    /\ \A c \in Cores, p \in Processes : Unfinished(p, c) =>
         /\ ~coreAvailable[c]
         /\ current[c] \in {None, p}
         /\ \A q \in Processes : Unfinished(q, c) => q = p
    /\ \A c \in Cores : coreAvailable[c] => current[c] = None

FCFSInv ==
  /\ TypeOK
  /\ RunsWhileStarted
  /\ AddedAfterStart
  /\ CountsDown
  /\ NoneLost
  /\ DispatchedFirst
  /\ CoresAreOwned
  /\ NoCoreIsLost

-------------------------------------------------------------------------------
(* Lists *)

\* insertProcess, process after process, appends them all if their ids are new.
LEMMA AllAreInserted ==
  ASSUME IdsDiffer, NEW list \in Seq(Processes), NEW new \in Seq(Processes),
         IsInjective(list \o new)
  PROVE  FoldLeft(WithProcess, list, new) = list \o new
<1> DEFINE T == {t \in Seq(Processes) :
                   IsInjective(list \o t) => FoldLeft(WithProcess, list, t) = list \o t}
<1>1. /\ FoldLeft(WithProcess, list, << >>) = list
      /\ \A s \in Seq(Processes), e \in Processes :
           FoldLeft(WithProcess, list, Append(s, e)) =
             WithProcess(FoldLeft(WithProcess, list, s), e)
  <2>1. FoldStep(WithProcess, list, Processes)
    BY FoldLeftStep
  <2> QED
    BY <2>1 DEF FoldStep
<1>2. << >> \in T
  BY <1>1, ConcatEmptySeq, EmptySeq
<1>3. ASSUME NEW s \in Seq(Processes), NEW e \in Processes, s \in T
      PROVE  Append(s, e) \in T
  <2>1. Append(s, e) \in Seq(Processes) /\ list \o s \in Seq(Processes)
    BY AppendProperties, ConcatProperties
  <2>2. list \o Append(s, e) = Append(list \o s, e)
    BY ConcatAppend
  <2> SUFFICES ASSUME IsInjective(list \o Append(s, e))
               PROVE  FoldLeft(WithProcess, list, Append(s, e)) = list \o Append(s, e)
    BY <2>1
  <2>3. IsInjective(list \o s) /\ e \notin ToSet(list \o s)
    BY <2>1, <2>2, InjectiveAppend
  <2>4. FoldLeft(WithProcess, list, s) = list \o s
    BY <1>3, <2>3
  <2>5. \A i \in 1..Len(list \o s) : IdOf[(list \o s)[i]] # IdOf[e]
    <3> TAKE i \in 1..Len(list \o s)
    <3>1. (list \o s)[i] \in Processes /\ (list \o s)[i] # e
      BY <2>1, <2>3, ElementOfSeq, LenProperties DEF ToSet
    <3> QED
      BY <3>1 DEF IdsDiffer
  <2> QED
    BY <1>1, <2>2, <2>4, <2>5 DEF WithProcess
<1>4. Seq(Processes) \subseteq T
  <2> HIDE DEF T
  <2> QED
    BY <1>2, <1>3, SeqSetInduction
<1> QED
  BY <1>4

-------------------------------------------------------------------------------
(* Threads *)

ThreadStates == {"top", "blocking", "waiting", "done", "exec"}

\* A worker is a thread numbered by its core.
LEMMA CoresAreThreads == Cores \subseteq Threads /\ Cores \subseteq Int
BY NumCoresAssumption DEF Cores, Threads

\* notify_all wakes threads that wait and no other.
LEMMA NotifyAllStates ==
  ASSUME NEW states \in [Threads -> ThreadStates]
  PROVE  /\ NotifyAll(states) \in [Threads -> ThreadStates]
         /\ \A c \in Cores : NotifyAll(states)[c] = "exec" <=> states[c] = "exec"
BY CoresAreThreads DEF NotifyAll, ThreadStates

\* What every part of the invariant but the states of the threads is about.
dataVars == <<handlerVars, processQueue, coreAvailable, current, ticksLeft, added>>

\* A step that only moves threads, none into or out of "exec".
LEMMA NoProcessMoves ==
  ASSUME FCFSInv, UNCHANGED dataVars, UNCHANGED mainPc, UNCHANGED running,
         pc' \in [Threads -> ThreadStates],
         \A c \in Cores : pc'[c] = "exec" <=> pc[c] = "exec"
  PROVE  FCFSInv'
<1>1. /\ UNCHANGED <<runningList, finishedList, assignedCore, isFinished>>
      /\ UNCHANGED <<processQueue, coreAvailable, current, ticksLeft, added>>
  BY DEF dataVars, handlerVars
<1>2. TypeOK'
  BY <1>1 DEF FCFSInv, TypeOK, HandlerTypeOK, ThreadStates
<1>3. RunsWhileStarted' /\ AddedAfterStart' /\ CountsDown'
  BY <1>1 DEF FCFSInv, RunsWhileStarted, AddedAfterStart, CountsDown
<1>4. NoneLost' /\ DispatchedFirst'
  BY <1>1 DEF FCFSInv, NoneLost, DispatchedFirst, Queued, Dispatched
<1>5. CoresAreOwned' /\ NoCoreIsLost'
  BY <1>1 DEF FCFSInv, CoresAreOwned, NotStopped, NoCoreIsLost, Unfinished, Dispatched,
              UnfinishedOnCore, hasUnfinishedProcessOnCore
<1> QED
  BY <1>2, <1>3, <1>4, <1>5 DEF FCFSInv

\* Going to sleep on cv is such a step.
LEMMA WaitingMovesNothing ==
  ASSUME FCFSInv, WaitStep
  PROVE  FCFSInv'
<1>1. PICK t \in Threads : \/ BeginWait(t, Awaited(t)) \/ Block(t)
                           \/ SpuriousWakeup(t) \/ LeaveLoop(t)
  BY DEF WaitStep
<1>2. \E state \in {"blocking", "waiting", "top", "done"} :
        pc[t] # "exec" /\ pc' = [pc EXCEPT ![t] = state]
  BY <1>1 DEF BeginWait, Block, SpuriousWakeup, LeaveLoop
<1>3. pc \in [Threads -> ThreadStates]
  BY DEF FCFSInv, TypeOK, ThreadStates
<1>4. /\ pc' \in [Threads -> ThreadStates]
      /\ \A c \in Cores : pc'[c] = "exec" <=> pc[c] = "exec"
  BY <1>2, <1>3, CoresAreThreads DEF ThreadStates
<1>5. UNCHANGED dataVars /\ UNCHANGED mainPc /\ UNCHANGED running
  BY <1>1 DEF WaitStep, fcfsVars, dataVars, BeginWait, Block, SpuriousWakeup, LeaveLoop
<1> QED
  BY <1>4, <1>5, NoProcessMoves

\* start() and stop() change no process; after stop() nothing is promised of
\* cores, and it is never started again.
LEMMA OwnerMovesNothing ==
  ASSUME FCFSInv, OwnerStep, UNCHANGED <<handlerVars, fcfsVars>>
  PROVE  FCFSInv'
<1>1. /\ UNCHANGED <<runningList, finishedList, assignedCore, isFinished>>
      /\ UNCHANGED <<processQueue, coreAvailable, current, ticksLeft, added>>
  BY DEF fcfsVars, handlerVars
<1>2. pc \in [Threads -> ThreadStates]
  BY DEF FCFSInv, TypeOK, ThreadStates
<1>3. /\ pc' \in [Threads -> ThreadStates]
      /\ \A c \in Cores : pc'[c] = "exec" <=> pc[c] = "exec"
  BY <1>2, NotifyAllStates DEF OwnerStep, start, stop_ClearFlag, stop_NotifyAll, stop_Join
<1>4. /\ mainPc' \in {"started", "stopping", "joining", "stopped"}
      /\ running' \in BOOLEAN
      /\ running' <=> mainPc' = "started"
      /\ NotStopped' => NotStopped
  <2>1. running \in BOOLEAN /\ (running <=> mainPc = "started")
    BY DEF FCFSInv, TypeOK, RunsWhileStarted
  <2>2. CASE start
    BY <2>2 DEF start, NotStopped
  <2>3. CASE stop_ClearFlag
    BY <2>3 DEF stop_ClearFlag, NotStopped
  <2>4. CASE stop_NotifyAll \/ stop_Join
    BY <2>1, <2>4 DEF stop_NotifyAll, stop_Join, NotStopped
  <2> QED
    BY <2>2, <2>3, <2>4 DEF OwnerStep
<1>5. TypeOK'
  BY <1>1, <1>3, <1>4 DEF FCFSInv, TypeOK, HandlerTypeOK, ThreadStates
<1>6. RunsWhileStarted' /\ AddedAfterStart' /\ CountsDown'
  BY <1>1, <1>4 DEF FCFSInv, RunsWhileStarted, AddedAfterStart, CountsDown
<1>7. NoneLost' /\ DispatchedFirst'
  BY <1>1 DEF FCFSInv, NoneLost, DispatchedFirst, Queued, Dispatched
<1>8. CoresAreOwned' /\ NoCoreIsLost'
  BY <1>1, <1>4 DEF FCFSInv, CoresAreOwned, NoCoreIsLost, Unfinished, Dispatched,
                    UnfinishedOnCore, hasUnfinishedProcessOnCore
<1> QED
  BY <1>5, <1>6, <1>7, <1>8 DEF FCFSInv

-------------------------------------------------------------------------------
(* addProcess *)

\* addProcess: the process is new, so it is nowhere else.
LEMMA Adding ==
  ASSUME FCFSInv, NEW p \in Processes, addProcess(p)
  PROVE  FCFSInv'
<1>1. /\ UNCHANGED <<runningList, finishedList, assignedCore, isFinished>>
      /\ UNCHANGED <<running, mainPc, coreAvailable, current, ticksLeft>>
      /\ p \notin added
      /\ added' = added \cup {p}
      /\ processQueue' = Append(processQueue, p)
      /\ mainPc # "constructed"
  BY DEF addProcess, handlerVars
<1>2. /\ processQueue \in Seq(Processes)
      /\ runningList \in Seq(Processes)
      /\ pc \in [Threads -> ThreadStates]
  BY DEF FCFSInv, TypeOK, HandlerTypeOK, ThreadStates
<1>3. /\ pc' \in [Threads -> ThreadStates]
      /\ \A c \in Cores : pc'[c] = "exec" <=> pc[c] = "exec"
  BY <1>2, CoresAreThreads DEF addProcess, NotifyOne, ThreadStates
<1>4. processQueue' \in Seq(Processes) /\ ToSet(processQueue') = ToSet(processQueue) \cup {p}
  BY <1>1, <1>2, AppendProperties, ElementsOfAppend
<1>5. TypeOK'
  BY <1>1, <1>3, <1>4 DEF FCFSInv, TypeOK, HandlerTypeOK, ThreadStates
<1>6. RunsWhileStarted' /\ AddedAfterStart' /\ CountsDown' /\ DispatchedFirst'
  BY <1>1 DEF FCFSInv, RunsWhileStarted, AddedAfterStart, CountsDown, DispatchedFirst, Dispatched
<1>7. NoneLost'
  <2>1. \A q \in Processes : q \in added' <=> Queued(q)' \/ Dispatched(q)'
    BY <1>1, <1>4 DEF FCFSInv, NoneLost, Queued, Dispatched
  <2>2. runningList \o processQueue \in Seq(Processes)
    BY <1>2, ConcatProperties
  <2>3. runningList' \o processQueue' = Append(runningList \o processQueue, p)
    BY <1>1, <1>2, ConcatAppend
  <2>4. p \notin ToSet(runningList \o processQueue)
    BY <1>1, <1>2, ElementsOfConcat DEF FCFSInv, NoneLost, Queued, Dispatched
  <2>5. IsInjective(runningList \o processQueue)
    BY DEF FCFSInv, NoneLost
  <2> QED
    BY <2>1, <2>2, <2>3, <2>4, <2>5, InjectiveAppend DEF NoneLost
<1>8. CoresAreOwned' /\ NoCoreIsLost'
  BY <1>1 DEF FCFSInv, CoresAreOwned, NotStopped, NoCoreIsLost, Unfinished, Dispatched,
              UnfinishedOnCore, hasUnfinishedProcessOnCore
<1> QED
  BY <1>5, <1>6, <1>7, <1>8 DEF FCFSInv

-------------------------------------------------------------------------------
(* workerLoop *)

\* The search for the first unfinished process of a core finds one.
LEMMA FoundIsUnfinished ==
  ASSUME runningList \in Seq(Processes), NEW c \in Cores, hasUnfinishedProcessOnCore(c)
  PROVE  /\ firstUnfinishedProcessOnCore(c) \in Processes
         /\ Unfinished(firstUnfinishedProcessOnCore(c), c)
<1> DEFINE I == {i \in 1..Len(runningList) : UnfinishedOnCore(runningList[i], c)}
<1>1. Len(runningList) \in Nat /\ DOMAIN runningList = 1..Len(runningList)
  BY LenProperties
<1>2. I \in SUBSET Nat /\ I # {} /\ I \subseteq 1..Len(runningList)
  BY <1>1 DEF hasUnfinishedProcessOnCore
<1>3. SelectInSeq(runningList, LAMBDA p : UnfinishedOnCore(p, c)) = Min(I)
  BY <1>2 DEF SelectInSeq
<1> HIDE DEF I
<1>4. Min(I) \in I
  BY <1>2, MinIsLeast
<1>5. firstUnfinishedProcessOnCore(c) = runningList[Min(I)]
  BY <1>3 DEF firstUnfinishedProcessOnCore
<1>6. Min(I) \in 1..Len(runningList) /\ UnfinishedOnCore(runningList[Min(I)], c)
  BY <1>4 DEF I
<1> QED
  BY <1>1, <1>5, <1>6, ElementOfSeq DEF Unfinished, Dispatched, ToSet

\* The search by core in the handler's list, as a statement on processes.
LEMMA HasUnfinished ==
  ASSUME runningList \in Seq(Processes), NEW c
  PROVE  hasUnfinishedProcessOnCore(c) <=> \E p \in Processes : Unfinished(p, c)
<1>1. DOMAIN runningList = 1..Len(runningList)
  BY LenProperties
<1>2. \A i \in 1..Len(runningList) : runningList[i] \in Processes
  BY ElementOfSeq
<1> QED
  BY <1>1, <1>2 DEF hasUnfinishedProcessOnCore, Unfinished, Dispatched, ToSet

\* The worker takes the process that was dispatched to its core.
LEMMA Taking ==
  ASSUME FCFSInv, NEW c \in Cores, Take(c)
  PROVE  FCFSInv'
<1>1. PICK p : p = firstUnfinishedProcessOnCore(c)
  OBVIOUS
<1>2. p \in Processes /\ Unfinished(p, c) /\ p # None
  BY <1>1, FoundIsUnfinished, FCFSAssumption DEF Take, FCFSInv, TypeOK, HandlerTypeOK
<1>3. /\ UNCHANGED <<runningList, finishedList, assignedCore, isFinished>>
      /\ UNCHANGED <<running, mainPc, processQueue, coreAvailable, ticksLeft, added>>
      /\ current' = [current EXCEPT ![c] = p]
      /\ pc' = [pc EXCEPT ![c] = "exec"]
      /\ running
  BY <1>1 DEF Take, handlerVars
<1>4. current \in [Cores -> Processes \cup {None}] /\ pc \in [Threads -> ThreadStates]
  BY DEF FCFSInv, TypeOK, ThreadStates
<1>5. /\ current' \in [Cores -> Processes \cup {None}]
      /\ pc' \in [Threads -> ThreadStates]
      /\ \A d \in Cores : pc'[d] = "exec" <=> current'[d] # None
  <2>1. \A d \in Cores : pc[d] = "exec" <=> current[d] # None
    BY DEF FCFSInv, TypeOK
  <2> QED
    BY <1>2, <1>3, <1>4, <2>1, CoresAreThreads DEF ThreadStates
<1>6. TypeOK'
  BY <1>3, <1>5 DEF FCFSInv, TypeOK, HandlerTypeOK, ThreadStates
<1>7. RunsWhileStarted' /\ AddedAfterStart' /\ CountsDown' /\ NoneLost'
  BY <1>3 DEF FCFSInv, RunsWhileStarted, AddedAfterStart, CountsDown, NoneLost, Queued, Dispatched
<1>8. DispatchedFirst'
  BY <1>2, <1>3, <1>4 DEF FCFSInv, DispatchedFirst, Dispatched, Unfinished, UnfinishedOnCore
<1>9. CoresAreOwned'
  <2>1. NotStopped
    BY <1>3 DEF NotStopped, FCFSInv, RunsWhileStarted
  <2> QED
    BY <1>2, <1>3, <1>4, <2>1 DEF FCFSInv, CoresAreOwned, NotStopped, Unfinished, Dispatched,
                                  UnfinishedOnCore
<1>10. NoCoreIsLost'
  BY <1>2, <1>3, <1>4 DEF FCFSInv, NoCoreIsLost, hasUnfinishedProcessOnCore, UnfinishedOnCore
<1> QED
  BY <1>6, <1>7, <1>8, <1>9, <1>10 DEF FCFSInv

\* A call of executeNextInstruction.
LEMMA Executing ==
  ASSUME FCFSInv, NEW c \in Cores, Execute(c)
  PROVE  FCFSInv'
<1>1. PICK p : p = current[c]
  OBVIOUS
<1>2. /\ p \in Processes /\ p # None /\ ~isFinished[p] /\ running
      /\ Dispatched(p) /\ assignedCore[p] = c
  BY <1>1 DEF Execute, TurnContinues, FCFSInv, TypeOK, DispatchedFirst
<1>3. /\ UNCHANGED <<runningList, finishedList, assignedCore>>
      /\ UNCHANGED <<running, mainPc, pc, processQueue, coreAvailable, current, added>>
      /\ ticksLeft' = [ticksLeft EXCEPT ![p] = ticksLeft[p] - 1]
      /\ isFinished' = [isFinished EXCEPT ![p] = (ticksLeft[p] = 1)]
  BY <1>1 DEF Execute, schedulerVars
<1>4. /\ ticksLeft \in [Processes -> Nat] /\ isFinished \in [Processes -> BOOLEAN]
      /\ ticksLeft[p] # 0
  BY <1>2 DEF FCFSInv, TypeOK, HandlerTypeOK, CountsDown
<1>5. /\ ticksLeft' \in [Processes -> Nat] /\ isFinished' \in [Processes -> BOOLEAN]
      /\ ticksLeft'[p] = ticksLeft[p] - 1
      /\ isFinished'[p] <=> ticksLeft[p] = 1
      /\ \A q \in Processes : q # p =>
           ticksLeft'[q] = ticksLeft[q] /\ isFinished'[q] = isFinished[q]
      /\ \A q \in Processes : isFinished[q] => isFinished'[q]
  <2>1. /\ ticksLeft' \in [Processes -> Nat]
        /\ ticksLeft'[p] = ticksLeft[p] - 1
        /\ \A q \in Processes : q # p => ticksLeft'[q] = ticksLeft[q]
    BY <1>2, <1>3, <1>4
  <2>2. PICK last \in BOOLEAN : last <=> ticksLeft[p] = 1
    OBVIOUS
  <2>3. isFinished' = [isFinished EXCEPT ![p] = last]
    BY <1>3, <2>2
  <2>4. /\ isFinished' \in [Processes -> BOOLEAN]
        /\ isFinished'[p] = last
        /\ \A q \in Processes : q # p => isFinished'[q] = isFinished[q]
    BY <1>2, <1>4, <2>3
  <2>5. \A q \in Processes : isFinished[q] => isFinished'[q]
    BY <1>2, <2>4, Zenon
  <2> QED
    BY <2>1, <2>2, <2>4, <2>5
<1>6. TypeOK'
  BY <1>3, <1>5 DEF FCFSInv, TypeOK, HandlerTypeOK
<1>7. CountsDown'
  BY <1>2, <1>4, <1>5 DEF FCFSInv, CountsDown
<1>8. RunsWhileStarted' /\ AddedAfterStart' /\ NoneLost'
  BY <1>3 DEF FCFSInv, RunsWhileStarted, AddedAfterStart, NoneLost, Queued, Dispatched
<1>9. DispatchedFirst'
  BY <1>2, <1>3, <1>5 DEF FCFSInv, DispatchedFirst, Dispatched
<1>10. CoresAreOwned'
  BY <1>3, <1>5 DEF FCFSInv, CoresAreOwned, NotStopped, Unfinished, Dispatched, UnfinishedOnCore
<1>11. NoCoreIsLost'
  <2>1. runningList \in Seq(Processes) /\ runningList' \in Seq(Processes)
    BY <1>3 DEF FCFSInv, TypeOK, HandlerTypeOK
  <2> SUFFICES ASSUME NEW d \in Cores, ~coreAvailable[d], d # c
               PROVE  hasUnfinishedProcessOnCore(d)' \/ current'[d] # None
    BY <1>1, <1>2, <1>3 DEF NoCoreIsLost
  <2>2. CASE current[d] # None
    BY <1>3, <2>2
  <2>3. CASE hasUnfinishedProcessOnCore(d)
    <3>1. PICK i \in 1..Len(runningList) : UnfinishedOnCore(runningList[i], d)
      BY <2>3 DEF hasUnfinishedProcessOnCore
    <3>2. runningList[i] \in Processes /\ runningList[i] # p
      BY <1>2, <2>1, <3>1, ElementOfSeq DEF UnfinishedOnCore
    <3> QED
      BY <1>3, <1>5, <3>1, <3>2 DEF hasUnfinishedProcessOnCore, UnfinishedOnCore
  <2> QED
    BY <2>2, <2>3 DEF FCFSInv, NoCoreIsLost
<1> QED
  BY <1>6, <1>7, <1>8, <1>9, <1>10, <1>11 DEF FCFSInv

\* The worker frees its core when its process has finished.
LEMMA Ending ==
  ASSUME FCFSInv, NEW c \in Cores, EndRun(c)
  PROVE  FCFSInv'
<1> DEFINE back == [pc EXCEPT ![c] = "top"]
<1>1. /\ UNCHANGED <<runningList, finishedList, assignedCore, isFinished>>
      /\ UNCHANGED <<running, mainPc, processQueue, ticksLeft, added>>
      /\ coreAvailable' = [coreAvailable EXCEPT ![c] = TRUE]
      /\ current' = [current EXCEPT ![c] = None]
      /\ pc[c] = "exec"
      /\ pc' = NotifyAll(back)
      /\ isFinished[current[c]] \/ ~running
  BY DEF EndRun, FreeCore, TurnContinues, handlerVars
<1>2. /\ current \in [Cores -> Processes \cup {None}] /\ pc \in [Threads -> ThreadStates]
      /\ coreAvailable \in [Cores -> BOOLEAN]
      /\ current[c] \in Processes /\ current[c] # None
      /\ \A d \in Cores : pc[d] = "exec" <=> current[d] # None
  BY <1>1 DEF FCFSInv, TypeOK, ThreadStates
<1>3. /\ pc' \in [Threads -> ThreadStates]
      /\ \A d \in Cores : pc'[d] = "exec" <=> current'[d] # None
  <2>1. /\ back \in [Threads -> ThreadStates]
        /\ \A d \in Cores : back[d] = "exec" <=> pc[d] = "exec" /\ d # c
    BY <1>2, CoresAreThreads DEF ThreadStates
  <2> HIDE DEF back
  <2>2. /\ pc' \in [Threads -> ThreadStates]
        /\ \A d \in Cores : pc'[d] = "exec" <=> back[d] = "exec"
    BY <1>1, <2>1, NotifyAllStates
  <2> QED
    BY <1>1, <1>2, <2>1, <2>2
<1>4. TypeOK'
  BY <1>1, <1>2, <1>3 DEF FCFSInv, TypeOK, HandlerTypeOK, ThreadStates
<1>5. RunsWhileStarted' /\ AddedAfterStart' /\ CountsDown' /\ NoneLost'
  BY <1>1 DEF FCFSInv, RunsWhileStarted, AddedAfterStart, CountsDown, NoneLost, Queued, Dispatched
<1>6. DispatchedFirst'
  BY <1>1, <1>2 DEF FCFSInv, DispatchedFirst, Dispatched
<1>7. NotStopped => isFinished[current[c]]
  <2>1. mainPc # "constructed"
    BY <1>2 DEF FCFSInv, AddedAfterStart, NoneLost, DispatchedFirst
  <2> QED
    BY <1>1, <2>1 DEF FCFSInv, RunsWhileStarted, NotStopped
<1>8. CoresAreOwned'
  <2> SUFFICES ASSUME NotStopped PROVE CoresAreOwned'
    BY <1>1 DEF CoresAreOwned, NotStopped
  <2>1. \A p \in Processes : ~Unfinished(p, c)
    BY <1>2, <1>7 DEF FCFSInv, CoresAreOwned, Unfinished, UnfinishedOnCore
  <2> QED
    BY <1>1, <1>2, <2>1 DEF FCFSInv, CoresAreOwned, NotStopped, Unfinished, Dispatched, UnfinishedOnCore
<1>9. NoCoreIsLost'
  BY <1>1, <1>2 DEF FCFSInv, NoCoreIsLost, hasUnfinishedProcessOnCore, UnfinishedOnCore
<1> QED
  BY <1>4, <1>5, <1>6, <1>8, <1>9 DEF FCFSInv

-------------------------------------------------------------------------------
(* schedulerLoop *)

\* The free cores up to one are fewer than those up to a higher one, and are
\* served if it is: the ranks of the cores served are 1 to their number.
LEMMA RanksAreCounted ==
  ASSUME coreAvailable \in [Cores -> BOOLEAN], processQueue \in Seq(Processes)
  PROVE  /\ IsFiniteSet(ServedCores) /\ ServedCores \subseteq FreeCores
         /\ Cardinality(ServedCores) \in 0..Len(processQueue)
         /\ \A c \in ServedCores : Rank(c) \in 1..Cardinality(ServedCores)
         /\ \A c, d \in ServedCores : Rank(c) = Rank(d) => c = d
         /\ \A i \in 1..Cardinality(ServedCores) : \E c \in ServedCores : Rank(c) = i
<1> DEFINE UpTo(c) == {d \in FreeCores : d <= c}
           n == Cardinality(ServedCores)
<1>1. IsFiniteSet(FreeCores) /\ FreeCores \subseteq Int
  <2>1. IsFiniteSet(Cores) /\ Cores \subseteq Int
    BY NumCoresAssumption, FS_Interval DEF Cores
  <2> QED
    BY <2>1, FS_Subset DEF FreeCores
<1>2. IsFiniteSet(ServedCores) /\ ServedCores \subseteq FreeCores /\ n \in Nat
  BY <1>1, FS_Subset, FS_CardinalityType DEF ServedCores
<1>3. \A c : /\ IsFiniteSet(UpTo(c))
             /\ Rank(c) = Cardinality(UpTo(c))
             /\ Rank(c) \in Nat
  BY <1>1, FS_Subset, FS_CardinalityType DEF Rank
<1>4. \A c, d \in FreeCores : c < d => Rank(c) < Rank(d)
  <2> TAKE c, d \in FreeCores
  <2> HAVE c < d
  <2>0. c \in Int /\ d \in Int /\ \A e \in FreeCores : e \in Int
    BY <1>1
  <2>1. \A e \in FreeCores : e <= c => e <= d
    BY <2>0
  <2>2. d <= d /\ ~(d <= c)
    BY <2>0
  <2>3. UpTo(c) \in SUBSET UpTo(d) /\ d \in UpTo(d) /\ d \notin UpTo(c)
    BY <2>1, <2>2
  <2> HIDE DEF UpTo
  <2>4. Cardinality(UpTo(c)) <= Cardinality(UpTo(d)) /\ Cardinality(UpTo(d)) # Cardinality(UpTo(c))
    BY <1>3, <2>3, FS_Subset
  <2> QED
    BY <1>3, <2>4
<1>5. \A c, d \in ServedCores : Rank(c) = Rank(d) => c = d
  <2> TAKE c, d \in ServedCores
  <2>1. c \in FreeCores /\ d \in FreeCores
    BY <1>2
  <2>2. c = d \/ c < d \/ d < c
    BY <1>1, <2>1
  <2>3. Rank(c) \in Nat /\ Rank(d) \in Nat
    BY <1>3
  <2> QED
    BY <1>4, <2>1, <2>2, <2>3
<1>6. \A c \in ServedCores : Rank(c) \in 1..n
  <2> TAKE c \in ServedCores
  <2>1. UpTo(c) \in SUBSET ServedCores
    <3> SUFFICES ASSUME NEW d \in FreeCores, d <= c PROVE d \in ServedCores
      OBVIOUS
    <3>1. c \in FreeCores /\ (d = c \/ d < c)
      BY <1>1, <1>2
    <3>2. Rank(c) \in Nat /\ Rank(d) \in Nat /\ Len(processQueue) \in Nat
      BY <1>3, LenProperties
    <3>3. Rank(d) <= Rank(c)
      BY <1>4, <3>1, <3>2
    <3>4. Rank(c) <= Len(processQueue)
      BY DEF ServedCores
    <3>5. Rank(d) <= Len(processQueue)
      BY <3>2, <3>3, <3>4
    <3> QED
      BY <3>5 DEF ServedCores
  <2>2. c \in UpTo(c)
    BY <1>1, <1>2
  <2> HIDE DEF UpTo
  <2>3. Rank(c) <= n
    BY <1>2, <1>3, <2>1, FS_Subset
  <2>4. Rank(c) # 0
    BY <1>3, <2>2, FS_EmptySet
  <2> QED
    BY <1>2, <1>3, <2>3, <2>4
<1>7. \A i \in 1..n : \E c \in ServedCores : Rank(c) = i
  <2> DEFINE rank == [c \in ServedCores |-> Rank(c)]
  <2>1. rank \in Injection(ServedCores, 1..n)
    BY <1>5, <1>6 DEF Injection, IsInjective
  <2>2. IsFiniteSet(1..n) /\ Cardinality(1..n) = n
    BY <1>2, FS_Interval
  <2> HIDE DEF rank
  <2>3. rank \in Surjection(ServedCores, 1..n)
    BY <1>2, <2>1, <2>2, FS_Injection
  <2>4. \A i \in 1..n : \E c \in ServedCores : rank[c] = i
    BY <2>3 DEF Surjection
  <2> QED
    BY <2>4 DEF rank
<1>8. n <= Len(processQueue)
  <2>1. CASE n = 0
    BY <2>1, LenProperties
  <2>2. CASE n # 0
    <3>1. PICK c \in ServedCores : Rank(c) = n
      BY <1>2, <1>7, <2>2
    <3> QED
      BY <3>1 DEF ServedCores
  <2> QED
    BY <2>1, <2>2
<1>9. n \in 0..Len(processQueue)
  BY <1>2, <1>8, LenProperties
<1> QED
  BY <1>2, <1>5, <1>6, <1>7, <1>9

\* An iteration of schedulerLoop gives the oldest processes free cores, each
\* one of its own, and keeps all in order.
LEMMA DispatchGivesCores ==
  ASSUME IdsDiffer, FCFSInv, Dispatch
  PROVE  \E batch \in SUBSET Processes :
           /\ batch # {}
           /\ batch \subseteq ToSet(processQueue)
           /\ processQueue' \in Seq(Processes)
           /\ runningList' \in Seq(Processes)
           /\ runningList' \o processQueue' = runningList \o processQueue
           /\ ToSet(runningList') = ToSet(runningList) \cup batch
           /\ ToSet(processQueue') = ToSet(processQueue) \ batch
           /\ \E core \in Injection(batch, FreeCores) :
                /\ assignedCore' = [p \in Processes |->
                     IF p \in batch THEN core[p] ELSE assignedCore[p]]
                /\ coreAvailable' = [c \in Cores |->
                     coreAvailable[c] /\ \A p \in batch : core[p] # c]
<1> DEFINE n == Cardinality(ServedCores)
           batch == {processQueue[i] : i \in 1..n}
           front == SubSeq(processQueue, 1, n)
<1>1. /\ processQueue \in Seq(Processes)
      /\ runningList \in Seq(Processes)
      /\ coreAvailable \in [Cores -> BOOLEAN]
      /\ assignedCore \in [Processes -> Int]
      /\ IsInjective(runningList \o processQueue)
  BY DEF FCFSInv, TypeOK, HandlerTypeOK, NoneLost
<1>2. /\ ServedCores \subseteq FreeCores
      /\ n \in 0..Len(processQueue)
      /\ \A c \in ServedCores : Rank(c) \in 1..n
      /\ \A c, d \in ServedCores : Rank(c) = Rank(d) => c = d
      /\ \A i \in 1..n : \E c \in ServedCores : Rank(c) = i
  BY <1>1, RanksAreCounted
<1>3. /\ Len(processQueue) \in Nat /\ DOMAIN processQueue = 1..Len(processQueue)
      /\ \A i \in 1..Len(processQueue) : processQueue[i] \in Processes
  BY <1>1, LenProperties, ElementOfSeq
<1>4. IsInjective(processQueue)
  <2>1. /\ Len(runningList) \in Nat
        /\ runningList \o processQueue \in Seq(Processes)
        /\ Len(runningList \o processQueue) = Len(runningList) + Len(processQueue)
        /\ \A i \in 1..(Len(runningList) + Len(processQueue)) :
             (runningList \o processQueue)[i] =
               IF i <= Len(runningList) THEN runningList[i]
               ELSE processQueue[i - Len(runningList)]
    BY <1>1, ConcatProperties, LenProperties
  <2>2. DOMAIN (runningList \o processQueue) = 1..(Len(runningList) + Len(processQueue))
    BY <2>1, LenProperties
  <2> SUFFICES ASSUME NEW i \in 1..Len(processQueue), NEW j \in 1..Len(processQueue),
                      processQueue[i] = processQueue[j]
               PROVE  i = j
    BY <1>3 DEF IsInjective
  <2> DEFINE at(k) == Len(runningList) + k
  <2>3. \A k \in 1..Len(processQueue) :
          /\ at(k) \in 1..(Len(runningList) + Len(processQueue))
          /\ ~(at(k) <= Len(runningList))
          /\ at(k) - Len(runningList) = k
    BY <1>3, <2>1
  <2>4. \A k \in 1..Len(processQueue) : (runningList \o processQueue)[at(k)] = processQueue[k]
    BY <2>1, <2>3
  <2>5. at(i) = at(j)
    BY <1>1, <2>2, <2>3, <2>4 DEF IsInjective
  <2> QED
    BY <1>3, <2>1, <2>5
<1>5. /\ front \in Seq(Processes)
      /\ processQueue' \in Seq(Processes)
      /\ front \o processQueue' = processQueue
      /\ ToSet(front) = batch
      /\ ToSet(processQueue') = ToSet(processQueue) \ batch
  <2>1. processQueue' = SubSeq(processQueue, n + 1, Len(processQueue))
    BY DEF Dispatch, DropDispatched
  <2> HIDE DEF n
  <2>2. /\ front \in Seq(Processes)
        /\ SubSeq(processQueue, n + 1, Len(processQueue)) \in Seq(Processes)
        /\ front \o SubSeq(processQueue, n + 1, Len(processQueue)) = processQueue
        /\ ToSet(front) = batch
        /\ ToSet(SubSeq(processQueue, n + 1, Len(processQueue))) = ToSet(processQueue) \ batch
    <3>1. /\ processQueue \in Seq(Processes) /\ IsInjective(processQueue)
          /\ n \in 0..Len(processQueue)
      BY <1>1, <1>2, <1>4
    <3> QED
      BY ONLY <3>1, FrontAndBack, Zenon DEF batch, front
  <2> HIDE DEF front, batch
  <2> QED
    BY <2>1, <2>2
<1>6. runningList' = FoldLeft(WithProcess, runningList, front)
  BY DEF Dispatch
<1>7. PICK c0 \in ServedCores : Rank(c0) = 1
  <2>1. PICK c \in FreeCores : \A d \in FreeCores : c <= d
    <3>1. FreeCores \in SUBSET Nat /\ FreeCores # {}
      BY NumCoresAssumption DEF FreeCores, Cores, Dispatch
    <3> QED
      BY <3>1, MinIsLeast
  <2>2. {d \in FreeCores : d <= c} = {c}
    <3>1. \A d \in FreeCores : d \in Int
      BY CoresAreThreads DEF FreeCores
    <3>2. \A d \in FreeCores : d <= c <=> d = c
      BY <2>1, <3>1
    <3> QED
      BY <3>2
  <2>3. Rank(c) = 1
    BY <2>2, FS_Singleton DEF Rank
  <2>4. Len(processQueue) # 0
    BY <1>1, EmptySeq DEF Dispatch
  <2> QED
    BY <1>3, <2>3, <2>4 DEF ServedCores
<1>8. batch # {} /\ batch \subseteq ToSet(processQueue) /\ batch \subseteq Processes
  BY <1>2, <1>3, <1>7 DEF ToSet
<1>9. \A p \in batch : \E c \in ServedCores : processQueue[Rank(c)] = p
  BY <1>2
<1>10. \A c, d \in ServedCores : processQueue[Rank(c)] = processQueue[Rank(d)] => c = d
  BY <1>2, <1>3, <1>4 DEF IsInjective
<1>11. \A c \in ServedCores : processQueue[Rank(c)] \in batch
  BY <1>2
<1> DEFINE core == [p \in batch |-> CHOOSE c \in ServedCores : processQueue[Rank(c)] = p]
           Given(p) == {c \in ServedCores : processQueue[Rank(c)] = p}
<1> HIDE DEF batch
<1>12. \A p \in batch : /\ core[p] \in ServedCores
                        /\ processQueue[Rank(core[p])] = p
                        /\ Given(p) = {core[p]}
  <2> TAKE p \in batch
  <2>1. core[p] \in ServedCores /\ processQueue[Rank(core[p])] = p
    BY <1>9
  <2> QED
    BY <1>10, <2>1
<1>13. core \in Injection(batch, FreeCores)
  <2>1. \A p, q \in batch : core[p] = core[q] => p = q
    BY <1>12
  <2> QED
    BY <1>2, <1>12, <2>1 DEF Injection, IsInjective
<1>14. \A c \in ServedCores : \E p \in batch : core[p] = c
  <2> TAKE c \in ServedCores
  <2>1. core[processQueue[Rank(c)]] = c
    BY <1>10, <1>11, <1>12
  <2> QED
    BY <1>11, <2>1
<1> HIDE DEF core
<1>15. coreAvailable' = [c \in Cores |-> coreAvailable[c] /\ \A p \in batch : core[p] # c]
  <2>1. coreAvailable' = [c \in Cores |-> coreAvailable[c] /\ c \notin ServedCores]
    BY DEF Dispatch
  <2>2. \A c : c \notin ServedCores <=> \A p \in batch : core[p] # c
    BY <1>12, <1>14
  <2> QED
    BY <2>1, <2>2
<1>16. \A p \in Processes : IF p \in batch THEN Given(p) # {} /\ Max(Given(p)) = core[p]
                           ELSE Given(p) = {}
  <2> TAKE p \in Processes
  <2>1. CASE p \in batch
    <3>1. Given(p) = {core[p]} /\ core[p] \in Int
      BY <1>2, <1>12, <2>1, CoresAreThreads DEF FreeCores
    <3> HIDE DEF Given
    <3>2. \E x \in Given(p) : \A y \in Given(p) : x >= y
      BY <3>1
    <3>3. Max(Given(p)) \in Given(p)
      BY <3>2 DEF Max
    <3> QED
      BY <2>1, <3>1, <3>3
  <2>2. CASE p \notin batch
    BY <1>11, <2>2
  <2> QED
    BY <2>1, <2>2
<1>17. assignedCore' = [p \in Processes |-> IF p \in batch THEN core[p] ELSE assignedCore[p]]
  <2>1. assignedCore' = [p \in Processes |->
          IF Given(p) = {} THEN assignedCore[p] ELSE Max(Given(p))]
    BY DEF Dispatch
  <2> HIDE DEF Given
  <2> QED
    BY <1>16, <2>1
<1>18. /\ runningList' \in Seq(Processes)
       /\ runningList' \o processQueue' = runningList \o processQueue
       /\ ToSet(runningList') = ToSet(runningList) \cup batch
  <2> HIDE DEF front
  <2>1. (runningList \o front) \o processQueue' = runningList \o processQueue
    <3>1. PICK r \in Seq(Processes) : r = processQueue'
      BY <1>5
    <3>2. (runningList \o front) \o r = runningList \o (front \o r)
      <4>1. /\ runningList \in Seq(Processes) /\ front \in Seq(Processes)
              /\ r \in Seq(Processes)
        BY <1>1, <1>5
      <4> QED
        BY ONLY <4>1, ConcatAssociative
    <3> QED
      BY <1>5, <3>1, <3>2
  <2>2. IsInjective(runningList \o front)
    <3>1. PICK s \in Seq(Processes) : s = runningList \o front
      BY <1>1, <1>5, ConcatProperties
    <3>2. IsInjective(s \o processQueue')
      BY <1>1, <2>1, <3>1
    <3> QED
      BY <1>5, <3>1, <3>2, InjectiveFront
  <2>3. runningList' = runningList \o front
    BY <1>1, <1>5, <1>6, <2>2, AllAreInserted
  <2>4. /\ runningList \o front \in Seq(Processes)
        /\ ToSet(runningList \o front) = ToSet(runningList) \cup ToSet(front)
    BY <1>1, <1>5, ConcatProperties, ElementsOfConcat
  <2> QED
    BY <1>5, <2>1, <2>3, <2>4
<1>19. \E g \in Injection(batch, FreeCores) :
         /\ assignedCore' = [p \in Processes |-> IF p \in batch THEN g[p] ELSE assignedCore[p]]
         /\ coreAvailable' = [c \in Cores |-> coreAvailable[c] /\ \A p \in batch : g[p] # c]
  BY <1>13, <1>15, <1>17
<1> HIDE DEF front, n
<1>20. /\ processQueue' \in Seq(Processes)
       /\ ToSet(processQueue') = ToSet(processQueue) \ batch
  BY <1>5
<1> QED
  BY <1>8, <1>18, <1>19, <1>20, Zenon

\* The scheduler thread: each process it serves gets a core that was free.
LEMMA Dispatching ==
  ASSUME IdsDiffer, FCFSInv, Dispatch
  PROVE  FCFSInv'
<1>0. PICK batch \in SUBSET Processes :
        /\ batch # {}
        /\ batch \subseteq ToSet(processQueue)
        /\ processQueue' \in Seq(Processes)
        /\ runningList' \in Seq(Processes)
        /\ runningList' \o processQueue' = runningList \o processQueue
        /\ ToSet(runningList') = ToSet(runningList) \cup batch
        /\ ToSet(processQueue') = ToSet(processQueue) \ batch
        /\ \E core \in Injection(batch, FreeCores) :
             /\ assignedCore' = [p \in Processes |->
                  IF p \in batch THEN core[p] ELSE assignedCore[p]]
             /\ coreAvailable' = [c \in Cores |->
                  coreAvailable[c] /\ \A p \in batch : core[p] # c]
  BY DispatchGivesCores
<1>1. PICK core \in Injection(batch, FreeCores) :
        /\ assignedCore' = [p \in Processes |->
             IF p \in batch THEN core[p] ELSE assignedCore[p]]
        /\ coreAvailable' = [c \in Cores |->
             coreAvailable[c] /\ \A p \in batch : core[p] # c]
  BY <1>0
<1>2. /\ UNCHANGED <<running, mainPc, finishedList, isFinished, current, ticksLeft, added>>
      /\ pc' = NotifyAll(pc)
      /\ running
  BY DEF Dispatch
<1>3. /\ processQueue \in Seq(Processes)
      /\ runningList \in Seq(Processes)
      /\ coreAvailable \in [Cores -> BOOLEAN]
      /\ assignedCore \in [Processes -> Int]
      /\ pc \in [Threads -> ThreadStates]
      /\ IsInjective(runningList \o processQueue)
  BY DEF FCFSInv, TypeOK, HandlerTypeOK, NoneLost, ThreadStates
<1>4. /\ \A p \in batch : core[p] \in Cores /\ core[p] \in Int /\ coreAvailable[core[p]]
      /\ \A p, q \in batch : core[p] = core[q] => p = q
  BY CoresAreThreads DEF Injection, IsInjective, FreeCores
<1>5. \A p \in batch : ~Dispatched(p) /\ ~isFinished[p]
  <2>1. ToSet(runningList) \cap ToSet(processQueue) = {}
    BY <1>3, InjectiveParts
  <2> QED
    BY <1>0, <2>1 DEF FCFSInv, DispatchedFirst, Dispatched
<1>6. \A p \in Processes : Dispatched(p)' <=> Dispatched(p) \/ p \in batch
  BY <1>0 DEF Dispatched
<1>7. /\ \A p \in batch : assignedCore'[p] = core[p]
      /\ \A p \in Processes : p \notin batch => assignedCore'[p] = assignedCore[p]
  BY <1>1
<1>8. \A c \in Cores : coreAvailable'[c] <=> coreAvailable[c] /\ \A p \in batch : core[p] # c
  BY <1>1
<1>9. TypeOK'
  <2>1. assignedCore' \in [Processes -> Int]
    BY <1>1, <1>3, <1>4
  <2>2. coreAvailable' \in [Cores -> BOOLEAN]
    BY <1>1
  <2>3. /\ pc' \in [Threads -> ThreadStates]
        /\ \A c \in Cores : pc'[c] = "exec" <=> pc[c] = "exec"
    BY <1>2, <1>3, NotifyAllStates
  <2> QED
    BY <1>0, <1>2, <2>1, <2>2, <2>3 DEF FCFSInv, TypeOK, HandlerTypeOK, ThreadStates
<1>10. RunsWhileStarted' /\ AddedAfterStart' /\ CountsDown'
  BY <1>2 DEF FCFSInv, RunsWhileStarted, AddedAfterStart, CountsDown
<1>11. NoneLost'
  <2>1. \A p \in Processes : Queued(p)' \/ Dispatched(p)' <=> Queued(p) \/ Dispatched(p)
    BY <1>0 DEF Queued, Dispatched
  <2>2. IsInjective(runningList' \o processQueue')
    BY <1>0, <1>3
  <2> QED
    BY <1>2, <2>1, <2>2 DEF FCFSInv, NoneLost
<1>12. DispatchedFirst'
  <2>1. \A p \in Processes : isFinished'[p] => Dispatched(p)'
    BY <1>2, <1>6 DEF FCFSInv, DispatchedFirst
  <2>2. \A p \in Processes : Dispatched(p)' => assignedCore'[p] \in Cores
    BY <1>4, <1>6, <1>7 DEF FCFSInv, DispatchedFirst
  <2>3. ASSUME NEW c \in Cores, current'[c] # None
        PROVE  current'[c] \in ToSet(runningList') /\ assignedCore'[current'[c]] = c
    <3>1. PICK p \in Processes : p = current[c] /\ current'[c] = p
      BY <1>2, <2>3 DEF FCFSInv, TypeOK
    <3>2. Dispatched(p) /\ assignedCore[p] = c
      BY <1>2, <2>3, <3>1 DEF FCFSInv, DispatchedFirst
    <3>3. p \notin batch /\ p \in ToSet(runningList')
      BY <1>0, <1>5, <3>2 DEF Dispatched
    <3> QED
      BY <1>7, <3>1, <3>2, <3>3
  <2>4. \A c \in Cores : current'[c] # None =>
          current'[c] \in ToSet(runningList') /\ assignedCore'[current'[c]] = c
    BY <2>3
  <2> QED
    BY <2>1, <2>2, <2>4 DEF DispatchedFirst, Dispatched
<1>13. \A p \in Processes, c \in Cores :
         Unfinished(p, c)' <=> Unfinished(p, c) \/ (p \in batch /\ core[p] = c)
  <2> TAKE p \in Processes, c \in Cores
  <2>1. Unfinished(p, c)' <=> Dispatched(p)' /\ assignedCore'[p] = c /\ ~isFinished'[p]
    BY DEF Unfinished, UnfinishedOnCore
  <2>2. isFinished'[p] = isFinished[p]
    BY <1>2
  <2>3. CASE p \in batch
    BY <1>5, <1>6, <1>7, <2>1, <2>2, <2>3 DEF Unfinished
  <2>4. CASE p \notin batch
    <3>1. Dispatched(p)' <=> Dispatched(p)
      BY <1>6, <2>4
    <3>2. assignedCore'[p] = assignedCore[p]
      BY <1>7, <2>4
    <3> QED
      BY <2>1, <2>2, <2>4, <3>1, <3>2 DEF Unfinished, UnfinishedOnCore
  <2> QED
    BY <2>3, <2>4
<1>14. NotStopped
  BY <1>2 DEF NotStopped, FCFSInv, RunsWhileStarted
<1>15. /\ \A c \in Cores, p \in Processes : Unfinished(p, c) =>
           /\ ~coreAvailable[c]
           /\ current[c] \in {None, p}
           /\ \A q \in Processes : Unfinished(q, c) => q = p
       /\ \A c \in Cores : coreAvailable[c] => current[c] = None
  BY <1>14 DEF FCFSInv, CoresAreOwned
<1>16. CoresAreOwned'
  <2>1. \A c \in Cores : coreAvailable'[c] => current'[c] = None
    BY <1>2, <1>8, <1>15
  <2>2. ASSUME NEW c \in Cores, NEW p \in Processes, Unfinished(p, c)'
        PROVE  /\ ~coreAvailable'[c]
               /\ current'[c] \in {None, p}
               /\ \A q \in Processes : Unfinished(q, c)' => q = p
    <3>1. CASE Unfinished(p, c)
      BY <1>2, <1>4, <1>8, <1>13, <1>15, <3>1
    <3>2. CASE p \in batch /\ core[p] = c
      BY <1>2, <1>4, <1>8, <1>13, <1>15, <3>2
    <3> QED
      BY <1>13, <2>2, <3>1, <3>2
  <2> QED
    BY <2>1, <2>2 DEF CoresAreOwned
<1>17. NoCoreIsLost'
  <2> SUFFICES ASSUME NEW c \in Cores, ~coreAvailable'[c], current'[c] = None
               PROVE  hasUnfinishedProcessOnCore(c)'
    BY DEF NoCoreIsLost
  <2>1. \E p \in Processes : Unfinished(p, c)'
    <3>1. CASE coreAvailable[c]
      BY <1>8, <1>13, <3>1
    <3>2. CASE ~coreAvailable[c]
      <4>1. hasUnfinishedProcessOnCore(c)
        BY <1>2, <3>2 DEF FCFSInv, NoCoreIsLost
      <4>2. PICK p \in Processes : Unfinished(p, c)
        BY <1>3, <4>1, HasUnfinished
      <4>3. Unfinished(p, c)'
        BY <1>13, <4>2
      <4> QED
        BY <4>3
    <3> QED
      BY <3>1, <3>2
  <2>2. PICK p \in Processes : p \in ToSet(runningList') /\ assignedCore'[p] = c /\ ~isFinished'[p]
    BY <2>1 DEF Unfinished, Dispatched, UnfinishedOnCore
  <2>3. \E i \in 1..Len(runningList') : runningList'[i] = p
    BY <1>0, <2>2, LenProperties DEF ToSet
  <2> QED
    BY <2>2, <2>3 DEF hasUnfinishedProcessOnCore, UnfinishedOnCore
<1> QED
  BY <1>9, <1>10, <1>11, <1>12, <1>16, <1>17 DEF FCFSInv

-------------------------------------------------------------------------------
(* The invariant *)

\* At first there is no process and every core is free.
LEMMA FCFSInvInitially == Init => FCFSInv
<1> SUFFICES ASSUME Init PROVE FCFSInv
  OBVIOUS
<1>1. /\ runningList = << >> /\ finishedList = << >> /\ processQueue = << >>
      /\ assignedCore = [p \in Processes |-> NoCore]
      /\ isFinished = [p \in Processes |-> FALSE]
      /\ coreAvailable = [c \in Cores |-> TRUE]
      /\ current = [c \in Cores |-> None]
      /\ ticksLeft = Ticks /\ added = {}
      /\ running = FALSE /\ mainPc = "constructed"
      /\ pc = [t \in Threads |-> "top"]
  BY DEF Init, SchedulerInit, HandlerInit
<1>2. << >> \in Seq(Processes) /\ ToSet(<< >>) = {}
  BY DEF ToSet
<1>3. TypeOK
  <2>1. HandlerTypeOK
    BY <1>1, <1>2 DEF HandlerTypeOK, NoCore
  <2>2. /\ coreAvailable \in [Cores -> BOOLEAN]
        /\ current \in [Cores -> Processes \cup {None}]
        /\ ticksLeft \in [Processes -> Nat]
        /\ pc \in [Threads -> ThreadStates]
        /\ \A c \in Cores : pc[c] = "exec" <=> current[c] # None
    BY <1>1, FCFSAssumption, CoresAreThreads DEF ThreadStates
  <2> QED
    BY <1>1, <1>2, <2>1, <2>2 DEF TypeOK, ThreadStates
<1>4. CountsDown
  BY <1>1, FCFSAssumption DEF CountsDown
<1>5. NoneLost
  <2>1. IsInjective(<< >>)
    BY DEF IsInjective
  <2>2. runningList \o processQueue = << >>
    BY <1>1, <1>2, ConcatEmptySeq
  <2> QED
    BY <1>1, <1>2, <2>1, <2>2 DEF NoneLost, Queued, Dispatched
<1> QED
  BY <1>1, <1>2, <1>3, <1>4, <1>5 DEF FCFSInv, RunsWhileStarted, AddedAfterStart,
     DispatchedFirst, CoresAreOwned, NoCoreIsLost, Unfinished, Dispatched

\* Every step keeps the invariant.
LEMMA FCFSInvKept ==
  ASSUME IdsDiffer, FCFSInv, [Next]_vars
  PROVE  FCFSInv'
<1>1. CASE Next
  BY <1>1, OwnerMovesNothing, Adding, Dispatching, WaitingMovesNothing, Taking, Executing, Ending
     DEF Next, WorkerStep
<1>2. CASE UNCHANGED vars
  <2>1. UNCHANGED dataVars /\ UNCHANGED mainPc /\ UNCHANGED running /\ UNCHANGED pc
    BY <1>2 DEF vars, fcfsVars, schedulerVars, dataVars
  <2> QED
    BY <2>1, NoProcessMoves DEF FCFSInv, TypeOK, ThreadStates
<1> QED
  BY <1>1, <1>2

\* The invariant holds in every state of the scheduler.
LEMMA FCFSInvAlways == ASSUME IdsDiffer PROVE Spec => []FCFSInv
<1>1. FCFSInv /\ [Next]_vars => FCFSInv'
  BY FCFSInvKept
<1> QED
  BY <1>1, FCFSInvInitially, PTL DEF Spec

\* No step writes a value of another type, calls executeNextInstruction of a
\* process that has none left, or has a worker run without holding a process.
THEOREM FCFSTypeCorrect ==
  ASSUME IdsDiffer PROVE Spec => []TypeOK
<1>1. FCFSInv => TypeOK
  BY DEF FCFSInv
<1> QED
  BY <1>1, FCFSInvAlways, PTL

\* schedulerLoop gives a core away only when its worker has freed it, and it
\* does so only when the process it ran has finished: until stop() no core has
\* two unfinished processes, none is available while it has one, and a worker
\* runs no process but the one given to its core.
THEOREM CoreHasOneProcess ==
  ASSUME IdsDiffer PROVE Spec => []OneProcessPerCore
<1>1. ASSUME FCFSInv, NotStopped, NEW c \in Cores
      PROVE  LET unfinished == {p \in Processes : Dispatched(p) /\ UnfinishedOnCore(p, c)}
             IN  /\ Cardinality(unfinished) <= 1
                 /\ coreAvailable[c] => unfinished = {} /\ current[c] = None
                 /\ current[c] # None => unfinished \subseteq {current[c]}
  <2> DEFINE unfinished == {p \in Processes : Dispatched(p) /\ UnfinishedOnCore(p, c)}
  <2>1. /\ \A p \in unfinished : /\ ~coreAvailable[c]
                                 /\ current[c] \in {None, p}
                                 /\ \A q \in unfinished : q = p
        /\ coreAvailable[c] => current[c] = None
    BY <1>1 DEF FCFSInv, CoresAreOwned, Unfinished
  <2> HIDE DEF unfinished
  <2>2. Cardinality(unfinished) <= 1
    <3>1. CASE unfinished = {}
      BY <3>1, FS_EmptySet
    <3>2. CASE unfinished # {}
      <4>1. PICK p : unfinished = {p}
        BY <2>1, <3>2
      <4> QED
        BY <4>1, FS_Singleton, SMTT(30)
    <3> QED
      BY <3>1, <3>2
  <2> QED
    BY <2>1, <2>2 DEF unfinished
<1>2. FCFSInv => OneProcessPerCore
  BY <1>1 DEF OneProcessPerCore, NotStopped
<1> QED
  BY <1>2, FCFSInvAlways, PTL

\* Whatever the interleaving of schedulerLoop and the workers, a core that is
\* not available has an unfinished process or a worker that will free it.
THEOREM CoresAreKept ==
  ASSUME IdsDiffer PROVE Spec => []NoCoreIsLost
<1>1. FCFSInv => NoCoreIsLost
  BY DEF FCFSInv
<1> QED
  BY <1>1, FCFSInvAlways, PTL

\* addProcess, schedulerLoop and insertProcess neither drop a process nor record
\* it twice.
THEOREM ProcessesAreKept ==
  ASSUME IdsDiffer PROVE Spec => []NoneLost
<1>1. FCFSInv => NoneLost
  BY DEF FCFSInv
<1> QED
  BY <1>1, FCFSInvAlways, PTL

\* Processes are dispatched, and recorded by insertProcess, in the order of
\* addProcess, however many an iteration of schedulerLoop dispatches.
THEOREM ServedInOrder ==
  ASSUME IdsDiffer PROVE Spec => FirstComeFirstServed
<1> DEFINE order == runningList \o processQueue
<1>1. ASSUME FCFSInv, [Next]_vars
      PROVE  IsPrefix(order, order')
  <2>1. /\ runningList \in Seq(Processes) /\ processQueue \in Seq(Processes)
        /\ order \in Seq(Processes)
    BY <1>1, ConcatProperties DEF FCFSInv, TypeOK, HandlerTypeOK
  <2>2. ASSUME NEW p \in Processes, addProcess(p)
        PROVE  IsPrefix(order, order')
    <3>1. order' = Append(order, p)
      BY <2>1, <2>2, ConcatAppend DEF addProcess, handlerVars
    <3> QED
      BY <2>1, <3>1, PrefixOfAppend
  <2>3. CASE Dispatch
    <3>1. PICK batch : runningList' \o processQueue' = runningList \o processQueue
      BY <1>1, <2>3, DispatchGivesCores
    <3> QED
      BY <2>1, <3>1, PrefixOfItself
  <2>4. CASE UNCHANGED <<runningList, processQueue>>
    BY <2>1, <2>4, PrefixOfItself
  <2>5. ASSUME ~Dispatch, \A p \in Processes : ~addProcess(p)
        PROVE  UNCHANGED <<runningList, processQueue>>
    BY <1>1, <2>5 DEF Next, WaitStep, WorkerStep, Take, Execute, EndRun, vars, handlerVars, fcfsVars
  <2> QED
    BY <2>2, <2>3, <2>4, <2>5
<1>2. FCFSInv /\ [Next]_vars => FCFSInv'
  BY FCFSInvKept
<1>3. FCFSInv /\ [Next]_vars =>
        [IsPrefix(runningList \o processQueue, runningList' \o processQueue')]_vars
  BY <1>1
<1> QED
  BY <1>2, <1>3, FCFSInvInitially, PTL DEF Spec, FirstComeFirstServed

-------------------------------------------------------------------------------
(* FCFS implements the abstract scheduler *)

Places == [p \in Processes |-> PlaceOf(p)]

\* Every process added is either queued, on its core, or finished.
LEMMA PlacesAreDistinct ==
  ASSUME FCFSInv, NEW p \in Processes
  PROVE  /\ Queued(p) => p \in added /\ ~isFinished[p] /\ ~Dispatched(p)
         /\ Dispatched(p) => p \in added /\ assignedCore[p] \in Cores
         /\ p \in added => Queued(p) \/ Dispatched(p)
         /\ isFinished[p] => Dispatched(p)
<1>1. ToSet(runningList) \cap ToSet(processQueue) = {}
  BY InjectiveParts DEF FCFSInv, TypeOK, HandlerTypeOK, NoneLost
<1> QED
  BY <1>1 DEF FCFSInv, NoneLost, DispatchedFirst, Queued, Dispatched

\* Places are read off these four variables.
LEMMA NothingMoves ==
  ASSUME UNCHANGED <<processQueue, added, isFinished, assignedCore>>
  PROVE  Places' = Places
BY DEF Places, PlaceOf, Queued

\* addProcess is a Submit of the abstract scheduler.
LEMMA AddingSubmits ==
  ASSUME FCFSInv, NEW p \in Processes, addProcess(p)
  PROVE  AScheduler!Submit(p)
<1>1. /\ UNCHANGED <<assignedCore, isFinished>>
      /\ p \notin added
      /\ added' = added \cup {p}
      /\ processQueue' = Append(processQueue, p)
  BY DEF addProcess, handlerVars
<1>2. ToSet(processQueue') = ToSet(processQueue) \cup {p}
  BY <1>1, ElementsOfAppend DEF FCFSInv, TypeOK
<1>3. Places[p] = <<"outside">>
  BY <1>1 DEF Places, PlaceOf
<1>4. ~isFinished[p]
  BY <1>1, PlacesAreDistinct
<1>5. \A q \in Processes : PlaceOf(q)' = IF q = p THEN <<"waiting">> ELSE PlaceOf(q)
  BY <1>1, <1>2, <1>4 DEF PlaceOf, Queued
<1>6. Places' = [Places EXCEPT ![p] = <<"waiting">>]
  BY <1>5 DEF Places
<1> QED
  BY <1>3, <1>6 DEF AScheduler!Submit, AScheduler!Move, AScheduler!Outside,
                    AScheduler!Waiting, Places

\* Each iteration of schedulerLoop serves a batch of processes at once.
LEMMA DispatchingServes ==
  ASSUME IdsDiffer, FCFSInv, Dispatch
  PROVE  AScheduler!Serve
<1>0. PICK batch \in SUBSET Processes :
        /\ batch # {}
        /\ batch \subseteq ToSet(processQueue)
        /\ ToSet(processQueue') = ToSet(processQueue) \ batch
        /\ \E core \in Injection(batch, FreeCores) :
             assignedCore' = [p \in Processes |->
               IF p \in batch THEN core[p] ELSE assignedCore[p]]
  BY DispatchGivesCores
<1>1. PICK core \in Injection(batch, FreeCores) :
        assignedCore' = [p \in Processes |->
          IF p \in batch THEN core[p] ELSE assignedCore[p]]
  BY <1>0
<1>2. UNCHANGED <<isFinished, added>> /\ NotStopped
  BY DEF Dispatch, FCFSInv, RunsWhileStarted, NotStopped
<1>3. \A p \in batch : Places[p] = <<"waiting">> /\ p \in added /\ ~isFinished[p]
  BY <1>0, PlacesAreDistinct DEF Places, PlaceOf, Queued
<1>4. \A p \in Processes :
        PlaceOf(p)' = IF p \in batch THEN <<"core", core[p]>> ELSE PlaceOf(p)
  <2> TAKE p \in Processes
  <2>1. CASE p \in batch
    BY <1>0, <1>1, <1>2, <1>3, <2>1 DEF PlaceOf, Queued
  <2>2. CASE p \notin batch
    BY <1>0, <1>1, <1>2, <2>2 DEF PlaceOf, Queued
  <2> QED
    BY <2>1, <2>2
<1>5. Places' = [p \in Processes |-> IF p \in batch THEN <<"core", core[p]>> ELSE Places[p]]
  BY <1>4 DEF Places
<1>6. FreeCores \subseteq AScheduler!FreeCores
  <2> SUFFICES ASSUME NEW c \in FreeCores, NEW p \in Processes, PlaceOf(p) = <<"core", c>>
               PROVE  FALSE
    BY DEF AScheduler!FreeCores, AScheduler!On, Places, FreeCores
  <2>1. p \in added /\ ~isFinished[p] /\ ~Queued(p) /\ assignedCore[p] = c
    BY DEF PlaceOf
  <2>2. Unfinished(p, c)
    BY <2>1, PlacesAreDistinct DEF Unfinished, UnfinishedOnCore
  <2> QED
    BY <1>2, <2>2 DEF FCFSInv, CoresAreOwned, FreeCores
<1>7. core \in AScheduler!Injection(batch, AScheduler!FreeCores)
  BY <1>6 DEF AScheduler!Injection, AScheduler!IsInjective, Injection, IsInjective
<1>8. batch \in (SUBSET {p \in Processes : Places[p] = <<"waiting">>}) \ {{}}
  BY <1>0, <1>3
<1> QED
  BY <1>5, <1>7, <1>8 DEF AScheduler!Serve, AScheduler!Waiting, AScheduler!On, Places

\* The last executeNextInstruction of a process completes it.
LEMMA ExecutingCompletes ==
  ASSUME FCFSInv, NEW c \in Cores, Execute(c)
  PROVE  Places' = Places \/ AScheduler!Complete(current[c], c)
<1>1. PICK p : p = current[c]
  OBVIOUS
<1>2. p \in Processes /\ ~isFinished[p] /\ Dispatched(p) /\ assignedCore[p] = c
  BY <1>1 DEF Execute, TurnContinues, FCFSInv, TypeOK, DispatchedFirst
<1>3. /\ UNCHANGED <<assignedCore, processQueue, added>>
      /\ isFinished' = [isFinished EXCEPT ![p] = (ticksLeft[p] = 1)]
  BY <1>1 DEF Execute
<1>4. isFinished \in [Processes -> BOOLEAN]
  BY DEF FCFSInv, TypeOK, HandlerTypeOK
<1>5. p \in added /\ ~Queued(p) /\ Places[p] = <<"core", c>>
  BY <1>2, PlacesAreDistinct DEF Places, PlaceOf
<1>6. PICK last \in BOOLEAN : last <=> ticksLeft[p] = 1
  OBVIOUS
<1>7. /\ isFinished'[p] = last
      /\ \A q \in Processes : q # p => isFinished'[q] = isFinished[q]
  <2>1. isFinished' = [isFinished EXCEPT ![p] = last]
    BY <1>3, <1>6
  <2> QED
    BY <1>2, <1>4, <2>1
<1>8. \A q \in Processes : q # p => PlaceOf(q)' = PlaceOf(q)
  BY <1>3, <1>7 DEF PlaceOf, Queued
<1>9. PlaceOf(p)' = IF last THEN <<"finished">> ELSE PlaceOf(p)
  BY <1>2, <1>3, <1>5, <1>7 DEF PlaceOf, Queued
<1>10. CASE last
  <2>1. Places' = [Places EXCEPT ![p] = <<"finished">>]
    BY <1>8, <1>9, <1>10 DEF Places
  <2> QED
    BY <1>1, <1>5, <2>1 DEF AScheduler!Complete, AScheduler!Move, AScheduler!On,
                            AScheduler!Finished, Places
<1>11. CASE ~last
  BY <1>8, <1>9, <1>11 DEF Places
<1> QED
  BY <1>10, <1>11

\* At first no process has been submitted.
LEMMA SchedulingInitially == Init => AScheduler!Init
<1> SUFFICES ASSUME Init
             PROVE  AScheduler!Init
  OBVIOUS
<1>1. Places = [p \in Processes |-> <<"outside">>]
  BY DEF Places, PlaceOf, Init
<1> QED
  BY <1>1 DEF AScheduler!Init, AScheduler!Outside, Places

\* Every step is one of the abstract scheduler or leaves all places as they are.
LEMMA SchedulingStep ==
  ASSUME IdsDiffer, FCFSInv, [Next]_vars
  PROVE  [AScheduler!Next]_Places
<1>1. CASE (OwnerStep /\ UNCHANGED <<handlerVars, fcfsVars>>) \/ WaitStep \/ UNCHANGED vars
  BY <1>1, NothingMoves DEF WaitStep, vars, handlerVars, fcfsVars
<1>2. ASSUME NEW p \in Processes, addProcess(p)
      PROVE  AScheduler!Next
  BY <1>2, AddingSubmits DEF AScheduler!Next
<1>3. CASE Dispatch
  BY <1>3, DispatchingServes DEF AScheduler!Next
<1>4. ASSUME NEW c \in Cores, Execute(c)
      PROVE  Places' = Places \/ AScheduler!Next
  <2>1. current[c] \in Processes
    BY <1>4 DEF FCFSInv, TypeOK, Execute
  <2> QED
    BY <1>4, <2>1, ExecutingCompletes DEF AScheduler!Next
<1>5. ASSUME NEW c \in Cores, Take(c) \/ EndRun(c)
      PROVE  Places' = Places
  BY <1>5, NothingMoves DEF Take, EndRun, handlerVars
<1> QED
  BY <1>1, <1>2, <1>3, <1>4, <1>5 DEF Next, WorkerStep

\* schedulerLoop only ever moves a process from the queue to a core that no
\* unfinished process has, and a process keeps that core until it has finished.
THEOREM FCFSImplementsScheduling ==
  ASSUME IdsDiffer PROVE Spec => ImplementsScheduling
<1>1. FCFSInv /\ [Next]_vars => FCFSInv'
  BY FCFSInvKept
<1>2. FCFSInv /\ [Next]_vars => [AScheduler!Next]_Places
  BY SchedulingStep
<1> QED
  BY <1>1, <1>2, FCFSInvInitially, SchedulingInitially, PTL
  DEF Spec, ImplementsScheduling, AScheduler!Spec, Places

-------------------------------------------------------------------------------
(* screen -ls *)

Lines == [process : Processes, core : Cores]

ReportTypeOK ==
  /\ lister \in {"idle", "scanning", "counting", "printing"}
  /\ scanned \in Nat
  /\ DOMAIN active \subseteq Cores
  /\ active \in [DOMAIN active -> Processes]
  /\ lastPrinted \in [used : SUBSET Cores, running : Seq(Lines), finished : Seq(Processes)]

printed == lastPrinted.running

\* start() and stop() wait for the end of a list.
ListsWhileStarted == Listing => mainPc = "started"

EmptyWhenIdle == ~Listing => DOMAIN active = {} /\ scanned = 0

\* The processes found are the owners of cores that are taken: while the list is
\* made nothing is dispatched and no core is freed.
FoundOwnTheirCores ==
  \A c \in DOMAIN active :
    /\ Dispatched(active[c])
    /\ assignedCore[active[c]] = c
    /\ ~coreAvailable[c]
    /\ \A q \in Processes : Unfinished(q, c) => q = active[c]

\* Every line shows the core of its process, and no two lines show one core.
LinesShowCores ==
  Listing =>
    /\ \A i \in 1..Len(printed) :
         /\ printed[i].core = assignedCore[printed[i].process]
         /\ printed[i].core \notin DOMAIN active
    /\ \A i, j \in 1..Len(printed) : printed[i].core = printed[j].core => i = j
    /\ \A c \in lastPrinted.used : ~coreAvailable[c]

\* A core is counted as used if its line is still to be printed or has been.
UsedAreListed ==
  /\ lister \in {"scanning", "counting"} => printed = << >> /\ lastPrinted.used = {}
  /\ lister = "printing" =>
       lastPrinted.used = DOMAIN active \cup {printed[i].core : i \in 1..Len(printed)}

\* No unfinished process is passed over.
UnfinishedAreFound ==
  /\ lister = "scanning" => \A i \in 1..Len(runningList) :
       i <= scanned /\ ~isFinished[runningList[i]] =>
         assignedCore[runningList[i]] \in DOMAIN active
  /\ lister = "counting" => \A p \in Processes :
       Dispatched(p) /\ ~isFinished[p] => assignedCore[p] \in DOMAIN active
  /\ lister = "printing" => \A p \in Processes :
       Dispatched(p) /\ ~isFinished[p] =>
         \/ assignedCore[p] \in DOMAIN active
         \/ [process |-> p, core |-> assignedCore[p]] \in ToSet(printed)

ReportInv ==
  /\ ReportTypeOK
  /\ ListsWhileStarted
  /\ EmptyWhenIdle
  /\ FoundOwnTheirCores
  /\ LinesShowCores
  /\ UsedAreListed
  /\ UnfinishedAreFound

\* What the types say of the lines of a list.
LEMMA ReportTyped ==
  ASSUME ReportInv
  PROVE  /\ printed \in Seq(Lines)
         /\ Len(printed) \in Nat
         /\ \A i \in 1..Len(printed) :
              /\ printed[i] \in Lines
              /\ printed[i].process \in Processes /\ printed[i].core \in Cores
<1>1. printed \in Seq(Lines)
  BY DEF ReportInv, ReportTypeOK, printed
<1>2. Len(printed) \in Nat /\ \A i \in 1..Len(printed) : printed[i] \in Lines
  BY <1>1, LenProperties, ElementOfSeq
<1>3. \A line \in Lines : line.process \in Processes /\ line.core \in Cores
  BY DEF Lines
<1> QED
  BY <1>1, <1>2, <1>3

\* At first there is no list.
LEMMA ReportInvInitially == ReportsInit => ReportInv
<1> SUFFICES ASSUME ReportsInit PROVE ReportInv
  OBVIOUS
<1>1. /\ lister = "idle" /\ scanned = 0 /\ active = << >>
      /\ lastPrinted = [used |-> {}, running |-> << >>, finished |-> << >>]
  BY DEF ReportsInit, NoLines
<1>2. DOMAIN active = {} /\ << >> \in Seq(Lines) /\ << >> \in Seq(Processes)
  BY <1>1
<1>3. active \in [DOMAIN active -> Processes]
  BY <1>1, <1>2
<1> QED
  BY <1>1, <1>2, <1>3 DEF ReportInv, ReportTypeOK, ListsWhileStarted, EmptyWhenIdle, Listing,
     FoundOwnTheirCores, LinesShowCores, UsedAreListed, UnfinishedAreFound

\* What the scheduler does between two lists.
LEMMA SchedulingBetweenLists ==
  ASSUME ReportInv, ~Listing, UNCHANGED reportVars
  PROVE  ReportInv'
<1>1. UNCHANGED <<lister, scanned, active, lastPrinted>>
  BY DEF reportVars
<1>2. DOMAIN active = {} /\ lister = "idle"
  BY DEF ReportInv, EmptyWhenIdle, Listing
<1> QED
  BY <1>1, <1>2 DEF ReportInv, ReportTypeOK, ListsWhileStarted, EmptyWhenIdle, Listing,
     FoundOwnTheirCores, LinesShowCores, UsedAreListed, UnfinishedAreFound

\* What it does during a list.
LEMMA FinishingDuringList ==
  ASSUME FCFSInv, WhileListing
  PROVE  /\ UNCHANGED <<runningList, assignedCore, coreAvailable, mainPc>>
         /\ \A p \in Processes : isFinished[p] => isFinished'[p]
<1>1. ASSUME NEW c \in Cores, Execute(c)
      PROVE  /\ UNCHANGED <<runningList, assignedCore, coreAvailable, mainPc>>
             /\ \A p \in Processes : isFinished[p] => isFinished'[p]
  <2>1. PICK p : p = current[c]
    OBVIOUS
  <2>2. p \in Processes /\ ~isFinished[p] /\ isFinished \in [Processes -> BOOLEAN]
    BY <1>1, <2>1 DEF Execute, TurnContinues, FCFSInv, TypeOK, HandlerTypeOK
  <2>3. PICK last \in BOOLEAN : last <=> ticksLeft[p] = 1
    OBVIOUS
  <2>4. isFinished' = [isFinished EXCEPT ![p] = last]
    BY <1>1, <2>1, <2>3 DEF Execute
  <2>5. \A q \in Processes : q # p => isFinished'[q] = isFinished[q]
    BY <2>2, <2>4
  <2>6. \A q \in Processes : isFinished[q] => isFinished'[q]
    BY <2>2, <2>5, Zenon
  <2> QED
    BY <1>1, <2>6 DEF Execute, schedulerVars
<1>2. ASSUME NEW t \in Threads, SpuriousWakeup(t), UNCHANGED <<handlerVars, fcfsVars>>
      PROVE  /\ UNCHANGED <<runningList, assignedCore, coreAvailable, mainPc>>
             /\ \A p \in Processes : isFinished[p] => isFinished'[p]
  BY <1>2 DEF SpuriousWakeup, handlerVars, fcfsVars
<1> QED
  BY <1>1, <1>2 DEF WhileListing

\* What the threads can do during a list leaves it as good as it was.
LEMMA SchedulingDuringList ==
  ASSUME FCFSInv, ReportInv, WhileListing, UNCHANGED reportVars
  PROVE  ReportInv'
<1>1. UNCHANGED <<lister, scanned, active, lastPrinted>>
  BY DEF reportVars
<1>2. /\ UNCHANGED <<runningList, assignedCore, coreAvailable, mainPc>>
      /\ \A p \in Processes : isFinished[p] => isFinished'[p]
  BY FinishingDuringList
<1>3. ReportTypeOK' /\ ListsWhileStarted' /\ EmptyWhenIdle'
  BY <1>1, <1>2 DEF ReportInv, ReportTypeOK, ListsWhileStarted, EmptyWhenIdle, Listing
<1>4. FoundOwnTheirCores'
  BY <1>1, <1>2 DEF ReportInv, FoundOwnTheirCores, Dispatched, Unfinished, UnfinishedOnCore
<1>5. LinesShowCores' /\ UsedAreListed'
  BY <1>1, <1>2 DEF ReportInv, LinesShowCores, UsedAreListed, Listing, printed
<1>6. UnfinishedAreFound'
  <2>1. \A i \in 1..Len(runningList) : runningList[i] \in Processes
    BY ElementOfSeq DEF FCFSInv, TypeOK, HandlerTypeOK
  <2> QED
    BY <1>1, <1>2, <2>1 DEF ReportInv, UnfinishedAreFound, Dispatched, printed
<1> QED
  BY <1>3, <1>4, <1>5, <1>6 DEF ReportInv

\* Its start, and its end.
LEMMA ListBegins ==
  ASSUME ReportInv, BeginList, UNCHANGED vars
  PROVE  ReportInv'
<1>1. /\ lister' = "scanning" /\ mainPc' = "started"
      /\ UNCHANGED <<scanned, active>>
      /\ lastPrinted' = [used |-> {}, running |-> << >>, finished |-> << >>]
      /\ DOMAIN active = {} /\ scanned = 0
  BY DEF BeginList, NoLines, vars, schedulerVars, ReportInv, EmptyWhenIdle
<1>2. << >> \in Seq(Lines) /\ << >> \in Seq(Processes) /\ Len(<< >>) = 0
  OBVIOUS
<1>3. ReportTypeOK'
  BY <1>1, <1>2 DEF ReportInv, ReportTypeOK
<1>4. \A i : ~(i \in 1..0)
  OBVIOUS
<1>5. UnfinishedAreFound'
  <2>1. \A i \in 1..Len(runningList') : ~(i <= scanned')
    BY <1>1
  <2> QED
    BY <1>1, <2>1 DEF UnfinishedAreFound
<1> QED
  BY <1>1, <1>2, <1>3, <1>4, <1>5 DEF ReportInv, ListsWhileStarted, EmptyWhenIdle, Listing,
     FoundOwnTheirCores, LinesShowCores, UsedAreListed, printed

\* The list ends with all its lines.
LEMMA ListEnds ==
  ASSUME ReportInv, EndList, UNCHANGED vars
  PROVE  ReportInv'
<1>1. /\ lister' = "idle" /\ scanned' = 0 /\ DOMAIN active = {}
      /\ UNCHANGED <<active, lastPrinted>>
  BY DEF EndList
<1> QED
  BY <1>1 DEF ReportInv, ReportTypeOK, ListsWhileStarted, EmptyWhenIdle, Listing,
     FoundOwnTheirCores, LinesShowCores, UsedAreListed, UnfinishedAreFound

\* The scan: the first unfinished process of a core is its only one.
LEMMA ScanFinds ==
  ASSUME FCFSInv, ReportInv, ScanProcess, UNCHANGED vars
  PROVE  ReportInv'
<1> DEFINE cores == DOMAIN active \cup {c \in Cores : Counts(runningList[scanned + 1])
                                                   /\ assignedCore[runningList[scanned + 1]] = c}
<1>1. /\ UNCHANGED <<runningList, assignedCore, isFinished, coreAvailable, mainPc>>
      /\ UNCHANGED <<lister, lastPrinted>>
      /\ lister = "scanning" /\ scanned' = scanned + 1 /\ scanned < Len(runningList)
      /\ active' = [c \in cores |->
                      IF c \in DOMAIN active THEN active[c] ELSE runningList[scanned + 1]]
  BY DEF ScanProcess, vars, handlerVars, fcfsVars, schedulerVars
<1>2. PICK p : p = runningList[scanned + 1]
  OBVIOUS
<1>3. /\ runningList \in Seq(Processes) /\ Len(runningList) \in Nat /\ scanned \in Nat
      /\ scanned + 1 \in 1..Len(runningList)
      /\ DOMAIN runningList = 1..Len(runningList)
  BY <1>1, LenProperties DEF FCFSInv, TypeOK, HandlerTypeOK, ReportInv, ReportTypeOK
<1>4. p \in Processes /\ Dispatched(p)
  BY <1>2, <1>3, ElementOfSeq DEF Dispatched, ToSet
<1>5. /\ DOMAIN active \subseteq Cores /\ \A c \in DOMAIN active : active[c] \in Processes
      /\ lastPrinted \in [used : SUBSET Cores, running : Seq(Lines), finished : Seq(Processes)]
  BY DEF ReportInv, ReportTypeOK
<1>6. /\ DOMAIN active' = cores
      /\ \A c \in DOMAIN active : c \in cores /\ active'[c] = active[c]
      /\ \A c \in cores : c \notin DOMAIN active =>
           /\ active'[c] = p /\ c \in Cores
           /\ assignedCore[p] = c /\ ~isFinished[p]
      /\ ~isFinished[p] /\ assignedCore[p] \in Cores => assignedCore[p] \in cores
  BY <1>1, <1>2 DEF Counts
<1> HIDE DEF cores
<1>7. ReportTypeOK'
  <2>1. /\ cores \subseteq Cores /\ \A c \in cores : active'[c] \in Processes
    BY <1>4, <1>5, <1>6
  <2>2. active' \in [DOMAIN active' -> Processes]
    BY <1>1, <1>6, <2>1
  <2> QED
    BY <1>1, <1>3, <1>5, <1>6, <2>1, <2>2 DEF ReportTypeOK
<1>8. ListsWhileStarted' /\ EmptyWhenIdle' /\ mainPc = "started"
  BY <1>1 DEF ReportInv, ListsWhileStarted, EmptyWhenIdle, Listing
<1>9. FoundOwnTheirCores'
  <2>1. ASSUME NEW c \in cores, c \notin DOMAIN active
        PROVE  /\ ~coreAvailable[c]
               /\ \A q \in Processes : Unfinished(q, c) => q = p
    <3>1. Unfinished(p, c) /\ c \in Cores /\ NotStopped
      BY <1>4, <1>6, <1>8, <2>1 DEF Unfinished, UnfinishedOnCore, NotStopped
    <3> QED
      BY <1>4, <3>1 DEF FCFSInv, CoresAreOwned
  <2>2. ASSUME NEW c \in cores
        PROVE  /\ Dispatched(active'[c])
               /\ assignedCore[active'[c]] = c
               /\ ~coreAvailable[c]
               /\ \A q \in Processes : Unfinished(q, c) => q = active'[c]
    BY <1>4, <1>6, <2>1 DEF ReportInv, FoundOwnTheirCores
  <2> QED
    BY <1>1, <1>6, <2>2 DEF FoundOwnTheirCores, Dispatched, Unfinished, UnfinishedOnCore
<1>10. LinesShowCores' /\ UsedAreListed'
  <2>1. printed' = << >> /\ lastPrinted'.used = {} /\ Len(<< >>) = 0
    BY <1>1 DEF ReportInv, UsedAreListed, printed
  <2>2. \A i : ~(i \in 1..0)
    OBVIOUS
  <2> QED
    BY <1>1, <2>1, <2>2 DEF LinesShowCores, UsedAreListed
<1>11. UnfinishedAreFound'
  <2>1. ASSUME NEW i \in 1..Len(runningList), i <= scanned + 1, ~isFinished[runningList[i]]
        PROVE  assignedCore[runningList[i]] \in cores
    <3>1. CASE i <= scanned
      BY <1>1, <1>6, <2>1, <3>1 DEF ReportInv, UnfinishedAreFound
    <3>2. CASE i = scanned + 1
      BY <1>2, <1>4, <1>6, <2>1, <3>2 DEF FCFSInv, DispatchedFirst
    <3> QED
      BY <1>3, <2>1, <3>1, <3>2
  <2> QED
    BY <1>1, <1>6, <2>1 DEF UnfinishedAreFound
<1> QED
  BY <1>7, <1>8, <1>9, <1>10, <1>11 DEF ReportInv

\* A process finishes once: the copy of the finished list is one of processes.
LEMMA CopyIsTyped ==
  ASSUME NEW list \in Seq(Processes)
  PROVE  FoldLeft(WithProcess, << >>, list) \in Seq(Processes)
<1> DEFINE T == {t \in Seq(Processes) : FoldLeft(WithProcess, << >>, t) \in Seq(Processes)}
<1>1. /\ FoldLeft(WithProcess, << >>, << >>) = << >>
      /\ \A s \in Seq(Processes), e \in Processes :
           FoldLeft(WithProcess, << >>, Append(s, e)) =
             WithProcess(FoldLeft(WithProcess, << >>, s), e)
  <2>1. FoldStep(WithProcess, << >>, Processes)
    BY FoldLeftStep
  <2> QED
    BY <2>1 DEF FoldStep
<1>2. << >> \in T
  <2>1. << >> \in Seq(Processes)
    OBVIOUS
  <2> QED
    BY <1>1, <2>1
<1>3. ASSUME NEW s \in Seq(Processes), NEW e \in Processes, s \in T
      PROVE  Append(s, e) \in T
  <2>1. PICK copy \in Seq(Processes) : copy = FoldLeft(WithProcess, << >>, s)
    BY <1>3
  <2>2. WithProcess(copy, e) \in Seq(Processes) /\ Append(s, e) \in Seq(Processes)
    BY AppendProperties DEF WithProcess
  <2> QED
    BY <1>1, <2>1, <2>2
<1>4. Seq(Processes) \subseteq T
  <2> HIDE DEF T
  <2> QED
    BY <1>2, <1>3, SeqSetInduction
<1> QED
  BY <1>4

\* When the running list has been read, every process with a core has been seen.
LEMMA ScanEnds ==
  ASSUME FCFSInv, ReportInv, EndScan, UNCHANGED vars
  PROVE  ReportInv'
<1>1. /\ UNCHANGED <<runningList, assignedCore, isFinished, coreAvailable, mainPc>>
      /\ UNCHANGED <<scanned, active>>
      /\ lister = "scanning" /\ lister' = "counting" /\ scanned >= Len(runningList)
      /\ lastPrinted' = [lastPrinted EXCEPT !.finished = FoldLeft(WithProcess, << >>, finishedList)]
  BY DEF EndScan, vars, handlerVars, fcfsVars, schedulerVars
<1>2. PICK copy \in Seq(Processes) : copy = FoldLeft(WithProcess, << >>, finishedList)
  BY CopyIsTyped DEF FCFSInv, TypeOK, HandlerTypeOK
<1>3. /\ lastPrinted \in [used : SUBSET Cores, running : Seq(Lines), finished : Seq(Processes)]
      /\ lastPrinted' = [lastPrinted EXCEPT !.finished = copy]
  BY <1>1, <1>2 DEF ReportInv, ReportTypeOK
<1>4. /\ lastPrinted' \in [used : SUBSET Cores, running : Seq(Lines), finished : Seq(Processes)]
      /\ printed' = << >> /\ lastPrinted'.used = {} /\ Len(<< >>) = 0
  BY <1>1, <1>3 DEF ReportInv, UsedAreListed, printed
<1>5. ReportTypeOK' /\ ListsWhileStarted' /\ EmptyWhenIdle'
  BY <1>1, <1>4 DEF ReportInv, ReportTypeOK, ListsWhileStarted, EmptyWhenIdle, Listing
<1>6. FoundOwnTheirCores'
  BY <1>1 DEF ReportInv, FoundOwnTheirCores, Dispatched, Unfinished, UnfinishedOnCore
<1>7. LinesShowCores' /\ UsedAreListed'
  <2>1. \A i : ~(i \in 1..0)
    OBVIOUS
  <2> QED
    BY <1>1, <1>4, <2>1 DEF LinesShowCores, UsedAreListed
<1>8. UnfinishedAreFound'
  <2>1. ASSUME NEW p \in Processes, Dispatched(p), ~isFinished[p]
        PROVE  assignedCore[p] \in DOMAIN active
    <3>1. /\ Len(runningList) \in Nat /\ scanned \in Nat
          /\ DOMAIN runningList = 1..Len(runningList)
      BY LenProperties DEF FCFSInv, TypeOK, HandlerTypeOK, ReportInv, ReportTypeOK
    <3>2. PICK i \in 1..Len(runningList) : runningList[i] = p
      BY <2>1, <3>1 DEF Dispatched, ToSet
    <3>3. i <= scanned
      BY <1>1, <3>1
    <3> QED
      BY <1>1, <2>1, <3>2, <3>3 DEF ReportInv, UnfinishedAreFound
  <2> QED
    BY <1>1, <2>1 DEF UnfinishedAreFound, Dispatched
<1> QED
  BY <1>5, <1>6, <1>7, <1>8 DEF ReportInv

\* The count of cores is that of the processes seen.
LEMMA CoresAreCounted ==
  ASSUME FCFSInv, ReportInv, CountCores, UNCHANGED vars
  PROVE  ReportInv'
<1>1. /\ UNCHANGED <<runningList, assignedCore, isFinished, coreAvailable, mainPc>>
      /\ UNCHANGED <<scanned, active>>
      /\ lister = "counting" /\ lister' = "printing"
      /\ lastPrinted' = [lastPrinted EXCEPT !.used = {assignedCore[p] : p \in Range(active)}]
  BY DEF CountCores, vars, handlerVars, fcfsVars, schedulerVars
<1>2. {assignedCore[p] : p \in Range(active)} = DOMAIN active
  BY DEF Range, ReportInv, FoundOwnTheirCores
<1>3. /\ lastPrinted \in [used : SUBSET Cores, running : Seq(Lines), finished : Seq(Processes)]
      /\ DOMAIN active \in SUBSET Cores
      /\ lastPrinted' = [lastPrinted EXCEPT !.used = DOMAIN active]
  BY <1>1, <1>2 DEF ReportInv, ReportTypeOK
<1>4. /\ lastPrinted' \in [used : SUBSET Cores, running : Seq(Lines), finished : Seq(Processes)]
      /\ printed' = << >> /\ lastPrinted'.used = DOMAIN active /\ Len(<< >>) = 0
  BY <1>1, <1>3 DEF ReportInv, UsedAreListed, printed
<1>5. ReportTypeOK' /\ ListsWhileStarted' /\ EmptyWhenIdle'
  BY <1>1, <1>4 DEF ReportInv, ReportTypeOK, ListsWhileStarted, EmptyWhenIdle, Listing
<1>6. FoundOwnTheirCores'
  BY <1>1 DEF ReportInv, FoundOwnTheirCores, Dispatched, Unfinished, UnfinishedOnCore
<1>7. LinesShowCores' /\ UsedAreListed'
  <2>1. \A i : ~(i \in 1..0)
    OBVIOUS
  <2>2. \A c \in lastPrinted'.used : ~coreAvailable'[c]
    BY <1>1, <1>4 DEF ReportInv, FoundOwnTheirCores
  <2> QED
    BY <1>1, <1>4, <2>1, <2>2 DEF LinesShowCores, UsedAreListed
<1>8. UnfinishedAreFound'
  BY <1>1 DEF ReportInv, UnfinishedAreFound, Dispatched
<1> QED
  BY <1>5, <1>6, <1>7, <1>8 DEF ReportInv

\* The lowest core of those found gets its line, since no process of that id has
\* one: that process would have the same core.
LEMMA LinePrinted ==
  ASSUME IdsDiffer, FCFSInv, ReportInv, PrintLine, UNCHANGED vars
  PROVE  \E core \in DOMAIN active :
           /\ printed' = Append(printed, [process |-> active[core], core |-> core])
           /\ lastPrinted'.used = lastPrinted.used
           /\ lastPrinted' \in [used : SUBSET Cores, running : Seq(Lines), finished : Seq(Processes)]
           /\ active' = [c \in DOMAIN active \ {core} |-> active[c]]
<1>1. PICK core : core = CHOOSE c \in DOMAIN active : \A d \in DOMAIN active : c <= d
  OBVIOUS
<1>2. PICK p : p = active[core]
  OBVIOUS
<1>3. /\ lister = "printing" /\ active # << >>
      /\ lastPrinted' = [lastPrinted EXCEPT !.running =
           IF \E i \in 1..Len(printed) : IdOf[printed[i].process] = IdOf[p] THEN printed
           ELSE Append(printed, [process |-> p, core |-> assignedCore[p]])]
      /\ active' = [c \in DOMAIN active \ {core} |-> active[c]]
  BY <1>1, <1>2 DEF PrintLine, printed
<1>4. /\ DOMAIN active \subseteq Cores /\ active \in [DOMAIN active -> Processes]
      /\ lastPrinted \in [used : SUBSET Cores, running : Seq(Lines), finished : Seq(Processes)]
  BY DEF ReportInv, ReportTypeOK
<1>5. core \in DOMAIN active
  <2>1. DOMAIN active # {}
    <3>1. << >> = [c \in {} |-> active[c]]
      OBVIOUS
    <3>2. active = [c \in DOMAIN active |-> active[c]]
      BY <1>4
    <3> QED
      BY <1>3, <3>1, <3>2
  <2>2. DOMAIN active \in SUBSET Nat
    BY <1>4, NumCoresAssumption DEF Cores
  <2>3. \E c \in DOMAIN active : \A d \in DOMAIN active : c <= d
    BY <2>1, <2>2, MinIsLeast
  <2> QED
    BY <1>1, <2>3
<1>6. p \in Processes /\ core \in Cores /\ assignedCore[p] = core
  BY <1>2, <1>4, <1>5 DEF ReportInv, FoundOwnTheirCores
<1>7. \A i \in 1..Len(printed) : IdOf[printed[i].process] # IdOf[p]
  <2> SUFFICES ASSUME NEW i \in 1..Len(printed), printed[i].process = p
               PROVE  FALSE
    BY <1>6, ReportTyped DEF IdsDiffer
  <2>1. /\ printed[i].core = assignedCore[printed[i].process]
        /\ printed[i].core \notin DOMAIN active
    BY <1>3 DEF ReportInv, LinesShowCores, Listing
  <2> QED
    BY <1>5, <1>6, <2>1
<1>8. PICK line : line = [process |-> p, core |-> core]
  OBVIOUS
<1>9. line \in Lines /\ Append(printed, line) \in Seq(Lines)
  BY <1>6, <1>8, ReportTyped, AppendProperties DEF Lines
<1>10. lastPrinted' = [lastPrinted EXCEPT !.running = Append(printed, line)]
  BY <1>3, <1>6, <1>7, <1>8
<1>11. /\ printed' = Append(printed, line)
       /\ lastPrinted'.used = lastPrinted.used
       /\ lastPrinted' \in [used : SUBSET Cores, running : Seq(Lines), finished : Seq(Processes)]
  BY <1>4, <1>9, <1>10 DEF printed
<1> QED
  BY <1>2, <1>3, <1>5, <1>8, <1>11

\* The line of a core names the process that has it.
LEMMA LinesAreKept ==
  ASSUME IdsDiffer, FCFSInv, ReportInv, PrintLine, UNCHANGED vars
  PROVE  ReportInv'
<1>1. PICK core \in DOMAIN active :
        /\ printed' = Append(printed, [process |-> active[core], core |-> core])
        /\ lastPrinted'.used = lastPrinted.used
        /\ lastPrinted' \in [used : SUBSET Cores, running : Seq(Lines), finished : Seq(Processes)]
        /\ active' = [c \in DOMAIN active \ {core} |-> active[c]]
  BY LinePrinted
<1>2. /\ UNCHANGED <<runningList, assignedCore, isFinished, coreAvailable, mainPc>>
      /\ UNCHANGED <<lister, scanned>> /\ lister = "printing"
  BY DEF PrintLine, vars, handlerVars, fcfsVars, schedulerVars
<1>3. PICK p : p = active[core]
  OBVIOUS
<1>4. PICK line : line = [process |-> p, core |-> core]
  OBVIOUS
<1>5. /\ DOMAIN active \subseteq Cores /\ active \in [DOMAIN active -> Processes]
      /\ p \in Processes /\ core \in Cores
      /\ Dispatched(p) /\ assignedCore[p] = core
      /\ \A q \in Processes : Unfinished(q, core) => q = p
  BY <1>3 DEF ReportInv, ReportTypeOK, FoundOwnTheirCores
<1>6. /\ DOMAIN active' = DOMAIN active \ {core}
      /\ \A c \in DOMAIN active' : active'[c] = active[c]
  BY <1>1
<1>7. /\ Len(printed') = Len(printed) + 1
      /\ Len(printed) \in Nat
      /\ \A i \in 1..Len(printed) : printed'[i] = printed[i]
      /\ printed'[Len(printed) + 1] = line
      /\ line \in Lines
      /\ line.process = p /\ line.core = core
      /\ ToSet(printed') = ToSet(printed) \cup {line}
  <2>1. line \in Lines /\ printed \in Seq(Lines) /\ printed' = Append(printed, line)
    BY <1>1, <1>3, <1>4, <1>5, ReportTyped DEF Lines
  <2> QED
    BY <1>4, <2>1, AppendProperties, ElementsOfAppend, ReportTyped
<1>8. ReportTypeOK' /\ ListsWhileStarted' /\ EmptyWhenIdle'
  <2>1. active' \in [DOMAIN active' -> Processes]
    BY <1>1, <1>5, <1>6
  <2> QED
    BY <1>1, <1>2, <1>5, <1>6, <2>1 DEF ReportInv, ReportTypeOK, ListsWhileStarted, EmptyWhenIdle, Listing
<1>9. FoundOwnTheirCores'
  BY <1>2, <1>6 DEF ReportInv, FoundOwnTheirCores, Dispatched, Unfinished, UnfinishedOnCore
<1>10. /\ \A i \in 1..Len(printed) : /\ printed[i].core = assignedCore[printed[i].process]
                                     /\ printed[i].core \notin DOMAIN active
       /\ \A i, j \in 1..Len(printed) : printed[i].core = printed[j].core => i = j
       /\ \A c \in lastPrinted.used : ~coreAvailable[c]
       /\ lastPrinted.used = DOMAIN active \cup {printed[i].core : i \in 1..Len(printed)}
  BY <1>2 DEF ReportInv, LinesShowCores, UsedAreListed, Listing
<1>11. \A i \in 1..Len(printed') : i \in 1..Len(printed) \/ i = Len(printed) + 1
  BY <1>7
<1>12. LinesShowCores'
  <2>1. \A i \in 1..Len(printed') :
          /\ printed'[i].core = assignedCore[printed'[i].process]
          /\ printed'[i].core \notin DOMAIN active'
    BY <1>5, <1>6, <1>7, <1>10, <1>11
  <2>2. \A i, j \in 1..Len(printed') : printed'[i].core = printed'[j].core => i = j
    <3> SUFFICES ASSUME NEW i \in 1..Len(printed'), NEW j \in 1..Len(printed'),
                        printed'[i].core = printed'[j].core
                 PROVE  i = j
      OBVIOUS
    <3>1. \A k \in 1..Len(printed) : printed'[k].core = printed[k].core /\ printed[k].core # core
      BY <1>7, <1>10
    <3>2. printed'[Len(printed) + 1].core = core
      BY <1>7
    <3>3. CASE i \in 1..Len(printed) /\ j \in 1..Len(printed)
      BY <1>10, <3>1, <3>3
    <3>4. CASE i = Len(printed) + 1 \/ j = Len(printed) + 1
      BY <1>11, <3>1, <3>2, <3>4
    <3> QED
      BY <1>11, <3>3, <3>4
  <2> QED
    BY <1>1, <1>2, <1>10, <2>1, <2>2 DEF LinesShowCores
<1>13. UsedAreListed'
  <2>1. {printed'[i].core : i \in 1..Len(printed')} =
          {printed[i].core : i \in 1..Len(printed)} \cup {core}
    <3>1. \A i \in 1..Len(printed) : i \in 1..Len(printed')
      BY <1>7
    <3>2. Len(printed) + 1 \in 1..Len(printed')
      BY <1>7
    <3> QED
      BY <1>7, <1>11, <3>1, <3>2
  <2> QED
    BY <1>1, <1>2, <1>6, <1>10, <2>1 DEF UsedAreListed
<1>14. UnfinishedAreFound'
  <2>1. ASSUME NEW q \in Processes, Dispatched(q), ~isFinished[q]
        PROVE  \/ assignedCore[q] \in DOMAIN active'
               \/ [process |-> q, core |-> assignedCore[q]] \in ToSet(printed')
    <3>1. CASE assignedCore[q] = core
      <4>1. q = p
        BY <1>5, <2>1, <3>1 DEF Unfinished, UnfinishedOnCore
      <4> QED
        BY <1>4, <1>5, <1>7, <4>1
    <3>2. CASE assignedCore[q] # core
      BY <1>2, <1>6, <1>7, <2>1, <3>2 DEF ReportInv, UnfinishedAreFound
    <3> QED
      BY <3>1, <3>2
  <2> QED
    BY <1>2, <2>1 DEF UnfinishedAreFound, Dispatched
<1> QED
  BY <1>8, <1>9, <1>12, <1>13, <1>14 DEF ReportInv

\* Every step, of the list or beside it, keeps the invariant.
LEMMA ReportInvKept ==
  ASSUME IdsDiffer, FCFSInv, ReportInv, [ReportingNext]_reportingVars
  PROVE  ReportInv'
<1>1. CASE ~Listing /\ UNCHANGED reportVars
  BY <1>1, SchedulingBetweenLists
<1>2. CASE Listing /\ WhileListing /\ UNCHANGED reportVars
  BY <1>2, SchedulingDuringList
<1>3. CASE ReportStep /\ UNCHANGED vars
  BY <1>3, ListBegins, ScanFinds, ScanEnds, CoresAreCounted, LinesAreKept, ListEnds
     DEF ReportStep, ListProgress
<1>4. CASE UNCHANGED reportingVars
  <2>1. UNCHANGED <<lister, scanned, active, lastPrinted>> /\ UNCHANGED reportVars
    BY <1>4 DEF reportingVars, reportVars
  <2>2. /\ UNCHANGED <<runningList, assignedCore, isFinished, coreAvailable, mainPc>>
    BY <1>4 DEF reportingVars, vars, handlerVars, schedulerVars, fcfsVars
  <2> QED
    BY <2>1, <2>2 DEF ReportInv, ReportTypeOK, ListsWhileStarted, EmptyWhenIdle, Listing,
       FoundOwnTheirCores, LinesShowCores, UsedAreListed, UnfinishedAreFound, printed,
       Dispatched, Unfinished, UnfinishedOnCore
<1> QED
  BY <1>1, <1>2, <1>3, <1>4 DEF ReportingNext

\* With lists the scheduler takes no step that it does not take without them.
LEMMA ReportingOnlyDelays ==
  [ReportingNext]_reportingVars => [Next]_vars
<1>1. WhileListing => Next
  <2>1. ASSUME NEW t \in Threads, SpuriousWakeup(t), UNCHANGED <<handlerVars, fcfsVars>>
        PROVE  Next
    BY <2>1 DEF Next, WaitStep
  <2>2. ASSUME NEW c \in Cores, Execute(c)
        PROVE  Next
    BY <2>2 DEF Next, WorkerStep
  <2> QED
    BY <2>1, <2>2 DEF WhileListing
<1> QED
  BY <1>1 DEF ReportingNext, reportingVars

\* What is proved of the scheduler alone holds while lists are made.
LEMMA ListsChangeNoSchedule == ReportingSpec => Spec
BY ReportingOnlyDelays, PTL DEF ReportingSpec, ReportingInit, Spec

\* Both invariants hold while lists are made.
LEMMA ReportInvAlways ==
  ASSUME IdsDiffer PROVE ReportingSpec => [](FCFSInv /\ ReportInv)
<1>1. ReportingInit => FCFSInv /\ ReportInv
  BY FCFSInvInitially, ReportInvInitially DEF ReportingInit
<1>2. FCFSInv /\ ReportInv /\ [ReportingNext]_reportingVars => (FCFSInv /\ ReportInv)'
  BY FCFSInvKept, ReportInvKept, ReportingOnlyDelays
<1> QED
  BY <1>1, <1>2, PTL DEF ReportingSpec

\* listProcesses holds queueMutex from the scan to the last line, so no core it
\* counts as used is freed before the list is complete.
THEOREM CountedCoresStayTaken ==
  ASSUME IdsDiffer PROVE ReportingSpec => []UsedCoresAreTaken
<1>1. ReportInv => UsedCoresAreTaken
  BY DEF ReportInv, FoundOwnTheirCores, LinesShowCores, UsedCoresAreTaken
<1> QED
  BY <1>1, ReportInvAlways, PTL

\* Though processes finish while listProcesses scans, counts and prints, the
\* list misses no process that is unfinished at its end, and has a line for each
\* core it counts and no other.
THEOREM ListsAreComplete ==
  ASSUME IdsDiffer PROVE ReportingSpec => []ListIsComplete
<1>1. ASSUME FCFSInv, ReportInv, lister = "printing", active = << >>
      PROVE  /\ \A p \in Processes : Dispatched(p) /\ ~isFinished[p] =>
                  [process |-> p, core |-> assignedCore[p]] \in ToSet(printed)
             /\ Len(printed) = Cardinality(lastPrinted.used)
             /\ \A i, j \in 1..Len(printed) : printed[i].core = printed[j].core => i = j
  <2>1. DOMAIN active = {}
    BY <1>1
  <2>2. /\ \A i, j \in 1..Len(printed) : printed[i].core = printed[j].core => i = j
        /\ lastPrinted.used = {printed[i].core : i \in 1..Len(printed)}
    BY <1>1, <2>1 DEF ReportInv, LinesShowCores, UsedAreListed, Listing
  <2>3. Len(printed) = Cardinality(lastPrinted.used)
    <3> DEFINE shown == [i \in 1..Len(printed) |-> printed[i].core]
    <3>1. shown \in Bijection(1..Len(printed), lastPrinted.used)
      BY <2>2 DEF Bijection, Injection, Surjection, IsInjective
    <3>2. Len(printed) \in Nat
      BY <1>1, ReportTyped
    <3>3. IsFiniteSet(1..Len(printed)) /\ Cardinality(1..Len(printed)) = Len(printed)
      BY <3>2, FS_Interval, SMTT(30)
    <3> HIDE DEF shown
    <3>4. ExistsBijection(1..Len(printed), lastPrinted.used)
      BY <3>1 DEF ExistsBijection
    <3> QED
      BY <3>3, <3>4, FS_Bijection
  <2> QED
    BY <1>1, <2>1, <2>2, <2>3 DEF ReportInv, UnfinishedAreFound
<1>2. FCFSInv /\ ReportInv => ListIsComplete
  BY <1>1 DEF ListIsComplete, Report, printed
<1> QED
  BY <1>2, ReportInvAlways, PTL

===============================================================================

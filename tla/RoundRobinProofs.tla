--------------------------- MODULE RoundRobinProofs ---------------------------
(***************************************************************************)
(* RoundRobin never runs one process on two cores, loses none, and assigns *)
(* cores consistently, for every number of cores, every quantum and memory *)
(* size and every set of processes whose ids differ.                       *)
(***************************************************************************)
EXTENDS RoundRobin, MemoryBlocksProofs

\* What module Population shows of the processes of one populate thread.
IdsDiffer == \A p, q \in Processes : IdOf[p] = IdOf[q] => p = q

\* The part of TypeOK that the proof needs.
OwnersTyped ==
  /\ pc \in [Threads -> ThreadStates]
  /\ readyQueue \in Seq(Processes)
  /\ current \in [Cores -> Processes \cup {None}]
  /\ coreAvailable \in [Cores -> BOOLEAN]
  /\ assignedCore \in [Processes -> Int]
  /\ isFinished \in [Processes -> BOOLEAN]
  /\ nextCoreId \in Cores
  /\ added \subseteq Processes

\* A worker holds a process exactly while it is in the loop that runs it.
HoldsWhileRunning == \A c \in Cores : pc[c] = "exec" <=> current[c] # None

\* A process is untouched until it is added.
FinishedWereAdded == \A p \in Processes : isFinished[p] => p \in added

OwnerInv ==
  /\ OwnersTyped
  /\ HoldsWhileRunning
  /\ FinishedWereAdded
  /\ OneOwner
  /\ CoresMatchWorkers
  /\ WellFormed(memoryBlocks)

-------------------------------------------------------------------------------
(* The ready queue *)

InQueue(queue, p) == \E i \in 1..Len(queue) : queue[i] = p
Distinct(queue) == \A i, j \in 1..Len(queue) : queue[i] = queue[j] => i = j

\* The search of workerLoop stops at the first process that can run, if any can.
LEMMA PickedIsQueued ==
  ASSUME readyQueue \in Seq(Processes), \E i \in 1..Len(readyQueue) : Runnable(readyQueue[i])
  PROVE  /\ SelectInSeq(readyQueue, LAMBDA p : Runnable(p)) \in 1..Len(readyQueue)
         /\ Runnable(readyQueue[SelectInSeq(readyQueue, LAMBDA p : Runnable(p))])
         /\ \A i \in 1..Len(readyQueue) :
              i < SelectInSeq(readyQueue, LAMBDA p : Runnable(p)) => ~Runnable(readyQueue[i])
<1> DEFINE I == {i \in 1..Len(readyQueue) : Runnable(readyQueue[i])}
<1>1. Len(readyQueue) \in Nat
  BY LenProperties
<1>2. I \in SUBSET Nat /\ I # {} /\ I \subseteq 1..Len(readyQueue)
  BY <1>1
<1>3. SelectInSeq(readyQueue, LAMBDA p : Runnable(p)) = Min(I)
  BY <1>2 DEF SelectInSeq
<1> HIDE DEF I
<1>4. Min(I) \in I /\ \A i \in I : Min(I) <= i
  BY <1>2, MinIsLeast
<1>5. PICK m : m = Min(I)
  OBVIOUS
<1>6. m \in 1..Len(readyQueue) /\ Runnable(readyQueue[m])
  BY <1>4, <1>5 DEF I
<1>7. ASSUME NEW i \in 1..Len(readyQueue), i < m, Runnable(readyQueue[i]) PROVE FALSE
  <2>1. i \in I
    BY <1>7 DEF I
  <2>2. m <= i /\ m \in Nat /\ i \in Nat
    BY <1>2, <1>4, <1>5, <2>1
  <2> QED
    BY <1>7, <2>2
<1> QED
  BY <1>3, <1>5, <1>6, <1>7

\* Where the processes of the queue are after the k-th is taken: those behind it
\* first, then those that were in front of it.
LEMMA RotatedElements ==
  ASSUME NEW queue \in Seq(Processes), NEW k \in 1..Len(queue)
  PROVE  /\ Rotated(queue, k) \in Seq(Processes)
         /\ Len(Rotated(queue, k)) = Len(queue) - 1
         /\ \A i \in 1..(Len(queue) - 1) :
              Rotated(queue, k)[i] =
                IF i <= Len(queue) - k THEN queue[k + i] ELSE queue[i - (Len(queue) - k)]
<1> DEFINE back == SubSeq(queue, k + 1, Len(queue))
           front == SubSeq(queue, 1, k - 1)
<1>1. Len(queue) \in Nat
  BY LenProperties
<1>2. /\ back \in Seq(Processes)
      /\ Len(back) = Len(queue) - k
      /\ \A i \in 1..(Len(queue) - k) : back[i] = queue[k + i]
  <2>1. \A i \in (k + 1)..Len(queue) : queue[i] \in Processes
    BY <1>1, ElementOfSeq
  <2> HIDE DEF back
  <2> QED  BY <1>1, <2>1, SubSeqProperties DEF back
<1>3. /\ front \in Seq(Processes)
      /\ Len(front) = k - 1
      /\ \A i \in 1..(k - 1) : front[i] = queue[i]
  <2>1. \A i \in 1..(k - 1) : queue[i] \in Processes
    BY <1>1, ElementOfSeq
  <2> HIDE DEF front
  <2> QED  BY <1>1, <2>1, SubSeqProperties DEF front
<1>4. Rotated(queue, k) = back \o front
  BY DEF Rotated
<1> HIDE DEF back, front
<1>5. /\ back \o front \in Seq(Processes)
      /\ Len(back \o front) = Len(back) + Len(front)
      /\ \A i \in 1..(Len(back) + Len(front)) : (back \o front)[i] =
           IF i <= Len(back) THEN back[i] ELSE front[i - Len(back)]
  BY <1>2, <1>3, ConcatProperties
<1>6. Len(back) + Len(front) = Len(queue) - 1
  BY <1>1, <1>2, <1>3
<1>7. \A i \in 1..(Len(queue) - 1) : (back \o front)[i] =
           IF i <= Len(queue) - k THEN queue[k + i] ELSE queue[i - (Len(queue) - k)]
  <2> SUFFICES ASSUME NEW i \in 1..(Len(queue) - 1)
               PROVE  (back \o front)[i] =
                 IF i <= Len(queue) - k THEN queue[k + i] ELSE queue[i - (Len(queue) - k)]
    OBVIOUS
  <2>1. (back \o front)[i] =
          IF i <= Len(queue) - k THEN back[i] ELSE front[i - (Len(queue) - k)]
    BY <1>2, <1>5, <1>6
  <2>2. i <= Len(queue) - k => back[i] = queue[k + i]
    BY <1>1, <1>2
  <2>3. ~(i <= Len(queue) - k) =>
          front[i - (Len(queue) - k)] = queue[i - (Len(queue) - k)]
    BY <1>1, <1>3
  <2> QED  BY <2>1, <2>2, <2>3
<1> QED
  BY <1>4, <1>5, <1>6, <1>7

\* Taking the k-th process loses no other and doubles none.
LEMMA RotatedTakesOne ==
  ASSUME NEW queue \in Seq(Processes), NEW k \in 1..Len(queue), Distinct(queue)
  PROVE  /\ Distinct(Rotated(queue, k))
         /\ \A p : InQueue(Rotated(queue, k), p) <=> InQueue(queue, p) /\ p # queue[k]
<1> DEFINE n == Len(queue)
           rest == Rotated(queue, k)
           Origin(i) == IF i <= n - k THEN k + i ELSE i - (n - k)
<1>1. n \in Nat
  BY LenProperties
<1>2. /\ Len(rest) = n - 1
      /\ \A i \in 1..(n - 1) : rest[i] = queue[Origin(i)]
  BY <1>1, RotatedElements
<1>3. \A i \in 1..(n - 1) : Origin(i) \in 1..n /\ Origin(i) # k
  BY <1>1
<1>4. \A i, j \in 1..(n - 1) : Origin(i) = Origin(j) => i = j
  BY <1>1
<1>5. \A i \in 1..n : i # k => \E j \in 1..(n - 1) : Origin(j) = i
  <2> SUFFICES ASSUME NEW i \in 1..n, i # k PROVE \E j \in 1..(n - 1) : Origin(j) = i
    OBVIOUS
  <2>1. CASE i > k
    <3>1. i - k \in 1..(n - 1) /\ Origin(i - k) = i
      BY <1>1, <2>1
    <3> QED  BY <3>1
  <2>2. CASE i < k
    <3>1. i + (n - k) \in 1..(n - 1) /\ Origin(i + (n - k)) = i
      BY <1>1, <2>2
    <3> QED  BY <3>1
  <2> QED  BY <1>1, <2>1, <2>2
<1> HIDE DEF Origin, rest, n
<1>6. Distinct(rest)
  BY <1>2, <1>3, <1>4 DEF Distinct, n
<1>7. ASSUME NEW p, InQueue(rest, p) PROVE InQueue(queue, p) /\ p # queue[k]
  <2>1. PICK i \in 1..(n - 1) : rest[i] = p
    BY <1>2, <1>7 DEF InQueue
  <2>2. Origin(i) \in 1..n /\ Origin(i) # k /\ queue[Origin(i)] = p
    BY <1>2, <1>3, <2>1
  <2> QED  BY <2>2 DEF InQueue, Distinct, n
<1>8. ASSUME NEW p, InQueue(queue, p), p # queue[k] PROVE InQueue(rest, p)
  <2>1. PICK i \in 1..n : queue[i] = p
    BY <1>8 DEF InQueue, n
  <2>2. PICK j \in 1..(n - 1) : Origin(j) = i
    BY <1>5, <1>8, <2>1
  <2> QED  BY <1>2, <2>1, <2>2 DEF InQueue
<1> QED
  BY <1>6, <1>7, <1>8 DEF rest

\* A process put at the end of a queue is in it, once, with the others.
LEMMA AppendedLast ==
  ASSUME NEW queue \in Seq(Processes), NEW p \in Processes,
         Distinct(queue), ~InQueue(queue, p)
  PROVE  /\ Append(queue, p) \in Seq(Processes)
         /\ Distinct(Append(queue, p))
         /\ \A q : InQueue(Append(queue, p), q) <=> InQueue(queue, q) \/ q = p
<1>1. Len(queue) \in Nat
  BY LenProperties
<1>2. /\ Append(queue, p) \in Seq(Processes)
      /\ Len(Append(queue, p)) = Len(queue) + 1
      /\ \A i \in 1..Len(queue) : Append(queue, p)[i] = queue[i]
      /\ Append(queue, p)[Len(queue) + 1] = p
  BY AppendProperties
<1>3. \A i \in 1..(Len(queue) + 1) : i \in 1..Len(queue) \/ i = Len(queue) + 1
  BY <1>1
<1>4. Distinct(Append(queue, p))
  BY <1>1, <1>2, <1>3 DEF Distinct, InQueue
<1>5. ASSUME NEW q PROVE InQueue(Append(queue, p), q) <=> InQueue(queue, q) \/ q = p
  BY <1>1, <1>2, <1>3 DEF InQueue
<1> QED
  BY <1>2, <1>4, <1>5

-------------------------------------------------------------------------------
(* The steps *)

\* A worker is a thread numbered by its core.
LEMMA CoresAreThreads == Cores \subseteq Threads
BY NumCoresAssumption DEF Cores, Threads

\* notify_all wakes threads that wait and no other.
LEMMA NotifyAllStates ==
  ASSUME NEW states \in [Threads -> ThreadStates]
  PROVE  /\ NotifyAll(states) \in [Threads -> ThreadStates]
         /\ \A c \in Cores : NotifyAll(states)[c] = "exec" <=> states[c] = "exec"
BY CoresAreThreads DEF NotifyAll, ThreadStates

\* A step of waiting and waking: no process moves.
LEMMA NoProcessMoves ==
  ASSUME OwnerInv, pc' \in [Threads -> ThreadStates],
         \A c \in Cores : pc'[c] = "exec" <=> pc[c] = "exec",
         nextCoreId' \in Cores,
         UNCHANGED <<readyQueue, current, coreAvailable, assignedCore, isFinished,
                     added, memoryBlocks>>
  PROVE  OwnerInv'
<1>1. OwnersTyped'
  BY DEF OwnerInv, OwnersTyped
<1>2. HoldsWhileRunning'
  BY DEF OwnerInv, HoldsWhileRunning
<1>3. OneOwner'
  BY DEF OwnerInv, OneOwner, Queued, Held, HeldBy, Retired
<1>4. CoresMatchWorkers' /\ FinishedWereAdded'
  BY DEF OwnerInv, CoresMatchWorkers, FinishedWereAdded
<1> QED
  BY <1>1, <1>2, <1>3, <1>4 DEF OwnerInv

\* Steps that only move threads, none into or out of "exec".
LEMMA WakingAndWaiting ==
  ASSUME OwnerInv, \/ OwnerStep /\ UNCHANGED <<handlerVars, rrVars>>
                   \/ WakeWorkers
                   \/ WaitStep
  PROVE  OwnerInv'
<1>1. UNCHANGED <<handlerVars, rrVars>>
  BY DEF WakeWorkers, WaitStep
<1>2. pc \in [Threads -> ThreadStates]
  BY DEF OwnerInv, OwnersTyped
<1>3. /\ pc' \in [Threads -> ThreadStates]
      /\ \A c \in Cores : pc'[c] = "exec" <=> pc[c] = "exec"
  <2>1. CASE OwnerStep
    BY <1>2, <2>1, NotifyAllStates
       DEF OwnerStep, start, stop_ClearFlag, stop_NotifyAll, stop_Join
  <2>2. CASE WakeWorkers
    BY <1>2, <2>2, NotifyAllStates DEF WakeWorkers
  <2>3. CASE WaitStep
    <3>1. PICK t \in Threads :
            \/ BeginWait(t, readyQueue # << >>) \/ Block(t) \/ SpuriousWakeup(t) \/ LeaveLoop(t)
      BY <2>3 DEF WaitStep
    <3>2. \E state \in {"blocking", "waiting", "top", "done"} :
            pc[t] # "exec" /\ pc' = [pc EXCEPT ![t] = state]
      BY <3>1 DEF BeginWait, Block, SpuriousWakeup, LeaveLoop
    <3> QED  BY <1>2, <3>2 DEF ThreadStates, Threads, Cores
  <2> QED  BY <2>1, <2>2, <2>3
<1> QED
  BY <1>1, <1>3, NoProcessMoves DEF handlerVars, rrVars, OwnerInv, OwnersTyped

\* The turn passes to a core.
LEMMA TurnPasses == ASSUME nextCoreId \in Cores, PassTurn PROVE nextCoreId' \in Cores
BY NumCoresAssumption DEF PassTurn, Cores

\* A worker that finds nothing to run only passes the turn.
LEMMA NothingRunnable ==
  ASSUME OwnerInv, NEW c \in Cores, PickNone(c) PROVE OwnerInv'
<1>1. nextCoreId' \in Cores
  BY TurnPasses DEF PickNone, OwnerInv, OwnersTyped
<1> QED
  BY <1>1, NoProcessMoves
     DEF PickNone, schedulerVars, handlerVars, OwnerInv, OwnersTyped

\* notify_all after a turn.
LEMMA NotifyingOthers ==
  ASSUME OwnerInv, NEW c \in Cores, NotifyOthers(c) PROVE OwnerInv'
<1> DEFINE back == [pc EXCEPT ![c] = "top"]
<1>1. pc \in [Threads -> ThreadStates] /\ pc[c] = "notify" /\ c \in Threads
  BY CoresAreThreads DEF OwnerInv, OwnersTyped, NotifyOthers
<1>2. /\ back \in [Threads -> ThreadStates]
      /\ \A d \in Cores : back[d] = "exec" <=> pc[d] = "exec"
  BY <1>1 DEF ThreadStates, Threads, Cores
<1>3. pc' = NotifyAll(back)
  BY DEF NotifyOthers
<1> HIDE DEF back
<1>4. /\ pc' \in [Threads -> ThreadStates]
      /\ \A d \in Cores : pc'[d] = "exec" <=> pc[d] = "exec"
  BY <1>2, <1>3, NotifyAllStates
<1> QED
  BY <1>4, NoProcessMoves
     DEF NotifyOthers, handlerVars, rrVars, OwnerInv, OwnersTyped

\* What OneOwner says, in terms of the queue and the processes that are held.
PlacedOnce(queue, holding, finished, known) ==
  /\ Distinct(queue)
  /\ \A c, d \in Cores : holding[c] = holding[d] /\ holding[c] # None => c = d
  /\ \A p \in Processes :
       /\ InQueue(queue, p) => (\A c \in Cores : holding[c] # p) /\ ~finished[p]
       /\ \/ InQueue(queue, p)
          \/ \E c \in Cores : holding[c] = p
          \/ p \in known /\ finished[p]
          <=> p \in known

\* OneOwner, as an operator of the four variables it reads.
LEMMA OneOwnerIsPlacedOnce ==
  /\ OneOwner <=> PlacedOnce(readyQueue, current, isFinished, added)
  /\ OneOwner' <=> PlacedOnce(readyQueue', current', isFinished', added')
BY DEF OneOwner, PlacedOnce, Distinct, InQueue, Queued, Held, HeldBy, Retired

\* A new process is nowhere yet.
LEMMA Adding ==
  ASSUME OwnerInv, NEW p \in Processes, addProcess(p) PROVE OwnerInv'
<1>1. OwnersTyped /\ HoldsWhileRunning /\ FinishedWereAdded /\ OneOwner /\ CoresMatchWorkers
  BY DEF OwnerInv
<1>2. /\ p \notin added
      /\ added' = added \cup {p}
      /\ readyQueue' = Append(readyQueue, p)
      /\ UNCHANGED <<current, coreAvailable, assignedCore, nextCoreId, memoryBlocks, isFinished>>
      /\ NotifyOne
  BY DEF addProcess, handlerVars
<1>3. /\ pc' \in [Threads -> ThreadStates]
      /\ \A c \in Cores : pc'[c] = "exec" <=> pc[c] = "exec"
  BY <1>1, <1>2, CoresAreThreads DEF NotifyOne, ThreadStates, OwnersTyped
<1>4. ~InQueue(readyQueue, p) /\ Distinct(readyQueue) /\ readyQueue \in Seq(Processes)
  BY <1>1, <1>2, OneOwnerIsPlacedOnce DEF OwnersTyped, PlacedOnce
<1>5. /\ readyQueue' \in Seq(Processes)
      /\ Distinct(readyQueue')
      /\ \A q : InQueue(readyQueue', q) <=> InQueue(readyQueue, q) \/ q = p
  BY <1>2, <1>4, AppendedLast
<1>6. OwnersTyped'
  BY <1>1, <1>2, <1>3, <1>5 DEF OwnersTyped
<1>7. HoldsWhileRunning' /\ CoresMatchWorkers' /\ FinishedWereAdded'
  BY <1>1, <1>2, <1>3 DEF HoldsWhileRunning, CoresMatchWorkers, FinishedWereAdded
<1>8. OneOwner'
  <2>1. PlacedOnce(readyQueue, current, isFinished, added)
    BY <1>1, OneOwnerIsPlacedOnce
  <2>2. (\A c \in Cores : current[c] # p) /\ ~isFinished[p]
    BY <1>1, <1>2, <2>1 DEF FinishedWereAdded, PlacedOnce
  <2>3. PlacedOnce(readyQueue', current', isFinished', added')
    BY <1>2, <1>5, <2>1, <2>2 DEF PlacedOnce
  <2> QED  BY <2>3, OneOwnerIsPlacedOnce
<1>9. WellFormed(memoryBlocks')
  BY <1>2 DEF OwnerInv
<1> QED
  BY <1>6, <1>7, <1>8, <1>9 DEF OwnerInv

\* A worker takes a process from the queue, which no other worker holds.
LEMMA Picking ==
  ASSUME OwnerInv, NEW c \in Cores, Pick(c) PROVE OwnerInv'
<1> DEFINE k == SelectInSeq(readyQueue, LAMBDA q : Runnable(q))
           p == readyQueue[k]
<1>1. OwnersTyped /\ HoldsWhileRunning /\ FinishedWereAdded /\ OneOwner /\ CoresMatchWorkers
  BY DEF OwnerInv
<1>2. k \in 1..Len(readyQueue)
  BY <1>1, PickedIsQueued DEF Pick, OwnersTyped
<1>3. p \in Processes /\ p # None
  BY <1>1, <1>2, ElementOfSeq, RRAssumption DEF OwnersTyped
<1>4. /\ pc[c] = "top"
      /\ pc' = [pc EXCEPT ![c] = "exec"]
      /\ readyQueue' = Rotated(readyQueue, k)
      /\ memoryBlocks' = AfterAllocate(memoryBlocks, IdOf[p], Need[p])
      /\ current' = [current EXCEPT ![c] = p]
      /\ assignedCore' = [assignedCore EXCEPT ![p] = c]
      /\ coreAvailable' = [coreAvailable EXCEPT ![c] = FALSE]
      /\ PassTurn
      /\ UNCHANGED <<isFinished, added>>
  BY DEF Pick, MayPick, AssignCore
<1> HIDE DEF k
<1>5. Distinct(readyQueue) /\ readyQueue \in Seq(Processes)
  BY <1>1, OneOwnerIsPlacedOnce DEF OwnersTyped, PlacedOnce
<1>6. /\ readyQueue' \in Seq(Processes)
      /\ Distinct(readyQueue')
      /\ \A q : InQueue(readyQueue', q) <=> InQueue(readyQueue, q) /\ q # p
  BY <1>2, <1>4, <1>5, RotatedElements, RotatedTakesOne
<1>7. InQueue(readyQueue, p)
  BY <1>2 DEF InQueue
<1> HIDE DEF p
<1>8. current[c] = None
  BY <1>1, <1>4 DEF HoldsWhileRunning
<1>9. PlacedOnce(readyQueue, current, isFinished, added)
  BY <1>1, OneOwnerIsPlacedOnce
<1>10. (\A d \in Cores : current[d] # p) /\ p \in added
  BY <1>3, <1>7, <1>9 DEF PlacedOnce
<1>11. OwnersTyped'
  <2>1. nextCoreId' \in Cores
    BY <1>1, <1>4, TurnPasses DEF OwnersTyped
  <2>2. pc' \in [Threads -> ThreadStates]
    BY <1>1, <1>4 DEF OwnersTyped, ThreadStates
  <2>3. c \in Int
    BY NumCoresAssumption DEF Cores
  <2> QED  BY <1>1, <1>3, <1>4, <1>6, <2>1, <2>2, <2>3 DEF OwnersTyped
<1>12. HoldsWhileRunning'
  BY <1>1, <1>3, <1>4, CoresAreThreads DEF HoldsWhileRunning, OwnersTyped
<1>13. FinishedWereAdded'
  BY <1>1, <1>4 DEF FinishedWereAdded
<1>14. CoresMatchWorkers'
  BY <1>1, <1>3, <1>4, <1>10 DEF CoresMatchWorkers, OwnersTyped
<1>15. OneOwner'
  <2>1. \A d \in Cores : current'[d] = IF d = c THEN p ELSE current[d]
    BY <1>1, <1>4 DEF OwnersTyped
  <2>2. isFinished' = isFinished /\ added' = added
    BY <1>4
  <2>3. ASSUME NEW q \in Processes
        PROVE  (\E d \in Cores : current'[d] = q)
                 <=> q = p \/ (\E d \in Cores : current[d] = q)
    BY <1>3, <1>8, <2>1, RRAssumption
  <2>4. \A d, e \in Cores : current'[d] = current'[e] /\ current'[d] # None => d = e
    BY <1>9, <1>10, <2>1 DEF PlacedOnce
  <2>5. ASSUME NEW q \in Processes
        PROVE  /\ InQueue(readyQueue', q) =>
                    (\A d \in Cores : current'[d] # q) /\ ~isFinished'[q]
               /\ \/ InQueue(readyQueue', q)
                  \/ \E d \in Cores : current'[d] = q
                  \/ q \in added' /\ isFinished'[q]
                  <=> q \in added'
    BY <1>6, <1>9, <1>10, <2>2, <2>3 DEF PlacedOnce
  <2>6. PlacedOnce(readyQueue', current', isFinished', added')
    BY <1>6, <2>4, <2>5 DEF PlacedOnce
  <2> QED  BY <2>6, OneOwnerIsPlacedOnce
<1>16. WellFormed(memoryBlocks')
  BY <1>3, <1>4, AllocateWellFormed, RRAssumption DEF OwnerInv
<1> QED
  BY <1>11, <1>12, <1>13, <1>14, <1>15, <1>16 DEF OwnerInv

\* A call of executeNextInstruction.
LEMMA Executing ==
  ASSUME OwnerInv, NEW c \in Cores, Execute(c) PROVE OwnerInv'
<1> DEFINE p == current[c]
<1>1. OwnersTyped /\ HoldsWhileRunning /\ FinishedWereAdded /\ OneOwner /\ CoresMatchWorkers
  BY DEF OwnerInv
<1>2. /\ pc[c] = "exec"
      /\ isFinished' = [isFinished EXCEPT ![p] = (ticksLeft[p] = 1)]
      /\ UNCHANGED <<pc, readyQueue, current, coreAvailable, assignedCore, nextCoreId,
                     added, memoryBlocks>>
  BY DEF Execute, schedulerVars
<1>3. p # None /\ p \in Processes
  BY <1>1, <1>2 DEF HoldsWhileRunning, OwnersTyped
<1>4. PlacedOnce(readyQueue, current, isFinished, added)
  BY <1>1, OneOwnerIsPlacedOnce
<1>5. ~InQueue(readyQueue, p) /\ p \in added
  BY <1>3, <1>4 DEF PlacedOnce
<1>6. /\ isFinished' \in [Processes -> BOOLEAN]
      /\ \A q \in Processes : q # p => isFinished'[q] = isFinished[q]
  BY <1>1, <1>2 DEF OwnersTyped
<1>7. OwnersTyped' /\ HoldsWhileRunning' /\ CoresMatchWorkers'
  BY <1>1, <1>2, <1>6 DEF OwnersTyped, HoldsWhileRunning, CoresMatchWorkers
<1>8. FinishedWereAdded'
  BY <1>1, <1>2, <1>5, <1>6 DEF FinishedWereAdded
<1>9. OneOwner'
  <2>1. PlacedOnce(readyQueue', current', isFinished', added')
    BY <1>2, <1>3, <1>4, <1>5, <1>6 DEF PlacedOnce
  <2> QED  BY <2>1, OneOwnerIsPlacedOnce
<1>10. WellFormed(memoryBlocks')
  BY <1>2 DEF OwnerInv
<1> QED
  BY <1>7, <1>8, <1>9, <1>10 DEF OwnerInv

\* Only executeNextInstruction finishes a process: markProcessFinished marks
\* the one that is retired, which is finished, if no other has its id.
LEMMA EndingFinishesNone ==
  ASSUME IdsDiffer, OwnerInv, NEW c \in Cores, EndTurn(c) PROVE isFinished' = isFinished
<1>1. OwnersTyped /\ HoldsWhileRunning
  BY DEF OwnerInv
<1>2. PICK p : p = current[c]
  OBVIOUS
<1>3. p \in Processes
  BY <1>1, <1>2 DEF HoldsWhileRunning, OwnersTyped, EndTurn
<1>4. CASE isFinished[p]
  <2>1. isFinished' = [q \in Processes |->
          isFinished[q] \/ (IdOf[q] = IdOf[p] /\ q \in ToSet(runningList))]
    BY <1>2, <1>4 DEF EndTurn, Retire, MoveToFinished
  <2>2. \A q \in Processes : IdOf[q] = IdOf[p] => q = p
    BY <1>3 DEF IdsDiffer
  <2>3. \A q \in Processes : isFinished'[q] = isFinished[q]
    BY <1>1, <1>4, <2>1, <2>2, Zenon DEF OwnersTyped
  <2> QED
    BY <1>1, <2>1, <2>3 DEF OwnersTyped
<1>5. CASE ~isFinished[p]
  BY <1>2, <1>5 DEF EndTurn, Requeue, handlerVars
<1> QED
  BY <1>4, <1>5

\* At the end of its turn a process is retired or goes back into the queue: this
\* is where processes with the same id would be mistaken for each other.
LEMMA EndingTurn ==
  ASSUME IdsDiffer, OwnerInv, NEW c \in Cores, EndTurn(c) PROVE OwnerInv'
<1> DEFINE p == current[c]
<1>1. OwnersTyped /\ HoldsWhileRunning /\ FinishedWereAdded /\ OneOwner /\ CoresMatchWorkers
  BY DEF OwnerInv
<1>2. /\ pc[c] = "exec"
      /\ pc' = [pc EXCEPT ![c] = "notify"]
      /\ coreAvailable' = [coreAvailable EXCEPT ![c] = TRUE]
      /\ current' = [current EXCEPT ![c] = None]
      /\ IF isFinished[p] THEN Retire(p) ELSE Requeue(p)
      /\ UNCHANGED <<nextCoreId, added>>
  BY DEF EndTurn
<1>3. p # None /\ p \in Processes
  BY <1>1, <1>2 DEF HoldsWhileRunning, OwnersTyped
<1>4. PlacedOnce(readyQueue, current, isFinished, added)
  BY <1>1, OneOwnerIsPlacedOnce
<1>5. ~InQueue(readyQueue, p) /\ p \in added
  BY <1>3, <1>4 DEF PlacedOnce
<1>6. UNCHANGED assignedCore
  BY <1>2 DEF Retire, Requeue, handlerVars
<1>7. isFinished' = isFinished
  BY EndingFinishesNone
<1>8. /\ readyQueue' \in Seq(Processes)
      /\ Distinct(readyQueue')
      /\ \A q : InQueue(readyQueue', q)
                  <=> InQueue(readyQueue, q) \/ (q = p /\ ~isFinished[p])
  <2>1. readyQueue \in Seq(Processes) /\ Distinct(readyQueue)
    BY <1>1, <1>4 DEF OwnersTyped, PlacedOnce
  <2>2. CASE isFinished[p]
    BY <1>2, <2>1, <2>2 DEF Retire
  <2>3. CASE ~isFinished[p]
    <3>1. readyQueue' = Append(readyQueue, p)
      BY <1>2, <2>3 DEF Requeue
    <3> QED  BY <1>3, <1>5, <2>1, <2>3, <3>1, AppendedLast
  <2> QED  BY <2>2, <2>3
<1>9. WellFormed(memoryBlocks')
  <2>1. memoryBlocks' \in {memoryBlocks, AfterDeallocate(memoryBlocks, IdOf[p])}
    BY <1>2 DEF Retire, Requeue
  <2> QED  BY <1>3, <2>1, DeallocateWellFormed, RRAssumption DEF OwnerInv
<1> HIDE DEF p
<1>10. \A d \in Cores : current'[d] = IF d = c THEN None ELSE current[d]
  BY <1>1, <1>2 DEF OwnersTyped
<1>11. OwnersTyped'
  <2>1. pc' \in [Threads -> ThreadStates]
    BY <1>1, <1>2 DEF OwnersTyped, ThreadStates
  <2>2. current' \in [Cores -> Processes \cup {None}]
    BY <1>1, <1>2 DEF OwnersTyped
  <2> QED  BY <1>1, <1>2, <1>6, <1>7, <1>8, <2>1, <2>2 DEF OwnersTyped
<1>12. HoldsWhileRunning'
  BY <1>1, <1>2, <1>10, CoresAreThreads DEF HoldsWhileRunning, OwnersTyped
<1>13. FinishedWereAdded'
  BY <1>1, <1>2, <1>7 DEF FinishedWereAdded
<1>14. CoresMatchWorkers'
  BY <1>1, <1>2, <1>6, <1>10 DEF CoresMatchWorkers, OwnersTyped
<1>15. OneOwner'
  <2>1. current[c] = p /\ (\A d \in Cores : current[d] = p => d = c)
    BY <1>3, <1>4 DEF PlacedOnce, p
  <2>2. ASSUME NEW q \in Processes
        PROVE  (\E d \in Cores : current'[d] = q)
                 <=> q # p /\ (\E d \in Cores : current[d] = q)
    BY <1>10, <2>1, RRAssumption
  <2>3. \A d, e \in Cores : current'[d] = current'[e] /\ current'[d] # None => d = e
    BY <1>4, <1>10 DEF PlacedOnce
  <2>4. ASSUME NEW q \in Processes
        PROVE  /\ InQueue(readyQueue', q) =>
                    (\A d \in Cores : current'[d] # q) /\ ~isFinished'[q]
               /\ \/ InQueue(readyQueue', q)
                  \/ \E d \in Cores : current'[d] = q
                  \/ q \in added' /\ isFinished'[q]
                  <=> q \in added'
    BY <1>2, <1>4, <1>5, <1>7, <1>8, <2>2 DEF PlacedOnce
  <2>5. PlacedOnce(readyQueue', current', isFinished', added')
    BY <1>8, <2>3, <2>4 DEF PlacedOnce
  <2> QED  BY <2>5, OneOwnerIsPlacedOnce
<1> QED
  BY <1>9, <1>11, <1>12, <1>13, <1>14, <1>15 DEF OwnerInv

-------------------------------------------------------------------------------
\* At first no process has been added and memory is free.
LEMMA OwnerInvInitially == Init => OwnerInv
<1> SUFFICES ASSUME Init PROVE OwnerInv
  OBVIOUS
<1> USE DEF Init, SchedulerInit, HandlerInit
<1>1. OwnersTyped
  BY NumCoresAssumption DEF OwnersTyped, ThreadStates, Cores, NoCore
<1>2. HoldsWhileRunning
  BY CoresAreThreads DEF HoldsWhileRunning
<1>3. FinishedWereAdded /\ CoresMatchWorkers
  BY DEF FinishedWereAdded, CoresMatchWorkers
<1>4. OneOwner
  BY RRAssumption DEF OneOwner, Queued, Held, HeldBy, Retired
<1>5. WellFormed(memoryBlocks)
  BY InitialWellFormed
<1> QED
  BY <1>1, <1>2, <1>3, <1>4, <1>5 DEF OwnerInv

\* Every step keeps the invariant.
LEMMA OwnerInvKept ==
  ASSUME IdsDiffer, OwnerInv, [Next]_vars PROVE OwnerInv'
<1>1. CASE (OwnerStep /\ UNCHANGED <<handlerVars, rrVars>>) \/ WakeWorkers \/ WaitStep
  BY <1>1, WakingAndWaiting
<1>2. ASSUME NEW p \in Processes, addProcess(p) PROVE OwnerInv'
  BY <1>2, Adding
<1>3. ASSUME NEW c \in Cores, WorkerStep(c) PROVE OwnerInv'
  BY <1>3, Picking, NothingRunnable, Executing, EndingTurn, NotifyingOthers DEF WorkerStep
<1>4. CASE UNCHANGED vars
  BY <1>4, NoProcessMoves
     DEF vars, schedulerVars, handlerVars, rrVars, OwnerInv, OwnersTyped
<1> QED
  BY <1>1, <1>2, <1>3, <1>4 DEF Next

\* However many cores and whatever the quantum: a process added is in the queue
\* once, with one worker, or retired, and never run by two workers at a time.
THEOREM RoundRobinOneOwner ==
  ASSUME IdsDiffer PROVE Spec => []OneOwner
<1>1. OwnerInv /\ [Next]_vars => OwnerInv'
  BY OwnerInvKept
<1>2. OwnerInv => OneOwner
  BY DEF OwnerInv
<1> QED
  BY <1>1, <1>2, OwnerInvInitially, PTL DEF Spec

\* A core is available exactly when its worker holds no process, and a process
\* that is running is listed with the core it runs on.
THEOREM RoundRobinCoresMatch ==
  ASSUME IdsDiffer PROVE Spec => []CoresMatchWorkers
<1>1. OwnerInv /\ [Next]_vars => OwnerInv'
  BY OwnerInvKept
<1>2. OwnerInv => CoresMatchWorkers
  BY DEF OwnerInv
<1> QED
  BY <1>1, <1>2, OwnerInvInitially, PTL DEF Spec

-------------------------------------------------------------------------------
(* Memory *)

\* The block of a process has the size the process asked for.
BlocksAsAsked ==
  \A b \in UsedBlocks(memoryBlocks), p \in Processes :
    b.processId = IdOf[p] => b.size = Need[p]

HeldAreResident ==
  \A c \in Cores : current[c] # None => IsInMemory(memoryBlocks, IdOf[current[c]])

ResidenceInv == OwnerInv /\ BlocksAsAsked /\ HeldAreResident

\* A picked process had its block or has just got it.
LEMMA PickedIsResident ==
  ASSUME IdsDiffer, ResidenceInv, NEW c \in Cores, Pick(c)
  PROVE  BlocksAsAsked' /\ HeldAreResident'
<1> DEFINE k == SelectInSeq(readyQueue, LAMBDA q : Runnable(q))
           p == readyQueue[k]
<1>1. OwnersTyped /\ WellFormed(memoryBlocks) /\ BlocksAsAsked /\ HeldAreResident
  BY DEF ResidenceInv, OwnerInv
<1>2. k \in 1..Len(readyQueue) /\ Runnable(p)
  BY <1>1, PickedIsQueued DEF Pick, OwnersTyped
<1>3. p \in Processes /\ IdOf[p] \in ProcessIds /\ Need[p] \in Nat
  BY <1>1, <1>2, ElementOfSeq, RRAssumption DEF OwnersTyped
<1>4. /\ memoryBlocks' = AfterAllocate(memoryBlocks, IdOf[p], Need[p])
      /\ current' = [current EXCEPT ![c] = p]
  BY DEF Pick
<1> HIDE DEF k, p
<1>5. \A d \in Cores : current'[d] = IF d = c THEN p ELSE current[d]
  BY <1>1, <1>4 DEF OwnersTyped
<1>6. CASE IsInMemory(memoryBlocks, IdOf[p])
  <2>1. memoryBlocks' = memoryBlocks
    BY <1>4, <1>6 DEF AfterAllocate, CanAllocate
  <2> QED  BY <1>1, <1>5, <1>6, <2>1 DEF BlocksAsAsked, HeldAreResident
<1>7. CASE ~IsInMemory(memoryBlocks, IdOf[p])
  <2>1. CanAllocate(memoryBlocks, IdOf[p], Need[p]) /\ memoryBlocks \in Seq(Blocks)
    BY <1>1, <1>2, <1>7 DEF Runnable, WellFormed
  <2>2. PICK b : /\ b.allocated /\ b.processId = IdOf[p] /\ b.size = Need[p]
                 /\ UsedBlocks(memoryBlocks') = UsedBlocks(memoryBlocks) \cup {b}
    BY <1>3, <1>4, <2>1, AllocateAddsBlock
  <2>3. BlocksAsAsked'
    <3>1. \A q \in Processes : IdOf[q] = IdOf[p] => q = p
      BY <1>3 DEF IdsDiffer
    <3> QED  BY <1>1, <2>2, <3>1 DEF BlocksAsAsked
  <2>4. \A pid : IsInMemory(memoryBlocks', pid) <=> IsInMemory(memoryBlocks, pid) \/ pid = IdOf[p]
    BY <2>2, InMemoryByBlock
  <2>5. HeldAreResident'
    BY <1>1, <1>5, <2>4 DEF HeldAreResident
  <2> QED  BY <2>3, <2>5
<1> QED
  BY <1>6, <1>7

\* The process whose block is freed is held by no worker any more.
LEMMA RetiredLeavesMemory ==
  ASSUME IdsDiffer, ResidenceInv, NEW c \in Cores, EndTurn(c)
  PROVE  BlocksAsAsked' /\ HeldAreResident'
<1> DEFINE p == current[c]
<1>1. /\ OwnersTyped /\ HoldsWhileRunning /\ OneOwner /\ WellFormed(memoryBlocks)
      /\ BlocksAsAsked /\ HeldAreResident
  BY DEF ResidenceInv, OwnerInv
<1>2. /\ pc[c] = "exec"
      /\ current' = [current EXCEPT ![c] = None]
      /\ memoryBlocks' \in {memoryBlocks, AfterDeallocate(memoryBlocks, IdOf[p])}
  BY DEF EndTurn, Retire, Requeue
<1>3. p # None /\ p \in Processes
  BY <1>1, <1>2 DEF HoldsWhileRunning, OwnersTyped
<1>4. IdOf[p] \in ProcessIds
  BY <1>3, RRAssumption
<1>5. \A d \in Cores : current'[d] = IF d = c THEN None ELSE current[d]
  BY <1>1, <1>2 DEF OwnersTyped
<1>6. CASE memoryBlocks' = memoryBlocks
  BY <1>1, <1>5, <1>6 DEF BlocksAsAsked, HeldAreResident
<1>7. CASE memoryBlocks' = AfterDeallocate(memoryBlocks, IdOf[p])
  <2>1. UsedBlocks(memoryBlocks')
          = {b \in UsedBlocks(memoryBlocks) : b.processId # IdOf[p]}
    BY <1>1, <1>4, <1>7, DeallocateDropsBlock
  <2>2. BlocksAsAsked'
    BY <1>1, <2>1 DEF BlocksAsAsked
  <2>3. ASSUME NEW d \in Cores, current'[d] # None
        PROVE  IsInMemory(memoryBlocks', IdOf[current'[d]])
    <3>1. d # c /\ current'[d] = current[d] /\ current[d] \in Processes
      BY <1>1, <1>5, <2>3 DEF OwnersTyped
    <3>2. current[d] # p
      BY <1>1, <1>3, <3>1 DEF OneOwner
    <3>3. IdOf[current[d]] # IdOf[p]
      BY <1>3, <3>1, <3>2 DEF IdsDiffer
    <3>4. PICK b \in UsedBlocks(memoryBlocks) : b.processId = IdOf[current[d]]
      BY <1>1, <2>3, <3>1, InMemoryByBlock DEF HeldAreResident
    <3>5. b \in UsedBlocks(memoryBlocks')
      BY <2>1, <3>3, <3>4
    <3> QED  BY <3>1, <3>4, <3>5, InMemoryByBlock
  <2> QED  BY <2>2, <2>3 DEF HeldAreResident
<1> QED
  BY <1>2, <1>6, <1>7

\* Every step keeps the invariant.
LEMMA ResidenceInvKept ==
  ASSUME IdsDiffer, ResidenceInv, [Next]_vars PROVE ResidenceInv'
<1>1. OwnerInv'
  BY OwnerInvKept DEF ResidenceInv
<1>2. ASSUME UNCHANGED <<memoryBlocks, current>> PROVE BlocksAsAsked' /\ HeldAreResident'
  BY <1>2 DEF ResidenceInv, BlocksAsAsked, HeldAreResident
<1>3. BlocksAsAsked' /\ HeldAreResident'
  <2>1. CASE (OwnerStep /\ UNCHANGED <<handlerVars, rrVars>>) \/ WakeWorkers \/ WaitStep
    BY <1>2, <2>1 DEF WakeWorkers, WaitStep, rrVars
  <2>2. ASSUME NEW p \in Processes, addProcess(p) PROVE BlocksAsAsked' /\ HeldAreResident'
    BY <1>2, <2>2 DEF addProcess
  <2>3. ASSUME NEW c \in Cores, WorkerStep(c) PROVE BlocksAsAsked' /\ HeldAreResident'
    <3>1. CASE Pick(c)
      BY <3>1, PickedIsResident
    <3>2. CASE EndTurn(c)
      BY <3>2, RetiredLeavesMemory
    <3>3. CASE PickNone(c) \/ Execute(c) \/ NotifyOthers(c)
      BY <1>2, <3>3 DEF PickNone, Execute, NotifyOthers, rrVars
    <3> QED  BY <2>3, <3>1, <3>2, <3>3 DEF WorkerStep
  <2>4. CASE UNCHANGED vars
    BY <1>2, <2>4 DEF vars, rrVars
  <2> QED  BY <2>1, <2>2, <2>3, <2>4 DEF Next
<1> QED
  BY <1>1, <1>3 DEF ResidenceInv

\* At first there is no used block.
LEMMA ResidenceInvInitially == Init => ResidenceInv
<1> SUFFICES ASSUME Init PROVE BlocksAsAsked /\ HeldAreResident
  BY OwnerInvInitially DEF ResidenceInv
<1>1. UsedBlocks(memoryBlocks) = {}
  BY DEF Init, InitialBlocks, FreeBlock, UsedBlocks
<1>2. \A c \in Cores : current[c] = None
  BY DEF Init
<1> QED
  BY <1>1, <1>2 DEF BlocksAsAsked, HeldAreResident

\* However the calls of the workers interleave: a process that runs has a block
\* of main memory, of the size it asked for.
THEOREM RoundRobinRunsInMemory ==
  ASSUME IdsDiffer PROVE Spec => []RunsInMemory
<1>1. Init => ResidenceInv
  BY ResidenceInvInitially
<1>2. ResidenceInv /\ [Next]_vars => ResidenceInv'
  BY ResidenceInvKept
<1>3. ResidenceInv => RunsInMemory
  <2> SUFFICES ASSUME ResidenceInv, NEW c \in Cores, current[c] # None
               PROVE  \E i \in 1..Len(memoryBlocks) :
                        /\ HoldsProcess(memoryBlocks[i], IdOf[current[c]])
                        /\ memoryBlocks[i].size = Need[current[c]]
    BY DEF RunsInMemory
  <2>1. PICK i \in 1..Len(memoryBlocks) : HoldsProcess(memoryBlocks[i], IdOf[current[c]])
    BY DEF ResidenceInv, HeldAreResident, IsInMemory
  <2>2. memoryBlocks[i] \in UsedBlocks(memoryBlocks)
    BY <2>1, UsedBlocksMembers DEF HoldsProcess
  <2>3. current[c] \in Processes
    BY DEF ResidenceInv, OwnerInv, OwnersTyped
  <2> QED  BY <2>1, <2>2, <2>3 DEF ResidenceInv, BlocksAsAsked, HoldsProcess
<1> QED
  BY <1>1, <1>2, <1>3, PTL DEF Spec

-------------------------------------------------------------------------------
(* The running and the finished list *)

\* The entries of a list that are in a set: none is added, repeated or lost.
LEMMA OnlyProperties ==
  ASSUME NEW list \in Seq(Processes), NEW set
  PROVE  /\ Only(list, set) \in Seq(Processes)
         /\ ToSet(Only(list, set)) = ToSet(list) \cap set
         /\ IsInjective(list) => IsInjective(Only(list, set))
<1> DEFINE Keep(found, p) == IF p \in set THEN Append(found, p) ELSE found
           Good(t) == /\ Only(t, set) \in Seq(Processes)
                      /\ ToSet(Only(t, set)) = ToSet(t) \cap set
                      /\ IsInjective(t) => IsInjective(Only(t, set))
           T == {t \in Seq(Processes) : Good(t)}
<1>1. /\ Only(<< >>, set) = << >>
      /\ \A s \in Seq(Processes), e \in Processes :
           Only(Append(s, e), set) = IF e \in set THEN Append(Only(s, set), e) ELSE Only(s, set)
  <2>1. \A t : Only(t, set) = FoldLeft(Keep, << >>, t)
    BY DEF Only
  <2>2. FoldStep(Keep, << >>, Processes)
    <3> HIDE DEF Keep
    <3> QED
      BY FoldLeftStep
  <2>3. /\ FoldLeft(Keep, << >>, << >>) = << >>
        /\ \A s \in Seq(Processes), e \in Processes :
             FoldLeft(Keep, << >>, Append(s, e)) = Keep(FoldLeft(Keep, << >>, s), e)
    <3> HIDE DEF Keep
    <3> QED
      BY <2>2 DEF FoldStep
  <2> QED
    BY <2>1, <2>3
<1>2. << >> \in T
  <2>1. << >> \in Seq(Processes) /\ ToSet(<< >>) = {}
    BY DEF ToSet
  <2> QED
    BY <1>1, <2>1
<1>3. ASSUME NEW s \in Seq(Processes), NEW e \in Processes, s \in T
      PROVE  Append(s, e) \in T
  <2>1. Good(s)
    BY <1>3
  <2>2. /\ Append(s, e) \in Seq(Processes)
        /\ ToSet(Append(s, e)) = ToSet(s) \cup {e}
        /\ IsInjective(Append(s, e)) => IsInjective(s) /\ e \notin ToSet(s)
    BY AppendProperties, ElementsOfAppend, InjectiveAppend
  <2>3. CASE e \in set
    <3>1. PICK kept \in Seq(Processes) : kept = Only(s, set)
      BY <2>1
    <3>2. Only(Append(s, e), set) = Append(kept, e)
      BY <1>1, <2>3, <3>1
    <3>3. /\ Append(kept, e) \in Seq(Processes)
          /\ ToSet(Append(kept, e)) = ToSet(kept) \cup {e}
          /\ IsInjective(kept) /\ e \notin ToSet(kept) => IsInjective(Append(kept, e))
      BY AppendProperties, ElementsOfAppend, InjectiveAppend
    <3>4. ToSet(kept) = ToSet(s) \cap set /\ (IsInjective(s) => IsInjective(kept))
      BY <2>1, <3>1
    <3>5. IsInjective(Append(s, e)) => IsInjective(Append(kept, e))
      BY <2>2, <3>3, <3>4
    <3> QED
      BY <2>2, <2>3, <3>2, <3>3, <3>4, <3>5
  <2>4. CASE e \notin set
    <3>1. Only(Append(s, e), set) = Only(s, set)
      BY <1>1, <2>4
    <3> QED
      BY <2>1, <2>2, <2>4, <3>1
  <2> QED
    BY <2>3, <2>4
<1>4. Seq(Processes) \subseteq T
  <2> HIDE DEF T
  <2> QED
    BY <1>2, <1>3, SeqSetInduction
<1> QED
  BY <1>4

\* The two ways of saying that a list repeats nothing.
LEMMA DistinctIsInjective ==
  ASSUME NEW list \in Seq(Processes)
  PROVE  /\ Distinct(list) <=> IsInjective(list)
         /\ \A p : InQueue(list, p) <=> p \in ToSet(list)
BY LenProperties DEF Distinct, InQueue, IsInjective, ToSet

\* markProcessFinished moves a process from the one list to the other, if no
\* other process has its id.
LEMMA MovedToFinished ==
  ASSUME IdsDiffer, NEW p \in Processes, p \in ToSet(runningList), MoveToFinished(IdOf[p]),
         isFinished \in [Processes -> BOOLEAN],
         runningList \in Seq(Processes), finishedList \in Seq(Processes),
         IsInjective(runningList), IsInjective(finishedList), p \notin ToSet(finishedList)
  PROVE  /\ runningList' \in Seq(Processes) /\ finishedList' \in Seq(Processes)
         /\ IsInjective(runningList') /\ IsInjective(finishedList')
         /\ ToSet(runningList') = ToSet(runningList) \ {p}
         /\ ToSet(finishedList') = ToSet(finishedList) \cup {p}
         /\ isFinished' = [isFinished EXCEPT ![p] = TRUE]
<1> DEFINE marked == {q \in ToSet(runningList) : IdOf[q] = IdOf[p]}
<1>1. ToSet(runningList) \subseteq Processes
  BY LenProperties, ElementOfSeq DEF ToSet
<1>2. marked = {p}
  BY <1>1 DEF IdsDiffer
<1>3. /\ finishedList' = finishedList \o Only(runningList, {p})
      /\ runningList' = Only(runningList, Processes \ {p})
      /\ isFinished' = [q \in Processes |-> isFinished[q] \/ q \in {p}]
  BY <1>2 DEF MoveToFinished
<1>4. PICK moved \in Seq(Processes) :
        /\ moved = Only(runningList, {p}) /\ ToSet(moved) = {p} /\ IsInjective(moved)
  BY OnlyProperties
<1>5. /\ runningList' \in Seq(Processes) /\ IsInjective(runningList')
      /\ ToSet(runningList') = ToSet(runningList) \ {p}
  BY <1>1, <1>3, OnlyProperties
<1>6. /\ finishedList' \in Seq(Processes)
      /\ ToSet(finishedList') = ToSet(finishedList) \cup {p}
  <2>1. finishedList' = finishedList \o moved
    BY <1>3, <1>4
  <2>2. finishedList \o moved \in Seq(Processes)
    BY ConcatProperties
  <2>3. ToSet(finishedList \o moved) = ToSet(finishedList) \cup ToSet(moved)
    BY ElementsOfConcat, ZenonT(30)
  <2> QED
    BY <1>4, <2>1, <2>2, <2>3
<1>7. IsInjective(finishedList')
  BY <1>3, <1>4, InjectiveConcat
<1>8. isFinished' = [isFinished EXCEPT ![p] = TRUE]
  <2>1. \A q \in Processes : isFinished'[q] = IF q = p THEN TRUE ELSE isFinished[q]
    BY <1>3, Zenon
  <2> QED
    BY <1>3, <2>1
<1> QED
  BY <1>5, <1>6, <1>7, <1>8

\* Only processes that were added, and have not been retired, have memory, and
\* every allocated block is that of a process.
ResidentsAreActive ==
  /\ \A p \in Processes : IsInMemory(memoryBlocks, IdOf[p]) => p \in added /\ ~Retired(p)
  /\ \A b \in UsedBlocks(memoryBlocks) : \E p \in Processes : b.processId = IdOf[p]

\* ListsMatchMemory, in terms of sets.
ListsAgree ==
  /\ runningList \in Seq(Processes) /\ finishedList \in Seq(Processes)
  /\ IsInjective(runningList) /\ IsInjective(finishedList)
  /\ \A p \in Processes :
       /\ p \in ToSet(runningList) <=> IsInMemory(memoryBlocks, IdOf[p])
       /\ p \in ToSet(finishedList) <=> Retired(p)

AdmissionInv == ResidenceInv /\ ResidentsAreActive /\ ListsAgree

\* What is proved of the lists is what the runs check.
LEMMA ListsAgreeMatchMemory == ListsAgree => ListsMatchMemory
BY DistinctIsInjective DEF ListsAgree, ListsMatchMemory, Distinct

\* No process is admitted or retired unless a worker does so.
LEMMA NoneAdmitted ==
  ASSUME AdmissionInv, added \subseteq added',
         UNCHANGED <<memoryBlocks, runningList, finishedList>>,
         \A p \in Processes : Retired(p)' <=> Retired(p)
  PROVE  ResidentsAreActive' /\ ListsAgree'
BY DEF AdmissionInv, ResidentsAreActive, ListsAgree

\* insertProcess, when a worker gives a process memory: the process is entered
\* in the running list if it was not there, that is if it had no memory.
LEMMA PickedIsAdmitted ==
  ASSUME IdsDiffer, AdmissionInv, NEW c \in Cores, Pick(c)
  PROVE  ResidentsAreActive' /\ ListsAgree'
<1> DEFINE k == SelectInSeq(readyQueue, LAMBDA q : Runnable(q))
<1>1. /\ OwnersTyped /\ WellFormed(memoryBlocks) /\ ResidentsAreActive /\ ListsAgree
      /\ HoldsWhileRunning /\ PlacedOnce(readyQueue, current, isFinished, added)
  BY OneOwnerIsPlacedOnce DEF AdmissionInv, ResidenceInv, OwnerInv
<1>2. k \in 1..Len(readyQueue) /\ Runnable(readyQueue[k])
  BY <1>1, PickedIsQueued DEF Pick, OwnersTyped
<1>3. PICK p : p = readyQueue[k]
  OBVIOUS
<1>4. /\ p \in Processes /\ IdOf[p] \in ProcessIds /\ Need[p] \in Nat
      /\ InQueue(readyQueue, p)
  BY <1>1, <1>2, <1>3, ElementOfSeq, RRAssumption DEF OwnersTyped, InQueue
<1>5. /\ memoryBlocks' = AfterAllocate(memoryBlocks, IdOf[p], Need[p])
      /\ current' = [current EXCEPT ![c] = p]
      /\ runningList' = WithProcess(runningList, p)
      /\ UNCHANGED <<finishedList, isFinished, added>>
      /\ pc[c] = "top"
  BY <1>3 DEF Pick, MayPick
<1>6. p \in added /\ ~isFinished[p]
  BY <1>1, <1>4 DEF PlacedOnce
<1> HIDE DEF k
<1>7. \A d \in Cores : current'[d] = IF d = c THEN p ELSE current[d]
  BY <1>1, <1>5 DEF OwnersTyped
<1>8. \A q \in Processes : Retired(q)' <=> Retired(q)
  <2>1. current[c] = None
    BY <1>1, <1>5 DEF HoldsWhileRunning
  <2> QED
    BY <1>5, <1>6, <1>7, <2>1, RRAssumption DEF Retired, Held, HeldBy
<1>9. runningList' = IF p \in ToSet(runningList) THEN runningList ELSE Append(runningList, p)
  <2>1. (\E i \in 1..Len(runningList) : IdOf[runningList[i]] = IdOf[p]) <=> p \in ToSet(runningList)
    <3>1. \A i \in 1..Len(runningList) : IdOf[runningList[i]] = IdOf[p] <=> runningList[i] = p
      BY <1>1, <1>4, ElementOfSeq DEF ListsAgree, IdsDiffer
    <3> QED
      BY <1>1, <3>1, LenProperties DEF ListsAgree, ToSet
  <2> QED
    BY <1>5, <2>1 DEF WithProcess
<1>10. CASE IsInMemory(memoryBlocks, IdOf[p])
  <2>1. memoryBlocks' = memoryBlocks
    BY <1>5, <1>10 DEF AfterAllocate, CanAllocate
  <2>2. runningList' = runningList
    BY <1>1, <1>4, <1>9, <1>10 DEF ListsAgree
  <2> QED
    BY <1>5, <1>8, <2>1, <2>2, NoneAdmitted
<1>11. CASE ~IsInMemory(memoryBlocks, IdOf[p])
  <2>1. CanAllocate(memoryBlocks, IdOf[p], Need[p]) /\ memoryBlocks \in Seq(Blocks)
    BY <1>1, <1>2, <1>3, <1>11 DEF Runnable, WellFormed
  <2>2. PICK b : /\ b.processId = IdOf[p]
                 /\ UsedBlocks(memoryBlocks') = UsedBlocks(memoryBlocks) \cup {b}
    BY <1>4, <1>5, <2>1, AllocateAddsBlock
  <2>3. \A q \in Processes :
          IsInMemory(memoryBlocks', IdOf[q]) <=> IsInMemory(memoryBlocks, IdOf[q]) \/ q = p
    <3>1. \A q \in Processes : IdOf[q] = IdOf[p] <=> q = p
      BY <1>4 DEF IdsDiffer
    <3> QED
      BY <2>2, <3>1, InMemoryByBlock
  <2>4. ResidentsAreActive'
    <3>1. ~Retired(p)
      BY <1>6 DEF Retired
    <3>2. \A q \in Processes :
            IsInMemory(memoryBlocks', IdOf[q]) => q \in added' /\ ~Retired(q)'
      BY <1>1, <1>5, <1>6, <1>8, <2>3, <3>1 DEF ResidentsAreActive
    <3>3. \A d \in UsedBlocks(memoryBlocks') : \E q \in Processes : d.processId = IdOf[q]
      BY <1>1, <1>4, <2>2 DEF ResidentsAreActive
    <3> QED
      BY <3>2, <3>3 DEF ResidentsAreActive
  <2>5. p \notin ToSet(runningList) /\ runningList' = Append(runningList, p)
    BY <1>1, <1>4, <1>9, <1>11 DEF ListsAgree
  <2>6. /\ runningList' \in Seq(Processes) /\ IsInjective(runningList')
        /\ ToSet(runningList') = ToSet(runningList) \cup {p}
    BY <1>1, <1>4, <2>5, AppendProperties, InjectiveAppend, ElementsOfAppend DEF ListsAgree
  <2>7. ListsAgree'
    BY <1>1, <1>5, <1>8, <2>3, <2>6 DEF ListsAgree
  <2> QED
    BY <2>4, <2>7
<1> QED
  BY <1>10, <1>11

\* markProcessFinished and deallocateMemory: what has finished leaves the
\* running list and memory together, and is retired.
LEMMA RetiredIsListed ==
  ASSUME IdsDiffer, AdmissionInv, NEW c \in Cores, EndTurn(c)
  PROVE  ResidentsAreActive' /\ ListsAgree'
<1>1. /\ OwnersTyped /\ WellFormed(memoryBlocks) /\ ResidentsAreActive /\ ListsAgree
      /\ HoldsWhileRunning /\ PlacedOnce(readyQueue, current, isFinished, added)
      /\ HeldAreResident
  BY OneOwnerIsPlacedOnce DEF AdmissionInv, ResidenceInv, OwnerInv
<1>2. PICK p : p = current[c]
  OBVIOUS
<1>3. /\ pc[c] = "exec"
      /\ current' = [current EXCEPT ![c] = None]
      /\ IF isFinished[p] THEN Retire(p) ELSE Requeue(p)
      /\ added' = added
  BY <1>2 DEF EndTurn
<1>4. p # None /\ p \in Processes /\ IsInMemory(memoryBlocks, IdOf[p]) /\ IdOf[p] \in ProcessIds
  BY <1>1, <1>2, <1>3, RRAssumption DEF HoldsWhileRunning, OwnersTyped, HeldAreResident
<1>5. \A d \in Cores : current'[d] = IF d = c THEN None ELSE current[d]
  BY <1>1, <1>3 DEF OwnersTyped
<1>6. /\ p \in ToSet(runningList) /\ p \in added
      /\ ~Retired(p) /\ p \notin ToSet(finishedList)
  BY <1>1, <1>4 DEF ListsAgree, ResidentsAreActive
<1>7. \A q \in Processes : q # p => ((\E d \in Cores : current'[d] = q) <=> \E d \in Cores : current[d] = q)
  BY <1>2, <1>5, RRAssumption
<1>8. \A d \in Cores : current'[d] # p
  BY <1>1, <1>2, <1>4, <1>5 DEF PlacedOnce
<1>9. CASE ~isFinished[p]
  <2>1. UNCHANGED <<memoryBlocks, runningList, finishedList, isFinished>>
    BY <1>3, <1>9 DEF Requeue, handlerVars
  <2>2. \A q \in Processes : Retired(q)' <=> Retired(q)
    BY <1>3, <1>7, <1>9, <2>1 DEF Retired, Held, HeldBy
  <2> QED
    BY <1>3, <2>1, <2>2, NoneAdmitted
<1>10. CASE isFinished[p]
  <2>1. /\ MoveToFinished(IdOf[p])
        /\ memoryBlocks' = AfterDeallocate(memoryBlocks, IdOf[p])
    BY <1>3, <1>10 DEF Retire
  <2>2. /\ runningList' \in Seq(Processes) /\ finishedList' \in Seq(Processes)
        /\ IsInjective(runningList') /\ IsInjective(finishedList')
        /\ ToSet(runningList') = ToSet(runningList) \ {p}
        /\ ToSet(finishedList') = ToSet(finishedList) \cup {p}
        /\ isFinished' = [isFinished EXCEPT ![p] = TRUE]
    BY <1>1, <1>4, <1>6, <2>1, MovedToFinished DEF ListsAgree, OwnersTyped
  <2>3. \A q \in Processes : isFinished'[q] <=> isFinished[q]
    BY <1>1, <1>10, <2>2 DEF OwnersTyped
  <2>4. \A q \in Processes : Retired(q)' <=> Retired(q) \/ q = p
    BY <1>3, <1>6, <1>7, <1>8, <1>10, <2>3 DEF Retired, Held, HeldBy
  <2>5. UsedBlocks(memoryBlocks') = {b \in UsedBlocks(memoryBlocks) : b.processId # IdOf[p]}
    BY <1>1, <1>4, <2>1, DeallocateDropsBlock
  <2>6. \A q \in Processes :
          IsInMemory(memoryBlocks', IdOf[q]) <=> IsInMemory(memoryBlocks, IdOf[q]) /\ q # p
    <3>1. \A q \in Processes : IdOf[q] = IdOf[p] <=> q = p
      BY <1>4 DEF IdsDiffer
    <3> QED
      BY <2>5, <3>1, InMemoryByBlock
  <2>7. ResidentsAreActive'
    <3>1. \A q \in Processes :
            IsInMemory(memoryBlocks', IdOf[q]) => q \in added' /\ ~Retired(q)'
      BY <1>1, <1>3, <2>4, <2>6 DEF ResidentsAreActive
    <3>2. \A b \in UsedBlocks(memoryBlocks') : \E q \in Processes : b.processId = IdOf[q]
      BY <1>1, <2>5 DEF ResidentsAreActive
    <3> QED
      BY <3>1, <3>2 DEF ResidentsAreActive
  <2>8. ListsAgree'
    BY <1>1, <2>2, <2>4, <2>6 DEF ListsAgree
  <2> QED
    BY <2>7, <2>8
<1> QED
  BY <1>9, <1>10

\* Every step keeps the invariant.
LEMMA AdmissionInvKept ==
  ASSUME IdsDiffer, AdmissionInv, [Next]_vars PROVE AdmissionInv'
<1>1. ResidenceInv'
  BY ResidenceInvKept DEF AdmissionInv
<1>2. PlacedOnce(readyQueue, current, isFinished, added) /\ OwnersTyped /\ HoldsWhileRunning
      /\ FinishedWereAdded
  BY OneOwnerIsPlacedOnce DEF AdmissionInv, ResidenceInv, OwnerInv
<1>3. ASSUME UNCHANGED <<memoryBlocks, current, runningList, finishedList, isFinished, added>>
      PROVE  ResidentsAreActive' /\ ListsAgree'
  BY <1>3, NoneAdmitted DEF Retired, Held, HeldBy
<1>4. ResidentsAreActive' /\ ListsAgree'
  <2>1. CASE (OwnerStep /\ UNCHANGED <<handlerVars, rrVars>>) \/ WakeWorkers \/ WaitStep
             \/ UNCHANGED vars
    BY <1>3, <2>1 DEF WakeWorkers, WaitStep, vars, handlerVars, rrVars
  <2>2. ASSUME NEW p \in Processes, addProcess(p) PROVE ResidentsAreActive' /\ ListsAgree'
    <3>1. /\ p \notin added /\ added' = added \cup {p}
          /\ UNCHANGED <<memoryBlocks, current, runningList, finishedList, isFinished>>
      BY <2>2 DEF addProcess, handlerVars
    <3>2. ~isFinished[p]
      BY <1>2, <3>1 DEF FinishedWereAdded
    <3>3. \A q \in Processes : Retired(q)' <=> Retired(q)
      BY <3>1, <3>2 DEF Retired, Held, HeldBy
    <3> QED
      BY <3>1, <3>3, NoneAdmitted
  <2>3. ASSUME NEW c \in Cores, Execute(c) PROVE ResidentsAreActive' /\ ListsAgree'
    <3>1. /\ isFinished' = [isFinished EXCEPT ![current[c]] = (ticksLeft[current[c]] = 1)]
          /\ UNCHANGED <<memoryBlocks, current, runningList, finishedList, added>>
      BY <2>3 DEF Execute
    <3>2. \A q \in Processes : q # current[c] => isFinished'[q] = isFinished[q]
      BY <1>2, <3>1 DEF OwnersTyped
    <3>3. \A q \in Processes : Retired(q)' <=> Retired(q)
      BY <3>1, <3>2 DEF Retired, Held, HeldBy
    <3> QED
      BY <3>1, <3>3, NoneAdmitted
  <2>4. ASSUME NEW c \in Cores, PickNone(c) \/ NotifyOthers(c)
        PROVE  ResidentsAreActive' /\ ListsAgree'
    BY <1>3, <2>4 DEF PickNone, NotifyOthers, handlerVars, rrVars
  <2> QED
    BY <2>1, <2>2, <2>3, <2>4, PickedIsAdmitted, RetiredIsListed DEF Next, WorkerStep
<1> QED
  BY <1>1, <1>4 DEF AdmissionInv

\* At first the lists are empty.
LEMMA AdmissionInvInitially == Init => AdmissionInv
<1> SUFFICES ASSUME Init PROVE ResidentsAreActive /\ ListsAgree
  BY ResidenceInvInitially DEF AdmissionInv
<1>1. UsedBlocks(memoryBlocks) = {}
  BY DEF Init, InitialBlocks, FreeBlock, UsedBlocks
<1>2. \A p \in Processes : ~IsInMemory(memoryBlocks, IdOf[p]) /\ ~Retired(p)
  BY <1>1, InMemoryByBlock DEF Init, Retired
<1>3. runningList = << >> /\ finishedList = << >>
  BY DEF Init, HandlerInit
<1>4. << >> \in Seq(Processes) /\ IsInjective(<< >>) /\ ToSet(<< >>) = {}
  BY DEF IsInjective, ToSet
<1> QED
  BY <1>1, <1>2, <1>3, <1>4 DEF ResidentsAreActive, ListsAgree

\* The invariant holds.
LEMMA AdmissionInvAlways == ASSUME IdsDiffer PROVE Spec => []AdmissionInv
<1>1. AdmissionInv /\ [Next]_vars => AdmissionInv'
  BY AdmissionInvKept
<1> QED
  BY <1>1, AdmissionInvInitially, PTL DEF Spec

\* MemoryManager and ProcessHandler never disagree on which processes are
\* admitted, although each is locked, and asked, for itself.
THEOREM RoundRobinListsMatchMemory ==
  ASSUME IdsDiffer PROVE Spec => []ListsMatchMemory
<1>1. AdmissionInv => ListsMatchMemory
  BY ListsAgreeMatchMemory DEF AdmissionInv
<1> QED
  BY <1>1, AdmissionInvAlways, PTL

\* deallocateMemory merges what it frees: when no process is admitted, all of
\* memory is one free block, in whatever order the processes came and went.
THEOREM RoundRobinMemoryComesBack ==
  ASSUME IdsDiffer PROVE Spec => []MemoryComesBack
<1>1. AdmissionInv => MemoryComesBack
  <2> SUFFICES ASSUME AdmissionInv, runningList = << >>
               PROVE  memoryBlocks = InitialBlocks
    BY DEF MemoryComesBack
  <2>1. WellFormed(memoryBlocks) /\ ResidentsAreActive /\ ListsAgree
    BY DEF AdmissionInv, ResidenceInv, OwnerInv
  <2>2. ToSet(runningList) = {}
    BY DEF ToSet
  <2>3. UsedBlocks(memoryBlocks) = {}
    BY <2>1, <2>2, InMemoryByBlock DEF ResidentsAreActive, ListsAgree
  <2> QED
    BY <2>1, <2>3, NoUsedBlocks
<1> QED
  BY <1>1, AdmissionInvAlways, PTL

-------------------------------------------------------------------------------
(* Types *)

\* executeNextInstruction is called only while calls are left.
CountsDown == \A p \in Processes : isFinished[p] <=> ticksLeft[p] = 0

\* The part of TypeOK that no other property rests on.
FlagsTyped ==
  /\ running \in BOOLEAN
  /\ mainPc \in {"constructed", "started", "stopping", "joining", "stopped"}

CountersTyped ==
  /\ cyclesUsed \in [Cores -> 0..Quantum]
  /\ ticksLeft \in [Processes -> Nat]
  /\ CountsDown

\* The types that no other variable is needed for.
LEMMA FlagsKeepTypes == ASSUME FlagsTyped, [Next]_vars PROVE FlagsTyped'
<1>1. CASE OwnerStep
  BY <1>1 DEF OwnerStep, start, stop_ClearFlag, stop_NotifyAll, stop_Join, FlagsTyped
<1>2. CASE UNCHANGED <<running, mainPc>>
  BY <1>2 DEF FlagsTyped
<1>3. ASSUME WaitStep PROVE UNCHANGED <<running, mainPc>>
  BY <1>3 DEF WaitStep, BeginWait, Block, SpuriousWakeup, LeaveLoop
<1>4. ASSUME NEW c \in Cores, WorkerStep(c) PROVE UNCHANGED <<running, mainPc>>
  BY <1>4 DEF WorkerStep, Pick, PickNone, Execute, EndTurn, NotifyOthers, schedulerVars
<1> QED
  BY <1>1, <1>2, <1>3, <1>4 DEF Next, addProcess, WakeWorkers, vars, schedulerVars

\* A worker calls executeNextInstruction at most Quantum times in a turn, and
\* only for a process that has calls left.
LEMMA ExecutingCounts ==
  ASSUME OwnerInv, CountersTyped, NEW c \in Cores, Execute(c)
  PROVE  CountersTyped'
<1>1. OwnersTyped /\ HoldsWhileRunning
  BY DEF OwnerInv
<1>2. PICK p : p = current[c]
  OBVIOUS
<1>3. /\ cyclesUsed[c] < Quantum /\ ~isFinished[p]
      /\ ticksLeft' = [ticksLeft EXCEPT ![p] = ticksLeft[p] - 1]
      /\ isFinished' = [isFinished EXCEPT ![p] = (ticksLeft[p] = 1)]
      /\ cyclesUsed' = [cyclesUsed EXCEPT ![c] = cyclesUsed[c] + 1]
  BY <1>2 DEF Execute, TurnContinues
<1>4. p \in Processes
  BY <1>1, <1>2 DEF HoldsWhileRunning, OwnersTyped, Execute
<1>5. PICK n \in Nat : n = ticksLeft[p] /\ n # 0
  BY <1>3, <1>4 DEF CountersTyped, CountsDown
<1>6. n - 1 \in Nat /\ (n - 1 = 0 <=> n = 1)
  BY <1>5
<1>7. ticksLeft' \in [Processes -> Nat] /\ ticksLeft'[p] = n - 1
  BY <1>3, <1>4, <1>5, <1>6 DEF CountersTyped
<1>8. cyclesUsed' \in [Cores -> 0..Quantum]
  <2>1. cyclesUsed[c] \in 0..Quantum
    BY DEF CountersTyped
  <2>2. cyclesUsed[c] + 1 \in 0..Quantum
    BY <1>3, <2>1, RRAssumption
  <2> QED
    BY <1>3, <2>2 DEF CountersTyped
<1>9. CountsDown'
  <2>1. isFinished'[p] <=> ticksLeft'[p] = 0
    <3>1. isFinished'[p] <=> n = 1
      BY <1>1, <1>3, <1>4, <1>5 DEF OwnersTyped
    <3> QED
      BY <1>6, <1>7, <3>1
  <2>2. \A q \in Processes : q # p =>
          ticksLeft'[q] = ticksLeft[q] /\ (isFinished'[q] <=> isFinished[q])
    BY <1>1, <1>3 DEF OwnersTyped, CountersTyped
  <2> QED
    BY <2>1, <2>2 DEF CountersTyped, CountsDown
<1> QED
  BY <1>7, <1>8, <1>9 DEF CountersTyped

\* The counters of processes and workers stay in their ranges.
LEMMA CountersKeepTypes ==
  ASSUME IdsDiffer, OwnerInv, CountersTyped, [Next]_vars PROVE CountersTyped'
<1>1. ASSUME UNCHANGED <<isFinished, ticksLeft, cyclesUsed>> PROVE CountersTyped'
  BY <1>1 DEF CountersTyped, CountsDown
<1>2. CASE (OwnerStep /\ UNCHANGED <<handlerVars, rrVars>>) \/ WakeWorkers \/ WaitStep
           \/ UNCHANGED vars
  BY <1>1, <1>2 DEF WakeWorkers, WaitStep, vars, handlerVars, rrVars
<1>3. ASSUME NEW p \in Processes, addProcess(p) PROVE CountersTyped'
  BY <1>1, <1>3 DEF addProcess, handlerVars
<1>4. ASSUME NEW c \in Cores, Pick(c) \/ EndTurn(c) PROVE CountersTyped'
  <2>1. /\ UNCHANGED <<ticksLeft, isFinished>>
        /\ cyclesUsed' = [cyclesUsed EXCEPT ![c] = 0]
    BY <1>4, EndingFinishesNone DEF Pick, EndTurn
  <2>2. cyclesUsed' \in [Cores -> 0..Quantum]
    BY <2>1, RRAssumption DEF CountersTyped
  <2> QED
    BY <2>1, <2>2 DEF CountersTyped, CountsDown
<1>5. ASSUME NEW c \in Cores, PickNone(c) \/ NotifyOthers(c) PROVE CountersTyped'
  BY <1>1, <1>5 DEF PickNone, NotifyOthers, handlerVars, rrVars
<1> QED
  BY <1>2, <1>3, <1>4, <1>5, ExecutingCounts DEF Next, WorkerStep

TypeInv == AdmissionInv /\ FlagsTyped /\ CountersTyped

\* The invariant holds.
LEMMA TypeInvAlways == ASSUME IdsDiffer PROVE Spec => []TypeInv
<1>1. Init => TypeInv
  <2> SUFFICES ASSUME Init PROVE FlagsTyped /\ CountersTyped
    BY AdmissionInvInitially DEF TypeInv
  <2>1. FlagsTyped
    BY DEF Init, SchedulerInit, FlagsTyped
  <2>2. cyclesUsed \in [Cores -> 0..Quantum]
    BY RRAssumption DEF Init
  <2>3. ticksLeft \in [Processes -> Nat] /\ \A p \in Processes : ticksLeft[p] # 0
    BY RRAssumption DEF Init
  <2>4. CountsDown
    BY <2>3 DEF Init, HandlerInit, CountsDown
  <2> QED
    BY <2>1, <2>2, <2>3, <2>4 DEF CountersTyped
<1>2. TypeInv /\ [Next]_vars => TypeInv'
  BY AdmissionInvKept, FlagsKeepTypes, CountersKeepTypes DEF TypeInv, AdmissionInv, ResidenceInv
<1> QED
  BY <1>1, <1>2, PTL DEF Spec

\* The turn stays on a core there is, whatever the number of cores, no worker
\* exceeds its quantum, and no process is run once it has finished: else
\* ticksLeft would leave Nat.
THEOREM RoundRobinTypeCorrect ==
  ASSUME IdsDiffer PROVE Spec => []TypeOK
<1>1. TypeInv => TypeOK
  <2> SUFFICES ASSUME TypeInv PROVE TypeOK
    OBVIOUS
  <2>1. OwnersTyped /\ WellFormed(memoryBlocks) /\ ListsAgree /\ FlagsTyped /\ CountersTyped
    BY DEF TypeInv, AdmissionInv, ResidenceInv, OwnerInv
  <2>2. HandlerTypeOK
    BY <2>1 DEF HandlerTypeOK, OwnersTyped, ListsAgree
  <2>3. memoryBlocks \in Seq(Blocks)
    BY <2>1 DEF WellFormed
  <2> QED
    BY <2>1, <2>2, <2>3 DEF TypeOK, OwnersTyped, FlagsTyped, CountersTyped
<1> QED
  BY <1>1, TypeInvAlways, PTL

-------------------------------------------------------------------------------
(* The order of the queue *)

\* A process that could run is not in front of the one that is picked, so only
\* the processes behind the picked one can be in front of it afterwards, and
\* they were already.
LEMMA PickingKeepsOrder ==
  ASSUME OwnerInv, NEW c \in Cores, Pick(c), NEW p \in Processes, NEW q \in Processes,
         Runnable(p), Before(readyQueue', q, p)
  PROVE  Before(readyQueue, q, p)
<1>1. readyQueue \in Seq(Processes) /\ \E i \in 1..Len(readyQueue) : Runnable(readyQueue[i])
  BY DEF OwnerInv, OwnersTyped, Pick
<1>2. PICK n \in Nat : n = Len(readyQueue)
  BY <1>1, LenProperties
<1>3. PICK k \in 1..n : /\ readyQueue' = Rotated(readyQueue, k)
                        /\ \A i \in 1..n : i < k => ~Runnable(readyQueue[i])
  BY <1>1, <1>2, PickedIsQueued DEF Pick
<1>4. /\ Len(readyQueue') = n - 1
      /\ \A i \in 1..(n - 1) :
           readyQueue'[i] = IF i <= n - k THEN readyQueue[k + i] ELSE readyQueue[i - (n - k)]
  BY <1>1, <1>2, <1>3, RotatedElements
<1>5. PICK i, j \in 1..(n - 1) : i < j /\ readyQueue'[i] = q /\ readyQueue'[j] = p
  BY <1>4 DEF Before
<1>6. j <= n - k
  <2> SUFFICES ASSUME ~(j <= n - k) PROVE FALSE
    OBVIOUS
  <2>1. j - (n - k) \in 1..n /\ j - (n - k) < k
    OBVIOUS
  <2>2. readyQueue[j - (n - k)] = p
    BY <1>4, <1>5
  <2> QED
    BY <1>3, <2>1, <2>2
<1>7. i <= n - k /\ k + i \in 1..n /\ k + j \in 1..n /\ k + i < k + j
  BY <1>5, <1>6
<1>8. readyQueue[k + i] = q /\ readyQueue[k + j] = p
  BY <1>4, <1>5, <1>6, <1>7
<1> QED
  BY <1>2, <1>7, <1>8 DEF Before

\* A process put at the end of the queue is in front of none.
LEMMA AppendingKeepsOrder ==
  ASSUME NEW queue \in Seq(Processes), NEW r \in Processes, NEW p, NEW q, r # p,
         Before(Append(queue, r), q, p)
  PROVE  Before(queue, q, p)
<1>1. PICK n \in Nat : n = Len(queue)
  BY LenProperties
<1>2. /\ Len(Append(queue, r)) = n + 1
      /\ \A i \in 1..n : Append(queue, r)[i] = queue[i]
      /\ Append(queue, r)[n + 1] = r
  BY <1>1, AppendProperties
<1>3. PICK i, j \in 1..(n + 1) :
        i < j /\ Append(queue, r)[i] = q /\ Append(queue, r)[j] = p
  BY <1>2 DEF Before
<1>4. j # n + 1
  BY <1>2, <1>3
<1>5. i \in 1..n /\ j \in 1..n
  BY <1>3, <1>4
<1> QED
  BY <1>1, <1>2, <1>3, <1>5 DEF Before

\* Of a process that has memory: whoever is in front of it in the queue was in
\* front of it before. It cannot starve for want of its turn, since a turn of
\* any other ends behind it.
THEOREM RoundRobinResidentsKeepOrder ==
  ASSUME IdsDiffer PROVE Spec => ResidentsKeepOrder
<1> DEFINE Kept(p, q) ==
      /\ Queued(p) /\ Queued(p)'
      /\ IsInMemory(memoryBlocks, IdOf[p])
      /\ Before(readyQueue', q, p)
      => Before(readyQueue, q, p)
<1>1. OwnerInv /\ [Next]_vars => [\A p, q \in Processes : Kept(p, q)]_vars
  <2> SUFFICES ASSUME OwnerInv, Next, NEW p \in Processes, NEW q \in Processes,
                      Queued(p), Queued(p)', IsInMemory(memoryBlocks, IdOf[p]),
                      Before(readyQueue', q, p)
               PROVE  Before(readyQueue, q, p)
    OBVIOUS
  <2>1. /\ readyQueue \in Seq(Processes) /\ PlacedOnce(readyQueue, current, isFinished, added)
        /\ HoldsWhileRunning /\ current \in [Cores -> Processes \cup {None}]
    BY OneOwnerIsPlacedOnce DEF OwnerInv, OwnersTyped
  <2>2. InQueue(readyQueue, p)
    BY DEF Queued, InQueue
  <2>3. CASE UNCHANGED readyQueue
    BY <2>3
  <2>4. ASSUME NEW r \in Processes, addProcess(r) PROVE Before(readyQueue, q, p)
    <3>1. r # p /\ readyQueue' = Append(readyQueue, r)
      BY <2>1, <2>2, <2>4 DEF addProcess, PlacedOnce
    <3> QED
      BY <2>1, <3>1, AppendingKeepsOrder
  <2>5. ASSUME NEW c \in Cores, Pick(c) PROVE Before(readyQueue, q, p)
    BY <2>5, PickingKeepsOrder DEF Runnable
  <2>6. ASSUME NEW c \in Cores, EndTurn(c), ~UNCHANGED readyQueue PROVE Before(readyQueue, q, p)
    <3>1. readyQueue' = Append(readyQueue, current[c]) /\ pc[c] = "exec"
      BY <2>6 DEF EndTurn, Retire, Requeue
    <3>2. current[c] \in Processes /\ current[c] # p
      BY <2>1, <2>2, <3>1 DEF HoldsWhileRunning, PlacedOnce
    <3> QED
      BY <2>1, <3>1, <3>2, AppendingKeepsOrder
  <2>7. ASSUME NEW c \in Cores, PickNone(c) \/ Execute(c) \/ NotifyOthers(c)
        PROVE  UNCHANGED readyQueue
    BY <2>7 DEF PickNone, Execute, NotifyOthers, rrVars
  <2>8. CASE (OwnerStep /\ UNCHANGED <<handlerVars, rrVars>>) \/ WakeWorkers \/ WaitStep
    BY <2>3, <2>8 DEF WakeWorkers, WaitStep, rrVars
  <2> QED
    BY <2>3, <2>4, <2>5, <2>6, <2>7, <2>8 DEF Next, WorkerStep
<1>2. OwnerInv /\ [Next]_vars => OwnerInv'
  BY OwnerInvKept
<1> QED
  BY <1>1, <1>2, OwnerInvInitially, PTL DEF Spec, ResidentsKeepOrder

===============================================================================

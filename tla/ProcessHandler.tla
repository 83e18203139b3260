---------------------------- MODULE ProcessHandler ----------------------------
(***************************************************************************)
(* The two lists a scheduler keeps of the processes it has dispatched, and *)
(* the fields of a Process that the lists are searched by.                 *)
(*                                                                         *)
(* Each method of ProcessHandler holds processMutex throughout, so it is   *)
(* one operator here; the schedulers' actions are built from them.         *)
(***************************************************************************)
EXTENDS Integers, SequencesExt

CONSTANTS
  Processes,    \* the Process objects
  IdOf          \* IdOf[p] is p's id: the lists are searched by id, not by object

VARIABLES
  runningList,    \* dispatched processes not yet marked finished, oldest first
  finishedList,   \* processes marked finished, oldest first
  assignedCore,   \* Process::assignedCore
  isFinished      \* Process::isFinished

handlerVars == <<runningList, finishedList, assignedCore, isFinished>>

NoCore == -1

HandlerTypeOK ==
  /\ runningList \in Seq(Processes)
  /\ finishedList \in Seq(Processes)
  /\ assignedCore \in [Processes -> Int]
  /\ isFinished \in [Processes -> BOOLEAN]

HandlerInit ==
  /\ runningList = << >>
  /\ finishedList = << >>
  /\ assignedCore = [p \in Processes |-> NoCore]
  /\ isFinished = [p \in Processes |-> FALSE]

WithProcess_Always(list, p) == Append(list, p)
WithProcess_InFront(list, p) ==
  IF \E i \in 1..Len(list) : IdOf[list[i]] = IdOf[p] THEN list ELSE <<p>> \o list

\* insertProcess: the list with p recorded, once per id.
WithProcess(list, p) ==
  IF \E i \in 1..Len(list) : IdOf[list[i]] = IdOf[p] THEN list ELSE Append(list, p)

\* The entries of the list that are in a set, in their order.
Only(list, set) ==
  FoldLeft(LAMBDA found, p : IF p \in set THEN Append(found, p) ELSE found, << >>, list)

\* markProcessFinished: every running process with this id is marked and moved.
MoveToFinished(id) ==
  LET marked == {p \in ToSet(runningList) : IdOf[p] = id}
  IN  /\ finishedList' = finishedList \o Only(runningList, marked)
      /\ runningList' = Only(runningList, Processes \ marked)
      /\ isFinished' = [p \in Processes |-> isFinished[p] \/ p \in marked]

UnfinishedOnCore(p, core) == assignedCore[p] = core /\ ~isFinished[p]

hasUnfinishedProcessOnCore(core) ==
  \E i \in 1..Len(runningList) : UnfinishedOnCore(runningList[i], core)

\* The first of getProcessesByCore that has not finished.
firstUnfinishedProcessOnCore(core) ==
  runningList[SelectInSeq(runningList, LAMBDA p : UnfinishedOnCore(p, core))]

\* getCurrentlyActiveProcessesPerCore: what screen -ls lists as running.
CurrentlyActivePerCore(cores) ==
  {firstUnfinishedProcessOnCore(core) :
     core \in {c \in cores : hasUnfinishedProcessOnCore(c)}}

===============================================================================

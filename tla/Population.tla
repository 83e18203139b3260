------------------------------ MODULE Population ------------------------------
(***************************************************************************)
(* Where the processes that a scheduler runs come from: populateProcesses, *)
(* on a detached thread for each scheduler-start, until scheduler-stop     *)
(* clears populate_running. Nothing waits for the thread before.           *)
(*                                                                         *)
(* The steps of a thread are as fine as the accesses to what the threads   *)
(* share: populate_running, processCounter (a plain int, whose increment   *)
(* is a read and a write), the screens and the scheduler. In addNewScreen  *)
(* a thread is "entering" the session, "recording" the process, "showing"  *)
(* the session it reads again, and "setting" the current console.          *)
(***************************************************************************)
EXTENDS ConsoleManager, SequencesExt

CONSTANTS
  Populators,     \* the threads that scheduler-start can start
  UserNames,      \* names typed after screen -s and screen -r
  MinIns, MaxIns, \* Config::min_ins, max_ins
  MaxProcesses    \* bound: no more processes are made when there are so many

ASSUME PopulationAssumption ==
  /\ MinIns \in Nat
  /\ MaxIns \in Nat
  /\ MinIns <= MaxIns
  /\ MaxProcesses \in Nat
  /\ MAIN \notin Nat

VARIABLES
  populate_running,
  processCounter,    \* the static counter of populateProcesses
  processes,         \* every Process made, by order: its name, id, instructions
  handed,            \* the processes passed to addProcess, by index, in order
  populator          \* populator[t], the local state of thread t

populationVars == <<populate_running, processCounter, processes, handed, populator>>

\* A name made by populateProcesses is the number in it.
Names == Nat \cup UserNames

Idle == [pc |-> "idle", name |-> 0, id |-> 0, process |-> 0, console |-> MainConsole,
         numInstructions |-> 0]

PopulationInit ==
  /\ populate_running = FALSE
  /\ processCounter = 0
  /\ processes = << >>
  /\ handed = << >>
  /\ populator = [t \in Populators |-> Idle]

At(t, pc) == populator[t].pc = pc
Goto(t, pc) == populator' = [populator EXCEPT ![t].pc = pc]

\* A Process as its constructor leaves it.
NewProcess(name, id, byUser) ==
  [name |-> name, id |-> id, instructions |-> 0, byUser |-> byUser]

-------------------------------------------------------------------------------
(* populateProcesses, on thread t *)

LoopTest_Always(t) == TRUE

LoopTest(t) == populate_running

\* The end of the timed wait, at whatever time, and `while (populate_running)';
\* if the thread goes on it also reads processCounter, to increment it.
BeginRound(t) ==
  /\ At(t, "loop")
  /\ IF LoopTest(t)
     THEN /\ Len(processes) < MaxProcesses
          /\ populator' = [populator EXCEPT ![t].pc = "counting", ![t].name = processCounter]
     ELSE Goto(t, "done")
  /\ UNCHANGED <<populate_running, processCounter, processes, handed, consoleVars>>

NextCount_Same(n) == n

NextCount(n) == n + 1

WriteCounter(t) ==
  /\ At(t, "counting")
  /\ processCounter' = NextCount(populator[t].name)
  /\ Goto(t, "naming")
  /\ UNCHANGED <<populate_running, processes, handed, consoleVars>>

\* A process is made, with processCounter read again as its id. No one else sees
\* it before its screen, with which it is listed in processes.
CreateProcess(t) ==
  /\ At(t, "naming")
  /\ populator' = [populator EXCEPT ![t].pc = "entering", ![t].id = processCounter]
  /\ UNCHANGED <<populate_running, processCounter, processes, handed, consoleVars>>

\* addNewScreen, from here to ShowScreen
AddSession(t) ==
  /\ At(t, "entering")
  /\ LET process == Len(processes) + 1
     IN  /\ processes' = Append(processes, NewProcess(populator[t].name, populator[t].id, FALSE))
         /\ EnterSession(populator[t].name, process)
         /\ populator' = [populator EXCEPT ![t].pc = "recording", ![t].process = process]
  /\ UNCHANGED <<populate_running, processCounter, handed>>

AddScreenProcess(t) ==
  /\ At(t, "recording")
  /\ EnterProcess(populator[t].name, populator[t].process)
  /\ Goto(t, "showing")
  /\ UNCHANGED <<populate_running, processCounter, processes, handed>>

ReadSession(t) ==
  /\ At(t, "showing")
  /\ populator' = [populator EXCEPT ![t].pc = "setting",
                                   ![t].console = screenSessions[populator[t].name]]
  /\ UNCHANGED <<populate_running, processCounter, processes, handed, consoleVars>>

\* Then the number of instructions is drawn.
ShowScreen(t) ==
  /\ At(t, "setting")
  /\ SetCurrent(populator[t].console)
  /\ \E n \in MinIns..MaxIns :
       populator' = [populator EXCEPT ![t].pc = "filling", ![t].console = MainConsole,
                                      ![t].numInstructions = n]
  /\ UNCHANGED <<populate_running, processCounter, processes, handed>>

Filled_OneMore(t) ==
  processes[populator[t].process].instructions > populator[t].numInstructions
Filled_OneShort(t) ==
  processes[populator[t].process].instructions >= populator[t].numInstructions - 1

Filled(t) ==
  processes[populator[t].process].instructions >= populator[t].numInstructions

AddInstruction(t) ==
  /\ At(t, "filling")
  /\ ~Filled(t) /\ populate_running
  /\ processes' = [processes EXCEPT ![populator[t].process].instructions = @ + 1]
  /\ UNCHANGED <<populate_running, processCounter, handed, populator, consoleVars>>

EndFilling(t) ==
  /\ At(t, "filling")
  /\ Filled(t) \/ ~populate_running
  /\ Goto(t, "filled")
  /\ UNCHANGED <<populate_running, processCounter, processes, handed, consoleVars>>

\* `if (populate_running)' ...
TestBeforeHanding(t) ==
  /\ At(t, "filled")
  /\ Goto(t, IF populate_running THEN "handing" ELSE "loop")
  /\ UNCHANGED <<populate_running, processCounter, processes, handed, consoleVars>>

\* ... addProcess
HandOver(t) ==
  /\ At(t, "handing")
  /\ handed' = Append(handed, populator[t].process)
  /\ Goto(t, "loop")
  /\ UNCHANGED <<populate_running, processCounter, processes, consoleVars>>

PopulatorStep(t) ==
  \/ BeginRound(t) \/ WriteCounter(t) \/ CreateProcess(t)
  \/ AddSession(t) \/ AddScreenProcess(t) \/ ReadSession(t) \/ ShowScreen(t)
  \/ AddInstruction(t) \/ EndFilling(t) \/ TestBeforeHanding(t) \/ HandOver(t)

===============================================================================

--------------------------------- MODULE Shell ---------------------------------
(***************************************************************************)
(* The commands of main, beside the populate threads: initialize, the      *)
(* scheduler-, screen- and clear commands and exit. Commands that change   *)
(* nothing (process-smi, vmstat, screen -c, refused commands) are left     *)
(* out; screen -ls and report-util are in Reports.                         *)
(*                                                                         *)
(* A command takes as many steps as it has accesses to the screens, which  *)
(* the populate threads change. The main thread is                         *)
(*   "prompt"     at `Enter a command';                                    *)
(*   "adding"     in screen -s: its process is made, not yet its console;  *)
(*   "recording"  ... which is entered, but not the process;               *)
(*   "switching"  about to look up the console by the process's name, in   *)
(*                screen -s as in screen -r, which has found the process;  *)
(*   "setting"    about to make the console it looked up the current one;  *)
(*   "drawing"    about to draw the current console;                       *)
(*   "session"    on the screen of a process, until exit is typed;         *)
(*   "exited".                                                             *)
(***************************************************************************)
EXTENDS Population

CONSTANT Configured   \* what config.txt may name as the scheduler

Schedulers == {"fcfs", "rr"}

VARIABLES
  initialized,     \* Config::initialized
  scheduler,       \* the kind of scheduler there is, or "none"
  processId,       \* the static counter of screen -s
  main             \* where the main thread is, the process whose screen it was
                   \* asked for or is on, the console it looked up, and the
                   \* consoles that were settled when it was asked

shellVars == <<initialized, scheduler, processId, main>>
vars == <<shellVars, populationVars, consoleVars>>

Prompt == [at |-> "prompt", process |-> MainConsole, console |-> MainConsole, settled |-> {}]

Init ==
  /\ ConsoleInit
  /\ PopulationInit
  /\ initialized = FALSE
  /\ scheduler = "none"
  /\ processId = 0
  /\ main = Prompt

\* The name of the session that a console was made for.
NameOf(console) == IF console = MainConsole THEN MAIN ELSE processes[console].name

\* Thread t is in addNewScreen, past the entry of the session.
Showing(t) == populator[t].pc \in {"recording", "showing", "setting"}

\* The consoles whose name no populate thread is about to show.
Settled == {c \in 0..Len(processes) :
              \A t \in Populators : Showing(t) => populator[t].name # NameOf(c)}

\* at, asked for the given process, with this console looked up.
Becomes(at, process, console) ==
  main' = [at |-> at, process |-> process, console |-> console, settled |-> Settled]

NoPopulatorRuns == \A t \in Populators : At(t, "idle") \/ At(t, "done")

-------------------------------------------------------------------------------
(* The scheduler and the population *)

\* Only for these two names is a scheduler made and started; for any other the
\* one there was, if any, goes on.
Created(kind) == IF kind \in Schedulers THEN kind ELSE scheduler

\* The user does not initialize again while a populate thread runs: it could be
\* inside the scheduler that is replaced.
initialize(kind) ==
  /\ main.at = "prompt"
  /\ NoPopulatorRuns
  /\ initialized' = TRUE
  /\ scheduler' = Created(kind)
  /\ UNCHANGED <<processId, main, populationVars, consoleVars>>

MayStart_Initialized == initialized

MayStart == initialized /\ scheduler # "none"

schedulerStart(t) ==
  /\ main.at = "prompt"
  /\ MayStart
  /\ ~populate_running
  /\ At(t, "idle")
  /\ populate_running' = TRUE
  /\ Goto(t, "loop")
  /\ UNCHANGED <<shellVars, processCounter, processes, handed, consoleVars>>

schedulerStop ==
  /\ main.at = "prompt"
  /\ populate_running
  /\ populate_running' = FALSE
  /\ UNCHANGED <<shellVars, processCounter, processes, handed, populator, consoleVars>>

-------------------------------------------------------------------------------
(* Screens *)

\* screen -s: the name is free, and a process is made, which has no
\* instructions and never reaches the scheduler ...
MakeProcess(name) ==
  /\ main.at = "prompt"
  /\ Len(processes) < MaxProcesses
  /\ ~findScreenSessions(name)
  /\ processes' = Append(processes, NewProcess(name, processId, TRUE))
  /\ processId' = processId + 1
  /\ Becomes("adding", Len(processes) + 1, MainConsole)
  /\ UNCHANGED <<initialized, scheduler, populate_running, processCounter, handed,
                 populator, consoleVars>>

\* ... whose console and which itself addNewScreen enters.
EnterScreen ==
  /\ main.at = "adding"
  /\ EnterSession(NameOf(main.process), main.process)
  /\ main' = [main EXCEPT !.at = "recording"]
  /\ UNCHANGED <<initialized, scheduler, processId, populationVars>>

RecordProcess ==
  /\ main.at = "recording"
  /\ EnterProcess(NameOf(main.process), main.process)
  /\ main' = [main EXCEPT !.at = "switching"]
  /\ UNCHANGED <<initialized, scheduler, processId, populationVars>>

\* screen -r: the process is looked up by its name.
FindProcess(name) ==
  /\ main.at = "prompt"
  /\ HasScreenProcess(name)
  /\ Becomes("switching", screenProcesses[name], MainConsole)
  /\ UNCHANGED <<initialized, scheduler, processId, populationVars, consoleVars>>

\* switchConsole, and the end of addNewScreen: the console by the same name ...
FindConsole ==
  /\ main.at = "switching"
  /\ main' = [main EXCEPT !.at = "setting", !.console = screenSessions[NameOf(main.process)]]
  /\ UNCHANGED <<initialized, scheduler, processId, populationVars, consoleVars>>

SwitchTo_Not(console) == UNCHANGED consoleVars

\* ... becomes current.
SwitchTo(console) == SetCurrent(console)

SwitchScreen ==
  /\ main.at = "setting"
  /\ SwitchTo(main.console)
  /\ main' = [main EXCEPT !.at = "drawing", !.console = MainConsole]
  /\ UNCHANGED <<initialized, scheduler, processId, populationVars>>

\* exit in a session, and clear at the prompt: switchConsole("MAIN")
ReturnToMain ==
  /\ main.at \in {"prompt", "session"}
  /\ Becomes("setting", MainConsole, screenSessions[MAIN])
  /\ UNCHANGED <<initialized, scheduler, processId, populationVars, consoleVars>>

\* initializeScreen: draws currentConsole.
Draw ==
  /\ main.at = "drawing"
  /\ main' = IF main.process = MainConsole THEN Prompt
             ELSE [main EXCEPT !.at = "session", !.settled = {}]
  /\ UNCHANGED <<initialized, scheduler, processId, populationVars, consoleVars>>

\* exit at the prompt, which ends the program with all its threads. (That the
\* populate threads may still use what main destroys is left out.)
Exit ==
  /\ main.at = "prompt"
  /\ main' = [main EXCEPT !.at = "exited"]
  /\ UNCHANGED <<initialized, scheduler, processId, populationVars, consoleVars>>

-------------------------------------------------------------------------------
PopulatorRuns(t) ==
  /\ main.at # "exited"
  /\ PopulatorStep(t)
  /\ UNCHANGED shellVars

Next ==
  \/ \E kind \in Configured : initialize(kind)
  \/ \E t \in Populators : schedulerStart(t) \/ PopulatorRuns(t)
  \/ schedulerStop
  \/ \E name \in UserNames : MakeProcess(name) \/ FindProcess(name)
  \/ EnterScreen \/ RecordProcess \/ FindConsole \/ SwitchScreen
  \/ ReturnToMain \/ Draw \/ Exit

Spec == Init /\ [][Next]_vars

\* A user who gives scheduler-start only when the populate thread before has
\* ended, which takes it the rest of its round after scheduler-stop.
PatientNext ==
  /\ Next
  /\ ~populate_running /\ populate_running' => NoPopulatorRuns

\* The operating system schedules the populate threads; commands are up to the user.
PatientSpec ==
  Init /\ [][PatientNext]_vars /\ \A t \in Populators : WF_vars(PopulatorRuns(t))
-------------------------------------------------------------------------------
(* Properties *)

\* No process has more than max-ins instructions. Between two steps of addNewScreen
\* a name may have a session and no process, never a process and no session: what
\* screen -r has found by name it can draw.
TypeOK ==
  /\ populate_running \in BOOLEAN
  /\ initialized \in BOOLEAN
  /\ scheduler \in Schedulers \cup {"none"}
  /\ processCounter \in Nat
  /\ processId \in Nat
  /\ processes \in Seq([name : Names, id : Nat, instructions : 0..MaxIns, byUser : BOOLEAN])
  /\ DOMAIN screenProcesses \cup {MAIN} \subseteq DOMAIN screenSessions
  /\ \A name \in DOMAIN screenSessions : screenSessions[name] \in 0..Len(processes)
  /\ \A name \in DOMAIN screenProcesses : screenProcesses[name] \in 1..Len(processes)
  /\ currentConsole \in 0..Len(processes)
  /\ handed \in Seq(1..Len(processes))
  /\ main \in [at : {"prompt", "adding", "recording", "switching", "setting", "drawing",
                     "session", "exited"},
               process : 0..Len(processes), console : 0..Len(processes),
               settled : SUBSET (0..Len(processes))]
  /\ \A t \in Populators :
       populator[t] \in [pc : {"idle", "loop", "counting", "naming", "entering", "recording",
                               "showing", "setting", "filling", "filled", "handing", "done"},
                         name : Nat, id : Nat, process : 0..Len(processes),
                         console : 0..Len(processes), numInstructions : 0..MaxIns]

\* With one populate thread at a time the processes that reach the scheduler
\* have different ids, which RoundRobin and FCFS tell processes apart by, and
\* are each handed over once.
IdsIdentify ==
  /\ IsInjective(handed)
  /\ \A j, k \in ToSet(handed) : processes[j].id = processes[k].id => j = k

\* ... and each is the process that screen -r finds under its name, unless a
\* screen -s that had found the name free before put its own in that place.
ScreenShowsProcess ==
  \A k \in ToSet(handed) :
    LET shown == screenProcesses[processes[k].name]
    IN  shown = k \/ (shown < k /\ processes[shown].byUser)

\* `Screen already exists. Please type another name.' (main.cpp:379): a name
\* stands for at most one process that the user made and, with one populate
\* thread at a time, at most one that populateProcesses made.
NamesClashOnlyAcross ==
  \A j, k \in 1..Len(processes) :
    processes[j].name = processes[k].name /\ processes[j].byUser = processes[k].byUser
      => j = k

\* `min-ins = minimum amount of instructions a process can have' (README.md:28):
\* no process reaches the scheduler before it has them.
EnoughInstructions ==
  \A k \in ToSet(handed) : processes[k].instructions >= MinIns

\* A populate thread never calls a scheduler that there is not, whatever
\* config.txt names and however often the system is initialized.
SchedulerIsThere == \A t \in Populators : At(t, "handing") => scheduler # "none"

\* The console drawn bears the name that was asked for; if it does not, it was not
\* settled when the main thread was asked: a populate thread made it since, or was
\* about to show one of its name.
DrawsWhatWasAsked ==
  [][Draw => NameOf(currentConsole) = NameOf(main.process)
             \/ currentConsole \notin main.settled]_vars

\* Every populate thread ends after scheduler-stop, unless the program ends or
\* the next scheduler-start finds the thread still running and revives it.
PopulationStops ==
  ~populate_running ~> populate_running \/ NoPopulatorRuns \/ main.at = "exited"

\* `Counter for unique process names' (main.cpp:196): the processes made by
\* populateProcesses have different names.
UniqueNames ==
  \A j, k \in 1..Len(processes) :
    /\ processes[j].name = processes[k].name
    /\ ~processes[j].byUser /\ ~processes[k].byUser
    => j = k

\* `screen -r <name> -> accesses a process's screen' (README.md:55): when no thread
\* is at the screens, the console of every name is that of the process of the name.
ScreensAgree ==
  main.at = "prompt" /\ NoPopulatorRuns =>
    \A name \in DOMAIN screenProcesses : screenSessions[name] = screenProcesses[name]

===============================================================================

# CSOPESY in TLA+

CSOPESY is a command line that imitates an operating system: it populates
processes, schedules them on a number of simulated cores (round robin or first
come first served), gives them blocks of a simulated memory and shows them on
screens. This directory holds TLA+ models of its components, TLC configurations
that check them on small instances, and proofs of the main results that TLAPS
checks for every instance. Line numbers refer to the files of the repository.

As committed the sources do not compile as standard C++: `Process.cpp` defines
`Process::getMemoryNeeded` twice (lines 134 and 179, with the same body). The
models take the one meaning both have.

## 1. Inventory

| Component | State | Operations |
|---|---|---|
| Memory manager (`MemoryManager.cpp`, `isInMemory` in `Scheduler.cpp`) | `memoryBlocks`, a vector of adjacent blocks; `memoryMutex` | `allocateMemory` (first fit, split), `deallocateMemory` (free, merge), `isInMemory`; snapshot and fragmentation, unused |
| Process handler (`ProcessHandler.cpp`) | vectors `running`, `finished`; `processMutex` | `insertProcess`, `markProcessFinished`, searches by core, `getFinishedProcesses`; `deleteProcess`, `updateProcessState` and others, unused |
| Scheduler base (`Scheduler.cpp`) | `running`, `cv`, `queueMutex`, worker and scheduler threads, `coreAvailable`, `lastPrintedProcessLines` | `start`, `stop`, `listProcesses`, `generateReport` |
| Round robin (`RoundRobin.cpp`) | `readyQueue`, `nextCoreId`, its own `queueMutex` | `addProcess`, `schedulerLoop`, `workerLoop` |
| FCFS (`FCFS.cpp`) | `processQueue` | `addProcess`, `schedulerLoop`, `workerLoop` |
| Process (`Process.cpp`, `Instruction.cpp`, `SymbolTable.cpp`) | instruction list and index, symbol table, sleep counter, `isFinished`, `assignedCore`, log file | `executeNextInstruction`; PRINT, DECLARE, ADD, SUBTRACT, SLEEP |
| Population (`main.cpp:195-294`, `484-520`) | `populate_running`, `processCounter`, one detached thread per `scheduler-start` | `populateProcesses`, `scheduler-start`, `scheduler-stop` |
| Console and screens (`main.cpp:119-186`, `370-482`, `543-555`) | maps of sessions and processes, current console | `screen -s`, `screen -r`, `clear`, `exit` |
| Reports (`Scheduler.cpp:39-133`) | lines of the last list | `screen -ls`, `report-util` |
| Configuration (`main.cpp:307-368`) | `Config`, the scheduler pointer | `initialize`, `exit` |
| FOR, `CPUTick`, `MessageBuffer` | - | nothing uses them |

How they interact. The main thread reads commands. `initialize` constructs a
scheduler, whose constructor starts one thread per core and a scheduler thread,
and then calls `start`. `scheduler-start` starts a detached populate thread,
which makes processes, shows them through the console manager and calls
`addProcess`. Under round robin the workers take turns to pick from the queue
and call the memory manager and the process handler; under FCFS the scheduler
thread assigns processes to free cores and each worker finds its own through
the handler. A worker calls `executeNextInstruction` of the process it holds.
Screens and reports read all of this from the main thread; under FCFS a list
excludes the scheduler's critical sections, under round robin it does not.

What is hard here: all threads of a scheduler wait on one condition variable;
`stop` notifies without the mutex; threads start before the flag they test is
set; a process passes between a queue, a worker, the handler's lists and the
block list, each with its own lock; ids identify processes in lists and memory,
and come from two plain counters; populate threads can overlap; reports and
screens read without the workers' lock; the maps of screens have no lock at
all, and `addNewScreen` changes them one after the other on two threads.
`PROJECT.json` lists these hazards at their lines with the properties that address them.

What makes each component correct:

- memory manager: the blocks tile memory, free neighbours are merged, a process
  has one block and keeps it until it is released, and a request is refused
  only when it cannot be met;
- schedulers: a process added is in one place and on one core at a time, is not
  lost, gets its turn and its memory; cores are neither shared nor lost; the
  lists say what the workers do; `stop` returns;
- process: results are exact modulo 2^16, and it ends after a number of calls
  that its program fixes;
- population: processes have ids and screens of their own, are complete when
  they are handed over, and the threads end when they are stopped;
- console: what can be found by its name can be drawn, a name opens the process
  it was given to, and the screen drawn bears the name asked for unless a
  populate thread puts up another meanwhile;
- reports: a list shows every process that has a core, once, with that core.

## 2. Modules

| Module | Models | Extends / instantiates |
|---|---|---|
| `MemoryBlocks` | the block list as operators: `AfterAllocate`, `AfterDeallocate`, `WellFormed` | |
| `AddressSpace` | abstract: who owns each address | |
| `MemoryManager` | the component, one action per method | `MemoryBlocks`; refines `AddressSpace` |
| `Scheduling` | abstract: which process is on which core | |
| `ProcessHandler` | the handler's lists and searches as operators | |
| `Scheduler` | threads, mutex, condition variable, `start`, `stop` | `ProcessHandler` |
| `RoundRobin` | `RRScheduler` | `Scheduler`, `MemoryBlocks`; refines `Scheduling` |
| `FCFS` | `FCFSScheduler` | `Scheduler`; refines `Scheduling` |
| `Reports` | `listProcesses` in steps, `generateReport` | `Scheduler` |
| `FCFSReports` | FCFS with the main thread that lists | `FCFS`, `Reports` |
| `SymbolTable` | its operations as operators | |
| `Task` | abstract: a process as a countdown | |
| `Process` | process, instructions, log | `SymbolTable`; refines `Task` |
| `ConsoleManager` | the maps of screens and the current console, one operator per access | |
| `Population` | `populateProcesses`, access by access | `ConsoleManager` |
| `Shell` | the commands of the main thread beside the populate threads | `Population` |
| `MC*` | values of the constants for TLC | the module they are named after, `MCFCFS` `FCFSReports` and `MCPopulation` `Shell` |
| `ListLemmas`, `MemoryBlocksProofs`, `MemoryManagerProofs`, `RoundRobinProofs`, `RoundRobinSchedulingProofs`, `FCFSProofs`, `ProcessProofs`, `ShellProofs` | lemmas and theorems | the module they are named after; `FCFSProofs` `FCFSReports` |

The correspondence of every definition with its lines is in the `map` of
`PROJECT.json`. The conventions:

- *Critical sections are actions.* What a thread does under `queueMutex` is one
  action, with the calls to the handler and the memory manager in it. The
  exception is `cv.wait`: a thread that has found its predicate false is
  `"blocking"`, holding the mutex, before it is `"waiting"`. The atomic flag
  `running` can change in between, and `notify_all` in `stop` does not take the
  mutex, so this is where a wakeup can be lost. Hence `QueueMutexFree` in the
  guards of all actions that lock it.
- *Threads are numbered*: a worker by its core, the scheduler thread after the
  last. `pc[t]` is `"top"` at the head of the loop; a thread woken by `cv`
  tests its predicate again, so it is back at `"top"`. A worker with a process
  is at `"exec"`, one about to notify (`RoundRobin.cpp:115`) at `"notify"`.
- *Sleeps of a thread* are the absence of its step.
- *A process in a scheduler* is a countdown `ticksLeft`. That is what `Process`
  is shown to be (`ImplementsTask`), sleep cycles included.
- `coreTurnMutex` is only ever locked under `queueMutex` and adds nothing.
- *A list is made in steps*: one per entry of the running list read
  (`isFinished` may change in between), then the finished list, the count of
  cores, one per line, the end. `generateReport` is the operator `Report`: the
  lines kept. `FCFSReports` says what may happen during a list: what needs no
  `queueMutex`.
- *The screens are accessed in steps.* The maps and the current console have no
  lock, so `ConsoleManager` has one operator per access, and `addNewScreen`
  (`main.cpp:134-140`) is four steps of whichever thread calls it: enter the
  session (135), enter the process (137), look the session up again and make it
  current (139). A populate thread goes through `"entering"`, `"recording"`,
  `"showing"` and `"setting"`; the main thread through `"adding"`,
  `"recording"`, `"switching"` and `"setting"` in `screen -s`, after the test of
  the name and the making of the process, and through the last two in
  `screen -r`, after the process was found. `"drawing"` is before
  `initializeScreen`. Every step of one thread may fall between any two of the
  other. A console is the number of the process it was made with. A process of a
  populate thread gets its id when it is made and its number, its place in
  `processes`, with its session, before which no other thread sees it.
- *What the main thread was asked for* is `main.process`, by number;
  `main.settled` remembers the consoles whose names no populate thread was about
  to show when it was asked.
- *Specifications of the commands*: `Spec` lets the user do anything but
  initialize while a populate thread runs; `PatientSpec` adds that the
  population is started again only when the thread before has ended.
- *Ids*: the handler and the memory manager search by id, so the modules keep
  `IdOf`, and do not assume that it tells processes apart.

## 3. Runs

Passing runs:

| Run | Instance | Shows |
|---|---|---|
| `memory` | 4 processes (symmetric) asking for 1, 2 or 4 units of 6 | `BlocksWellFormed`, `OthersKeepTheirBlock`, `ImplementsAddressSpace` |
| `round_robin` | 2 cores, quantum 2, memory 4; 3 processes with needs 2, 1, 3 and lengths 3, 2, 1 | `OneOwner`, `RunsInMemory`, `ListsMatchMemory`, `MemoryComesBack`, `CoresMatchWorkers`, `ResidentsKeepOrder`, `ImplementsScheduling`; liveness `AddedIsRetired`, `StopReturnsIfAllAwake` |
| `fcfs` | 2 cores; 3 processes of lengths 2, 1, 1; lists at any time | `OneProcessPerCore`, `NoCoreIsLost`, `NoneLost`, `UsedCoresAreTaken`, `ListIsComplete`, `FirstComeFirstServed`, `ImplementsScheduling`; liveness `AddedFinishes`, `StopReturnsIfAllAwake` |
| `process` | all programs of up to 3 instructions over two variables, literal 65535, SLEEP 0 and 258 | `TableIsExact`, `LogIsExact`, `EveryCallCounts`, `ImplementsTask` |
| `population` | 2 populate threads one after the other; 3 names for `screen -s` and `-r` (a new one, one that the population makes too, the main menu's), `config.txt` with `rr` or a name of no scheduler; 1 or 2 instructions, 3 processes | `IdsIdentify`, `ScreenShowsProcess`, `NamesClashOnlyAcross`, `EnoughInstructions`, `SchedulerIsThere`, `DrawsWhatWasAsked`; liveness `PopulationStops` |

Each also checks its module's `TypeOK`, except `memory`, where
`BlocksWellFormed` contains it.

Why these bounds. Six units and four processes give a block with used or free
neighbours on either side in every combination, a request that fits exactly and
one that fits nowhere although enough memory is free. With needs 2, 1 and 3 in
4 units the third process of round robin must wait for both others to leave and
for their blocks to merge; one process needs two turns, so it is preempted and
may continue on the other core. Three processes on two cores make one FCFS core
be used twice, with a finished process left in the handler's list in front of
the next. Three instructions let a result that wrapped be an operand again, and
258 is a SLEEP argument that `uint8_t` cuts. Two populate threads show what
remains of the first when the second starts, and three processes are
enough for two of the population and one of the user, made before, between or
after them, that has the name of one of them or a name of its own. Between 1
and 2 instructions a process can be short by one, or have one too many.

What the less obvious ones say. `ImplementsScheduling` is the abstract scheduler
of `Scheduling`: a process is submitted once, is on at most one core that it
shares with nobody, and finishes for good; round robin may take it off its core,
FCFS may not. `ListIsComplete` and `UsedCoresAreTaken` hold because a list of
FCFS holds the mutex its threads lock: the mutant in which the threads go on, as
those of round robin do (`RoundRobin.h:21`), violates the second. `LogIsExact`
compares the log with the results computed without a symbol table. `NamesClashOnlyAcross` is what
is left of `Screen already exists` (`main.cpp:379`): a name may stand for one
process of the user and one of the population, never for two of a kind, and
`ScreenShowsProcess` says which of the two `screen -r` then finds.

Of the screens, `TypeOK` says that a name which has a process has a console,
at every step of `addNewScreen`: so `screen -r` has something to draw, although
a name may for a moment have a console and no process. `DrawsWhatWasAsked` says
that what is drawn bears the name that was asked for, or is a console that no
populate thread had finished showing when it was asked. It says no more because
no more is true: where the names clash, `ScreensAgree` fails.

Deadlock is checked in `memory`. The other systems stop: schedulers after
`stop` (or after a lost wakeup), a finished process, the shell after `exit`.

Violation runs: in each the code does not do what a comment or the
user's guide says, and TLC finds the behaviour. The findings in `PROJECT.json`
quote the lines.

| Run | Property | What happens |
|---|---|---|
| `rr_stop` | `StopReturns` | `stop` notifies between a thread's test and its sleep, then joins it for ever |
| `rr_turn` | `TurnMovesOn` | `notify_one` wakes a worker whose turn it is not; the turn stays |
| `rr_cores` | `AllCoresServe` | a worker ends before `start` sets `running` |
| `rr_listed` | `ListedIsRunning` | a process waiting in the queue is listed as running |
| `population_names` | `UniqueNames` | overlapping populate threads read the same counter value |
| `population_screens` | `ScreensAgree` | two calls of `addNewScreen` with one name overlap, and leave the console of one process beside the other process |
| `population_short` | `EnoughInstructions` | a filling cut short by `scheduler-stop` passes the second test of the flag after a `scheduler-start` |

In the run `population_screens` the user is patient and there is one populate
thread: `screen -s process_1` finds the name free and makes its process, the
populate thread comes to make the process of that name, both enter their
consoles (`main.cpp:135`), and then their processes (`main.cpp:137`) in the
other order. From then on `screen -r process_1` finds one and draws the other.
In `population_short` and `population_names` the user is not patient.

The liveness properties that hold name these stalls as exceptions: `LeftEarly`
(a thread ended before `start`), `Stalled` (a process is queued, the thread that
should act sleeps, and nobody is about to notify) and, for `stop`, the premise
that all threads were awake at its notification. So they say that the lost
notifications are the *only* way to starve.

Others of this kind were met and have no run of their own. Most need no
interleaving to be seen. FCFS never calls `markProcessFinished` (`FCFS.cpp:80`),
so its list of finished processes stays empty, against `README.md:57`. Two
counters (`main.cpp:205`, `390`) give a process of `screen -s` and a populated
one the same id and so the same log file (`Process.cpp:17`), which the second
truncates, against `README.md:56`. `report-util` writes the lines of the last
`screen -ls` and makes no list itself (`Scheduler.cpp:126` against
`README.md:58`). The sample configuration of `README.md:38` quotes the scheduler,
a name for which `initialize` makes none (`main.cpp:346-363`); the command of
`README.md:52` is `scheduler-stop` in the program (`main.cpp:508`). FCFS
`addProcess` has the `notify_one` problem too (`FCFS.cpp:22`; it is the
`Stalled` of `AddedFinishes`). After `scheduler-stop` a process may still be
handed over, since the flag is tested before (`main.cpp:279-281`).
`EnoughInstructions`, which `population_short` refutes, is checked in
`population` under `PatientSpec`, in which the user starts the population again
only when the thread before has ended.

### Fairness

Each thread is scheduled by the operating system: weak fairness for its steps
outside `queueMutex`, strong fairness for those that lock it, since others lock
and release it in between but always briefly (no section waits while holding
it). Nothing is assumed of `addProcess`, of the call of `stop`, or of spurious
wakeups. Once called, `stop` proceeds; `start` follows the constructor. A
process is executed again while it has not finished (`Process!FairSpec`), which
is what the schedulers' liveness properties give it. A list once begun is
brought to its end, which needs no other thread. Populate threads are scheduled
fairly; commands are up to the user.

## 4. Proofs

TLAPS checks, for all values of the constants under the named assumptions of
the modules, every safety property of the passing runs: the invariants, the
action properties, and the refinements without their fairness. The theorems are
listed in `PROJECT.json`, each with the property it states.

| Module | Theorems | Inductive invariant |
|---|---|---|
| `MemoryBlocksProofs` | `AllocateWellFormed`, `DeallocateWellFormed` | (facts about the two operators) |
| `MemoryManagerProofs` | `AlwaysWellFormed`, `OthersKeep`, `MemoryImplementsAddressSpace` | `SpaceInv` |
| `RoundRobinProofs` | `RoundRobinOneOwner`, `...CoresMatch`, `...RunsInMemory`, `...ListsMatchMemory`, `...MemoryComesBack`, `...TypeCorrect`, `...ResidentsKeepOrder` | `OwnerInv`, in `ResidenceInv`, in `AdmissionInv`, in `TypeInv` |
| `RoundRobinSchedulingProofs` | `RoundRobinImplementsScheduling` | `OwnerInv` |
| `FCFSProofs` | `FCFSTypeCorrect`, `CoreHasOneProcess`, `CoresAreKept`, `ProcessesAreKept`, `ServedInOrder`, `FCFSImplementsScheduling`; beside lists `CountedCoresStayTaken`, `ListsAreComplete` | `FCFSInv`, with `ReportInv` |
| `ProcessProofs` | `ProcessTypeCorrect`, `TablesAreExact`, `CallsAreCounted`, `ProcessIsACountdown`, `LogsAreExact` | `ProcessInv`, with `LogInv` |
| `ShellProofs` | `PopulationIdsIdentify`, `PopulationEnoughInstructions`, `PopulationSchedulerIsThere`, `HandedAreShown`, `NamesAreOwn`, for `PatientSpec`; `ShellTypeCorrect`, `DrawnIsCurrent`, for `Spec` | `ScreenInv`; with `PopulationInv` and `NameInv` in `ShellInv` |
| `ListLemmas` | sequences, `Min` and `Max`, induction by sets, `FoldLeft` | |

**Assumptions.** The theorems on the two schedulers assume `IdsDiffer`:
different processes have different ids. No scheduler ensures it (marking,
freeing and recording go by id); the population does, as
`PopulationIdsIdentify` proves with one populate thread at a time, and
`screen -s` processes never reach a scheduler. `PatientSpec` is that user, and
`population_names` shows what becomes of the names without him.

**Memory.** The split and the merges are treated as insertions and removals in
a sequence: what the new list holds at each index, then tiling, merging and
uniqueness from that. For `MemoryImplementsAddressSpace` an address lies in at
most one block (`AddressInOneBlock`), so the map from addresses to owners that
the refinement uses is well defined; an allocation or deallocation adds or
drops one used block, and so changes the owners of its addresses only. That a
refusal is right needs the merging: a run of free addresses lies within one
block (`FreeRunIsInOneBlock`), since two free blocks are never adjacent, and
first fit would have found that block. `SpaceInv` adds to `BlocksWellFormed`
that no used block is empty; a process with an empty block would be refused
although it owns no address.

**Round robin.** `OneOwner` is not inductive. `OwnerInv` adds the types, that a
worker holds a process exactly when it is at `"exec"` (else a step of a worker
could overwrite one), that only added processes are finished (so that one that
is added is not at once in two places), `CoresMatchWorkers`, and that the block
list is well formed. Taking the k-th process from the queue needs the lemmas
`Rotated...`: the rest of the queue is there, once each, in the order stated;
`ResidentsKeepOrder` follows from the same order. `ResidenceInv` adds that each
used block has the size its process asks for and that held processes are
resident: `Pick` makes one so, and `Retire` drops only the block of the process
it retires. `AdmissionInv` adds that a resident process is queued or held, and
that the running list repeats nothing and is exactly the residents, the
finished list exactly the retired; `insertProcess` and `markProcessFinished`
each keep the two lists in step with the allocation and deallocation beside
them. An empty running list then means no used block, and of well-formed lists
only one is without: `MemoryComesBack`. `TypeInv` adds the ranges of the counters, of
which one is more than a type: the calls left are zero exactly when the process
has finished, so that `executeNextInstruction` is never called again.

For the refinement, `OneOwner` makes the place of a process (`PlaceOf`) well
defined: each step of a worker then moves at most the process it names, and
`addProcess`, `Pick` and `EndTurn` are shown to be `Submit`, a `Serve` of one
process, and `Preempt` or `Complete`. Every other step leaves all places as
they are.

**FCFS.** One iteration of the scheduler thread dispatches several processes to
several cores. `Dispatch` serves the first processes of the queue, as many as
there are free cores; the lemmas on it say that the processes served and their
cores correspond one to one, and that folding `insertProcess` over them appends
them all, as their ids are new. `FCFSInv` joins `NoneLost` and `NoCoreIsLost`
with `CoresAreOwned` (`OneProcessPerCore`, process by process) and
`DispatchedFirst`: only what has been dispatched has a core, is with a worker
or has finished. `FirstComeFirstServed` and the refinement are read off the
step from there. `ReportInv` speaks of a list half made: the processes found so
far own their cores, no unfinished process was passed over, and a core counts
as used if its line is printed or still to be. It is inductive because nothing
is dispatched and no core freed while the list has the mutex, although a
process may finish.

**Process.** `TableIsExact` computes along the program from its beginning.
`ExactStep` shows that the recursive function in it satisfies its equation for
every program of bounded length, and `TableStep` that an instruction takes an
exact table to an exact table, operand by operand, whether the name was
declared, is a literal, or is declared by its use. `EveryCallCounts` needs the
sum of calls left to lose its first summand when an instruction is done, and
that a sleep whose argument `uint8_t` cuts to 0 still takes a call
(`SleepsWithAReason`: a sleeping process has not gone below zero unnoticed).
`LogInv` says that the log followed by the lines still `Pending`, those of the
rest of a sleep, is what the instructions executed so far write; `LogIsExact`
takes the pending ones off again. `ProcessIsACountdown` is the safety part of
`ImplementsTask`: the initial states and the steps.

**Population and screens.** `ScreenInv` is kept by every step of every user,
overlapping populate threads included, so `ShellTypeCorrect` and `DrawnIsCurrent`
are theorems of `Spec`. It says that every console, process, and thread inside
`addNewScreen` bears the name it is entered under (`ScreensNamed`,
`ThreadsNamed`, `MainNamed`), so that a call overtaken by another of the same
name may put up the other's console but never one of another name; and that
whatever a populate thread is still to show has the name the main thread was
asked for or was not settled then (`FairIsShown`). That a session is entered
before the process is what makes every process found one that can be drawn.

The rest needs the patient user. `PopulationInv` says that at most one thread
runs, that the counter is ahead of every id given by a populate thread, that the
process a thread holds was made by it and is not yet handed over, that it is
filled when it is about to be, and that no thread has been started before there
is a scheduler. The counter is the part that fails with two threads, which is
what `population_names` comes from. `NameInv` adds that the name of a populated
process is one less than its id, so that the names are as different as the ids,
and then follows the names through the steps of both threads: a populated
process is found under its name once its thread is past the second access
(`PopulatedAreFound`), a name that `screen -s` has used is taken once the main
thread is past the first (`UserNamesAreTaken`), and while the main thread is
before the second, a populated process of the same name was made after its own
(`MainCameFirst`), as the name was free. So a process of `screen -s` that takes
the place of a populated one is the earlier of the two, which is
`ScreenShowsProcess`.

**Induction.** The induction theorems of the library take a predicate as a
parameter, which the provers here do not instantiate. `ListLemmas` states
induction over numbers and over sequences with a set in its place
(`NatSetInduction`, `SeqSetInduction`), from which what a fold or a recursive
function computes is proved for every input; `FoldLeftStep` does it for
`FoldLeft`. In the modules with proofs recursion is therefore written with
folds and recursive functions.

**Only model-checked**: the liveness properties `AddedIsRetired`,
`AddedFinishes`, `StopReturnsIfAllAwake` and `PopulationStops`, and the fairness
in `ImplementsTask`. These provers handle neither liveness under fairness nor
`ENABLED`. The properties of the violation runs are refuted by TLC and have
nothing to prove.

## 5. Not modelled

- A populate thread that outlives `main` after `exit` (`main.cpp:548`), and
  `initialize` while a populate thread runs or which replaces a scheduler that
  holds processes (`main.cpp:346-363`): the threads then use objects that are
  being destroyed, and nothing in the source says what they find. `Shell` ends
  all threads with the program and says in `initialize` what it assumes.
- Lists beside the steps of round robin, which they do not exclude. The run
  `rr_listed` shows that not even a list made in one moment is true there.
- Torn reads and writes of plain fields (`isFinished`, `assignedCore`,
  `currentInstruction`) and of the maps of screens: every single access is atomic.
- The text of logs, lists and screens besides whose line it is and the value it
  shows; times; the size typed after `screen -s`, which is only displayed; the
  reading of numbers from `config.txt`, which are CONSTANTS.
- `std::stoi` beyond the range of `int` and names that are not numbers given to
  SLEEP: no command enters them, since `screen -c` is an empty branch.
- Progress for a process larger than memory (`RoundRobin.cpp:69`) and with
  quantum 0 (`RoundRobin.cpp:94`): nothing is promised there. Safety is proved
  for both.
- Unused code: FOR, `CPUTick`, `MessageBuffer`, memory snapshots, pages,
  `returnToPreviousConsole`, the handler's searches that no caller uses.

## 6. Plan

1. Done: memory manager, schedulers and the abstract scheduler they implement,
   process, reports with FCFS, population, screens and commands; proofs of
   every safety property that the passing runs check.
2. Left: a proof that weakens `IdsDiffer` to what the schedulers need of the
   processes they hold at the same time, and lists in steps beside the threads
   of round robin.

------------------------------ MODULE ShellProofs -----------------------------
(***************************************************************************)
(* What a scheduler may rely on of the processes it is given, and the user *)
(* of their names and screens, for every set of populate threads and of    *)
(* names, every bound on instructions and every number of processes: the   *)
(* types and what is drawn for every user, the rest if the user is patient *)
(* (PatientNext).                                                          *)
(***************************************************************************)
EXTENDS Shell, SequenceTheorems, TLAPS

PopulatorStates ==
  {"idle", "loop", "counting", "naming", "entering", "recording", "showing", "setting",
   "filling", "filled", "handing", "done"}

MainStates ==
  {"prompt", "adding", "recording", "switching", "setting", "drawing", "session", "exited"}

\* A thread has a shown process that it has not handed over yet.
Filling(t) == populator[t].pc \in {"filling", "filled", "handing"}

Holding(t) == Showing(t) \/ Filling(t)

MadeProcesses == [name : Names, id : Nat, instructions : Nat, byUser : BOOLEAN]

Threads == [pc : PopulatorStates, name : Nat, id : Nat, process : Nat, console : Nat,
            numInstructions : Nat]

Mains == [at : MainStates, process : Nat, console : Nat, settled : SUBSET Nat]

ShellTyped ==
  /\ populate_running \in BOOLEAN
  /\ initialized \in BOOLEAN
  /\ scheduler \in Schedulers \cup {"none"}
  /\ processCounter \in Nat
  /\ processId \in Nat
  /\ processes \in Seq(MadeProcesses)
  /\ handed \in Seq(Nat)
  /\ populator \in [Populators -> Threads]
  /\ main \in Mains

-------------------------------------------------------------------------------
(* What the types say of processes and threads, and what a step of a thread    *)
(* does to its own state                                                       *)

\* Of processes.
LEMMA ProcessFields ==
  ASSUME ShellTyped
  PROVE  /\ Len(processes) \in Nat
         /\ Len(handed) \in Nat
         /\ \A k \in 1..Len(processes) :
              /\ processes[k] \in MadeProcesses
              /\ processes[k].id \in Nat
              /\ processes[k].instructions \in Nat
              /\ processes[k].byUser \in BOOLEAN
<1>1. \A k \in 1..Len(processes) : processes[k] \in MadeProcesses
  BY ElementOfSeq DEF ShellTyped
<1>2. Len(processes) \in Nat /\ Len(handed) \in Nat
  BY LenProperties DEF ShellTyped
<1> QED
  BY <1>1, <1>2 DEF MadeProcesses

\* Of the state of a thread.
LEMMA ThreadFields ==
  ASSUME ShellTyped, NEW t \in Populators
  PROVE  /\ populator[t] \in Threads
         /\ populator[t].pc \in PopulatorStates
         /\ populator[t].name \in Nat
         /\ populator[t].id \in Nat
         /\ populator[t].process \in Nat
         /\ populator[t].console \in Nat
         /\ populator[t].numInstructions \in Nat
<1>1. populator[t] \in Threads
  BY DEF ShellTyped
<1> QED
  BY <1>1 DEF Threads

\* Of the state of the main thread.
LEMMA MainFields ==
  ASSUME ShellTyped
  PROVE  /\ main.at \in MainStates
         /\ main.process \in Nat
         /\ main.console \in Nat
         /\ main.settled \in SUBSET Nat
BY DEF ShellTyped, Mains

\* A thread gets a new state, the others keep theirs.
LEMMA ThreadReplaced ==
  ASSUME ShellTyped, NEW t \in Populators, NEW thread \in Threads,
         populator' = [populator EXCEPT ![t] = thread]
  PROVE  /\ populator' \in [Populators -> Threads]
         /\ populator'[t] = thread
         /\ \A u \in Populators \ {t} : populator'[u] = populator[u]
BY DEF ShellTyped

\* Goto changes where thread t is and nothing else.
LEMMA GotoChanges ==
  ASSUME ShellTyped, NEW t \in Populators, NEW state \in PopulatorStates, Goto(t, state)
  PROVE  /\ populator' \in [Populators -> Threads]
         /\ populator'[t].pc = state
         /\ populator'[t].name = populator[t].name
         /\ populator'[t].id = populator[t].id
         /\ populator'[t].process = populator[t].process
         /\ populator'[t].console = populator[t].console
         /\ populator'[t].numInstructions = populator[t].numInstructions
         /\ \A u \in Populators \ {t} : populator'[u] = populator[u]
<1>1. PICK thread : thread = [populator[t] EXCEPT !.pc = state]
  OBVIOUS
<1>2. populator' = [populator EXCEPT ![t] = thread]
  BY <1>1 DEF Goto
<1>3. /\ thread \in Threads
      /\ thread.pc = state
      /\ thread.name = populator[t].name
      /\ thread.id = populator[t].id
      /\ thread.process = populator[t].process
      /\ thread.console = populator[t].console
      /\ thread.numInstructions = populator[t].numInstructions
  BY <1>1, ThreadFields DEF Threads
<1> QED
  BY <1>2, <1>3, ThreadReplaced

\* At the loop test the thread ends, or takes the value of the counter as its name.
LEMMA RoundBegun ==
  ASSUME ShellTyped, NEW t \in Populators, BeginRound(t)
  PROVE  /\ populator' \in [Populators -> Threads]
         /\ \/ populator'[t].pc = "counting" /\ populator'[t].name = processCounter
            \/ populator'[t].pc = "done"
         /\ populator'[t].process = populator[t].process
         /\ populator'[t].console = populator[t].console
         /\ populator'[t].numInstructions = populator[t].numInstructions
         /\ \A u \in Populators \ {t} : populator'[u] = populator[u]
<1>1. CASE LoopTest(t)
  <2>1. PICK thread : thread = [populator[t] EXCEPT !.pc = "counting", !.name = processCounter]
    OBVIOUS
  <2>2. populator' = [populator EXCEPT ![t] = thread]
    BY <1>1, <2>1 DEF BeginRound
  <2>3. /\ thread \in Threads
        /\ thread.pc = "counting" /\ thread.name = processCounter
        /\ thread.process = populator[t].process
        /\ thread.console = populator[t].console
        /\ thread.numInstructions = populator[t].numInstructions
    BY <2>1, ThreadFields DEF Threads, PopulatorStates, ShellTyped
  <2> QED
    BY <2>2, <2>3, ThreadReplaced
<1>2. CASE ~LoopTest(t)
  BY <1>2, GotoChanges DEF BeginRound, PopulatorStates
<1> QED
  BY <1>1, <1>2

\* The counter becomes the id of the process that is made.
LEMMA IdTaken ==
  ASSUME ShellTyped, NEW t \in Populators, CreateProcess(t)
  PROVE  /\ populator' \in [Populators -> Threads]
         /\ populator'[t].pc = "entering"
         /\ populator'[t].name = populator[t].name
         /\ populator'[t].id = processCounter
         /\ populator'[t].process = populator[t].process
         /\ populator'[t].console = populator[t].console
         /\ populator'[t].numInstructions = populator[t].numInstructions
         /\ \A u \in Populators \ {t} : populator'[u] = populator[u]
<1>1. PICK thread : thread = [populator[t] EXCEPT !.pc = "entering", !.id = processCounter]
  OBVIOUS
<1>2. populator' = [populator EXCEPT ![t] = thread]
  BY <1>1 DEF CreateProcess
<1>3. /\ thread \in Threads
      /\ thread.pc = "entering" /\ thread.id = processCounter
      /\ thread.name = populator[t].name
      /\ thread.process = populator[t].process
      /\ thread.console = populator[t].console
      /\ thread.numInstructions = populator[t].numInstructions
  BY <1>1, ThreadFields DEF Threads, PopulatorStates, ShellTyped
<1> QED
  BY <1>2, <1>3, ThreadReplaced

\* A process is listed: the others keep their numbers.
LEMMA ProcessAppended ==
  ASSUME ShellTyped, NEW made \in MadeProcesses, processes' = Append(processes, made),
         NEW p, p = Len(processes) + 1
  PROVE  /\ Len(processes) \in Nat /\ p \in Nat /\ p \in 1..p
         /\ processes' \in Seq(MadeProcesses)
         /\ Len(processes') = p
         /\ \A k \in 1..Len(processes) : processes'[k] = processes[k]
         /\ processes'[p] = made
         /\ \A k \in 1..p : k \in 1..Len(processes) \/ k = p
         /\ \A k \in 1..Len(processes) : k \in 1..p /\ k < p /\ k # p
<1>1. processes \in Seq(MadeProcesses) /\ Len(processes) \in Nat
  BY ProcessFields DEF ShellTyped
<1>2. /\ processes' \in Seq(MadeProcesses)
      /\ Len(processes') = Len(processes) + 1
      /\ \A k \in 1..Len(processes) : processes'[k] = processes[k]
      /\ processes'[Len(processes) + 1] = made
  BY <1>1, AppendProperties
<1> QED
  BY <1>1, <1>2

\* What AddSession lists is the process of the thread, made by populateProcesses.
LEMMA SessionAdded ==
  ASSUME ShellTyped, NEW t \in Populators, AddSession(t), NEW p, p = Len(processes) + 1
  PROVE  /\ Len(processes) \in Nat /\ p \in Nat /\ p \in 1..p
         /\ processes' \in Seq(MadeProcesses)
         /\ Len(processes') = p
         /\ \A k \in 1..Len(processes) : processes'[k] = processes[k]
         /\ \A k \in 1..p : k \in 1..Len(processes) \/ k = p
         /\ \A k \in 1..Len(processes) : k \in 1..p /\ k < p /\ k # p
         /\ processes'[p].name = populator[t].name
         /\ processes'[p].id = populator[t].id
         /\ processes'[p].instructions = 0
         /\ ~processes'[p].byUser
         /\ populator' \in [Populators -> Threads]
         /\ populator'[t].pc = "recording"
         /\ populator'[t].name = populator[t].name
         /\ populator'[t].process = p
         /\ populator'[t].console = populator[t].console
         /\ populator'[t].numInstructions = populator[t].numInstructions
         /\ \A u \in Populators \ {t} : populator'[u] = populator[u]
<1>1. PICK made : made = NewProcess(populator[t].name, populator[t].id, FALSE)
  OBVIOUS
<1>2. /\ made \in MadeProcesses
      /\ made.name = populator[t].name /\ made.id = populator[t].id
      /\ made.instructions = 0 /\ ~made.byUser
  BY <1>1, ThreadFields DEF NewProcess, MadeProcesses, Names
<1>3. processes' = Append(processes, made)
  BY <1>1 DEF AddSession
<1>4. /\ Len(processes) \in Nat /\ p \in Nat /\ p \in 1..p
      /\ processes' \in Seq(MadeProcesses)
      /\ Len(processes') = p
      /\ \A k \in 1..Len(processes) : processes'[k] = processes[k]
      /\ processes'[p] = made
      /\ \A k \in 1..p : k \in 1..Len(processes) \/ k = p
      /\ \A k \in 1..Len(processes) : k \in 1..p /\ k < p /\ k # p
  BY <1>2, <1>3, ProcessAppended
<1>5. PICK thread : thread = [populator[t] EXCEPT !.pc = "recording", !.process = p]
  OBVIOUS
<1>6. populator' = [populator EXCEPT ![t] = thread]
  BY <1>5 DEF AddSession
<1>7. /\ thread \in Threads
      /\ thread.pc = "recording" /\ thread.process = p
      /\ thread.name = populator[t].name
      /\ thread.console = populator[t].console
      /\ thread.numInstructions = populator[t].numInstructions
  BY <1>4, <1>5, ThreadFields DEF Threads, PopulatorStates
<1>8. /\ populator' \in [Populators -> Threads]
      /\ populator'[t] = thread
      /\ \A u \in Populators \ {t} : populator'[u] = populator[u]
  BY <1>6, <1>7, ThreadReplaced
<1> QED
  BY <1>2, <1>4, <1>7, <1>8

\* The thread takes the console that it looks up.
LEMMA SessionRead ==
  ASSUME ShellTyped, NEW t \in Populators, ReadSession(t),
         screenSessions[populator[t].name] \in Nat
  PROVE  /\ populator' \in [Populators -> Threads]
         /\ populator'[t].pc = "setting"
         /\ populator'[t].name = populator[t].name
         /\ populator'[t].process = populator[t].process
         /\ populator'[t].console = screenSessions[populator[t].name]
         /\ populator'[t].numInstructions = populator[t].numInstructions
         /\ \A u \in Populators \ {t} : populator'[u] = populator[u]
<1>1. PICK console \in Nat : console = screenSessions[populator[t].name]
  OBVIOUS
<1>2. PICK thread : thread = [populator[t] EXCEPT !.pc = "setting", !.console = console]
  OBVIOUS
<1>3. populator' = [populator EXCEPT ![t] = thread]
  BY <1>1, <1>2 DEF ReadSession
<1>4. /\ thread \in Threads
      /\ thread.pc = "setting" /\ thread.console = console
      /\ thread.name = populator[t].name
      /\ thread.process = populator[t].process
      /\ thread.numInstructions = populator[t].numInstructions
  BY <1>2, ThreadFields DEF Threads, PopulatorStates
<1> QED
  BY <1>1, <1>3, <1>4, ThreadReplaced

\* The number of instructions is drawn between the two bounds.
LEMMA ScreenShown ==
  ASSUME ShellTyped, NEW t \in Populators, ShowScreen(t)
  PROVE  /\ populator' \in [Populators -> Threads]
         /\ populator'[t].pc = "filling"
         /\ populator'[t].process = populator[t].process
         /\ populator'[t].console = 0
         /\ populator'[t].numInstructions >= MinIns
         /\ populator'[t].numInstructions <= MaxIns
         /\ \A u \in Populators \ {t} : populator'[u] = populator[u]
<1>1. PICK n \in MinIns..MaxIns :
        populator' = [populator EXCEPT ![t].pc = "filling", ![t].console = MainConsole,
                                       ![t].numInstructions = n]
  BY DEF ShowScreen
<1>2. n \in Nat /\ n >= MinIns /\ n <= MaxIns
  BY PopulationAssumption
<1>3. PICK thread : thread = [populator[t] EXCEPT !.pc = "filling", !.console = 0,
                                                  !.numInstructions = n]
  OBVIOUS
<1>4. populator' = [populator EXCEPT ![t] = thread]
  BY <1>1, <1>3 DEF MainConsole
<1>5. /\ thread \in Threads
      /\ thread.pc = "filling" /\ thread.process = populator[t].process
      /\ thread.console = 0 /\ thread.numInstructions = n
  BY <1>2, <1>3, ThreadFields DEF Threads, PopulatorStates
<1> QED
  BY <1>2, <1>4, <1>5, ThreadReplaced

\* An instruction more changes neither the name, the id nor the maker of a process.
LEMMA InstructionAdded ==
  ASSUME ShellTyped, NEW t \in Populators, AddInstruction(t),
         NEW p, p = populator[t].process, p \in 1..Len(processes)
  PROVE  /\ processes' \in Seq(MadeProcesses)
         /\ Len(processes') = Len(processes)
         /\ processes'[p].instructions = processes[p].instructions + 1
         /\ \A k \in 1..Len(processes) :
              /\ processes'[k].name = processes[k].name
              /\ processes'[k].id = processes[k].id
              /\ processes'[k].byUser = processes[k].byUser
              /\ k # p => processes'[k] = processes[k]
<1>1. PICK more : more = [processes[p] EXCEPT !.instructions = processes[p].instructions + 1]
  OBVIOUS
<1>2. /\ more \in MadeProcesses
      /\ more.name = processes[p].name
      /\ more.id = processes[p].id
      /\ more.byUser = processes[p].byUser
      /\ more.instructions = processes[p].instructions + 1
  BY <1>1, ProcessFields DEF MadeProcesses
<1>3. processes' = [processes EXCEPT ![p] = more]
  BY <1>1 DEF AddInstruction
<1>4. /\ processes' \in Seq(MadeProcesses)
      /\ Len(processes') = Len(processes)
      /\ \A k \in 1..Len(processes) : processes'[k] = IF k = p THEN more ELSE processes[k]
  BY <1>2, <1>3, ExceptSeq DEF ShellTyped
<1> QED
  BY <1>2, <1>4

\* What screen -s makes.
LEMMA ProcessMade ==
  ASSUME ShellTyped, NEW name \in UserNames, MakeProcess(name), NEW p, p = Len(processes) + 1
  PROVE  /\ Len(processes) \in Nat /\ p \in Nat /\ p \in 1..p
         /\ processes' \in Seq(MadeProcesses)
         /\ Len(processes') = p
         /\ \A k \in 1..Len(processes) : processes'[k] = processes[k]
         /\ \A k \in 1..p : k \in 1..Len(processes) \/ k = p
         /\ \A k \in 1..Len(processes) : k \in 1..p /\ k < p /\ k # p
         /\ processes'[p].name = name
         /\ processes'[p].instructions = 0
         /\ processes'[p].byUser
<1>1. processId \in Nat
  BY DEF ShellTyped
<1>2. PICK made : made = NewProcess(name, processId, TRUE)
  OBVIOUS
<1>3. made \in MadeProcesses /\ made.name = name /\ made.byUser /\ made.instructions = 0
  BY <1>1, <1>2 DEF NewProcess, MadeProcesses, Names
<1>4. processes' = Append(processes, made)
  BY <1>2 DEF MakeProcess
<1>5. /\ Len(processes) \in Nat /\ p \in Nat /\ p \in 1..p
      /\ processes' \in Seq(MadeProcesses)
      /\ Len(processes') = p
      /\ \A k \in 1..Len(processes) : processes'[k] = processes[k]
      /\ processes'[p] = made
      /\ \A k \in 1..p : k \in 1..Len(processes) \/ k = p
      /\ \A k \in 1..Len(processes) : k \in 1..p /\ k < p /\ k # p
  BY <1>3, <1>4, ProcessAppended
<1> QED
  BY <1>3, <1>5

-------------------------------------------------------------------------------
(* Screens and their names, whatever the user and the threads do *)

\* Console c was made for the session of that name.
Bears(c, name) == c \in 0..Len(processes) /\ NameOf(c) = name

\* A name has a process only if it has a console, and both are of the name.
ScreensNamed ==
  /\ MAIN \in DOMAIN screenSessions
  /\ \A name \in DOMAIN screenSessions : Bears(screenSessions[name], name)
  /\ DOMAIN screenProcesses \subseteq DOMAIN screenSessions
  /\ \A name \in DOMAIN screenProcesses :
       screenProcesses[name] \in 1..Len(processes) /\ Bears(screenProcesses[name], name)
  /\ currentConsole \in 0..Len(processes)

\* A thread has entered the session of the process it shows, under its name.
ThreadsNamed ==
  \A t \in Populators :
    /\ populator[t].process <= Len(processes) /\ populator[t].console <= Len(processes)
    /\ populator[t].numInstructions <= MaxIns
    /\ Holding(t) => populator[t].process \in 1..Len(processes)
    /\ Showing(t) => /\ populator[t].name \in DOMAIN screenSessions
                     /\ Bears(populator[t].process, populator[t].name)
    /\ At(t, "setting") => Bears(populator[t].console, populator[t].name)

\* So has the main thread, and it looks up no session that there is not.
MainNamed ==
  /\ main.process <= Len(processes) /\ main.console <= Len(processes)
  /\ main.settled \subseteq 0..Len(processes)
  /\ main.at \in {"adding", "recording"} => main.process \in 1..Len(processes)
  /\ main.at \in {"recording", "switching"} => NameOf(main.process) \in DOMAIN screenSessions
  /\ main.at = "setting" => Bears(main.console, NameOf(main.process))

\* No process has more instructions than a thread may ask for.
Counted ==
  /\ \A k \in 1..Len(processes) : processes[k].instructions <= MaxIns
  /\ \A i \in 1..Len(handed) : handed[i] \in 1..Len(processes)

\* The main thread has a screen to draw.
Asked == main.at \in {"adding", "recording", "switching", "setting", "drawing"}

\* What it may draw.
Fair(c) == NameOf(c) = NameOf(main.process) \/ c \notin main.settled

\* That is all that the threads have to show, and what is current in the end.
FairIsShown ==
  Asked =>
    /\ \A t \in Populators :
         /\ At(t, "recording") \/ At(t, "showing") => Fair(screenSessions[populator[t].name])
         /\ At(t, "setting") => Fair(populator[t].console)
    /\ main.at = "drawing" => Fair(currentConsole)

ScreenInv ==
  /\ ShellTyped
  /\ ScreensNamed
  /\ ThreadsNamed
  /\ MainNamed
  /\ Counted
  /\ FairIsShown

\* Processes may be added, and none changes its name.
NamesKept ==
  /\ Len(processes) <= Len(processes')
  /\ \A k \in 1..Len(processes) : processes'[k].name = processes[k].name

\* Then neither does a console.
LEMMA NamesStay ==
  ASSUME ShellTyped, ShellTyped', NamesKept
  PROVE  /\ \A c \in 0..Len(processes) : c \in 0..Len(processes') /\ NameOf(c)' = NameOf(c)
         /\ \A c, name : Bears(c, name) => Bears(c, name)'
         /\ \A k \in 1..Len(processes) : k \in 1..Len(processes')
         /\ \A n \in Nat : n <= Len(processes) => n <= Len(processes')
<1>1. Len(processes) \in Nat /\ Len(processes') \in Nat
  <2>1. processes \in Seq(MadeProcesses) /\ processes' \in Seq(MadeProcesses)
    BY DEF ShellTyped
  <2> QED
    BY <2>1, LenProperties
<1>2. /\ \A k \in 1..Len(processes) : k \in 1..Len(processes')
      /\ \A n \in Nat : n <= Len(processes) => n <= Len(processes')
      /\ \A c \in 0..Len(processes) : c \in 0..Len(processes')
      /\ \A c \in 0..Len(processes) : c = 0 \/ c \in 1..Len(processes)
  BY <1>1 DEF NamesKept
<1>3. \A c \in 0..Len(processes) : NameOf(c)' = NameOf(c)
  BY <1>2 DEF NamesKept, NameOf, MainConsole
<1> QED
  BY <1>2, <1>3 DEF Bears

\* A console is numbered by a natural number.
LEMMA ConsolesAreNumbers ==
  ASSUME ScreenInv
  PROVE  /\ \A name \in DOMAIN screenSessions : screenSessions[name] \in Nat
         /\ \A name \in DOMAIN screenProcesses : screenProcesses[name] \in Nat
         /\ currentConsole \in Nat
         /\ Len(processes) \in Nat
BY ProcessFields DEF ScreenInv, ScreensNamed, Bears

\* A step that changes neither the screens nor where a thread is.
LEMMA ScreensUntouched ==
  ASSUME ScreenInv, ShellTyped', NamesKept,
         UNCHANGED <<screenSessions, screenProcesses, currentConsole, populator, main>>
  PROVE  ScreensNamed' /\ ThreadsNamed' /\ MainNamed' /\ FairIsShown'
<1>1. /\ \A c \in 0..Len(processes) : c \in 0..Len(processes') /\ NameOf(c)' = NameOf(c)
      /\ \A c, name : Bears(c, name) => Bears(c, name)'
      /\ \A k \in 1..Len(processes) : k \in 1..Len(processes')
      /\ \A n \in Nat : n <= Len(processes) => n <= Len(processes')
  BY NamesStay DEF ScreenInv
<1>2. main.process \in 0..Len(processes) /\ main.process \in Nat /\ main.console \in Nat
  <2>1. Len(processes) \in Nat /\ main.process \in Nat /\ main.console \in Nat
    BY ProcessFields, MainFields DEF ScreenInv
  <2>2. main.process <= Len(processes)
    BY DEF ScreenInv, MainNamed
  <2> QED
    BY <2>1, <2>2
<1>3. ScreensNamed'
  BY <1>1 DEF ScreenInv, ScreensNamed
<1>4. ThreadsNamed'
  <2> SUFFICES ASSUME NEW t \in Populators
               PROVE  /\ populator[t].process <= Len(processes')
                      /\ populator[t].console <= Len(processes')
                      /\ populator[t].numInstructions <= MaxIns
                      /\ Holding(t) => populator[t].process \in 1..Len(processes')
                      /\ Showing(t) => /\ populator[t].name \in DOMAIN screenSessions
                                       /\ Bears(populator[t].process, populator[t].name)'
                      /\ At(t, "setting") => Bears(populator[t].console, populator[t].name)'
    BY DEF ThreadsNamed, Holding, Showing, Filling, At, Bears, NameOf
  <2>1. populator[t].process \in Nat /\ populator[t].console \in Nat
    BY ThreadFields DEF ScreenInv
  <2> QED
    BY <1>1, <2>1 DEF ScreenInv, ThreadsNamed, Bears, NameOf
<1>5. MainNamed'
  <2>1. NameOf(main.process)' = NameOf(main.process)
    BY <1>1, <1>2 DEF NameOf
  <2>2. /\ main.process <= Len(processes') /\ main.console <= Len(processes')
        /\ main.settled \subseteq 0..Len(processes')
        /\ main.at \in {"adding", "recording"} => main.process \in 1..Len(processes')
    BY <1>1, <1>2 DEF ScreenInv, MainNamed
  <2>3. main.at = "setting" => Bears(main.console, NameOf(main.process))'
    BY <1>1, <2>1 DEF ScreenInv, MainNamed, Bears, NameOf
  <2> QED
    BY <2>1, <2>2, <2>3 DEF ScreenInv, MainNamed
<1>6. FairIsShown'
  <2>1. \A c \in 0..Len(processes) : Fair(c) => Fair(c)'
    BY <1>1, <1>2 DEF Fair, NameOf
  <2>2. ASSUME NEW t \in Populators
        PROVE  /\ At(t, "recording") \/ At(t, "showing") =>
                    screenSessions[populator[t].name] \in 0..Len(processes)
               /\ At(t, "setting") => populator[t].console \in 0..Len(processes)
    BY DEF ScreenInv, ScreensNamed, ThreadsNamed, Showing, At, Bears
  <2>3. currentConsole \in 0..Len(processes)
    BY DEF ScreenInv, ScreensNamed
  <2>4. Asked' => Asked
    BY DEF Asked
  <2>5. ASSUME NEW t \in Populators, Asked
        PROVE  /\ At(t, "recording") \/ At(t, "showing") =>
                    Fair(screenSessions[populator[t].name])'
               /\ At(t, "setting") => Fair(populator[t].console)'
    <3>1. /\ At(t, "recording") \/ At(t, "showing") => Fair(screenSessions[populator[t].name])
          /\ At(t, "setting") => Fair(populator[t].console)
      BY <2>5 DEF ScreenInv, FairIsShown
    <3>2. PICK c : c = screenSessions[populator[t].name]
      OBVIOUS
    <3>3. PICK d : d = populator[t].console
      OBVIOUS
    <3>4. Fair(c)' = Fair(screenSessions[populator[t].name])' /\ Fair(d)' = Fair(populator[t].console)'
      BY <3>2, <3>3 DEF Fair, NameOf
    <3> QED
      BY <2>1, <2>2, <3>1, <3>2, <3>3, <3>4
  <2>6. main.at = "drawing" /\ Asked => Fair(currentConsole)'
    <3>1. PICK c : c = currentConsole
      OBVIOUS
    <3>2. Fair(c)' = Fair(currentConsole)'
      BY <3>1 DEF Fair, NameOf
    <3>3. main.at = "drawing" /\ Asked => Fair(c)
      BY <3>1 DEF ScreenInv, FairIsShown
    <3> QED
      BY <2>1, <2>3, <3>1, <3>2, <3>3
  <2> QED
    BY <2>4, <2>5, <2>6 DEF FairIsShown, At
<1> QED
  BY <1>3, <1>4, <1>5, <1>6

\* A step of a thread that is not in addNewScreen, on its own state.
LEMMA OwnStep ==
  ASSUME ScreenInv, NEW t \in Populators,
         UNCHANGED <<processes, screenSessions, screenProcesses, currentConsole, main>>,
         populator'[t].process = populator[t].process,
         populator'[t].console = populator[t].console,
         populator'[t].numInstructions = populator[t].numInstructions,
         \A u \in Populators \ {t} : populator'[u] = populator[u],
         populator'[t].pc \notin {"recording", "showing", "setting"},
         Filling(t)' => Filling(t)
  PROVE  ScreensNamed' /\ ThreadsNamed' /\ MainNamed' /\ FairIsShown'
<1>1. ScreensNamed' /\ MainNamed'
  BY DEF ScreenInv, ScreensNamed, MainNamed, Bears, NameOf
<1>2. ASSUME NEW u \in Populators \ {t}
      PROVE  /\ Holding(u)' = Holding(u) /\ Showing(u)' = Showing(u)
             /\ \A state : At(u, state)' = At(u, state)
  BY DEF Holding, Showing, Filling, At
<1>3. /\ ~Showing(t)' /\ (Holding(t)' => Holding(t))
      /\ ~At(t, "recording")' /\ ~At(t, "showing")' /\ ~At(t, "setting")'
  BY DEF Holding, Showing, At
<1>4. ThreadsNamed'
  BY <1>2, <1>3 DEF ScreenInv, ThreadsNamed, Bears, NameOf
<1>5. FairIsShown'
  BY <1>2, <1>3 DEF ScreenInv, FairIsShown, Asked, Fair, NameOf
<1> QED
  BY <1>1, <1>4, <1>5

\* populateProcesses lists its process and enters the session of its name, which
\* may be there already.
LEMMA AddSessionKeepsScreens ==
  ASSUME ScreenInv, NEW t \in Populators, AddSession(t), UNCHANGED shellVars
  PROVE  ScreenInv'
<1>p. PICK p : p = Len(processes) + 1
  OBVIOUS
<1>n. PICK name : name = populator[t].name
  OBVIOUS
<1>1. /\ Len(processes) \in Nat /\ p \in Nat /\ p \in 1..p
      /\ processes' \in Seq(MadeProcesses)
      /\ Len(processes') = p
      /\ \A k \in 1..Len(processes) : processes'[k] = processes[k]
      /\ \A k \in 1..p : k \in 1..Len(processes) \/ k = p
      /\ \A k \in 1..Len(processes) : k \in 1..p /\ k < p /\ k # p
      /\ processes'[p].name = name
      /\ processes'[p].instructions = 0
      /\ populator' \in [Populators -> Threads]
      /\ populator'[t].pc = "recording"
      /\ populator'[t].name = name
      /\ populator'[t].process = p
      /\ populator'[t].console = populator[t].console
      /\ populator'[t].numInstructions = populator[t].numInstructions
      /\ \A u \in Populators \ {t} : populator'[u] = populator[u]
  BY <1>p, <1>n, SessionAdded DEF ScreenInv
<1>2. /\ screenSessions' = WithEntry(screenSessions, name, p)
      /\ UNCHANGED <<screenProcesses, currentConsole, main, handed>>
  BY <1>p, <1>n DEF AddSession, EnterSession, shellVars
<1>3. /\ DOMAIN screenSessions' = DOMAIN screenSessions \cup {name}
      /\ screenSessions'[name] = p
      /\ \A other \in DOMAIN screenSessions : other # name =>
           screenSessions'[other] = screenSessions[other]
  BY <1>2 DEF WithEntry
<1>4. ShellTyped'
  BY <1>1, <1>2 DEF AddSession, shellVars, ScreenInv, ShellTyped
<1>5. NamesKept /\ p <= p /\ p \notin 0..Len(processes) /\ p # 0
  BY <1>p, <1>1 DEF NamesKept
<1>6. /\ \A c \in 0..Len(processes) : c \in 0..Len(processes') /\ NameOf(c)' = NameOf(c)
      /\ \A c, n : Bears(c, n) => Bears(c, n)'
      /\ \A k \in 1..Len(processes) : k \in 1..Len(processes')
      /\ \A n \in Nat : n <= Len(processes) => n <= Len(processes')
  BY <1>4, <1>5, NamesStay DEF ScreenInv
<1>7. Bears(p, name)' /\ NameOf(p)' = name
  <2>1. NameOf(p)' = name
    BY <1>1, <1>5 DEF NameOf, MainConsole
  <2> QED
    BY <1>1, <2>1 DEF Bears
<1> HIDE <1>p
<1>8. ScreensNamed'
  <2>1. ASSUME NEW n \in DOMAIN screenSessions'
        PROVE  Bears(screenSessions[n], n)'
    <3>1. PICK c : c = screenSessions'[n]
      OBVIOUS
    <3>2. Bears(c, n)'
      BY <1>3, <1>6, <1>7, <3>1 DEF ScreenInv, ScreensNamed
    <3> QED
      BY <3>1, <3>2 DEF Bears, NameOf
  <2>2. ASSUME NEW n \in DOMAIN screenProcesses
        PROVE  screenProcesses[n] \in 1..Len(processes') /\ Bears(screenProcesses[n], n)'
    <3>1. PICK c : c = screenProcesses[n]
      OBVIOUS
    <3>2. c \in 1..Len(processes') /\ Bears(c, n)'
      BY <1>6, <3>1 DEF ScreenInv, ScreensNamed
    <3> QED
      BY <1>2, <3>1, <3>2 DEF Bears, NameOf
  <2> QED
    BY <1>2, <1>3, <1>6, <2>1, <2>2 DEF ScreenInv, ScreensNamed
<1>9. ThreadsNamed'
  <2>1. ASSUME NEW u \in Populators, u # t
        PROVE  /\ populator[u].process <= Len(processes')
               /\ populator[u].console <= Len(processes')
               /\ populator[u].numInstructions <= MaxIns
               /\ Holding(u) => populator[u].process \in 1..Len(processes')
               /\ Showing(u) => /\ populator[u].name \in DOMAIN screenSessions'
                                /\ Bears(populator[u].process, populator[u].name)'
               /\ At(u, "setting") => Bears(populator[u].console, populator[u].name)'
    <3>1. populator[u].process \in Nat /\ populator[u].console \in Nat
      BY ThreadFields DEF ScreenInv
    <3>2. PICK q, c, n : q = populator[u].process /\ c = populator[u].console /\ n = populator[u].name
      OBVIOUS
    <3>3. /\ q <= Len(processes') /\ c <= Len(processes')
          /\ populator[u].numInstructions <= MaxIns
          /\ Holding(u) => q \in 1..Len(processes')
          /\ Showing(u) => n \in DOMAIN screenSessions' /\ Bears(q, n)'
          /\ At(u, "setting") => Bears(c, n)'
      BY <1>3, <1>6, <3>1, <3>2 DEF ScreenInv, ThreadsNamed
    <3>4. /\ Bears(q, n)' = Bears(populator[u].process, populator[u].name)'
          /\ Bears(c, n)' = Bears(populator[u].console, populator[u].name)'
      BY <1>1, <2>1, <3>2 DEF Bears, NameOf
    <3> QED
      BY <3>2, <3>3, <3>4
  <2>2. ASSUME NEW u \in Populators, u # t
        PROVE  /\ Holding(u)' = Holding(u) /\ Showing(u)' = Showing(u)
               /\ At(u, "setting")' = At(u, "setting")
    BY <1>1, <2>2 DEF Holding, Showing, Filling, At
  <2>3. /\ populator'[t].process <= Len(processes')
        /\ populator'[t].console <= Len(processes')
        /\ populator'[t].numInstructions <= MaxIns
        /\ populator'[t].process \in 1..Len(processes')
        /\ populator'[t].name \in DOMAIN screenSessions'
        /\ Bears(populator[t].process, populator[t].name)'
        /\ ~At(t, "setting")'
    <3>1. populator[t].console \in Nat /\ populator[t].console <= Len(processes)
      BY ThreadFields DEF ScreenInv, ThreadsNamed
    <3>2. Bears(p, name)' = Bears(populator[t].process, populator[t].name)'
      BY <1>1 DEF Bears, NameOf
    <3>3. populator'[t].numInstructions <= MaxIns
      BY <1>1 DEF ScreenInv, ThreadsNamed
    <3> QED
      BY <1>1, <1>3, <1>5, <1>6, <1>7, <3>1, <3>2, <3>3 DEF At
  <2>4. \A u \in Populators : u # t => populator'[u] = populator[u]
    BY <1>1
  <2> QED
    BY <2>1, <2>2, <2>3, <2>4, <1>1 DEF ThreadsNamed
<1>10. main.process \in 0..Len(processes) /\ main.process \in Nat /\ main.console \in Nat
  <2>1. Len(processes) \in Nat /\ main.process \in Nat /\ main.console \in Nat
    BY ProcessFields, MainFields DEF ScreenInv
  <2>2. main.process <= Len(processes)
    BY DEF ScreenInv, MainNamed
  <2> QED
    BY <2>1, <2>2
<1>11. MainNamed'
  <2>1. NameOf(main.process)' = NameOf(main.process)
    BY <1>2, <1>6, <1>10 DEF NameOf
  <2>2. /\ main.process <= Len(processes') /\ main.console <= Len(processes')
        /\ main.settled \subseteq 0..Len(processes')
        /\ main.at \in {"adding", "recording"} => main.process \in 1..Len(processes')
        /\ main.at \in {"recording", "switching"} => NameOf(main.process) \in DOMAIN screenSessions'
    BY <1>3, <1>6, <1>10 DEF ScreenInv, MainNamed
  <2>3. main.at = "setting" => Bears(main.console, NameOf(main.process))'
    BY <1>2, <1>6, <2>1 DEF ScreenInv, MainNamed, Bears, NameOf
  <2> QED
    BY <1>2, <2>1, <2>2, <2>3 DEF MainNamed
<1>12. Counted'
  <2>1. 0 <= MaxIns
    BY PopulationAssumption
  <2> QED
    BY <1>1, <1>2, <1>6, <2>1 DEF ScreenInv, Counted
<1>13. FairIsShown'
  <2>1. \A c \in 0..Len(processes) : Fair(c) => Fair(c)'
    BY <1>2, <1>6, <1>10 DEF Fair, NameOf
  <2>2. Fair(p)'
    BY <1>2, <1>5 DEF ScreenInv, MainNamed, Fair
  <2>3. ASSUME NEW u \in Populators, Asked
        PROVE  /\ At(u, "recording")' \/ At(u, "showing")' =>
                    Fair(screenSessions[populator[u].name])'
               /\ At(u, "setting")' => Fair(populator[u].console)'
    <3>1. PICK n : n = populator'[u].name
      OBVIOUS
    <3>2. PICK c : c = screenSessions'[n]
      OBVIOUS
    <3>3. PICK d : d = populator'[u].console
      OBVIOUS
    <3>4. Fair(c)' = Fair(screenSessions[populator[u].name])' /\ Fair(d)' = Fair(populator[u].console)'
      BY <3>1, <3>2, <3>3 DEF Fair, NameOf
    <3>5. CASE n = name /\ (At(u, "recording")' \/ At(u, "showing")')
      BY <1>3, <2>2, <3>2, <3>4, <3>5 DEF At
    <3>6. CASE u # t
      <4>1. populator'[u] = populator[u]
        BY <1>1, <3>6
      <4>2. /\ At(u, "recording") \/ At(u, "showing") =>
                 /\ n \in DOMAIN screenSessions
                 /\ screenSessions[n] \in 0..Len(processes)
                 /\ Fair(screenSessions[n])
            /\ At(u, "setting") => d \in 0..Len(processes) /\ Fair(d)
        BY <2>3, <3>1, <3>3, <4>1
        DEF ScreenInv, ScreensNamed, ThreadsNamed, FairIsShown, Bears, Showing, At
      <4>3. n # name /\ n \in DOMAIN screenSessions => c = screenSessions[n]
        BY <1>3, <3>2
      <4> QED
        BY <2>1, <3>4, <3>5, <4>1, <4>2, <4>3 DEF At
    <3> QED
      BY <1>1, <3>1, <3>5, <3>6 DEF At
  <2>4. main.at = "drawing" /\ Asked => Fair(currentConsole)'
    <3>1. PICK c : c = currentConsole
      OBVIOUS
    <3>2. Fair(c)' = Fair(currentConsole)'
      BY <1>2, <3>1 DEF Fair, NameOf
    <3>3. c \in 0..Len(processes) /\ (main.at = "drawing" /\ Asked => Fair(c))
      BY <3>1 DEF ScreenInv, ScreensNamed, FairIsShown
    <3> QED
      BY <2>1, <3>2, <3>3
  <2>5. Asked' = Asked
    BY <1>2 DEF Asked
  <2> QED
    BY <1>2, <2>3, <2>4, <2>5 DEF FairIsShown
<1> QED
  BY <1>4, <1>8, <1>9, <1>11, <1>12, <1>13 DEF ScreenInv

\* It enters the process.
LEMMA AddScreenProcessKeepsScreens ==
  ASSUME ScreenInv, NEW t \in Populators, AddScreenProcess(t), UNCHANGED shellVars
  PROVE  ScreenInv'
<1>n. PICK p, name : p = populator[t].process /\ name = populator[t].name
  OBVIOUS
<1>1. /\ populator[t].pc = "recording"
      /\ populator' \in [Populators -> Threads]
      /\ populator'[t].pc = "showing"
      /\ populator'[t].name = name
      /\ populator'[t].process = p
      /\ populator'[t].console = populator[t].console
      /\ populator'[t].numInstructions = populator[t].numInstructions
      /\ \A u \in Populators \ {t} : populator'[u] = populator[u]
  BY <1>n, GotoChanges DEF AddScreenProcess, At, PopulatorStates, ScreenInv
<1>2. /\ screenProcesses' = WithEntry(screenProcesses, name, p)
      /\ UNCHANGED <<processes, screenSessions, currentConsole, main, handed>>
  BY <1>n DEF AddScreenProcess, EnterProcess, shellVars
<1>3. /\ DOMAIN screenProcesses' = DOMAIN screenProcesses \cup {name}
      /\ screenProcesses'[name] = p
      /\ \A other \in DOMAIN screenProcesses : other # name =>
           screenProcesses'[other] = screenProcesses[other]
  BY <1>2 DEF WithEntry
<1>4. /\ p \in 1..Len(processes) /\ Bears(p, name)
      /\ name \in DOMAIN screenSessions
  BY <1>n, <1>1 DEF ScreenInv, ThreadsNamed, Holding, Showing
<1>5. ShellTyped'
  BY <1>1, <1>2 DEF AddScreenProcess, shellVars, ScreenInv, ShellTyped
<1>6. ScreensNamed'
  BY <1>2, <1>3, <1>4 DEF ScreenInv, ScreensNamed, Bears, NameOf
<1>7. MainNamed' /\ Counted'
  BY <1>2 DEF ScreenInv, MainNamed, Counted, Bears, NameOf
<1>8. ASSUME NEW u \in Populators \ {t}
      PROVE  /\ Holding(u)' = Holding(u) /\ Showing(u)' = Showing(u)
             /\ \A state : At(u, state)' = At(u, state)
  BY <1>1 DEF Holding, Showing, Filling, At
<1>9. ThreadsNamed'
  BY <1>n, <1>1, <1>2, <1>4, <1>8 DEF ScreenInv, ThreadsNamed, Bears, NameOf, At
<1>10. FairIsShown'
  BY <1>n, <1>1, <1>2, <1>8 DEF ScreenInv, FairIsShown, Asked, Fair, NameOf, At
<1> QED
  BY <1>5, <1>6, <1>7, <1>9, <1>10 DEF ScreenInv

\* It takes the console that it looks up.
LEMMA ReadSessionKeepsScreens ==
  ASSUME ScreenInv, NEW t \in Populators, ReadSession(t), UNCHANGED shellVars
  PROVE  ScreenInv'
<1>n. PICK c, name : c = screenSessions[name] /\ name = populator[t].name
  OBVIOUS
<1>1. populator[t].pc = "showing" /\ name \in DOMAIN screenSessions /\ Bears(c, name)
  BY <1>n DEF ReadSession, At, ScreenInv, ThreadsNamed, ScreensNamed, Showing
<1>2. c \in Nat /\ c \in 0..Len(processes) /\ c <= Len(processes)
  BY <1>1, ProcessFields DEF ScreenInv, Bears
<1>3. /\ populator' \in [Populators -> Threads]
      /\ populator'[t].pc = "setting"
      /\ populator'[t].name = name
      /\ populator'[t].process = populator[t].process
      /\ populator'[t].console = c
      /\ populator'[t].numInstructions = populator[t].numInstructions
      /\ \A u \in Populators \ {t} : populator'[u] = populator[u]
  BY <1>n, <1>2, SessionRead DEF ScreenInv
<1>4. UNCHANGED <<processes, handed, screenProcesses, screenSessions, currentConsole, main>>
  BY DEF ReadSession, consoleVars, shellVars
<1>5. ShellTyped'
  BY <1>3, <1>4 DEF ReadSession, shellVars, ScreenInv, ShellTyped
<1>6. ScreensNamed' /\ MainNamed' /\ Counted'
  BY <1>4 DEF ScreenInv, ScreensNamed, MainNamed, Counted, Bears, NameOf
<1>7. ASSUME NEW u \in Populators \ {t}
      PROVE  /\ Holding(u)' = Holding(u) /\ Showing(u)' = Showing(u)
             /\ \A state : At(u, state)' = At(u, state)
  BY <1>3 DEF Holding, Showing, Filling, At
<1>8. ThreadsNamed'
  BY <1>n, <1>1, <1>2, <1>3, <1>4, <1>7, SMTT(30)
  DEF ScreenInv, ThreadsNamed, Bears, NameOf, At, Holding, Showing
<1>9. FairIsShown'
  BY <1>n, <1>1, <1>3, <1>4, <1>7 DEF ScreenInv, FairIsShown, Asked, Fair, NameOf, At
<1> QED
  BY <1>5, <1>6, <1>8, <1>9 DEF ScreenInv

\* It makes that console current: what is fair of it is then fair to draw.
LEMMA ShowScreenKeepsScreens ==
  ASSUME ScreenInv, NEW t \in Populators, ShowScreen(t), UNCHANGED shellVars
  PROVE  ScreenInv'
<1>1. /\ populator[t].pc = "setting"
      /\ populator' \in [Populators -> Threads]
      /\ populator'[t].pc = "filling"
      /\ populator'[t].process = populator[t].process
      /\ populator'[t].console = 0
      /\ populator'[t].numInstructions <= MaxIns
      /\ \A u \in Populators \ {t} : populator'[u] = populator[u]
  BY ScreenShown DEF ScreenInv, ShowScreen, At
<1>2. /\ currentConsole' = populator[t].console
      /\ UNCHANGED <<processes, handed, screenProcesses, screenSessions, main>>
  BY DEF ShowScreen, SetCurrent, shellVars
<1>3. Bears(populator[t].console, populator[t].name) /\ populator[t].process \in 1..Len(processes)
  BY <1>1 DEF ScreenInv, ThreadsNamed, At, Holding, Showing
<1>4. ShellTyped'
  BY <1>1, <1>2 DEF ShowScreen, shellVars, ScreenInv, ShellTyped
<1>5. ScreensNamed' /\ MainNamed' /\ Counted'
  BY <1>2, <1>3 DEF ScreenInv, ScreensNamed, MainNamed, Counted, Bears, NameOf
<1>6. ASSUME NEW u \in Populators \ {t}
      PROVE  /\ Holding(u)' = Holding(u) /\ Showing(u)' = Showing(u)
             /\ \A state : At(u, state)' = At(u, state)
  BY <1>1 DEF Holding, Showing, Filling, At
<1>7. ThreadsNamed'
  <2>1. Len(processes) \in Nat /\ 0 <= Len(processes)
    BY ProcessFields DEF ScreenInv
  <2> QED
    BY <1>1, <1>2, <1>3, <1>6, <2>1 DEF ScreenInv, ThreadsNamed, Bears, NameOf, At, Showing
<1>8. FairIsShown'
  BY <1>1, <1>2, <1>6 DEF ScreenInv, FairIsShown, Asked, Fair, NameOf, At
<1> QED
  BY <1>4, <1>5, <1>7, <1>8 DEF ScreenInv

\* Every step of a thread keeps the screens and the types.
LEMMA PopulatorKeepsScreens ==
  ASSUME ScreenInv, NEW t \in Populators, PopulatorStep(t), UNCHANGED shellVars
  PROVE  ScreenInv'
<1>1. ShellTyped /\ processCounter \in Nat /\ UNCHANGED main
  BY DEF ScreenInv, ShellTyped, shellVars
<1>2. CASE BeginRound(t)
  <2>1. ScreensNamed' /\ ThreadsNamed' /\ MainNamed' /\ FairIsShown'
    BY <1>1, <1>2, RoundBegun, OwnStep DEF BeginRound, consoleVars, Filling
  <2> QED
    BY <1>1, <1>2, <2>1, RoundBegun DEF BeginRound, shellVars, ScreenInv, ShellTyped, Counted
<1>3. CASE WriteCounter(t)
  <2>1. ScreensNamed' /\ ThreadsNamed' /\ MainNamed' /\ FairIsShown'
    BY <1>1, <1>3, GotoChanges, OwnStep DEF WriteCounter, consoleVars, Filling, PopulatorStates
  <2> QED
    BY <1>1, <1>3, <2>1, GotoChanges, ThreadFields
    DEF WriteCounter, NextCount, PopulatorStates, shellVars, ScreenInv, ShellTyped, Counted
<1>4. CASE CreateProcess(t)
  <2>1. ScreensNamed' /\ ThreadsNamed' /\ MainNamed' /\ FairIsShown'
    BY <1>1, <1>4, IdTaken, OwnStep DEF CreateProcess, consoleVars, Filling
  <2> QED
    BY <1>1, <1>4, <2>1, IdTaken DEF CreateProcess, shellVars, ScreenInv, ShellTyped, Counted
<1>5. CASE AddInstruction(t)
  <2>1. PICK p : p = populator[t].process
    OBVIOUS
  <2>2. p \in 1..Len(processes)
    BY <1>5, <2>1 DEF AddInstruction, At, ScreenInv, ThreadsNamed, Holding, Filling
  <2>3. /\ processes' \in Seq(MadeProcesses)
        /\ Len(processes') = Len(processes)
        /\ processes'[p].instructions = processes[p].instructions + 1
        /\ \A k \in 1..Len(processes) :
             /\ processes'[k].name = processes[k].name
             /\ k # p => processes'[k] = processes[k]
    BY <1>1, <1>5, <2>1, <2>2, InstructionAdded
  <2>4. ShellTyped' /\ NamesKept
    BY <1>1, <1>5, <2>3, ProcessFields
    DEF AddInstruction, shellVars, ShellTyped, NamesKept
  <2>5. UNCHANGED <<screenSessions, screenProcesses, currentConsole, populator, main, handed>>
    BY <1>1, <1>5 DEF AddInstruction, consoleVars
  <2>6. ScreensNamed' /\ ThreadsNamed' /\ MainNamed' /\ FairIsShown'
    BY <2>4, <2>5, ScreensUntouched
  <2>7. processes'[p].instructions <= MaxIns
    <3>1. ~(processes[p].instructions >= populator[t].numInstructions)
      BY <1>5, <2>1 DEF AddInstruction, Filled
    <3>2. /\ processes[p].instructions \in Nat /\ populator[t].numInstructions \in Nat
          /\ populator[t].numInstructions <= MaxIns /\ MaxIns \in Nat
      BY <1>1, <2>2, ProcessFields, ThreadFields, PopulationAssumption DEF ScreenInv, ThreadsNamed
    <3> QED
      BY <2>3, <3>1, <3>2
  <2>8. Counted'
    BY <2>3, <2>5, <2>7 DEF ScreenInv, Counted
  <2> QED
    BY <2>4, <2>6, <2>8 DEF ScreenInv
<1>6. CASE EndFilling(t)
  <2>1. ScreensNamed' /\ ThreadsNamed' /\ MainNamed' /\ FairIsShown'
    BY <1>1, <1>6, GotoChanges, OwnStep DEF EndFilling, At, consoleVars, Filling, PopulatorStates
  <2> QED
    BY <1>1, <1>6, <2>1, GotoChanges
    DEF EndFilling, PopulatorStates, shellVars, ScreenInv, ShellTyped, Counted
<1>7. CASE TestBeforeHanding(t)
  <2>1. PICK state : state = IF populate_running THEN "handing" ELSE "loop"
    OBVIOUS
  <2>2. Goto(t, state) /\ state \in PopulatorStates /\ state \in {"handing", "loop"}
    BY <1>7, <2>1 DEF TestBeforeHanding, PopulatorStates
  <2>3. ScreensNamed' /\ ThreadsNamed' /\ MainNamed' /\ FairIsShown'
    BY <1>1, <1>7, <2>2, GotoChanges, OwnStep DEF TestBeforeHanding, At, consoleVars, Filling
  <2> QED
    BY <1>1, <1>7, <2>2, <2>3, GotoChanges
    DEF TestBeforeHanding, shellVars, ScreenInv, ShellTyped, Counted
<1>8. CASE HandOver(t)
  <2>1. ScreensNamed' /\ ThreadsNamed' /\ MainNamed' /\ FairIsShown'
    BY <1>1, <1>8, GotoChanges, OwnStep DEF HandOver, consoleVars, Filling, PopulatorStates
  <2>2. PICK p : p = populator[t].process
    OBVIOUS
  <2>3. p \in 1..Len(processes) /\ p \in Nat /\ handed' = Append(handed, p) /\ UNCHANGED processes
    BY <1>1, <1>8, <2>2, ThreadFields
    DEF HandOver, At, ScreenInv, ThreadsNamed, Holding, Filling
  <2>4. /\ handed' \in Seq(Nat)
        /\ Len(handed') = Len(handed) + 1 /\ Len(handed) \in Nat
        /\ \A i \in 1..Len(handed) : handed'[i] = handed[i]
        /\ handed'[Len(handed) + 1] = p
    <3>1. handed \in Seq(Nat) /\ Len(handed) \in Nat
      BY <1>1, ProcessFields DEF ShellTyped
    <3> QED
      BY <2>3, <3>1, AppendProperties
  <2>5. \A i \in 1..Len(handed') : handed'[i] \in 1..Len(processes)
    BY <2>3, <2>4 DEF ScreenInv, Counted
  <2>6. Counted'
    BY <2>3, <2>5 DEF ScreenInv, Counted
  <2> QED
    BY <1>1, <1>8, <2>1, <2>4, <2>6, GotoChanges
    DEF HandOver, PopulatorStates, shellVars, ScreenInv, ShellTyped
<1> QED
  BY <1>2, <1>3, <1>4, <1>5, <1>6, <1>7, <1>8, AddSessionKeepsScreens,
     AddScreenProcessKeepsScreens, ReadSessionKeepsScreens, ShowScreenKeepsScreens
  DEF PopulatorStep

\* The main thread goes on with the process it is busy with.
LEMMA MainIsRecord ==
  ASSUME ShellTyped, NEW state \in MainStates, main' = [main EXCEPT !.at = state]
  PROVE  /\ main' \in Mains
         /\ main'.at = state
         /\ main'.process = main.process
         /\ main'.console = main.console
         /\ main'.settled = main.settled
BY DEF ShellTyped, Mains

\* When the main thread is asked, no thread has a settled console to show.
LEMMA SettledAreNotShown ==
  ASSUME ScreenInv
  PROVE  /\ Settled \subseteq 0..Len(processes)
         /\ Settled \in SUBSET Nat
         /\ \A t \in Populators :
              /\ At(t, "recording") \/ At(t, "showing") =>
                   screenSessions[populator[t].name] \notin Settled
              /\ At(t, "setting") => populator[t].console \notin Settled
<1>1. Len(processes) \in Nat
  BY ProcessFields DEF ScreenInv
<1>2. Settled \subseteq 0..Len(processes) /\ Settled \in SUBSET Nat
  BY <1>1 DEF Settled
<1>3. ASSUME NEW t \in Populators, NEW c \in Settled, Showing(t)
      PROVE  ~Bears(c, populator[t].name)
  BY <1>3 DEF Settled, Bears
<1>4. ASSUME NEW t \in Populators
      PROVE  /\ At(t, "recording") \/ At(t, "showing") =>
                  Bears(screenSessions[populator[t].name], populator[t].name)
             /\ At(t, "setting") => Bears(populator[t].console, populator[t].name)
  BY DEF ScreenInv, ThreadsNamed, ScreensNamed, Showing, At
<1> QED
  BY <1>2, <1>3, <1>4 DEF Showing, At

\* So whatever it is asked for, all that a thread will show is fair.
LEMMA AskedIsFair ==
  ASSUME ScreenInv, UNCHANGED <<screenSessions, populator>>,
         main'.settled = Settled, main'.at # "drawing"
  PROVE  FairIsShown'
BY SettledAreNotShown DEF FairIsShown, Fair, At

\* screen -s: a process is made.
LEMMA MakeProcessKeepsScreens ==
  ASSUME ScreenInv, NEW name \in UserNames, MakeProcess(name)
  PROVE  ScreenInv'
<1>p. PICK p : p = Len(processes) + 1
  OBVIOUS
<1>1. /\ Len(processes) \in Nat /\ p \in Nat /\ p \in 1..p
      /\ processes' \in Seq(MadeProcesses)
      /\ Len(processes') = p
      /\ \A k \in 1..Len(processes) : processes'[k] = processes[k]
      /\ \A k \in 1..p : k \in 1..Len(processes) \/ k = p
      /\ \A k \in 1..Len(processes) : k \in 1..p /\ k < p /\ k # p
      /\ processes'[p].instructions = 0
  BY <1>p, ProcessMade DEF ScreenInv
<1>2. /\ main' = [at |-> "adding", process |-> p, console |-> 0, settled |-> Settled]
      /\ UNCHANGED <<screenSessions, screenProcesses, currentConsole, populator, handed>>
  BY <1>p DEF MakeProcess, Becomes, consoleVars, MainConsole
<1>3. Settled \subseteq 0..Len(processes) /\ Settled \in SUBSET Nat
  BY SettledAreNotShown
<1>4. /\ main' \in Mains
      /\ main'.at = "adding" /\ main'.process = p /\ main'.console = 0 /\ main'.settled = Settled
  BY <1>1, <1>2, <1>3 DEF Mains, MainStates
<1>5. ShellTyped'
  <2>1. processId' = processId + 1 /\ UNCHANGED <<initialized, scheduler, populate_running, processCounter>>
    BY DEF MakeProcess
  <2> QED
    BY <1>1, <1>2, <1>4, <2>1 DEF ScreenInv, ShellTyped
<1>6. NamesKept /\ p <= p /\ 0 <= p
  BY <1>p, <1>1 DEF NamesKept
<1>7. /\ \A c \in 0..Len(processes) : c \in 0..Len(processes')
      /\ \A c, n : Bears(c, n) => Bears(c, n)'
      /\ \A k \in 1..Len(processes) : k \in 1..Len(processes')
      /\ \A n \in Nat : n <= Len(processes) => n <= Len(processes')
  BY <1>5, <1>6, NamesStay DEF ScreenInv
<1> HIDE <1>p
<1>8. ScreensNamed'
  <2>1. ASSUME NEW n \in DOMAIN screenSessions
        PROVE  Bears(screenSessions[n], n)'
    <3>1. PICK c : c = screenSessions[n]
      OBVIOUS
    <3>2. Bears(c, n)'
      BY <1>7, <3>1 DEF ScreenInv, ScreensNamed
    <3> QED
      BY <1>2, <3>1, <3>2 DEF Bears, NameOf
  <2>2. ASSUME NEW n \in DOMAIN screenProcesses
        PROVE  screenProcesses[n] \in 1..Len(processes') /\ Bears(screenProcesses[n], n)'
    <3>1. PICK c : c = screenProcesses[n]
      OBVIOUS
    <3>2. c \in 1..Len(processes') /\ Bears(c, n)'
      BY <1>7, <3>1 DEF ScreenInv, ScreensNamed
    <3> QED
      BY <1>2, <3>1, <3>2 DEF Bears, NameOf
  <2> QED
    BY <1>2, <1>7, <2>1, <2>2 DEF ScreenInv, ScreensNamed
<1>9. ThreadsNamed'
  <2> SUFFICES ASSUME NEW u \in Populators
               PROVE  /\ populator[u].process <= Len(processes')
                      /\ populator[u].console <= Len(processes')
                      /\ populator[u].numInstructions <= MaxIns
                      /\ Holding(u) => populator[u].process \in 1..Len(processes')
                      /\ Showing(u) => /\ populator[u].name \in DOMAIN screenSessions
                                       /\ Bears(populator[u].process, populator[u].name)'
                      /\ At(u, "setting") => Bears(populator[u].console, populator[u].name)'
    BY <1>2 DEF ThreadsNamed, Holding, Showing, Filling, At, Bears, NameOf
  <2>1. populator[u].process \in Nat /\ populator[u].console \in Nat
    BY ThreadFields DEF ScreenInv
  <2> QED
    BY <1>2, <1>7, <2>1 DEF ScreenInv, ThreadsNamed, Bears, NameOf
<1>10. MainNamed'
  BY <1>1, <1>3, <1>4, <1>6, <1>7 DEF MainNamed
<1>11. Counted'
  <2>1. 0 <= MaxIns
    BY PopulationAssumption
  <2> QED
    BY <1>1, <1>2, <1>7, <2>1 DEF ScreenInv, Counted
<1>12. FairIsShown'
  BY <1>2, <1>4, AskedIsFair
<1> QED
  BY <1>5, <1>8, <1>9, <1>10, <1>11, <1>12 DEF ScreenInv

\* Its session is entered: its name is the name that was asked for.
LEMMA EnterScreenKeepsScreens ==
  ASSUME ScreenInv, EnterScreen
  PROVE  ScreenInv'
<1>n. PICK p, name : p = main.process /\ name = NameOf(p)
  OBVIOUS
<1>1. /\ main' \in Mains /\ main'.at = "recording" /\ main'.process = p
      /\ main'.console = main.console /\ main'.settled = main.settled
      /\ main.at = "adding"
  BY <1>n, MainIsRecord DEF EnterScreen, MainStates, ScreenInv
<1>2. /\ screenSessions' = WithEntry(screenSessions, name, p)
      /\ UNCHANGED <<processes, handed, populator, screenProcesses, currentConsole>>
  BY <1>n DEF EnterScreen, EnterSession, populationVars
<1>3. /\ DOMAIN screenSessions' = DOMAIN screenSessions \cup {name}
      /\ screenSessions'[name] = p
      /\ \A other \in DOMAIN screenSessions : other # name =>
           screenSessions'[other] = screenSessions[other]
  BY <1>2 DEF WithEntry
<1>4. p \in 1..Len(processes) /\ Bears(p, name)
  <2>1. p \in 1..Len(processes) /\ Len(processes) \in Nat
    BY <1>n, <1>1, ProcessFields DEF ScreenInv, MainNamed
  <2> QED
    BY <1>n, <2>1 DEF Bears
<1>5. ShellTyped'
  BY <1>1 DEF EnterScreen, populationVars, ScreenInv, ShellTyped
<1>6. ScreensNamed'
  BY <1>2, <1>3, <1>4 DEF ScreenInv, ScreensNamed, Bears, NameOf
<1>7. MainNamed' /\ Counted'
  BY <1>n, <1>1, <1>2, <1>3, <1>4 DEF ScreenInv, MainNamed, Counted, Bears, NameOf
<1>8. ThreadsNamed'
  BY <1>2, <1>3 DEF ScreenInv, ThreadsNamed, Holding, Showing, Filling, Bears, NameOf, At
<1>9. FairIsShown'
  <2>1. \A t \in Populators :
          At(t, "recording") \/ At(t, "showing") =>
            \/ screenSessions'[populator[t].name] = p
            \/ screenSessions'[populator[t].name] = screenSessions[populator[t].name]
    BY <1>3 DEF ScreenInv, ThreadsNamed, Showing, At
  <2>2. NameOf(p)' = NameOf(main.process)' /\ Asked
    BY <1>1 DEF NameOf, Asked
  <2>3. \A c : Fair(c)' <=> Fair(c)
    BY <1>n, <1>1, <1>2, <2>2 DEF Fair, NameOf
  <2>4. Fair(p) /\ main'.at # "drawing"
    BY <1>n, <1>1 DEF Fair
  <2>5. ASSUME NEW t \in Populators
        PROVE  /\ At(t, "recording") \/ At(t, "showing") => Fair(screenSessions'[populator[t].name])
               /\ At(t, "setting") => Fair(populator[t].console)
    BY <2>1, <2>2, <2>4 DEF ScreenInv, FairIsShown
  <2> QED
    BY <1>n, <1>1, <1>2, <2>4, <2>5 DEF FairIsShown, Fair, NameOf, At
<1> QED
  BY <1>5, <1>6, <1>7, <1>8, <1>9 DEF ScreenInv

\* Then the process is entered.
LEMMA RecordProcessKeepsScreens ==
  ASSUME ScreenInv, RecordProcess
  PROVE  ScreenInv'
<1>n. PICK p, name : p = main.process /\ name = NameOf(p)
  OBVIOUS
<1>1. /\ main' \in Mains /\ main'.at = "switching" /\ main'.process = p
      /\ main'.console = main.console /\ main'.settled = main.settled
      /\ main.at = "recording"
  BY <1>n, MainIsRecord DEF RecordProcess, MainStates, ScreenInv
<1>2. /\ screenProcesses' = WithEntry(screenProcesses, name, p)
      /\ UNCHANGED <<processes, handed, populator, screenSessions, currentConsole>>
  BY <1>n DEF RecordProcess, EnterProcess, populationVars
<1>3. /\ DOMAIN screenProcesses' = DOMAIN screenProcesses \cup {name}
      /\ screenProcesses'[name] = p
      /\ \A other \in DOMAIN screenProcesses : other # name =>
           screenProcesses'[other] = screenProcesses[other]
  BY <1>2 DEF WithEntry
<1>4. p \in 1..Len(processes) /\ Bears(p, name) /\ name \in DOMAIN screenSessions
  <2>1. p \in 1..Len(processes) /\ Len(processes) \in Nat
    BY <1>n, <1>1, ProcessFields DEF ScreenInv, MainNamed
  <2> QED
    BY <1>n, <1>1, <2>1 DEF Bears, ScreenInv, MainNamed
<1>5. ShellTyped'
  BY <1>1 DEF RecordProcess, populationVars, ScreenInv, ShellTyped
<1>6. ScreensNamed'
  BY <1>2, <1>3, <1>4 DEF ScreenInv, ScreensNamed, Bears, NameOf
<1>7. MainNamed' /\ Counted'
  BY <1>n, <1>1, <1>2, <1>4 DEF ScreenInv, MainNamed, Counted, Bears, NameOf
<1>8. ThreadsNamed' /\ FairIsShown'
  BY <1>n, <1>1, <1>2
  DEF ScreenInv, ThreadsNamed, Holding, Showing, Filling, Bears, NameOf, At, FairIsShown, Asked, Fair
<1> QED
  BY <1>5, <1>6, <1>7, <1>8 DEF ScreenInv

\* A step of the main thread on its own state only.
LEMMA MainMoves ==
  ASSUME ScreenInv, main' \in Mains, MainNamed', FairIsShown', processId' \in Nat,
         UNCHANGED <<initialized, scheduler, populationVars, screenSessions, screenProcesses>>,
         currentConsole' \in 0..Len(processes)
  PROVE  ScreenInv'
<1>1. ShellTyped' /\ Counted' /\ UNCHANGED <<processes, populator>>
  BY DEF populationVars, ScreenInv, ShellTyped, Counted
<1>2. ScreensNamed' /\ ThreadsNamed'
  BY <1>1
  DEF ScreenInv, ScreensNamed, ThreadsNamed, Holding, Showing, Filling, Bears, NameOf, At
<1> QED
  BY <1>1, <1>2 DEF ScreenInv

\* The steps that enter nothing.
LEMMA CommandsKeepScreens ==
  ASSUME ScreenInv,
         \/ \E name \in UserNames : FindProcess(name)
         \/ FindConsole \/ SwitchScreen \/ ReturnToMain \/ Draw \/ Exit
  PROVE  ScreenInv'
<1>1. /\ Len(processes) \in Nat /\ 0 \in 0..Len(processes) /\ 0 <= Len(processes)
      /\ processId \in Nat /\ currentConsole \in 0..Len(processes)
      /\ main.process \in Nat /\ main.process <= Len(processes)
      /\ ShellTyped
  BY ProcessFields, MainFields DEF ScreenInv, ShellTyped, ScreensNamed, MainNamed
<1>2. ASSUME NEW name \in UserNames, FindProcess(name) PROVE ScreenInv'
  <2>1. PICK p : p = screenProcesses[name]
    OBVIOUS
  <2>2. /\ main' = [at |-> "switching", process |-> p, console |-> 0, settled |-> Settled]
        /\ name \in DOMAIN screenProcesses
        /\ UNCHANGED <<initialized, scheduler, processId, populationVars, consoleVars>>
        /\ UNCHANGED <<processes, populator, screenSessions, screenProcesses, currentConsole>>
    BY <1>2, <2>1
    DEF FindProcess, HasScreenProcess, Becomes, MainConsole, populationVars, consoleVars
  <2>3. /\ p \in 1..Len(processes) /\ p \in Nat /\ p <= Len(processes)
        /\ NameOf(p) = name /\ name \in DOMAIN screenSessions
    BY <1>1, <2>1, <2>2 DEF ScreenInv, ScreensNamed, Bears
  <2>4. /\ main' \in Mains /\ main'.at = "switching" /\ main'.process = p
        /\ main'.console = 0 /\ main'.settled = Settled
        /\ Settled \subseteq 0..Len(processes)
    BY <2>2, <2>3, SettledAreNotShown DEF Mains, MainStates
  <2>5. MainNamed'
    BY <1>1, <2>2, <2>3, <2>4 DEF MainNamed, NameOf
  <2>6. FairIsShown'
    BY <2>2, <2>4, AskedIsFair
  <2> QED
    BY <1>1, <2>2, <2>4, <2>5, <2>6, MainMoves
<1>3. CASE FindConsole
  <2>1. PICK c, name : c = screenSessions[name] /\ name = NameOf(main.process)
    OBVIOUS
  <2>2. /\ main.at = "switching"
        /\ main' = [main EXCEPT !.at = "setting", !.console = c]
        /\ UNCHANGED <<initialized, scheduler, processId, populationVars, consoleVars>>
        /\ UNCHANGED <<processes, populator, screenSessions, screenProcesses, currentConsole>>
    BY <1>3, <2>1 DEF FindConsole, populationVars, consoleVars
  <2>3. Bears(c, name) /\ c \in Nat /\ c <= Len(processes)
    BY <1>1, <2>1, <2>2 DEF ScreenInv, MainNamed, ScreensNamed, Bears
  <2>4. /\ main' \in Mains /\ main'.at = "setting" /\ main'.process = main.process
        /\ main'.console = c /\ main'.settled = main.settled
    BY <1>1, <2>2, <2>3 DEF ShellTyped, Mains, MainStates
  <2>5. MainNamed'
    BY <1>1, <2>1, <2>2, <2>3, <2>4 DEF ScreenInv, MainNamed, NameOf, Bears
  <2>6. FairIsShown'
    BY <2>2, <2>4 DEF ScreenInv, FairIsShown, Asked, Fair, NameOf, At
  <2> QED
    BY <1>1, <2>2, <2>4, <2>5, <2>6, MainMoves
<1>4. CASE SwitchScreen
  <2>1. /\ main.at = "setting"
        /\ main' = [main EXCEPT !.at = "drawing", !.console = 0]
        /\ currentConsole' = main.console
        /\ UNCHANGED <<initialized, scheduler, processId, populationVars, screenSessions,
                       screenProcesses>>
        /\ UNCHANGED <<processes, populator>>
    BY <1>4 DEF SwitchScreen, SwitchTo, SetCurrent, MainConsole, populationVars
  <2>2. Bears(main.console, NameOf(main.process))
    BY <2>1 DEF ScreenInv, MainNamed
  <2>3. /\ main' \in Mains /\ main'.at = "drawing" /\ main'.process = main.process
        /\ main'.console = 0 /\ main'.settled = main.settled
    BY <1>1, <2>1 DEF ShellTyped, Mains, MainStates
  <2>4. MainNamed'
    BY <1>1, <2>1, <2>3 DEF ScreenInv, MainNamed, NameOf
  <2>5. FairIsShown'
    BY <2>1, <2>2, <2>3 DEF ScreenInv, FairIsShown, Asked, Fair, NameOf, At, Bears
  <2>6. currentConsole' \in 0..Len(processes)
    BY <2>1, <2>2 DEF Bears
  <2> QED
    BY <1>1, <2>1, <2>3, <2>4, <2>5, <2>6, MainMoves
<1>5. CASE ReturnToMain
  <2>1. PICK c : c = screenSessions[MAIN]
    OBVIOUS
  <2>2. /\ main' = [at |-> "setting", process |-> 0, console |-> c, settled |-> Settled]
        /\ UNCHANGED <<initialized, scheduler, processId, populationVars, consoleVars>>
        /\ UNCHANGED <<processes, populator, screenSessions, screenProcesses, currentConsole>>
    BY <1>5, <2>1 DEF ReturnToMain, Becomes, MainConsole, populationVars, consoleVars
  <2>3. Bears(c, MAIN) /\ c \in Nat /\ c <= Len(processes)
    BY <1>1, <2>1 DEF ScreenInv, ScreensNamed, Bears
  <2>4. /\ main' \in Mains /\ main'.at = "setting" /\ main'.process = 0
        /\ main'.console = c /\ main'.settled = Settled
        /\ Settled \subseteq 0..Len(processes)
    BY <2>2, <2>3, SettledAreNotShown DEF Mains, MainStates
  <2>5. MainNamed'
    <3>1. NameOf(main.process)' = MAIN
      BY <2>4 DEF NameOf, MainConsole
    <3>2. Bears(c, MAIN)'
      BY <2>2, <2>3 DEF Bears, NameOf
    <3>3. Bears(main.console, NameOf(main.process))'
      BY <2>4, <3>1, <3>2 DEF Bears, NameOf
    <3> QED
      BY <1>1, <2>2, <2>3, <2>4, <3>3 DEF MainNamed
  <2>6. FairIsShown'
    BY <2>2, <2>4, AskedIsFair
  <2> QED
    BY <1>1, <2>2, <2>4, <2>5, <2>6, MainMoves
<1>6. CASE Draw
  <2>1. /\ UNCHANGED <<initialized, scheduler, processId, populationVars, consoleVars>>
        /\ UNCHANGED <<processes, populator, screenSessions, screenProcesses, currentConsole>>
    BY <1>6 DEF Draw, populationVars, consoleVars
  <2>2. /\ main' \in Mains /\ main'.at \in {"prompt", "session"}
        /\ main'.process \in {0, main.process} /\ main'.settled = {}
        /\ main'.console \in {0, main.console}
    <3>1. CASE main.process = MainConsole
      <4>1. main' = Prompt
        BY <1>6, <3>1 DEF Draw
      <4> QED
        BY <4>1 DEF Prompt, MainConsole, Mains, MainStates
    <3>2. CASE main.process # MainConsole
      <4>1. main' = [main EXCEPT !.at = "session", !.settled = {}]
        BY <1>6, <3>2 DEF Draw
      <4> QED
        BY <1>1, <4>1 DEF ShellTyped, Mains, MainStates
    <3> QED
      BY <3>1, <3>2
  <2>3. MainNamed'
    BY <1>1, <2>1, <2>2 DEF ScreenInv, MainNamed
  <2>4. FairIsShown'
    BY <2>2 DEF FairIsShown, Asked
  <2> QED
    BY <1>1, <2>1, <2>2, <2>3, <2>4, MainMoves
<1>7. CASE Exit
  <2>1. /\ main' = [main EXCEPT !.at = "exited"]
        /\ UNCHANGED <<initialized, scheduler, processId, populationVars, consoleVars>>
        /\ UNCHANGED <<processes, populator, screenSessions, screenProcesses, currentConsole>>
    BY <1>7 DEF Exit, populationVars, consoleVars
  <2>2. /\ main' \in Mains /\ main'.at = "exited"
        /\ main'.process = main.process /\ main'.console = main.console
        /\ main'.settled = main.settled
    BY <1>1, <2>1, MainIsRecord DEF MainStates
  <2>3. MainNamed'
    BY <2>1, <2>2 DEF ScreenInv, MainNamed
  <2>4. FairIsShown'
    BY <2>2 DEF FairIsShown, Asked
  <2> QED
    BY <1>1, <2>1, <2>2, <2>3, <2>4, MainMoves
<1> QED
  BY <1>2, <1>3, <1>4, <1>5, <1>6, <1>7

\* At first there is the main console, and no process.
LEMMA ScreensInitially == Init => ScreenInv
<1> SUFFICES ASSUME Init PROVE ScreenInv
  OBVIOUS
<1>1. /\ screenSessions = [name \in {MAIN} |-> 0] /\ DOMAIN screenSessions = {MAIN}
      /\ DOMAIN screenProcesses = {} /\ currentConsole = 0
      /\ main = [at |-> "prompt", process |-> 0, console |-> 0, settled |-> {}]
      /\ processes = << >> /\ Len(processes) = 0
      /\ handed = << >> /\ Len(handed) = 0
      /\ populator = [t \in Populators |-> Idle]
      /\ populate_running = FALSE /\ processCounter = 0
  BY DEF Init, ConsoleInit, PopulationInit, Prompt, MainConsole
<1>2. Idle \in Threads
  BY DEF Idle, PopulatorStates, Threads, MainConsole
<1>3. main \in Mains
  BY <1>1 DEF Mains, MainStates
<1>4. ShellTyped
  BY <1>1, <1>2, <1>3, EmptySeq DEF ShellTyped, Init
<1>5. ScreensNamed
  BY <1>1 DEF ScreensNamed, Bears, NameOf, MainConsole
<1>6. ThreadsNamed
  <2>1. 0 <= MaxIns
    BY PopulationAssumption
  <2> QED
    BY <1>1, <2>1 DEF ThreadsNamed, Holding, Showing, Filling, At, Idle, MainConsole
<1>7. MainNamed /\ Counted /\ FairIsShown
  BY <1>1 DEF MainNamed, Counted, FairIsShown, Asked
<1> QED
  BY <1>4, <1>5, <1>6, <1>7 DEF ScreenInv

\* Every step of any user and of the threads keeps screens and types.
LEMMA ScreensNext ==
  ASSUME ScreenInv, [Next]_vars
  PROVE  ScreenInv'
<1>1. ASSUME UNCHANGED <<processCounter, processes, handed, populator, processId, main,
                         consoleVars>>,
             populate_running' \in BOOLEAN, initialized' \in BOOLEAN,
             scheduler' \in Schedulers \cup {"none"}
      PROVE  ScreenInv'
  <2>1. ShellTyped' /\ Counted' /\ NamesKept
    BY <1>1, ProcessFields DEF ScreenInv, ShellTyped, Counted, NamesKept
  <2> QED
    BY <1>1, <2>1, ScreensUntouched DEF ScreenInv, consoleVars
<1>2. CASE UNCHANGED vars
  BY <1>1, <1>2 DEF vars, shellVars, populationVars, ScreenInv, ShellTyped
<1>3. ASSUME NEW kind \in Configured, initialize(kind) PROVE ScreenInv'
  BY <1>1, <1>3 DEF initialize, Created, populationVars, ScreenInv, ShellTyped
<1>4. CASE schedulerStop
  BY <1>1, <1>4 DEF schedulerStop, shellVars, ScreenInv, ShellTyped
<1>5. ASSUME NEW t \in Populators, schedulerStart(t) PROVE ScreenInv'
  <2>1. /\ Goto(t, "loop") /\ ShellTyped /\ populate_running'
        /\ UNCHANGED <<shellVars, processCounter, processes, handed, consoleVars>>
    BY <1>5 DEF schedulerStart, ScreenInv
  <2>2. /\ populator' \in [Populators -> Threads]
        /\ populator'[t].pc = "loop"
        /\ populator'[t].process = populator[t].process
        /\ populator'[t].console = populator[t].console
        /\ populator'[t].numInstructions = populator[t].numInstructions
        /\ \A u \in Populators \ {t} : populator'[u] = populator[u]
    BY <2>1, GotoChanges DEF PopulatorStates
  <2>3. ScreensNamed' /\ ThreadsNamed' /\ MainNamed' /\ FairIsShown'
    BY <2>1, <2>2, OwnStep DEF shellVars, consoleVars, Filling
  <2>4. ShellTyped' /\ Counted'
    BY <1>5, <2>1, <2>2 DEF schedulerStart, shellVars, ScreenInv, ShellTyped, Counted
  <2> QED
    BY <2>3, <2>4 DEF ScreenInv
<1>6. ASSUME NEW t \in Populators, PopulatorRuns(t) PROVE ScreenInv'
  BY <1>6, PopulatorKeepsScreens DEF PopulatorRuns
<1> QED
  BY <1>2, <1>3, <1>4, <1>5, <1>6, MakeProcessKeepsScreens, EnterScreenKeepsScreens,
     RecordProcessKeepsScreens, CommandsKeepScreens DEF Next

-------------------------------------------------------------------------------
(* The theorems about every user *)

\* However the commands of the user fall between the steps of the populate threads.
THEOREM ScreenInvariant == Spec => []ScreenInv
BY ScreensInitially, ScreensNext, PTL DEF Spec

\* A list is one of every set that its elements are from.
LEMMA ListOfElements ==
  ASSUME NEW S, NEW T, NEW s \in Seq(S), \A i \in 1..Len(s) : s[i] \in T
  PROVE  s \in Seq(T)
<1>1. Len(s) \in Nat /\ s \in [1..Len(s) -> S]
  BY LenProperties
<1>2. s \in [1..Len(s) -> T]
  BY <1>1
<1> QED
  BY <1>1, <1>2, SeqDef

\* screen -r never opens a console that there is not, and no process has more
\* than max-ins instructions, whatever the threads and the commands do between
\* the accesses of addNewScreen (main.cpp:135-139).
THEOREM ShellTypeCorrect == Spec => []TypeOK
<1>1. ScreenInv => TypeOK
  <2> SUFFICES ASSUME ScreenInv PROVE TypeOK
    OBVIOUS
  <2> DEFINE Made == [name : Names, id : Nat, instructions : 0..MaxIns, byUser : BOOLEAN]
  <2>1. ShellTyped /\ Len(processes) \in Nat /\ MaxIns \in Nat
    BY ProcessFields, PopulationAssumption DEF ScreenInv
  <2>2. processes \in Seq(Made)
    <3>1. \A k \in 1..Len(processes) : processes[k] \in Made
      <4> SUFFICES ASSUME NEW k \in 1..Len(processes) PROVE processes[k] \in Made
        OBVIOUS
      <4>1. processes[k] \in MadeProcesses /\ processes[k].instructions \in Nat
        BY <2>1, ProcessFields
      <4>2. processes[k].instructions <= MaxIns
        BY DEF ScreenInv, Counted
      <4>3. processes[k].instructions \in 0..MaxIns
        BY <2>1, <4>1, <4>2
      <4> QED
        BY <4>1, <4>3 DEF MadeProcesses
    <3> QED
      BY <2>1, <3>1, ListOfElements DEF ShellTyped
  <2>3. handed \in Seq(1..Len(processes))
    BY <2>1, ListOfElements DEF ShellTyped, ScreenInv, Counted
  <2>4. /\ DOMAIN screenProcesses \cup {MAIN} \subseteq DOMAIN screenSessions
        /\ \A name \in DOMAIN screenSessions : screenSessions[name] \in 0..Len(processes)
        /\ \A name \in DOMAIN screenProcesses : screenProcesses[name] \in 1..Len(processes)
        /\ currentConsole \in 0..Len(processes)
    BY DEF ScreenInv, ScreensNamed, Bears
  <2>5. main \in [at : MainStates, process : 0..Len(processes), console : 0..Len(processes),
                  settled : SUBSET (0..Len(processes))]
    <3>1. main \in Mains /\ main.process \in 0..Len(processes) /\ main.console \in 0..Len(processes)
          /\ main.settled \subseteq 0..Len(processes)
      BY <2>1, MainFields DEF ShellTyped, ScreenInv, MainNamed
    <3> QED
      BY <3>1 DEF Mains
  <2>6. ASSUME NEW t \in Populators
        PROVE  populator[t] \in [pc : PopulatorStates, name : Nat, id : Nat,
                                 process : 0..Len(processes), console : 0..Len(processes),
                                 numInstructions : 0..MaxIns]
    <3>1. /\ populator[t] \in Threads /\ populator[t].process \in Nat
          /\ populator[t].console \in Nat /\ populator[t].numInstructions \in Nat
      BY <2>1, ThreadFields
    <3>2. /\ populator[t].process \in 0..Len(processes)
          /\ populator[t].console \in 0..Len(processes)
          /\ populator[t].numInstructions \in 0..MaxIns
      BY <2>1, <3>1 DEF ScreenInv, ThreadsNamed
    <3> QED
      BY <3>1, <3>2 DEF Threads
  <2> QED
    BY <2>1, <2>2, <2>3, <2>4, <2>5, <2>6 DEF TypeOK, ShellTyped, PopulatorStates, MainStates
<1> QED
  BY <1>1, ScreenInvariant, PTL

\* screen -r, screen -s and exit draw a screen of the name they were given, or one
\* that a populate thread was at or came to while they were at it (main.cpp:134-140,
\* 150-153).
THEOREM DrawnIsCurrent == Spec => DrawsWhatWasAsked
<1>1. ScreenInv /\ Draw => \/ NameOf(currentConsole) = NameOf(main.process)
                           \/ currentConsole \notin main.settled
  BY DEF ScreenInv, FairIsShown, Asked, Fair, Draw
<1> QED
  BY <1>1, ScreenInvariant, PTL DEF DrawsWhatWasAsked, Spec

-------------------------------------------------------------------------------
(* What a scheduler may rely on, if the user is patient *)

Runs(t) == populator[t].pc \notin {"idle", "done"}

\* Process k was made by populateProcesses.
Populated(k) == k \in 1..Len(processes) /\ ~processes[k].byUser

\* Without a scheduler no populate thread has been started.
StartedWithScheduler == scheduler = "none" => \A t \in Populators : populator[t].pc = "idle"

OneRuns == \A t, u \in Populators : Runs(t) /\ Runs(u) => t = u

\* The counter is ahead of the ids given, by one where the next is given.
CounterAhead ==
  /\ \A k \in 1..Len(processes) : Populated(k) => processes[k].id <= processCounter
  /\ \A t \in Populators :
       /\ populator[t].pc = "counting" => populator[t].name = processCounter
       /\ populator[t].pc = "naming" =>
            \A k \in 1..Len(processes) : Populated(k) => processes[k].id < processCounter
       /\ populator[t].pc = "entering" =>
            /\ populator[t].id = processCounter
            /\ \A k \in 1..Len(processes) : Populated(k) => processes[k].id < processCounter

IdsDiffer ==
  \A j, k \in 1..Len(processes) :
    Populated(j) /\ Populated(k) /\ processes[j].id = processes[k].id => j = k

HandedOnce ==
  /\ \A i \in 1..Len(handed) : Populated(handed[i])
  /\ \A i, j \in 1..Len(handed) : handed[i] = handed[j] => i = j
  /\ \A t \in Populators : Holding(t) =>
       /\ Populated(populator[t].process)
       /\ \A i \in 1..Len(handed) : handed[i] # populator[t].process

\* A thread that is about to hand over its process has filled it.
HandedFilled ==
  /\ \A i \in 1..Len(handed) : processes[handed[i]].instructions >= MinIns
  /\ \A t \in Populators :
       /\ Filling(t) => populator[t].numInstructions >= MinIns
       /\ populator[t].pc = "handing" \/ (populator[t].pc = "filled" /\ populate_running) =>
            processes[populator[t].process].instructions >= MinIns

PopulationInv ==
  /\ StartedWithScheduler
  /\ OneRuns
  /\ CounterAhead
  /\ IdsDiffer
  /\ HandedOnce
  /\ HandedFilled

\* At first no thread has been started and there is no process.
LEMMA PopulationInitially == Init => PopulationInv
<1> SUFFICES ASSUME Init
             PROVE  PopulationInv
  OBVIOUS
<1>1. /\ \A t \in Populators : populator[t].pc = "idle"
      /\ Len(processes) = 0
      /\ Len(handed) = 0
  BY DEF Init, PopulationInit, Idle
<1>2. \A t \in Populators : ~Holding(t) /\ ~Filling(t) /\ ~Runs(t)
  BY <1>1 DEF Holding, Showing, Filling, Runs
<1> QED
  BY <1>1, <1>2 DEF PopulationInv, StartedWithScheduler, OneRuns, CounterAhead, IdsDiffer,
                    HandedOnce, HandedFilled

\* What all parts of the invariant read: they hold on if none of it changes.
LEMMA PopulationUntouched ==
  ASSUME PopulationInv,
         UNCHANGED <<processCounter, processes, handed, populator>>,
         populate_running' => populate_running,
         scheduler' = "none" => scheduler = "none"
  PROVE  PopulationInv'
BY DEF PopulationInv, StartedWithScheduler, OneRuns, Runs, CounterAhead, Populated, IdsDiffer,
       HandedOnce, HandedFilled, Holding, Showing, Filling

\* initialize may replace the scheduler, but never takes it away.
LEMMA InitializeKeeps ==
  ASSUME NEW kind, PopulationInv, initialize(kind)
  PROVE  PopulationInv'
<1>1. scheduler' = "none" => scheduler = "none"
  BY DEF initialize, Created, Schedulers
<1> QED
  BY <1>1, PopulationUntouched DEF initialize, populationVars

\* The only step that sets populate_running: the user has waited for the thread before.
LEMMA StartKeeps ==
  ASSUME NEW t \in Populators, ShellTyped, PopulationInv, schedulerStart(t), NoPopulatorRuns
  PROVE  PopulationInv'
<1>1. /\ UNCHANGED <<processCounter, processes, handed, scheduler>>
      /\ scheduler # "none"
      /\ populate_running'
  BY DEF schedulerStart, shellVars, MayStart
<1>2. /\ populator'[t].pc = "loop"
      /\ \A u \in Populators \ {t} : populator'[u] = populator[u]
      /\ \A u \in Populators \ {t} : populator[u].pc \in {"idle", "done"}
  BY GotoChanges DEF schedulerStart, NoPopulatorRuns, At, PopulatorStates
<1>3. StartedWithScheduler' /\ OneRuns'
  BY <1>1, <1>2 DEF StartedWithScheduler, OneRuns, Runs
<1>4. CounterAhead' /\ IdsDiffer'
  BY <1>1, <1>2 DEF PopulationInv, CounterAhead, IdsDiffer, Populated
<1>5. \A u \in Populators : ~Holding(u)' /\ ~Filling(u)'
  BY <1>2 DEF Holding, Showing, Filling
<1>6. HandedOnce' /\ HandedFilled'
  BY <1>1, <1>2, <1>5 DEF PopulationInv, HandedOnce, HandedFilled, Populated
<1> QED
  BY <1>3, <1>4, <1>6 DEF PopulationInv

-------------------------------------------------------------------------------
(* The steps of populateProcesses *)

\* While a thread runs there is a scheduler, and no other thread runs.
LEMMA RunnerAlone ==
  ASSUME NEW t \in Populators, PopulationInv, Runs(t), UNCHANGED shellVars,
         \A u \in Populators \ {t} : populator'[u] = populator[u]
  PROVE  /\ StartedWithScheduler'
         /\ OneRuns'
         /\ \A u \in Populators \ {t} :
              /\ populator[u].pc \in {"idle", "done"} /\ populator'[u].pc \in {"idle", "done"}
              /\ ~Holding(u)' /\ ~Filling(u)'
<1>1. scheduler # "none" /\ scheduler' = scheduler
  BY DEF PopulationInv, StartedWithScheduler, Runs, shellVars
<1>2. \A u \in Populators \ {t} : populator[u].pc \in {"idle", "done"}
  BY DEF PopulationInv, OneRuns, Runs
<1>3. \A u \in Populators \ {t} : ~Holding(u)' /\ ~Filling(u)'
  BY <1>2 DEF Holding, Showing, Filling
<1> QED
  BY <1>1, <1>2, <1>3 DEF StartedWithScheduler, OneRuns, Runs

\* A step on its own state of a thread that is neither about to take an id nor about
\* to hand over a process.
LEMMA RunnerMoves ==
  ASSUME NEW t \in Populators, PopulationInv, Runs(t), UNCHANGED shellVars,
         UNCHANGED <<populate_running, processCounter, processes, handed>>,
         \A u \in Populators \ {t} : populator'[u] = populator[u],
         populator'[t].pc \notin {"naming", "entering"},
         populator'[t].pc = "counting" => populator'[t].name = processCounter,
         Holding(t)' => Holding(t) /\ populator'[t].process = populator[t].process,
         Filling(t)' => populator'[t].numInstructions >= MinIns,
         populator'[t].pc = "handing" \/ (populator'[t].pc = "filled" /\ populate_running) =>
           processes[populator[t].process].instructions >= MinIns
           /\ populator'[t].process = populator[t].process
  PROVE  PopulationInv'
<1>1. /\ StartedWithScheduler'
      /\ OneRuns'
      /\ \A u \in Populators \ {t} :
           populator'[u].pc \in {"idle", "done"} /\ ~Holding(u)' /\ ~Filling(u)'
  BY RunnerAlone
<1>2. CounterAhead' /\ IdsDiffer'
  BY <1>1 DEF PopulationInv, CounterAhead, IdsDiffer, Populated
<1>3. HandedOnce'
  BY <1>1 DEF PopulationInv, HandedOnce, Populated
<1>4. HandedFilled'
  BY <1>1 DEF PopulationInv, HandedFilled
<1> QED
  BY <1>1, <1>2, <1>3, <1>4 DEF PopulationInv

\* The thread reads the flag and the counter.
LEMMA BeginRoundKeeps ==
  ASSUME NEW t \in Populators, ShellTyped, PopulationInv, BeginRound(t), UNCHANGED shellVars
  PROVE  PopulationInv'
<1>1. /\ UNCHANGED <<populate_running, processCounter, processes, handed>>
      /\ Runs(t)
  BY DEF BeginRound, At, Runs
<1>2. /\ \/ populator'[t].pc = "counting" /\ populator'[t].name = processCounter
         \/ populator'[t].pc = "done"
      /\ \A u \in Populators \ {t} : populator'[u] = populator[u]
  BY RoundBegun
<1> QED
  BY <1>1, <1>2, RunnerMoves DEF Holding, Showing, Filling

\* The counter goes beyond every id given.
LEMMA WriteCounterKeeps ==
  ASSUME NEW t \in Populators, ShellTyped, PopulationInv, WriteCounter(t), UNCHANGED shellVars
  PROVE  PopulationInv'
<1>1. /\ UNCHANGED <<populate_running, processes, handed>>
      /\ Runs(t)
      /\ populator[t].name = processCounter
      /\ processCounter' = processCounter + 1
      /\ processCounter \in Nat
  BY DEF WriteCounter, NextCount, At, ShellTyped, PopulationInv, CounterAhead, Runs
<1>2. /\ populator'[t].pc = "naming"
      /\ \A u \in Populators \ {t} : populator'[u] = populator[u]
  BY GotoChanges DEF WriteCounter, PopulatorStates
<1>3. /\ StartedWithScheduler'
      /\ OneRuns'
      /\ \A u \in Populators \ {t} :
           populator'[u].pc \in {"idle", "done"} /\ ~Holding(u)' /\ ~Filling(u)'
  BY <1>1, <1>2, RunnerAlone
<1>4. CounterAhead'
  <2>1. \A k \in 1..Len(processes) :
          Populated(k) => processes[k].id < processCounter' /\ processes[k].id <= processCounter'
    BY <1>1, ProcessFields DEF PopulationInv, CounterAhead
  <2> QED
    BY <1>1, <1>2, <1>3, <2>1 DEF CounterAhead, Populated
<1>5. ~Holding(t)' /\ ~Filling(t)'
  BY <1>2 DEF Holding, Showing, Filling
<1>6. IdsDiffer' /\ HandedOnce' /\ HandedFilled'
  BY <1>1, <1>2, <1>3, <1>5, SMTT(30)
  DEF PopulationInv, IdsDiffer, HandedOnce, HandedFilled, Populated
<1> QED
  BY <1>3, <1>4, <1>6 DEF PopulationInv

\* The thread takes an id that the counter had not reached before.
LEMMA CreateProcessKeeps ==
  ASSUME NEW t \in Populators, ShellTyped, PopulationInv, CreateProcess(t), UNCHANGED shellVars
  PROVE  PopulationInv'
<1>1. /\ UNCHANGED <<populate_running, processCounter, processes, handed>>
      /\ Runs(t) /\ populator[t].pc = "naming"
  BY DEF CreateProcess, At, Runs
<1>2. /\ populator'[t].pc = "entering"
      /\ populator'[t].id = processCounter
      /\ \A u \in Populators \ {t} : populator'[u] = populator[u]
  BY IdTaken
<1>3. /\ StartedWithScheduler'
      /\ OneRuns'
      /\ \A u \in Populators \ {t} :
           populator'[u].pc \in {"idle", "done"} /\ ~Holding(u)' /\ ~Filling(u)'
  BY <1>1, <1>2, RunnerAlone
<1>4. CounterAhead' /\ IdsDiffer'
  BY <1>1, <1>2, <1>3 DEF PopulationInv, CounterAhead, IdsDiffer, Populated
<1>5. ~Holding(t)' /\ ~Filling(t)'
  BY <1>2 DEF Holding, Showing, Filling
<1>6. HandedOnce' /\ HandedFilled'
  BY <1>1, <1>2, <1>3, <1>5 DEF PopulationInv, HandedOnce, HandedFilled, Populated
<1> QED
  BY <1>3, <1>4, <1>6 DEF PopulationInv

\* The new process has that id.
LEMMA AddSessionKeeps ==
  ASSUME NEW t \in Populators, ScreenInv, PopulationInv, AddSession(t), UNCHANGED shellVars
  PROVE  PopulationInv'
<1>p. PICK p : p = Len(processes) + 1
  OBVIOUS
<1>1. /\ UNCHANGED <<populate_running, processCounter, handed>>
      /\ ShellTyped /\ processCounter \in Nat
      /\ populator[t].pc = "entering" /\ Runs(t)
      /\ populator[t].id = processCounter
  BY DEF AddSession, At, Runs, ScreenInv, ShellTyped, PopulationInv, CounterAhead
<1>2. /\ Len(processes') = p
      /\ p \in 1..p
      /\ \A k \in 1..Len(processes) : processes'[k] = processes[k]
      /\ \A k \in 1..p : k \in 1..Len(processes) \/ k = p
      /\ \A k \in 1..Len(processes) : k \in 1..p /\ k < p /\ k # p
      /\ processes'[p].id = processCounter
      /\ ~processes'[p].byUser
      /\ populator'[t].pc = "recording"
      /\ populator'[t].process = p
      /\ \A u \in Populators \ {t} : populator'[u] = populator[u]
  BY <1>p, <1>1, SessionAdded
<1> HIDE <1>p
<1>3. /\ StartedWithScheduler'
      /\ OneRuns'
      /\ \A u \in Populators \ {t} :
           populator'[u].pc \in {"idle", "done"} /\ ~Holding(u)' /\ ~Filling(u)'
  BY <1>1, <1>2, RunnerAlone
<1>4. /\ \A k \in 1..Len(processes) : Populated(k)' <=> Populated(k)
      /\ Populated(p)'
      /\ \A k : Populated(k)' => k \in 1..Len(processes) \/ k = p
      /\ \A k : Populated(k) => k \in 1..Len(processes)
  <2>1. \A k \in 1..Len(processes) : Populated(k)' <=> Populated(k)
    BY <1>2 DEF Populated
  <2>2. p \in 1..Len(processes')
    BY <1>2
  <2>3. Populated(p)'
    BY <1>2, <2>2 DEF Populated
  <2> QED
    BY <1>2, <2>1, <2>3 DEF Populated
<1>5. \A k \in 1..Len(processes) : Populated(k) => processes[k].id < processCounter
  BY <1>1 DEF PopulationInv, CounterAhead
<1>6. CounterAhead'
  <2>1. \A k \in 1..Len(processes') : Populated(k)' => processes'[k].id <= processCounter
    BY <1>1, <1>2, <1>4, <1>5, ProcessFields
  <2> QED
    BY <1>1, <1>2, <1>3, <2>1 DEF CounterAhead
<1>7. IdsDiffer'
  <2>1. \A k \in 1..Len(processes) : processes[k].id \in Nat
    BY <1>1, ProcessFields
  <2>2. \A k \in 1..Len(processes) : Populated(k) => processes[k].id # processCounter
    BY <1>1, <1>5, <2>1
  <2> QED
    BY <1>2, <1>4, <2>2 DEF PopulationInv, IdsDiffer
<1>8. HandedOnce'
  <2>2. \A i, j \in 1..Len(handed) : handed[i] = handed[j] => i = j
    BY DEF PopulationInv, HandedOnce
  <2>4. \A i \in 1..Len(handed') : Populated(handed[i])'
    <3>1. ASSUME NEW i \in 1..Len(handed') PROVE Populated(handed[i])'
      <4>1. PICK k : k = handed[i]
        OBVIOUS
      <4>2. Populated(k)'
        BY <1>1, <1>4, <4>1 DEF PopulationInv, HandedOnce
      <4> QED
        BY <1>1, <4>1, <4>2 DEF Populated
    <3> QED
      BY <3>1
  <2>5. Populated(populator[t].process)'
    BY <1>2, <1>4 DEF Populated
  <2>6. \A i \in 1..Len(handed) : handed[i] # p
    BY <1>2, <1>4 DEF PopulationInv, HandedOnce
  <2> QED
    BY <1>1, <1>2, <1>3, <2>2, <2>4, <2>5, <2>6 DEF HandedOnce
<1>9. HandedFilled'
  <2>1. \A i \in 1..Len(handed) : handed[i] \in 1..Len(processes)
    BY <1>4 DEF PopulationInv, HandedOnce
  <2>2. ~Filling(t)'
    BY <1>2 DEF Filling
  <2> QED
    BY <1>1, <1>2, <1>3, <2>1, <2>2 DEF PopulationInv, HandedFilled
<1> QED
  BY <1>3, <1>6, <1>7, <1>8, <1>9 DEF PopulationInv

\* The number of instructions asked for is enough, and nothing else of this changes.
LEMMA ShowingKeeps ==
  ASSUME NEW t \in Populators, ScreenInv, PopulationInv,
         AddScreenProcess(t) \/ ReadSession(t) \/ ShowScreen(t), UNCHANGED shellVars
  PROVE  PopulationInv'
<1>1. /\ ShellTyped
      /\ UNCHANGED <<populate_running, processCounter, processes, handed>>
      /\ Runs(t) /\ Showing(t) /\ Holding(t)
  BY DEF ScreenInv, AddScreenProcess, ReadSession, ShowScreen, At, Runs, Showing, Holding
<1>2. CASE AddScreenProcess(t)
  <2>1. /\ populator'[t].pc = "showing"
        /\ populator'[t].process = populator[t].process
        /\ \A u \in Populators \ {t} : populator'[u] = populator[u]
    BY <1>1, <1>2, GotoChanges DEF AddScreenProcess, PopulatorStates
  <2> QED
    BY <1>1, <2>1, RunnerMoves DEF Filling
<1>3. CASE ReadSession(t)
  <2>1. screenSessions[populator[t].name] \in Nat
    BY <1>1, ConsolesAreNumbers DEF ScreenInv, ThreadsNamed
  <2>2. /\ populator'[t].pc = "setting"
        /\ populator'[t].process = populator[t].process
        /\ \A u \in Populators \ {t} : populator'[u] = populator[u]
    BY <1>1, <1>3, <2>1, SessionRead
  <2> QED
    BY <1>1, <2>2, RunnerMoves DEF Filling
<1>4. CASE ShowScreen(t)
  <2>1. /\ populator'[t].pc = "filling"
        /\ populator'[t].process = populator[t].process
        /\ populator'[t].numInstructions >= MinIns
        /\ \A u \in Populators \ {t} : populator'[u] = populator[u]
    BY <1>1, <1>4, ScreenShown
  <2> QED
    BY <1>1, <2>1, RunnerMoves
<1> QED
  BY <1>2, <1>3, <1>4

\* One process has one instruction more.
LEMMA AddInstructionKeeps ==
  ASSUME NEW t \in Populators, ScreenInv, PopulationInv, AddInstruction(t), UNCHANGED shellVars
  PROVE  PopulationInv'
<1>1. PICK p : p = populator[t].process
  OBVIOUS
<1>2. /\ UNCHANGED <<populate_running, processCounter, handed, populator, scheduler>>
      /\ ShellTyped
      /\ p \in 1..Len(processes)
  BY <1>1
  DEF AddInstruction, At, shellVars, ScreenInv, ThreadsNamed, Holding, Filling
<1>3. /\ Len(processes') = Len(processes)
      /\ processes'[p].instructions = processes[p].instructions + 1
      /\ \A k \in 1..Len(processes) :
           /\ processes'[k].id = processes[k].id
           /\ processes'[k].byUser = processes[k].byUser
           /\ k # p => processes'[k] = processes[k]
  BY <1>1, <1>2, InstructionAdded
<1>4. \A k \in 1..Len(processes) :
        processes[k].instructions >= MinIns => processes'[k].instructions >= MinIns
  BY <1>2, <1>3, ProcessFields, PopulationAssumption
<1>5. \A k : Populated(k)' <=> Populated(k)
  BY <1>3 DEF Populated
<1>6. StartedWithScheduler' /\ OneRuns'
  BY <1>2 DEF PopulationInv, StartedWithScheduler, OneRuns, Runs
<1>7. CounterAhead' /\ IdsDiffer'
  BY <1>2, <1>3, <1>5 DEF PopulationInv, CounterAhead, IdsDiffer
<1>8. HandedOnce' /\ HandedFilled'
  BY <1>2, <1>3, <1>4
  DEF PopulationInv, HandedOnce, HandedFilled, Holding, Showing, Filling, Populated
<1> QED
  BY <1>6, <1>7, <1>8 DEF PopulationInv

\* Unless the flag was cleared, the process is filled.
LEMMA EndFillingKeeps ==
  ASSUME NEW t \in Populators, ShellTyped, PopulationInv, EndFilling(t), UNCHANGED shellVars
  PROVE  PopulationInv'
<1>1. /\ UNCHANGED <<populate_running, processCounter, processes, handed>>
      /\ Runs(t) /\ Filling(t) /\ Holding(t)
  BY DEF EndFilling, At, Runs, Filling, Holding
<1>2. /\ populator'[t].pc = "filled"
      /\ populator'[t].process = populator[t].process
      /\ populator'[t].numInstructions = populator[t].numInstructions
      /\ \A u \in Populators \ {t} : populator'[u] = populator[u]
  BY GotoChanges DEF EndFilling, PopulatorStates
<1>3. populate_running => processes[populator[t].process].instructions >= MinIns
  <2>1. /\ populator[t].process \in 1..Len(processes)
        /\ populator[t].numInstructions >= MinIns
    BY <1>1 DEF PopulationInv, HandedOnce, HandedFilled, Populated
  <2>2. /\ processes[populator[t].process].instructions \in Nat
        /\ populator[t].numInstructions \in Nat
        /\ MinIns \in Nat
    BY <2>1, ProcessFields, ThreadFields, PopulationAssumption
  <2>3. populate_running =>
          processes[populator[t].process].instructions >= populator[t].numInstructions
    BY DEF EndFilling, Filled
  <2> QED
    BY <2>1, <2>2, <2>3
<1>4. populator[t].numInstructions >= MinIns
  BY <1>1 DEF PopulationInv, HandedFilled
<1> QED
  BY <1>1, <1>2, <1>3, <1>4, RunnerMoves

\* Only a filled process passes the test, for the flag has been set all along.
LEMMA TestBeforeHandingKeeps ==
  ASSUME NEW t \in Populators, ShellTyped, PopulationInv, TestBeforeHanding(t),
         UNCHANGED shellVars
  PROVE  PopulationInv'
<1>1. /\ UNCHANGED <<populate_running, processCounter, processes, handed>>
      /\ populator[t].pc = "filled"
      /\ Runs(t) /\ Filling(t) /\ Holding(t)
  BY DEF TestBeforeHanding, At, Runs, Filling, Holding
<1>2. PICK state : state = IF populate_running THEN "handing" ELSE "loop"
  OBVIOUS
<1>3. Goto(t, state) /\ state \in PopulatorStates
  BY <1>2 DEF TestBeforeHanding, PopulatorStates
<1>4. /\ populator'[t].pc = state
      /\ populator'[t].process = populator[t].process
      /\ populator'[t].numInstructions = populator[t].numInstructions
      /\ \A u \in Populators \ {t} : populator'[u] = populator[u]
  BY <1>3, GotoChanges
<1>5. /\ populator[t].numInstructions >= MinIns
      /\ populate_running => processes[populator[t].process].instructions >= MinIns
  BY <1>1 DEF PopulationInv, HandedFilled
<1> QED
  BY <1>1, <1>2, <1>4, <1>5, RunnerMoves

\* The process handed over is the one the thread holds, which is not yet handed.
LEMMA HandOverKeeps ==
  ASSUME NEW t \in Populators, ShellTyped, PopulationInv, HandOver(t), UNCHANGED shellVars
  PROVE  PopulationInv'
<1>p. PICK p : p = populator[t].process
  OBVIOUS
<1>1. /\ UNCHANGED <<populate_running, processCounter, processes>>
      /\ populator[t].pc = "handing" /\ Runs(t) /\ Holding(t)
      /\ p \in Nat
      /\ handed' = Append(handed, p)
  BY <1>p, ThreadFields DEF HandOver, At, Runs, Holding, Filling
<1>2. /\ populator'[t].pc = "loop"
      /\ \A u \in Populators \ {t} : populator'[u] = populator[u]
  BY GotoChanges DEF HandOver, PopulatorStates
<1>3. /\ StartedWithScheduler'
      /\ OneRuns'
      /\ \A u \in Populators \ {t} :
           populator'[u].pc \in {"idle", "done"} /\ ~Holding(u)' /\ ~Filling(u)'
  BY <1>1, <1>2, RunnerAlone
<1>4. /\ Populated(p)
      /\ \A i \in 1..Len(handed) : handed[i] # p
      /\ processes[p].instructions >= MinIns
  BY <1>p, <1>1 DEF PopulationInv, HandedOnce, HandedFilled
<1>5. /\ \A i \in 1..Len(handed) : handed'[i] = handed[i]
      /\ handed'[Len(handed) + 1] = p
      /\ \A i \in 1..Len(handed') : i \in 1..Len(handed) \/ i = Len(handed) + 1
  <2>1. handed \in Seq(Nat) /\ Len(handed) \in Nat
    BY ProcessFields DEF ShellTyped
  <2>2. /\ Len(handed') = Len(handed) + 1
        /\ \A i \in 1..Len(handed) : handed'[i] = handed[i]
        /\ handed'[Len(handed) + 1] = p
    BY <1>1, <2>1, AppendProperties
  <2> QED
    BY <2>1, <2>2
<1>6. CounterAhead' /\ IdsDiffer'
  BY <1>1, <1>2, <1>3 DEF PopulationInv, CounterAhead, IdsDiffer, Populated
<1>7. ~Holding(t)' /\ ~Filling(t)'
  BY <1>2 DEF Holding, Showing, Filling
<1>8. HandedOnce'
  <2>1. \A i \in 1..Len(handed') : Populated(handed'[i])
    BY <1>4, <1>5 DEF PopulationInv, HandedOnce
  <2>2. \A i, j \in 1..Len(handed') : handed'[i] = handed'[j] => i = j
    BY <1>4, <1>5 DEF PopulationInv, HandedOnce
  <2> QED
    BY <1>1, <1>3, <1>7, <2>1, <2>2 DEF HandedOnce, Populated
<1>9. HandedFilled'
  <2>1. \A i \in 1..Len(handed') : processes[handed'[i]].instructions >= MinIns
    BY <1>4, <1>5 DEF PopulationInv, HandedFilled
  <2> QED
    BY <1>1, <1>2, <1>3, <1>7, <2>1 DEF HandedFilled
<1> QED
  BY <1>3, <1>6, <1>8, <1>9 DEF PopulationInv

-------------------------------------------------------------------------------
(* screen -s, whose processes have ids of their own and are never handed over *)

\* A process of screen -s is none of populateProcesses.
LEMMA MakeProcessKeeps ==
  ASSUME NEW name \in UserNames, ShellTyped, PopulationInv, MakeProcess(name)
  PROVE  PopulationInv'
<1>p. PICK p : p = Len(processes) + 1
  OBVIOUS
<1>1. UNCHANGED <<populate_running, processCounter, handed, populator, scheduler>>
  BY DEF MakeProcess
<1>2. /\ Len(processes') = p
      /\ \A k \in 1..Len(processes) : processes'[k] = processes[k]
      /\ \A k \in 1..p : k \in 1..Len(processes) \/ k = p
      /\ \A k \in 1..Len(processes) : k \in 1..p /\ k # p
      /\ processes'[p].byUser
  BY <1>p, ProcessMade
<1> HIDE <1>p
<1>3. \A k : Populated(k)' <=> Populated(k)
  BY <1>2 DEF Populated
<1>4. \A k : Populated(k) => k \in 1..Len(processes) /\ processes'[k] = processes[k]
  BY <1>2 DEF Populated
<1>5. StartedWithScheduler' /\ OneRuns'
  BY <1>1 DEF PopulationInv, StartedWithScheduler, OneRuns, Runs
<1>6. CounterAhead'
  BY <1>1, <1>3, <1>4 DEF PopulationInv, CounterAhead
<1>7. IdsDiffer'
  BY <1>3, <1>4 DEF PopulationInv, IdsDiffer
<1>8. HandedOnce'
  <2>1. \A i \in 1..Len(handed) : Populated(handed[i])'
    <3>1. ASSUME NEW i \in 1..Len(handed) PROVE Populated(handed[i])'
      <4>1. PICK k : k = handed[i]
        OBVIOUS
      <4>2. Populated(k)'
        BY <1>3, <4>1 DEF PopulationInv, HandedOnce
      <4> QED
        BY <1>1, <4>1, <4>2 DEF Populated
    <3> QED
      BY <3>1
  <2>2. ASSUME NEW t \in Populators, Holding(t) PROVE Populated(populator[t].process)'
    <3>1. PICK k : k = populator[t].process
      OBVIOUS
    <3>2. Populated(k)'
      BY <1>3, <2>2, <3>1 DEF PopulationInv, HandedOnce
    <3> QED
      BY <1>1, <3>1, <3>2 DEF Populated
  <2> QED
    BY <1>1, <2>1, <2>2 DEF PopulationInv, HandedOnce, Holding, Showing, Filling
<1>9. HandedFilled'
  <2>1. \A t \in Populators : (Filling(t)' <=> Filling(t)) /\ (Filling(t) => Holding(t))
    BY <1>1 DEF Filling, Holding
  <2>2. \A t \in Populators :
          populator[t].pc = "handing" \/ populator[t].pc = "filled" => Filling(t)
    BY DEF Filling
  <2>3. /\ \A i \in 1..Len(handed) : Populated(handed[i])
        /\ \A t \in Populators : Filling(t) => Populated(populator[t].process)
    BY <2>1 DEF PopulationInv, HandedOnce
  <2> QED
    BY <1>1, <1>4, <2>1, <2>2, <2>3 DEF PopulationInv, HandedFilled
<1> QED
  BY <1>5, <1>6, <1>7, <1>8, <1>9 DEF PopulationInv

\* Every step of a patient user keeps the invariant.
LEMMA PopulationNext ==
  ASSUME ScreenInv, PopulationInv, [PatientNext]_vars
  PROVE  PopulationInv'
<1>1. ShellTyped
  BY DEF ScreenInv
<1>2. CASE UNCHANGED vars
  BY <1>2, PopulationUntouched DEF vars, shellVars, populationVars
<1>3. ASSUME NEW t \in Populators, PatientNext, schedulerStart(t)
      PROVE  PopulationInv'
  BY <1>1, <1>3, StartKeeps DEF PatientNext, schedulerStart
<1>4. ASSUME NEW t \in Populators, PopulatorRuns(t)
      PROVE  PopulationInv'
  BY <1>1, <1>4, BeginRoundKeeps, WriteCounterKeeps, CreateProcessKeeps, AddSessionKeeps,
     ShowingKeeps, AddInstructionKeeps, EndFillingKeeps, TestBeforeHandingKeeps, HandOverKeeps
  DEF PopulatorRuns, PopulatorStep
<1>5. CASE schedulerStop
  BY <1>5, PopulationUntouched DEF schedulerStop, shellVars
<1>6. ASSUME UNCHANGED <<scheduler, populationVars>>
      PROVE  PopulationInv'
  BY <1>6, PopulationUntouched DEF populationVars
<1>7. CASE \/ \E name \in UserNames : FindProcess(name)
           \/ EnterScreen \/ RecordProcess \/ FindConsole \/ SwitchScreen
           \/ ReturnToMain \/ Draw \/ Exit
  BY <1>6, <1>7
  DEF FindProcess, EnterScreen, RecordProcess, FindConsole, SwitchScreen, ReturnToMain, Draw, Exit
<1> QED
  BY <1>1, <1>2, <1>3, <1>4, <1>5, <1>7, InitializeKeeps, MakeProcessKeeps DEF PatientNext, Next

-------------------------------------------------------------------------------
(* The theorems about what a scheduler may rely on *)

\* A scheduler is there and gets each process once, filled and with an id of its
\* own, however the steps of a populate thread fall between the commands of a
\* patient user.
THEOREM PopulationInvariant == PatientSpec => [](ScreenInv /\ PopulationInv)
<1>1. Init => ScreenInv /\ PopulationInv
  BY ScreensInitially, PopulationInitially
<1>2. ScreenInv /\ PopulationInv /\ [PatientNext]_vars => (ScreenInv /\ PopulationInv)'
  <2>1. [PatientNext]_vars => [Next]_vars
    BY DEF PatientNext
  <2> QED
    BY <2>1, ScreensNext, PopulationNext
<1> QED
  BY <1>1, <1>2, PTL DEF PatientSpec

\* The processes that reach a scheduler have different ids and reach it once,
\* which RoundRobinProofs assumes as IdsDiffer, however many there are, beside
\* the processes that screen -s makes.
THEOREM PopulationIdsIdentify == PatientSpec => []IdsIdentify
<1>1. ScreenInv /\ PopulationInv => IdsIdentify
  <2> SUFFICES ASSUME ScreenInv, PopulationInv
               PROVE  IdsIdentify
    OBVIOUS
  <2>1. DOMAIN handed = 1..Len(handed)
    BY LenProperties DEF ScreenInv, ShellTyped
  <2>2. IsInjective(handed)
    BY <2>1 DEF PopulationInv, HandedOnce, IsInjective
  <2>3. \A k \in ToSet(handed) : Populated(k)
    BY <2>1 DEF PopulationInv, HandedOnce, ToSet
  <2> QED
    BY <2>2, <2>3 DEF PopulationInv, IdsDiffer, IdsIdentify, Populated
<1> QED
  BY <1>1, PopulationInvariant, PTL

\* No process reaches a scheduler with fewer than min-ins instructions (README.md:28).
THEOREM PopulationEnoughInstructions == PatientSpec => []EnoughInstructions
<1>1. ScreenInv /\ PopulationInv => EnoughInstructions
  <2> SUFFICES ASSUME ScreenInv, PopulationInv
               PROVE  EnoughInstructions
    OBVIOUS
  <2>1. DOMAIN handed = 1..Len(handed)
    BY LenProperties DEF ScreenInv, ShellTyped
  <2> QED
    BY <2>1 DEF PopulationInv, HandedFilled, EnoughInstructions, ToSet
<1> QED
  BY <1>1, PopulationInvariant, PTL

\* A populate thread never calls addProcess without a scheduler (main.cpp:281),
\* whatever config.txt names at each initialize.
THEOREM PopulationSchedulerIsThere == PatientSpec => []SchedulerIsThere
<1>1. PopulationInv => SchedulerIsThere
  BY DEF PopulationInv, StartedWithScheduler, SchedulerIsThere, At
<1> QED
  BY <1>1, PopulationInvariant, PTL

-------------------------------------------------------------------------------
(* Names, if the user is patient *)

\* populateProcesses names and numbers a process by the same counter, which it
\* increments in between.
NamesFollowIds ==
  /\ \A k \in 1..Len(processes) :
       Populated(k) => processes[k].name \in Nat /\ processes[k].id = processes[k].name + 1
  /\ \A t \in Populators :
       /\ populator[t].pc = "naming" => processCounter = populator[t].name + 1
       /\ populator[t].pc = "entering" => populator[t].id = populator[t].name + 1

\* The process that screen -r finds under the name of process k.
FoundFor(k) ==
  /\ processes[k].name \in DOMAIN screenProcesses
  /\ LET shown == screenProcesses[processes[k].name]
     IN  shown = k \/ (shown < k /\ processes[shown].byUser)

\* A process of populateProcesses is found under its name, as soon as its thread is
\* past the second access of addNewScreen.
PopulatedAreFound ==
  \A k \in 1..Len(processes) :
    Populated(k) =>
      /\ processes[k].name \in DOMAIN screenSessions
      /\ FoundFor(k) \/ \E t \in Populators : At(t, "recording") /\ populator[t].process = k

\* The name of a process of screen -s is taken, as soon as the main thread is past
\* the first.
UserNamesAreTaken ==
  \A k \in 1..Len(processes) :
    processes[k].byUser =>
      \/ processes[k].name \in DOMAIN screenSessions
      \/ main.at = "adding" /\ main.process = k

UserNamesDiffer ==
  \A j, k \in 1..Len(processes) :
    processes[j].byUser /\ processes[k].byUser /\ processes[j].name = processes[k].name => j = k

\* Before the second, a process of populateProcesses with the name is a later one.
MainCameFirst ==
  main.at \in {"adding", "recording"} =>
    /\ processes[main.process].byUser
    /\ \A k \in 1..Len(processes) :
         Populated(k) /\ processes[k].name = processes[main.process].name => main.process < k

NameInv ==
  /\ NamesFollowIds
  /\ PopulatedAreFound
  /\ UserNamesAreTaken
  /\ UserNamesDiffer
  /\ MainCameFirst

\* No process is made, and none gets another name, id or maker.
SameProcesses ==
  /\ Len(processes') = Len(processes)
  /\ \A k \in 1..Len(processes) :
       /\ processes'[k].name = processes[k].name
       /\ processes'[k].id = processes[k].id
       /\ processes'[k].byUser = processes[k].byUser

\* What names and ids have to do with a step that makes no process.
LEMMA IdsUntouched ==
  ASSUME NamesFollowIds, SameProcesses, UNCHANGED processCounter,
         \A t \in Populators :
           \/ populator'[t].pc \notin {"naming", "entering"}
           \/ populator'[t] = populator[t]
           \/ /\ populator[t].pc = "naming" /\ populator'[t].pc = "entering"
              /\ populator'[t].name = populator[t].name
              /\ populator'[t].id = processCounter
  PROVE  NamesFollowIds'
BY DEF NamesFollowIds, Populated, SameProcesses

\* What the screens have to do with a step that leaves the maps alone, outside
\* screen -s.
LEMMA FoundUntouched ==
  ASSUME ScreenInv, NameInv, SameProcesses, UNCHANGED <<screenSessions, screenProcesses>>,
         \A t \in Populators :
           At(t, "recording") => At(t, "recording")' /\ populator'[t].process = populator[t].process,
         main' = main \/ (main.at # "adding" /\ main'.at \notin {"adding", "recording"})
  PROVE  PopulatedAreFound' /\ UserNamesAreTaken' /\ UserNamesDiffer' /\ MainCameFirst'
<1>1. \A k \in 1..Len(processes) : Populated(k)' <=> Populated(k)
  BY DEF SameProcesses, Populated
<1>2. \A k \in 1..Len(processes) : FoundFor(k) => FoundFor(k)'
  BY DEF FoundFor, SameProcesses, ScreenInv, ScreensNamed
<1>3. PopulatedAreFound'
  BY <1>1, <1>2 DEF NameInv, PopulatedAreFound, SameProcesses
<1>4. UserNamesAreTaken' /\ UserNamesDiffer'
  BY DEF NameInv, UserNamesAreTaken, UserNamesDiffer, SameProcesses
<1>5. MainCameFirst'
  <2>1. CASE main' = main
    BY <1>1, <2>1
    DEF NameInv, MainCameFirst, SameProcesses, ScreenInv, MainNamed
  <2>2. CASE main'.at \notin {"adding", "recording"}
    BY <2>2 DEF MainCameFirst
  <2> QED
    BY <2>1, <2>2
<1> QED
  BY <1>3, <1>4, <1>5

\* The steps of a thread that neither count nor enter anything.
LEMMA QuietStep ==
  ASSUME NEW t \in Populators, ScreenInv, PopulationInv,
         \/ BeginRound(t) \/ CreateProcess(t) \/ ReadSession(t) \/ ShowScreen(t)
         \/ AddInstruction(t) \/ EndFilling(t) \/ TestBeforeHanding(t) \/ HandOver(t)
  PROVE  /\ SameProcesses
         /\ UNCHANGED <<processCounter, screenSessions, screenProcesses>>
         /\ populator[t].pc # "recording"
         /\ \/ populator'[t].pc \notin {"naming", "entering"}
            \/ populator'[t] = populator[t]
            \/ /\ populator[t].pc = "naming" /\ populator'[t].pc = "entering"
               /\ populator'[t].name = populator[t].name
               /\ populator'[t].id = processCounter
         /\ \A u \in Populators \ {t} : populator'[u] = populator[u]
<1>1. ShellTyped
  BY DEF ScreenInv
<1>2. CASE BeginRound(t)
  BY <1>1, <1>2, RoundBegun DEF BeginRound, SameProcesses, consoleVars, At
<1>3. CASE CreateProcess(t)
  BY <1>1, <1>3, IdTaken DEF CreateProcess, SameProcesses, consoleVars, At
<1>4. CASE ReadSession(t)
  <2>1. screenSessions[populator[t].name] \in Nat
    BY <1>4, ConsolesAreNumbers DEF ScreenInv, ThreadsNamed, ReadSession, Showing, At
  <2> QED
    BY <1>1, <1>4, <2>1, SessionRead DEF ReadSession, SameProcesses, consoleVars, At
<1>5. CASE ShowScreen(t)
  BY <1>1, <1>5, ScreenShown DEF ShowScreen, SetCurrent, SameProcesses, At
<1>6. CASE AddInstruction(t)
  <2>1. populator[t].process \in 1..Len(processes)
    BY <1>6 DEF ScreenInv, ThreadsNamed, Holding, Filling, AddInstruction, At
  <2>2. SameProcesses
    BY <1>1, <1>6, <2>1, InstructionAdded DEF SameProcesses
  <2> QED
    BY <1>6, <2>2 DEF AddInstruction, consoleVars, At
<1>7. CASE EndFilling(t) \/ TestBeforeHanding(t) \/ HandOver(t)
  <2>1. /\ populator'[t].pc \in {"filled", "handing", "loop"}
        /\ \A u \in Populators \ {t} : populator'[u] = populator[u]
    BY <1>1, <1>7, GotoChanges DEF EndFilling, TestBeforeHanding, HandOver, PopulatorStates
  <2> QED
    BY <1>7, <2>1 DEF EndFilling, TestBeforeHanding, HandOver, SameProcesses, consoleVars, At
<1> QED
  BY <1>2, <1>3, <1>4, <1>5, <1>6, <1>7

\* They keep all this.
LEMMA QuietStepKeeps ==
  ASSUME NEW t \in Populators, ScreenInv, PopulationInv, NameInv, UNCHANGED main,
         \/ BeginRound(t) \/ CreateProcess(t) \/ ReadSession(t) \/ ShowScreen(t)
         \/ AddInstruction(t) \/ EndFilling(t) \/ TestBeforeHanding(t) \/ HandOver(t)
  PROVE  NameInv'
<1>1. /\ SameProcesses
      /\ UNCHANGED <<processCounter, screenSessions, screenProcesses>>
      /\ populator[t].pc # "recording"
      /\ \/ populator'[t].pc \notin {"naming", "entering"}
         \/ populator'[t] = populator[t]
         \/ /\ populator[t].pc = "naming" /\ populator'[t].pc = "entering"
            /\ populator'[t].name = populator[t].name
            /\ populator'[t].id = processCounter
      /\ \A u \in Populators \ {t} : populator'[u] = populator[u]
  BY QuietStep
<1>2. NamesFollowIds'
  <2>1. \A u \in Populators :
          \/ populator'[u].pc \notin {"naming", "entering"}
          \/ populator'[u] = populator[u]
          \/ /\ populator[u].pc = "naming" /\ populator'[u].pc = "entering"
             /\ populator'[u].name = populator[u].name
             /\ populator'[u].id = processCounter
    BY <1>1
  <2> QED
    BY <1>1, <2>1, IdsUntouched DEF NameInv
<1>3. \A u \in Populators :
        At(u, "recording") => At(u, "recording")' /\ populator'[u].process = populator[u].process
  BY <1>1 DEF At
<1>4. PopulatedAreFound' /\ UserNamesAreTaken' /\ UserNamesDiffer' /\ MainCameFirst'
  BY <1>1, <1>3, FoundUntouched
<1> QED
  BY <1>2, <1>4 DEF NameInv

\* The counter is one ahead of the name that the thread has taken.
LEMMA WriteCounterKeepsNames ==
  ASSUME NEW t \in Populators, ScreenInv, PopulationInv, NameInv, UNCHANGED main, WriteCounter(t)
  PROVE  NameInv'
<1>1. /\ processCounter' = populator[t].name + 1
      /\ SameProcesses
      /\ UNCHANGED <<processes, screenSessions, screenProcesses>>
      /\ populator[t].pc = "counting" /\ Goto(t, "naming")
  BY DEF WriteCounter, NextCount, SameProcesses, consoleVars, At
<1>2. /\ populator'[t].pc = "naming"
      /\ populator'[t].name = populator[t].name
      /\ \A u \in Populators \ {t} : populator'[u] = populator[u]
  BY <1>1, GotoChanges DEF ScreenInv, PopulatorStates
<1>3. \A u \in Populators \ {t} : populator[u].pc \notin {"naming", "entering"}
  BY <1>1 DEF PopulationInv, OneRuns, Runs
<1>4. NamesFollowIds'
  BY <1>1, <1>2, <1>3 DEF NameInv, NamesFollowIds, Populated
<1>5. \A u \in Populators :
        At(u, "recording") => At(u, "recording")' /\ populator'[u].process = populator[u].process
  BY <1>1, <1>2 DEF At
<1>6. PopulatedAreFound' /\ UserNamesAreTaken' /\ UserNamesDiffer' /\ MainCameFirst'
  BY <1>1, <1>5, FoundUntouched
<1> QED
  BY <1>4, <1>6 DEF NameInv

\* The new process has a session, and is about to be recorded.
LEMMA AddSessionKeepsNames ==
  ASSUME NEW t \in Populators, ScreenInv, PopulationInv, NameInv, UNCHANGED main, AddSession(t)
  PROVE  NameInv'
<1>p. PICK p : p = Len(processes) + 1
  OBVIOUS
<1>1. /\ UNCHANGED <<processCounter, screenProcesses>>
      /\ ShellTyped /\ populator[t].name \in Nat
      /\ populator[t].pc = "entering"
      /\ populator[t].id = populator[t].name + 1
      /\ EnterSession(populator[t].name, p)
  BY <1>p, ThreadFields
  DEF AddSession, EnterSession, At, ScreenInv, NameInv, NamesFollowIds
<1>2. DOMAIN screenSessions' = DOMAIN screenSessions \cup {populator[t].name}
  BY <1>1 DEF EnterSession, WithEntry
<1>3. /\ Len(processes') = p
      /\ p \in 1..p
      /\ \A k \in 1..Len(processes) : processes'[k] = processes[k]
      /\ \A k \in 1..p : k \in 1..Len(processes) \/ k = p
      /\ \A k \in 1..Len(processes) : k \in 1..p /\ k < p /\ k # p
      /\ processes'[p].name = populator[t].name
      /\ processes'[p].id = populator[t].id
      /\ ~processes'[p].byUser
      /\ populator'[t].pc = "recording"
      /\ populator'[t].process = p
      /\ \A u \in Populators \ {t} : populator'[u] = populator[u]
  BY <1>p, <1>1, SessionAdded
<1> HIDE <1>p
<1>4. \A k \in 1..Len(processes) : Populated(k)' <=> Populated(k)
  BY <1>3 DEF Populated
<1>5. NamesFollowIds'
  <2>1. \A k \in 1..Len(processes') :
          Populated(k)' => processes'[k].name \in Nat /\ processes'[k].id = processes'[k].name + 1
    BY <1>1, <1>3, <1>4 DEF NameInv, NamesFollowIds
  <2>2. ASSUME NEW u \in Populators
        PROVE  /\ populator'[u].pc = "naming" => processCounter' = populator'[u].name + 1
               /\ populator'[u].pc = "entering" => populator'[u].id = populator'[u].name + 1
    BY <1>1, <1>3 DEF NameInv, NamesFollowIds
  <2> QED
    BY <2>1, <2>2 DEF NamesFollowIds
<1>6. PopulatedAreFound'
  <2> SUFFICES ASSUME NEW k \in 1..Len(processes'), Populated(k)'
               PROVE  /\ processes'[k].name \in DOMAIN screenSessions'
                      /\ \/ FoundFor(k)'
                         \/ \E u \in Populators : At(u, "recording")' /\ populator'[u].process = k
    BY DEF PopulatedAreFound, At
  <2>1. CASE k = p
    BY <1>2, <1>3, <2>1 DEF At
  <2>2. CASE k \in 1..Len(processes)
    <3>1. /\ Populated(k) /\ processes'[k] = processes[k]
          /\ processes[k].name \in DOMAIN screenSessions
      BY <1>3, <1>4, <2>2 DEF NameInv, PopulatedAreFound
    <3>2. ASSUME NEW u \in Populators, At(u, "recording"), populator[u].process = k
          PROVE  At(u, "recording")' /\ populator'[u].process = k
      BY <1>1, <1>3, <3>2 DEF At
    <3>3. FoundFor(k) => FoundFor(k)'
      BY <1>1, <1>3, <3>1 DEF FoundFor, ScreenInv, ScreensNamed
    <3>4. FoundFor(k) \/ \E u \in Populators : At(u, "recording") /\ populator[u].process = k
      BY <2>2, <3>1 DEF NameInv, PopulatedAreFound
    <3> QED
      BY <1>2, <3>1, <3>2, <3>3, <3>4
  <2> QED
    BY <1>3, <2>1, <2>2
<1>7. UserNamesAreTaken' /\ UserNamesDiffer'
  BY <1>2, <1>3 DEF NameInv, UserNamesAreTaken, UserNamesDiffer
<1>8. MainCameFirst'
  <2>1. main.at \in {"adding", "recording"} => main.process \in 1..Len(processes)
    BY DEF ScreenInv, MainNamed
  <2> QED
    BY <1>3, <1>4, <2>1 DEF NameInv, MainCameFirst
<1> QED
  BY <1>5, <1>6, <1>7, <1>8 DEF NameInv

\* It is found under its name, which no other process of populateProcesses has.
LEMMA AddScreenProcessKeepsNames ==
  ASSUME NEW t \in Populators, ScreenInv, PopulationInv, NameInv, UNCHANGED main,
         AddScreenProcess(t)
  PROVE  NameInv'
<1>n. PICK p, name : p = populator[t].process /\ name = populator[t].name
  OBVIOUS
<1>1. /\ UNCHANGED <<processCounter, processes, screenSessions>>
      /\ SameProcesses
      /\ populator[t].pc = "recording"
      /\ EnterProcess(name, p) /\ Goto(t, "showing")
  BY <1>n DEF AddScreenProcess, EnterProcess, SameProcesses, At
<1>2. /\ p \in 1..Len(processes) /\ Populated(p) /\ processes[p].name = name
  <2>1. Showing(t) /\ Holding(t)
    BY <1>1 DEF Showing, Holding
  <2>2. Populated(p) /\ Bears(p, name)
    BY <1>n, <2>1 DEF PopulationInv, HandedOnce, ScreenInv, ThreadsNamed
  <2>3. p # 0
    BY <2>2 DEF Populated
  <2> QED
    BY <2>2, <2>3 DEF Bears, NameOf, MainConsole, Populated
<1>3. /\ populator'[t].pc = "showing"
      /\ \A u \in Populators \ {t} : populator'[u] = populator[u]
  BY <1>1, GotoChanges DEF ScreenInv, PopulatorStates
<1>4. /\ DOMAIN screenProcesses' = DOMAIN screenProcesses \cup {name}
      /\ screenProcesses'[name] = p
      /\ \A n \in DOMAIN screenProcesses : n # name => screenProcesses'[n] = screenProcesses[n]
  BY <1>1 DEF EnterProcess, WithEntry
<1>5. \A k \in 1..Len(processes) : Populated(k) /\ processes[k].name = name => k = p
  BY <1>2 DEF NameInv, NamesFollowIds, PopulationInv, IdsDiffer
<1>6. NamesFollowIds'
  BY <1>1, <1>3, IdsUntouched DEF NameInv
<1>7. PopulatedAreFound'
  <2> SUFFICES ASSUME NEW k \in 1..Len(processes), Populated(k)
               PROVE  /\ processes[k].name \in DOMAIN screenSessions
                      /\ \/ FoundFor(k)'
                         \/ \E u \in Populators : At(u, "recording")' /\ populator'[u].process = k
    BY <1>1 DEF PopulatedAreFound, Populated, At
  <2>1. processes[k].name \in DOMAIN screenSessions
    BY DEF NameInv, PopulatedAreFound
  <2>2. CASE k = p
    BY <1>1, <1>2, <1>4, <2>1, <2>2 DEF FoundFor
  <2>3. CASE k # p
    <3>1. processes[k].name # name
      BY <1>5, <2>3
    <3>2. FoundFor(k) => FoundFor(k)'
      BY <1>1, <1>4, <3>1 DEF FoundFor
    <3>3. ASSUME NEW u \in Populators, At(u, "recording"), populator[u].process = k
          PROVE  At(u, "recording")' /\ populator'[u].process = k
      BY <1>n, <1>3, <2>3, <3>3 DEF At
    <3>4. FoundFor(k) \/ \E u \in Populators : At(u, "recording") /\ populator[u].process = k
      BY DEF NameInv, PopulatedAreFound
    <3> QED
      BY <2>1, <3>2, <3>3, <3>4
  <2> QED
    BY <2>2, <2>3
<1>8. UserNamesAreTaken' /\ UserNamesDiffer' /\ MainCameFirst'
  BY <1>1 DEF NameInv, UserNamesAreTaken, UserNamesDiffer, MainCameFirst, Populated
<1> QED
  BY <1>6, <1>7, <1>8 DEF NameInv

\* screen -s makes a process whose name had no session, nor then a process.
LEMMA MakeProcessKeepsNames ==
  ASSUME NEW name \in UserNames, ScreenInv, PopulationInv, NameInv, MakeProcess(name)
  PROVE  NameInv'
<1>p. PICK p : p = Len(processes) + 1
  OBVIOUS
<1>1. /\ UNCHANGED <<processCounter, populator, screenSessions, screenProcesses>>
      /\ main.at = "prompt" /\ main'.at = "adding" /\ main'.process = p
      /\ name \notin DOMAIN screenSessions
  BY <1>p DEF MakeProcess, Becomes, findScreenSessions, consoleVars
<1>2. /\ Len(processes') = p
      /\ p \in 1..p
      /\ \A k \in 1..Len(processes) : processes'[k] = processes[k]
      /\ \A k \in 1..p : k \in 1..Len(processes) \/ k = p
      /\ \A k \in 1..Len(processes) : k \in 1..p /\ k < p /\ k # p
      /\ processes'[p].name = name
      /\ processes'[p].byUser
  BY <1>p, ProcessMade DEF ScreenInv
<1> HIDE <1>p
<1>3. /\ \A k \in 1..Len(processes) : Populated(k)' <=> Populated(k)
      /\ ~Populated(p)'
  BY <1>2 DEF Populated
<1>4. \A k \in 1..Len(processes) : processes[k].name # name
  <2>1. \A k \in 1..Len(processes) : processes[k].byUser \/ Populated(k)
    BY DEF Populated
  <2> QED
    BY <1>1, <2>1 DEF NameInv, PopulatedAreFound, UserNamesAreTaken
<1>5. NamesFollowIds'
  BY <1>1, <1>2, <1>3 DEF NameInv, NamesFollowIds
<1>6. PopulatedAreFound'
  <2>1. \A k \in 1..Len(processes) : FoundFor(k) => FoundFor(k)'
    BY <1>1, <1>2 DEF FoundFor, ScreenInv, ScreensNamed
  <2> QED
    BY <1>1, <1>2, <1>3, <2>1 DEF NameInv, PopulatedAreFound, At
<1>7. UserNamesAreTaken' /\ UserNamesDiffer'
  BY <1>1, <1>2, <1>4 DEF NameInv, UserNamesAreTaken, UserNamesDiffer
<1>8. MainCameFirst'
  BY <1>1, <1>2, <1>3, <1>4 DEF MainCameFirst
<1> QED
  BY <1>5, <1>6, <1>7, <1>8 DEF NameInv

\* Then the name has a session ...
LEMMA EnterScreenKeepsNames ==
  ASSUME ScreenInv, PopulationInv, NameInv, EnterScreen
  PROVE  NameInv'
<1>p. PICK p : p = main.process
  OBVIOUS
<1>1. /\ UNCHANGED <<processCounter, processes, populator, screenProcesses>>
      /\ SameProcesses
      /\ main.at = "adding" /\ main'.at = "recording" /\ main'.process = p
      /\ EnterSession(NameOf(p), p)
  BY <1>p, MainIsRecord
  DEF EnterScreen, EnterSession, populationVars, SameProcesses, ScreenInv, MainStates
<1>2. p \in 1..Len(processes) /\ NameOf(p) = processes[p].name
  <2>1. p \in 1..Len(processes) /\ p # 0
    BY <1>p, <1>1 DEF ScreenInv, MainNamed
  <2> QED
    BY <2>1 DEF NameOf, MainConsole
<1>3. DOMAIN screenSessions' = DOMAIN screenSessions \cup {processes[p].name}
  BY <1>1, <1>2 DEF EnterSession, WithEntry
<1>4. NamesFollowIds'
  BY <1>1, IdsUntouched DEF NameInv
<1>5. PopulatedAreFound'
  BY <1>1, <1>3 DEF NameInv, PopulatedAreFound, FoundFor, Populated, At
<1>6. UserNamesAreTaken' /\ UserNamesDiffer' /\ MainCameFirst'
  BY <1>p, <1>1, <1>3
  DEF NameInv, UserNamesAreTaken, UserNamesDiffer, MainCameFirst, Populated
<1> QED
  BY <1>4, <1>5, <1>6 DEF NameInv

\* ... and the process, also where a later one of populateProcesses was.
LEMMA RecordProcessKeepsNames ==
  ASSUME ScreenInv, PopulationInv, NameInv, RecordProcess
  PROVE  NameInv'
<1>n. PICK p, name : p = main.process /\ name = NameOf(p)
  OBVIOUS
<1>1. /\ UNCHANGED <<processCounter, processes, populator, screenSessions>>
      /\ SameProcesses
      /\ main.at = "recording" /\ main'.at = "switching"
      /\ EnterProcess(name, p)
  BY <1>n, MainIsRecord
  DEF RecordProcess, EnterProcess, populationVars, SameProcesses, ScreenInv, MainStates
<1>2. p \in 1..Len(processes) /\ name = processes[p].name
  <2>1. p \in 1..Len(processes) /\ p # 0
    BY <1>n, <1>1 DEF ScreenInv, MainNamed
  <2> QED
    BY <1>n, <2>1 DEF NameOf, MainConsole
<1>3. /\ DOMAIN screenProcesses' = DOMAIN screenProcesses \cup {name}
      /\ screenProcesses'[name] = p
      /\ \A n \in DOMAIN screenProcesses : n # name => screenProcesses'[n] = screenProcesses[n]
  BY <1>1 DEF EnterProcess, WithEntry
<1>4. NamesFollowIds'
  BY <1>1, IdsUntouched DEF NameInv
<1>5. PopulatedAreFound'
  <2> SUFFICES ASSUME NEW k \in 1..Len(processes), Populated(k)
               PROVE  /\ processes[k].name \in DOMAIN screenSessions
                      /\ \/ FoundFor(k)'
                         \/ \E u \in Populators : At(u, "recording")' /\ populator'[u].process = k
    BY <1>1 DEF PopulatedAreFound, Populated, At
  <2>1. /\ processes[k].name \in DOMAIN screenSessions
        /\ FoundFor(k) \/ \E u \in Populators : At(u, "recording")' /\ populator'[u].process = k
    BY <1>1 DEF NameInv, PopulatedAreFound, At
  <2>2. CASE processes[k].name = name
    <3>1. processes[p].byUser /\ p < k
      BY <1>n, <1>1, <1>2, <2>2 DEF NameInv, MainCameFirst
    <3>2. FoundFor(k)'
      BY <1>1, <1>3, <2>2, <3>1 DEF FoundFor
    <3> QED
      BY <2>1, <3>2
  <2>3. CASE processes[k].name # name
    <3>1. FoundFor(k) => FoundFor(k)'
      BY <1>1, <1>3, <2>3 DEF FoundFor
    <3> QED
      BY <2>1, <3>1
  <2> QED
    BY <2>2, <2>3
<1>6. UserNamesAreTaken' /\ UserNamesDiffer' /\ MainCameFirst'
  BY <1>1 DEF NameInv, UserNamesAreTaken, UserNamesDiffer, MainCameFirst
<1> QED
  BY <1>4, <1>5, <1>6 DEF NameInv

\* The other commands neither make a process nor enter one.
LEMMA CommandsKeepNames ==
  ASSUME ScreenInv, PopulationInv, NameInv,
         \/ \E kind \in Configured : initialize(kind)
         \/ \E t \in Populators : schedulerStart(t)
         \/ schedulerStop
         \/ \E name \in UserNames : FindProcess(name)
         \/ FindConsole \/ SwitchScreen \/ ReturnToMain \/ Draw \/ Exit
         \/ UNCHANGED vars
  PROVE  NameInv'
<1>1. /\ UNCHANGED <<processCounter, processes, screenSessions, screenProcesses>>
      /\ SameProcesses
  BY DEF initialize, schedulerStart, schedulerStop, FindProcess, FindConsole, SwitchScreen,
         SwitchTo, SetCurrent, ReturnToMain, Draw, Exit, vars, populationVars, consoleVars,
         SameProcesses
<1>2. \A u \in Populators :
        \/ populator'[u] = populator[u]
        \/ populator'[u].pc \notin {"naming", "entering"} /\ populator[u].pc # "recording"
  <2>1. ASSUME NEW t \in Populators, schedulerStart(t)
        PROVE  /\ populator[t].pc = "idle" /\ populator'[t].pc = "loop"
               /\ \A u \in Populators \ {t} : populator'[u] = populator[u]
    BY <2>1, GotoChanges DEF schedulerStart, ScreenInv, At, PopulatorStates
  <2>2. \/ UNCHANGED populator
        \/ \E t \in Populators : schedulerStart(t)
    BY DEF initialize, schedulerStop, FindProcess, FindConsole, SwitchScreen,
           ReturnToMain, Draw, Exit, vars, populationVars
  <2> QED
    BY <2>1, <2>2
<1>3. main' = main \/ (main.at # "adding" /\ main'.at \notin {"adding", "recording"})
  <2>1. CASE FindConsole \/ SwitchScreen \/ Exit
    BY <2>1, MainIsRecord DEF FindConsole, SwitchScreen, Exit, ScreenInv, ShellTyped, Mains
  <2>2. CASE Draw
    BY <2>2 DEF Draw, Prompt, ScreenInv, ShellTyped, Mains
  <2>3. CASE ReturnToMain \/ \E name \in UserNames : FindProcess(name)
    BY <2>3 DEF ReturnToMain, FindProcess, Becomes
  <2>4. CASE \/ \E kind \in Configured : initialize(kind)
             \/ \E t \in Populators : schedulerStart(t)
             \/ schedulerStop \/ UNCHANGED vars
    BY <2>4 DEF initialize, schedulerStart, schedulerStop, shellVars, vars
  <2> QED
    BY <2>1, <2>2, <2>3, <2>4
<1>4. NamesFollowIds'
  BY <1>1, <1>2, IdsUntouched DEF NameInv
<1>5. \A u \in Populators :
        At(u, "recording") => At(u, "recording")' /\ populator'[u].process = populator[u].process
  BY <1>2 DEF At
<1>6. PopulatedAreFound' /\ UserNamesAreTaken' /\ UserNamesDiffer' /\ MainCameFirst'
  BY <1>1, <1>3, <1>5, FoundUntouched
<1> QED
  BY <1>4, <1>6 DEF NameInv

\* Every step of a patient user keeps the invariant.
LEMMA NamesNext ==
  ASSUME ScreenInv, PopulationInv, NameInv, [PatientNext]_vars
  PROVE  NameInv'
<1>1. ASSUME NEW t \in Populators, PopulatorRuns(t) PROVE NameInv'
  <2>1. UNCHANGED main
    BY <1>1 DEF PopulatorRuns, shellVars
  <2> QED
    BY <1>1, <2>1, QuietStepKeeps, WriteCounterKeepsNames, AddSessionKeepsNames,
       AddScreenProcessKeepsNames
    DEF PopulatorRuns, PopulatorStep
<1> QED
  BY <1>1, MakeProcessKeepsNames, EnterScreenKeepsNames, RecordProcessKeepsNames,
     CommandsKeepNames
  DEF PatientNext, Next

\* At first there is no process.
LEMMA NamesInitially == Init => NameInv
<1> SUFFICES ASSUME Init PROVE NameInv
  OBVIOUS
<1>1. Len(processes) = 0 /\ main.at = "prompt" /\ \A t \in Populators : populator[t].pc = "idle"
  BY DEF Init, PopulationInit, Idle, Prompt
<1> QED
  BY <1>1
  DEF NameInv, NamesFollowIds, PopulatedAreFound, UserNamesAreTaken, UserNamesDiffer, MainCameFirst

-------------------------------------------------------------------------------
(* The theorems about names *)

ShellInv == ScreenInv /\ PopulationInv /\ NameInv

\* Names, screens and processes fit together, however the steps of a populate thread
\* fall between those of the commands of a patient user.
THEOREM ShellInvariant == PatientSpec => []ShellInv
<1>1. NameInv /\ (ScreenInv /\ PopulationInv) /\ [PatientNext]_vars => NameInv'
  BY NamesNext
<1> QED
  BY <1>1, NamesInitially, PopulationInvariant, PTL DEF PatientSpec, ShellInv

\* Every process that reaches the scheduler is what screen -r finds under its name,
\* unless one of screen -s, made before, has put its own there (main.cpp:134-140).
THEOREM HandedAreShown == PatientSpec => []ScreenShowsProcess
<1>1. ShellInv => ScreenShowsProcess
  <2> SUFFICES ASSUME ShellInv, NEW k \in ToSet(handed)
               PROVE  LET shown == screenProcesses[processes[k].name]
                      IN  shown = k \/ (shown < k /\ processes[shown].byUser)
    BY DEF ScreenShowsProcess
  <2>1. PICK i \in DOMAIN handed : handed[i] = k
    BY DEF ToSet
  <2>2. i \in 1..Len(handed)
    BY LenProperties DEF ShellInv, ScreenInv, ShellTyped
  <2>3. Populated(k)
    BY <2>1, <2>2 DEF ShellInv, PopulationInv, HandedOnce
  <2>4. ASSUME NEW t \in Populators, At(t, "recording") PROVE populator[t].process # k
    <3>1. Holding(t)
      BY <2>4 DEF Holding, Showing, At
    <3> QED
      BY <2>1, <2>2, <3>1 DEF ShellInv, PopulationInv, HandedOnce
  <2>5. FoundFor(k)
    BY <2>3, <2>4 DEF ShellInv, NameInv, PopulatedAreFound, Populated
  <2> QED
    BY <2>5 DEF FoundFor
<1> QED
  BY <1>1, ShellInvariant, PTL

\* The test for the name in screen -s (main.cpp:378) and the counter of
\* populateProcesses (main.cpp:200) leave two processes of one name only across
\* the two ways of making them.
THEOREM NamesAreOwn == PatientSpec => []NamesClashOnlyAcross
<1>1. ShellInv => NamesClashOnlyAcross
  <2> SUFFICES ASSUME ShellInv,
                      NEW j \in 1..Len(processes), NEW k \in 1..Len(processes),
                      processes[j].name = processes[k].name,
                      processes[j].byUser = processes[k].byUser
               PROVE  j = k
    BY DEF NamesClashOnlyAcross
  <2>1. CASE processes[j].byUser
    BY <2>1 DEF ShellInv, NameInv, UserNamesDiffer
  <2>2. CASE ~processes[j].byUser
    <3>1. Populated(j) /\ Populated(k)
      BY <2>2 DEF Populated
    <3>2. processes[j].id = processes[k].id
      BY <3>1 DEF ShellInv, NameInv, NamesFollowIds
    <3> QED
      BY <3>1, <3>2 DEF ShellInv, PopulationInv, IdsDiffer
  <2> QED
    BY <2>1, <2>2
<1> QED
  BY <1>1, ShellInvariant, PTL

===============================================================================

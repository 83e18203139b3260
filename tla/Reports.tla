-------------------------------- MODULE Reports --------------------------------
(***************************************************************************)
(* screen -ls and report-util: Scheduler::listProcesses collects and       *)
(* prints a list in several steps, with Scheduler::queueMutex held, and    *)
(* keeps its lines; generateReport writes the lines kept. Both run on the  *)
(* main thread, so never at the same time nor during start() or stop().    *)
(*                                                                         *)
(* What the other threads may do during a list depends on the scheduler:   *)
(* the modules that compose it with Reports say so. A line is the process  *)
(* and the core it shows; its progress and times are left out.             *)
(***************************************************************************)
EXTENDS Scheduler

VARIABLES
  lister,         \* "idle", or the part of listProcesses the main thread is in
  scanned,        \* entries of the running list read so far
  active,         \* the processes found, by the core they were found under
  lastPrinted     \* lastPrintedProcessLines: what the lines kept show

reportVars == <<lister, scanned, active, lastPrinted>>

NoLines == [used |-> {}, running |-> << >>, finished |-> << >>]

Listing == lister # "idle"

ReportsInit ==
  /\ lister = "idle"
  /\ scanned = 0
  /\ active = << >>
  /\ lastPrinted = NoLines

BeginList ==
  /\ ~Listing
  /\ mainPc = "started"
  /\ QueueMutexFree
  /\ lister' = "scanning"
  /\ lastPrinted' = NoLines
  /\ UNCHANGED <<scanned, active>>

Counts_Finished(p) == assignedCore[p] \in Cores

\* A process is shown if it has a core and has not finished.
Counts(p) == assignedCore[p] \in Cores /\ ~isFinished[p]

\* getCurrentlyActiveProcessesPerCore reads the running list, entry by entry,
\* and takes the first process that counts of each core.
ScanProcess ==
  /\ lister = "scanning"
  /\ scanned < Len(runningList)
  /\ scanned' = scanned + 1
  /\ LET p == runningList[scanned + 1]
         cores == DOMAIN active \cup {c \in Cores : Counts(p) /\ assignedCore[p] = c}
     IN  active' = [c \in cores |-> IF c \in DOMAIN active THEN active[c] ELSE p]
  /\ UNCHANGED <<lister, lastPrinted>>

\* Then getFinishedProcesses copies the finished list, once per id ...
EndScan ==
  /\ lister = "scanning"
  /\ scanned >= Len(runningList)
  /\ lister' = "counting"
  /\ lastPrinted' = [lastPrinted EXCEPT !.finished = FoldLeft(WithProcess, << >>, finishedList)]
  /\ UNCHANGED <<scanned, active>>

\* ... the cores of the processes found are counted, as they are now, and the
\* header lines printed ...
CountCores ==
  /\ lister = "counting"
  /\ lister' = "printing"
  /\ lastPrinted' = [lastPrinted EXCEPT !.used = {assignedCore[p] : p \in Range(active)}]
  /\ UNCHANGED <<scanned, active>>

\* ... and the lines of the processes printed, by core, each with the core it
\* has when its line is made; a second process of an id is left out.
PrintLine ==
  /\ lister = "printing"
  /\ active # << >>
  /\ LET core == CHOOSE c \in DOMAIN active : \A d \in DOMAIN active : c <= d
         p == active[core]
     IN  /\ lastPrinted' = [lastPrinted EXCEPT !.running =
              IF \E i \in 1..Len(@) : IdOf[@[i].process] = IdOf[p] THEN @
              ELSE Append(@, [process |-> p, core |-> assignedCore[p]])]
         /\ active' = [c \in DOMAIN active \ {core} |-> active[c]]
  /\ UNCHANGED <<lister, scanned>>

EndList ==
  /\ lister = "printing"
  /\ active = << >>
  /\ lister' = "idle"
  /\ scanned' = 0
  /\ UNCHANGED <<active, lastPrinted>>

\* generateReport, which waits for no list to be under way: what it writes to
\* csopesy.txt, whose former content is lost and which nothing reads back.
Report == lastPrinted

ListProgress == ScanProcess \/ EndScan \/ CountCores \/ PrintLine \/ EndList

ReportStep == BeginList \/ ListProgress

===============================================================================

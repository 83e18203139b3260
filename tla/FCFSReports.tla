------------------------------ MODULE FCFSReports ------------------------------
(***************************************************************************)
(* FCFS with the reports of the main thread. The queueMutex that           *)
(* listProcesses holds is the one the scheduler's threads lock, so during  *)
(* a list they do only what needs no lock.                                 *)
(***************************************************************************)
EXTENDS FCFS, Reports

reportingVars == <<vars, reportVars>>

ReportingInit == Init /\ ReportsInit

WhileListing_Anything == Next /\ UNCHANGED mainPc

\* Workers go on executing the processes they hold.
WhileListing ==
  \/ \E c \in Cores : Execute(c)
  \/ \E t \in Threads : SpuriousWakeup(t) /\ UNCHANGED <<handlerVars, fcfsVars>>

ReportingNext ==
  \/ ~Listing /\ Next /\ UNCHANGED reportVars
  \/ Listing /\ WhileListing /\ UNCHANGED reportVars
  \/ ReportStep /\ UNCHANGED vars

\* The main thread ends a list it has begun.
ReportingSpec ==
  /\ ReportingInit
  /\ [][ReportingNext]_reportingVars
  /\ ThreadFairness
  /\ WF_reportingVars(ListProgress /\ UNCHANGED vars)
-------------------------------------------------------------------------------
(* Properties *)

\* While a list is made, the cores it counts as used are taken, each by one
\* process: CPU utilization is that of every moment until it is printed.
UsedCoresAreTaken ==
  Listing => \A c \in lastPrinted.used \cup DOMAIN active : ~coreAvailable[c]

\* When a list ends it (and the report that may follow) shows every process that
\* is then dispatched and not finished, on its core, as many as it counts cores
\* in use, and no core twice.
ListIsComplete ==
  lister = "printing" /\ active = << >> =>
    LET lines == Report.running
    IN  /\ \A p \in Processes : Dispatched(p) /\ ~isFinished[p] =>
             [process |-> p, core |-> assignedCore[p]] \in ToSet(lines)
        /\ Len(lines) = Cardinality(Report.used)
        /\ \A i, j \in 1..Len(lines) : lines[i].core = lines[j].core => i = j

===============================================================================

---------------------------- MODULE ConsoleManager ----------------------------
(***************************************************************************)
(* The screens: which console and which process each name stands for, and  *)
(* the console that draw() shows. A console is identified by the process   *)
(* it was made with, a number from 1 on; the console of the main menu is   *)
(* MainConsole. The sizes and times a screen displays are left out.        *)
(*                                                                         *)
(* The populate threads and the main thread use the maps and the pointer   *)
(* without a lock, so each operator below is one access. addNewScreen is   *)
(* EnterSession, EnterProcess, a reading of screenSessions[name] and       *)
(* SetCurrent; switchConsole is the last two. That two accesses at once    *)
(* may break a map or a pointer is left out.                               *)
(***************************************************************************)
EXTENDS Integers

CONSTANT MAIN    \* the name of the main menu's session

VARIABLES
  screenSessions,     \* from names to consoles
  screenProcesses,    \* from names to processes
  currentConsole

consoleVars == <<screenSessions, screenProcesses, currentConsole>>

MainConsole == 0

ConsoleInit ==
  /\ screenSessions = [name \in {MAIN} |-> MainConsole]
  /\ screenProcesses = << >>
  /\ currentConsole = MainConsole

\* The map with an entry made, or replaced.
WithEntry(map, name, process) ==
  [n \in DOMAIN map \cup {name} |-> IF n = name THEN process ELSE map[n]]

\* A console is made for the process, and entered ...
EnterSession(name, process) ==
  /\ screenSessions' = WithEntry(screenSessions, name, process)
  /\ UNCHANGED <<screenProcesses, currentConsole>>

\* ... then the process; neither looks at what the other map has.
EnterProcess(name, process) ==
  /\ screenProcesses' = WithEntry(screenProcesses, name, process)
  /\ UNCHANGED <<screenSessions, currentConsole>>

SetCurrent(console) ==
  /\ currentConsole' = console
  /\ UNCHANGED <<screenSessions, screenProcesses>>

findScreenSessions_None(name) == FALSE

findScreenSessions(name) == name \in DOMAIN screenSessions

\* getScreenProcess finds one
HasScreenProcess(name) == name \in DOMAIN screenProcesses

===============================================================================

-------------------------------- MODULE Process --------------------------------
(***************************************************************************)
(* A Process, its instructions and its symbol table: executeNextInstruction *)
(* called again and again by the worker that holds the process. Only that  *)
(* worker touches these fields, so one call is one action.                 *)
(*                                                                         *)
(* Names are the strings an instruction can hold; those that are all       *)
(* digits are modelled by the number they spell, and read as a number. The *)
(* table keeps values as decimal strings; they are the numbers here. A     *)
(* line of the log file is the kind of instruction and what it shows       *)
(* besides the words of the instruction itself; times and cores are left   *)
(* out, and so is another process with the same log file (see Shell).      *)
(***************************************************************************)
EXTENDS SymbolTable, SequencesExt

CONSTANTS
  Variables,        \* names that are not all digits
  Literals,         \* names that are all digits, as numbers
  SleepCycles,      \* the arguments of SLEEP instructions
  MaxInstructions   \* bound: the length of the longest program considered

Word == 65536   \* uint16_t
Byte == 256     \* uint8_t

Names == Variables \cup Literals

ASSUME ProcessAssumption ==
  /\ Literals \subseteq Nat
  /\ Variables \cap Nat = {}
  /\ SleepCycles \subseteq Nat
  /\ MaxInstructions \in Nat

Instructions ==
  [op : {"PRINT"}, text : Names]
    \cup [op : {"DECLARE"}, var : Variables, value : {v \in Literals : v < Word}]
    \cup [op : {"ADD", "SUBTRACT"}, var1 : Names, var2 : Names, var3 : Names]
    \cup [op : {"SLEEP"}, cycles : SleepCycles]

VARIABLES
  instructionList,
  currentInstruction,      \* how many instructions have been executed
  symbolTable,             \* from the declared names to their values
  isSleeping,
  remainingSleepCycles,
  isFinished,
  log                      \* the lines of the log file

vars == <<instructionList, currentInstruction, symbolTable, isSleeping,
          remainingSleepCycles, isFinished, log>>

\* populateProcesses adds all instructions before the scheduler has the process.
Init ==
  /\ instructionList \in BoundedSeq(Instructions, MaxInstructions)
  /\ currentInstruction = 0
  /\ symbolTable = EmptyTable
  /\ isSleeping = FALSE
  /\ remainingSleepCycles = 0
  /\ isFinished = FALSE
  /\ log = << >>

-------------------------------------------------------------------------------
(* The instructions as functions of the symbol table *)

\* performDeclaration
Declared(table, name, value) == insertVariable(table, name, value)

\* getValue: a name that is no number and not in the table is declared as 0.
WithOperand(table, name) ==
  IF name \in Literals THEN table ELSE Declared(table, name, 0)

ValueOf(table, name) == 
  IF name \in Literals THEN name % Word ELSE retrieveValue(table, name)

Arithmetic_Unbounded(op, a, b) == IF op = "ADD" THEN a + b ELSE a - b

\* The int result converted to uint16_t.
Arithmetic(op, a, b) == (IF op = "ADD" THEN a + b ELSE a - b) % Word

\* AddInstruction::add, SubtractInstruction::subtract
Computed(table, i) ==
  LET declared == WithOperand(WithOperand(Declared(table, i.var1, 0), i.var2), i.var3)
  IN  updateVariable(declared, i.var1,
        Arithmetic(i.op, ValueOf(declared, i.var2), ValueOf(declared, i.var3)))

\* execute, of each class of instructions. PRINT reads the table only, into a
\* message nobody sees.
AfterInstruction(table, i) ==
  CASE i.op = "DECLARE" -> Declared(table, i.var, i.value)
    [] i.op \in {"ADD", "SUBTRACT"} -> Computed(table, i)
    [] OTHER -> table

\* getDetails, and the line of a call that finds the process asleep. The value
\* an arithmetic instruction shows is that of its first variable.
Details(i, table, sleepCycles) ==
  [op |-> i.op, shows |->
     CASE i.op = "PRINT" -> i.text
       [] i.op = "DECLARE" -> retrieveValue(table, i.var)
       [] i.op \in {"ADD", "SUBTRACT"} -> retrieveValue(table, i.var1)
       [] i.op = "SLEEP" -> sleepCycles]

AsleepLine(sleepCycles) == [op |-> "ASLEEP", shows |-> sleepCycles]

-------------------------------------------------------------------------------
(* executeNextInstruction *)

StillAsleep_OneMore(cycles) == cycles >= 0

StillAsleep(cycles) == cycles > 0

SleepOn ==
  /\ isSleeping
  /\ remainingSleepCycles' = remainingSleepCycles - 1
  /\ isSleeping' = StillAsleep(remainingSleepCycles - 1)
  /\ log' = Append(log, AsleepLine(remainingSleepCycles))
  /\ UNCHANGED <<instructionList, currentInstruction, symbolTable, isFinished>>

setSleeping_Wide(cycles) ==
  /\ isSleeping' = TRUE
  /\ remainingSleepCycles' = cycles

\* SleepInstruction::sleep passes its argument through uint8_t.
setSleeping(cycles) ==
  /\ isSleeping' = TRUE
  /\ remainingSleepCycles' = cycles % Byte

logInstruction_BeforeExecuting(i) ==
  log' = Append(log, Details(i, symbolTable, remainingSleepCycles))

\* The instruction is logged after it has been executed.
logInstruction(i) ==
  log' = Append(log, Details(i, symbolTable', remainingSleepCycles'))

ExecuteInstruction ==
  /\ ~isSleeping
  /\ currentInstruction < Len(instructionList)
  /\ LET i == instructionList[currentInstruction + 1]
     IN  /\ symbolTable' = AfterInstruction(symbolTable, i)
         /\ IF i.op = "SLEEP" THEN setSleeping(i.cycles)
            ELSE UNCHANGED <<isSleeping, remainingSleepCycles>>
         /\ logInstruction(i)
  /\ currentInstruction' = currentInstruction + 1
  /\ UNCHANGED <<instructionList, isFinished>>

\* The call after the last instruction finds that there is none left.
Finish ==
  /\ ~isSleeping
  /\ currentInstruction >= Len(instructionList)
  /\ isFinished' = TRUE
  /\ UNCHANGED <<instructionList, currentInstruction, symbolTable, isSleeping,
                 remainingSleepCycles, log>>

\* The workers call it only while the process has not finished.
executeNextInstruction ==
  /\ ~isFinished
  /\ SleepOn \/ ExecuteInstruction \/ Finish

Next == executeNextInstruction

Spec == Init /\ [][Next]_vars

\* A process that has not finished is executed again: what the schedulers'
\* liveness properties promise it.
FairSpec == Spec /\ WF_vars(Next)
-------------------------------------------------------------------------------
(* Properties *)

\* Values stay in uint16_t, and the sleep counter in what uint8_t and the one
\* decrement below zero that SLEEP 0 allows can make of it.
TypeOK ==
  /\ instructionList \in Seq(Instructions)
  /\ currentInstruction \in 0..Len(instructionList)
  /\ DOMAIN symbolTable \subseteq Names
  /\ \A name \in DOMAIN symbolTable : symbolTable[name] \in 0..(Word - 1)
  /\ isSleeping \in BOOLEAN
  /\ remainingSleepCycles \in -1..(Byte - 1)
  /\ isFinished \in BOOLEAN

\* The calls that instruction i takes, with those it sleeps through. A sleeping
\* process notices the end of its sleep in a call, so SLEEP 0, and any multiple
\* of 256, costs as much as SLEEP 1.
AtLeastOne(n) == IF n < 1 THEN 1 ELSE n
Calls(i) == IF i.op = "SLEEP" THEN 1 + AtLeastOne(i.cycles % Byte) ELSE 1

\* The calls still needed: the sleep going on, the instructions left, the last.
CallsLeft ==
  IF isFinished THEN 0
  ELSE (IF isSleeping THEN AtLeastOne(remainingSleepCycles) ELSE 0)
         + FoldLeft(LAMBDA sum, i : sum + Calls(i), 0,
                    SubSeq(instructionList, currentInstruction + 1, Len(instructionList)))
         + 1

\* Every call counts: one that does not finish the process brings its end nearer
\* by exactly one call, through sleeps and from an instruction to the next.
EveryCallCounts == [][CallsLeft' = CallsLeft - 1]_vars

ACountdown == INSTANCE Task WITH ticksLeft <- CallsLeft

\* A process is a countdown of executeNextInstruction calls, whose length its
\* instruction list fixes, and it finishes: what RoundRobin and FCFS assume.
ImplementsTask == ACountdown!Spec

-------------------------------------------------------------------------------
(* The instructions, without a symbol table: over the integers, for what has
   been executed so far. *)

Mentioned(k, name) ==
  LET i == instructionList[k]
  IN  \/ i.op = "DECLARE" /\ i.var = name
      \/ i.op \in {"ADD", "SUBTRACT"} /\ (i.var1 = name \/ name \in {i.var2, i.var3} \ Literals)

Assigns(k, name) ==
  LET i == instructionList[k]
  IN  \/ i.op \in {"ADD", "SUBTRACT"} /\ i.var1 = name
      \/ /\ i.op = "DECLARE" /\ i.var = name
         /\ \A j \in 1..(k - 1) : ~Mentioned(j, name)

\* exact[k][name] is the integer that name stands for after k instructions.
exact[k \in 0..MaxInstructions] ==
  IF k = 0 THEN [name \in Names |-> 0]
  ELSE LET i == instructionList[k]
           Value(name) == IF name \in Literals THEN name ELSE exact[k - 1][name]
       IN  [name \in Names |->
              IF ~Assigns(k, name) THEN exact[k - 1][name]
              ELSE IF i.op = "DECLARE" THEN i.value
              ELSE IF i.op = "ADD" THEN Value(i.var2) + Value(i.var3)
              ELSE Value(i.var2) - Value(i.var3)]

\* The symbol table holds exactly the names that executed instructions have
\* mentioned, each with its exact value modulo 2^16: wrapping at every step
\* loses nothing, and a declaration counts only for a name not mentioned before.
TableIsExact ==
  /\ DOMAIN symbolTable =
       {name \in Names : \E k \in 1..currentInstruction : Mentioned(k, name)}
  /\ \A name \in DOMAIN symbolTable :
       symbolTable[name] = exact[currentInstruction][name] % Word

\* What the log says of instruction k, by the exact values, with the lines of
\* the sleep that it begins.
LinesOf(k) ==
  LET i == instructionList[k]
      sleep == i.cycles % Byte
      Line(value) == <<[op |-> i.op, shows |-> value]>>
  IN  CASE i.op = "PRINT" -> Line(i.text)
        [] i.op = "DECLARE" -> Line(exact[k][i.var] % Word)
        [] i.op \in {"ADD", "SUBTRACT"} -> Line(exact[k][i.var1] % Word)
        [] i.op = "SLEEP" ->
             Line(sleep) \o [n \in 1..AtLeastOne(sleep) |-> AsleepLine(sleep - n + 1)]

\* `displays that process's instruction logs' (README.md:56): the log has the
\* lines of the executed instructions in their order, with the values they
\* produced, and counts down each sleep, except for the calls yet to be slept.
LogIsExact ==
  LET lines == FlattenSeq([k \in 1..currentInstruction |-> LinesOf(k)])
      toSleep == IF isSleeping THEN AtLeastOne(remainingSleepCycles) ELSE 0
  IN  log = SubSeq(lines, 1, Len(lines) - toSleep)

===============================================================================

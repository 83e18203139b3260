----------------------------- MODULE ProcessProofs -----------------------------
(***************************************************************************)
(* A process computes what its instructions say, whatever they are: its    *)
(* symbol table and its log are exact modulo 2^16, and every call of       *)
(* executeNextInstruction brings its end one call nearer. For every        *)
(* program over every set of names and literals.                           *)
(***************************************************************************)
EXTENDS Process, ListLemmas, NaturalsInduction

-------------------------------------------------------------------------------
(* FlattenSeq *)

\* The recursive function of which FlattenSeq takes the last value.
Flat(seqs) ==
  CHOOSE g : g = [i \in 1..Len(seqs) |-> IF i = 1 THEN seqs[i] ELSE g[i - 1] \o seqs[i]]

\* FlattenSeq is the last value of the function Flat.
LEMMA FlattenIsFlat ==
  ASSUME NEW seqs
  PROVE  FlattenSeq(seqs) = IF Len(seqs) = 0 THEN seqs ELSE Flat(seqs)[Len(seqs)]
BY DEF FlattenSeq, Flat

\* The function takes one list more at each index.
LEMMA FlatIsInductive ==
  ASSUME NEW S, NEW seqs \in Seq(S)
  PROVE  Flat(seqs) = [i \in 1..Len(seqs) |->
                         IF i = 1 THEN seqs[i] ELSE Flat(seqs)[i - 1] \o seqs[i]]
<1> DEFINE Def(v, i) == v \o seqs[i]
           f == Flat(seqs)
<1>1. FiniteNatInductiveDefHypothesis(f, seqs[1], Def, 1, Len(seqs))
  <2>1. \A g : [i \in 1..Len(seqs) |-> IF i = 1 THEN seqs[i] ELSE g[i - 1] \o seqs[i]]
             = [i \in 1..Len(seqs) |-> IF i = 1 THEN seqs[1] ELSE Def(g[i - 1], i)]
    OBVIOUS
  <2> QED
    BY <2>1, Zenon DEF FiniteNatInductiveDefHypothesis, Flat
<1>2. Len(seqs) \in Nat /\ 1 \in Nat
  BY LenProperties
<1> HIDE DEF f, Def
<1>3. FiniteNatInductiveDefConclusion(f, seqs[1], Def, 1, Len(seqs))
  BY <1>1, <1>2, FiniteNatInductiveDef
<1>4. f = [i \in 1..Len(seqs) |-> IF i = 1 THEN seqs[1] ELSE f[i - 1] \o seqs[i]]
  BY <1>3 DEF FiniteNatInductiveDefConclusion, Def
<1> QED
  BY <1>4 DEF f

\* One list more is appended to what the others flatten to.
LEMMA FlattenAppend ==
  ASSUME NEW S, NEW seqs \in Seq(Seq(S)), NEW e \in Seq(S)
  PROVE  /\ FlattenSeq(seqs) \in Seq(S)
         /\ FlattenSeq(Append(seqs, e)) = FlattenSeq(seqs) \o e
<1> DEFINE n == Len(seqs)
           more == Append(seqs, e)
           f == Flat(seqs)
           g == Flat(more)
<1>1. /\ n \in Nat
      /\ more \in Seq(Seq(S)) /\ Len(more) = n + 1
      /\ more[n + 1] = e /\ \A i \in 1..n : more[i] = seqs[i]
      /\ \A i \in 1..n : seqs[i] \in Seq(S)
  BY AppendProperties, LenProperties, ElementOfSeq
<1>2. /\ \A i \in 1..n : f[i] = IF i = 1 THEN seqs[i] ELSE f[i - 1] \o seqs[i]
      /\ \A i \in 1..(n + 1) : g[i] = IF i = 1 THEN more[i] ELSE g[i - 1] \o more[i]
  <2>1. f = [i \in 1..n |-> IF i = 1 THEN seqs[i] ELSE f[i - 1] \o seqs[i]]
    BY FlatIsInductive
  <2>2. g = [i \in 1..Len(more) |-> IF i = 1 THEN more[i] ELSE g[i - 1] \o more[i]]
    BY <1>1, FlatIsInductive
  <2> HIDE DEF f, g, more
  <2> QED
    BY <1>1, <2>1, <2>2
<1>3. /\ FlattenSeq(seqs) = IF n = 0 THEN seqs ELSE f[n]
      /\ FlattenSeq(more) = g[n + 1]
  <2> HIDE DEF more
  <2>1. n + 1 # 0
    BY <1>1
  <2> QED
    BY <1>1, <2>1, FlattenIsFlat
<1> HIDE DEF f, g, more, n
<1> DEFINE T == {i \in Nat : i \in 1..n => f[i] \in Seq(S) /\ g[i] = f[i]}
<1>4. Nat \subseteq T
  <2>1. 0 \in T
    OBVIOUS
  <2>2. ASSUME NEW i \in Nat, i \in T
        PROVE  i + 1 \in T
    <3> SUFFICES ASSUME i + 1 \in 1..n
                 PROVE  f[i + 1] \in Seq(S) /\ g[i + 1] = f[i + 1]
      OBVIOUS
    <3>1. CASE i = 0
      BY <1>1, <1>2, <3>1
    <3>2. CASE i # 0
      <4>1. i \in 1..n /\ i + 1 \in 1..(n + 1) /\ (i + 1) - 1 = i /\ i + 1 # 1
        BY <1>1, <3>2
      <4>2. f[i + 1] = f[i] \o seqs[i + 1] /\ g[i + 1] = g[i] \o more[i + 1]
        BY <1>2, <4>1
      <4>3. f[i] \in Seq(S) /\ g[i] = f[i] /\ seqs[i + 1] \in Seq(S)
        BY <1>1, <2>2, <4>1
      <4> QED
        BY <1>1, <4>2, <4>3, ConcatProperties, ZenonT(30)
    <3> QED
      BY <3>1, <3>2
  <2> HIDE DEF T
  <2> QED
    BY <2>1, <2>2, NatSetInduction
<1>5. \A i \in 1..n : f[i] \in Seq(S) /\ g[i] = f[i]
  BY <1>4
<1>6. CASE n = 0
  <2>1. seqs = << >> /\ FlattenSeq(seqs) = << >> /\ FlattenSeq(more) = e
    BY <1>1, <1>2, <1>3, <1>6, EmptySeq DEF n
  <2> QED
    <3>1. << >> \in Seq(S) /\ << >> \o e = e
      BY EmptySeq, ConcatEmptySeq
    <3>2. FlattenSeq(seqs) \in Seq(S) /\ FlattenSeq(seqs) \o e = e
      BY <2>1, <3>1
    <3>3. FlattenSeq(Append(seqs, e)) = e
      BY <2>1 DEF more
    <3> QED
      BY <3>2, <3>3, Zenon
<1>7. CASE n # 0
  <2>1. n \in 1..n /\ n + 1 \in 1..(n + 1) /\ n + 1 # 1 /\ (n + 1) - 1 = n
    BY <1>1, <1>7
  <2>2. FlattenSeq(more) = f[n] \o e
    <3>1. g[n + 1] = g[n] \o more[n + 1]
      BY <1>2, <2>1
    <3>2. g[n] = f[n] /\ more[n + 1] = e
      BY <1>1, <1>5, <2>1
    <3> QED
      BY <1>3, <3>1, <3>2
  <2>3. FlattenSeq(seqs) = f[n] /\ f[n] \in Seq(S)
    BY <1>3, <1>5, <1>7, <2>1
  <2> QED
    BY <2>2, <2>3 DEF more
<1> QED
  BY <1>6, <1>7

-------------------------------------------------------------------------------
(* Instructions, and the arithmetic of uint16_t *)

\* The values of uint16_t, as an inequality.
LEMMA WordRange ==
  \A v : v \in 0..(Word - 1) <=> v \in Nat /\ v < Word
<1>1. Word \in Nat
  BY DEF Word
<1> QED
  BY <1>1

\* The fields of each kind of instruction.
LEMMA InstructionCases ==
  ASSUME NEW i \in Instructions
  PROVE  \/ i.op = "PRINT" /\ i.text \in Names
         \/ i.op = "DECLARE" /\ i.var \in Variables /\ i.value \in Literals
              /\ i.value \in 0..(Word - 1)
         \/ i.op \in {"ADD", "SUBTRACT"} /\ i.var1 \in Names /\ i.var2 \in Names /\ i.var3 \in Names
         \/ i.op = "SLEEP" /\ i.cycles \in SleepCycles /\ i.cycles \in Nat
<1>1. CASE i \in [op : {"PRINT"}, text : Names]
  BY <1>1
<1>2. CASE i \in [op : {"DECLARE"}, var : Variables, value : {v \in Literals : v < Word}]
  <2>1. i.op = "DECLARE" /\ i.var \in Variables /\ i.value \in Literals /\ i.value < Word
    BY <1>2
  <2>2. PICK v : v = i.value
    OBVIOUS
  <2>3. v \in Nat /\ v < Word
    BY <2>1, <2>2, ProcessAssumption
  <2>4. v \in 0..(Word - 1)
    BY <2>3, WordRange
  <2> QED
    BY <2>1, <2>2, <2>4
<1>3. CASE i \in [op : {"ADD", "SUBTRACT"}, var1 : Names, var2 : Names, var3 : Names]
  BY <1>3
<1>4. CASE i \in [op : {"SLEEP"}, cycles : SleepCycles]
  BY <1>4, ProcessAssumption
<1> QED
  BY <1>1, <1>2, <1>3, <1>4 DEF Instructions

\* Reducing the operands first makes no difference.
LEMMA WrappedArithmetic ==
  ASSUME NEW op, NEW a \in Int, NEW b \in Int
  PROVE  /\ Arithmetic(op, a % Word, b % Word) = (IF op = "ADD" THEN a + b ELSE a - b) % Word
         /\ a % Word \in 0..(Word - 1)
         /\ Arithmetic(op, a, b) \in 0..(Word - 1)
         /\ 0 % Word = 0
         /\ a \in 0..(Word - 1) => a % Word = a
<1>0. \A n \in Int : n % Word \in 0..(Word - 1) /\ (n \in 0..(Word - 1) => n % Word = n)
  <2> TAKE n \in Int
  <2>1. n % Word \in Nat /\ n % Word < Word /\ (n \in Nat /\ n < Word => n % Word = n)
    BY DEF Word
  <2> QED
    BY <2>1, WordRange
<1>1. /\ a % Word \in 0..(Word - 1) /\ b % Word \in 0..(Word - 1)
      /\ (a + b) % Word \in 0..(Word - 1) /\ (a - b) % Word \in 0..(Word - 1)
      /\ 0 % Word = 0
      /\ a \in 0..(Word - 1) => a % Word = a
  <2>1. a + b \in Int /\ a - b \in Int /\ 0 \in Int /\ 0 \in Nat
    OBVIOUS
  <2>2. 0 < Word
    BY DEF Word
  <2>3. 0 \in 0..(Word - 1)
    BY <2>1, <2>2, WordRange
  <2> QED
    BY <1>0, <2>1, <2>3
<1>2. ((a % Word) + (b % Word)) % Word = (a + b) % Word
  BY DEF Word
<1>3. ((a % Word) - (b % Word)) % Word = (a - b) % Word
  BY DEF Word
<1> QED
  BY <1>1, <1>2, <1>3 DEF Arithmetic

\* A table with names declared, those it had keeping their values.
Extends(new, table, names, value) ==
  /\ DOMAIN new = DOMAIN table \cup names
  /\ \A n \in DOMAIN new : new[n] = IF n \in DOMAIN table THEN table[n] ELSE value

\* insertVariable declares the name if it is new and changes nothing else.
LEMMA Inserted ==
  ASSUME NEW table, NEW name, NEW value
  PROVE  Extends(insertVariable(table, name, value), table, {name}, value)
<1>1. CASE name \in DOMAIN table
  BY <1>1 DEF Extends, insertVariable, checkVarExists
<1>2. CASE name \notin DOMAIN table
  <2>1. PICK new : new = [n \in DOMAIN table \cup {name} |-> IF n = name THEN value ELSE table[n]]
    OBVIOUS
  <2>2. insertVariable(table, name, value) = new
    BY <1>2, <2>1 DEF insertVariable, checkVarExists
  <2> QED
    BY <1>2, <2>1, <2>2 DEF Extends
<1> QED
  BY <1>1, <1>2

\* updateVariable changes one name.
LEMMA Updated ==
  ASSUME NEW table, NEW name \in DOMAIN table, NEW value
  PROVE  /\ DOMAIN updateVariable(table, name, value) = DOMAIN table
         /\ \A n \in DOMAIN table :
              updateVariable(table, name, value)[n] = IF n = name THEN value ELSE table[n]
BY DEF updateVariable, checkVarExists

\* An operand that is not declared becomes a variable with 0.
LEMMA OperandDeclared ==
  ASSUME NEW table, NEW name
  PROVE  Extends(WithOperand(table, name), table, {name} \ Literals, 0)
<1>1. CASE name \in Literals
  BY <1>1 DEF WithOperand, Extends
<1>2. CASE name \notin Literals
  <2>1. {name} \ Literals = {name}
    BY <1>2
  <2> QED
    BY <1>2, <2>1, Inserted DEF WithOperand, Declared
<1> QED
  BY <1>1, <1>2

\* The value of an operand that is declared as 0 if it is not in the table.
Operand(table, name) ==
  IF name \in Literals THEN name % Word ELSE IF name \in DOMAIN table THEN table[name] ELSE 0

\* AddInstruction::add and SubtractInstruction::subtract declare their first
\* variable and their operands and change the first variable only.
LEMMA ComputedTable ==
  ASSUME NEW table, NEW i
  PROVE  /\ DOMAIN Computed(table, i) = DOMAIN table \cup {i.var1} \cup ({i.var2, i.var3} \ Literals)
         /\ Computed(table, i)[i.var1] = 
              Arithmetic(i.op, Operand(table, i.var2), Operand(table, i.var3))
         /\ \A n \in DOMAIN Computed(table, i) : n # i.var1 =>
              Computed(table, i)[n] = IF n \in DOMAIN table THEN table[n] ELSE 0
<1>1. PICK t1 : t1 = Declared(table, i.var1, 0)
  OBVIOUS
<1>2. PICK t2 : t2 = WithOperand(t1, i.var2)
  OBVIOUS
<1>3. PICK t3 : t3 = WithOperand(t2, i.var3)
  OBVIOUS
<1>4. PICK v2 : v2 = ValueOf(t3, i.var2)
  OBVIOUS
<1>5. PICK v3 : v3 = ValueOf(t3, i.var3)
  OBVIOUS
<1>6. Computed(table, i) = updateVariable(t3, i.var1, Arithmetic(i.op, v2, v3))
  BY <1>1, <1>2, <1>3, <1>4, <1>5 DEF Computed
<1>7. Extends(t1, table, {i.var1}, 0)
  BY <1>1, Inserted DEF Declared
<1>8. Extends(t2, t1, {i.var2} \ Literals, 0)
  BY <1>2, OperandDeclared
<1>9. Extends(t3, t2, {i.var3} \ Literals, 0)
  BY <1>3, OperandDeclared
<1>10. /\ DOMAIN t3 = DOMAIN table \cup {i.var1} \cup ({i.var2, i.var3} \ Literals)
       /\ \A n \in DOMAIN t3 : t3[n] = IF n \in DOMAIN table THEN table[n] ELSE 0
  BY <1>7, <1>8, <1>9 DEF Extends
<1>11. v2 = Operand(table, i.var2) /\ v3 = Operand(table, i.var3)
  BY <1>4, <1>5, <1>10 DEF ValueOf, Operand, retrieveValue, checkVarExists
<1>12. /\ DOMAIN Computed(table, i) = DOMAIN t3
       /\ \A n \in DOMAIN t3 : Computed(table, i)[n] =
            IF n = i.var1 THEN Arithmetic(i.op, v2, v3) ELSE t3[n]
  BY <1>6, <1>10, Updated
<1> QED
  BY <1>10, <1>11, <1>12

-------------------------------------------------------------------------------
(* The exact values *)

BoundedProgram ==
  /\ instructionList \in Seq(Instructions)
  /\ Len(instructionList) <= MaxInstructions

ExactOperand(values, name) == IF name \in Literals THEN name ELSE values[name]

\* What instruction k makes of the exact values.
After(values, k) ==
  LET i == instructionList[k]
  IN  [name \in Names |->
         IF ~Assigns(k, name) THEN values[name]
         ELSE IF i.op = "DECLARE" THEN i.value
         ELSE IF i.op = "ADD" THEN ExactOperand(values, i.var2) + ExactOperand(values, i.var3)
         ELSE ExactOperand(values, i.var2) - ExactOperand(values, i.var3)]

\* The exact values after each instruction, from those before it.
LEMMA ExactStep ==
  /\ exact[0] = [name \in Names |-> 0]
  /\ \A k \in 1..MaxInstructions : exact[k] = After(exact[k - 1], k)
<1> DEFINE zero == [name \in Names |-> 0]
<1>1. FiniteNatInductiveDefHypothesis(exact, zero, After, 0, MaxInstructions)
  BY DEF FiniteNatInductiveDefHypothesis, exact, After, ExactOperand
<1>2. FiniteNatInductiveDefConclusion(exact, zero, After, 0, MaxInstructions)
  BY <1>1, FiniteNatInductiveDef, ProcessAssumption
<1> HIDE DEF zero
<1>3. exact = [k \in 0..MaxInstructions |-> IF k = 0 THEN zero ELSE After(exact[k - 1], k)]
  BY <1>2 DEF FiniteNatInductiveDefConclusion
<1>4. 0 \in 0..MaxInstructions /\ \A k \in 1..MaxInstructions : k \in 0..MaxInstructions /\ k # 0
  BY ProcessAssumption
<1> QED
  BY <1>3, <1>4 DEF zero

\* The exact values after one more instruction, kind by kind.
LEMMA ExactAfter ==
  ASSUME BoundedProgram, NEW k \in 0..Len(instructionList), k # 0,
         NEW i, i = instructionList[k], NEW name \in Names
  PROVE  /\ i \in Instructions
         /\ ~Mentioned(k, name) => exact[k][name] = exact[k - 1][name]
         /\ i.op \notin {"DECLARE", "ADD", "SUBTRACT"} => ~Mentioned(k, name)
         /\ i.op = "DECLARE" =>
              /\ Mentioned(k, name) <=> i.var = name
              /\ exact[k][name] =
                   IF i.var = name /\ \A j \in 1..(k - 1) : ~Mentioned(j, name) THEN i.value
                   ELSE exact[k - 1][name]
         /\ i.op \in {"ADD", "SUBTRACT"} =>
              /\ Mentioned(k, name) <=> i.var1 = name \/ name \in {i.var2, i.var3} \ Literals
              /\ exact[k][name] =
                   IF i.var1 # name THEN exact[k - 1][name]
                   ELSE IF i.op = "ADD"
                     THEN ExactOperand(exact[k - 1], i.var2) + ExactOperand(exact[k - 1], i.var3)
                     ELSE ExactOperand(exact[k - 1], i.var2) - ExactOperand(exact[k - 1], i.var3)
<1>1. k \in 1..MaxInstructions /\ k \in 1..Len(instructionList)
  BY ProcessAssumption, LenProperties DEF BoundedProgram
<1>2. i \in Instructions
  BY <1>1, ElementOfSeq DEF BoundedProgram
<1>3. PICK before : before = exact[k - 1]
  OBVIOUS
<1>4. exact[k] = After(before, k)
  BY <1>1, <1>3, ExactStep
<1>5. exact[k][name] =
        IF ~Assigns(k, name) THEN before[name]
        ELSE IF i.op = "DECLARE" THEN i.value
        ELSE IF i.op = "ADD" THEN ExactOperand(before, i.var2) + ExactOperand(before, i.var3)
        ELSE ExactOperand(before, i.var2) - ExactOperand(before, i.var3)
  BY <1>4 DEF After
<1>6. Assigns(k, name) <=>
        \/ i.op \in {"ADD", "SUBTRACT"} /\ i.var1 = name
        \/ i.op = "DECLARE" /\ i.var = name /\ \A j \in 1..(k - 1) : ~Mentioned(j, name)
  BY DEF Assigns
<1>7. Mentioned(k, name) <=>
        \/ i.op = "DECLARE" /\ i.var = name
        \/ i.op \in {"ADD", "SUBTRACT"} /\ (i.var1 = name \/ name \in {i.var2, i.var3} \ Literals)
  BY DEF Mentioned
<1> QED
  BY <1>2, <1>3, <1>5, <1>6, <1>7

\* Exact values are integers, and 0 for a name not mentioned yet.
LEMMA ExactTyped ==
  ASSUME BoundedProgram
  PROVE  \A k \in 0..Len(instructionList), name \in Names :
           /\ exact[k][name] \in Int
           /\ (\A j \in 1..k : ~Mentioned(j, name)) => exact[k][name] = 0
<1> DEFINE Good(k) == \A name \in Names :
             /\ exact[k][name] \in Int
             /\ (\A j \in 1..k : ~Mentioned(j, name)) => exact[k][name] = 0
           T == {k \in Nat : k \in 0..Len(instructionList) => Good(k)}
<1>1. 0 \in T
  BY ExactStep
<1>2. ASSUME NEW m \in Nat, m \in T
      PROVE  m + 1 \in T
  <2> SUFFICES ASSUME m + 1 \in 0..Len(instructionList), NEW name \in Names
               PROVE  /\ exact[m + 1][name] \in Int
                      /\ (\A j \in 1..(m + 1) : ~Mentioned(j, name)) => exact[m + 1][name] = 0
    OBVIOUS
  <2>1. PICK k \in 0..Len(instructionList) : k = m + 1 /\ k - 1 = m /\ k # 0
    OBVIOUS
  <2>2. Good(m)
    <3>1. Len(instructionList) \in Nat
      BY LenProperties DEF BoundedProgram
    <3>2. m \in 0..Len(instructionList)
      BY <3>1
    <3> QED
      BY <1>2, <3>2
  <2>3. PICK i : i = instructionList[k]
    OBVIOUS
  <2>4. \A n \in Names : ExactOperand(exact[m], n) \in Int
    <3> TAKE n \in Names
    <3>1. n \in Literals => n \in Int
      BY ProcessAssumption
    <3>2. exact[m][n] \in Int
      BY <2>2
    <3> QED
      BY <3>1, <3>2 DEF ExactOperand
  <2>5. i \in Instructions /\ (~Mentioned(k, name) => exact[k][name] = exact[m][name])
    BY <2>1, <2>3, ExactAfter
  <2>6. exact[k][name] \in Int
    <3>1. CASE i.op = "DECLARE"
      <4>1. i.value \in Int
        BY <2>5, <3>1, InstructionCases, ProcessAssumption
      <4> QED
        BY <2>1, <2>2, <2>3, <3>1, <4>1, ExactAfter
    <3>2. CASE i.op \in {"ADD", "SUBTRACT"}
      <4>1. i.var2 \in Names /\ i.var3 \in Names
        BY <2>5, <3>2, InstructionCases
      <4>2. PICK a \in Int : a = ExactOperand(exact[m], i.var2)
        BY <2>4, <4>1
      <4>3. PICK b \in Int : b = ExactOperand(exact[m], i.var3)
        BY <2>4, <4>1
      <4>4. exact[k][name] = IF i.var1 # name THEN exact[m][name]
                             ELSE IF i.op = "ADD" THEN a + b ELSE a - b
        BY <2>1, <2>3, <3>2, <4>2, <4>3, ExactAfter
      <4> QED
        BY <2>2, <4>4
    <3>3. CASE i.op \notin {"DECLARE", "ADD", "SUBTRACT"}
      BY <2>1, <2>2, <2>3, <2>5, <3>3, ExactAfter
    <3> QED
      BY <3>1, <3>2, <3>3
  <2>7. ASSUME \A j \in 1..k : ~Mentioned(j, name)
        PROVE  exact[k][name] = 0
    <3>1. ~Mentioned(k, name) /\ \A j \in 1..m : ~Mentioned(j, name)
      BY <2>1, <2>7
    <3> QED
      BY <2>2, <2>5, <3>1
  <2> QED
    BY <2>1, <2>6, <2>7
<1>3. Nat \subseteq T
  <2> HIDE DEF T
  <2> QED
    BY <1>1, <1>2, NatSetInduction
<1> QED
  <2>1. \A k \in 0..Len(instructionList) : k \in Nat
    OBVIOUS
  <2> QED
    BY <1>3, <2>1

-------------------------------------------------------------------------------
(* The symbol table *)

\* What TableIsExact says of a table after k instructions.
TableAfter(table, k) ==
  /\ DOMAIN table = {name \in Names : \E j \in 1..k : Mentioned(j, name)}
  /\ \A name \in DOMAIN table : table[name] = exact[k][name] % Word

\* A name that is not in the table stands for 0.
LEMMA OperandIsExact ==
  ASSUME BoundedProgram, NEW k \in 0..Len(instructionList), NEW table, TableAfter(table, k),
         NEW name \in Names
  PROVE  /\ ExactOperand(exact[k], name) \in Int
         /\ Operand(table, name) = ExactOperand(exact[k], name) % Word
<1>1. CASE name \in Literals
  BY <1>1, ProcessAssumption DEF Operand, ExactOperand
<1>2. CASE name \notin Literals /\ name \in DOMAIN table
  BY <1>2, ExactTyped DEF Operand, ExactOperand, TableAfter
<1>3. CASE name \notin Literals /\ name \notin DOMAIN table
  <2>1. exact[k][name] = 0
    BY <1>3, ExactTyped DEF TableAfter
  <2> QED
    BY <1>3, <2>1, WrappedArithmetic DEF Operand, ExactOperand
<1> QED
  BY <1>1, <1>2, <1>3

\* A table that is exact before an instruction is exact after it.
LEMMA TableStep ==
  ASSUME BoundedProgram, NEW k \in 0..Len(instructionList), k # 0,
         NEW table, TableAfter(table, k - 1)
  PROVE  TableAfter(AfterInstruction(table, instructionList[k]), k)
<1>1. PICK i : i = instructionList[k]
  OBVIOUS
<1>2. PICK m \in 0..Len(instructionList) : m = k - 1 /\ m + 1 = k
  BY LenProperties DEF BoundedProgram
<1>3. PICK new : new = AfterInstruction(table, i)
  OBVIOUS
<1>4. i \in Instructions
  BY <1>1, ElementOfSeq, LenProperties DEF BoundedProgram
<1>5. /\ \A name \in Names : name \in DOMAIN table <=> \E j \in 1..m : Mentioned(j, name)
      /\ DOMAIN table \subseteq Names
      /\ \A name \in DOMAIN table : table[name] = exact[m][name] % Word
  BY <1>2 DEF TableAfter
<1>6. \A name \in Names :
        (\E j \in 1..k : Mentioned(j, name)) <=> name \in DOMAIN table \/ Mentioned(k, name)
  <2>1. \A j : j \in 1..k <=> j \in 1..m \/ j = k
    BY <1>2
  <2> QED
    BY <1>5, <2>1
<1>7. \A name \in Names : name \notin DOMAIN table => exact[m][name] = 0
  BY <1>2, <1>5, ExactTyped
<1> SUFFICES /\ DOMAIN new \subseteq Names
             /\ \A name \in Names : name \in DOMAIN new <=> name \in DOMAIN table \/ Mentioned(k, name)
             /\ \A name \in DOMAIN new : new[name] = exact[k][name] % Word
  BY <1>1, <1>3, <1>6 DEF TableAfter
<1>8. CASE i.op = "DECLARE"
  <2>1. Extends(new, table, {i.var}, i.value)
    BY <1>3, <1>8, Inserted DEF AfterInstruction, Declared
  <2>2. i.var \in Names /\ i.value \in 0..(Word - 1) /\ i.value % Word = i.value
    <3>1. i.var \in Names /\ i.value \in 0..(Word - 1)
      BY <1>4, <1>8, InstructionCases DEF Names
    <3>2. PICK v \in 0..(Word - 1) : v = i.value
      BY <3>1
    <3>3. v \in Int
      BY WordRange
    <3> QED
      BY <3>1, <3>2, <3>3, WrappedArithmetic
  <2>3. ASSUME NEW name \in Names
        PROVE  /\ Mentioned(k, name) <=> i.var = name
               /\ exact[k][name] = IF i.var = name /\ name \notin DOMAIN table THEN i.value
                                   ELSE exact[m][name]
    BY <1>1, <1>2, <1>5, <1>8, ExactAfter
  <2> QED
    BY <1>5, <2>1, <2>2, <2>3 DEF Extends
<1>9. CASE i.op \in {"ADD", "SUBTRACT"}
  <2>1. i.var1 \in Names /\ i.var2 \in Names /\ i.var3 \in Names
    BY <1>4, <1>9, InstructionCases
  <2>2. PICK a \in Int : a = ExactOperand(exact[m], i.var2) /\ Operand(table, i.var2) = a % Word
    BY <1>2, <2>1, OperandIsExact
  <2>3. PICK b \in Int : b = ExactOperand(exact[m], i.var3) /\ Operand(table, i.var3) = b % Word
    BY <1>2, <2>1, OperandIsExact
  <2>4. PICK result : result = (IF i.op = "ADD" THEN a + b ELSE a - b) % Word
    OBVIOUS
  <2>5. /\ DOMAIN new = DOMAIN table \cup {i.var1} \cup ({i.var2, i.var3} \ Literals)
        /\ new[i.var1] = result
        /\ \A n \in DOMAIN new : n # i.var1 => new[n] = IF n \in DOMAIN table THEN table[n] ELSE 0
    <3>1. new = Computed(table, i)
      BY <1>3, <1>9 DEF AfterInstruction
    <3>2. Arithmetic(i.op, Operand(table, i.var2), Operand(table, i.var3)) = result
      BY <2>2, <2>3, <2>4, WrappedArithmetic, SMTT(30)
    <3>3. /\ DOMAIN Computed(table, i) = DOMAIN table \cup {i.var1} \cup ({i.var2, i.var3} \ Literals)
          /\ Computed(table, i)[i.var1] =
               Arithmetic(i.op, Operand(table, i.var2), Operand(table, i.var3))
          /\ \A n \in DOMAIN Computed(table, i) : n # i.var1 =>
               Computed(table, i)[n] = IF n \in DOMAIN table THEN table[n] ELSE 0
      BY ComputedTable, ZenonT(30)
    <3> QED
      BY <3>1, <3>2, <3>3
  <2>6. ASSUME NEW name \in Names
        PROVE  /\ Mentioned(k, name) <=> i.var1 = name \/ name \in {i.var2, i.var3} \ Literals
               /\ name # i.var1 => exact[k][name] = exact[m][name]
    BY <1>1, <1>2, <1>9, ExactAfter
  <2>7. exact[k][i.var1] % Word = result
    BY <1>1, <1>2, <1>9, <2>1, <2>2, <2>3, <2>4, ExactAfter
  <2>8. 0 % Word = 0
    BY WrappedArithmetic
  <2>9. \A name \in DOMAIN new : new[name] = exact[k][name] % Word
    <3> TAKE name \in DOMAIN new
    <3>1. CASE name = i.var1
      BY <2>5, <2>7, <3>1
    <3>2. CASE name # i.var1 /\ name \in DOMAIN table
      BY <1>5, <2>5, <2>6, <3>2
    <3>3. CASE name # i.var1 /\ name \notin DOMAIN table
      <4>1. name \in Names
        BY <1>5, <2>1, <2>5
      <4> QED
        BY <1>7, <2>5, <2>6, <2>8, <3>3, <4>1
    <3> QED
      BY <3>1, <3>2, <3>3
  <2> QED
    BY <1>5, <2>1, <2>5, <2>6, <2>9
<1>10. CASE i.op \notin {"DECLARE", "ADD", "SUBTRACT"}
  <2>1. new = table
    BY <1>3, <1>10 DEF AfterInstruction
  <2>2. \A name \in Names : ~Mentioned(k, name) /\ exact[k][name] = exact[m][name]
    BY <1>1, <1>2, <1>10, ExactAfter
  <2> QED
    BY <1>5, <2>1, <2>2
<1> QED
  BY <1>8, <1>9, <1>10

-------------------------------------------------------------------------------
(* The inductive invariant *)

\* Only the value of the counter tells when a sleep ends.
SleepsWithAReason == isSleeping => remainingSleepCycles >= 0

ProcessInv ==
  /\ BoundedProgram
  /\ TypeOK
  /\ SleepsWithAReason
  /\ TableIsExact

\* The exact values of a list of instructions.
MentionedIn(list, k, name) ==
  LET i == list[k]
  IN  \/ i.op = "DECLARE" /\ i.var = name
      \/ i.op \in {"ADD", "SUBTRACT"} /\ (i.var1 = name \/ name \in {i.var2, i.var3} \ Literals)

AssignsIn(list, k, name) ==
  LET i == list[k]
  IN  \/ i.op \in {"ADD", "SUBTRACT"} /\ i.var1 = name
      \/ /\ i.op = "DECLARE" /\ i.var = name
         /\ \A j \in 1..(k - 1) : ~MentionedIn(list, j, name)

ExactOf(list) == CHOOSE values : values =
  [k \in 0..MaxInstructions |->
    IF k = 0 THEN [name \in Names |-> 0]
    ELSE LET i == list[k]
             Value(name) == IF name \in Literals THEN name ELSE values[k - 1][name]
         IN  [name \in Names |->
                IF ~AssignsIn(list, k, name) THEN values[k - 1][name]
                ELSE IF i.op = "DECLARE" THEN i.value
                ELSE IF i.op = "ADD" THEN Value(i.var2) + Value(i.var3)
                ELSE Value(i.var2) - Value(i.var3)]]

\* The instructions do not change, nor what they say.
LEMMA ProgramIsFixed ==
  ASSUME instructionList' = instructionList
  PROVE  /\ exact' = exact
         /\ \A k, name : Mentioned(k, name)' <=> Mentioned(k, name)
<1>1. \A k, name : Mentioned(k, name)' <=> Mentioned(k, name)
  BY DEF Mentioned
<1>2. exact = ExactOf(instructionList)
  BY DEF exact, Assigns, Mentioned, ExactOf, AssignsIn, MentionedIn
<1>3. exact' = ExactOf(instructionList')
  BY DEF exact, Assigns, Mentioned, ExactOf, AssignsIn, MentionedIn
<1> QED
  BY <1>1, <1>2, <1>3

\* The values of uint8_t.
LEMMA ByteRange ==
  /\ Byte \in Nat /\ Byte > 1
  /\ \A n \in Nat : n % Byte \in 0..(Byte - 1) /\ n % Byte \in Nat
BY DEF Byte

\* Modulo 2^16 every result is a uint16_t.
LEMMA WordsWrap ==
  \A n \in Int : n % Word \in 0..(Word - 1)
BY WrappedArithmetic

\* Every value of a table that is exact is a uint16_t.
LEMMA ExactIsTyped ==
  ASSUME BoundedProgram, NEW k \in 0..Len(instructionList), NEW table, TableAfter(table, k)
  PROVE  /\ DOMAIN table \subseteq Names
         /\ \A name \in DOMAIN table : table[name] \in 0..(Word - 1)
<1>1. DOMAIN table \subseteq Names
  BY DEF TableAfter
<1>2. ASSUME NEW name \in DOMAIN table
      PROVE  table[name] \in 0..(Word - 1)
  <2>1. PICK v \in Int : v = exact[k][name]
    BY <1>1, ExactTyped
  <2> QED
    BY <2>1, WordsWrap DEF TableAfter
<1> QED
  BY <1>1, <1>2

\* A process begins with no variable and before its first instruction.
LEMMA ProcessInvInit == Init => ProcessInv
<1> SUFFICES ASSUME Init PROVE ProcessInv
  OBVIOUS
<1>1. BoundedProgram
  <2>1. PICK m \in 0..MaxInstructions : instructionList \in [1..m -> Instructions]
    BY DEF Init, BoundedSeq, SeqOf
  <2>2. m \in Nat /\ m <= MaxInstructions
    BY <2>1, ProcessAssumption
  <2>3. instructionList \in Seq(Instructions) /\ Len(instructionList) = m
    BY <2>1, <2>2, SeqDef, LenProperties
  <2> QED
    BY <2>2, <2>3 DEF BoundedProgram
<1>2. TypeOK
  <2>1. DOMAIN symbolTable = {}
    BY DEF Init, EmptyTable
  <2>2. 0 \in -1..(Byte - 1) /\ 0 \in 0..Len(instructionList)
    BY <1>1, ByteRange, LenProperties DEF BoundedProgram
  <2> QED
    BY <1>1, <2>1, <2>2 DEF Init, TypeOK, BoundedProgram
<1>3. TableIsExact
  BY DEF Init, EmptyTable, TableIsExact
<1> QED
  BY <1>1, <1>2, <1>3 DEF Init, ProcessInv, SleepsWithAReason

\* Every call keeps the invariant.
LEMMA ProcessInvNext == ProcessInv /\ [Next]_vars => ProcessInv'
<1> SUFFICES ASSUME ProcessInv, [Next]_vars
             PROVE  ProcessInv'
  OBVIOUS
<1> USE DEF ProcessInv
<1>1. instructionList' = instructionList /\ BoundedProgram'
  <2>1. instructionList' = instructionList
    BY DEF Next, executeNextInstruction, SleepOn, ExecuteInstruction, Finish, vars
  <2> QED
    BY <2>1 DEF BoundedProgram
<1>2. /\ exact' = exact
      /\ \A k, name : Mentioned(k, name)' <=> Mentioned(k, name)
  BY <1>1, ProgramIsFixed
<1>3. TableIsExact' <=> TableAfter(symbolTable', currentInstruction')
  BY <1>2 DEF TableIsExact, TableAfter
<1>4. TableAfter(symbolTable, currentInstruction)
  BY DEF TableIsExact, TableAfter
<1>5. remainingSleepCycles \in Int /\ Byte - 1 \in Nat
  BY ByteRange DEF TypeOK
<1>6. CASE ~isFinished /\ SleepOn
  <2>1. TableIsExact'
    BY <1>3, <1>4, <1>6 DEF SleepOn
  <2>2. isSleeping' \in BOOLEAN /\ remainingSleepCycles' \in -1..(Byte - 1)
    <3>1. remainingSleepCycles \in 0..(Byte - 1)
      BY <1>5, <1>6 DEF SleepOn, TypeOK, SleepsWithAReason
    <3>2. PICK b \in Int : b = Byte - 1
      BY <1>5
    <3> QED
      BY <1>6, <3>1, <3>2 DEF SleepOn, StillAsleep
  <2>3. TypeOK'
    BY <1>6, <2>2 DEF SleepOn, TypeOK
  <2>4. SleepsWithAReason'
    <3>1. /\ remainingSleepCycles' = remainingSleepCycles - 1
          /\ isSleeping' => remainingSleepCycles - 1 > 0
      BY <1>6 DEF SleepOn, StillAsleep
    <3>2. PICK r \in Int : r = remainingSleepCycles
      BY <1>5
    <3> QED
      BY <3>1, <3>2 DEF SleepsWithAReason
  <2> QED
    BY <1>1, <2>1, <2>3, <2>4
<1>7. CASE ~isFinished /\ ExecuteInstruction
  <2>1. PICK k \in 0..Len(instructionList) :
          k = currentInstruction + 1 /\ k - 1 = currentInstruction /\ k # 0 /\ k \in 1..Len(instructionList)
    BY <1>7, LenProperties DEF ExecuteInstruction, TypeOK
  <2>2. PICK i \in Instructions : i = instructionList[k]
    BY <2>1, ElementOfSeq DEF TypeOK
  <2>3. symbolTable' = AfterInstruction(symbolTable, i) /\ currentInstruction' = k
    BY <1>7, <2>1, <2>2 DEF ExecuteInstruction
  <2>4. TableAfter(symbolTable', k)
    BY <1>4, <2>1, <2>2, <2>3, TableStep
  <2>5. /\ DOMAIN symbolTable' \subseteq Names
        /\ \A name \in DOMAIN symbolTable' : symbolTable'[name] \in 0..(Word - 1)
    BY <2>4, ExactIsTyped
  <2>6. IF i.op = "SLEEP" THEN isSleeping' = TRUE /\ remainingSleepCycles' = i.cycles % Byte
        ELSE UNCHANGED <<isSleeping, remainingSleepCycles>>
    BY <1>7, <2>1, <2>2 DEF ExecuteInstruction, setSleeping
  <2>7. i.op = "SLEEP" => i.cycles % Byte \in 0..(Byte - 1) /\ i.cycles % Byte \in Nat
    BY InstructionCases, ByteRange
  <2>8. /\ isSleeping' \in BOOLEAN
        /\ remainingSleepCycles' \in -1..(Byte - 1)
        /\ isSleeping' => remainingSleepCycles' >= 0
    <3>1. CASE i.op = "SLEEP"
      <4>1. PICK n \in Int : n = i.cycles % Byte /\ n \in 0..(Byte - 1)
        BY <2>7, <3>1
      <4>2. n >= 0 /\ n \in -1..(Byte - 1)
        BY <1>5, <4>1
      <4> QED
        BY <2>6, <3>1, <4>1, <4>2
    <3>2. CASE i.op # "SLEEP"
      BY <2>6, <3>2 DEF TypeOK, SleepsWithAReason
    <3> QED
      BY <3>1, <3>2
  <2>9. isFinished' = isFinished
    BY <1>7 DEF ExecuteInstruction
  <2>10. TypeOK'
    BY <1>1, <2>1, <2>3, <2>5, <2>8, <2>9 DEF TypeOK
  <2> QED
    BY <1>1, <1>3, <2>3, <2>4, <2>8, <2>10 DEF SleepsWithAReason
<1>8. CASE ~isFinished /\ Finish
  <2>1. TableIsExact'
    BY <1>3, <1>4, <1>8 DEF Finish
  <2> QED
    BY <1>1, <1>8, <2>1 DEF Finish, TypeOK, SleepsWithAReason
<1>9. CASE UNCHANGED vars
  <2>1. TableIsExact'
    BY <1>3, <1>4, <1>9 DEF vars
  <2> QED
    BY <1>1, <1>9, <2>1 DEF vars, TypeOK, SleepsWithAReason
<1> QED
  BY <1>6, <1>7, <1>8, <1>9 DEF Next, executeNextInstruction

\* The invariant holds.
LEMMA AlwaysProcessInv == Spec => []ProcessInv
<1> QED
  BY ProcessInvInit, ProcessInvNext, PTL DEF Spec

\* The values of every program stay in uint16_t, the sleep counter in -1..255,
\* and the instruction pointer in the program.
THEOREM ProcessTypeCorrect == Spec => []TypeOK
<1>1. ProcessInv => TypeOK
  BY DEF ProcessInv
<1> QED
  BY <1>1, AlwaysProcessInv, PTL

\* SymbolTable, and the execute of each instruction: after any program, the
\* table has the names mentioned so far, each with the value that the integers
\* give it, modulo 2^16.
THEOREM TablesAreExact == Spec => []TableIsExact
<1>1. ProcessInv => TableIsExact
  BY DEF ProcessInv
<1> QED
  BY <1>1, AlwaysProcessInv, PTL

-------------------------------------------------------------------------------
(* Every call counts *)

AddCalls(sum, i) == sum + Calls(i)

\* The calls that a list of instructions takes.
SumCalls(list) == FoldLeft(AddCalls, 0, list)

CallsLeftSummed ==
  IF isFinished THEN 0
  ELSE (IF isSleeping THEN AtLeastOne(remainingSleepCycles) ELSE 0)
         + SumCalls(SubSeq(instructionList, currentInstruction + 1, Len(instructionList))) + 1

\* The calls left, as a sum over the instructions left.
LEMMA CallsLeftIsSum ==
  CallsLeft = CallsLeftSummed /\ CallsLeft' = CallsLeftSummed'
BY DEF CallsLeft, CallsLeftSummed, SumCalls, AddCalls

\* Every instruction takes a call, a SLEEP as many more as its counter says.
LEMMA CallsArePositive ==
  \A i \in Instructions :
    /\ Calls(i) \in Nat /\ Calls(i) > 0
    /\ i.op = "SLEEP" => Calls(i) = 1 + AtLeastOne(i.cycles % Byte)
    /\ i.op # "SLEEP" => Calls(i) = 1
<1> TAKE i \in Instructions
<1>1. CASE i.op = "SLEEP"
  <2>1. PICK n \in Nat : n = i.cycles % Byte
    BY <1>1, InstructionCases, ByteRange
  <2>2. Calls(i) = 1 + AtLeastOne(n)
    BY <1>1, <2>1 DEF Calls
  <2> QED
    BY <1>1, <2>1, <2>2 DEF AtLeastOne
<1>2. CASE i.op # "SLEEP"
  BY <1>2 DEF Calls
<1> QED
  BY <1>1, <1>2

\* A sum can be taken from either end.
LEMMA SumFromTheFront ==
  /\ SumCalls(<< >>) = 0
  /\ \A list \in Seq(Instructions) : SumCalls(list) \in Nat
  /\ \A i \in Instructions, list \in Seq(Instructions) :
       SumCalls(<<i>> \o list) = Calls(i) + SumCalls(list)
<1>1. /\ SumCalls(<< >>) = 0
      /\ \A list \in Seq(Instructions), i \in Instructions :
           SumCalls(Append(list, i)) = SumCalls(list) + Calls(i)
  <2>1. FoldStep(AddCalls, 0, Instructions)
    BY FoldLeftStep
  <2> QED
    BY <2>1 DEF FoldStep, SumCalls, AddCalls
<1> DEFINE T == {list \in Seq(Instructions) :
                   /\ SumCalls(list) \in Nat
                   /\ \A i \in Instructions : SumCalls(<<i>> \o list) = Calls(i) + SumCalls(list)}
<1>2. << >> \in T
  <2>1. << >> \in Seq(Instructions)
    OBVIOUS
  <2>2. ASSUME NEW i \in Instructions
        PROVE  SumCalls(<<i>> \o << >>) = Calls(i) + SumCalls(<< >>)
    <3>1. <<i>> \o << >> = Append(<< >>, i)
      OBVIOUS
    <3>2. SumCalls(Append(<< >>, i)) = 0 + Calls(i)
      BY <1>1, <2>1
    <3> QED
      BY <1>1, <3>1, <3>2, CallsArePositive
  <2> QED
    BY <1>1, <2>1, <2>2
<1>3. ASSUME NEW s \in Seq(Instructions), NEW e \in Instructions, s \in T
      PROVE  Append(s, e) \in T
  <2>1. Append(s, e) \in Seq(Instructions)
    BY AppendProperties
  <2>2. SumCalls(Append(s, e)) = SumCalls(s) + Calls(e) /\ SumCalls(s) \in Nat /\ Calls(e) \in Nat
    BY <1>1, <1>3, CallsArePositive
  <2>3. ASSUME NEW i \in Instructions
        PROVE  SumCalls(<<i>> \o Append(s, e)) = Calls(i) + SumCalls(Append(s, e))
    <3>1. <<i>> \in Seq(Instructions) /\ <<i>> \o s \in Seq(Instructions)
      BY ConcatProperties
    <3>2. <<i>> \o Append(s, e) = Append(<<i>> \o s, e)
      BY <3>1, ConcatAppend
    <3>3. SumCalls(<<i>> \o Append(s, e)) = SumCalls(<<i>> \o s) + Calls(e)
      BY <1>1, <3>1, <3>2
    <3>4. SumCalls(<<i>> \o s) = Calls(i) + SumCalls(s) /\ Calls(i) \in Nat
      BY <1>3, CallsArePositive
    <3> QED
      BY <2>2, <3>3, <3>4
  <2> QED
    BY <2>1, <2>2, <2>3
<1>4. Seq(Instructions) \subseteq T
  <2> HIDE DEF T
  <2> QED
    BY <1>2, <1>3, SeqSetInduction
<1> QED
  BY <1>1, <1>4

\* The list from an instruction on is that instruction and the rest.
LEMMA SplitAtInstruction ==
  ASSUME NEW list \in Seq(Instructions), NEW k \in 1..Len(list)
  PROVE  /\ SubSeq(list, k + 1, Len(list)) \in Seq(Instructions)
         /\ SubSeq(list, k, Len(list)) = <<list[k]>> \o SubSeq(list, k + 1, Len(list))
<1>1. Len(list) \in Nat /\ k \in Nat /\ \A j \in 1..Len(list) : list[j] \in Instructions
  BY LenProperties, ElementOfSeq
<1>2. SubSeq(list, k + 1, Len(list)) \in Seq(Instructions)
  <2>1. k + 1 \in Int /\ \A j \in (k + 1)..Len(list) : list[j] \in Instructions
    BY <1>1
  <2> QED
    BY <1>1, <2>1, SubSeqProperties
<1> QED
  BY <1>1, <1>2, SubSeqRecursiveFirst

\* How a call of each kind changes what is left, and whether it is the last.
CallStep ==
  /\ CallsLeft \in Nat \ {0}
  /\ CallsLeft' = CallsLeft - 1
  /\ isFinished' = (CallsLeft = 1)

\* A call takes one from the calls left.
LEMMA CallsCountDown ==
  ASSUME ProcessInv, Next
  PROVE  CallStep
<1> DEFINE n == Len(instructionList)
           Rest(k) == SubSeq(instructionList, k + 1, n)
           asleep == IF isSleeping THEN AtLeastOne(remainingSleepCycles) ELSE 0
<1>1. /\ ~isFinished /\ (SleepOn \/ ExecuteInstruction \/ Finish)
      /\ instructionList' = instructionList
  BY DEF Next, executeNextInstruction, SleepOn, ExecuteInstruction, Finish
<1>2. /\ instructionList \in Seq(Instructions) /\ n \in Nat
      /\ currentInstruction \in 0..n /\ isSleeping \in BOOLEAN /\ isFinished = FALSE
      /\ remainingSleepCycles \in Int /\ (isSleeping => remainingSleepCycles >= 0)
  BY <1>1, ByteRange, LenProperties DEF ProcessInv, TypeOK, SleepsWithAReason
<1>3. PICK list : list = Rest(currentInstruction)
  OBVIOUS
<1>4. list \in Seq(Instructions) /\ SumCalls(list) \in Nat
  <2>1. list \in Seq(Instructions)
    BY <1>2, <1>3, SubSeqProperties, ElementOfSeq
  <2> QED
    BY <2>1, SumFromTheFront
<1>5. CallsLeft = asleep + SumCalls(list) + 1
  BY <1>2, <1>3, CallsLeftIsSum DEF CallsLeftSummed
<1>6. CASE SleepOn
  <2>1. PICK r \in Nat : r = remainingSleepCycles
    BY <1>2, <1>6 DEF SleepOn
  <2>2. /\ isSleeping /\ isFinished' = FALSE
        /\ isSleeping' = (r - 1 > 0) /\ remainingSleepCycles' = r - 1
        /\ currentInstruction' = currentInstruction
    BY <1>2, <1>6, <2>1 DEF SleepOn, StillAsleep
  <2>3. CallsLeft' = (IF r - 1 > 0 THEN AtLeastOne(r - 1) ELSE 0) + SumCalls(list) + 1
    BY <1>1, <1>3, <2>2, CallsLeftIsSum DEF CallsLeftSummed
  <2>4. CallsLeft = AtLeastOne(r) + SumCalls(list) + 1
    BY <1>5, <2>1, <2>2
  <2> QED
    <3>1. CallsLeft \in Nat \ {0} /\ CallsLeft' = CallsLeft - 1 /\ CallsLeft # 1
      BY <1>4, <2>1, <2>3, <2>4 DEF AtLeastOne
    <3> QED
      BY <2>2, <3>1 DEF CallStep
<1>7. CASE ExecuteInstruction
  <2>1. PICK k \in 1..n : k = currentInstruction + 1
    BY <1>2, <1>7 DEF ExecuteInstruction
  <2>2. PICK i \in Instructions : i = instructionList[k]
    BY <1>2, ElementOfSeq
  <2>3. PICK rest : rest = Rest(k)
    OBVIOUS
  <2>4. rest \in Seq(Instructions) /\ list = <<i>> \o rest
    BY <1>2, <1>3, <2>1, <2>2, <2>3, SplitAtInstruction
  <2>5. PICK total \in Nat : total = SumCalls(rest) /\ SumCalls(list) = Calls(i) + total
    BY <2>4, SumFromTheFront
  <2>6. /\ ~isSleeping /\ isFinished' = FALSE /\ currentInstruction' = k
        /\ IF i.op = "SLEEP" THEN isSleeping' = TRUE /\ remainingSleepCycles' = i.cycles % Byte
           ELSE isSleeping' = FALSE
    BY <1>2, <1>7, <2>1, <2>2 DEF ExecuteInstruction, setSleeping
  <2>7. CallsLeft = Calls(i) + total + 1
    <3>1. Calls(i) \in Nat
      BY CallsArePositive
    <3> QED
      BY <1>5, <2>5, <2>6, <3>1
  <2>8. CallsLeft' = (IF isSleeping' THEN AtLeastOne(remainingSleepCycles') ELSE 0) + total + 1
    BY <1>1, <2>3, <2>5, <2>6, CallsLeftIsSum DEF CallsLeftSummed
  <2>9. CASE i.op = "SLEEP"
    <3>1. PICK c \in Nat : c = AtLeastOne(i.cycles % Byte)
      <4>1. PICK m \in Nat : m = i.cycles % Byte
        BY <2>9, InstructionCases, ByteRange
      <4>2. AtLeastOne(m) \in Nat
        BY DEF AtLeastOne
      <4> QED
        BY <4>1, <4>2
    <3>2. Calls(i) = 1 + c
      BY <2>9, <3>1, CallsArePositive
    <3>3. CallsLeft' = c + total + 1
      BY <2>6, <2>8, <2>9, <3>1
    <3>4. CallsLeft \in Nat \ {0} /\ CallsLeft' = CallsLeft - 1 /\ CallsLeft # 1
      BY <2>7, <3>2, <3>3
    <3> QED
      BY <2>6, <3>4 DEF CallStep
  <2>10. CASE i.op # "SLEEP"
    <3>1. Calls(i) = 1
      BY <2>10, CallsArePositive
    <3>2. CallsLeft' = total + 1
      BY <2>6, <2>8, <2>10
    <3>3. CallsLeft \in Nat \ {0} /\ CallsLeft' = CallsLeft - 1 /\ CallsLeft # 1
      BY <2>5, <2>7, <3>1, <3>2
    <3> QED
      BY <2>6, <3>3 DEF CallStep
  <2> QED
    BY <2>9, <2>10
<1>8. CASE Finish
  <2>1. ~isSleeping /\ currentInstruction = n /\ isFinished' = TRUE
    BY <1>2, <1>8 DEF Finish
  <2>2. list = << >>
    BY <1>2, <1>3, <2>1, SubSeqProperties, EmptySeq
  <2>3. CallsLeft = 1
    BY <1>5, <2>1, <2>2, SumFromTheFront
  <2>4. CallsLeft' = 0
    BY <2>1, CallsLeftIsSum DEF CallsLeftSummed
  <2>5. isFinished' = (CallsLeft = 1)
    BY <2>1, <2>3
  <2> QED
    BY <2>3, <2>4, <2>5 DEF CallStep
<1> QED
  BY <1>1, <1>6, <1>7, <1>8

\* executeNextInstruction: every call takes the end of the process exactly one
\* call nearer, for every program, through sleeps of every length.
THEOREM CallsAreCounted == Spec => EveryCallCounts
<1>1. ProcessInv /\ [Next]_vars => [CallsLeft' = CallsLeft - 1]_vars
  BY CallsCountDown DEF CallStep
<1> QED
  BY <1>1, AlwaysProcessInv, PTL DEF Spec, EveryCallCounts

\* The safety part of ImplementsTask: to a scheduler a process is a countdown
\* that begins above zero, goes down by one with every call and finishes the
\* process with its last.
THEOREM ProcessIsACountdown ==
  Spec => ACountdown!Init /\ [][ACountdown!Tick]_<<CallsLeft, isFinished>>
<1>1. Init => ACountdown!Init
  <2> SUFFICES ASSUME Init PROVE ACountdown!Init
    OBVIOUS
  <2>1. PICK list : list = SubSeq(instructionList, currentInstruction + 1, Len(instructionList))
    OBVIOUS
  <2>2. SumCalls(list) \in Nat
    <3>1. instructionList \in Seq(Instructions) /\ currentInstruction \in 0..Len(instructionList)
      BY ProcessInvInit DEF ProcessInv, TypeOK
    <3>2. list \in Seq(Instructions)
      BY <2>1, <3>1, SubSeqProperties, ElementOfSeq, LenProperties
    <3> QED
      BY <3>2, SumFromTheFront
  <2>3. CallsLeft = 0 + SumCalls(list) + 1
    BY <2>1, CallsLeftIsSum DEF CallsLeftSummed, Init
  <2> QED
    BY <2>2, <2>3 DEF Init, ACountdown!Init
<1>2. ProcessInv /\ [Next]_vars => [ACountdown!Tick]_<<CallsLeft, isFinished>>
  <2> SUFFICES ASSUME ProcessInv, [Next]_vars
               PROVE  [ACountdown!Tick]_<<CallsLeft, isFinished>>
    OBVIOUS
  <2>1. CASE Next
    <3>1. ~isFinished
      BY <2>1 DEF Next, executeNextInstruction
    <3> QED
      BY <2>1, <3>1, CallsCountDown DEF CallStep, ACountdown!Tick
  <2>2. CASE UNCHANGED vars
    <3>1. CallsLeft' = CallsLeft /\ isFinished' = isFinished
      BY <2>2, CallsLeftIsSum DEF CallsLeftSummed, vars
    <3> QED
      BY <3>1
  <2> QED
    BY <2>1, <2>2
<1> QED
  BY <1>1, <1>2, AlwaysProcessInv, PTL DEF Spec

-------------------------------------------------------------------------------
(* The log *)

LogLines ==
  [op : {"PRINT", "DECLARE", "ADD", "SUBTRACT", "SLEEP", "ASLEEP"}, shows : Names \cup Int]

\* The lines of a sleep, and those that the sleep going on has yet to write.
SleepLines(r) == [n \in 1..AtLeastOne(r) |-> AsleepLine(r - n + 1)]

Pending == IF isSleeping THEN SleepLines(remainingSleepCycles) ELSE << >>

\* The lines of the first k instructions, each with the sleep that it begins.
ProgramLines(k) == [j \in 1..k |-> LinesOf(j)]

\* The log lacks only what is pending.
LogInv ==
  /\ log \in Seq(LogLines)
  /\ log \o Pending = FlattenSeq(ProgramLines(currentInstruction))

\* A sleeping process writes the first line of what is pending, and has the
\* rest still to write.
LEMMA SleepLinesStep ==
  ASSUME NEW r \in Nat
  PROVE  /\ SleepLines(r) \in Seq(LogLines) /\ Len(SleepLines(r)) = AtLeastOne(r)
         /\ AsleepLine(r) \in LogLines
         /\ SleepLines(r) =
              <<AsleepLine(r)>> \o (IF r - 1 > 0 THEN SleepLines(r - 1) ELSE << >>)
<1>1. ASSUME NEW m \in Nat
      PROVE  /\ SleepLines(m) \in Seq(LogLines) /\ Len(SleepLines(m)) = AtLeastOne(m)
             /\ \A n \in 1..AtLeastOne(m) : SleepLines(m)[n] = AsleepLine(m - n + 1)
  <2>1. AtLeastOne(m) \in Nat
    BY DEF AtLeastOne
  <2>2. PICK len \in Nat : len = AtLeastOne(m)
    BY <2>1
  <2>3. \A n \in 1..len : AsleepLine(m - n + 1) \in LogLines
    BY <2>2 DEF AsleepLine, LogLines
  <2>4. SleepLines(m) \in [1..len -> LogLines]
    BY <2>2, <2>3 DEF SleepLines
  <2>5. SleepLines(m) \in Seq(LogLines) /\ Len(SleepLines(m)) = len
    BY <2>2, <2>4, SeqDef, LenProperties
  <2>6. \A n \in 1..len : SleepLines(m)[n] = AsleepLine(m - n + 1)
    BY <2>2 DEF SleepLines
  <2> QED
    BY <2>2, <2>5, <2>6
<1>2. AsleepLine(r) \in LogLines
  BY DEF AsleepLine, LogLines
<1>3. PICK first \in Seq(LogLines) : first = <<AsleepLine(r)>> /\ Len(first) = 1 /\ first[1] = AsleepLine(r)
  <2>1. PICK line \in LogLines : line = AsleepLine(r)
    BY <1>2
  <2>2. <<line>> \in Seq(LogLines) /\ Len(<<line>>) = 1 /\ <<line>>[1] = line
    OBVIOUS
  <2> QED
    BY <2>1, <2>2
<1>4. CASE r > 1
  <2>0. /\ r - 1 \in Nat /\ r - 1 > 0
        /\ AtLeastOne(r) = r /\ AtLeastOne(r - 1) = r - 1
    BY <1>4 DEF AtLeastOne
  <2>1. PICK rest \in Seq(LogLines) : rest = SleepLines(r - 1)
    BY <1>1, <2>0
  <2>2. Len(rest) = r - 1 /\ \A n \in 1..(r - 1) : rest[n] = AsleepLine((r - 1) - n + 1)
    BY <1>1, <2>0, <2>1
  <2>3. PICK all \in Seq(LogLines) : all = SleepLines(r)
    BY <1>1
  <2>4. Len(all) = r /\ \A n \in 1..r : all[n] = AsleepLine(r - n + 1)
    BY <1>1, <2>0, <2>3
  <2>5. PICK both : both = first \o rest
    OBVIOUS
  <2>6. /\ both \in Seq(LogLines) /\ Len(both) = Len(first) + Len(rest)
        /\ \A n \in 1..(Len(first) + Len(rest)) :
             both[n] = IF n <= Len(first) THEN first[n] ELSE rest[n - Len(first)]
    BY <2>5, ConcatProperties
  <2>7. Len(both) = r /\ \A n \in 1..r : both[n] = IF n <= 1 THEN first[n] ELSE rest[n - 1]
    BY <1>3, <2>2, <2>6
  <2>8. ASSUME NEW n \in 1..r
        PROVE  all[n] = both[n]
    <3>1. CASE n = 1
      <4>1. r - n + 1 = r
        BY <3>1
      <4> QED
        BY <1>3, <2>4, <2>7, <3>1, <4>1
    <3>2. CASE n # 1
      <4>1. n - 1 \in 1..(r - 1) /\ (r - 1) - (n - 1) + 1 = r - n + 1 /\ ~(n <= 1)
        BY <3>2
      <4> QED
        BY <2>2, <2>4, <2>7, <4>1
    <3> QED
      BY <3>1, <3>2
  <2>9. all = both
    BY <2>3, <2>4, <2>6, <2>7, <2>8, SeqEqual
  <2>10. SleepLines(r) = <<AsleepLine(r)>> \o SleepLines(r - 1)
    BY <1>3, <2>1, <2>3, <2>5, <2>9
  <2> QED
    BY <1>1, <1>2, <2>0, <2>10
<1>5. CASE ~(r > 1)
  <2>1. AtLeastOne(r) = 1 /\ ~(r - 1 > 0)
    BY <1>5 DEF AtLeastOne
  <2>2. PICK all \in Seq(LogLines) : all = SleepLines(r)
    BY <1>1
  <2>3. Len(all) = 1 /\ all[1] = AsleepLine(r)
    <3>1. r - 1 + 1 = r /\ 1 \in 1..1
      OBVIOUS
    <3>2. Len(all) = 1 /\ all[1] = AsleepLine(r - 1 + 1)
      BY <1>1, <2>1, <2>2, <3>1
    <3> QED
      BY <3>1, <3>2
  <2>4. all = first
    BY <1>3, <2>2, <2>3, SeqEqual
  <2> QED
    BY <1>1, <1>2, <1>3, <2>1, <2>2, <2>4, ConcatEmptySeq
<1> QED
  BY <1>4, <1>5

\* LinesOf(k) is the line that executing instruction k writes, and the lines of
\* the sleep it begins, if it begins one.
LEMMA LineOfInstruction ==
  ASSUME BoundedProgram, NEW k \in 1..Len(instructionList),
         NEW table, TableAfter(table, k), NEW i, i = instructionList[k]
  PROVE  /\ i \in Instructions
         /\ i.op = "SLEEP" =>
              /\ Details(i, table, i.cycles % Byte) \in LogLines
              /\ LinesOf(k) = <<Details(i, table, i.cycles % Byte)>> \o SleepLines(i.cycles % Byte)
         /\ i.op # "SLEEP" =>
              \A r : /\ Details(i, table, r) \in LogLines
                     /\ LinesOf(k) = <<Details(i, table, r)>>
<1>1. i \in Instructions /\ k \in 0..Len(instructionList) /\ k # 0 /\ k \in 1..k
  BY ElementOfSeq, LenProperties DEF BoundedProgram
<1>2. \A name \in Names : Mentioned(k, name) =>
        /\ retrieveValue(table, name) = exact[k][name] % Word
        /\ exact[k][name] % Word \in Int
  <2>1. ASSUME NEW name \in Names, Mentioned(k, name)
        PROVE  /\ retrieveValue(table, name) = exact[k][name] % Word
               /\ exact[k][name] % Word \in Int
    <3>1. name \in DOMAIN table
      BY <1>1, <2>1 DEF TableAfter
    <3>2. PICK v \in Int : v = exact[k][name]
      BY <1>1, ExactTyped
    <3>3. v % Word \in Int
      BY DEF Word
    <3> QED
      BY <3>1, <3>2, <3>3 DEF TableAfter, retrieveValue, checkVarExists
  <2> QED
    BY <2>1
<1>3. CASE i.op = "PRINT"
  <2>1. i.text \in Names
    BY <1>1, <1>3, InstructionCases
  <2>2. LinesOf(k) = <<[op |-> "PRINT", shows |-> i.text]>>
    BY <1>3 DEF LinesOf
  <2>3. \A r : Details(i, table, r) = [op |-> "PRINT", shows |-> i.text]
    BY <1>3 DEF Details
  <2> QED
    BY <1>1, <1>3, <2>1, <2>2, <2>3 DEF LogLines
<1>4. CASE i.op = "DECLARE"
  <2>1. i.var \in Names
    BY <1>1, <1>4, InstructionCases DEF Names
  <2>2. PICK v \in Int : v = exact[k][i.var] % Word /\ retrieveValue(table, i.var) = v
    BY <1>2, <1>4, <2>1 DEF Mentioned
  <2>3. LinesOf(k) = <<[op |-> "DECLARE", shows |-> v]>>
    BY <1>4, <2>2 DEF LinesOf
  <2>4. \A r : Details(i, table, r) = [op |-> "DECLARE", shows |-> v]
    BY <1>4, <2>2 DEF Details
  <2> QED
    BY <1>1, <1>4, <2>3, <2>4 DEF LogLines
<1>5. CASE i.op \in {"ADD", "SUBTRACT"}
  <2>1. i.var1 \in Names
    BY <1>1, <1>5, InstructionCases
  <2>2. PICK v \in Int : v = exact[k][i.var1] % Word /\ retrieveValue(table, i.var1) = v
    BY <1>2, <1>5, <2>1 DEF Mentioned
  <2>3. LinesOf(k) = <<[op |-> i.op, shows |-> v]>>
    BY <1>5, <2>2 DEF LinesOf
  <2>4. \A r : Details(i, table, r) = [op |-> i.op, shows |-> v]
    BY <1>5, <2>2 DEF Details
  <2> QED
    BY <1>1, <1>5, <2>3, <2>4 DEF LogLines
<1>6. CASE i.op = "SLEEP"
  <2>1. PICK s \in Nat : s = i.cycles % Byte
    BY <1>1, <1>6, InstructionCases, ByteRange
  <2>2. LinesOf(k) = <<[op |-> "SLEEP", shows |-> s]>> \o SleepLines(s)
    BY <1>6, <2>1 DEF LinesOf, SleepLines
  <2>3. Details(i, table, s) = [op |-> "SLEEP", shows |-> s]
    BY <1>6 DEF Details
  <2> QED
    BY <1>1, <1>6, <2>1, <2>2, <2>3 DEF LogLines
<1> QED
  BY <1>1, <1>3, <1>4, <1>5, <1>6, InstructionCases

\* The lines of one more instruction come last.
LEMMA ProgramLinesStep ==
  ASSUME BoundedProgram,
         \A j \in 1..Len(instructionList) : LinesOf(j) \in Seq(LogLines),
         NEW k \in 1..Len(instructionList)
  PROVE  FlattenSeq(ProgramLines(k)) = FlattenSeq(ProgramLines(k - 1)) \o LinesOf(k)
<1>1. Len(instructionList) \in Nat /\ k \in Nat /\ k >= 1
  BY LenProperties DEF BoundedProgram
<1>2. PICK m \in Nat : m = k - 1 /\ m + 1 = k
  BY <1>1
<1>3. PICK before : before = ProgramLines(m)
  OBVIOUS
<1>4. PICK lines \in Seq(LogLines) : lines = LinesOf(k)
  OBVIOUS
<1>5. before \in Seq(Seq(LogLines)) /\ Len(before) = m
  <2>1. before \in [1..m -> Seq(LogLines)]
    BY <1>1, <1>2, <1>3 DEF ProgramLines
  <2> QED
    BY <2>1, SeqDef, LenProperties
<1>6. ProgramLines(k) = Append(before, lines)
  <2>1. PICK after : after = Append(before, lines)
    OBVIOUS
  <2>2. /\ after \in Seq(Seq(LogLines)) /\ Len(after) = m + 1
        /\ \A j \in 1..m : after[j] = before[j] /\ after[m + 1] = lines
    BY <1>5, <2>1, AppendProperties
  <2>3. after = [j \in 1..k |-> after[j]]
    BY <1>2, <2>2, LenProperties
  <2>4. \A j \in 1..k : after[j] = LinesOf(j)
    <3> TAKE j \in 1..k
    <3>1. CASE j = k
      BY <1>2, <1>4, <1>5, <2>1, <3>1, AppendProperties
    <3>2. CASE j # k
      <4>1. j \in 1..m
        BY <1>2, <3>2
      <4> QED
        BY <1>3, <2>2, <4>1 DEF ProgramLines
    <3> QED
      BY <3>1, <3>2
  <2> QED
    BY <2>1, <2>3, <2>4 DEF ProgramLines
<1> QED
  BY <1>2, <1>3, <1>4, <1>5, <1>6, FlattenAppend

\* The lines that an instruction logs have their type.
LEMMA LinesTyped ==
  ASSUME BoundedProgram
  PROVE  \A k \in 1..Len(instructionList) : LinesOf(k) \in Seq(LogLines)
<1> TAKE k \in 1..Len(instructionList)
<1>1. PICK table : table = [name \in {n \in Names : \E j \in 1..k : Mentioned(j, n)} |->
                              exact[k][name] % Word]
  OBVIOUS
<1>2. TableAfter(table, k)
  BY <1>1 DEF TableAfter
<1>3. PICK i : i = instructionList[k]
  OBVIOUS
<1>4. CASE i.op = "SLEEP"
  <2>1. PICK s \in Nat : s = i.cycles % Byte
    BY <1>2, <1>3, <1>4, LineOfInstruction, InstructionCases, ByteRange
  <2>2. PICK line \in LogLines : LinesOf(k) = <<line>> \o SleepLines(s)
    BY <1>2, <1>3, <1>4, <2>1, LineOfInstruction
  <2>3. SleepLines(s) \in Seq(LogLines)
    BY SleepLinesStep
  <2>4. <<line>> \in Seq(LogLines)
    OBVIOUS
  <2> QED
    BY <2>2, <2>3, <2>4, ConcatProperties
<1>5. CASE i.op # "SLEEP"
  <2>1. PICK line \in LogLines : LinesOf(k) = <<line>>
    BY <1>2, <1>3, <1>5, LineOfInstruction
  <2> QED
    BY <2>1
<1> QED
  BY <1>4, <1>5

\* At first nothing has been logged.
LEMMA LogInvInit == Init => LogInv
<1> SUFFICES ASSUME Init PROVE LogInv
  OBVIOUS
<1>1. log = << >> /\ Pending = << >> /\ currentInstruction = 0
  BY DEF Init, Pending
<1>2. ProgramLines(0) = << >>
  BY DEF ProgramLines
<1>3. FlattenSeq(<< >>) = << >>
  <2>1. Len(<< >>) = 0
    OBVIOUS
  <2> QED
    BY <2>1, FlattenIsFlat
<1>4. << >> \in Seq(LogLines)
  OBVIOUS
<1>5. << >> \o << >> = << >>
  BY <1>4, ConcatEmptySeq
<1> QED
  BY <1>1, <1>2, <1>3, <1>4, <1>5 DEF LogInv

\* Writing the first of the pending lines leaves the log and them together.
LEMMA WriteLine ==
  ASSUME NEW line \in LogLines, NEW written \in Seq(LogLines), NEW rest \in Seq(LogLines)
  PROVE  /\ Append(written, line) \in Seq(LogLines)
         /\ Append(written, line) \o rest = written \o (<<line>> \o rest)
<1>1. <<line>> \in Seq(LogLines) /\ Append(written, line) = written \o <<line>>
  BY AppendIsConcat
<1>2. Append(written, line) \in Seq(LogLines)
  BY AppendProperties
<1> QED
  BY <1>1, <1>2, ConcatAssociative

\* Every call keeps the log and the lines still to be logged exact.
LEMMA LogInvNext == ProcessInv /\ ProcessInv' /\ LogInv /\ [Next]_vars => LogInv'
<1> SUFFICES ASSUME ProcessInv, ProcessInv', LogInv, [Next]_vars
             PROVE  LogInv'
  OBVIOUS
<1>1. instructionList' = instructionList
  BY DEF Next, executeNextInstruction, SleepOn, ExecuteInstruction, Finish, vars
<1>2. \A k : ProgramLines(k)' = ProgramLines(k)
  <2>1. exact' = exact
    BY <1>1, ProgramIsFixed
  <2>2. \A k : LinesOf(k)' = LinesOf(k)
    BY <1>1, <2>1 DEF LinesOf
  <2> QED
    BY <2>2 DEF ProgramLines
<1>3. LogInv' <=> /\ log' \in Seq(LogLines)
                  /\ log' \o Pending' = FlattenSeq(ProgramLines(currentInstruction'))
  BY <1>2 DEF LogInv
<1>4. /\ BoundedProgram
      /\ instructionList \in Seq(Instructions) /\ Len(instructionList) \in Nat
      /\ currentInstruction \in 0..Len(instructionList)
      /\ remainingSleepCycles \in Int /\ (isSleeping => remainingSleepCycles >= 0)
      /\ log \in Seq(LogLines)
      /\ log \o Pending = FlattenSeq(ProgramLines(currentInstruction))
  BY ByteRange, LenProperties DEF ProcessInv, TypeOK, SleepsWithAReason, LogInv
<1>5. CASE SleepOn
  <2>1. PICK r \in Nat : r = remainingSleepCycles
    BY <1>4, <1>5 DEF SleepOn
  <2>2. /\ isSleeping /\ isSleeping' = (r - 1 > 0) /\ remainingSleepCycles' = r - 1
        /\ log' = Append(log, AsleepLine(r)) /\ currentInstruction' = currentInstruction
    BY <1>5, <2>1 DEF SleepOn, StillAsleep
  <2>3. Pending = SleepLines(r)
    BY <2>1, <2>2 DEF Pending
  <2>4. PICK rest : rest = IF r - 1 > 0 THEN SleepLines(r - 1) ELSE << >>
    OBVIOUS
  <2>5. Pending' = rest
    BY <2>2, <2>4 DEF Pending
  <2>6. rest \in Seq(LogLines)
    <3>1. << >> \in Seq(LogLines)
      OBVIOUS
    <3>2. r - 1 > 0 => r - 1 \in Nat
      OBVIOUS
    <3> QED
      BY <2>4, <3>1, <3>2, SleepLinesStep
  <2>7. PICK line \in LogLines : line = AsleepLine(r) /\ Pending = <<line>> \o rest
    BY <2>3, <2>4, SleepLinesStep
  <2>8. log' = Append(log, line)
    BY <2>2, <2>7
  <2>9. log' \in Seq(LogLines) /\ log' \o rest = log \o Pending
    BY <1>4, <2>6, <2>7, <2>8, WriteLine
  <2> QED
    BY <1>3, <1>4, <2>2, <2>5, <2>9
<1>6. CASE ExecuteInstruction
  <2>1. PICK k \in 1..Len(instructionList) : k = currentInstruction + 1 /\ k - 1 = currentInstruction
    BY <1>4, <1>6 DEF ExecuteInstruction
  <2>2. PICK i : i = instructionList[k]
    OBVIOUS
  <2>3. /\ ~isSleeping /\ currentInstruction' = k
        /\ log' = Append(log, Details(i, symbolTable', remainingSleepCycles'))
        /\ IF i.op = "SLEEP" THEN isSleeping' = TRUE /\ remainingSleepCycles' = i.cycles % Byte
           ELSE isSleeping' = isSleeping
    BY <1>6, <2>1, <2>2 DEF ExecuteInstruction, logInstruction, setSleeping
  <2>4. TableAfter(symbolTable', k)
    <3>1. exact' = exact /\ \A j, name : Mentioned(j, name)' <=> Mentioned(j, name)
      BY <1>1, ProgramIsFixed
    <3> QED
      BY <2>3, <3>1 DEF ProcessInv, TableIsExact, TableAfter
  <2>5. log = FlattenSeq(ProgramLines(k - 1))
    <3>1. Pending = << >>
      BY <2>3 DEF Pending
    <3> QED
      BY <1>4, <2>1, <3>1, ConcatEmptySeq
  <2>6. FlattenSeq(ProgramLines(k)) = log \o LinesOf(k)
    BY <1>4, <2>5, LinesTyped, ProgramLinesStep
  <2>7. PICK table : table = symbolTable'
    OBVIOUS
  <2>8. CASE i.op = "SLEEP"
    <3>1. PICK s \in Nat : s = i.cycles % Byte
      BY <1>4, <2>2, <2>4, <2>8, LineOfInstruction, InstructionCases, ByteRange
    <3>2. PICK line \in LogLines :
            line = Details(i, table, s) /\ LinesOf(k) = <<line>> \o SleepLines(s)
      BY <1>4, <2>2, <2>4, <2>7, <2>8, <3>1, LineOfInstruction
    <3>3. log' = Append(log, line) /\ Pending' = SleepLines(s)
      BY <2>3, <2>7, <2>8, <3>1, <3>2 DEF Pending
    <3>4. SleepLines(s) \in Seq(LogLines)
      BY SleepLinesStep
    <3> QED
      BY <1>3, <1>4, <2>3, <2>6, <3>2, <3>3, <3>4, WriteLine, SMTT(30)
  <2>9. CASE i.op # "SLEEP"
    <3>1. PICK line \in LogLines :
            line = Details(i, table, remainingSleepCycles') /\ LinesOf(k) = <<line>>
      BY <1>4, <2>2, <2>4, <2>7, <2>9, LineOfInstruction
    <3>2. log' = Append(log, line) /\ Pending' = << >>
      BY <2>3, <2>7, <2>9, <3>1 DEF Pending
    <3>3. << >> \in Seq(LogLines) /\ <<line>> \in Seq(LogLines) /\ <<line>> \o << >> = <<line>>
      BY ConcatEmptySeq
    <3> QED
      BY <1>3, <1>4, <2>3, <2>6, <3>1, <3>2, <3>3, WriteLine
  <2> QED
    BY <2>8, <2>9
<1>7. CASE Finish \/ UNCHANGED vars
  <2>1. log' = log /\ Pending' = Pending /\ currentInstruction' = currentInstruction
    BY <1>7 DEF Finish, vars, Pending
  <2> QED
    BY <1>3, <1>4, <2>1
<1> QED
  BY <1>5, <1>6, <1>7 DEF Next, executeNextInstruction

\* When nothing is pending the log is the exact one.
LEMMA LogInvGivesLog == ProcessInv /\ LogInv => LogIsExact
<1> SUFFICES ASSUME ProcessInv, LogInv PROVE LogIsExact
  OBVIOUS
<1>1. PICK pending \in Seq(LogLines) : 
        /\ pending = Pending
        /\ Len(pending) = IF isSleeping THEN AtLeastOne(remainingSleepCycles) ELSE 0
  <2>1. CASE isSleeping
    <3>1. PICK r \in Nat : r = remainingSleepCycles
      BY <2>1, ByteRange DEF ProcessInv, TypeOK, SleepsWithAReason
    <3> QED
      BY <2>1, <3>1, SleepLinesStep DEF Pending
  <2>2. CASE ~isSleeping
    <3>1. << >> \in Seq(LogLines) /\ Len(<< >>) = 0
      OBVIOUS
    <3>2. Pending = << >>
      BY <2>2 DEF Pending
    <3>3. Len(Pending) = IF isSleeping THEN AtLeastOne(remainingSleepCycles) ELSE 0
      BY <2>2, <3>1, <3>2
    <3> QED
      BY <3>1, <3>2, <3>3
  <2> QED
    BY <2>1, <2>2
<1>2. PICK written \in Seq(LogLines) : written = log
  BY DEF LogInv
<1>3. PICK lines : lines = written \o pending
  OBVIOUS
<1>4. FlattenSeq([k \in 1..currentInstruction |-> LinesOf(k)]) = lines
  BY <1>1, <1>2, <1>3 DEF LogInv, ProgramLines
<1>5. /\ lines \in Seq(LogLines) /\ Len(lines) = Len(written) + Len(pending)
      /\ \A j \in 1..Len(written) : lines[j] = written[j] /\ lines[j] \in LogLines
      /\ Len(written) \in Nat /\ Len(pending) \in Nat
  BY <1>3, ConcatProperties, LenProperties, ElementOfSeq
<1>6. written = SubSeq(lines, 1, Len(written))
  <2>1. PICK first : first = SubSeq(lines, 1, Len(written))
    OBVIOUS
  <2>2. /\ first \in Seq(LogLines) /\ Len(first) = Len(written)
        /\ \A j \in 1..Len(written) : first[j] = written[j]
    BY <1>5, <2>1, SubSeqProperties
  <2> QED
    BY <2>1, <2>2, SeqEqual
<1>7. Len(lines) - Len(pending) = Len(written)
  BY <1>5
<1> QED
  BY <1>1, <1>2, <1>4, <1>6, <1>7 DEF LogIsExact

\* logInstruction and the lines of a sleep: at every moment the log has the
\* lines of the executed instructions in their order, with exact values, and
\* lacks only those of the calls still to be slept. For every program.
THEOREM LogsAreExact == Spec => []LogIsExact
<1>1. Spec => []LogInv
  BY LogInvInit, LogInvNext, AlwaysProcessInv, PTL DEF Spec
<1> QED
  BY <1>1, LogInvGivesLog, AlwaysProcessInv, PTL

===============================================================================

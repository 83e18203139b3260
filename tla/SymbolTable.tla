------------------------------ MODULE SymbolTable ------------------------------
(***************************************************************************)
(* The operations of SymbolTable, on a table that is a function from names *)
(* to values. Every entry is of type INTEGER.                              *)
(***************************************************************************)
EXTENDS Integers, TLC

EmptyTable == << >>

\* The empty string, which is no value.
NoValue == -1

checkVarExists(table, name) == name \in DOMAIN table

retrieveValue(table, name) == IF checkVarExists(table, name) THEN table[name] ELSE NoValue

insertVariable_Overwriting(table, name, value) == (name :> value) @@ table

\* A name that is in the table keeps its value.
insertVariable(table, name, value) ==
  IF checkVarExists(table, name) THEN table
  ELSE [n \in DOMAIN table \cup {name} |-> IF n = name THEN value ELSE table[n]]

updateVariable(table, name, value) ==
  IF checkVarExists(table, name) THEN [table EXCEPT ![name] = value] ELSE table

===============================================================================

----------------------------- MODULE MCPopulation -----------------------------
(* Two populate threads, one after the other or both at once, beside screens  *)
(* that the user makes and opens, one of them with a name populateProcesses   *)
(* makes too and one with the main menu's, and a config.txt that may name no  *)
(* scheduler.                                                                 *)
EXTENDS Shell

CONSTANTS t1, t2, u1
OneThread == {t1}
TwoThreads == {t1, t2}
MCUserNames == {u1, 1, MAIN}
NoNames == {}
===============================================================================

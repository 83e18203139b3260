----------------------------- MODULE AddressSpace -----------------------------
(***************************************************************************)
(* What MemoryManager promises its callers, with no block list: an address *)
(* belongs to at most one process; a process that asks for memory gets     *)
(* that many consecutive addresses or is refused; it is refused only when  *)
(* it already has memory or when no run of free addresses is long enough;  *)
(* and only the release by its own process frees an address.               *)
(***************************************************************************)
EXTENDS Integers

CONSTANTS ProcessIds, NoProcess, MaxMemory, Needs

VARIABLES
  owner,    \* owner[a] is the process address a belongs to, or NoProcess
  answer    \* the last call and what it returned

Addresses == 0..(MaxMemory - 1)
Resident(pid) == \E a \in Addresses : owner[a] = pid
FreeRun(first, need) ==
  /\ first + need <= MaxMemory
  /\ \A a \in first..(first + need - 1) : owner[a] = NoProcess

ASInit ==
  /\ owner = [a \in Addresses |-> NoProcess]
  /\ answer = [call |-> "none"]

Grant(pid, need) ==
  /\ ~Resident(pid)
  /\ \E first \in Addresses :
       /\ FreeRun(first, need)
       /\ owner' = [a \in Addresses |->
                      IF a \in first..(first + need - 1) THEN pid ELSE owner[a]]
  /\ answer' = [call |-> "allocate", pid |-> pid, need |-> need, ok |-> TRUE]

Refuse(pid, need) ==
  /\ Resident(pid) \/ \A first \in Addresses : ~FreeRun(first, need)
  /\ answer' = [call |-> "allocate", pid |-> pid, need |-> need, ok |-> FALSE]
  /\ UNCHANGED owner

GiveBack(pid) ==
  /\ owner' = [a \in Addresses |-> IF owner[a] = pid THEN NoProcess ELSE owner[a]]
  /\ answer' = [call |-> "deallocate", pid |-> pid]

ASNext ==
  \E pid \in ProcessIds :
    \/ \E need \in Needs : Grant(pid, need) \/ Refuse(pid, need)
    \/ GiveBack(pid)

ASSpec == ASInit /\ [][ASNext]_<<owner, answer>>

===============================================================================

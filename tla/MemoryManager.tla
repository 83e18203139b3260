---------------------------- MODULE MemoryManager -----------------------------
(***************************************************************************)
(* MemoryManager on its own: callers allocate and deallocate in any order, *)
(* for any process. Each method holds memoryMutex from its first statement *)
(* to its return, so a call is one action.                                 *)
(***************************************************************************)
EXTENDS MemoryBlocks

CONSTANT Needs    \* the sizes processes ask for

\* populateProcesses draws the size from [min-mem-per-proc, max-mem-per-proc].
ASSUME NeedsAssumption == Needs \subseteq Nat \ {0}

VARIABLES
  memoryBlocks,   \* the block list
  answer          \* the last call and the value it returned

vars == <<memoryBlocks, answer>>

Init ==
  /\ memoryBlocks = InitialBlocks
  /\ answer = [call |-> "none"]

allocateMemory(pid, need) ==
  /\ memoryBlocks' = AfterAllocate(memoryBlocks, pid, need)
  /\ answer' = [call |-> "allocate", pid |-> pid, need |-> need,
                ok |-> CanAllocate(memoryBlocks, pid, need)]

deallocateMemory(pid) ==
  /\ memoryBlocks' = AfterDeallocate(memoryBlocks, pid)
  /\ answer' = [call |-> "deallocate", pid |-> pid]

Next ==
  \E pid \in ProcessIds :
    \/ \E need \in Needs : allocateMemory(pid, need)
    \/ deallocateMemory(pid)

Spec == Init /\ [][Next]_vars

-------------------------------------------------------------------------------
\* The block list is always a tiling of memory by coalesced blocks, one per
\* resident process (the structure both loops of MemoryManager rely on).
BlocksWellFormed == WellFormed(memoryBlocks)

\* A call moves no memory it was not asked about: every other process keeps
\* its block, start and size, through any split or merge around it.
OthersKeepTheirBlock ==
  [][\A i \in 1..Len(memoryBlocks) :
       LET b == memoryBlocks[i]
       IN  b.allocated /\ b.processId # answer'.pid
             => \E j \in 1..Len(memoryBlocks') : memoryBlocks'[j] = b]_vars

\* The owner of address a according to the block list.
OwnerOf(a) ==
  LET i == CHOOSE k \in 1..Len(memoryBlocks) :
             /\ memoryBlocks[k].start <= a
             /\ a < memoryBlocks[k].start + memoryBlocks[k].size
  IN  memoryBlocks[i].processId

Space == INSTANCE AddressSpace WITH owner <- [a \in 0..(MaxMemory-1) |-> OwnerOf(a)]

\* MemoryManager implements the address space: in particular allocateMemory
\* refuses a process only when no free run is long enough, which needs the
\* merges of deallocateMemory.
ImplementsAddressSpace == Space!ASSpec

===============================================================================

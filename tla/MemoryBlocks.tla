----------------------------- MODULE MemoryBlocks -----------------------------
(***************************************************************************)
(* The data structure of MemoryManager: main memory as a list of adjacent  *)
(* blocks, each free or allocated to one process, in address order.        *)
(* Allocation takes the first free block that is large enough and splits   *)
(* it; deallocation frees the block of a process and merges it with the    *)
(* free blocks around it.                                                  *)
(*                                                                         *)
(* The operators work on a block list given as a parameter, so that the    *)
(* scheduler modules can apply them to their own memory variable.          *)
(***************************************************************************)
EXTENDS Integers, SequencesExt

CONSTANTS
  ProcessIds,   \* the identifiers of processes
  NoProcess,    \* the processId of a free block, -1 in the code
  MaxMemory     \* the size of main memory

ASSUME MemoryAssumption ==
  /\ NoProcess \notin ProcessIds
  /\ MaxMemory \in Nat

Blocks == [start : Nat, size : Nat, allocated : BOOLEAN,
           processId : ProcessIds \cup {NoProcess}]

FreeBlock(start, size) ==
  [start |-> start, size |-> size, allocated |-> FALSE, processId |-> NoProcess]

UsedBlock(start, size, pid) ==
  [start |-> start, size |-> size, allocated |-> TRUE, processId |-> pid]

\* The list the constructor builds: one free block, all of memory.
InitialBlocks == << FreeBlock(0, MaxMemory) >>

HoldsProcess(b, pid) == b.allocated /\ b.processId = pid

IsInMemory(blocks, pid) == \E i \in 1..Len(blocks) : HoldsProcess(blocks[i], pid)

-------------------------------------------------------------------------------
(* allocateMemory *)

Fits_IgnoringUse(b, need) == b.size >= need

Fits(b, need) == ~b.allocated /\ b.size >= need

CanAllocate(blocks, pid, need) ==
  /\ ~IsInMemory(blocks, pid)
  /\ \E i \in 1..Len(blocks) : Fits(blocks[i], need)

FirstFit(blocks, need) == SelectInSeq(blocks, LAMBDA b : Fits(b, need))

\* Block i is replaced by a block of the process and, if space is left, by a
\* free block with the rest.
Split_DropsRest(blocks, i, pid, need) ==
  ReplaceAt(blocks, i, UsedBlock(blocks[i].start, need, pid))

Split(blocks, i, pid, need) ==
  LET whole == blocks[i]
      taken == ReplaceAt(blocks, i, UsedBlock(whole.start, need, pid))
  IN  IF whole.size > need
      THEN InsertAt(taken, i + 1, FreeBlock(whole.start + need, whole.size - need))
      ELSE taken

\* The list allocateMemory leaves: unchanged when it returns false.
AfterAllocate(blocks, pid, need) ==
  IF CanAllocate(blocks, pid, need)
  THEN Split(blocks, FirstFit(blocks, need), pid, need)
  ELSE blocks

-------------------------------------------------------------------------------
(* deallocateMemory *)

BlockOf(blocks, pid) == SelectInSeq(blocks, LAMBDA b : HoldsProcess(b, pid))

\* Block i grows by the block after it, which is erased.
Absorb(blocks, i) ==
  RemoveAt([blocks EXCEPT ![i].size = @ + blocks[i+1].size], i + 1)

MergeNext_Never(blocks, i) == blocks

MergeNext(blocks, i) ==
  IF i + 1 <= Len(blocks) /\ ~blocks[i+1].allocated
  THEN Absorb(blocks, i) ELSE blocks

\* A free block i is first absorbed by a free block before it; what results
\* then absorbs a free block after it.
Release(blocks, i) ==
  LET freed == [blocks EXCEPT ![i].allocated = FALSE, ![i].processId = NoProcess]
  IN  IF i > 1 /\ ~freed[i-1].allocated
      THEN MergeNext(Absorb(freed, i - 1), i - 1)
      ELSE MergeNext(freed, i)

AfterDeallocate(blocks, pid) ==
  IF IsInMemory(blocks, pid) THEN Release(blocks, BlockOf(blocks, pid)) ELSE blocks

-------------------------------------------------------------------------------
(* What the list is meant to satisfy *)

\* The blocks cover memory from address 0 to MaxMemory without gap or overlap.
Tiled(blocks) ==
  /\ Len(blocks) > 0
  /\ blocks[1].start = 0
  /\ \A i \in 1..(Len(blocks)-1) :
        blocks[i+1].start = blocks[i].start + blocks[i].size
  /\ blocks[Len(blocks)].start + blocks[Len(blocks)].size = MaxMemory

\* No two free blocks are adjacent: fragmentation is external only where an
\* allocated block separates the free ones.
Coalesced(blocks) ==
  \A i \in 1..(Len(blocks)-1) : blocks[i].allocated \/ blocks[i+1].allocated

\* No process has two blocks, and exactly the allocated blocks name a process.
OneBlockEach(blocks) ==
  /\ \A i, j \in 1..Len(blocks) :
        blocks[i].allocated /\ blocks[j].allocated
          /\ blocks[i].processId = blocks[j].processId => i = j
  /\ \A i \in 1..Len(blocks) : blocks[i].allocated <=> blocks[i].processId # NoProcess

WellFormed(blocks) ==
  /\ blocks \in Seq(Blocks)
  /\ Tiled(blocks)
  /\ Coalesced(blocks)
  /\ OneBlockEach(blocks)

===============================================================================

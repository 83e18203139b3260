-------------------------- MODULE MemoryManagerProofs -------------------------
(***************************************************************************)
(* The block list of MemoryManager is always well-formed, a call concerns  *)
(* no process but its own, and the list implements the address space.      *)
(***************************************************************************)
EXTENDS MemoryManager, MemoryBlocksProofs

\* For every memory size and every sequence of calls, the blocks tile memory,
\* no two free blocks are adjacent and no process has two blocks.
THEOREM AlwaysWellFormed == Spec => []BlocksWellFormed
<1>1. Init => BlocksWellFormed
  BY InitialWellFormed DEF Init, BlocksWellFormed
<1>2. BlocksWellFormed /\ [Next]_vars => BlocksWellFormed'
  <2> SUFFICES ASSUME BlocksWellFormed, [Next]_vars PROVE BlocksWellFormed'
    OBVIOUS
  <2>1. ASSUME NEW pid \in ProcessIds, NEW need \in Needs, allocateMemory(pid, need)
        PROVE  BlocksWellFormed'
    <3>1. need \in Nat
      BY NeedsAssumption
    <3>2. WellFormed(AfterAllocate(memoryBlocks, pid, need))
      BY <3>1, AllocateWellFormed DEF BlocksWellFormed
    <3>3. memoryBlocks' = AfterAllocate(memoryBlocks, pid, need)
      BY <2>1 DEF allocateMemory
    <3> QED  BY <3>2, <3>3 DEF BlocksWellFormed
  <2>2. ASSUME NEW pid \in ProcessIds, deallocateMemory(pid) PROVE BlocksWellFormed'
    <3>1. WellFormed(AfterDeallocate(memoryBlocks, pid))
      BY DeallocateWellFormed DEF BlocksWellFormed
    <3>2. memoryBlocks' = AfterDeallocate(memoryBlocks, pid)
      BY <2>2 DEF deallocateMemory
    <3> QED  BY <3>1, <3>2 DEF BlocksWellFormed
  <2>3. CASE UNCHANGED vars
    BY <2>3 DEF vars, BlocksWellFormed
  <2> QED  BY <2>1, <2>2, <2>3 DEF Next
<1> QED
  BY <1>1, <1>2, PTL DEF Spec

\* No call moves, resizes or frees the block of a process it is not about.
THEOREM OthersKeep == Spec => OthersKeepTheirBlock
<1> DEFINE Keeps ==
      \A i \in 1..Len(memoryBlocks) :
        memoryBlocks[i].allocated /\ memoryBlocks[i].processId # answer'.pid
          => \E j \in 1..Len(memoryBlocks') : memoryBlocks'[j] = memoryBlocks[i]
<1>1. BlocksWellFormed /\ [Next]_vars => [Keeps]_vars
  <2> SUFFICES ASSUME BlocksWellFormed, Next PROVE Keeps
    OBVIOUS
  <2>1. ASSUME NEW pid \in ProcessIds, answer'.pid = pid,
               {b \in UsedBlocks(memoryBlocks) : b.processId # pid}
                 \subseteq UsedBlocks(memoryBlocks')
        PROVE  Keeps
    BY <2>1, UsedBlocksMembers
  <2> HIDE DEF Keeps
  <2>2. ASSUME NEW pid \in ProcessIds, NEW need \in Needs, allocateMemory(pid, need)
        PROVE  Keeps
    <3>1. /\ answer'.pid = pid
          /\ memoryBlocks' = AfterAllocate(memoryBlocks, pid, need)
      BY <2>2 DEF allocateMemory
    <3>2. memoryBlocks \in Seq(Blocks) /\ need \in Nat
      BY NeedsAssumption DEF BlocksWellFormed, WellFormed
    <3>3. UsedBlocks(memoryBlocks) \subseteq UsedBlocks(memoryBlocks')
      <4>1. CASE CanAllocate(memoryBlocks, pid, need)
        BY <3>1, <3>2, <4>1, AllocateAddsBlock
      <4>2. CASE ~CanAllocate(memoryBlocks, pid, need)
        BY <3>1, <4>2 DEF AfterAllocate
      <4> QED  BY <4>1, <4>2
    <3> QED  BY <2>1, <3>1, <3>3
  <2>3. ASSUME NEW pid \in ProcessIds, deallocateMemory(pid) PROVE Keeps
    <3>1. /\ answer'.pid = pid
          /\ memoryBlocks' = AfterDeallocate(memoryBlocks, pid)
      BY <2>3 DEF deallocateMemory
    <3>2. UsedBlocks(memoryBlocks') = {b \in UsedBlocks(memoryBlocks) : b.processId # pid}
      BY <3>1, DeallocateDropsBlock DEF BlocksWellFormed
    <3> QED  BY <2>1, <3>1, <3>2
  <2> QED  BY <2>2, <2>3 DEF Next
<1>2. [Keeps]_vars =>
        [\A i \in 1..Len(memoryBlocks) :
           LET b == memoryBlocks[i]
           IN  b.allocated /\ b.processId # answer'.pid
                 => \E j \in 1..Len(memoryBlocks') : memoryBlocks'[j] = b]_vars
  OBVIOUS
<1> HIDE DEF Keeps
<1> QED
  BY <1>1, <1>2, AlwaysWellFormed, PTL DEF Spec, OthersKeepTheirBlock

-------------------------------------------------------------------------------
(* The address space *)

Addresses == 0..(MaxMemory - 1)

\* What Space sees of the block list.
Owners == [a \in Addresses |-> OwnerOf(a)]

\* The processId of the block that an address is in.
BlockOwner(blocks, a) ==
  LET i == CHOOSE k \in 1..Len(blocks) :
             /\ blocks[k].start <= a
             /\ a < blocks[k].start + blocks[k].size
  IN  blocks[i].processId

OwnedBy(blocks, pid, a) ==
  \E b \in UsedBlocks(blocks) : b.processId = pid /\ Covers(b, a)

\* The owner of an address in the refinement mapping, as an operator of the list.
LEMMA OwnerIsBlockOwner ==
  /\ \A a : OwnerOf(a) = BlockOwner(memoryBlocks, a)
  /\ \A a : OwnerOf(a)' = BlockOwner(memoryBlocks', a)
BY DEF OwnerOf, BlockOwner

\* An address belongs to the process with an allocated block around it, or, in a
\* free block, to none: the CHOOSE of OwnerOf has exactly one block to choose.
LEMMA OwnerByBlock ==
  ASSUME NEW blocks, WellFormed(blocks), NEW a \in Addresses
  PROVE  /\ BlockOwner(blocks, a) \in ProcessIds \cup {NoProcess}
         /\ \A pid \in ProcessIds : BlockOwner(blocks, a) = pid <=> OwnedBy(blocks, pid, a)
         /\ \A i \in 1..Len(blocks) : Covers(blocks[i], a) =>
              BlockOwner(blocks, a) = blocks[i].processId
<1>1. PICK i \in 1..Len(blocks) : Covers(blocks[i], a)
  BY AddressInOneBlock DEF Addresses
<1>2. \A j \in 1..Len(blocks) : Covers(blocks[j], a) => j = i
  BY <1>1, AddressInOneBlock DEF Addresses
<1>3. BlockOwner(blocks, a) = blocks[i].processId
  <2>1. i = CHOOSE k \in 1..Len(blocks) :
              blocks[k].start <= a /\ a < blocks[k].start + blocks[k].size
    BY <1>1, <1>2 DEF Covers
  <2> QED
    BY <2>1 DEF BlockOwner
<1>4. /\ blocks[i].processId \in ProcessIds \cup {NoProcess}
      /\ blocks[i].allocated <=> blocks[i].processId # NoProcess
  BY BlockFields DEF WellFormed, OneBlockEach
<1>5. ASSUME NEW pid \in ProcessIds
      PROVE  BlockOwner(blocks, a) = pid <=> OwnedBy(blocks, pid, a)
  <2>1. ASSUME BlockOwner(blocks, a) = pid PROVE OwnedBy(blocks, pid, a)
    <3>1. blocks[i].allocated /\ blocks[i].processId = pid
      BY <1>3, <1>4, <2>1, MemoryAssumption
    <3> QED
      BY <1>1, <3>1, UsedBlocksMembers DEF OwnedBy
  <2>2. ASSUME OwnedBy(blocks, pid, a) PROVE BlockOwner(blocks, a) = pid
    <3>1. PICK j \in 1..Len(blocks) : blocks[j].processId = pid /\ Covers(blocks[j], a)
      BY <2>2, UsedBlocksMembers DEF OwnedBy
    <3> QED
      BY <1>2, <1>3, <3>1
  <2> QED
    BY <2>1, <2>2
<1>6. \A j \in 1..Len(blocks) : Covers(blocks[j], a) =>
        BlockOwner(blocks, a) = blocks[j].processId
  BY <1>2, <1>3
<1> QED
  BY <1>3, <1>4, <1>5, <1>6

\* min-mem-per-proc is not 0, so no process has an empty block.
NoEmptyBlock == \A b \in UsedBlocks(memoryBlocks) : b.size \in Nat \ {0} /\ b.start \in Nat

SpaceInv == BlocksWellFormed /\ NoEmptyBlock

\* A process has memory if and only if some address is its own.
LEMMA ResidentIsInMemory ==
  ASSUME SpaceInv, NEW pid \in ProcessIds
  PROVE  Space!Resident(pid) <=> IsInMemory(memoryBlocks, pid)
<1>1. WellFormed(memoryBlocks)
  BY DEF SpaceInv, BlocksWellFormed
<1>2. \A a \in Addresses : OwnerOf(a) = pid <=> OwnedBy(memoryBlocks, pid, a)
  BY <1>1, OwnerByBlock, OwnerIsBlockOwner
<1>3. Space!Resident(pid) <=> \E a \in Addresses : OwnedBy(memoryBlocks, pid, a)
  BY <1>2 DEF Space!Resident, Space!Addresses, Addresses
<1>4. ASSUME NEW b \in UsedBlocks(memoryBlocks), b.processId = pid
      PROVE  \E a \in Addresses : OwnedBy(memoryBlocks, pid, a)
  <2>1. PICK i \in 1..Len(memoryBlocks) : memoryBlocks[i] = b
    BY UsedBlocksMembers
  <2>2. b.start \in Nat /\ b.size \in Nat /\ b.size # 0 /\ b.start + b.size <= MaxMemory
    BY <1>1, <2>1, BlocksInMemory DEF SpaceInv, NoEmptyBlock
  <2>3. b.start \in Addresses /\ Covers(b, b.start)
    BY <2>2, MemoryAssumption DEF Addresses, Covers
  <2> QED
    BY <1>4, <2>3 DEF OwnedBy
<1> QED
  BY <1>3, <1>4, InMemoryByBlock DEF OwnedBy

\* A run of free addresses lies in one free block: two free blocks are never
\* adjacent, so what ends a free block is a block of some process.
LEMMA FreeRunIsInOneBlock ==
  ASSUME SpaceInv, NEW need \in Nat \ {0}, NEW first \in Addresses,
         Space!FreeRun(first, need)
  PROVE  \E i \in 1..Len(memoryBlocks) : Fits(memoryBlocks[i], need)
<1>1. /\ WellFormed(memoryBlocks) /\ first \in Nat /\ need \in Nat /\ need # 0
      /\ Addresses \subseteq Nat /\ \A a \in Nat : a < MaxMemory => a \in Addresses
  BY MemoryAssumption DEF SpaceInv, BlocksWellFormed, Addresses
<1>2. /\ first + need <= MaxMemory
      /\ \A a \in first..(first + need - 1) : OwnerOf(a) = NoProcess
  <2>1. first + need <= MaxMemory
    BY DEF Space!FreeRun
  <2>2. ASSUME NEW a \in first..(first + need - 1) PROVE OwnerOf(a) = NoProcess
    <3>1. a \in 0..(MaxMemory - 1)
      BY <1>1, <2>1, MemoryAssumption
    <3> QED
      BY <3>1 DEF Space!FreeRun
  <2> QED
    BY <2>1, <2>2
<1>3. \A i \in 1..Len(memoryBlocks) :
        /\ memoryBlocks[i].start \in Nat /\ memoryBlocks[i].size \in Nat
        /\ memoryBlocks[i].allocated <=> memoryBlocks[i].processId # NoProcess
  BY <1>1, BlockFields DEF WellFormed, OneBlockEach
<1>4. ASSUME NEW a \in first..(first + need - 1), NEW i \in 1..Len(memoryBlocks),
             Covers(memoryBlocks[i], a)
      PROVE  ~memoryBlocks[i].allocated
  <2>1. a \in Addresses
    BY <1>1, <1>2, MemoryAssumption
  <2>2. memoryBlocks[i].processId = NoProcess
    BY <1>1, <1>2, <1>4, <2>1, OwnerByBlock, OwnerIsBlockOwner
  <2> QED
    BY <1>3, <2>2
<1>5. PICK i \in 1..Len(memoryBlocks) : Covers(memoryBlocks[i], first)
  BY <1>1, AddressInOneBlock DEF Addresses
<1>6. PICK b : b = memoryBlocks[i]
  OBVIOUS
<1>7. /\ b.start \in Nat /\ b.size \in Nat
      /\ b.start <= first /\ first < b.start + b.size
  BY <1>3, <1>5, <1>6 DEF Covers
<1>8. ~b.allocated
  <2>1. first \in first..(first + need - 1)
    BY <1>1
  <2> QED
    BY <1>4, <1>5, <1>6, <2>1
<1>9. PICK end \in Nat : end = b.start + b.size
  BY <1>7
<1>10. ~(end < first + need)
  <2> SUFFICES ASSUME end < first + need PROVE FALSE
    OBVIOUS
  <2>1. end \in first..(first + need - 1) /\ end # MaxMemory
    BY <1>1, <1>2, <1>7, <1>9, MemoryAssumption
  <2>2. i + 1 \in 1..Len(memoryBlocks)
    BY <1>1, <1>6, <1>9, <2>1, BlocksInMemory
  <2>3. i \in 1..(Len(memoryBlocks) - 1)
    <3>1. PICK n \in Nat : n = Len(memoryBlocks)
      BY <1>1, LenProperties DEF WellFormed
    <3> QED
      BY <2>2, <3>1
  <2>4. memoryBlocks[i + 1].start = end /\ memoryBlocks[i + 1].allocated
    BY <1>1, <1>6, <1>8, <1>9, <2>3 DEF WellFormed, Tiled, Coalesced
  <2>5. memoryBlocks[i + 1].size # 0
    BY <2>2, <2>4, UsedBlocksMembers DEF SpaceInv, NoEmptyBlock
  <2>6. Covers(memoryBlocks[i + 1], end)
    BY <1>3, <2>2, <2>4, <2>5 DEF Covers
  <2> QED
    BY <1>4, <2>1, <2>2, <2>4, <2>6
<1>11. b.size >= need
  BY <1>1, <1>7, <1>9, <1>10
<1> QED
  BY <1>6, <1>8, <1>11 DEF Fits

\* allocateMemory returns true: the process gets a free run and nobody else's.
LEMMA AllocatingGrants ==
  ASSUME SpaceInv, BlocksWellFormed', NEW pid \in ProcessIds, NEW need \in Needs,
         allocateMemory(pid, need), CanAllocate(memoryBlocks, pid, need)
  PROVE  Space!Grant(pid, need) /\ NoEmptyBlock'
<1>1. /\ WellFormed(memoryBlocks) /\ memoryBlocks \in Seq(Blocks) /\ WellFormed(memoryBlocks')
      /\ need \in Nat /\ need # 0
  BY NeedsAssumption DEF SpaceInv, BlocksWellFormed, WellFormed
<1>2. PICK b : /\ b.allocated /\ b.processId = pid /\ b.size = need
               /\ \E i \in 1..Len(memoryBlocks) :
                    Fits(memoryBlocks[i], need) /\ b.start = memoryBlocks[i].start
               /\ UsedBlocks(memoryBlocks') = UsedBlocks(memoryBlocks) \cup {b}
  BY <1>1, AllocateAddsBlock DEF allocateMemory
<1>3. PICK i \in 1..Len(memoryBlocks) :
        /\ ~memoryBlocks[i].allocated /\ memoryBlocks[i].size >= need
        /\ b.start = memoryBlocks[i].start
  BY <1>2 DEF Fits
<1>4. PICK first \in Nat : first = b.start
  BY <1>1, <1>3, BlockFields
<1>5. first + need <= MaxMemory
  <2>1. memoryBlocks[i].start + memoryBlocks[i].size <= MaxMemory
    BY <1>1, BlocksInMemory
  <2>2. memoryBlocks[i].size \in Nat
    BY <1>1, BlockFields
  <2> QED
    BY <1>1, <1>3, <1>4, <2>1, <2>2, MemoryAssumption
<1>6. first \in Addresses /\ Addresses \subseteq Int
  BY <1>1, <1>4, <1>5, MemoryAssumption DEF Addresses
<1>7. \A a \in Addresses : Covers(b, a) <=> a \in first..(first + need - 1)
  BY <1>1, <1>2, <1>4, <1>6 DEF Covers
<1>8. Space!FreeRun(first, need)
  <2>1. ASSUME NEW a \in first..(first + need - 1)
        PROVE  a \in 0..(MaxMemory - 1) /\ OwnerOf(a) = NoProcess
    <3>1. a \in Addresses
      BY <1>1, <1>4, <1>5, MemoryAssumption DEF Addresses
    <3>2. memoryBlocks[i].size \in Nat
      BY <1>1, BlockFields
    <3>3. Covers(memoryBlocks[i], a)
      BY <1>1, <1>3, <1>4, <3>2 DEF Covers
    <3>4. memoryBlocks[i].processId = NoProcess
      BY <1>1, <1>3 DEF WellFormed, OneBlockEach
    <3> QED
      BY <1>1, <3>1, <3>3, <3>4, OwnerByBlock, OwnerIsBlockOwner DEF Addresses
  <2> QED
    BY <1>5, <2>1 DEF Space!FreeRun
<1>9. \A a \in Addresses :
        OwnerOf(a)' = IF a \in first..(first + need - 1) THEN pid ELSE OwnerOf(a)
  <2> SUFFICES ASSUME NEW a \in Addresses
               PROVE  BlockOwner(memoryBlocks', a) =
                        IF a \in first..(first + need - 1) THEN pid
                        ELSE BlockOwner(memoryBlocks, a)
    BY OwnerIsBlockOwner
  <2>1. \A q \in ProcessIds :
          OwnedBy(memoryBlocks', q, a)
            <=> OwnedBy(memoryBlocks, q, a) \/ (q = pid /\ a \in first..(first + need - 1))
    BY <1>2, <1>7 DEF OwnedBy
  <2>2. CASE a \in first..(first + need - 1)
    <3>1. OwnedBy(memoryBlocks', pid, a)
      BY <2>1, <2>2
    <3> QED
      BY <1>1, <2>2, <3>1, OwnerByBlock
  <2>3. CASE a \notin first..(first + need - 1)
    <3>1. \A q \in ProcessIds :
            BlockOwner(memoryBlocks', a) = q <=> BlockOwner(memoryBlocks, a) = q
      BY <1>1, <2>1, <2>3, OwnerByBlock
    <3>2. /\ BlockOwner(memoryBlocks', a) \in ProcessIds \cup {NoProcess}
          /\ BlockOwner(memoryBlocks, a) \in ProcessIds \cup {NoProcess}
      BY <1>1, OwnerByBlock
    <3>3. BlockOwner(memoryBlocks', a) = BlockOwner(memoryBlocks, a)
      BY <3>1, <3>2
    <3> QED
      BY <2>3, <3>3
  <2> QED
    BY <2>2, <2>3
<1>10. Owners' = [a \in Addresses |-> IF a \in first..(first + need - 1) THEN pid ELSE Owners[a]]
  BY <1>9 DEF Owners
<1>11. ~Space!Resident(pid)
  BY ResidentIsInMemory DEF CanAllocate
<1>12. answer' = [call |-> "allocate", pid |-> pid, need |-> need, ok |-> TRUE]
  BY DEF allocateMemory
<1>13. Space!Grant(pid, need)
  BY <1>6, <1>8, <1>10, <1>11, <1>12 DEF Space!Grant, Space!Addresses, Owners, Addresses
<1>14. NoEmptyBlock'
  BY <1>1, <1>2, <1>4 DEF SpaceInv, NoEmptyBlock
<1> QED
  BY <1>13, <1>14

\* allocateMemory returns false only for a process that has memory, or when no
\* run of free addresses is long enough.
LEMMA RefusingRefuses ==
  ASSUME SpaceInv, NEW pid \in ProcessIds, NEW need \in Needs,
         allocateMemory(pid, need), ~CanAllocate(memoryBlocks, pid, need)
  PROVE  Space!Refuse(pid, need) /\ NoEmptyBlock'
<1>1. memoryBlocks' = memoryBlocks
  BY DEF allocateMemory, AfterAllocate
<1>2. Owners' = Owners
  BY <1>1, OwnerIsBlockOwner DEF Owners
<1>3. answer' = [call |-> "allocate", pid |-> pid, need |-> need, ok |-> FALSE]
  <2>1. CanAllocate(memoryBlocks, pid, need) = FALSE
    BY DEF CanAllocate
  <2> QED
    BY <2>1 DEF allocateMemory
<1>4. Space!Resident(pid) \/ \A first \in Addresses : ~Space!FreeRun(first, need)
  <2>1. need \in Nat \ {0}
    BY NeedsAssumption
  <2> QED
    BY <2>1, ResidentIsInMemory, FreeRunIsInOneBlock DEF CanAllocate
<1>5. Space!Refuse(pid, need)
  BY <1>2, <1>3, <1>4 DEF Space!Refuse, Space!Addresses, Owners, Addresses
<1> QED
  BY <1>1, <1>5 DEF SpaceInv, NoEmptyBlock

\* deallocateMemory frees the addresses of its process and no others.
LEMMA DeallocatingGivesBack ==
  ASSUME SpaceInv, BlocksWellFormed', NEW pid \in ProcessIds, deallocateMemory(pid)
  PROVE  Space!GiveBack(pid) /\ NoEmptyBlock'
<1>1. WellFormed(memoryBlocks) /\ WellFormed(memoryBlocks')
  BY DEF SpaceInv, BlocksWellFormed
<1>2. UsedBlocks(memoryBlocks') = {b \in UsedBlocks(memoryBlocks) : b.processId # pid}
  BY <1>1, DeallocateDropsBlock DEF deallocateMemory
<1>3. \A a \in Addresses : OwnerOf(a)' = IF OwnerOf(a) = pid THEN NoProcess ELSE OwnerOf(a)
  <2> SUFFICES ASSUME NEW a \in Addresses
               PROVE  BlockOwner(memoryBlocks', a) =
                        IF BlockOwner(memoryBlocks, a) = pid THEN NoProcess
                        ELSE BlockOwner(memoryBlocks, a)
    BY OwnerIsBlockOwner
  <2>1. \A q \in ProcessIds :
          OwnedBy(memoryBlocks', q, a) <=> OwnedBy(memoryBlocks, q, a) /\ q # pid
    BY <1>2 DEF OwnedBy
  <2>2. \A q \in ProcessIds :
          BlockOwner(memoryBlocks', a) = q <=> BlockOwner(memoryBlocks, a) = q /\ q # pid
    BY <1>1, <2>1, OwnerByBlock
  <2>3. /\ BlockOwner(memoryBlocks', a) \in ProcessIds \cup {NoProcess}
        /\ BlockOwner(memoryBlocks, a) \in ProcessIds \cup {NoProcess}
    BY <1>1, OwnerByBlock
  <2> QED
    BY <2>2, <2>3, MemoryAssumption
<1>4. Owners' = [a \in Addresses |-> IF Owners[a] = pid THEN NoProcess ELSE Owners[a]]
  BY <1>3 DEF Owners
<1>5. answer' = [call |-> "deallocate", pid |-> pid]
  BY DEF deallocateMemory
<1>6. Space!GiveBack(pid)
  BY <1>4, <1>5 DEF Space!GiveBack, Space!Addresses, Owners, Addresses
<1> QED
  BY <1>2, <1>6 DEF SpaceInv, NoEmptyBlock

\* MemoryManager is the address space, for every memory size and every sequence of
\* calls whose requests are of at least one unit (NeedsAssumption): no address is handed out twice, a request is refused only if no
\* free run is long enough, and only its own process frees an address.
THEOREM MemoryImplementsAddressSpace == Spec => ImplementsAddressSpace
<1>1. Init => SpaceInv /\ Space!ASInit
  <2> SUFFICES ASSUME Init PROVE SpaceInv /\ Space!ASInit
    OBVIOUS
  <2>1. memoryBlocks = InitialBlocks /\ answer = [call |-> "none"] /\ WellFormed(memoryBlocks)
    BY InitialWellFormed DEF Init
  <2>2. UsedBlocks(memoryBlocks) = {}
    BY <2>1 DEF InitialBlocks, FreeBlock, UsedBlocks
  <2>3. \A a \in Addresses : OwnerOf(a) = NoProcess
    BY <2>1, <2>2, OwnerByBlock, OwnerIsBlockOwner DEF OwnedBy
  <2> QED
    BY <2>1, <2>2, <2>3 DEF SpaceInv, BlocksWellFormed, NoEmptyBlock, Space!ASInit,
                            Space!Addresses, Addresses
<1>2. SpaceInv /\ BlocksWellFormed' /\ [Next]_vars
        => SpaceInv' /\ [Space!ASNext]_<<Owners, answer>>
  <2> SUFFICES ASSUME SpaceInv, BlocksWellFormed', [Next]_vars
               PROVE  NoEmptyBlock' /\ [Space!ASNext]_<<Owners, answer>>
    BY DEF SpaceInv
  <2>1. ASSUME NEW pid \in ProcessIds, NEW need \in Needs, allocateMemory(pid, need)
        PROVE  NoEmptyBlock' /\ Space!ASNext
    BY <2>1, AllocatingGrants, RefusingRefuses DEF Space!ASNext
  <2>2. ASSUME NEW pid \in ProcessIds, deallocateMemory(pid)
        PROVE  NoEmptyBlock' /\ Space!ASNext
    BY <2>2, DeallocatingGivesBack DEF Space!ASNext
  <2>3. CASE UNCHANGED vars
    <3>1. memoryBlocks' = memoryBlocks /\ answer' = answer
      BY <2>3 DEF vars
    <3>2. Owners' = Owners
      BY <3>1, OwnerIsBlockOwner DEF Owners
    <3> QED
      BY <3>1, <3>2 DEF SpaceInv, NoEmptyBlock
  <2> QED
    BY <2>1, <2>2, <2>3 DEF Next
<1> QED
  BY <1>1, <1>2, AlwaysWellFormed, PTL
  DEF Spec, ImplementsAddressSpace, Space!ASSpec, Owners, Addresses

===============================================================================

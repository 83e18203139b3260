-------------------------- MODULE MemoryBlocksProofs --------------------------
(***************************************************************************)
(* allocateMemory and deallocateMemory keep the block list well-formed,    *)
(* for every memory size, every set of processes and every request.        *)
(***************************************************************************)
EXTENDS MemoryBlocks, ListLemmas

\* The loop of allocateMemory stops at a block that fits, if there is one.
LEMMA FirstFitFits ==
  ASSUME NEW blocks \in Seq(Blocks), NEW need \in Nat,
         \E i \in 1..Len(blocks) : Fits(blocks[i], need)
  PROVE  /\ FirstFit(blocks, need) \in 1..Len(blocks)
         /\ Fits(blocks[FirstFit(blocks, need)], need)
<1> DEFINE I == {i \in 1..Len(blocks) : Fits(blocks[i], need)}
<1>1. Len(blocks) \in Nat
  BY LenProperties
<1>2. I \in SUBSET Nat /\ I # {}
  BY <1>1
<1>3. FirstFit(blocks, need) = Min(I)
  BY <1>2 DEF FirstFit, SelectInSeq
<1> HIDE DEF I
<1>4. Min(I) \in I
  BY <1>2, MinIsLeast
<1> QED
  BY <1>3, <1>4 DEF I

\* The loop of deallocateMemory stops at the block of the process, if it has one.
LEMMA BlockOfHolds ==
  ASSUME NEW blocks \in Seq(Blocks), NEW pid, IsInMemory(blocks, pid)
  PROVE  /\ BlockOf(blocks, pid) \in 1..Len(blocks)
         /\ HoldsProcess(blocks[BlockOf(blocks, pid)], pid)
<1> DEFINE I == {i \in 1..Len(blocks) : HoldsProcess(blocks[i], pid)}
<1>1. Len(blocks) \in Nat
  BY LenProperties
<1>2. I \in SUBSET Nat /\ I # {}
  BY <1>1 DEF IsInMemory
<1>3. BlockOf(blocks, pid) = Min(I)
  BY <1>2 DEF BlockOf, SelectInSeq
<1> HIDE DEF I
<1>4. Min(I) \in I
  BY <1>2, MinIsLeast
<1> QED
  BY <1>3, <1>4 DEF I

\* What the types say of a block.
LEMMA BlockFields ==
  ASSUME NEW blocks \in Seq(Blocks), NEW i \in 1..Len(blocks)
  PROVE  /\ blocks[i] \in Blocks
         /\ blocks[i].start \in Nat
         /\ blocks[i].size \in Nat
         /\ blocks[i].allocated \in BOOLEAN
         /\ blocks[i].processId \in ProcessIds \cup {NoProcess}
<1>1. blocks[i] \in Blocks
  BY ElementOfSeq
<1> QED
  BY <1>1 DEF Blocks

\* The blocks that an operation makes have their type.
LEMMA NewBlocks ==
  ASSUME NEW start \in Nat, NEW size \in Nat
  PROVE  /\ FreeBlock(start, size) \in Blocks
         /\ \A pid \in ProcessIds : UsedBlock(start, size, pid) \in Blocks
BY DEF Blocks, FreeBlock, UsedBlock

-------------------------------------------------------------------------------
\* A block that fits exactly is handed to the process as it is.
LEMMA ReplaceWellFormed ==
  ASSUME NEW blocks, WellFormed(blocks), NEW i \in 1..Len(blocks),
         NEW pid \in ProcessIds, ~IsInMemory(blocks, pid)
  PROVE  WellFormed(ReplaceAt(blocks, i, UsedBlock(blocks[i].start, blocks[i].size, pid)))
<1> DEFINE used == UsedBlock(blocks[i].start, blocks[i].size, pid)
           new == ReplaceAt(blocks, i, used)
<1>1. blocks \in Seq(Blocks) /\ Len(blocks) \in Nat
  BY LenProperties DEF WellFormed
<1>2. used \in Blocks
  BY <1>1, BlockFields, NewBlocks
<1>3. /\ new \in Seq(Blocks)
      /\ Len(new) = Len(blocks)
      /\ \A j \in 1..Len(blocks) : new[j] = IF j = i THEN used ELSE blocks[j]
  BY <1>1, <1>2, ExceptSeq DEF ReplaceAt
<1>4. /\ used.start = blocks[i].start
      /\ used.size = blocks[i].size
      /\ used.allocated = TRUE
      /\ used.processId = pid
  BY DEF UsedBlock
<1> HIDE DEF used, new
<1>5. Tiled(new)
  <2>1. \A j \in 1..Len(blocks) :
          new[j].start = blocks[j].start /\ new[j].size = blocks[j].size
    BY <1>3, <1>4
  <2>2. Tiled(blocks)
    BY DEF WellFormed
  <2> QED  BY <1>1, <1>3, <2>1, <2>2 DEF Tiled
<1>6. Coalesced(new)
  BY <1>1, <1>3, <1>4 DEF WellFormed, Coalesced
<1>7. OneBlockEach(new)
  <2>1. OneBlockEach(blocks)
    BY DEF WellFormed
  <2>2. \A j \in 1..Len(blocks) : ~(blocks[j].allocated /\ blocks[j].processId = pid)
    BY DEF IsInMemory, HoldsProcess
  <2>3. pid # NoProcess
    BY MemoryAssumption
  <2> QED  BY <1>1, <1>3, <1>4, <2>1, <2>2, <2>3 DEF OneBlockEach
<1> QED
  BY <1>3, <1>5, <1>6, <1>7 DEF WellFormed, new, used

\* A larger block is split: the process gets its first part, and the rest is a
\* free block between two allocated ones.
LEMMA InsertWellFormed ==
  ASSUME NEW blocks, WellFormed(blocks), NEW i \in 1..Len(blocks),
         NEW pid \in ProcessIds, ~IsInMemory(blocks, pid),
         NEW need \in Nat, ~blocks[i].allocated, blocks[i].size > need
  PROVE  WellFormed(InsertAt(ReplaceAt(blocks, i, UsedBlock(blocks[i].start, need, pid)), i + 1,
                             FreeBlock(blocks[i].start + need, blocks[i].size - need)))
<1> DEFINE used == UsedBlock(blocks[i].start, need, pid)
           rest == FreeBlock(blocks[i].start + need, blocks[i].size - need)
           taken == ReplaceAt(blocks, i, used)
           new == InsertAt(taken, i + 1, rest)
           n == Len(blocks)
<1>1. blocks \in Seq(Blocks) /\ n \in Nat
  BY LenProperties DEF WellFormed
<1>2. used \in Blocks /\ rest \in Blocks
  <2>1. /\ blocks[i].start \in Nat /\ blocks[i].size \in Nat
        /\ blocks[i].start + need \in Nat /\ blocks[i].size - need \in Nat
    BY <1>1, BlockFields
  <2> QED  BY <2>1, NewBlocks
<1>3. /\ taken \in Seq(Blocks)
      /\ Len(taken) = n
      /\ \A j \in 1..n : taken[j] = IF j = i THEN used ELSE blocks[j]
  BY <1>1, <1>2, ExceptSeq DEF ReplaceAt
<1>4. /\ used.start = blocks[i].start /\ used.size = need
      /\ used.allocated = TRUE /\ used.processId = pid
      /\ rest.start = blocks[i].start + need /\ rest.size = blocks[i].size - need
      /\ rest.allocated = FALSE /\ rest.processId = NoProcess
  BY DEF UsedBlock, FreeBlock
<1> HIDE DEF used, rest, taken, new, n
<1>5. /\ new \in Seq(Blocks)
      /\ Len(new) = n + 1
      /\ \A j \in 1..(n + 1) :
           new[j] = IF j < i + 1 THEN taken[j] ELSE IF j = i + 1 THEN rest ELSE taken[j - 1]
  <2>1. i + 1 \in 1..(Len(taken) + 1)
    BY <1>1, <1>3 DEF n
  <2>2. /\ InsertAt(taken, i + 1, rest) \in Seq(Blocks)
        /\ Len(InsertAt(taken, i + 1, rest)) = Len(taken) + 1
        /\ \A j \in 1..(Len(taken) + 1) : InsertAt(taken, i + 1, rest)[j] =
             IF j < i + 1 THEN taken[j] ELSE IF j = i + 1 THEN rest ELSE taken[j - 1]
    <3> HIDE <1>3
    <3>1. taken \in Seq(Blocks)
      BY <1>3
    <3>2. rest \in Blocks
      BY <1>2
    <3> QED  BY <2>1, <3>1, <3>2, InsertAtProperties, SMTT(30)
  <2> QED  BY <1>3, <2>2 DEF new
<1>6. i \in 1..n
  BY DEF n
<1>7. \A j \in 1..(n + 1) :
        /\ j < i => new[j] = blocks[j]
        /\ j = i => new[j] = used
        /\ j = i + 1 => new[j] = rest
        /\ j > i + 1 => new[j] = blocks[j - 1]
  <2> TAKE j \in 1..(n + 1)
  <2>1. new[j] = IF j < i + 1 THEN taken[j] ELSE IF j = i + 1 THEN rest ELSE taken[j - 1]
    BY <1>5
  <2>2. j < i + 1 => j \in 1..n /\ taken[j] = IF j = i THEN used ELSE blocks[j]
    BY <1>1, <1>3, <1>6
  <2>3. j > i + 1 => j - 1 \in 1..n /\ taken[j - 1] = blocks[j - 1]
    BY <1>1, <1>3, <1>6
  <2> QED  BY <1>6, <2>1, <2>2, <2>3
<1>8. \A j \in 1..n : blocks[j].start \in Nat /\ blocks[j].size \in Nat
  BY <1>1, BlockFields DEF n
<1>9. Tiled(new)
  <2>1. Tiled(blocks)
    BY DEF WellFormed
  <2>2. new[1].start = 0
    BY <1>1, <1>4, <1>6, <1>7, <2>1 DEF Tiled
  <2>3. new[n + 1].start + new[n + 1].size = MaxMemory
    <3>1. blocks[n].start + blocks[n].size = MaxMemory
      BY <2>1 DEF Tiled, n
    <3>2. CASE i = n
      <4>1. new[n + 1] = rest
        BY <1>1, <1>7, <3>2
      <4> QED  BY <1>4, <1>6, <1>8, <3>1, <3>2, <4>1, SMTT(30)
    <3>3. CASE i < n
      <4>1. new[n + 1] = blocks[n]
        BY <1>1, <1>6, <1>7, <3>3
      <4> QED  BY <3>1, <4>1
    <3> QED  BY <1>1, <1>6, <3>2, <3>3
  <2>4. ASSUME NEW j \in 1..n PROVE new[j + 1].start = new[j].start + new[j].size
    <3>1. CASE j < i - 1
      <4>1. new[j] = blocks[j] /\ new[j + 1] = blocks[j + 1] /\ j \in 1..(n - 1)
        BY <1>1, <1>6, <1>7, <3>1
      <4> QED  BY <2>1, <4>1 DEF Tiled, n
    <3>2. CASE j = i - 1
      <4>1. new[j] = blocks[j] /\ new[j + 1] = used /\ j \in 1..(n - 1) /\ i = j + 1
        BY <1>1, <1>6, <1>7, <3>2
      <4> QED  BY <1>4, <2>1, <4>1 DEF Tiled, n
    <3>3. CASE j = i
      BY <1>1, <1>4, <1>6, <1>7, <1>8, <3>3
    <3>4. CASE j = i + 1
      <4>1. new[j] = rest /\ new[j + 1] = blocks[i + 1] /\ i \in 1..(n - 1)
        BY <1>1, <1>6, <1>7, <3>4
      <4>2. blocks[i + 1].start = blocks[i].start + blocks[i].size
        BY <2>1, <4>1 DEF Tiled, n
      <4>3. blocks[i].start \in Nat /\ blocks[i].size \in Nat
        BY <1>6, <1>8
      <4> QED  BY <1>4, <4>1, <4>2, <4>3, SMTT(30)
    <3>5. CASE j > i + 1
      <4>1. new[j] = blocks[j - 1] /\ new[j + 1] = blocks[j] /\ j - 1 \in 1..(n - 1)
        BY <1>1, <1>6, <1>7, <3>5
      <4>2. blocks[(j - 1) + 1].start = blocks[j - 1].start + blocks[j - 1].size
        BY <2>1, <4>1 DEF Tiled, n
      <4> QED  BY <4>1, <4>2
    <3> QED  BY <1>6, <3>1, <3>2, <3>3, <3>4, <3>5
  <2> QED  BY <1>1, <1>5, <2>2, <2>3, <2>4 DEF Tiled
<1>10. Coalesced(new)
  <2>1. Coalesced(blocks)
    BY DEF WellFormed
  <2>2. ASSUME NEW j \in 1..n PROVE new[j].allocated \/ new[j + 1].allocated
    <3>1. CASE j < i - 1
      <4>1. new[j] = blocks[j] /\ new[j + 1] = blocks[j + 1] /\ j \in 1..(n - 1)
        BY <1>1, <1>6, <1>7, <3>1
      <4> QED  BY <2>1, <4>1 DEF Coalesced, n
    <3>2. CASE j = i - 1 \/ j = i
      BY <1>1, <1>4, <1>6, <1>7, <3>2
    <3>3. CASE j = i + 1
      <4>1. new[j + 1] = blocks[i + 1] /\ i \in 1..(n - 1)
        BY <1>1, <1>6, <1>7, <3>3
      <4> QED  BY <2>1, <4>1 DEF Coalesced, n
    <3>4. CASE j > i + 1
      <4>1. new[j] = blocks[j - 1] /\ new[j + 1] = blocks[j] /\ j - 1 \in 1..(n - 1)
        BY <1>1, <1>6, <1>7, <3>4
      <4>2. blocks[j - 1].allocated \/ blocks[(j - 1) + 1].allocated
        BY <2>1, <4>1 DEF Coalesced, n
      <4> QED  BY <4>1, <4>2
    <3> QED  BY <1>6, <3>1, <3>2, <3>3, <3>4
  <2> QED  BY <1>1, <1>5, <2>2 DEF Coalesced
<1>11. OneBlockEach(new)
  <2>1. OneBlockEach(blocks)
    BY DEF WellFormed
  <2>2. \A j \in 1..n : ~(blocks[j].allocated /\ blocks[j].processId = pid)
    BY DEF IsInMemory, HoldsProcess, n
  <2>3. pid # NoProcess
    BY MemoryAssumption
  <2>4. \A j \in 1..(n + 1) : new[j].allocated <=> new[j].processId # NoProcess
    BY <1>1, <1>4, <1>6, <1>7, <2>1, <2>3, SMTT(30) DEF OneBlockEach, n
  <2> DEFINE Old(j) == IF j < i THEN j ELSE j - 1
  <2>5. \A j \in 1..(n + 1) : new[j].allocated =>
          \/ j = i
          \/ j # i /\ j # i + 1 /\ Old(j) \in 1..n /\ new[j] = blocks[Old(j)]
    BY <1>1, <1>4, <1>6, <1>7
  <2>6. ASSUME NEW j \in 1..(n + 1), NEW k \in 1..(n + 1),
               new[j].allocated, new[k].allocated, new[j].processId = new[k].processId
        PROVE  j = k
    <3>1. CASE j = i /\ k = i
      BY <3>1
    <3>2. CASE j = i /\ k # i
      BY <1>4, <1>7, <2>2, <2>5, <2>6, <3>2
    <3>3. CASE j # i /\ k = i
      BY <1>4, <1>7, <2>2, <2>5, <2>6, <3>3
    <3>4. CASE j # i /\ k # i
      <4>1. Old(j) = Old(k)
        BY <2>1, <2>5, <2>6, <3>4, ZenonT(30) DEF OneBlockEach, n
      <4> QED  BY <1>1, <1>6, <2>5, <2>6, <3>4, <4>1
    <3> QED  BY <3>1, <3>2, <3>3, <3>4
  <2> QED  BY <1>5, <2>4, <2>6 DEF OneBlockEach
<1> QED
  BY <1>5, <1>9, <1>10, <1>11 DEF WellFormed, new, taken, used, rest

\* allocateMemory, granted or refused, keeps the list well-formed.
THEOREM AllocateWellFormed ==
  ASSUME NEW blocks, WellFormed(blocks), NEW pid \in ProcessIds, NEW need \in Nat
  PROVE  WellFormed(AfterAllocate(blocks, pid, need))
<1> DEFINE i == FirstFit(blocks, need)
<1>1. blocks \in Seq(Blocks)
  BY DEF WellFormed
<1>2. CASE ~CanAllocate(blocks, pid, need)
  BY <1>2 DEF AfterAllocate
<1>3. CASE CanAllocate(blocks, pid, need)
  <2>1. ~IsInMemory(blocks, pid)
    BY <1>3 DEF CanAllocate
  <2>2. i \in 1..Len(blocks) /\ ~blocks[i].allocated /\ blocks[i].size >= need
    BY <1>1, <1>3, FirstFitFits DEF CanAllocate, Fits
  <2>3. AfterAllocate(blocks, pid, need) = Split(blocks, i, pid, need)
    BY <1>3 DEF AfterAllocate
  <2>4. blocks[i].size \in Nat
    BY <1>1, <2>2, BlockFields
  <2> HIDE DEF i
  <2>5. CASE blocks[i].size > need
    <3>1. WellFormed(InsertAt(ReplaceAt(blocks, i, UsedBlock(blocks[i].start, need, pid)),
                              i + 1,
                              FreeBlock(blocks[i].start + need, blocks[i].size - need)))
      BY <2>1, <2>2, <2>5, InsertWellFormed
    <3> QED  BY <2>3, <2>5, <3>1 DEF Split
  <2>6. CASE blocks[i].size = need
    <3>1. WellFormed(ReplaceAt(blocks, i, UsedBlock(blocks[i].start, need, pid)))
      BY <2>1, <2>2, <2>6, ReplaceWellFormed
    <3> QED  BY <2>3, <2>4, <2>6, <3>1 DEF Split
  <2> QED  BY <2>2, <2>4, <2>5, <2>6
<1> QED
  BY <1>2, <1>3

-------------------------------------------------------------------------------
(* deallocateMemory: between its steps two free blocks may be adjacent. *)

\* A well-formed list but for coalescing, which may fail between the blocks k
\* and k + 1 of a position k in S.
CoalescedBut(blocks, S) ==
  \A k \in 1..(Len(blocks) - 1) \ S : blocks[k].allocated \/ blocks[k + 1].allocated

Unmerged(blocks, S) ==
  /\ blocks \in Seq(Blocks)
  /\ Tiled(blocks)
  /\ OneBlockEach(blocks)
  /\ CoalescedBut(blocks, S)

\* Freeing a block leaves at most the two pairs it belongs to to be merged.
LEMMA FreedUnmerged ==
  ASSUME NEW blocks, WellFormed(blocks), NEW i \in 1..Len(blocks)
  PROVE  LET freed == [blocks EXCEPT ![i].allocated = FALSE, ![i].processId = NoProcess]
         IN  /\ Unmerged(freed, {i - 1, i})
             /\ Len(freed) = Len(blocks)
             /\ ~freed[i].allocated
<1> DEFINE free == [blocks[i] EXCEPT !.allocated = FALSE, !.processId = NoProcess]
           freed == [blocks EXCEPT ![i].allocated = FALSE, ![i].processId = NoProcess]
           n == Len(blocks)
<1>1. blocks \in Seq(Blocks) /\ n \in Nat /\ DOMAIN blocks = 1..n
  BY LenProperties DEF WellFormed
<1>2. /\ free \in Blocks
      /\ free.start = blocks[i].start /\ free.size = blocks[i].size
      /\ free.allocated = FALSE /\ free.processId = NoProcess
  <2>1. blocks[i] \in Blocks
    BY <1>1, BlockFields
  <2> QED  BY <2>1 DEF Blocks
<1>3. freed = [blocks EXCEPT ![i] = free]
  BY <1>1
<1> HIDE DEF free, freed
<1>4. /\ freed \in Seq(Blocks)
      /\ Len(freed) = n
      /\ \A j \in 1..n : freed[j] = IF j = i THEN free ELSE blocks[j]
  BY <1>1, <1>2, <1>3, ExceptSeq
<1>5. Tiled(freed)
  <2>1. \A j \in 1..n : freed[j].start = blocks[j].start /\ freed[j].size = blocks[j].size
    BY <1>2, <1>4
  <2> QED  BY <1>1, <1>4, <2>1 DEF WellFormed, Tiled
<1>6. OneBlockEach(freed)
  BY <1>1, <1>2, <1>4 DEF WellFormed, OneBlockEach
<1>7. CoalescedBut(freed, {i - 1, i})
  <2>1. Coalesced(blocks)
    BY DEF WellFormed
  <2>2. ASSUME NEW k \in 1..(n - 1), k # i - 1, k # i
        PROVE  freed[k].allocated \/ freed[k + 1].allocated
    <3>1. freed[k] = blocks[k] /\ freed[k + 1] = blocks[k + 1]
      BY <1>1, <1>4, <2>2
    <3> QED  BY <2>1, <3>1 DEF Coalesced
  <2> QED  BY <1>4, <2>2 DEF CoalescedBut
<1>8. Unmerged(freed, {i - 1, i}) /\ Len(freed) = n /\ ~freed[i].allocated
  BY <1>2, <1>4, <1>5, <1>6, <1>7 DEF Unmerged
<1> QED
  BY <1>8 DEF freed, n

\* Where pairs in S are after the blocks i and i + 1 of n have become one.
PairsLeft(n, i, S) ==
  {k \in 1..n : (k < i /\ k \in S) \/ (k >= i /\ k + 1 \in S)}

\* Merging the blocks i and i + 1 keeps the tiling, and what is left to merge is
\* what was left above them or at their outer borders.
LEMMA AbsorbUnmerged ==
  ASSUME NEW blocks, NEW i \in 1..(Len(blocks) - 1), NEW S, Unmerged(blocks, S),
         ~blocks[i].allocated, ~blocks[i + 1].allocated
  PROVE  LET merged == Absorb(blocks, i)
         IN  /\ Unmerged(merged, PairsLeft(Len(blocks), i, S))
             /\ Len(merged) = Len(blocks) - 1
             /\ ~merged[i].allocated
<1> DEFINE grown == [blocks[i] EXCEPT !.size = @ + blocks[i + 1].size]
           wide == [blocks EXCEPT ![i].size = @ + blocks[i + 1].size]
           merged == RemoveAt(wide, i + 1)
           n == Len(blocks)
           R == PairsLeft(n, i, S)
<1>1. blocks \in Seq(Blocks) /\ n \in Nat /\ DOMAIN blocks = 1..n
  BY LenProperties DEF Unmerged
<1>2. i \in 1..(n - 1) /\ i \in 1..n /\ i + 1 \in 1..n
  BY <1>1
<1>3. \A j \in 1..n : blocks[j] \in Blocks /\ blocks[j].start \in Nat /\ blocks[j].size \in Nat
  BY <1>1, BlockFields
<1>4. /\ grown \in Blocks
      /\ grown.start = blocks[i].start
      /\ grown.size = blocks[i].size + blocks[i + 1].size
      /\ grown.allocated = blocks[i].allocated
      /\ grown.processId = blocks[i].processId
  <2>1. /\ blocks[i] \in Blocks
        /\ blocks[i].size + blocks[i + 1].size \in Nat
    BY <1>2, <1>3
  <2> QED  BY <2>1 DEF Blocks
<1>5. wide = [blocks EXCEPT ![i] = grown]
  BY <1>1
<1> HIDE DEF grown, wide, merged, n, R
<1>6. /\ wide \in Seq(Blocks)
      /\ Len(wide) = n
      /\ \A j \in 1..n : wide[j] = IF j = i THEN grown ELSE blocks[j]
  BY <1>1, <1>4, <1>5, ExceptSeq DEF n
<1>7. /\ merged \in Seq(Blocks)
      /\ Len(merged) = n - 1
      /\ \A j \in 1..(n - 1) :
           merged[j] = IF j < i + 1 THEN wide[j] ELSE wide[j + 1]
  <2>1. wide \in Seq(Blocks) /\ i + 1 \in 1..Len(wide)
    BY <1>2, <1>6
  <2>2. /\ RemoveAt(wide, i + 1) \in Seq(Blocks)
        /\ Len(RemoveAt(wide, i + 1)) = Len(wide) - 1
        /\ \A j \in 1..(Len(wide) - 1) : RemoveAt(wide, i + 1)[j] =
             IF j < i + 1 THEN wide[j] ELSE wide[j + 1]
    BY <2>1, RemoveAtProperties
  <2> QED  BY <1>6, <2>2 DEF merged
<1>8. \A j \in 1..(n - 1) :
        /\ j < i => merged[j] = blocks[j]
        /\ j = i => merged[j] = grown
        /\ j > i => merged[j] = blocks[j + 1]
  <2> TAKE j \in 1..(n - 1)
  <2>1. merged[j] = IF j < i + 1 THEN wide[j] ELSE wide[j + 1]
    BY <1>7
  <2>2. j \in 1..n /\ j + 1 \in 1..n
    BY <1>1
  <2> QED  BY <1>2, <1>6, <2>1, <2>2
<1>9. Tiled(merged)
  <2>1. Tiled(blocks)
    BY DEF Unmerged
  <2>2. \A j \in 1..(n - 1) : blocks[j + 1].start = blocks[j].start + blocks[j].size
    BY <2>1 DEF Tiled, n
  <2>3. Len(merged) > 0
    BY <1>1, <1>2, <1>7
  <2>4. merged[1].start = 0
    BY <1>1, <1>2, <1>4, <1>8, <2>1 DEF Tiled
  <2>5. merged[n - 1].start + merged[n - 1].size = MaxMemory
    <3>1. blocks[n].start + blocks[n].size = MaxMemory
      BY <2>1 DEF Tiled, n
    <3>2. CASE i = n - 1
      <4>1. merged[n - 1] = grown /\ i + 1 = n
        BY <1>1, <1>2, <1>8, <3>2
      <4>2. blocks[i + 1].start = blocks[i].start + blocks[i].size
        BY <1>2, <2>2
      <4>3. /\ blocks[i].start \in Nat /\ blocks[i].size \in Nat
            /\ blocks[i + 1].size \in Nat
        BY <1>2, <1>3
      <4> QED  BY <1>4, <3>1, <4>1, <4>2, <4>3
    <3>3. CASE i < n - 1
      <4>1. merged[n - 1] = blocks[(n - 1) + 1]
        BY <1>1, <1>2, <1>8, <3>3
      <4> QED  BY <1>1, <3>1, <4>1
    <3> QED  BY <1>1, <1>2, <3>2, <3>3
  <2>6. ASSUME NEW j \in 1..(n - 2)
        PROVE  merged[j + 1].start = merged[j].start + merged[j].size
    <3>0. j \in 1..(n - 1) /\ j + 1 \in 1..(n - 1)
      BY <1>1
    <3>1. CASE j + 1 < i
      <4>1. merged[j] = blocks[j] /\ merged[j + 1] = blocks[j + 1]
        BY <1>2, <1>8, <3>0, <3>1
      <4> QED  BY <2>2, <3>0, <4>1
    <3>2. CASE j + 1 = i
      <4>1. merged[j] = blocks[j] /\ merged[j + 1] = grown
        BY <1>2, <1>8, <3>0, <3>2
      <4> QED  BY <1>4, <2>2, <3>0, <3>2, <4>1
    <3>3. CASE j = i
      <4>1. merged[j] = grown /\ merged[j + 1] = blocks[(i + 1) + 1]
        BY <1>2, <1>8, <3>0, <3>3
      <4>2. /\ blocks[(i + 1) + 1].start = blocks[i + 1].start + blocks[i + 1].size
            /\ blocks[i + 1].start = blocks[i].start + blocks[i].size
        BY <1>2, <2>2, <3>0, <3>3
      <4>3. /\ blocks[i].start \in Nat /\ blocks[i].size \in Nat
            /\ blocks[i + 1].size \in Nat
        BY <1>2, <1>3
      <4> QED  BY <1>4, <4>1, <4>2, <4>3
    <3>4. CASE j > i
      <4>1. merged[j] = blocks[j + 1] /\ merged[j + 1] = blocks[(j + 1) + 1]
        BY <1>2, <1>8, <3>0, <3>4
      <4> QED  BY <2>2, <3>0, <4>1
    <3> QED  BY <1>2, <3>0, <3>1, <3>2, <3>3, <3>4
  <2> QED
    <3>1. \A j \in 1..(Len(merged) - 1) :
            merged[j + 1].start = merged[j].start + merged[j].size
      BY <1>1, <1>7, <2>6
    <3> QED  BY <1>7, <2>3, <2>4, <2>5, <3>1 DEF Tiled
<1>10. OneBlockEach(merged)
  <2> DEFINE Old(j) == IF j < i THEN j ELSE j + 1
  <2>1. OneBlockEach(blocks)
    BY DEF Unmerged
  <2>2. \A j \in 1..(n - 1) :
          /\ j # i => Old(j) \in 1..n /\ merged[j] = blocks[Old(j)]
          /\ j = i => ~merged[j].allocated /\ merged[j].processId = NoProcess
    BY <1>1, <1>2, <1>4, <1>8, <2>1 DEF OneBlockEach, n
  <2>3. \A j \in 1..(n - 1) : merged[j].allocated <=> merged[j].processId # NoProcess
    <3> TAKE j \in 1..(n - 1)
    <3>1. CASE j = i
      BY <2>2, <3>1
    <3>2. CASE j # i
      BY <2>1, <2>2, <3>2 DEF OneBlockEach, n
    <3> QED  BY <3>1, <3>2
  <2>4. ASSUME NEW j \in 1..(n - 1), NEW k \in 1..(n - 1),
               merged[j].allocated, merged[k].allocated,
               merged[j].processId = merged[k].processId
        PROVE  j = k
    <3>1. Old(j) \in 1..n /\ merged[j] = blocks[Old(j)] /\ j # i
      BY <2>2, <2>4
    <3>2. Old(k) \in 1..n /\ merged[k] = blocks[Old(k)] /\ k # i
      BY <2>2, <2>4
    <3> HIDE DEF Old
    <3>3. Old(j) = Old(k)
      BY <2>1, <2>4, <3>1, <3>2 DEF OneBlockEach, n
    <3> QED  BY <1>1, <1>2, <3>1, <3>2, <3>3 DEF Old
  <2> QED  BY <1>7, <2>3, <2>4 DEF OneBlockEach
<1>11. CoalescedBut(merged, R)
  <2>1. \A k \in 1..(n - 1) \ S : blocks[k].allocated \/ blocks[k + 1].allocated
    BY DEF Unmerged, CoalescedBut, n
  <2>2. ASSUME NEW k \in 1..(n - 2), k \notin R
        PROVE  merged[k].allocated \/ merged[k + 1].allocated
    <3>0. k \in 1..(n - 1) /\ k + 1 \in 1..(n - 1) /\ k \in 1..n
      BY <1>1
    <3>1. CASE k < i
      <4>1. k \notin S
        BY <2>2, <3>0, <3>1 DEF R, PairsLeft
      <4>2. merged[k] = blocks[k] /\ (k + 1 < i => merged[k + 1] = blocks[k + 1])
                                  /\ (k + 1 = i => merged[k + 1] = grown)
        BY <1>2, <1>8, <3>0, <3>1
      <4>3. blocks[k].allocated \/ blocks[k + 1].allocated
        BY <2>1, <3>0, <4>1
      <4> QED  BY <1>2, <1>4, <3>0, <3>1, <4>2, <4>3
    <3>2. CASE k >= i
      <4>1. k + 1 \notin S
        BY <2>2, <3>0, <3>2 DEF R, PairsLeft
      <4>2. merged[k + 1] = blocks[(k + 1) + 1] /\ (k > i => merged[k] = blocks[k + 1])
        BY <1>2, <1>8, <3>0, <3>2
      <4>3. blocks[k + 1].allocated \/ blocks[(k + 1) + 1].allocated
        BY <2>1, <3>0, <4>1
      <4>4. k = i => ~blocks[k + 1].allocated
        OBVIOUS
      <4> QED  BY <1>2, <3>0, <3>2, <4>2, <4>3, <4>4
    <3> QED  BY <1>2, <3>0, <3>1, <3>2
  <2> QED  BY <1>1, <1>7, <2>2 DEF CoalescedBut
<1>12. ~merged[i].allocated
  BY <1>2, <1>4, <1>8
<1>13. Unmerged(merged, R) /\ Len(merged) = n - 1 /\ ~merged[i].allocated
  BY <1>7, <1>9, <1>10, <1>11, <1>12 DEF Unmerged
<1>14. merged = Absorb(blocks, i)
  BY DEF Absorb, merged, wide
<1> QED
  BY <1>13, <1>14 DEF n, R

\* The last merge, with the block after a free block, makes a list well-formed
\* when only that pair is left.
LEMMA MergeNextWellFormed ==
  ASSUME NEW blocks, NEW i \in 1..Len(blocks), NEW S, Unmerged(blocks, S),
         ~blocks[i].allocated, \A k \in S : k \in 1..(Len(blocks) - 1) => k = i
  PROVE  WellFormed(MergeNext(blocks, i))
<1>1. blocks \in Seq(Blocks) /\ Len(blocks) \in Nat
  BY LenProperties DEF Unmerged
<1>2. CASE i + 1 <= Len(blocks) /\ ~blocks[i + 1].allocated
  <2>1. i \in 1..(Len(blocks) - 1)
    BY <1>1, <1>2
  <2> DEFINE merged == Absorb(blocks, i)
             R == PairsLeft(Len(blocks), i, S)
  <2>2. Unmerged(merged, R) /\ Len(merged) = Len(blocks) - 1
    BY <1>2, <2>1, AbsorbUnmerged
  <2>3. \A k \in 1..(Len(merged) - 1) : k \notin R
    BY <1>1, <2>1, <2>2 DEF PairsLeft
  <2> HIDE DEF merged, R
  <2>4. Coalesced(merged)
    BY <2>2, <2>3 DEF Unmerged, CoalescedBut, Coalesced
  <2>5. WellFormed(merged)
    BY <2>2, <2>4 DEF Unmerged, WellFormed
  <2> QED  BY <1>2, <2>5 DEF MergeNext, merged
<1>3. CASE ~(i + 1 <= Len(blocks) /\ ~blocks[i + 1].allocated)
  <2>1. MergeNext(blocks, i) = blocks
    BY <1>3 DEF MergeNext
  <2>2. i \in 1..(Len(blocks) - 1) => blocks[i + 1].allocated
    BY <1>1, <1>3
  <2>3. Coalesced(blocks)
    BY <1>1, <2>2 DEF Unmerged, CoalescedBut, Coalesced
  <2> QED  BY <2>1, <2>3 DEF Unmerged, WellFormed
<1> QED
  BY <1>2, <1>3

\* deallocateMemory, of a process with or without memory, keeps the list
\* well-formed: its two merges are enough.
THEOREM DeallocateWellFormed ==
  ASSUME NEW blocks, WellFormed(blocks), NEW pid \in ProcessIds
  PROVE  WellFormed(AfterDeallocate(blocks, pid))
<1>1. CASE ~IsInMemory(blocks, pid)
  BY <1>1 DEF AfterDeallocate
<1>2. CASE IsInMemory(blocks, pid)
  <2> DEFINE i == BlockOf(blocks, pid)
             freed == [blocks EXCEPT ![i].allocated = FALSE, ![i].processId = NoProcess]
             n == Len(blocks)
  <2>1. blocks \in Seq(Blocks) /\ n \in Nat
    BY LenProperties DEF WellFormed
  <2>2. i \in 1..n
    BY <1>2, <2>1, BlockOfHolds
  <2>3. Unmerged(freed, {i - 1, i}) /\ Len(freed) = n /\ ~freed[i].allocated
    <3> HIDE DEF i
    <3> QED  BY <2>2, FreedUnmerged
  <2>4. AfterDeallocate(blocks, pid) =
          IF i > 1 /\ ~freed[i-1].allocated
          THEN MergeNext(Absorb(freed, i - 1), i - 1)
          ELSE MergeNext(freed, i)
    BY <1>2 DEF AfterDeallocate, Release
  <2> HIDE DEF i, freed
  <2>5. CASE i > 1 /\ ~freed[i - 1].allocated
    <3> DEFINE merged == Absorb(freed, i - 1)
               R == PairsLeft(Len(freed), i - 1, {i - 1, i})
    <3>1. i - 1 \in 1..(Len(freed) - 1) /\ (i - 1) + 1 = i
      BY <2>1, <2>2, <2>3, <2>5
    <3>2. Unmerged(merged, R) /\ Len(merged) = n - 1 /\ ~merged[i - 1].allocated
      BY <2>3, <2>5, <3>1, AbsorbUnmerged
    <3>3. \A k \in R : k \in 1..(Len(merged) - 1) => k = i - 1
      BY <2>1, <2>2, <2>3, <3>1, <3>2 DEF PairsLeft
    <3>4. i - 1 \in 1..Len(merged)
      BY <2>1, <2>2, <2>3, <3>1, <3>2
    <3> HIDE DEF merged, R
    <3>5. WellFormed(MergeNext(merged, i - 1))
      BY <3>2, <3>3, <3>4, MergeNextWellFormed
    <3> QED  BY <2>4, <2>5, <3>5 DEF merged
  <2>6. CASE ~(i > 1 /\ ~freed[i - 1].allocated)
    <3> DEFINE R == {i}
    <3>1. i \in 1..Len(freed)
      BY <2>2, <2>3
    <3>2. \A k \in 1..(Len(freed) - 1) : k = i - 1 => freed[k].allocated
      BY <2>1, <2>2, <2>3, <2>6
    <3>3. CoalescedBut(freed, R)
      BY <2>3, <3>2 DEF Unmerged, CoalescedBut
    <3>4. Unmerged(freed, R)
      BY <2>3, <3>3 DEF Unmerged
    <3>5. WellFormed(MergeNext(freed, i))
      BY <2>3, <3>1, <3>4, MergeNextWellFormed
    <3> QED  BY <2>4, <2>6, <3>5
  <2> QED  BY <2>5, <2>6
<1> QED
  BY <1>1, <1>2

\* The constructor's list is well-formed.
LEMMA InitialWellFormed == WellFormed(InitialBlocks)
<1> DEFINE b == FreeBlock(0, MaxMemory)
<1>1. /\ b \in Blocks /\ b.start = 0 /\ b.size = MaxMemory
      /\ b.allocated = FALSE /\ b.processId = NoProcess
  BY MemoryAssumption DEF Blocks, FreeBlock
<1> HIDE DEF b
<1>2. /\ <<b>> \in Seq(Blocks) /\ Len(<<b>>) = 1 /\ <<b>>[1] = b
  BY <1>1
<1>3. Tiled(<<b>>)
  BY <1>1, <1>2, MemoryAssumption DEF Tiled
<1>4. Coalesced(<<b>>) /\ OneBlockEach(<<b>>)
  BY <1>1, <1>2 DEF Coalesced, OneBlockEach
<1> QED
  BY <1>2, <1>3, <1>4 DEF InitialBlocks, WellFormed, b

-------------------------------------------------------------------------------
(* What a call does to the blocks in use *)

UsedBlocks(blocks) ==
  {blocks[i] : i \in {k \in 1..Len(blocks) : blocks[k].allocated}}

\* A used block is an allocated one at some index.
LEMMA UsedBlocksMembers ==
  ASSUME NEW blocks, NEW b
  PROVE  b \in UsedBlocks(blocks)
           <=> \E i \in 1..Len(blocks) : blocks[i] = b /\ blocks[i].allocated
BY DEF UsedBlocks

\* isInMemory asks whether some used block is that of the process.
LEMMA InMemoryByBlock ==
  ASSUME NEW blocks, NEW pid
  PROVE  IsInMemory(blocks, pid) <=> \E b \in UsedBlocks(blocks) : b.processId = pid
BY DEF IsInMemory, HoldsProcess, UsedBlocks

\* allocateMemory adds a block of the size asked for and leaves all others alone.
LEMMA SplitAddsBlock ==
  ASSUME NEW blocks \in Seq(Blocks), NEW i \in 1..Len(blocks),
         NEW pid \in ProcessIds, NEW need \in Nat,
         ~blocks[i].allocated, blocks[i].size >= need
  PROVE  \E b : /\ b.allocated /\ b.processId = pid
                /\ b.start = blocks[i].start /\ b.size = need
                /\ UsedBlocks(Split(blocks, i, pid, need)) = UsedBlocks(blocks) \cup {b}
<1> DEFINE used == UsedBlock(blocks[i].start, need, pid)
           rest == FreeBlock(blocks[i].start + need, blocks[i].size - need)
           taken == ReplaceAt(blocks, i, used)
           n == Len(blocks)
<1>1. n \in Nat
  BY LenProperties
<1>2. i \in 1..n
  OBVIOUS
<1>3. Split(blocks, i, pid, need) =
        IF blocks[i].size > need THEN InsertAt(taken, i + 1, rest) ELSE taken
  BY DEF Split
<1>4. blocks[i].start \in Nat /\ blocks[i].size \in Nat
  BY <1>2, BlockFields
<1>5. /\ used \in Blocks /\ used.allocated /\ used.processId = pid
      /\ used.start = blocks[i].start /\ used.size = need
  BY <1>4, NewBlocks DEF UsedBlock
<1>6. ~rest.allocated
  BY DEF FreeBlock
<1>7. blocks[i].size > need => rest \in Blocks
  BY <1>4, NewBlocks
<1> HIDE DEF used, rest
<1>8. /\ taken \in Seq(Blocks)
      /\ Len(taken) = n
      /\ \A j \in 1..n : taken[j] = IF j = i THEN used ELSE blocks[j]
  BY <1>2, <1>5, ExceptSeq DEF ReplaceAt
<1> HIDE DEF taken
<1>9. UsedBlocks(taken) = UsedBlocks(blocks) \cup {used}
  <2> SUFFICES ASSUME NEW b
               PROVE  b \in UsedBlocks(taken) <=> b \in UsedBlocks(blocks) \/ b = used
    OBVIOUS
  <2> QED  BY <1>2, <1>5, <1>8, UsedBlocksMembers
<1>10. CASE blocks[i].size > need
  <2> DEFINE new == InsertAt(taken, i + 1, rest)
  <2>1. i + 1 \in 1..(Len(taken) + 1) /\ rest \in Blocks
    BY <1>1, <1>2, <1>7, <1>8, <1>10
  <2>2. /\ Len(new) = n + 1
        /\ \A j \in 1..(n + 1) :
             new[j] = IF j < i + 1 THEN taken[j] ELSE IF j = i + 1 THEN rest ELSE taken[j - 1]
    <3>1. /\ InsertAt(taken, i + 1, rest) \in Seq(Blocks)
          /\ Len(InsertAt(taken, i + 1, rest)) = Len(taken) + 1
          /\ \A j \in 1..(Len(taken) + 1) : InsertAt(taken, i + 1, rest)[j] =
               IF j < i + 1 THEN taken[j] ELSE IF j = i + 1 THEN rest ELSE taken[j - 1]
      <4> HIDE <1>8
      <4>1. taken \in Seq(Blocks)
        BY <1>8
      <4>2. rest \in Blocks
        BY <2>1
      <4>3. i + 1 \in 1..(Len(taken) + 1)
        BY <2>1
      <4> QED  BY <4>1, <4>2, <4>3, InsertAtProperties, SMTT(30)
    <3> QED  BY <1>8, <3>1
  <2> HIDE DEF new
  <2>3. ASSUME NEW b, b \in UsedBlocks(new) PROVE b \in UsedBlocks(taken)
    <3>1. PICK j \in 1..(n + 1) : new[j] = b /\ b.allocated
      BY <2>2, <2>3, UsedBlocksMembers
    <3>2. j # i + 1
      BY <1>6, <2>2, <3>1
    <3>3. CASE j < i + 1
      BY <1>2, <1>8, <2>2, <3>1, <3>3, UsedBlocksMembers
    <3>4. CASE j > i + 1
      <4>1. j - 1 \in 1..n /\ taken[j - 1] = b
        BY <1>1, <1>2, <2>2, <3>1, <3>4
      <4> QED  BY <1>8, <3>1, <4>1, UsedBlocksMembers
    <3> QED  BY <1>1, <1>2, <3>2, <3>3, <3>4
  <2>4. ASSUME NEW b, b \in UsedBlocks(taken) PROVE b \in UsedBlocks(new)
    <3>1. PICK j \in 1..n : taken[j] = b /\ b.allocated
      BY <1>8, <2>4, UsedBlocksMembers
    <3>2. CASE j < i + 1
      <4>1. j \in 1..(n + 1) /\ new[j] = b
        BY <1>1, <2>2, <3>1, <3>2
      <4> QED  BY <2>2, <3>1, <4>1, UsedBlocksMembers
    <3>3. CASE j >= i + 1
      <4>1. j + 1 \in 1..(n + 1) /\ new[j + 1] = b
        BY <1>1, <1>2, <2>2, <3>1, <3>3
      <4> QED  BY <2>2, <3>1, <4>1, UsedBlocksMembers
    <3> QED  BY <1>1, <1>2, <3>2, <3>3
  <2>5. UsedBlocks(new) = UsedBlocks(taken)
    BY <2>3, <2>4
  <2> QED  BY <1>3, <1>5, <1>9, <1>10, <2>5 DEF new
<1>11. CASE ~(blocks[i].size > need)
  BY <1>3, <1>5, <1>9, <1>11
<1> QED
  BY <1>10, <1>11

\* ... at the start of a free block that is large enough.
LEMMA AllocateAddsBlock ==
  ASSUME NEW blocks \in Seq(Blocks), NEW pid \in ProcessIds, NEW need \in Nat,
         CanAllocate(blocks, pid, need)
  PROVE  \E b : /\ b.allocated /\ b.processId = pid /\ b.size = need
                /\ \E i \in 1..Len(blocks) : Fits(blocks[i], need) /\ b.start = blocks[i].start
                /\ UsedBlocks(AfterAllocate(blocks, pid, need)) = UsedBlocks(blocks) \cup {b}
<1>1. PICK i : i = FirstFit(blocks, need)
  OBVIOUS
<1>2. /\ i \in 1..Len(blocks) /\ Fits(blocks[i], need)
      /\ ~blocks[i].allocated /\ blocks[i].size >= need
  BY <1>1, FirstFitFits DEF CanAllocate, Fits
<1>3. AfterAllocate(blocks, pid, need) = Split(blocks, i, pid, need)
  BY <1>1 DEF AfterAllocate
<1>4. PICK b : /\ b.allocated /\ b.processId = pid
               /\ b.start = blocks[i].start /\ b.size = need
               /\ UsedBlocks(Split(blocks, i, pid, need)) = UsedBlocks(blocks) \cup {b}
  BY <1>2, SplitAddsBlock
<1> QED
  BY <1>2, <1>3, <1>4

\* Merging two free blocks concerns no block in use.
LEMMA AbsorbKeepsUsed ==
  ASSUME NEW blocks \in Seq(Blocks), NEW i \in 1..(Len(blocks) - 1),
         ~blocks[i].allocated, ~blocks[i + 1].allocated
  PROVE  /\ UsedBlocks(Absorb(blocks, i)) = UsedBlocks(blocks)
         /\ Absorb(blocks, i) \in Seq(Blocks)
         /\ Len(Absorb(blocks, i)) = Len(blocks) - 1
         /\ ~Absorb(blocks, i)[i].allocated
<1> DEFINE grown == [blocks[i] EXCEPT !.size = @ + blocks[i + 1].size]
           wide == [blocks EXCEPT ![i].size = @ + blocks[i + 1].size]
           merged == RemoveAt(wide, i + 1)
           n == Len(blocks)
<1>1. n \in Nat /\ DOMAIN blocks = 1..n
  BY LenProperties
<1>2. i \in 1..n /\ i + 1 \in 1..n
  BY <1>1
<1>3. grown \in Blocks /\ ~grown.allocated
  <2>1. /\ blocks[i] \in Blocks
        /\ blocks[i].size + blocks[i + 1].size \in Nat
    BY <1>2, BlockFields
  <2> QED  BY <2>1 DEF Blocks
<1>4. wide = [blocks EXCEPT ![i] = grown]
  BY <1>1
<1> HIDE DEF grown, wide, merged
<1>5. /\ wide \in Seq(Blocks)
      /\ Len(wide) = n
      /\ \A j \in 1..n : wide[j] = IF j = i THEN grown ELSE blocks[j]
  BY <1>2, <1>3, <1>4, ExceptSeq
<1>6. /\ merged \in Seq(Blocks)
      /\ Len(merged) = n - 1
      /\ \A j \in 1..(n - 1) : merged[j] = IF j < i + 1 THEN wide[j] ELSE wide[j + 1]
  <2>1. wide \in Seq(Blocks) /\ i + 1 \in 1..Len(wide)
    BY <1>2, <1>5
  <2>2. /\ RemoveAt(wide, i + 1) \in Seq(Blocks)
        /\ Len(RemoveAt(wide, i + 1)) = Len(wide) - 1
        /\ \A j \in 1..(Len(wide) - 1) : RemoveAt(wide, i + 1)[j] =
             IF j < i + 1 THEN wide[j] ELSE wide[j + 1]
    BY <2>1, RemoveAtProperties
  <2> QED  BY <1>5, <2>2 DEF merged
<1>7. ~merged[i].allocated
  BY <1>1, <1>2, <1>3, <1>5, <1>6
<1>8. ASSUME NEW b, b \in UsedBlocks(merged) PROVE b \in UsedBlocks(blocks)
  <2>1. PICK j \in 1..(n - 1) : merged[j] = b /\ b.allocated
    BY <1>6, <1>8, UsedBlocksMembers
  <2>2. j # i
    BY <1>7, <2>1
  <2>3. CASE j < i
    <3>1. merged[j] = wide[j]
      BY <1>2, <1>6, <2>3
    <3>2. j \in 1..n /\ wide[j] = blocks[j]
      BY <1>1, <1>2, <1>5, <2>3
    <3> QED  BY <2>1, <3>1, <3>2, UsedBlocksMembers
  <2>4. CASE j > i
    <3>1. j + 1 \in 1..n /\ blocks[j + 1] = b
      BY <1>1, <1>2, <1>5, <1>6, <2>1, <2>4
    <3> QED  BY <2>1, <3>1, UsedBlocksMembers
  <2> QED  BY <1>2, <2>2, <2>3, <2>4
<1>9. ASSUME NEW b, b \in UsedBlocks(blocks) PROVE b \in UsedBlocks(merged)
  <2>1. PICK j \in 1..n : blocks[j] = b /\ b.allocated
    BY <1>9, UsedBlocksMembers
  <2>2. j # i /\ j # i + 1
    BY <2>1
  <2>3. CASE j < i
    <3>1. j \in 1..(n - 1) /\ merged[j] = b
      BY <1>1, <1>2, <1>5, <1>6, <2>1, <2>3
    <3> QED  BY <1>6, <2>1, <3>1, UsedBlocksMembers
  <2>4. CASE j > i + 1
    <3>1. j - 1 \in 1..(n - 1) /\ merged[j - 1] = wide[j] /\ wide[j] = b
      BY <1>1, <1>2, <1>5, <1>6, <2>1, <2>4
    <3> QED  BY <1>6, <2>1, <3>1, UsedBlocksMembers
  <2> QED  BY <1>2, <2>2, <2>3, <2>4
<1>10. UsedBlocks(merged) = UsedBlocks(blocks)
  BY <1>8, <1>9
<1> QED
  BY <1>6, <1>7, <1>10 DEF Absorb, merged, wide

\* Merging two free blocks drops and adds no used one.
LEMMA MergeNextKeepsUsed ==
  ASSUME NEW blocks \in Seq(Blocks), NEW i \in 1..Len(blocks), ~blocks[i].allocated
  PROVE  UsedBlocks(MergeNext(blocks, i)) = UsedBlocks(blocks)
<1>1. Len(blocks) \in Nat
  BY LenProperties
<1>2. CASE i + 1 <= Len(blocks) /\ ~blocks[i + 1].allocated
  <2>1. i \in 1..(Len(blocks) - 1)
    BY <1>1, <1>2
  <2> QED  BY <1>2, <2>1, AbsorbKeepsUsed DEF MergeNext
<1>3. CASE ~(i + 1 <= Len(blocks) /\ ~blocks[i + 1].allocated)
  BY <1>3 DEF MergeNext
<1> QED
  BY <1>2, <1>3

\* deallocateMemory drops the block of its process and leaves all others alone.
LEMMA DeallocateDropsBlock ==
  ASSUME NEW blocks, WellFormed(blocks), NEW pid \in ProcessIds
  PROVE  UsedBlocks(AfterDeallocate(blocks, pid))
           = {b \in UsedBlocks(blocks) : b.processId # pid}
<1> DEFINE others == {b \in UsedBlocks(blocks) : b.processId # pid}
<1>1. CASE ~IsInMemory(blocks, pid)
  <2>1. UsedBlocks(blocks) = others
    BY <1>1 DEF IsInMemory, HoldsProcess, UsedBlocks
  <2> QED  BY <1>1, <2>1 DEF AfterDeallocate
<1>2. CASE IsInMemory(blocks, pid)
  <2> DEFINE i == BlockOf(blocks, pid)
             freed == [blocks EXCEPT ![i].allocated = FALSE, ![i].processId = NoProcess]
             n == Len(blocks)
  <2>1. blocks \in Seq(Blocks) /\ n \in Nat /\ DOMAIN blocks = 1..n
    BY LenProperties DEF WellFormed
  <2>2. i \in 1..n /\ blocks[i].allocated /\ blocks[i].processId = pid
    BY <1>2, <2>1, BlockOfHolds DEF HoldsProcess
  <2>3. freed \in Seq(Blocks) /\ Len(freed) = n /\ ~freed[i].allocated
    <3> HIDE DEF i
    <3> QED  BY <2>2, FreedUnmerged DEF Unmerged
  <2>4. AfterDeallocate(blocks, pid) =
          IF i > 1 /\ ~freed[i-1].allocated
          THEN MergeNext(Absorb(freed, i - 1), i - 1)
          ELSE MergeNext(freed, i)
    BY <1>2 DEF AfterDeallocate, Release
  <2> HIDE DEF i
  <2>5. \A j \in 1..n : j # i => freed[j] = blocks[j]
    BY <2>1
  <2> HIDE DEF freed
  <2>6. UsedBlocks(freed) = others
    <3>1. ASSUME NEW b, b \in UsedBlocks(freed) PROVE b \in others
      <4>1. PICK j \in 1..n : freed[j] = b /\ b.allocated
        BY <2>3, <3>1, UsedBlocksMembers
      <4>2. j # i
        BY <2>3, <4>1
      <4>3. blocks[j] = b
        BY <2>5, <4>1, <4>2
      <4>4. b.processId # pid
        BY <2>2, <4>1, <4>2, <4>3 DEF WellFormed, OneBlockEach
      <4> QED  BY <4>1, <4>3, <4>4, UsedBlocksMembers
    <3>2. ASSUME NEW b, b \in others PROVE b \in UsedBlocks(freed)
      <4>1. PICK j \in 1..n : blocks[j] = b /\ b.allocated
        BY <3>2, UsedBlocksMembers
      <4>2. j # i
        BY <2>2, <3>2, <4>1
      <4>3. freed[j] = b
        BY <2>5, <4>1, <4>2
      <4> QED  BY <2>3, <4>1, <4>3, UsedBlocksMembers
    <3> QED  BY <3>1, <3>2
  <2> HIDE DEF others
  <2>7. ASSUME i > 1 /\ ~freed[i - 1].allocated
        PROVE  UsedBlocks(AfterDeallocate(blocks, pid)) = UsedBlocks(freed)
    <3> DEFINE h == i - 1
               merged == Absorb(freed, h)
    <3>1. h \in 1..(Len(freed) - 1) /\ ~freed[h].allocated /\ ~freed[h + 1].allocated
      BY <2>1, <2>2, <2>3, <2>7
    <3> HIDE DEF h
    <3>2. /\ UsedBlocks(merged) = UsedBlocks(freed)
          /\ merged \in Seq(Blocks)
          /\ Len(merged) = n - 1
          /\ ~merged[h].allocated
      BY <2>3, <3>1, AbsorbKeepsUsed
    <3>3. h \in 1..Len(merged)
      BY <2>3, <3>1, <3>2
    <3> HIDE DEF merged
    <3>4. UsedBlocks(MergeNext(merged, h)) = UsedBlocks(merged)
      BY <3>2, <3>3, MergeNextKeepsUsed
    <3> QED  BY <2>4, <2>7, <3>2, <3>4 DEF merged, h
  <2>8. ASSUME ~(i > 1 /\ ~freed[i - 1].allocated)
        PROVE  UsedBlocks(AfterDeallocate(blocks, pid)) = UsedBlocks(freed)
    <3>1. UsedBlocks(MergeNext(freed, i)) = UsedBlocks(freed)
      BY <2>2, <2>3, MergeNextKeepsUsed
    <3> QED  BY <2>4, <2>8, <3>1
  <2> QED  BY <2>6, <2>7, <2>8 DEF others
<1> QED
  BY <1>1, <1>2

\* A block list that is well-formed and has no allocated block is one free block,
\* all of memory: no merge was missed, wherever the blocks were freed.
LEMMA NoUsedBlocks ==
  ASSUME NEW blocks, WellFormed(blocks), UsedBlocks(blocks) = {}
  PROVE  blocks = InitialBlocks
<1>1. /\ blocks \in Seq(Blocks) /\ Len(blocks) \in Nat /\ Len(blocks) > 0
      /\ \A i \in 1..Len(blocks) : ~blocks[i].allocated
  BY LenProperties, UsedBlocksMembers DEF WellFormed, Tiled
<1>2. Len(blocks) = 1
  <2>1. SUFFICES ASSUME Len(blocks) # 1 PROVE FALSE
    OBVIOUS
  <2>2. PICK n \in Nat : n = Len(blocks) /\ n > 0 /\ n # 1
    BY <1>1, <2>1
  <2>3. n >= 2
    BY <2>2
  <2>4. 1 \in 1..(n - 1) /\ 1 + 1 = 2 /\ 1 \in 1..n /\ 2 \in 1..n
    BY <2>3
  <2>5. /\ 1 \in 1..(Len(blocks) - 1) /\ 1 + 1 = 2
        /\ 1 \in 1..Len(blocks) /\ 2 \in 1..Len(blocks)
    BY <2>2, <2>4
  <2> QED
    BY <1>1, <2>1, <2>5 DEF WellFormed, Coalesced
<1>3. PICK b \in Blocks : b = blocks[1]
  BY <1>1, <1>2, ElementOfSeq
<1>4. /\ b.start = 0 /\ b.size \in Nat /\ b.start + b.size = MaxMemory
      /\ b.allocated = FALSE /\ b.processId = NoProcess
  <2>1. 1 \in 1..Len(blocks)
    BY <1>2
  <2>2. b.start = 0 /\ b.start + b.size = MaxMemory
    BY <1>2, <1>3 DEF WellFormed, Tiled
  <2>3. b.allocated \in BOOLEAN /\ b.size \in Nat
    BY DEF Blocks
  <2>4. ~b.allocated /\ b.processId = NoProcess
    BY <1>1, <1>3, <2>1 DEF WellFormed, OneBlockEach
  <2> QED
    BY <2>2, <2>3, <2>4
<1>5. b = FreeBlock(0, MaxMemory)
  <2>1. b.size = MaxMemory
    BY <1>4
  <2> QED
    BY <1>4, <2>1 DEF Blocks, FreeBlock
<1>6. <<b>> \in Seq(Blocks) /\ Len(<<b>>) = 1 /\ <<b>>[1] = b
  OBVIOUS
<1>7. blocks = <<b>>
  <2>1. \A i \in 1..1 : blocks[i] = <<b>>[i]
    BY <1>3, <1>6
  <2> QED
    BY <1>1, <1>2, <1>6, <2>1, SeqEqual
<1> QED
  BY <1>5, <1>7 DEF InitialBlocks

-------------------------------------------------------------------------------
(* Whose address it is *)

Covers(b, a) == b.start <= a /\ a < b.start + b.size

\* Every block begins where those before it have ended ...
LEMMA BlocksInOrder ==
  ASSUME NEW blocks, WellFormed(blocks),
         NEW i \in 1..Len(blocks), NEW j \in 1..Len(blocks), i < j
  PROVE  blocks[i].start + blocks[i].size <= blocks[j].start
<1>1. PICK n \in Nat : n = Len(blocks)
  BY LenProperties DEF WellFormed
<1>2. \A k \in 1..n : blocks[k].start \in Nat /\ blocks[k].size \in Nat
  BY <1>1, BlockFields DEF WellFormed
<1>3. \A k \in 1..(n - 1) : blocks[k + 1].start = blocks[k].start + blocks[k].size
  BY <1>1 DEF WellFormed, Tiled
<1>4. i \in 1..n /\ j \in 1..n
  BY <1>1
<1>5. PICK end \in Nat : end = blocks[i].start + blocks[i].size
  BY <1>2, <1>4
<1> DEFINE Early == {k \in 1..n : i < k /\ blocks[k].start < end}
<1> SUFFICES ASSUME Early # {} PROVE FALSE
  BY <1>2, <1>4, <1>5
<1>6. Early \in SUBSET Nat
  BY <1>1
<1> HIDE DEF Early
<1>7. PICK m \in Early : \A k \in Early : m <= k
  BY <1>6, MinIsLeast
<1>8. m \in 1..n /\ i < m /\ blocks[m].start < end
  BY <1>7 DEF Early
<1>9. /\ m - 1 \in 1..(n - 1) /\ m - 1 \in 1..n /\ (m - 1) + 1 = m
      /\ (m - 1 = i \/ i < m - 1) /\ ~(m <= m - 1)
  BY <1>4, <1>8
<1>10. blocks[m].start = blocks[m - 1].start + blocks[m - 1].size
  BY <1>3, <1>9
<1>11. m - 1 # i
  BY <1>5, <1>8, <1>10, <1>2, <1>4
<1>12. ~(blocks[m - 1].start < end)
  BY <1>7, <1>9, <1>11 DEF Early
<1>13. PICK start \in Nat, size \in Nat :
          start = blocks[m - 1].start /\ size = blocks[m - 1].size
  BY <1>2, <1>9
<1>14. blocks[m].start = start + size /\ start + size < end /\ ~(start < end)
  BY <1>8, <1>10, <1>12, <1>13
<1> QED
  BY <1>14

\* ... and ends within memory,
LEMMA BlocksInMemory ==
  ASSUME NEW blocks, WellFormed(blocks), NEW i \in 1..Len(blocks)
  PROVE  /\ blocks[i].start + blocks[i].size <= MaxMemory
         /\ blocks[i].start + blocks[i].size # MaxMemory => i + 1 \in 1..Len(blocks)
<1>1. PICK n \in Nat : n = Len(blocks)
  BY LenProperties DEF WellFormed
<1>2. i \in 1..n /\ n \in 1..n
  BY <1>1
<1>3. /\ blocks[i].start \in Nat /\ blocks[i].size \in Nat
      /\ blocks[n].start \in Nat /\ blocks[n].size \in Nat
  BY <1>1, <1>2, BlockFields DEF WellFormed
<1>4. blocks[n].start + blocks[n].size = MaxMemory
  BY <1>1 DEF WellFormed, Tiled
<1>5. CASE i = n
  BY <1>3, <1>4, <1>5, MemoryAssumption
<1>6. CASE i < n
  <2>1. blocks[i].start + blocks[i].size <= blocks[n].start
    BY <1>1, <1>2, <1>6, BlocksInOrder
  <2>2. i + 1 \in 1..n
    BY <1>2, <1>6
  <2> QED
    BY <1>1, <1>3, <1>4, <2>1, <2>2, MemoryAssumption
<1> QED
  BY <1>2, <1>5, <1>6

\* so that every address is in one block, and in no other.
LEMMA AddressInOneBlock ==
  ASSUME NEW blocks, WellFormed(blocks), NEW a \in 0..(MaxMemory - 1)
  PROVE  /\ \E i \in 1..Len(blocks) : Covers(blocks[i], a)
         /\ \A i, j \in 1..Len(blocks) : Covers(blocks[i], a) /\ Covers(blocks[j], a) => i = j
<1>1. PICK n \in Nat : n = Len(blocks)
  BY LenProperties DEF WellFormed
<1>2. \A k \in 1..n : blocks[k].start \in Nat /\ blocks[k].size \in Nat
  BY <1>1, BlockFields DEF WellFormed
<1>3. a \in Nat /\ a < MaxMemory
  BY MemoryAssumption
<1>4. \E i \in 1..n : Covers(blocks[i], a)
  <2> DEFINE EndsAfter == {k \in 1..n : a < blocks[k].start + blocks[k].size}
  <2>1. n > 0 /\ blocks[n].start + blocks[n].size = MaxMemory
    BY <1>1 DEF WellFormed, Tiled
  <2>2. n \in 1..n
    BY <2>1
  <2>3. EndsAfter \in SUBSET Nat /\ EndsAfter # {}
    BY <1>3, <2>1, <2>2
  <2> HIDE DEF EndsAfter
  <2>4. PICK m \in EndsAfter : \A k \in EndsAfter : m <= k
    BY <2>3, MinIsLeast
  <2>5. m \in 1..n /\ a < blocks[m].start + blocks[m].size
    BY <2>4 DEF EndsAfter
  <2>6. blocks[m].start <= a
    <3>1. CASE m = 1
      BY <1>1, <1>3, <3>1 DEF WellFormed, Tiled
    <3>2. CASE m # 1
      <4>1. m - 1 \in 1..(n - 1) /\ m - 1 \in 1..n /\ (m - 1) + 1 = m /\ ~(m <= m - 1)
        BY <2>5, <3>2
      <4>2. blocks[m].start = blocks[m - 1].start + blocks[m - 1].size
        BY <1>1, <4>1 DEF WellFormed, Tiled
      <4>3. ~(a < blocks[m - 1].start + blocks[m - 1].size)
        BY <2>4, <4>1 DEF EndsAfter
      <4> QED
        BY <1>2, <1>3, <4>1, <4>2, <4>3
    <3> QED
      BY <3>1, <3>2
  <2> QED
    BY <2>5, <2>6 DEF Covers
<1>5. ASSUME NEW i \in 1..n, NEW j \in 1..n, i < j,
             Covers(blocks[i], a), Covers(blocks[j], a)
      PROVE  FALSE
  <2>1. blocks[i].start + blocks[i].size <= blocks[j].start
    BY <1>1, <1>5, BlocksInOrder
  <2> QED
    BY <1>2, <1>3, <1>5, <2>1 DEF Covers
<1>6. ASSUME NEW i \in 1..n, NEW j \in 1..n, Covers(blocks[i], a), Covers(blocks[j], a)
      PROVE  i = j
  <2>1. ~(i < j) /\ ~(j < i)
    BY <1>5, <1>6
  <2> QED
    BY <2>1
<1> QED
  BY <1>1, <1>4, <1>6

===============================================================================

---------------------------- MODULE ProducerBase ----------------------------
(* What the two kinds of sub-queue of moodycamel's ConcurrentQueue share:   *)
(* the indices that wrap, the blocks, and the protocol by which consumers   *)
(* claim elements.  dequeue is dequeue_bulk with max = 1, and enqueue is    *)
(* enqueue_bulk with count = 1.  Every step is one access to shared memory. *)
EXTENDS Integers, Sequences, FiniteSets

CONSTANTS
  Consumers, Blocks,
  BlockSize,      \* BLOCK_SIZE
  IndexMod,       \* index_t counts modulo this power of two
  Loads           \* instances explored: [start, consumers, items, bulk], where
                  \* the indices stand, who dequeues, how many elements are
                  \* enqueued, and how many at a time

NoBlock == "nullptr"
Destructed == -1   \* an element that is not there

ASSUME ProducerConstants ==
  /\ BlockSize \in Nat /\ BlockSize > 1
  /\ IndexMod \in Nat \ {0} /\ IndexMod % (2 * BlockSize) = 0
  /\ \A l \in Loads : /\ l.start \in 0..(IndexMod - 1) /\ l.start % BlockSize = 0
                      /\ l.consumers \subseteq Consumers /\ l.items \in 1..(IndexMod - 1)
                      /\ l.bulk \subseteq Nat \ {0}
  /\ NoBlock \notin Blocks

VARIABLES
  tailIndex, headIndex, dequeueOptimisticCount, dequeueOvercommit,
  tailBlock,   \* the block the producer fills
  elements,    \* of every block: element k is the k-th enqueued
  emptied,     \* of every block: elementsCompletelyDequeued, or the emptyFlags set
  freed,       \* how many times a block is on the free list or in the pools
  dqAt, dq,    \* the next access of every consumer, and its locals
  isExplicit,  \* which of the two kinds it is
  destroyed,   \* the destructor has run
  load         \* the instance

counterVars == <<tailIndex, headIndex, dequeueOptimisticCount, dequeueOvercommit>>
baseVars ==
  <<counterVars, tailBlock, elements, emptied, freed, dqAt, dq, isExplicit, destroyed, load>>

Wrap(i) == i % IndexMod

(* details::circular_less_than.                                             *)
CircularLessThan(a, b) == Wrap(a - b) > IndexMod \div 2

(* The signed value of a difference of two indices, in blocks.              *)
SignedBlocks(d) ==
  (IF Wrap(d) >= IndexMod \div 2 THEN Wrap(d) - IndexMod ELSE Wrap(d)) \div BlockSize

startIndex == load.start
BlockOffset(i) == i % BlockSize
BlockBase(i) == i - BlockOffset(i)
Item(i) == Wrap(i - startIndex)
Least(a, b) == IF a < b THEN a ELSE b

NoDequeue == [tail |-> 0, overcommit |-> 0, count |-> 0, mine |-> 0, surplus |-> 0,
              index |-> 0, end |-> 0, header |-> 0, slot |-> 0, block |-> NoBlock]

BaseInit(explicit) ==
  /\ isExplicit = explicit
  /\ load \in Loads
  /\ tailIndex = startIndex /\ headIndex = startIndex
  /\ dequeueOptimisticCount = startIndex /\ dequeueOvercommit = 0
  /\ tailBlock = NoBlock
  /\ elements = [b \in Blocks |-> [k \in 0..(BlockSize - 1) |-> Destructed]]
  /\ emptied = [b \in Blocks |-> IF explicit THEN {} ELSE 0]
  /\ freed = [b \in Blocks |-> 1]
  /\ dqAt = [c \in Consumers |-> "idle"]
  /\ dq = [c \in Consumers |-> NoDequeue]
  /\ destroyed = FALSE

DqGoto(c, at, local) ==
  /\ dqAt' = [dqAt EXCEPT ![c] = at]
  /\ dq' = [dq EXCEPT ![c] = local]

-----------------------------------------------------------------------------
(* The claim: the first part of dequeue_bulk.                               *)
LoadTail(c) ==
  /\ dqAt[c] = "idle" /\ c \in load.consumers
  /\ \E max \in load.bulk :
       DqGoto(c, "load overcommit", [NoDequeue EXCEPT !.tail = tailIndex, !.count = max])
  /\ UNCHANGED counterVars

LoadOvercommit(c) ==
  /\ dqAt[c] = "load overcommit"
  /\ DqGoto(c, "load optimistic", [dq[c] EXCEPT !.overcommit = dequeueOvercommit])
  /\ UNCHANGED counterVars

LoadOptimistic(c) ==
  LET desired == Wrap(dq[c].tail - (dequeueOptimisticCount - dq[c].overcommit))
  IN  /\ dqAt[c] = "load optimistic"
      /\ IF CircularLessThan(0, desired)
         THEN DqGoto(c, "claim", [dq[c] EXCEPT !.count = Least(desired, @), !.tail = 0])
         ELSE DqGoto(c, "idle", NoDequeue)
      /\ UNCHANGED counterVars

ClaimCount(c) ==
  /\ dqAt[c] = "claim"
  /\ dequeueOptimisticCount' = Wrap(dequeueOptimisticCount + dq[c].count)
  /\ DqGoto(c, "reload tail", [dq[c] EXCEPT !.mine = dequeueOptimisticCount])
  /\ UNCHANGED <<tailIndex, headIndex, dequeueOvercommit>>

ReloadTail(c) ==
  LET available == Wrap(tailIndex - (dq[c].mine - dq[c].overcommit))
      actual == IF CircularLessThan(0, available) THEN Least(dq[c].count, available) ELSE 0
  IN  /\ dqAt[c] = "reload tail"
      /\ DqGoto(c, IF actual < dq[c].count THEN "give back" ELSE "take",
                [NoDequeue EXCEPT !.count = actual, !.surplus = dq[c].count - actual])
      /\ UNCHANGED counterVars

(* Variant: nothing is given back.                                          *)
GiveBack_None(c) ==
  /\ dqAt[c] = "give back"
  /\ IF dq[c].count > 0
     THEN DqGoto(c, "take", [dq[c] EXCEPT !.surplus = 0])
     ELSE DqGoto(c, "idle", NoDequeue)
  /\ UNCHANGED counterVars

GiveBack(c) ==
  /\ dqAt[c] = "give back"
  /\ dequeueOvercommit' = Wrap(dequeueOvercommit + dq[c].surplus)
  /\ IF dq[c].count > 0
     THEN DqGoto(c, "take", [dq[c] EXCEPT !.surplus = 0])
     ELSE DqGoto(c, "idle", NoDequeue)
  /\ UNCHANGED <<tailIndex, headIndex, dequeueOptimisticCount>>

TakeIndex(c) ==
  /\ dqAt[c] = "take"
  /\ headIndex' = Wrap(headIndex + dq[c].count)
  /\ DqGoto(c, "load index", [NoDequeue EXCEPT !.index = headIndex, !.end = headIndex'])
  /\ UNCHANGED <<tailIndex, dequeueOptimisticCount, dequeueOvercommit>>

Claims(c) ==
  /\ \/ LoadTail(c) \/ LoadOvercommit(c) \/ LoadOptimistic(c) \/ ClaimCount(c)
     \/ ReloadTail(c) \/ GiveBack(c) \/ TakeIndex(c)
  /\ UNCHANGED <<tailBlock, elements, emptied, freed, isExplicit, destroyed, load>>

(* What of the claimed elements lies in the block of the first one.         *)
(* Variant: the end of the block, whatever was claimed.                     *)
SegmentEnd_OfBlock(c) == Wrap(BlockBase(dq[c].index) + BlockSize)

SegmentEnd(c) ==
  LET stop == Wrap(BlockBase(dq[c].index) + BlockSize)
  IN  IF CircularLessThan(dq[c].end, stop) THEN dq[c].end ELSE stop

SegmentSize(c) == Wrap(SegmentEnd(c) - dq[c].index)
SegmentOffsets(c) ==
  BlockOffset(dq[c].index)..(BlockOffset(dq[c].index) + SegmentSize(c) - 1)

(* The elements are moved out of the block and destructed.                  *)
MoveOut(c) ==
  /\ dqAt[c] = "move out"
  /\ elements' = [elements EXCEPT ![dq[c].block] =
                    [k \in DOMAIN @ |-> IF k \in SegmentOffsets(c) THEN Destructed ELSE @[k]]]
  /\ DqGoto(c, "set empty", dq[c])
  /\ UNCHANGED <<counterVars, tailBlock, emptied, freed, isExplicit, destroyed, load>>

(* The next block of the claim, in the next slot of the block index.        *)
NextSegment(c, slots) ==
  IF SegmentEnd(c) = dq[c].end
  THEN DqGoto(c, "idle", NoDequeue)
  ELSE DqGoto(c, "load block",
              [dq[c] EXCEPT !.index = SegmentEnd(c), !.slot = (@ + 1) % slots, !.block = NoBlock])

(* count elements are constructed in the blocks that follow each other from *)
(* the one of tailIndex.                                                    *)
ConstructElements(count, fills) ==
  LET AtOffset(b, k) ==
        {j \in 0..(count - 1) :
           /\ BlockOffset(tailIndex + j) = k
           /\ fills[1 + ((BlockOffset(tailIndex) + j) \div BlockSize)] = b}
  IN  elements' = [b \in Blocks |-> [k \in 0..(BlockSize - 1) |->
        IF AtOffset(b, k) = {} THEN elements[b][k]
        ELSE Item(tailIndex + CHOOSE j \in AtOffset(b, k) : TRUE)]]

-----------------------------------------------------------------------------
(* Who takes elements from the head: they are there.                        *)
ClaimsCovered ==
  \A c \in Consumers : dqAt[c] = "take" => dq[c].count <= Wrap(tailIndex - headIndex)

(* Consumers take no more than was enqueued, and the element one is about   *)
(* to move out is the one enqueued at the index it claimed, still there:    *)
(* none is delivered twice, none is lost to a block that is reused, however *)
(* the indices wrap.                                                        *)
ReadsWhatWasEnqueued ==
  /\ ClaimsCovered
  /\ \A c \in Consumers :
       dqAt[c] = "move out" =>
         /\ dq[c].block \in Blocks /\ freed[dq[c].block] = 0
         /\ \A j \in 0..(SegmentSize(c) - 1) :
              elements[dq[c].block][BlockOffset(dq[c].index + j)] = Item(dq[c].index + j)

(* A consumer that keeps calling while the others no longer do gets all     *)
(* that was enqueued: what was claimed too much in between hides nothing.   *)
(* (Two that keep calling may hide the last element from each other.)       *)
EverythingDequeued ==
  \A c \in Consumers :
    /\ <>[](\A other \in Consumers \ {c} : dqAt[other] = "idle")
    /\ []<>(dqAt[c] # "idle")
    => <>[](headIndex = tailIndex \/ destroyed)
=============================================================================

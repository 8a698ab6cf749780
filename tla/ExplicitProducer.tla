-------------------------- MODULE ExplicitProducer --------------------------
(* The sub-queue of a producer token, with all its consumers: the producer  *)
(* keeps its blocks in a ring and uses again those that are empty; a        *)
(* circular index tells consumers which block holds which elements.         *)
EXTENDS ProducerBase

CONSTANTS
  InitialSlots,   \* EXPLICIT_INITIAL_INDEX_SIZE
  MaxIndices      \* block indices that can be allocated

ASSUME ExplicitConstants == InitialSlots \in Nat \ {0} /\ MaxIndices \in Nat \ {0}

VARIABLES
  indices,   \* every BlockIndexHeader, with its entries; the last one is blockIndex
  ring,      \* next of every block
  pr,        \* pr_blockIndexFront and pr_blockIndexSlotsUsed
  xAt, x,    \* the next access of the producer, and its locals
  gaveUp     \* a ghost: an enqueue_bulk took a block and failed

ringVars == <<indices, ring, pr, xAt, x, gaveUp>>
explicitVars == <<baseVars, ringVars>>

Offsets == 0..(BlockSize - 1)
NoEntry == [base |-> 0, block |-> NoBlock]
NoCall == [count |-> 0, base |-> 0, needed |-> 0, first |-> NoBlock,
           startBlock |-> NoBlock, pr |-> [front |-> 0, slotsUsed |-> 0]]

Slots(h) == Cardinality(DOMAIN indices[h].entries)
LastSlot == Len(indices)

(* The constructor; the index it allocates exposes slot -1, no block yet.   *)
RingInit ==
  /\ indices = << [front |-> -1, entries |-> [i \in 0..(InitialSlots - 1) |-> NoEntry]] >>
  /\ ring = [b \in Blocks |-> NoBlock]
  /\ pr = [front |-> 0, slotsUsed |-> 0]
  /\ xAt = "idle" /\ x = NoCall /\ gaveUp = FALSE

ExplicitInit == BaseInit(TRUE) /\ RingInit

-----------------------------------------------------------------------------
(* enqueue_bulk.  Where it allocates it may fail: CannotAlloc, or no memory.  *)
XGoto(at, local) == xAt' = at /\ x' = local

NextBase == Wrap(BlockBase(tailIndex + BlockSize - 1))

(* How many blocks start within the count indices from the tail on.         *)
BlocksNeeded(count) ==
  Cardinality({j \in 0..(count - 1) : BlockOffset(tailIndex + j) = 0})

XEnqueueBulk(count) ==
  /\ xAt = "idle" /\ ~destroyed /\ Item(tailIndex) + count <= load.items
  /\ XGoto(IF BlocksNeeded(count) > 0 THEN "reuse" ELSE "fill",
           [NoCall EXCEPT !.count = count, !.base = NextBase, !.needed = BlocksNeeded(count),
                          !.startBlock = tailBlock, !.pr = pr])
  /\ UNCHANGED <<baseVars, indices, ring, pr, gaveUp>>

CanReuse ==
  /\ xAt = "reuse" /\ tailBlock # NoBlock /\ ring[tailBlock] # x.first
  /\ emptied[ring[tailBlock]] = Offsets

(* The block b is put on the index for the elements from x.base on.         *)
PutOnIndex(b, slotsUsed, at) ==
  /\ indices' = [indices EXCEPT ![LastSlot].entries[pr.front] = [base |-> x.base, block |-> b]]
  /\ pr' = [front |-> (pr.front + 1) % Slots(LastSlot), slotsUsed |-> slotsUsed]
  /\ tailBlock' = b
  /\ XGoto(IF x.needed = 1 THEN "reset" ELSE at,
           [x EXCEPT !.base = Wrap(@ + BlockSize), !.needed = @ - 1,
                     !.first = IF @ = NoBlock THEN b ELSE @])
  /\ UNCHANGED <<counterVars, elements, dqAt, dq, isExplicit, destroyed, load, gaveUp>>

(* The block ahead is empty: it is used again.                              *)
ReuseBlock ==
  /\ CanReuse
  /\ PutOnIndex(ring[tailBlock], pr.slotsUsed, "reuse")
  /\ UNCHANGED <<emptied, freed, ring>>

(* Nothing is undone but what the producer alone sees: blocks that were     *)
(* inserted in the ring stay there, empty.                                  *)
GiveUp ==
  /\ gaveUp' = (gaveUp \/ x.first # NoBlock)
  /\ pr' = x.pr
  /\ tailBlock' = IF x.startBlock = NoBlock THEN x.first ELSE x.startBlock
  /\ XGoto("idle", NoCall)

(* There is no room if the tail could pass the head in this block.          *)
XCheckHead ==
  /\ xAt \in {"reuse", "check head"} /\ ~CanReuse
  /\ IF CircularLessThan(headIndex, x.base + BlockSize)
     THEN XGoto("allocate", x) /\ UNCHANGED <<tailBlock, pr, gaveUp>>
     ELSE GiveUp
  /\ UNCHANGED <<counterVars, elements, emptied, freed, dqAt, dq, isExplicit, destroyed, load, indices, ring>>

(* new_block_index(originalBlockIndexSlotsUsed): twice the slots, the ones  *)
(* in use first.                                                            *)
(* Variant: the entries are copied from the first slot on.                  *)
XNewBlockIndex_FromZero ==
  LET size == Slots(LastSlot)
  IN  /\ xAt = "allocate" /\ pr.slotsUsed = size /\ Len(indices) < MaxIndices
      /\ indices' = Append(indices,
           [front |-> x.pr.slotsUsed - 1,
            entries |-> [k \in 0..(2 * size - 1) |->
                           IF k < pr.slotsUsed THEN indices[LastSlot].entries[k] ELSE NoEntry]])
      /\ pr' = [pr EXCEPT !.front = pr.slotsUsed]
      /\ XGoto("requisition", [x EXCEPT !.pr.front = x.pr.slotsUsed])
      /\ UNCHANGED <<baseVars, ring, gaveUp>>

XNewBlockIndex ==
  LET size == Slots(LastSlot)
      Old(k) == indices[LastSlot].entries[(pr.front - pr.slotsUsed + k) % size]
  IN  /\ xAt = "allocate" /\ pr.slotsUsed = size /\ Len(indices) < MaxIndices
      /\ indices' = Append(indices,
           [front |-> x.pr.slotsUsed - 1,
            entries |-> [k \in 0..(2 * size - 1) |-> IF k < pr.slotsUsed THEN Old(k) ELSE NoEntry]])
      /\ pr' = [pr EXCEPT !.front = pr.slotsUsed]
      /\ XGoto("requisition", [x EXCEPT !.pr.front = x.pr.slotsUsed])
      /\ UNCHANGED <<baseVars, ring, gaveUp>>

XAllocationFails ==
  /\ xAt \in {"allocate", "requisition"}
  /\ GiveUp
  /\ UNCHANGED <<counterVars, elements, emptied, freed, dqAt, dq, isExplicit, destroyed, load, indices, ring>>

(* requisition_block, and the new block inserted behind the tail block.     *)
InsertBlock ==
  LET available == {b \in Blocks : freed[b] > 0}
      new == CHOOSE b \in available : TRUE
  IN  /\ xAt \in {"allocate", "requisition"} /\ pr.slotsUsed < Slots(LastSlot)
      /\ available # {}
      /\ freed' = [freed EXCEPT ![new] = @ - 1]
      /\ emptied' = [emptied EXCEPT ![new] = Offsets]
      /\ ring' = IF tailBlock = NoBlock THEN [ring EXCEPT ![new] = new]
                 ELSE [ring EXCEPT ![new] = ring[tailBlock], ![tailBlock] = new]
      /\ PutOnIndex(new, pr.slotsUsed + 1, "check head")

(* The n blocks from b on, along the ring.                                  *)
AlongRing(b, n) ==
  LET walk[k \in 1..n] == IF k = 1 THEN b ELSE ring[walk[k - 1]] IN walk

(* reset_empty: only now, an empty block is not looked at by a consumer.    *)
ResetBlocks ==
  LET blocks == AlongRing(x.first, BlocksNeeded(x.count))
  IN  /\ xAt = "reset"
      /\ emptied' = [b \in Blocks |-> IF \E k \in DOMAIN blocks : blocks[k] = b
                                      THEN {} ELSE emptied[b]]
      /\ XGoto("publish front", x)
      /\ UNCHANGED <<counterVars, tailBlock, elements, freed, dqAt, dq, isExplicit, destroyed, load,
                     indices, ring, pr, gaveUp>>

PublishFront ==
  /\ xAt = "publish front"
  /\ indices' = [indices EXCEPT ![LastSlot].front = (pr.front - 1) % Slots(LastSlot)]
  /\ XGoto("fill", x)
  /\ UNCHANGED <<baseVars, ring, pr, gaveUp>>

XFill ==
  /\ xAt = "fill"
  /\ ConstructElements(x.count,
       AlongRing(IF BlockOffset(tailIndex) = 0 THEN x.first ELSE x.startBlock,
                 1 + ((BlockOffset(tailIndex) + x.count - 1) \div BlockSize)))
  /\ XGoto("publish tail", x)
  /\ UNCHANGED <<counterVars, tailBlock, emptied, freed, dqAt, dq, isExplicit, destroyed, load,
                 indices, ring, pr, gaveUp>>

XPublishTail ==
  /\ xAt = "publish tail"
  /\ tailIndex' = Wrap(tailIndex + x.count)
  /\ XGoto("idle", NoCall)
  /\ UNCHANGED <<headIndex, dequeueOptimisticCount, dequeueOvercommit, tailBlock, elements,
                 emptied, freed, dqAt, dq, isExplicit, destroyed, load, indices, ring, pr, gaveUp>>

XEnqueueStep ==
  \/ ReuseBlock \/ XCheckHead \/ XNewBlockIndex \/ XAllocationFails \/ InsertBlock
  \/ ResetBlocks \/ PublishFront \/ XFill \/ XPublishTail

-----------------------------------------------------------------------------
(* dequeue_bulk, once it has its indices.                                   *)
XLoadBlockIndex(c) ==
  /\ dqAt[c] = "load index"
  /\ DqGoto(c, "load front", [dq[c] EXCEPT !.header = LastSlot])

XLoadFront(c) ==
  /\ dqAt[c] = "load front"
  /\ DqGoto(c, "load base", [dq[c] EXCEPT !.slot = indices[dq[c].header].front])

XLoadBase(c) ==
  LET h == dq[c].header
  IN  /\ dqAt[c] = "load base"
      /\ DqGoto(c, "load block", [dq[c] EXCEPT !.slot =
           (@ + SignedBlocks(BlockBase(dq[c].index) - indices[h].entries[@].base)) % Slots(h)])

XLoadBlock(c) ==
  /\ dqAt[c] = "load block"
  /\ DqGoto(c, "move out", [dq[c] EXCEPT !.block = indices[dq[c].header].entries[dq[c].slot].block])

(* set_many_empty, in the explicit context: a flag for every element.       *)
SetFlags(c) ==
  /\ dqAt[c] = "set empty"
  /\ emptied' = [emptied EXCEPT ![dq[c].block] = @ \union SegmentOffsets(c)]
  /\ NextSegment(c, Slots(dq[c].header))

XConsumerStep(c) ==
  /\ ~destroyed
  /\ \/ Claims(c)
     \/ MoveOut(c)
     \/ /\ XLoadBlockIndex(c) \/ XLoadFront(c) \/ XLoadBase(c) \/ XLoadBlock(c)
        /\ UNCHANGED <<counterVars, tailBlock, elements, emptied, freed, isExplicit, destroyed, load>>
     \/ SetFlags(c) /\ UNCHANGED <<counterVars, tailBlock, elements, freed, isExplicit, destroyed, load>>
  /\ UNCHANGED <<indices, ring, pr, xAt, x, gaveUp>>

-----------------------------------------------------------------------------
Ring ==
  IF tailBlock = NoBlock THEN {}
  ELSE {AlongRing(tailBlock, Cardinality(Blocks))[k] : k \in 1..Cardinality(Blocks)}

(* ~ExplicitProducer: every block of the ring is given back.                *)
XDestroy ==
  /\ xAt = "idle" /\ ~destroyed /\ \A c \in Consumers : dqAt[c] = "idle"
  /\ destroyed' = TRUE
  /\ freed' = [b \in Blocks |-> IF b \in Ring THEN freed[b] + 1 ELSE freed[b]]
  /\ UNCHANGED <<counterVars, tailBlock, elements, emptied, dqAt, dq, isExplicit, load, indices, ring, pr, xAt, x, gaveUp>>

ExplicitNext ==
  \/ \E count \in load.bulk : XEnqueueBulk(count)
  \/ XEnqueueStep
  \/ \E c \in Consumers : XConsumerStep(c)
  \/ XDestroy

ExplicitSpec ==
  /\ ExplicitInit /\ [][ExplicitNext]_explicitVars
  /\ \A c \in Consumers : WF_explicitVars(dqAt[c] # "idle" /\ XConsumerStep(c))

-----------------------------------------------------------------------------
(* The producer that never gave up with blocks in hand delivers what it was *)
(* given.  One that did can overwrite the entry of a block that is not yet  *)
(* dequeued: the blocks left in the ring are not counted as slots used, and *)
(* a new index made in the call keeps the entries of the blocks taken back. *)
ExplicitReadsWhatWasEnqueued == gaveUp \/ ReadsWhatWasEnqueued

(* "Guaranteed to be room", says the code where it uses the block ahead     *)
(* again: the slot of the index it writes to is not that of a block that is *)
(* still in use.                                                            *)
RoomForReusedBlock ==
  isExplicit /\ CanReuse =>
    LET entry == indices[LastSlot].entries[pr.front]
    IN  entry.block = NoBlock \/ emptied[entry.block] = Offsets
=============================================================================

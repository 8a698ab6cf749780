-------------------------- MODULE ImplicitProducer --------------------------
(* The sub-queue of a thread that enqueues without a token, with all its    *)
(* consumers: blocks come from the pools of the queue and go back to them   *)
(* as soon as they are dequeued; consumers find the block of an index in a  *)
(* circular index that grows.                                               *)
EXTENDS ProducerBase

CONSTANTS
  InitialIndexSize,   \* IMPLICIT_INITIAL_INDEX_SIZE
  MaxHeaders          \* block indices that can be allocated

InvalidBlockBase == 1   \* INVALID_BLOCK_BASE
Uninitialized == "uninitialized"

(* The range of an index is a power of two, BLOCK_SIZE and                  *)
(* IMPLICIT_INITIAL_INDEX_SIZE are too: what divides the number of blocks   *)
(* in the range does so when it is doubled, short of the whole range.       *)
ASSUME ImplicitConstants ==
  LET blocks == IndexMod \div BlockSize
  IN  /\ InitialIndexSize \in Nat \ {0} /\ MaxHeaders \in Nat \ {0}
      /\ blocks % InitialIndexSize = 0
      /\ \A n \in 1..(blocks - 1) : blocks % n = 0 => blocks % (2 * n) = 0
      /\ Uninitialized \notin Blocks

VARIABLES
  idxEntries,   \* every BlockIndexEntry allocated: its key and its value
  idxHeaders,   \* every BlockIndexHeader, the last one is blockIndex
  enqAt, enq    \* the next access of the producer, and its locals

indexVars == <<idxEntries, idxHeaders, enqAt, enq>>
implicitVars == <<baseVars, indexVars>>

NoEnqueue == [count |-> 0, base |-> 0, got |-> <<>>, slot |-> 0,
              undo |-> 0, block |-> NoBlock]

Header == idxHeaders[Len(idxHeaders)]
EntryAt(h, slot) == idxHeaders[h].index[slot]

(* After startIndex elements: every block was used and given back.          *)
LastKey(slot) ==
  LET used == {q \in 0..(startIndex \div BlockSize - 1) : q % InitialIndexSize = slot}
  IN  IF used = {} THEN InvalidBlockBase
      ELSE BlockSize * CHOOSE q \in used : \A p \in used : p <= q

IndexInit ==
  /\ idxEntries = [e \in 1..InitialIndexSize |->
       [key |-> LastKey(e - 1),
        value |-> IF LastKey(e - 1) = InvalidBlockBase THEN Uninitialized ELSE NoBlock]]
  /\ idxHeaders = << [tail |-> (startIndex \div BlockSize - 1) % InitialIndexSize,
                      index |-> [slot \in 0..(InitialIndexSize - 1) |-> slot + 1]] >>
  /\ enqAt = "idle" /\ enq = NoEnqueue

ImplicitInit == BaseInit(FALSE) /\ IndexInit

-----------------------------------------------------------------------------
(* enqueue_bulk.  Where it allocates it may fail: CannotAlloc, or no memory.  *)
EnqGoto(at, local) == enqAt' = at /\ enq' = local

(* The first index at or after the tail that starts a block.                *)
FirstNewBase == Wrap(BlockBase(tailIndex + BlockSize - 1))

EnqueueBulk(count) ==
  /\ enqAt = "idle" /\ ~destroyed /\ Item(tailIndex) + count <= load.items
  /\ EnqGoto(IF FirstNewBase \in {Wrap(tailIndex + j) : j \in 0..(count - 1)}
             THEN "check head" ELSE "fill",
             [NoEnqueue EXCEPT !.count = count, !.base = FirstNewBase])
  /\ UNCHANGED <<baseVars, idxEntries, idxHeaders>>

(* An allocation failed: what this call inserted so far is taken out again. *)
(* Variant: the blocks are given back and left in the index.                *)
UndoFrom_Blocks(k) == EnqGoto("free", enq)

UndoFrom(k) ==
  IF k > Len(enq.got) THEN EnqGoto("free", enq) ELSE EnqGoto("undo", [enq EXCEPT !.undo = k])

(* There is no room if the tail could pass the head in this block.          *)
CheckHead ==
  /\ enqAt = "check head"
  /\ IF CircularLessThan(headIndex, enq.base + BlockSize)
     THEN EnqGoto("insert", enq)
     ELSE UndoFrom(1)
  /\ UNCHANGED <<baseVars, idxEntries, idxHeaders>>

NewTail == (Header.tail + 1) % Cardinality(DOMAIN Header.index)
EntryFree(e) == idxEntries[e].key = InvalidBlockBase \/ idxEntries[e].value = NoBlock

(* insert_block_index_entry: the entry behind the last one.                 *)
InsertEntry ==
  LET e == EntryAt(Len(idxHeaders), NewTail)
  IN  /\ enqAt = "insert" /\ EntryFree(e)
      /\ idxEntries' = [idxEntries EXCEPT ![e].key = enq.base]
      /\ EnqGoto("store tail", [enq EXCEPT !.slot = NewTail])
      /\ UNCHANGED <<baseVars, idxHeaders>>

StoreIndexTail ==
  /\ enqAt = "store tail"
  /\ idxHeaders' = [idxHeaders EXCEPT ![Len(idxHeaders)].tail = enq.slot]
  /\ EnqGoto("requisition", enq)
  /\ UNCHANGED <<baseVars, idxEntries>>

(* new_block_index: twice as many entries, the old ones first.              *)
(* Variant: the old entries keep their slots.                               *)
NewBlockIndex_NotRotated ==
  LET capacity == Cardinality(DOMAIN Header.index)
  IN  /\ enqAt = "insert" /\ ~EntryFree(EntryAt(Len(idxHeaders), NewTail))
      /\ Len(idxHeaders) < MaxHeaders
      /\ idxHeaders' = Append(idxHeaders,
           [tail |-> capacity - 1,
            index |-> [slot \in 0..(2 * capacity - 1) |->
                         IF slot < capacity THEN Header.index[slot]
                         ELSE Len(idxEntries) + 1 + slot - capacity]])
      /\ idxEntries' = idxEntries \o
           [e \in 1..capacity |-> [key |-> InvalidBlockBase, value |-> Uninitialized]]
      /\ UNCHANGED <<baseVars, enqAt, enq>>

NewBlockIndex ==
  LET capacity == Cardinality(DOMAIN Header.index)
  IN  /\ enqAt = "insert" /\ ~EntryFree(EntryAt(Len(idxHeaders), NewTail))
      /\ Len(idxHeaders) < MaxHeaders
      /\ idxHeaders' = Append(idxHeaders,
           [tail |-> capacity - 1,
            index |-> [slot \in 0..(2 * capacity - 1) |->
                         IF slot < capacity
                         THEN Header.index[(Header.tail + 1 + slot) % capacity]
                         ELSE Len(idxEntries) + 1 + slot - capacity]])
      /\ idxEntries' = idxEntries \o
           [e \in 1..capacity |-> [key |-> InvalidBlockBase, value |-> Uninitialized]]
      /\ UNCHANGED <<baseVars, enqAt, enq>>

NoBlockIndex ==
  /\ enqAt = "insert" /\ ~EntryFree(EntryAt(Len(idxHeaders), NewTail))
  /\ UndoFrom(1)
  /\ UNCHANGED <<baseVars, idxEntries, idxHeaders>>

(* requisition_block: of the initial pool, the free list or the heap, all   *)
(* of whose blocks are alike.                                               *)
RequisitionBlock ==
  LET available == {x \in Blocks : freed[x] > 0}
      b == CHOOSE x \in available : TRUE
  IN  /\ enqAt = "requisition" /\ available # {}
      /\ freed' = [freed EXCEPT ![b] = @ - 1]
      /\ emptied' = [emptied EXCEPT ![b] = 0]
      /\ EnqGoto("store value", [enq EXCEPT !.block = b])
      /\ UNCHANGED <<counterVars, tailBlock, elements, dqAt, dq, isExplicit, destroyed, load, idxEntries,
                     idxHeaders>>

(* The heap is exhausted, or the free list looked empty.                    *)
NoBlockAvailable ==
  /\ enqAt = "requisition"
  /\ EnqGoto("rewind", enq)
  /\ UNCHANGED <<baseVars, idxEntries, idxHeaders>>

StoreValue ==
  LET more == Wrap(enq.base - tailIndex) + BlockSize < enq.count
  IN  /\ enqAt = "store value"
      /\ idxEntries' = [idxEntries EXCEPT
           ![EntryAt(Len(idxHeaders), enq.slot)].value = enq.block]
      /\ EnqGoto(IF more THEN "check head" ELSE "fill",
                 [enq EXCEPT !.got = Append(@, enq.block), !.block = NoBlock,
                             !.base = IF more THEN Wrap(@ + BlockSize) ELSE @])
      /\ UNCHANGED <<baseVars, idxHeaders>>

(* rewind_block_index_tail, for the entry whose block is missing and for    *)
(* each one undone.                                                         *)
RewindTail ==
  /\ enqAt \in {"rewind", "undo rewind"}
  /\ idxHeaders' = [idxHeaders EXCEPT ![Len(idxHeaders)].tail =
                      (@ - 1) % Cardinality(DOMAIN Header.index)]
  /\ IF enqAt = "rewind" THEN EnqGoto("null value", enq) ELSE UndoFrom(enq.undo + 1)
  /\ UNCHANGED <<baseVars, idxEntries>>

NullValue ==
  /\ enqAt = "null value"
  /\ idxEntries' = [idxEntries EXCEPT ![EntryAt(Len(idxHeaders), enq.slot)].value = NoBlock]
  /\ UndoFrom(1)
  /\ UNCHANGED <<baseVars, idxHeaders>>

(* get_block_index_index_for_index.                                         *)
SlotOf(h, tail, tailBase, i) ==
  (tail + SignedBlocks(BlockBase(i) - tailBase)) % Cardinality(DOMAIN idxHeaders[h].index)

UndoValue ==
  LET h == Len(idxHeaders)
      tailBase == idxEntries[EntryAt(h, Header.tail)].key
      e == EntryAt(h, SlotOf(h, Header.tail, tailBase,
                             Wrap(FirstNewBase + (enq.undo - 1) * BlockSize)))
  IN  /\ enqAt = "undo"
      /\ idxEntries' = [idxEntries EXCEPT ![e].value = NoBlock]
      /\ EnqGoto("undo rewind", enq)
      /\ UNCHANGED <<baseVars, idxHeaders>>

(* add_blocks_to_free_list: each in turn.                                   *)
FreeBlocks ==
  /\ enqAt = "free"
  /\ IF enq.got = <<>>
     THEN EnqGoto("idle", NoEnqueue) /\ UNCHANGED freed
     ELSE /\ freed' = [freed EXCEPT ![Head(enq.got)] = @ + 1]
          /\ EnqGoto("free", [enq EXCEPT !.got = Tail(@)])
  /\ UNCHANGED <<counterVars, tailBlock, elements, emptied, dqAt, dq, isExplicit, destroyed, load, idxEntries, idxHeaders>>

Fill ==
  /\ enqAt = "fill"
  /\ ConstructElements(enq.count,
       IF BlockOffset(tailIndex) = 0 THEN enq.got ELSE <<tailBlock>> \o enq.got)
  /\ EnqGoto("publish", enq)
  /\ UNCHANGED <<counterVars, tailBlock, emptied, freed, dqAt, dq, isExplicit, destroyed, load, idxEntries, idxHeaders>>

PublishTail ==
  /\ enqAt = "publish"
  /\ tailIndex' = Wrap(tailIndex + enq.count)
  /\ tailBlock' = IF enq.got = <<>> THEN tailBlock ELSE enq.got[Len(enq.got)]
  /\ EnqGoto("idle", NoEnqueue)
  /\ UNCHANGED <<headIndex, dequeueOptimisticCount, dequeueOvercommit, elements, emptied, freed,
                 dqAt, dq, isExplicit, destroyed, load, idxEntries, idxHeaders>>

EnqueueStep ==
  \/ CheckHead \/ InsertEntry \/ StoreIndexTail \/ NewBlockIndex \/ NoBlockIndex
  \/ RequisitionBlock \/ NoBlockAvailable \/ StoreValue \/ RewindTail \/ NullValue
  \/ UndoValue \/ FreeBlocks \/ Fill \/ PublishTail

-----------------------------------------------------------------------------
(* dequeue_bulk, once it has its indices.                                   *)
LoadBlockIndex(c) ==
  /\ dqAt[c] = "load index"
  /\ DqGoto(c, "load index tail", [dq[c] EXCEPT !.header = Len(idxHeaders)])

LoadIndexTail(c) ==
  /\ dqAt[c] = "load index tail"
  /\ DqGoto(c, "load tail base", [dq[c] EXCEPT !.slot = idxHeaders[dq[c].header].tail])

LoadTailBase(c) ==
  LET h == dq[c].header
  IN  /\ dqAt[c] = "load tail base"
      /\ DqGoto(c, "load block", [dq[c] EXCEPT !.slot =
                  SlotOf(h, @, idxEntries[EntryAt(h, @)].key, dq[c].index)])

DqEntry(c) == EntryAt(dq[c].header, dq[c].slot)

LoadBlock(c) ==
  /\ dqAt[c] = "load block"
  /\ DqGoto(c, "move out", [dq[c] EXCEPT !.block = idxEntries[DqEntry(c)].value])

ImplicitNextSegment(c) ==
  NextSegment(c, Cardinality(DOMAIN idxHeaders[dq[c].header].index))

(* set_many_empty, in the implicit context: a counter.                      *)
SetManyEmpty(c) ==
  /\ dqAt[c] = "set empty"
  /\ emptied' = [emptied EXCEPT ![dq[c].block] = @ + SegmentSize(c)]
  /\ IF emptied'[dq[c].block] = BlockSize
     THEN DqGoto(c, "clear entry", dq[c])
     ELSE ImplicitNextSegment(c)
  /\ UNCHANGED <<freed, idxEntries>>

ClearEntry(c) ==
  /\ dqAt[c] = "clear entry"
  /\ idxEntries' = [idxEntries EXCEPT ![DqEntry(c)].value = NoBlock]
  /\ DqGoto(c, "free block", dq[c])
  /\ UNCHANGED <<freed, emptied>>

AddBlockToFreeList(c) ==
  /\ dqAt[c] = "free block"
  /\ freed' = [freed EXCEPT ![dq[c].block] = @ + 1]
  /\ ImplicitNextSegment(c)
  /\ UNCHANGED <<emptied, idxEntries>>

Dequeues(c) ==
  /\ \/ /\ LoadBlockIndex(c) \/ LoadIndexTail(c) \/ LoadTailBase(c) \/ LoadBlock(c)
        /\ UNCHANGED <<emptied, freed, idxEntries>>
     \/ SetManyEmpty(c) \/ ClearEntry(c) \/ AddBlockToFreeList(c)
  /\ UNCHANGED <<counterVars, tailBlock, elements, isExplicit, destroyed, load>>

ConsumerStep(c) ==
  /\ ~destroyed
  /\ \/ Claims(c) /\ UNCHANGED idxEntries
     \/ MoveOut(c) /\ UNCHANGED idxEntries
     \/ Dequeues(c)
  /\ UNCHANGED <<idxHeaders, enqAt, enq>>

-----------------------------------------------------------------------------
(* The blocks that hold elements from index i on, in the order of the loop  *)
(* of the destructor, which frees all but the last of them.                 *)
RemainingBlocks ==
  LET h == Len(idxHeaders)
      tailBase == idxEntries[EntryAt(h, Header.tail)].key
      BlockOf(i) == idxEntries[EntryAt(h, SlotOf(h, Header.tail, tailBase, i))].value
  IN  {BlockOf(Wrap(headIndex + j)) : j \in 0..(Wrap(tailIndex - headIndex) - 1)}
LastRemaining ==
  LET h == Len(idxHeaders)
      tailBase == idxEntries[EntryAt(h, Header.tail)].key
  IN  idxEntries[EntryAt(h, SlotOf(h, Header.tail, tailBase, Wrap(tailIndex - 1)))].value

(* ~ImplicitProducer, when no operation is under way.                       *)
Destroy ==
  LET old == IF headIndex = tailIndex THEN {} ELSE RemainingBlocks \ {LastRemaining}
      last == IF tailBlock # NoBlock /\ (headIndex # tailIndex \/ BlockOffset(tailIndex) # 0)
              THEN {tailBlock} ELSE {}
  IN  /\ enqAt = "idle" /\ ~destroyed /\ \A c \in Consumers : dqAt[c] = "idle"
      /\ destroyed' = TRUE
      /\ freed' = [b \in Blocks |-> freed[b] + (IF b \in old THEN 1 ELSE 0)
                                             + (IF b \in last THEN 1 ELSE 0)]
      /\ UNCHANGED <<counterVars, tailBlock, elements, emptied, dqAt, dq, isExplicit, load,
                     idxEntries, idxHeaders, enqAt, enq>>

ImplicitNext ==
  \/ \E count \in load.bulk : EnqueueBulk(count)
  \/ EnqueueStep
  \/ \E c \in Consumers : ConsumerStep(c)
  \/ Destroy

ImplicitSpec ==
  /\ ImplicitInit /\ [][ImplicitNext]_implicitVars
  /\ \A c \in Consumers : WF_implicitVars(dqAt[c] # "idle" /\ ConsumerStep(c))

-----------------------------------------------------------------------------
(* A block of the producer is on no free list, and every other one is there *)
(* exactly once: also when an enqueue_bulk that failed half way gave its    *)
(* blocks back while consumers freed theirs, and after the destructor.      *)
HeldByConsumer(c) == IF dqAt[c] = "free block" THEN {dq[c].block} ELSE {}
HeldByProducer ==
  {enq.block} \union {enq.got[k] : k \in 1..Len(enq.got)}
Indexed == {idxEntries[e].value : e \in 1..Len(idxEntries)}

BlocksInOnePlace ==
  ~isExplicit => \A b \in Blocks :
    freed[b] = IF \/ destroyed
                  \/ /\ b \notin Indexed \union HeldByProducer
                     /\ \A c \in Consumers : b \notin HeldByConsumer(c)
               THEN 1 ELSE 0

(* The assertion of get_block_index_index_for_index: a consumer finds the   *)
(* entry of its index, although the producer moves the tail of the index,   *)
(* undoes insertions and replaces the index meanwhile.                      *)
EntryFound ==
  \A c \in Consumers :
    ~isExplicit /\ dqAt[c] = "load block" =>
      /\ idxEntries[DqEntry(c)].key = BlockBase(dq[c].index)
      /\ idxEntries[DqEntry(c)].value \in Blocks
=============================================================================

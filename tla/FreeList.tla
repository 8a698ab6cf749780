------------------------------ MODULE FreeList ------------------------------
(* moodycamel's lock-free list of free blocks (struct FreeList): a stack    *)
(* whose nodes carry a count of those who look at them.  A node whose count *)
(* is not zero when it is given back is marked, and put on the list by the  *)
(* thread that brings the count to zero.  Every step is one atomic access.  *)
EXTENDS Integers, FiniteSets

CONSTANTS FreeListThreads, FreeListNodes

NoNode == "nullptr"

(* SHOULD_BE_ON_FREELIST and REFS_MASK at a width of four bits instead of   *)
(* 32: no more threads than the mask can count.                             *)
ShouldBeOnFreeList == 8
RefsBits(refs) == refs % ShouldBeOnFreeList
AddRefs(refs, d) == (refs + d) % (2 * ShouldBeOnFreeList)

ASSUME FreeListConstants ==
  /\ IsFiniteSet(FreeListThreads) /\ Cardinality(FreeListThreads) < ShouldBeOnFreeList - 1
  /\ IsFiniteSet(FreeListNodes) /\ NoNode \notin FreeListNodes

VARIABLES
  freeListHead,   \* the first node of the list
  freeListRefs,   \* of every node
  freeListNext,   \* of every node
  flAt,           \* the next access of every thread, "idle" between two calls
  flLocal,        \* the locals of try_get (head, prevHead, refs, next) and of
                  \* add_knowing_refcount_is_zero (node, expected)
  flOwned         \* the nodes every thread got and did not give back

freeListVars ==
  <<freeListHead, freeListRefs, freeListNext, flAt, flLocal, flOwned>>

NoLocals == [head |-> NoNode, prevHead |-> NoNode, refs |-> 0, next |-> NoNode,
             node |-> NoNode, expected |-> NoNode]

(* Nodes come from the initial pool or from new: a thread owns them first.  *)
FreeListInit ==
  /\ freeListHead = NoNode
  /\ freeListRefs = [n \in FreeListNodes |-> 0]
  /\ freeListNext = [n \in FreeListNodes |-> NoNode]
  /\ flAt = [t \in FreeListThreads |-> "idle"]
  /\ flLocal = [t \in FreeListThreads |-> NoLocals]
  /\ \E owner \in [FreeListNodes -> FreeListThreads] :
       flOwned = [t \in FreeListThreads |-> {n \in FreeListNodes : owner[n] = t}]

Goto(t, at, local) ==
  /\ flAt' = [flAt EXCEPT ![t] = at]
  /\ flLocal' = [flLocal EXCEPT ![t] = local]

(* The loop of try_get goes on with the head it has.                        *)
Loop(t, head) ==
  Goto(t, IF head = NoNode THEN "idle" ELSE "load refs", [NoLocals EXCEPT !.head = head])

-----------------------------------------------------------------------------
(* add: the first access.                                                   *)
Add(t, n) ==
  /\ flAt[t] = "idle" /\ n \in flOwned[t]
  /\ freeListRefs' = [freeListRefs EXCEPT ![n] = AddRefs(@, ShouldBeOnFreeList)]
  /\ flOwned' = [flOwned EXCEPT ![t] = @ \ {n}]
  /\ IF freeListRefs[n] = 0
     THEN Goto(t, "load expected", [NoLocals EXCEPT !.node = n])
     ELSE UNCHANGED <<flAt, flLocal>>
  /\ UNCHANGED <<freeListHead, freeListNext>>

(* add_knowing_refcount_is_zero.                                            *)
LoadExpected(t) ==
  /\ flAt[t] = "load expected"
  /\ Goto(t, "store next", [flLocal[t] EXCEPT !.expected = freeListHead])
  /\ UNCHANGED <<freeListHead, freeListRefs, freeListNext, flOwned>>

StoreNext(t) ==
  /\ flAt[t] = "store next"
  /\ freeListNext' = [freeListNext EXCEPT ![flLocal[t].node] = flLocal[t].expected]
  /\ flAt' = [flAt EXCEPT ![t] = "store refs"]
  /\ UNCHANGED <<freeListHead, freeListRefs, flLocal, flOwned>>

StoreRefs(t) ==
  /\ flAt[t] = "store refs"
  /\ freeListRefs' = [freeListRefs EXCEPT ![flLocal[t].node] = 1]
  /\ flAt' = [flAt EXCEPT ![t] = "push"]
  /\ UNCHANGED <<freeListHead, freeListNext, flLocal, flOwned>>

(* Variant: a failed exchange does not refresh the expected head.           *)
Push_Stale(t) ==
  /\ flAt[t] = "push"
  /\ IF freeListHead = flLocal[t].expected
     THEN /\ freeListHead' = flLocal[t].node
          /\ Loop(t, flLocal[t].head)
     ELSE /\ Goto(t, "leave", flLocal[t])
          /\ UNCHANGED freeListHead
  /\ UNCHANGED <<freeListRefs, freeListNext, flOwned>>

Push(t) ==
  /\ flAt[t] = "push"
  /\ IF freeListHead = flLocal[t].expected
     THEN /\ freeListHead' = flLocal[t].node
          /\ Loop(t, flLocal[t].head)
     ELSE /\ Goto(t, "leave", [flLocal[t] EXCEPT !.expected = freeListHead])
          /\ UNCHANGED freeListHead
  /\ UNCHANGED <<freeListRefs, freeListNext, flOwned>>

(* The push failed: only the one who finds no other reference tries again.  *)
Leave(t) ==
  /\ flAt[t] = "leave"
  /\ freeListRefs' = [freeListRefs EXCEPT ![flLocal[t].node] = AddRefs(@, ShouldBeOnFreeList - 1)]
  /\ IF freeListRefs[flLocal[t].node] = 1
     THEN Goto(t, "store next", flLocal[t])
     ELSE Loop(t, flLocal[t].head)
  /\ UNCHANGED <<freeListHead, freeListNext, flOwned>>

-----------------------------------------------------------------------------
(* try_get.                                                                 *)
TryGet(t) == flAt[t] = "idle" /\ Loop(t, freeListHead)

Reload(t) == flAt[t] = "reload" /\ Loop(t, freeListHead)

LoadRefs(t) ==
  LET refs == freeListRefs[flLocal[t].head]
  IN  /\ flAt[t] = "load refs"
      /\ Goto(t, IF RefsBits(refs) = 0 THEN "reload" ELSE "take ref",
              [flLocal[t] EXCEPT !.refs = refs])

LoadHead(t) ==
  /\ TryGet(t) \/ Reload(t) \/ LoadRefs(t)
  /\ UNCHANGED <<freeListHead, freeListRefs, freeListNext, flOwned>>

TakeRef(t) ==
  LET head == flLocal[t].head
  IN  /\ flAt[t] = "take ref"
      /\ IF freeListRefs[head] = flLocal[t].refs
         THEN /\ freeListRefs' = [freeListRefs EXCEPT ![head] = AddRefs(@, 1)]
              /\ Goto(t, "load next", flLocal[t])
         ELSE /\ Goto(t, "reload", NoLocals)
              /\ UNCHANGED freeListRefs
      /\ UNCHANGED <<freeListHead, freeListNext, flOwned>>

LoadNext(t) ==
  /\ flAt[t] = "load next"
  /\ Goto(t, "pop", [flLocal[t] EXCEPT !.next = freeListNext[flLocal[t].head], !.refs = 0])
  /\ UNCHANGED <<freeListHead, freeListRefs, freeListNext, flOwned>>

Pop(t) ==
  LET head == flLocal[t].head
  IN  /\ flAt[t] = "pop"
      /\ IF freeListHead = head
         THEN /\ freeListHead' = flLocal[t].next
              /\ Goto(t, "drop two", [NoLocals EXCEPT !.head = head])
         ELSE /\ Goto(t, "drop one", [NoLocals EXCEPT !.prevHead = head, !.head = freeListHead])
              /\ UNCHANGED freeListHead
      /\ UNCHANGED <<freeListRefs, freeListNext, flOwned>>

(* The reference of this thread and the list's: the node is the caller's.   *)
DropTwo(t) ==
  LET head == flLocal[t].head
  IN  /\ flAt[t] = "drop two"
      /\ freeListRefs' = [freeListRefs EXCEPT ![head] = AddRefs(@, -2)]
      /\ flOwned' = [flOwned EXCEPT ![t] = @ \union {head}]
      /\ Goto(t, "idle", NoLocals)
      /\ UNCHANGED <<freeListHead, freeListNext>>

(* Variant: the reference is dropped and the mark not looked at.            *)
DropOne_Only(t) ==
  /\ flAt[t] = "drop one"
  /\ freeListRefs' = [freeListRefs EXCEPT ![flLocal[t].prevHead] = AddRefs(@, -1)]
  /\ Loop(t, flLocal[t].head)
  /\ UNCHANGED <<freeListHead, freeListNext, flOwned>>

DropOne(t) ==
  LET prev == flLocal[t].prevHead
  IN  /\ flAt[t] = "drop one"
      /\ freeListRefs' = [freeListRefs EXCEPT ![prev] = AddRefs(@, -1)]
      /\ IF freeListRefs[prev] = ShouldBeOnFreeList + 1
         THEN Goto(t, "load expected",
                   [flLocal[t] EXCEPT !.node = prev, !.prevHead = NoNode])
         ELSE Loop(t, flLocal[t].head)
      /\ UNCHANGED <<freeListHead, freeListNext, flOwned>>

FreeListStep(t) ==
  \/ LoadExpected(t) \/ StoreNext(t) \/ StoreRefs(t) \/ Push(t) \/ Leave(t)
  \/ TakeRef(t) \/ LoadNext(t) \/ Pop(t) \/ DropTwo(t) \/ DropOne(t)
  \/ LoadHead(t)

FreeListNextState ==
  \E t \in FreeListThreads : FreeListStep(t) \/ \E n \in FreeListNodes : Add(t, n)

(* Lock-freedom asks nothing of the scheduler but that someone runs.        *)
FreeListRuns ==
  /\ \A t \in FreeListThreads : flAt[t] # "idle"
  /\ \E t \in FreeListThreads : FreeListStep(t)

FreeListSpec ==
  FreeListInit /\ [][FreeListNextState]_freeListVars /\ WF_freeListVars(FreeListRuns)

-----------------------------------------------------------------------------
(* What is found from a node on along `next`: the least set of nodes that   *)
(* has it and the next one of each of its nodes.                            *)
Closed(S, head, next) ==
  head \in S \union {NoNode} /\ \A n \in S : next[n] \in S \union {NoNode}

Reach(head, next) ==
  {n \in FreeListNodes : \A S \in SUBSET FreeListNodes : Closed(S, head, next) => n \in S}

(* The nodes on the list.                                                   *)
Chain == Reach(freeListHead, freeListNext)

(* Nodes a thread popped and of which it still drops the references.        *)
Popped(t) == IF flAt[t] = "drop two" THEN {flLocal[t].head} ELSE {}

(* A block is handed to one thread, and never while it is on the list or    *)
(* about to be put there (the assertion of try_get): two producers never    *)
(* fill the same block.  And none is forgotten: when no call is under way,  *)
(* every node is owned or on the list, although the push may have been left *)
(* to another thread.                                                       *)
NodesKept ==
  /\ \A t, u \in FreeListThreads :
       t # u => (flOwned[t] \union Popped(t)) \intersect (flOwned[u] \union Popped(u)) = {}
  /\ \A t \in FreeListThreads :
       /\ (flOwned[t] \union Popped(t)) \intersect Chain = {}
       /\ flAt[t] = "drop two" => freeListRefs[flLocal[t].head] < ShouldBeOnFreeList
  /\ (\A t \in FreeListThreads : flAt[t] = "idle") =>
       FreeListNodes = Chain \union UNION {flOwned[t] : t \in FreeListThreads}

(* The list is lock-free: of threads that are all inside add or try_get one *)
(* returns, whichever of them is scheduled.                                 *)
FreeListLockFree ==
  (\A t \in FreeListThreads : flAt[t] # "idle") ~> (\E t \in FreeListThreads : flAt[t] = "idle")
=============================================================================

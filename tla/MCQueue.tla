------------------------------ MODULE MCQueue ------------------------------
(* The parts of the concurrent queue, model-checked one at a time: `part`   *)
(* says which one runs, the others stay where they started.                 *)
EXTENDS TLC, FreeList, ImplicitProducer, ExplicitProducer, ProducerHash, Dequeue

(* Two consumers that contend for three elements around the wrap of the     *)
(* indices, and one with a producer that fills the queue in bulk.           *)
MCLoads ==
  {[start |-> 14, consumers |-> Consumers, items |-> 2, bulk |-> {1, 2}],
   [start |-> 14, consumers |-> Consumers, items |-> 3, bulk |-> {1}],
   [start |-> 12, consumers |-> {"c1"}, items |-> 7, bulk |-> {3, 4}]}

(* Two threads collide in the hash tables; three of them resize at once, or *)
(* memory runs out, or two tokens and a thread contend for the list.        *)
MCHashedId == [t \in HashThreads |-> IF t = "t3" THEN 1 ELSE 0]
Calls(t1, t2, t3, u1, u2) ==
  ("t1" :> t1) @@ ("t2" :> t2) @@ ("t3" :> t3) @@ ("u1" :> u1) @@ ("u2" :> u2)
MCHashLoads ==
  {[calls |-> Calls(1, 1, 1, 0, 0), failures |-> 0],
   [calls |-> Calls(2, 2, 0, 0, 0), failures |-> 1],
   [calls |-> Calls(0, 1, 0, 2, 1), failures |-> 1]}

(* More producers than the scan scores, and the token with and without      *)
(* other consumers.                                                         *)
MCDequeueLoads ==
  LET L(tok, blk, prods, sz, oth) ==
        [token |-> tok, bulk |-> blk, producers |-> prods, size |-> sz, others |-> oth]
  IN  {L(FALSE, 1, 4, 1, TRUE), L(FALSE, 2, 2, 2, TRUE), L(TRUE, 1, 2, 1, TRUE),
       L(TRUE, 1, 2, 1, FALSE), L(TRUE, 2, 2, 2, FALSE)}

VARIABLE part

QueueVars == <<part, freeListVars, baseVars, indexVars, ringVars, hashVars, dequeueVars>>

(* A part that does not run starts in one state, in which what it must      *)
(* eventually do is done.                                                   *)
FreeListOff == \E t \in FreeListThreads : flOwned[t] = FreeListNodes /\ t = CHOOSE u \in FreeListThreads : TRUE
ProducerOff == load = CHOOSE l \in Loads : TRUE
HashOff == failuresLeft = 0 /\ hashCalls = (CHOOSE l \in HashLoads : l.failures = 0).calls
DequeueOff == dequeueLoad = CHOOSE l \in DequeueLoads : ~l.token

Init ==
  /\ part \in {"free list", "implicit", "explicit", "hash", "dequeue"}
  /\ FreeListInit /\ (part = "free list" \/ FreeListOff)
  /\ IF part = "explicit" THEN ExplicitInit /\ IndexInit ELSE ImplicitInit /\ RingInit
  /\ part \in {"implicit", "explicit"} \/ ProducerOff
  /\ HashInit /\ (part = "hash" \/ HashOff)
  /\ DequeueInit /\ (part = "dequeue" \/ DequeueOff)

FreeListPart(A) ==
  /\ part = "free list" /\ A
  /\ UNCHANGED <<part, baseVars, indexVars, ringVars, hashVars, dequeueVars>>
ImplicitPart(A) ==
  /\ part = "implicit" /\ A
  /\ UNCHANGED <<part, freeListVars, ringVars, hashVars, dequeueVars>>
ExplicitPart(A) ==
  /\ part = "explicit" /\ A
  /\ UNCHANGED <<part, freeListVars, indexVars, hashVars, dequeueVars>>
HashPart(A) ==
  /\ part = "hash" /\ A
  /\ UNCHANGED <<part, freeListVars, baseVars, indexVars, ringVars, dequeueVars>>
DequeuePart(A) ==
  /\ part = "dequeue" /\ A
  /\ UNCHANGED <<part, freeListVars, baseVars, indexVars, ringVars, hashVars>>

Next ==
  \/ FreeListPart(FreeListNextState)
  \/ ImplicitPart(ImplicitNext) \/ ExplicitPart(ExplicitNext)
  \/ HashPart(HashNext) \/ DequeuePart(DequeueNext)

(* The parts exclude each other, so that fairness of a disjunction of their *)
(* threads is fairness of each: somebody inside the free list, the          *)
(* consumers inside a call, the caller of try_dequeue.                      *)
Dequeuing(c) ==
  \/ ImplicitPart(dqAt[c] # "idle" /\ ConsumerStep(c))
  \/ ExplicitPart(dqAt[c] # "idle" /\ XConsumerStep(c))
Fair ==
  /\ WF_QueueVars(FreeListPart(FreeListRuns) \/ DequeuePart(DequeueCaller) \/ Dequeuing("c1"))
  /\ WF_QueueVars(Dequeuing("c2"))

Spec == Init /\ [][Next]_QueueVars /\ Fair
=============================================================================

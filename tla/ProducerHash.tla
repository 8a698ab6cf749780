---------------------------- MODULE ProducerHash ----------------------------
(* Who gets which producer of the queue: the list of producers, which those *)
(* of destroyed tokens go back to, and the hash tables in which a thread    *)
(* without a token finds the producer it was given first                    *)
(* (get_or_add_implicit_producer).  A table is never emptied: a larger one  *)
(* is put in front of it.  Every step is one access to shared memory.       *)
(* MOODYCAMEL_CPP11_THREAD_LOCAL_SUPPORTED is not defined in this build, so *)
(* that the end of a thread is not noticed.                                 *)
EXTENDS Integers, Sequences, FiniteSets

CONSTANTS
  HashThreads,    \* threads that enqueue without a token
  TokenThreads,   \* threads that make and destroy a token
  HashedId,       \* hash_thread_id of every thread
  HashLoads       \* bounds on the calls of every thread and on failing
                  \* allocations, one load per behaviour

NoThread == "invalid_thread_id"
InitialHashSize == 2
Threads == HashThreads \union TokenThreads

ASSUME HashConstants ==
  /\ IsFiniteSet(Threads) /\ NoThread \notin Threads
  /\ HashThreads \intersect TokenThreads = {}
  /\ HashedId \in [HashThreads -> Nat] /\ HashLoads \subseteq [calls : [Threads -> Nat], failures : Nat]

VARIABLES
  producers,   \* the list, oldest first: kind and whether it may be taken
  tables,      \* the hash tables, oldest first; the last is the current one
  hashCount,   \* implicitProducerHashCount
  resizing,    \* implicitProducerHashResizeInProgress
  hashAt,      \* the next access of every thread, "idle" between two calls
  hashLocal,   \* the locals of its call
  hashCalls,   \* the calls a thread may still make
  failuresLeft,
  acquired          \* every producer a thread was given, or its token holds

hashVars == <<producers, tables, hashCount, resizing, hashAt, hashLocal,
              hashCalls, failuresLeft, acquired>>
sharedHash == <<producers, tables, hashCount, resizing>>
historyHash == <<hashCalls, failuresLeft, acquired>>

EmptyTable(capacity) == [i \in 0 .. capacity - 1 |-> [key |-> NoThread, value |-> 0]]
Capacity(table) == Cardinality(DOMAIN table)
(* Where the probing for a thread looks after `steps` occupied slots.       *)
Slot(table, t, steps) == (HashedId[t] + steps) % Capacity(table)

Blank == [main |-> 0, table |-> 0, steps |-> 0, newCount |-> 0, ptr |-> 0, value |-> 0]

HashInit ==
  /\ producers = <<>> /\ tables = <<EmptyTable(InitialHashSize)>>
  /\ hashCount = 0 /\ resizing = FALSE
  /\ hashAt = [t \in Threads |-> "idle"] /\ hashLocal = [t \in Threads |-> Blank]
  /\ \E l \in HashLoads : hashCalls = l.calls /\ failuresLeft = l.failures
  /\ acquired = [t \in Threads |-> {}]

GoHash(t, at, local) ==
  /\ hashAt' = [hashAt EXCEPT ![t] = at]
  /\ hashLocal' = [hashLocal EXCEPT ![t] = local]
(* The call returns producer p, 0 for nullptr.                              *)
Give(t, p) ==
  /\ GoHash(t, "idle", Blank)
  /\ acquired' = [acquired EXCEPT ![t] = @ \union ({p} \ {0})]
  /\ UNCHANGED <<hashCalls, failuresLeft>>

-----------------------------------------------------------------------------
(* get_or_add_implicit_producer: the look-up in the current table and the   *)
(* ones before it.                                                          *)
GetOrAdd(t) ==
  /\ hashAt[t] = "idle" /\ hashCalls[t] > 0
  /\ hashCalls' = [hashCalls EXCEPT ![t] = @ - 1]
  /\ GoHash(t, "probe", [Blank EXCEPT !.main = Len(tables), !.table = Len(tables)])
  /\ UNCHANGED <<sharedHash, failuresLeft, acquired>>

(* Variant: only the current table is searched.                             *)
OlderTable_None(l) == 0

(* The table before table l.table, 0 if there is none.                      *)
OlderTable(l) == l.table - 1

Probe(t) ==
  /\ hashAt[t] = "probe"
  /\ LET l == hashLocal[t]
         table == tables[l.table]
         entry == table[Slot(table, t, l.steps)]
     IN  CASE entry.key = t /\ l.table = l.main -> Give(t, entry.value)
           [] entry.key = t /\ l.table # l.main ->
                /\ GoHash(t, "insert", [l EXCEPT !.steps = 0, !.value = entry.value])
                /\ UNCHANGED historyHash
           [] entry.key = NoThread ->
                /\ IF OlderTable(l) # 0
                   THEN GoHash(t, "probe", [l EXCEPT !.table = OlderTable(l), !.steps = 0])
                   ELSE GoHash(t, "count", [l EXCEPT !.steps = 0])
                /\ UNCHANGED historyHash
           [] OTHER ->
                /\ GoHash(t, "probe", [l EXCEPT !.steps = @ + 1])
                /\ UNCHANGED historyHash
  /\ UNCHANGED sharedHash

Count(t) ==
  /\ hashAt[t] = "count"
  /\ hashCount' = hashCount + 1
  /\ GoHash(t, "resize?", [hashLocal[t] EXCEPT !.newCount = hashCount + 1])
  /\ UNCHANGED <<producers, tables, resizing, historyHash>>

(* The thread that takes the flag makes the next table.                     *)
HalfFull(t, table) == hashLocal[t].newCount >= Capacity(tables[table]) \div 2
TryResize(t) ==
  /\ hashAt[t] = "resize?"
  /\ IF HalfFull(t, hashLocal[t].main)
     THEN /\ resizing' = TRUE
          /\ GoHash(t, IF resizing THEN "room" ELSE "resize", hashLocal[t])
     ELSE /\ GoHash(t, "room", hashLocal[t]) /\ UNCHANGED resizing
  /\ UNCHANGED <<producers, tables, hashCount, historyHash>>

(* The smallest doubling that the count does not fill by half, which is     *)
(* twice the capacity or filled by a quarter.                               *)
NewCapacity(t) ==
  LET capacity == Capacity(tables[Len(tables)])
      count == hashLocal[t].newCount
      Enough(n) == count < n \div 2 /\ \E k \in 1 .. count + 1 : n = capacity * 2^k
  IN  {n \in 1 .. 4 * (capacity + count) : Enough(n) /\ \A m \in 1 .. n - 1 : ~Enough(m)}
Resize(t) ==
  /\ hashAt[t] = "resize"
  /\ IF HalfFull(t, Len(tables))
     THEN \E n \in NewCapacity(t) : tables' = Append(tables, EmptyTable(n))
     ELSE UNCHANGED tables
  /\ GoHash(t, "unlock", [hashLocal[t] EXCEPT !.main = Len(tables')])
  /\ UNCHANGED <<producers, hashCount, resizing, historyHash>>

Unlock(t) ==
  /\ hashAt[t] = "unlock"
  /\ resizing' = FALSE
  /\ GoHash(t, "room", hashLocal[t])
  /\ UNCHANGED <<producers, tables, hashCount, historyHash>>

Fail == failuresLeft > 0 /\ failuresLeft' = failuresLeft - 1 /\ UNCHANGED <<hashCalls, acquired>>

Unflag == resizing' = FALSE

(* The allocation of the table fails: the call does, and others may retry.  *)
ResizeFails(t) ==
  /\ hashAt[t] = "resize" /\ HalfFull(t, Len(tables)) /\ Fail
  /\ hashCount' = hashCount - 1 /\ Unflag
  /\ GoHash(t, "idle", Blank)
  /\ UNCHANGED <<producers, tables>>

(* Below three quarters the thread goes on with the table it has; else it   *)
(* waits for the one that allocates.                                        *)
Room(t) ==
  /\ hashAt[t] = "room"
  /\ LET capacity == Capacity(tables[hashLocal[t].main]) IN
       IF hashLocal[t].newCount < (capacity \div 2) + (capacity \div 4)
       THEN GoHash(t, "look", [hashLocal[t] EXCEPT !.ptr = Len(producers)])
       ELSE GoHash(t, "resize?", [hashLocal[t] EXCEPT !.main = Len(tables)])
  /\ UNCHANGED <<sharedHash, historyHash>>

-----------------------------------------------------------------------------
(* recycle_or_create_producer: the first inactive producer of the kind is   *)
(* taken over, unless somebody was faster; else a new one joins the list.   *)
MakeToken(t) ==
  /\ hashAt[t] = "idle" /\ acquired[t] = {} /\ hashCalls[t] > 0
  /\ hashCalls' = [hashCalls EXCEPT ![t] = @ - 1]
  /\ GoHash(t, "look", [Blank EXCEPT !.ptr = Len(producers)])
  /\ UNCHANGED <<sharedHash, failuresLeft, acquired>>

Look(t) ==
  /\ hashAt[t] = "look"
  /\ LET l == hashLocal[t] IN
       CASE l.ptr = 0 -> GoHash(t, "create", l)
         [] l.ptr # 0 /\ producers[l.ptr].inactive
              /\ producers[l.ptr].isExplicit = (t \in TokenThreads) -> GoHash(t, "catch", l)
         [] OTHER -> GoHash(t, "look", [l EXCEPT !.ptr = @ - 1])
  /\ UNCHANGED <<sharedHash, historyHash>>

(* Only a token's producer is ever inactive here, so that no thread without *)
(* one comes to "catch" and has its count taken back.                       *)
Catch(t) ==
  /\ hashAt[t] = "catch"
  /\ LET l == hashLocal[t] IN
       IF producers[l.ptr].inactive
       THEN /\ producers' = [producers EXCEPT ![l.ptr].inactive = FALSE]
            /\ Give(t, l.ptr)
       ELSE /\ GoHash(t, "look", [l EXCEPT !.ptr = @ - 1])
            /\ UNCHANGED <<producers, historyHash>>
  /\ UNCHANGED <<tables, hashCount, resizing>>

CreateProducer(t) ==
  /\ hashAt[t] = "create"
  /\ producers' = Append(producers, [isExplicit |-> t \in TokenThreads, inactive |-> FALSE])
  /\ IF t \in TokenThreads THEN Give(t, Len(producers'))
     ELSE /\ GoHash(t, "insert", [hashLocal[t] EXCEPT !.value = Len(producers'), !.steps = 0])
          /\ UNCHANGED historyHash
  /\ UNCHANGED <<tables, hashCount, resizing>>

CreateFails(t) ==
  /\ hashAt[t] = "create" /\ Fail
  /\ hashCount' = IF t \in TokenThreads THEN hashCount ELSE hashCount - 1
  /\ GoHash(t, "idle", Blank)
  /\ UNCHANGED <<producers, tables, resizing>>

(* A free slot of the table the thread took for the current one becomes     *)
(* its own: that of a new producer, or of one found in an older table.      *)
Insert(t) ==
  /\ hashAt[t] = "insert"
  /\ LET l == hashLocal[t]
         slot == Slot(tables[l.main], t, l.steps)
     IN  IF tables[l.main][slot].key # NoThread
         THEN /\ GoHash(t, "insert", [l EXCEPT !.steps = @ + 1])
              /\ UNCHANGED <<tables, historyHash>>
         ELSE /\ tables' = [tables EXCEPT ![l.main][slot] = [key |-> t, value |-> l.value]]
              /\ Give(t, l.value)
  /\ UNCHANGED <<producers, hashCount, resizing>>

(* The destructor of the token gives the producer back.                     *)
DropToken(t) ==
  /\ hashAt[t] = "idle" /\ acquired[t] # {}
  /\ \E p \in acquired[t] : producers' = [producers EXCEPT ![p].inactive = TRUE]
  /\ acquired' = [acquired EXCEPT ![t] = {}]
  /\ UNCHANGED <<tables, hashCount, resizing, hashAt, hashLocal, hashCalls, failuresLeft>>

-----------------------------------------------------------------------------
InCall(t) ==
  \/ t \in HashThreads /\ (Probe(t) \/ Count(t) \/ Insert(t))
  \/ TryResize(t) \/ Resize(t) \/ ResizeFails(t) \/ Unlock(t) \/ Room(t)
  \/ Look(t) \/ Catch(t) \/ CreateProducer(t) \/ CreateFails(t)

HashNext ==
  \/ \E t \in HashThreads : GetOrAdd(t)
  \/ \E t \in TokenThreads : MakeToken(t) \/ DropToken(t)
  \/ \E t \in Threads : InCall(t)

HashSpec == HashInit /\ [][HashNext]_hashVars

-----------------------------------------------------------------------------
(* Sub-queues have one producer: whatever tables a thread looks in and      *)
(* whoever resizes, it is given one producer only, and neither another      *)
(* thread nor a token is given the same (get_or_add_implicit_producer).     *)
OwnProducer ==
  /\ \A t \in Threads : Cardinality(acquired[t]) =< 1
  /\ \A t, u \in Threads : t # u => acquired[t] \intersect acquired[u] = {}

=============================================================================

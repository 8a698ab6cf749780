------------------------------- MODULE Dequeue -------------------------------
(* How a consumer finds a producer with elements: try_dequeue, with a token *)
(* or without, its bulk and non-interleaved forms, and the rotation of the  *)
(* tokens.  A producer is its number of elements and whether other          *)
(* consumers have claims on it that are neither served nor given back       *)
(* (ProducerBase has the steps); the list, the two ends of a producer and   *)
(* the offset are read one at a time while others enqueue and dequeue.      *)
EXTENDS Integers, Sequences, FiniteSets

CONSTANTS
  DequeueLoads,   \* how the consumer calls and what the others may do
  Quota,          \* EXPLICIT_CONSUMER_CONSUMPTION_QUOTA_BEFORE_ROTATE
  OffsetMod       \* 2^32: the range of the offsets

(* `token`: the consumer has one; `bulk`: the elements it asks for, always  *)
(* the same; `producers`, `size`: bounds; `others`: whether other consumers *)
(* take elements and rotate the tokens.                                     *)
DequeueLoad == [token : BOOLEAN, bulk : Nat \ {0}, producers : Nat, size : Nat, others : BOOLEAN]

ASSUME DequeueConstants ==
  /\ DequeueLoads \subseteq DequeueLoad
  /\ Quota \in Nat \ {0} /\ OffsetMod \in Nat \ {0}
  /\ \A l \in DequeueLoads : l.token => l.producers < OffsetMod

VARIABLES
  sizes,         \* the elements of every producer, in the order they joined
  claimed,       \* the producers other consumers have claims on under way
  producerCount, \* counted before it joins the list
  globalOffset,  \* globalExplicitConsumerOffset
  token,         \* the ConsumerToken
  dequeueLoad,   \* the load of the behaviour
  findAt,        \* the consumer's next access, "idle" between calls
  find,          \* the locals of its call; `want` stays after it
  findable,      \* those with elements and unclaimed ever since the call began
  served         \* the producer it took elements from last, if nobody else does

bulk == dequeueLoad.bulk
dequeueVars ==
  <<sizes, claimed, producerCount, globalOffset, token, dequeueLoad, findAt, find, findable, served>>

NotCalled == [ptr |-> 0, best |-> 0, bestSize |-> 0, count |-> 0, tail |-> 0, want |-> 0]

(* The other consumers' tokens were made first and took the first offset.   *)
DequeueInit ==
  /\ sizes = <<>> /\ claimed = {} /\ producerCount = 0 /\ globalOffset = 0
  /\ dequeueLoad \in DequeueLoads
  /\ token = [initial |-> IF dequeueLoad.others THEN 1 ELSE 0, lastKnown |-> OffsetMod - 1,
              consumed |-> 0, current |-> 0, desired |-> 0]
  /\ findAt = "idle" /\ find = NotCalled
  /\ findable = {} /\ served = 0

(* Another thread counts a producer, and then puts it on the list.          *)
CountProducer ==
  /\ producerCount < dequeueLoad.producers /\ producerCount' = producerCount + 1
  /\ UNCHANGED <<sizes, claimed, globalOffset, token, dequeueLoad, findAt, find, findable, served>>
LinkProducer ==
  /\ Len(sizes) < producerCount /\ sizes' = Append(sizes, 0)
  /\ UNCHANGED <<claimed, producerCount, globalOffset, token, dequeueLoad, findAt, find, findable, served>>
EnqueueOn(p) ==
  /\ sizes[p] < dequeueLoad.size /\ sizes' = [sizes EXCEPT ![p] = @ + 1]
  /\ UNCHANGED <<claimed, producerCount, globalOffset, token, dequeueLoad, findAt, find, findable, served>>
NextOffset == (globalOffset + 1) % OffsetMod

(* try_dequeue_from_producer, or whatever else other consumers call on one  *)
(* producer: they count themselves in, take elements or find more claims    *)
(* than elements, and are through.                                          *)
OtherClaims(p) ==
  /\ dequeueLoad.others
  /\ claimed' = claimed \union {p} /\ findable' = findable \ {p}
  /\ UNCHANGED <<sizes, producerCount, globalOffset, token, dequeueLoad, findAt, find, served>>
OtherLeaves(p) ==
  /\ p \in claimed /\ claimed' = claimed \ {p}
  /\ UNCHANGED <<sizes, producerCount, globalOffset, token, dequeueLoad, findAt, find, findable, served>>

(* One of them takes an element, and may be the one that rotates the        *)
(* tokens (bound: not 2^32 times between two calls of the consumer).  A     *)
(* tail that the consumer has loaded is as much nearer to the head.         *)
Smaller(a, b) == IF a < b THEN a ELSE b
OtherTakes(p) ==
  /\ p \in claimed /\ sizes[p] > 0
  /\ sizes' = [sizes EXCEPT ![p] = @ - 1]
  /\ find' = IF findAt = "head" /\ find.ptr = p
             THEN [find EXCEPT !.tail = @ - Smaller(@, 1)] ELSE find
  /\ globalOffset' \in
       {globalOffset} \union {o \in {NextOffset} : (token.lastKnown - o) % OffsetMod > 1}
  /\ UNCHANGED <<claimed, producerCount, token, dequeueLoad, findAt, findable, served>>

(* dequeue and dequeue_bulk of producer p for `want` elements: what is      *)
(* there, up to `want`.  While others have claims under way, any part of it *)
(* or nothing: claims that will be given back count as elements taken, and  *)
(* the overcommit may have been loaded before they were.                    *)
Dequeued(p, want) ==
  LET most == Smaller(sizes[p], want) IN IF p \in claimed THEN 0 .. most ELSE {most}

TakeFrom(p, n) ==
  /\ sizes' = [sizes EXCEPT ![p] = @ - n]
  /\ findable' = IF n = sizes[p] THEN findable \ {p} ELSE findable
  /\ served' = IF n = 0 \/ dequeueLoad.others THEN served ELSE p

Find(at, local) ==
  /\ findAt' = at
  /\ find' = IF at = "idle" THEN [NotCalled EXCEPT !.want = local.want] ELSE local

StartFind(at) ==
  /\ findAt = "idle"
  /\ Find(at, [NotCalled EXCEPT !.ptr = Len(sizes), !.want = bulk])
  /\ findable' = {p \in DOMAIN sizes \ claimed : sizes[p] > 0}
  /\ UNCHANGED <<sizes, claimed, producerCount, globalOffset, token, dequeueLoad, served>>

-----------------------------------------------------------------------------
(* Without a token: the largest of the first three that have elements, and  *)
(* then all the others.                                                     *)
TryDequeue == ~dequeueLoad.token /\ bulk = 1 /\ StartFind("score")
(* try_dequeue_non_interleaved, try_dequeue_bulk.                           *)
TryDequeueInOrder == ~dequeueLoad.token /\ StartFind("rest")

(* size_approx loads the tail and then the head: `find.tail` is the one     *)
(* counted from the other.                                                  *)
ScoreTail ==
  /\ findAt = "score"
  /\ LET f == find IN
       IF f.ptr = 0 \/ f.count = 3
       THEN Find(IF f.count = 0 THEN "idle" ELSE "best", f)
       ELSE Find("head", [f EXCEPT !.tail = sizes[f.ptr]])
  /\ UNCHANGED <<sizes, claimed, producerCount, globalOffset, token, dequeueLoad, findable, served>>
Score ==
  /\ findAt = "head"
  /\ LET size == find.tail IN
       Find("score", [find EXCEPT !.ptr = @ - 1,
                                  !.count = IF size > 0 THEN @ + 1 ELSE @,
                                  !.best = IF size > find.bestSize THEN find.ptr ELSE @,
                                  !.bestSize = IF size > @ THEN size ELSE @])
  /\ UNCHANGED <<sizes, claimed, producerCount, globalOffset, token, dequeueLoad, findable, served>>

(* Variant: an empty best producer is taken for an empty queue.             *)
AfterBest_GivesUp == Find("idle", find)

(* The one chosen is empty by now: every queue must have been tried.        *)
AfterBest == Find("rest", [find EXCEPT !.ptr = Len(sizes)])

Best ==
  /\ findAt = "best"
  /\ \E n \in Dequeued(find.best, 1) :
       /\ TakeFrom(find.best, n)
       /\ IF n = 1 THEN Find("idle", [find EXCEPT !.want = 0]) ELSE AfterBest
  /\ UNCHANGED <<claimed, producerCount, globalOffset, token, dequeueLoad>>

Rest ==
  /\ findAt = "rest"
  /\ LET f == find IN
       IF f.ptr = 0 \/ f.ptr = f.best
       THEN /\ Find(IF f.ptr = 0 THEN "idle" ELSE "rest",
                    IF f.ptr = 0 THEN f ELSE [f EXCEPT !.ptr = @ - 1])
            /\ UNCHANGED <<sizes, findable, served>>
       ELSE \E n \in Dequeued(f.ptr, f.want) :
              /\ TakeFrom(f.ptr, n)
              /\ Find(IF n = f.want THEN "idle" ELSE "rest",
                      [f EXCEPT !.ptr = @ - 1, !.want = @ - n])
  /\ UNCHANGED <<claimed, producerCount, globalOffset, token, dequeueLoad>>

-----------------------------------------------------------------------------
(* With a token.  `Around` is the producer n places on in the circle that   *)
(* next_prod makes of the list up to `tail`.                                *)
Around(p, n, tail) == ((p - 1 - n) % tail) + 1

TryDequeueToken == dequeueLoad.token /\ StartFind("offset")

CheckOffset ==
  /\ findAt = "offset"
  /\ Find(IF token.desired = 0 \/ token.lastKnown # globalOffset
             THEN "tail" ELSE "current", find)
  /\ UNCHANGED <<sizes, claimed, producerCount, globalOffset, token, dequeueLoad, findable, served>>

(* update_current_producer_after_rotation.                                  *)
RotationTail ==
  /\ findAt = "tail"
  /\ Find(IF token.desired = 0 /\ sizes = <<>> THEN "idle" ELSE "count",
          [find EXCEPT !.tail = Len(sizes)])
  /\ UNCHANGED <<sizes, claimed, producerCount, globalOffset, token, dequeueLoad, findable, served>>
RotationCount ==
  /\ findAt = "count"
  /\ Find("rotate", [find EXCEPT !.count = producerCount])
  /\ UNCHANGED <<sizes, claimed, producerCount, globalOffset, token, dequeueLoad, findable, served>>

(* Variant: a token follows no rotation after its first place.              *)
Rotations_None == 0

(* The rotations since the token looked, reduced if they are a whole round. *)
Rotations ==
  LET delta == (globalOffset - token.lastKnown) % OffsetMod IN
  IF delta >= find.count THEN delta % find.count ELSE delta

Rotate ==
  /\ findAt = "rotate"
  /\ LET f == find
         first == Around(f.tail, f.count - 1 - (token.initial % f.count), f.tail)
         place == Around(IF token.desired = 0 THEN first ELSE token.desired,
                         Rotations, f.tail)
     IN  token' = [token EXCEPT !.desired = place, !.current = place,
                                                 !.lastKnown = globalOffset, !.consumed = 0]
  /\ Find("current", find)
  /\ UNCHANGED <<sizes, claimed, producerCount, globalOffset, dequeueLoad, findable, served>>

(* The count is compared by == for one element, by >= for several, where it *)
(* is cut at the quota here.                                                *)
Consumed(n) ==
  IF bulk = 1 THEN token.consumed + n ELSE Smaller(Quota, token.consumed + n)

TakeCurrent ==
  /\ findAt = "current"
  /\ \E n \in Dequeued(token.current, find.want) :
       /\ TakeFrom(token.current, n)
       /\ token' = [token EXCEPT !.consumed = Consumed(n)]
       /\ Find(CASE n # find.want -> "next"
                 [] n = find.want /\ Consumed(n) = Quota -> "announce"
                 [] OTHER -> "idle",
               [find EXCEPT !.want = @ - n])
  /\ UNCHANGED <<claimed, producerCount, globalOffset, dequeueLoad>>

Announce ==
  /\ findAt = "announce"
  /\ globalOffset' = NextOffset
  /\ Find("idle", find)
  /\ UNCHANGED <<sizes, claimed, producerCount, token, dequeueLoad, findable, served>>

(* The others, round the circle until the current producer comes again,     *)
(* which is the last one that had something.                                *)
OthersTail ==
  /\ findAt = "next"
  /\ Find("others", [find EXCEPT !.tail = Len(sizes),
                                       !.ptr = Around(token.current, 1, Len(sizes))])
  /\ UNCHANGED <<sizes, claimed, producerCount, globalOffset, token, dequeueLoad, findable, served>>

TakeOther ==
  /\ findAt = "others"
  /\ LET f == find IN
       IF f.ptr = token.current
       THEN Find("idle", f) /\ UNCHANGED <<sizes, findable, served, token>>
       ELSE \E n \in Dequeued(f.ptr, f.want) :
              /\ TakeFrom(f.ptr, n)
              /\ token' = IF n = 0 THEN token
                          ELSE [token EXCEPT !.current = f.ptr, !.consumed = n]
              /\ Find(IF n = f.want THEN "idle" ELSE "others",
                      [f EXCEPT !.want = @ - n, !.ptr = Around(@, 1, f.tail)])
  /\ UNCHANGED <<claimed, producerCount, globalOffset, dequeueLoad>>

-----------------------------------------------------------------------------
FindStep ==
  \/ ScoreTail \/ Score \/ Best \/ Rest
  \/ CheckOffset \/ RotationTail \/ RotationCount \/ Rotate
  \/ TakeCurrent \/ Announce \/ OthersTail \/ TakeOther

(* The consumer keeps asking.                                               *)
DequeueCaller == TryDequeue \/ TryDequeueInOrder \/ TryDequeueToken \/ FindStep

DequeueNext ==
  \/ CountProducer \/ LinkProducer
  \/ \E p \in DOMAIN sizes :
       EnqueueOn(p) \/ OtherClaims(p) \/ OtherLeaves(p) \/ OtherTakes(p)
  \/ DequeueCaller

DequeueSpec == DequeueInit /\ [][DequeueNext]_dequeueVars /\ WF_dequeueVars(DequeueCaller)

-----------------------------------------------------------------------------
(* "Returns false if all producer streams appeared empty at the time they   *)
(* were checked": a producer that has elements all through a call, and that *)
(* no other consumer has a claim on meanwhile, does not appear empty.  So a *)
(* call that comes back with less than it wanted has found every producer   *)
(* empty or contended once, in whatever order it scored, rotated or went    *)
(* round them while others changed the list under it; the only consumer of  *)
(* the queue has found every producer empty once.  Contended ones are left  *)
(* out because the code does miss those: a claim that found nothing hides   *)
(* an element enqueued after it until it has been given back.               *)
NothingOverlooked ==
  findAt = "idle" /\ find.want > 0 => findable = {}

(* The rotation is what keeps a producer that is always full from hiding    *)
(* the others: with one token in use, whose owner always asks for the same  *)
(* number of elements, each producer is served again or empty.              *)
NoneStarved ==
  dequeueLoad.token /\ ~dequeueLoad.others =>
    \A p \in UNION {1 .. l.producers : l \in {k \in DequeueLoads : k.token}} :
       []<>(p \notin DOMAIN sizes \/ sizes[p] = 0 \/ served = p)
=============================================================================

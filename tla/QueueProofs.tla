----------------------------- MODULE QueueProofs -----------------------------
(* Proofs about the concurrent queue: a consumer's search for an element,   *)
(* the hash tables and the list of producers, the list of free blocks, and  *)
(* what is read from the sub-queue of a thread without a token.             *)
EXTENDS Dequeue, ProducerHash, FreeList, ImplicitProducerProofs, FiniteSetTheorems, TLAPS

-----------------------------------------------------------------------------
(* What a consumer finds (Dequeue).                                         *)

(* What a consumer with a token does next.                                  *)
Tokened == {"offset", "tail", "count", "rotate", "current", "announce", "next", "others"}

(* The locals of the consumer's call.                                       *)
Locals ==
  [ptr : Nat, best : Nat, bestSize : Nat, count : Nat, tail : Nat, want : Nat]

(* A consumer token.                                                        *)
Token == [initial : {0, 1}, lastKnown : Nat, consumed : Nat, current : Nat, desired : Nat]

(* What the variables of the consumer's search hold.                        *)
DequeueTypes ==
  /\ sizes \in Seq(Nat) /\ producerCount \in Nat /\ Len(sizes) =< producerCount
  /\ globalOffset \in Nat /\ dequeueLoad \in DequeueLoad
  /\ token \in Token /\ find \in Locals
  /\ findAt \in {"idle", "score", "head", "best", "rest"} \cup Tokened

(* A token is sent to a producer, and reads from one, together.             *)
TokenInv ==
  /\ token.desired =< Len(sizes) /\ token.current =< Len(sizes)
  /\ token.desired = 0 <=> token.current = 0

(* The producers the search with a token has left behind, when it started   *)
(* at c and is at `at`: it goes from a producer to the one after it in the  *)
(* list, which is the next older one, and from the oldest to the newest.    *)
Passed(c, at) ==
  IF at < c THEN {p \in Nat : at < p /\ p =< c} ELSE {p \in Nat : p =< c \/ at < p}

(* A producer that the search must find has elements, and no claims.        *)
ElementsInv == \A p \in findable : p \in 1 .. Len(sizes) /\ sizes[p] > 0 /\ p \notin claimed

(* How far the search is: the producers that have had elements, unclaimed   *)
(* by others, since before the call are none of those it has looked at.     *)
SearchInv ==
  /\ ElementsInv
  /\ findAt \notin {"idle", "announce"} => find.want > 0
  /\ findAt = "announce" => find.want = 0
  /\ findAt \in {"score", "rest"} => find.ptr =< Len(sizes)
  /\ findAt = "head" => find.ptr \in 1 .. Len(sizes) /\ (find.ptr \in findable => find.tail > 0)
  /\ findAt \in {"score", "head"} =>
       IF find.count = 0 THEN find.bestSize = 0 /\ \A p \in findable : p =< find.ptr
       ELSE find.bestSize > 0 /\ find.best \in 1 .. Len(sizes)
  /\ findAt = "best" => find.best \in 1 .. Len(sizes)
  /\ findAt = "rest" => \A p \in findable : p =< find.ptr /\ p # find.best
  /\ findAt \in {"count", "rotate"} => find.tail \in 1 .. Len(sizes)
  /\ findAt = "rotate" => find.tail =< find.count
  /\ findAt \in {"current", "next", "others"} => token.current # 0
  /\ findAt = "next" => token.current \notin findable
  /\ findAt = "others" =>
       /\ token.current =< find.tail /\ find.tail =< Len(sizes) /\ find.ptr \in 1 .. find.tail
       /\ \A p \in findable : p =< find.tail /\ p \notin Passed(token.current, find.ptr)

(* The inductive invariant of Dequeue.                                      *)
DequeueInv == DequeueTypes /\ TokenInv /\ SearchInv /\ NothingOverlooked

(* The producer after another one is the next older one, or the newest.     *)
LEMMA StepBack ==
  ASSUME NEW t \in Nat \ {0}, NEW p \in 1 .. t
  PROVE  Around(p, 1, t) = IF p = 1 THEN t ELSE p - 1
BY DEF Around

(* A token is rotated to a producer of the list.                            *)
LEMMA AroundIn ==
  ASSUME NEW t \in Nat \ {0}, NEW p \in Int, NEW n \in Int
  PROVE  Around(p, n, t) \in 1 .. t
BY DEF Around

(* What a remainder is.                                                     *)
LEMMA ModIn ==
  ASSUME NEW a \in Int, NEW b \in Nat \ {0}
  PROVE  a % b \in Nat /\ a % b < b
OBVIOUS

(* Elements taken from a producer: nothing else is emptied, and it is if    *)
(* all were taken.                                                          *)
LEMMA TakeEffect ==
  ASSUME sizes \in Seq(Nat), ElementsInv, NEW p \in 1 .. Len(sizes), NEW n \in Nat, n =< sizes[p],
         TakeFrom(p, n), UNCHANGED claimed
  PROVE  /\ sizes' \in Seq(Nat) /\ Len(sizes') = Len(sizes)
         /\ ElementsInv'
         /\ findable' \subseteq findable
         /\ n = sizes[p] \/ p \in claimed => p \notin findable'
<1>1. sizes' = [sizes EXCEPT ![p] = @ - n] /\ sizes[p] - n \in Nat
  BY DEF TakeFrom
<1>2. /\ sizes' \in Seq(Nat) /\ Len(sizes') = Len(sizes) /\ sizes'[p] = sizes[p] - n
      /\ \A q \in 1 .. Len(sizes) : q # p => sizes'[q] = sizes[q]
  BY <1>1
<1>3. findable' = IF n = sizes[p] THEN findable \ {p} ELSE findable
  BY DEF TakeFrom
<1>4. ElementsInv'
  <2> SUFFICES ASSUME NEW q \in findable'
               PROVE  q \in 1 .. Len(sizes') /\ sizes'[q] > 0 /\ q \notin claimed
    BY DEF ElementsInv
  <2>1. q \in findable /\ q \in 1 .. Len(sizes) /\ sizes[q] > 0 /\ q \notin claimed
    BY <1>3 DEF ElementsInv
  <2>2. CASE q = p
    <3>1. n # sizes[p]
      BY <1>3, <2>2
    <3> QED  BY <1>2, <2>1, <2>2, <3>1
  <2> QED  BY <1>2, <2>1, <2>2
<1> QED  BY <1>2, <1>3, <1>4 DEF ElementsInv

(* At first there are no producers.                                         *)
LEMMA DequeueInitInv == DequeueInit => DequeueInv
<1> SUFFICES ASSUME DequeueInit PROVE DequeueInv
  OBVIOUS
<1>1. sizes = <<>> /\ producerCount = 0 /\ globalOffset = 0 /\ dequeueLoad \in DequeueLoad
  BY DequeueConstants DEF DequeueInit
<1>2. token \in Token /\ token.desired = 0 /\ token.current = 0
  BY DequeueConstants DEF DequeueInit, Token
<1>3. find \in Locals /\ find.want = 0 /\ findAt = "idle" /\ findable = {}
  BY DEF DequeueInit, NotCalled, Locals
<1>4. DequeueTypes
  BY <1>1, <1>2, <1>3 DEF DequeueTypes
<1>5. TokenInv
  BY <1>1, <1>2 DEF TokenInv
<1> QED  BY <1>3, <1>4, <1>5 DEF DequeueInv, SearchInv, NothingOverlooked, ElementsInv

(* Producers join the list: what the search has looked at stays looked at.  *)
LEMMA ListStep ==
  ASSUME DequeueInv, CountProducer \/ LinkProducer
  PROVE  DequeueInv'
<1>1. /\ sizes \in Seq(Nat) /\ producerCount \in Nat /\ Len(sizes) =< producerCount
      /\ find \in Locals /\ token \in Token
  BY DEF DequeueInv, DequeueTypes
<1>2. UNCHANGED <<claimed, globalOffset, token, dequeueLoad, findAt, find, findable, served>>
  BY DEF CountProducer, LinkProducer
<1>3. /\ sizes' \in Seq(Nat) /\ producerCount' \in Nat /\ Len(sizes') =< producerCount'
      /\ Len(sizes') >= Len(sizes) /\ \A p \in 1 .. Len(sizes) : sizes'[p] = sizes[p]
  BY <1>1, SMTT(20) DEF CountProducer, LinkProducer
<1>4. DequeueTypes'
  BY <1>2, <1>3 DEF DequeueInv, DequeueTypes
<1>5. TokenInv'
  BY <1>1, <1>2, <1>3 DEF DequeueInv, TokenInv, Token
<1>6. SearchInv'
  <2>2. /\ find.ptr \in Nat /\ find.tail \in Nat /\ find.best \in Nat
        /\ Len(sizes) \in Nat /\ Len(sizes') \in Nat
    BY <1>1, <1>3 DEF Locals
  <2>3. \A p : p \in 1 .. Len(sizes) => p \in 1 .. Len(sizes')
    BY <1>3, <2>2
  <2>4. find.ptr =< Len(sizes) => find.ptr =< Len(sizes')
    BY <1>3, <2>2
  <2>5. find.tail =< Len(sizes) => find.tail =< Len(sizes')
    BY <1>3, <2>2
  <2> QED  BY <1>2, <1>3, <2>3, <2>4, <2>5 DEF DequeueInv, SearchInv, ElementsInv
<1> QED  BY <1>2, <1>4, <1>5, <1>6 DEF DequeueInv, NothingOverlooked

(* Others enqueue, claim and dequeue: nobody empties a producer that the    *)
(* search must find, and none of them takes from the one whose tail is      *)
(* loaded.                                                                  *)
LEMMA SizesStep ==
  ASSUME DequeueInv, NEW p \in DOMAIN sizes,
         EnqueueOn(p) \/ OtherClaims(p) \/ OtherLeaves(p) \/ OtherTakes(p)
  PROVE  DequeueInv'
<1>1. /\ sizes \in Seq(Nat) /\ producerCount \in Nat /\ Len(sizes) =< producerCount /\ ElementsInv
      /\ find \in Locals /\ token \in Token /\ globalOffset \in Nat /\ p \in 1 .. Len(sizes)
  BY DEF DequeueInv, DequeueTypes, SearchInv, ElementsInv
<1>2. UNCHANGED <<token, producerCount, dequeueLoad, findAt, served>>
  BY DEF EnqueueOn, OtherClaims, OtherLeaves, OtherTakes
<1>3. sizes' \in Seq(Nat) /\ Len(sizes') = Len(sizes) /\ findable' \subseteq findable /\ ElementsInv'
  <2>1. CASE EnqueueOn(p)
    BY <1>1, <2>1 DEF EnqueueOn, ElementsInv
  <2>2. CASE OtherClaims(p) \/ OtherLeaves(p)
    BY <1>1, <2>2 DEF OtherClaims, OtherLeaves, ElementsInv
  <2>3. CASE OtherTakes(p)
    <3>1. /\ sizes' = [sizes EXCEPT ![p] = @ - 1] /\ sizes[p] - 1 \in Nat
          /\ p \in claimed /\ UNCHANGED <<claimed, findable>>
      BY <1>1, <2>3 DEF OtherTakes
    <3> QED  BY <1>1, <3>1 DEF ElementsInv
  <2> QED  BY <2>1, <2>2, <2>3
<1>4. globalOffset' \in Nat
  BY <1>1, ModIn, DequeueConstants DEF EnqueueOn, OtherClaims, OtherLeaves, OtherTakes, NextOffset
<1>5. /\ find' \in Locals /\ find'.ptr = find.ptr /\ find'.best = find.best /\ find'.want = find.want
      /\ find'.count = find.count /\ find'.bestSize = find.bestSize
      /\ findAt # "head" \/ find.ptr \in findable => find'.tail = find.tail
  <2>1. CASE find' = find
    BY <1>1, <2>1
  <2>2. CASE find' # find
    <3>1. /\ find' = [find EXCEPT !.tail = find.tail - Smaller(find.tail, 1)]
          /\ findAt = "head" /\ find.ptr = p /\ p \in claimed
      BY <2>2 DEF EnqueueOn, OtherClaims, OtherLeaves, OtherTakes
    <3>2. find.tail - Smaller(find.tail, 1) \in Nat
      BY <1>1 DEF Smaller, Locals
    <3>3. find.ptr \notin findable
      BY <1>1, <3>1 DEF ElementsInv
    <3> QED  BY <1>1, <3>1, <3>2, <3>3 DEF Locals
  <2> QED  BY <2>1, <2>2
<1>6. DequeueTypes'
  BY <1>1, <1>2, <1>3, <1>4, <1>5 DEF DequeueInv, DequeueTypes
<1>7. TokenInv'
  BY <1>2, <1>3 DEF DequeueInv, TokenInv
<1>8. SearchInv'
  BY <1>1, <1>2, <1>3, <1>5 DEF DequeueInv, SearchInv, ElementsInv
<1> QED  BY <1>2, <1>3, <1>5, <1>6, <1>7, <1>8 DEF DequeueInv, NothingOverlooked

(* A call starts with every producer to look at.                            *)
LEMMA StartStep ==
  ASSUME DequeueInv, TryDequeue \/ TryDequeueInOrder \/ TryDequeueToken
  PROVE  DequeueInv'
<1>1. /\ sizes \in Seq(Nat) /\ dequeueLoad \in DequeueLoad /\ Len(sizes) \in Nat
      /\ bulk \in Nat \ {0}
  BY DEF DequeueInv, DequeueTypes, DequeueLoad, bulk
<1>2. PICK at \in {"score", "rest", "offset"} : StartFind(at)
  BY DEF TryDequeue, TryDequeueInOrder, TryDequeueToken
<1>3. /\ findAt' = at /\ find' = [NotCalled EXCEPT !.ptr = Len(sizes), !.want = bulk]
      /\ findable' = {p \in DOMAIN sizes \ claimed : sizes[p] > 0}
      /\ UNCHANGED <<sizes, claimed, producerCount, globalOffset, token, dequeueLoad, served>>
  BY <1>2 DEF StartFind, Find
<1>4. /\ find' \in Locals /\ find'.ptr = Len(sizes) /\ find'.want = bulk
      /\ find'.count = 0 /\ find'.bestSize = 0 /\ find'.best = 0
  BY <1>1, <1>3 DEF NotCalled, Locals
<1>5. DequeueTypes'
  BY <1>3, <1>4 DEF DequeueInv, DequeueTypes, Tokened
<1>6. TokenInv'
  BY <1>3 DEF DequeueInv, TokenInv
<1>7. SearchInv'
  BY <1>1, <1>3, <1>4 DEF SearchInv, ElementsInv
<1> QED  BY <1>3, <1>5, <1>6, <1>7 DEF DequeueInv, NothingOverlooked

(* The scan without a token: it stops at three producers with elements, or  *)
(* at the end, and then has the best of them unless it met none.            *)
LEMMA ScoreTailStep ==
  ASSUME DequeueInv, ScoreTail
  PROVE  DequeueInv'
<1> DEFINE f == find
           done == f.ptr = 0 \/ f.count = 3
<1>1. /\ f \in Locals /\ findAt = "score" /\ sizes \in Seq(Nat) /\ f.ptr =< Len(sizes) /\ f.want > 0
      /\ f.ptr \in Nat /\ f.count \in Nat /\ f.best \in Nat /\ f.bestSize \in Nat /\ f.want \in Nat
      /\ ElementsInv
  BY DEF DequeueInv, DequeueTypes, SearchInv, ScoreTail, Locals, ElementsInv
<1>2. UNCHANGED <<sizes, claimed, producerCount, globalOffset, token, dequeueLoad, findable, served>>
  BY DEF ScoreTail
<1>3. IF done THEN Find(IF f.count = 0 THEN "idle" ELSE "best", f)
      ELSE Find("head", [f EXCEPT !.tail = sizes[f.ptr]])
  BY DEF ScoreTail
<1>4. TokenInv'
  BY <1>2 DEF DequeueInv, TokenInv
<1>5. CASE done /\ f.count = 0
  <2>1. findAt' = "idle" /\ find' = [NotCalled EXCEPT !.want = f.want]
    BY <1>3, <1>5 DEF Find
  <2>2. find' \in Locals
    BY <1>1, <2>1 DEF NotCalled, Locals
  <2>3. findable' = {}
    BY <1>1, <1>2, <1>5 DEF DequeueInv, SearchInv, ElementsInv
  <2> QED  BY <1>2, <1>4, <2>1, <2>2, <2>3
           DEF DequeueInv, DequeueTypes, SearchInv, NothingOverlooked, ElementsInv
<1>6. CASE done /\ f.count # 0
  <2>1. findAt' = "best" /\ find' = f
    BY <1>3, <1>6 DEF Find
  <2> QED  BY <1>1, <1>2, <1>4, <1>6, <2>1
           DEF DequeueInv, DequeueTypes, SearchInv, NothingOverlooked, ElementsInv
<1>7. CASE ~done
  <2>1. findAt' = "head" /\ find' = [f EXCEPT !.tail = sizes[f.ptr]]
    BY <1>3, <1>7 DEF Find
  <2>2. f.ptr \in 1 .. Len(sizes) /\ sizes[f.ptr] \in Nat
    BY <1>1, <1>7
  <2>3. /\ find' \in Locals /\ find'.ptr = f.ptr /\ find'.want = f.want /\ find'.count = f.count
        /\ find'.best = f.best /\ find'.bestSize = f.bestSize /\ find'.tail = sizes[f.ptr]
    BY <1>1, <2>1, <2>2 DEF Locals
  <2>4. f.ptr \in findable => find'.tail > 0
    BY <1>1, <2>3 DEF ElementsInv
  <2>5. DequeueTypes'
    BY <1>2, <2>1, <2>3 DEF DequeueInv, DequeueTypes
  <2>6. SearchInv'
    BY <1>1, <1>2, <2>1, <2>2, <2>3, <2>4 DEF DequeueInv, SearchInv, ElementsInv
  <2> QED  BY <1>4, <2>1, <2>5, <2>6 DEF DequeueInv, NothingOverlooked
<1> QED  BY <1>5, <1>6, <1>7

(* The size it scores is not 0 for a producer that it must find.            *)
LEMMA ScoreStep ==
  ASSUME DequeueInv, Score
  PROVE  DequeueInv'
<1> DEFINE f == find
           size == f.tail
           counted == IF size > 0 THEN f.count + 1 ELSE f.count
           best == IF size > f.bestSize THEN f.ptr ELSE f.best
           bestSize == IF size > f.bestSize THEN size ELSE f.bestSize
<1>1. /\ f \in Locals /\ findAt = "head" /\ sizes \in Seq(Nat) /\ f.want > 0 /\ size \in Nat
      /\ f.ptr \in 1 .. Len(sizes) /\ f.count \in Nat /\ f.best \in Nat /\ f.bestSize \in Nat
      /\ f.ptr \in findable => size > 0
  BY DEF DequeueInv, DequeueTypes, SearchInv, Score, Locals, ElementsInv
<1>2. UNCHANGED <<sizes, claimed, producerCount, globalOffset, token, dequeueLoad, findable, served>>
  BY DEF Score
<1>3. /\ findAt' = "score"
      /\ find' = [f EXCEPT !.ptr = f.ptr - 1, !.count = counted, !.best = best, !.bestSize = bestSize]
  BY DEF Score, Find
<1>4. counted \in Nat /\ best \in Nat /\ bestSize \in Nat /\ f.ptr - 1 \in Nat
  BY <1>1
<1>5. /\ ElementsInv
      /\ IF f.count = 0 THEN f.bestSize = 0 /\ \A p \in findable : p =< f.ptr
         ELSE f.bestSize > 0 /\ f.best \in 1 .. Len(sizes)
  BY <1>1 DEF DequeueInv, SearchInv, ElementsInv
<1>6. IF counted = 0 THEN bestSize = 0 /\ \A p \in findable : p =< f.ptr - 1
      ELSE bestSize > 0 /\ best \in 1 .. Len(sizes)
  <2>1. CASE size > 0
    BY <1>1, <1>5, <2>1
  <2>2. CASE size = 0
    <3>1. f.ptr \notin findable /\ counted = f.count /\ best = f.best /\ bestSize = f.bestSize
      BY <1>1, <2>2
    <3>2. CASE f.count = 0
      <4>1. ASSUME NEW p \in findable PROVE p =< f.ptr - 1
        <5>1. p \in Nat /\ p =< f.ptr /\ p # f.ptr
          BY <1>5, <3>1, <3>2 DEF ElementsInv
        <5> QED  BY <1>1, <5>1
      <4> QED  BY <1>5, <3>1, <3>2, <4>1
    <3>3. CASE f.count # 0
      BY <1>5, <3>1, <3>3
    <3> QED  BY <3>2, <3>3
  <2> QED  BY <1>1, <2>1, <2>2
<1> HIDE DEF counted, best, bestSize
<1>7. /\ find' \in Locals /\ find'.ptr = f.ptr - 1 /\ find'.want = f.want
      /\ find'.count = counted /\ find'.best = best /\ find'.bestSize = bestSize
  BY <1>1, <1>3, <1>4 DEF Locals
<1>8. TokenInv'
  BY <1>2 DEF DequeueInv, TokenInv
<1>9. DequeueTypes'
  BY <1>2, <1>3, <1>7 DEF DequeueInv, DequeueTypes
<1>10. f.ptr - 1 =< Len(sizes)
  BY <1>1
<1>11. SearchInv'
  BY <1>1, <1>2, <1>3, <1>5, <1>6, <1>7, <1>10 DEF SearchInv, ElementsInv
<1> QED  BY <1>3, <1>8, <1>9, <1>11 DEF DequeueInv, NothingOverlooked

(* The smaller of two numbers.                                              *)
LEMMA SmallerIs ==
  ASSUME NEW a \in Nat, NEW b \in Nat
  PROVE  Smaller(a, b) \in Nat /\ Smaller(a, b) =< a /\ Smaller(a, b) =< b
         /\ (Smaller(a, b) # b => Smaller(a, b) = a)
BY DEF Smaller

(* What a dequeue may return: less than was asked for only if that was all, *)
(* or another consumer's claim is under way.                                *)
LEMMA DequeuedIs ==
  ASSUME NEW p, sizes[p] \in Nat, NEW want \in Nat, NEW n \in Dequeued(p, want)
  PROVE  n \in Nat /\ n =< sizes[p] /\ n =< want /\ (n # want => n = sizes[p] \/ p \in claimed)
<1> DEFINE most == Smaller(sizes[p], want)
<1>1. /\ most \in Nat /\ most =< sizes[p] /\ most =< want
      /\ most # want => most = sizes[p]
  BY SmallerIs
<1>2. p \in claimed => n \in 0 .. most
  BY DEF Dequeued
<1>3. p \notin claimed => n = most
  BY DEF Dequeued
<1> HIDE DEF most
<1> QED  BY <1>1, <1>2, <1>3

(* The dequeue from the best producer, then from the rest.                  *)
LEMMA BestStep ==
  ASSUME DequeueInv, Best
  PROVE  DequeueInv'
<1>1. /\ find \in Locals /\ findAt = "best" /\ sizes \in Seq(Nat) /\ find.best \in 1 .. Len(sizes)
      /\ find.want > 0 /\ find.want \in Nat /\ ElementsInv /\ Len(sizes) \in Nat
      /\ sizes[find.best] \in Nat
  BY DEF DequeueInv, DequeueTypes, SearchInv, Best, Locals, ElementsInv
<1>2. UNCHANGED <<claimed, producerCount, globalOffset, token, dequeueLoad>>
  BY DEF Best
<1>3. PICK n \in Dequeued(find.best, 1) :
        /\ TakeFrom(find.best, n)
        /\ IF n = 1 THEN Find("idle", [find EXCEPT !.want = 0]) ELSE AfterBest
  BY DEF Best
<1>4. n \in Nat /\ n =< sizes[find.best] /\ (n # 1 => n = sizes[find.best] \/ find.best \in claimed)
  BY <1>1, <1>3, DequeuedIs
<1>5. /\ sizes' \in Seq(Nat) /\ Len(sizes') = Len(sizes) /\ ElementsInv' /\ findable' \subseteq findable
      /\ n # 1 => find.best \notin findable'
  BY <1>1, <1>2, <1>3, <1>4, TakeEffect
<1>6. CASE n = 1
  <2>1. findAt' = "idle" /\ find' = [NotCalled EXCEPT !.want = 0]
    BY <1>3, <1>6 DEF Find
  <2>2. find' \in Locals /\ find'.want = 0
    BY <2>1 DEF NotCalled, Locals
  <2> QED  BY <1>2, <1>5, <2>1, <2>2
           DEF DequeueInv, DequeueTypes, TokenInv, SearchInv, NothingOverlooked, ElementsInv
<1>7. CASE n # 1
  <2>1. findAt' = "rest" /\ find' = [find EXCEPT !.ptr = Len(sizes)]
    BY <1>3, <1>7 DEF Find, AfterBest
  <2>2. /\ find' \in Locals /\ find'.want = find.want /\ find'.ptr = Len(sizes)
        /\ find'.best = find.best
    BY <1>1, <2>1 DEF Locals
  <2>3. \A p \in findable' : p =< Len(sizes) /\ p # find.best
    BY <1>1, <1>5, <1>7 DEF ElementsInv
  <2> QED  BY <1>1, <1>2, <1>5, <2>1, <2>2, <2>3
           DEF DequeueInv, DequeueTypes, TokenInv, SearchInv, NothingOverlooked, ElementsInv
<1> QED  BY <1>6, <1>7

(* The other producers: the best one is passed over, since it was found     *)
(* empty.                                                                   *)
LEMMA RestStep ==
  ASSUME DequeueInv, Rest
  PROVE  DequeueInv'
<1> DEFINE f == find
           skip == f.ptr = 0 \/ f.ptr = f.best
<1>1. /\ f \in Locals /\ findAt = "rest" /\ sizes \in Seq(Nat) /\ f.ptr =< Len(sizes)
      /\ f.want > 0 /\ f.want \in Nat /\ f.ptr \in Nat /\ ElementsInv /\ Len(sizes) \in Nat
      /\ \A p \in findable : p =< f.ptr /\ p # f.best
  <2>1. /\ f \in Locals /\ findAt = "rest" /\ sizes \in Seq(Nat)
    BY DEF DequeueInv, DequeueTypes, Rest
  <2>2. /\ findAt \notin {"idle", "announce"} /\ findAt \in {"score", "rest"}
    BY <2>1
  <2>3. /\ f.ptr =< Len(sizes) /\ f.want > 0 /\ ElementsInv
        /\ \A p \in findable : p =< f.ptr /\ p # f.best
    BY <2>1, <2>2, Zenon DEF DequeueInv, SearchInv
  <2>4. f.want \in Nat /\ f.ptr \in Nat /\ Len(sizes) \in Nat
    BY <2>1 DEF Locals
  <2> QED  BY <2>1, <2>3, <2>4
<1>2. UNCHANGED <<claimed, producerCount, globalOffset, token, dequeueLoad>>
  BY DEF Rest
<1>3. CASE f.ptr = 0
  <2>1. /\ findAt' = "idle" /\ find' = [NotCalled EXCEPT !.want = f.want]
        /\ UNCHANGED <<sizes, claimed, findable, served>>
    BY <1>3 DEF Rest, Find
  <2>2. find' \in Locals
    BY <1>1, <2>1 DEF NotCalled, Locals
  <2>3. findable = {}
    BY <1>1, <1>3 DEF ElementsInv
  <2> QED  BY <1>2, <2>1, <2>2, <2>3
           DEF DequeueInv, DequeueTypes, TokenInv, SearchInv, NothingOverlooked, ElementsInv
<1>4. CASE f.ptr # 0 /\ f.ptr = f.best
  <2>1. /\ findAt' = "rest" /\ find' = [f EXCEPT !.ptr = f.ptr - 1]
        /\ UNCHANGED <<sizes, claimed, findable, served>>
    BY <1>4 DEF Rest, Find
  <2>2. /\ find' \in Locals /\ find'.ptr = f.ptr - 1 /\ find'.want = f.want /\ find'.best = f.best
    <3>1. f.ptr - 1 \in Nat
      BY <1>1, <1>4
    <3> QED  BY <1>1, <2>1, <3>1 DEF Locals
  <2>3. \A p \in findable : p =< f.ptr - 1
    BY <1>1, <1>4 DEF ElementsInv
  <2> QED  BY <1>1, <1>2, <2>1, <2>2, <2>3
           DEF DequeueInv, DequeueTypes, TokenInv, SearchInv, NothingOverlooked, ElementsInv
<1>5. CASE ~skip
  <2>1. f.ptr \in 1 .. Len(sizes) /\ sizes[f.ptr] \in Nat
    BY <1>1, <1>5
  <2>2. PICK n \in Dequeued(f.ptr, f.want) :
          /\ TakeFrom(f.ptr, n)
          /\ Find(IF n = f.want THEN "idle" ELSE "rest", [f EXCEPT !.ptr = @ - 1, !.want = @ - n])
    BY <1>5 DEF Rest
  <2>3. /\ n \in Nat /\ n =< sizes[f.ptr] /\ n =< f.want
        /\ n # f.want => n = sizes[f.ptr] \/ f.ptr \in claimed
        /\ n = f.want => findAt' = "idle" /\ find' = [NotCalled EXCEPT !.want = 0]
        /\ n # f.want => findAt' = "rest" /\ find' = [f EXCEPT !.ptr = @ - 1, !.want = @ - n]
    <3>1. /\ n \in Nat /\ n =< sizes[f.ptr] /\ n =< f.want
          /\ n # f.want => n = sizes[f.ptr] \/ f.ptr \in claimed
      BY <1>1, <2>1, <2>2, DequeuedIs
    <3>2. CASE n = f.want
      <4>1. [f EXCEPT !.ptr = @ - 1, !.want = @ - n].want = 0
        BY <1>1, <3>2 DEF Locals
      <4> QED  BY <2>2, <3>1, <3>2, <4>1 DEF Find
    <3>3. CASE n # f.want
      BY <2>2, <3>1, <3>3 DEF Find
    <3> QED  BY <3>1, <3>2, <3>3
  <2>4. /\ sizes' \in Seq(Nat) /\ Len(sizes') = Len(sizes) /\ ElementsInv'
        /\ findable' \subseteq findable
        /\ n = sizes[f.ptr] \/ f.ptr \in claimed => f.ptr \notin findable'
    BY <1>1, <1>2, <2>1, <2>2, <2>3, TakeEffect
  <2>5. CASE n = f.want
    <3>1. find' \in Locals /\ find'.want = 0
      BY <2>3, <2>5 DEF NotCalled, Locals
    <3> QED  BY <1>2, <2>3, <2>4, <2>5, <3>1
             DEF DequeueInv, DequeueTypes, TokenInv, SearchInv, NothingOverlooked, ElementsInv
  <2>6. CASE n # f.want
    <3>0. f.want \in Nat /\ f.ptr \in Nat \ {0} /\ n \in Nat /\ n =< f.want
      BY <1>1, <2>1, <2>3
    <3>1. f.want - n \in Nat /\ f.want - n > 0 /\ f.ptr - 1 \in Nat
      BY <2>6, <3>0
    <3>2. /\ find' \in Locals /\ find'.want = f.want - n /\ find'.ptr = f.ptr - 1
          /\ find'.best = f.best
      BY <1>1, <2>3, <2>6, <3>1 DEF Locals
    <3>3. \A p \in findable' : p =< f.ptr - 1 /\ p # f.best
      <4> SUFFICES ASSUME NEW p \in findable' PROVE p =< f.ptr - 1 /\ p # f.best
        OBVIOUS
      <4>1. p \in findable /\ p # f.ptr
        BY <2>3, <2>4, <2>6
      <4>2. p \in Nat /\ p =< f.ptr /\ p # f.best
        BY <1>1, <4>1 DEF ElementsInv
      <4> QED  BY <1>1, <4>1, <4>2
    <3>4. f.ptr - 1 =< Len(sizes)
      BY <1>1
    <3> QED  BY <1>2, <2>3, <2>4, <2>6, <3>1, <3>2, <3>3, <3>4
             DEF DequeueInv, DequeueTypes, TokenInv, SearchInv, NothingOverlooked, ElementsInv
  <2> QED  BY <2>5, <2>6
<1> QED  BY <1>3, <1>4, <1>5

(* A token that was rotated by others goes on; one that was not reads from  *)
(* where it is.                                                             *)
LEMMA OffsetStep ==
  ASSUME DequeueInv, CheckOffset \/ RotationTail \/ RotationCount
  PROVE  DequeueInv'
<1>1. /\ find \in Locals /\ sizes \in Seq(Nat) /\ Len(sizes) \in Nat /\ token \in Token
      /\ token.desired \in Nat /\ producerCount \in Nat /\ find.want \in Nat
      /\ Len(sizes) =< producerCount /\ token.desired =< Len(sizes) /\ ElementsInv
      /\ token.desired = 0 <=> token.current = 0
  BY DEF DequeueInv, DequeueTypes, TokenInv, SearchInv, ElementsInv, Locals, Token
<1>2. /\ UNCHANGED <<sizes, claimed, producerCount, globalOffset, token, dequeueLoad, findable, served>>
      /\ findAt \in {"offset", "tail", "count"} /\ find.want > 0
  BY DEF CheckOffset, RotationTail, RotationCount, DequeueInv, SearchInv, ElementsInv
<1>3. CASE CheckOffset
  <2>1. find' = find /\ (findAt' = "tail" \/ (findAt' = "current" /\ token.desired # 0))
    BY <1>3 DEF CheckOffset, Find
  <2> QED  BY <1>1, <1>2, <2>1
           DEF DequeueInv, DequeueTypes, TokenInv, SearchInv, NothingOverlooked, Tokened, ElementsInv
<1>4. CASE RotationTail
  <2>1. CASE token.desired = 0 /\ sizes = <<>>
    <3>1. findAt' = "idle" /\ find' = [NotCalled EXCEPT !.want = find.want]
      BY <1>4, <2>1 DEF RotationTail, Find
    <3>2. find' \in Locals
      BY <1>1, <3>1 DEF NotCalled, Locals
    <3>3. findable = {}
      BY <1>1, <2>1 DEF ElementsInv
    <3> QED  BY <1>2, <3>1, <3>2, <3>3
             DEF DequeueInv, DequeueTypes, TokenInv, SearchInv, NothingOverlooked, ElementsInv
  <2>2. CASE ~(token.desired = 0 /\ sizes = <<>>)
    <3>1. findAt' = "count" /\ find' = [find EXCEPT !.tail = Len(sizes)]
      BY <1>4, <2>2 DEF RotationTail, Find
    <3>2. find' \in Locals /\ find'.tail = Len(sizes) /\ find'.want = find.want
      BY <1>1, <3>1 DEF Locals
    <3>3. Len(sizes) \in 1 .. Len(sizes)
      BY <1>1, <2>2
    <3> QED  BY <1>1, <1>2, <3>1, <3>2, <3>3
             DEF DequeueInv, DequeueTypes, TokenInv, SearchInv, NothingOverlooked, Tokened, ElementsInv
  <2> QED  BY <2>1, <2>2
<1>5. CASE RotationCount
  <2>1. findAt' = "rotate" /\ find' = [find EXCEPT !.count = producerCount] /\ findAt = "count"
    BY <1>5 DEF RotationCount, Find
  <2>2. find' \in Locals /\ find'.count = producerCount /\ find'.want = find.want
        /\ find'.tail = find.tail
    BY <1>1, <2>1 DEF Locals
  <2>3. find.tail \in 1 .. Len(sizes) /\ find.tail =< producerCount
    BY <1>1, <2>1 DEF DequeueInv, SearchInv, ElementsInv
  <2> QED  BY <1>1, <1>2, <2>1, <2>2, <2>3
           DEF DequeueInv, DequeueTypes, TokenInv, SearchInv, NothingOverlooked, Tokened, ElementsInv
<1> QED  BY <1>3, <1>4, <1>5

(* The token is moved to where the rotation has come.                       *)
LEMMA RotateStep ==
  ASSUME DequeueInv, Rotate
  PROVE  DequeueInv'
<1> DEFINE f == find
           first == Around(f.tail, f.count - 1 - (token.initial % f.count), f.tail)
           place == Around(IF token.desired = 0 THEN first ELSE token.desired, Rotations, f.tail)
<1>1. /\ f \in Locals /\ findAt = "rotate" /\ sizes \in Seq(Nat) /\ token \in Token
      /\ f.tail \in 1 .. Len(sizes) /\ Len(sizes) \in Nat /\ f.count \in Nat /\ f.tail =< f.count
      /\ f.want > 0 /\ globalOffset \in Nat /\ ElementsInv
      /\ token.initial \in Nat /\ token.desired \in Nat /\ token.lastKnown \in Nat
  BY DEF DequeueInv, DequeueTypes, SearchInv, Rotate, Locals, ElementsInv, Token
<1>2. UNCHANGED <<sizes, claimed, producerCount, globalOffset, dequeueLoad, findable>>
  BY DEF Rotate
<1>3. f.tail \in Nat \ {0} /\ f.count \in Nat \ {0}
  BY <1>1
<1>4. first \in 1 .. f.tail
  <2>1. token.initial % f.count \in Nat
    BY <1>1, <1>3, ModIn, SMTT(20)
  <2>2. f.count - 1 - (token.initial % f.count) \in Int /\ f.tail \in Int
    BY <1>3, <2>1
  <2> QED  BY <1>3, <2>2, AroundIn
<1>5. Rotations \in Int
  <2>1. OffsetMod \in Nat \ {0} /\ globalOffset - token.lastKnown \in Int
    BY <1>1, DequeueConstants
  <2>2. (globalOffset - token.lastKnown) % OffsetMod \in Nat
    BY <2>1, ModIn
  <2>3. ((globalOffset - token.lastKnown) % OffsetMod) % f.count \in Nat
    BY <1>3, <2>2, ModIn
  <2> QED  BY <2>2, <2>3 DEF Rotations
<1> HIDE DEF first
<1>6. place \in 1 .. f.tail
  <2>1. (IF token.desired = 0 THEN first ELSE token.desired) \in Int
    BY <1>1, <1>4
  <2> QED  BY <1>3, <1>5, <2>1, AroundIn
<1>7. /\ findAt' = "current" /\ find' = find
      /\ token' = [token EXCEPT !.desired = place, !.current = place,
                                !.lastKnown = globalOffset, !.consumed = 0]
  BY DEF Rotate, Find, first
<1> HIDE DEF place
<1>8. /\ token' \in Token /\ token'.desired = place /\ token'.current = place
      /\ place \in Nat /\ place # 0 /\ place =< Len(sizes)
  <2>1. place \in Nat /\ place # 0 /\ place =< Len(sizes)
    BY <1>1, <1>6
  <2> QED  BY <1>1, <1>7, <2>1 DEF Token
<1>9. DequeueTypes'
  BY <1>2, <1>7, <1>8 DEF DequeueInv, DequeueTypes, Tokened
<1>10. TokenInv'
  BY <1>2, <1>8 DEF TokenInv
<1>11. SearchInv'
  BY <1>1, <1>2, <1>7, <1>8 DEF SearchInv, ElementsInv
<1> QED  BY <1>7, <1>9, <1>10, <1>11 DEF DequeueInv, NothingOverlooked

(* The dequeue from the producer of the token.                              *)
LEMMA TakeCurrentStep ==
  ASSUME DequeueInv, TakeCurrent
  PROVE  DequeueInv'
<1> DEFINE f == find
           p == token.current
<1>1. /\ f \in Locals /\ findAt = "current" /\ sizes \in Seq(Nat) /\ token \in Token
      /\ Len(sizes) \in Nat /\ f.want \in Nat /\ f.want > 0 /\ ElementsInv
      /\ p \in 1 .. Len(sizes) /\ token.consumed \in Nat /\ dequeueLoad \in DequeueLoad
  <2>1. /\ f \in Locals /\ findAt = "current" /\ sizes \in Seq(Nat) /\ token \in Token
        /\ f.want > 0 /\ p # 0 /\ p =< Len(sizes) /\ dequeueLoad \in DequeueLoad
    BY DEF DequeueInv, DequeueTypes, TokenInv, SearchInv, TakeCurrent, ElementsInv
  <2>2. f.want \in Nat /\ p \in Nat /\ token.consumed \in Nat
    BY <2>1 DEF Locals, Token
  <2>3. ElementsInv
    BY DEF DequeueInv, SearchInv, ElementsInv
  <2> QED  BY <2>1, <2>2, <2>3
<1>2. UNCHANGED <<claimed, producerCount, globalOffset, dequeueLoad>>
  BY DEF TakeCurrent
<1>3. sizes[p] \in Nat
  BY <1>1
<1>4. PICK n \in Dequeued(p, f.want) :
        /\ TakeFrom(p, n) /\ token' = [token EXCEPT !.consumed = Consumed(n)]
        /\ Find(CASE n # f.want -> "next"
                  [] n = f.want /\ Consumed(n) = Quota -> "announce"
                  [] OTHER -> "idle",
                [f EXCEPT !.want = @ - n])
  BY DEF TakeCurrent
<1>5. /\ n \in Nat /\ n =< sizes[p] /\ n =< f.want /\ (n # f.want => n = sizes[p] \/ p \in claimed)
      /\ n # f.want => findAt' = "next" /\ find' = [f EXCEPT !.want = f.want - n]
      /\ n = f.want =>
           \/ findAt' = "announce" /\ find' = [f EXCEPT !.want = 0]
           \/ findAt' = "idle" /\ find' = [NotCalled EXCEPT !.want = 0]
  <2>1. n \in Nat /\ n =< sizes[p] /\ n =< f.want /\ (n # f.want => n = sizes[p] \/ p \in claimed)
    BY <1>1, <1>3, <1>4, DequeuedIs
  <2>2. CASE n # f.want
    BY <1>4, <2>1, <2>2 DEF Find
  <2>3. CASE n = f.want
    <3>1. f.want - n = 0 /\ [f EXCEPT !.want = 0].want = 0
      BY <1>1, <2>3 DEF Locals
    <3>2. [f EXCEPT !.want = @ - n] = [f EXCEPT !.want = 0]
      BY <3>1
    <3>3. Find("announce", [f EXCEPT !.want = 0]) \/ Find("idle", [f EXCEPT !.want = 0])
      BY <1>4, <2>3, <3>2
    <3> QED  BY <2>1, <2>3, <3>1, <3>3 DEF Find
  <2> QED  BY <2>1, <2>2, <2>3
<1>6. /\ sizes' \in Seq(Nat) /\ Len(sizes') = Len(sizes) /\ ElementsInv'
      /\ n = sizes[p] \/ p \in claimed => p \notin findable'
  BY <1>1, <1>2, <1>4, <1>5, TakeEffect
<1>7. Consumed(n) \in Nat
  <2>1. token.consumed + n \in Nat
    BY <1>1, <1>5
  <2>2. Smaller(Quota, token.consumed + n) \in Nat
    BY <2>1, SmallerIs, DequeueConstants
  <2> QED  BY <2>1, <2>2 DEF Consumed
<1>8. /\ token' \in Token /\ token'.desired = token.desired /\ token'.current = p
  BY <1>1, <1>4, <1>7 DEF Token
<1>9. TokenInv'
  BY <1>6, <1>8 DEF DequeueInv, TokenInv
<1>10. CASE n # f.want
  <2>1. f.want - n \in Nat /\ f.want - n > 0
    BY <1>1, <1>5, <1>10
  <2>2. findAt' = "next" /\ find' \in Locals /\ find'.want = f.want - n
    BY <1>1, <1>5, <1>10, <2>1 DEF Locals
  <2>3. DequeueTypes'
    BY <1>2, <1>6, <1>8, <2>2 DEF DequeueInv, DequeueTypes, Tokened
  <2>4. token'.current \notin findable' /\ token'.current # 0
    BY <1>1, <1>5, <1>6, <1>8, <1>10
  <2>5. SearchInv'
    BY <1>6, <2>1, <2>2, <2>4 DEF SearchInv, ElementsInv
  <2> QED  BY <1>9, <2>2, <2>3, <2>5 DEF DequeueInv, NothingOverlooked
<1>11. CASE n = f.want
  <2>1. find' \in Locals /\ find'.want = 0 /\ findAt' \in {"announce", "idle"}
    <3>1. CASE findAt' = "announce" /\ find' = [f EXCEPT !.want = 0]
      BY <1>1, <3>1 DEF Locals
    <3>2. CASE findAt' = "idle" /\ find' = [NotCalled EXCEPT !.want = 0]
      BY <3>2 DEF Locals, NotCalled
    <3> QED  BY <1>5, <1>11, <3>1, <3>2
  <2>2. DequeueTypes'
    BY <1>2, <1>6, <1>8, <2>1 DEF DequeueInv, DequeueTypes, Tokened
  <2>3. SearchInv'
    BY <1>6, <2>1 DEF SearchInv, ElementsInv
  <2> QED  BY <1>9, <2>1, <2>2, <2>3 DEF DequeueInv, NothingOverlooked
<1> QED  BY <1>10, <1>11

(* A token that read its quota moves the rotation on.                       *)
LEMMA AnnounceStep ==
  ASSUME DequeueInv, Announce
  PROVE  DequeueInv'
<1>1. /\ find \in Locals /\ findAt = "announce" /\ globalOffset \in Nat /\ find.want = 0 /\ ElementsInv
  BY DEF DequeueInv, DequeueTypes, SearchInv, Announce, ElementsInv
<1>2. /\ UNCHANGED <<sizes, claimed, producerCount, token, dequeueLoad, findable, served>>
      /\ globalOffset' = NextOffset /\ findAt' = "idle" /\ find' = [NotCalled EXCEPT !.want = 0]
  BY <1>1 DEF Announce, Find
<1>3. globalOffset' \in Nat
  <2>1. globalOffset + 1 \in Int /\ OffsetMod \in Nat \ {0}
    BY <1>1, DequeueConstants
  <2> QED  BY <1>2, <2>1, ModIn DEF NextOffset
<1>4. find' \in Locals /\ find'.want = 0
  BY <1>2 DEF NotCalled, Locals
<1>5. DequeueTypes'
  BY <1>2, <1>3, <1>4 DEF DequeueInv, DequeueTypes
<1> QED  BY <1>1, <1>2, <1>4, <1>5 DEF DequeueInv, TokenInv, SearchInv, NothingOverlooked, ElementsInv

(* The producer of the token is empty: the search goes on from the one      *)
(* after it.                                                                *)
LEMMA OthersTailStep ==
  ASSUME DequeueInv, OthersTail
  PROVE  DequeueInv'
<1> DEFINE t == Len(sizes)
           c == token.current
           q == Around(c, 1, t)
<1>1. /\ find \in Locals /\ findAt = "next" /\ sizes \in Seq(Nat) /\ t \in Nat /\ c \in 1 .. t
      /\ find.want > 0 /\ find.want \in Nat /\ c \notin findable /\ ElementsInv
  BY SMTT(20) DEF DequeueInv, DequeueTypes, TokenInv, SearchInv, OthersTail, Locals, ElementsInv, Token
<1>2. /\ UNCHANGED <<sizes, claimed, producerCount, globalOffset, token, dequeueLoad, findable, served>>
      /\ findAt' = "others" /\ find' = [find EXCEPT !.tail = t, !.ptr = q]
  BY DEF OthersTail, Find
<1>3. q = IF c = 1 THEN t ELSE c - 1
  BY <1>1, StepBack
<1>4. q \in 1 .. t /\ \A p \in findable : p =< t /\ p \in Nat /\ p > 0
  BY <1>1, <1>3 DEF ElementsInv
<1> HIDE DEF q, t
<1>5. find' \in Locals /\ find'.tail = t /\ find'.ptr = q /\ find'.want = find.want
  <2>1. t \in Nat /\ q \in Nat
    BY <1>1, <1>4
  <2> QED  BY <1>1, <1>2, <2>1 DEF Locals
<1>6. \A p \in findable : p \notin Passed(c, q)
  BY <1>1, <1>3, <1>4 DEF Passed
<1>7. token'.current = c
  BY <1>2
<1>8. DequeueTypes'
  BY <1>2, <1>5 DEF DequeueInv, DequeueTypes, Tokened
<1>9. TokenInv'
  BY <1>2 DEF DequeueInv, TokenInv
<1>10. SearchInv'
  BY <1>1, <1>2, <1>4, <1>5, <1>6, <1>7 DEF SearchInv, ElementsInv, t
<1> QED  BY <1>2, <1>8, <1>9, <1>10 DEF DequeueInv, NothingOverlooked

(* The other producers, once around from the producer of the token.         *)
LEMMA TakeOtherStep ==
  ASSUME DequeueInv, TakeOther
  PROVE  DequeueInv'
<1> DEFINE f == find
           c == token.current
           q == Around(f.ptr, 1, f.tail)
<1>1. /\ f \in Locals /\ findAt = "others" /\ sizes \in Seq(Nat) /\ token \in Token
      /\ Len(sizes) \in Nat /\ f.want \in Nat /\ f.want > 0 /\ ElementsInv
      /\ f.tail \in Nat /\ c \in 1 .. f.tail /\ f.tail =< Len(sizes) /\ f.ptr \in 1 .. f.tail
      /\ \A p \in findable : p =< f.tail /\ p \notin Passed(c, f.ptr)
  <2>1. f \in Locals /\ findAt = "others" /\ sizes \in Seq(Nat) /\ token \in Token
    BY DEF DequeueInv, DequeueTypes, TakeOther
  <2>2. findAt \notin {"idle", "announce"} /\ findAt \in {"current", "next", "others"}
    BY <2>1
  <2>3. /\ f.want > 0 /\ ElementsInv /\ c # 0 /\ c =< f.tail /\ f.tail =< Len(sizes)
        /\ f.ptr \in 1 .. f.tail
        /\ \A p \in findable : p =< f.tail /\ p \notin Passed(c, f.ptr)
    BY <2>1, <2>2, Zenon DEF DequeueInv, SearchInv
  <2>4. f.want \in Nat /\ f.tail \in Nat /\ Len(sizes) \in Nat /\ c \in Nat
    BY <2>1 DEF Locals, Token
  <2> QED  BY <2>1, <2>3, <2>4
<1>2. UNCHANGED <<claimed, producerCount, globalOffset, dequeueLoad>>
  BY DEF TakeOther
<1>3. CASE f.ptr = c
  <2>1. /\ findAt' = "idle" /\ find' = [NotCalled EXCEPT !.want = f.want]
        /\ UNCHANGED <<sizes, claimed, findable, served, token>>
    BY <1>3 DEF TakeOther, Find
  <2>2. find' \in Locals
    BY <1>1, <2>1 DEF NotCalled, Locals
  <2>3. findable = {}
    BY <1>1, <1>3 DEF ElementsInv, Passed
  <2> QED  BY <1>2, <2>1, <2>2, <2>3
           DEF DequeueInv, DequeueTypes, TokenInv, SearchInv, NothingOverlooked, ElementsInv
<1>4. CASE f.ptr # c
  <2>1. f.ptr \in 1 .. Len(sizes) /\ sizes[f.ptr] \in Nat
    BY <1>1
  <2>2. PICK n \in Dequeued(f.ptr, f.want) :
          /\ TakeFrom(f.ptr, n)
          /\ token' = IF n = 0 THEN token ELSE [token EXCEPT !.current = f.ptr, !.consumed = n]
          /\ Find(IF n = f.want THEN "idle" ELSE "others", [f EXCEPT !.want = @ - n, !.ptr = q])
    BY <1>4 DEF TakeOther
  <2>3. /\ n \in Nat /\ n =< sizes[f.ptr] /\ n =< f.want
        /\ n # f.want => n = sizes[f.ptr] \/ f.ptr \in claimed
        /\ n = f.want => findAt' = "idle" /\ find' = [NotCalled EXCEPT !.want = f.want - n]
        /\ n # f.want => findAt' = "others" /\ find' = [f EXCEPT !.want = f.want - n, !.ptr = q]
    <3> HIDE DEF q
    <3>1. /\ n \in Nat /\ n =< sizes[f.ptr] /\ n =< f.want
          /\ n # f.want => n = sizes[f.ptr] \/ f.ptr \in claimed
      BY <1>1, <2>1, <2>2, DequeuedIs
    <3>2. [f EXCEPT !.want = @ - n, !.ptr = q].want = f.want - n
      BY <1>1 DEF Locals
    <3> QED  BY <2>2, <3>1, <3>2 DEF Find
  <2>4. /\ sizes' \in Seq(Nat) /\ Len(sizes') = Len(sizes) /\ ElementsInv'
        /\ findable' \subseteq findable
        /\ n = sizes[f.ptr] \/ f.ptr \in claimed => f.ptr \notin findable'
    BY <1>1, <1>2, <2>1, <2>2, <2>3, TakeEffect
  <2>5. /\ token' \in Token /\ token'.desired = token.desired
        /\ token'.current = IF n = 0 THEN c ELSE f.ptr
    <3>1. CASE n = 0
      BY <1>1, <2>2, <3>1
    <3>2. CASE n # 0
      <4>1. n \in Nat /\ f.ptr \in Nat
        BY <1>1, <2>3
      <4> QED  BY <1>1, <2>2, <3>2, <4>1 DEF Token
    <3> QED  BY <3>1, <3>2
  <2>6. TokenInv'
    BY <1>1, <2>1, <2>4, <2>5 DEF DequeueInv, TokenInv
  <2>7. CASE n = f.want
    <3>1. f.want - n = 0
      BY <1>1, <2>7
    <3>2. find' \in Locals /\ find'.want = 0 /\ findAt' = "idle"
      BY <2>3, <2>7, <3>1 DEF NotCalled, Locals
    <3>3. DequeueTypes'
      BY <1>2, <2>4, <2>5, <3>2 DEF DequeueInv, DequeueTypes
    <3>4. SearchInv'
      BY <2>4, <3>2 DEF SearchInv, ElementsInv
    <3> QED  BY <2>6, <3>2, <3>3, <3>4 DEF DequeueInv, NothingOverlooked
  <2>8. CASE n # f.want
    <3>1. q = IF f.ptr = 1 THEN f.tail ELSE f.ptr - 1
      BY <1>1, StepBack
    <3>2. q \in 1 .. f.tail
      BY <1>1, <3>1
    <3> HIDE DEF q
    <3>3. f.want - n \in Nat /\ f.want - n > 0
      BY <1>1, <2>3, <2>8
    <3>4. /\ find' \in Locals /\ find'.want = f.want - n /\ find'.ptr = q /\ find'.tail = f.tail
          /\ findAt' = "others"
      <4>1. q \in Nat
        BY <3>2
      <4> QED  BY <1>1, <2>3, <2>8, <3>3, <4>1 DEF Locals, q
    <3>5. DequeueTypes'
      BY <1>2, <2>4, <2>5, <3>4 DEF DequeueInv, DequeueTypes, Tokened
    <3>6. ASSUME NEW p \in findable'
          PROVE  p =< f.tail /\ p \notin Passed(token'.current, q)
      <4>1. p \in findable /\ p # f.ptr /\ p =< f.tail /\ p \in Nat /\ p > 0 /\ p \notin Passed(c, f.ptr)
        BY <1>1, <2>3, <2>4, <2>8, SMTT(20) DEF ElementsInv
      <4>3. CASE n = 0
        BY <1>1, <1>4, <2>5, <3>1, <3>2, <4>1, <4>3 DEF Passed
      <4>4. CASE n # 0
        BY <1>1, <1>4, <2>5, <3>1, <3>2, <4>1, <4>4 DEF Passed
      <4> QED  BY <4>3, <4>4
    <3>8. SearchInv'
      <4>1. token'.current # 0 /\ token'.current =< f.tail /\ f.tail =< Len(sizes')
        BY <1>1, <2>4, <2>5
      <4>2. \A p \in findable' : p =< find'.tail /\ p \notin Passed(token'.current, find'.ptr)
        BY <3>4, <3>6
      <4> QED  BY <2>4, <3>2, <3>3, <3>4, <4>1, <4>2 DEF SearchInv, ElementsInv
    <3> QED  BY <2>6, <3>4, <3>5, <3>8 DEF DequeueInv, NothingOverlooked
  <2> QED  BY <2>7, <2>8
<1> QED  BY <1>3, <1>4

(* Every step keeps the invariant of the search.                            *)
LEMMA DequeueNextInv ==
  ASSUME DequeueInv, [DequeueNext]_dequeueVars
  PROVE  DequeueInv'
<1>1. CASE DequeueNext
  BY <1>1, ListStep, SizesStep, StartStep, ScoreTailStep, ScoreStep, BestStep, RestStep, OffsetStep, RotateStep,
     TakeCurrentStep, AnnounceStep, OthersTailStep, TakeOtherStep
  DEF DequeueNext, DequeueCaller, FindStep
<1>2. CASE UNCHANGED dequeueVars
  BY <1>2 DEF dequeueVars, DequeueInv, DequeueTypes, TokenInv, SearchInv, NothingOverlooked, ElementsInv
<1> QED  BY <1>1, <1>2

(* A call of try_dequeue that returns less than it was asked for has not    *)
(* passed over a producer that had elements all through the call and that   *)
(* no other consumer had a claim on meanwhile: each was empty or contended  *)
(* once, for any number of producers that join meanwhile and any sizes      *)
(* (try_dequeue, try_dequeue_non_interleaved, try_dequeue with a token and  *)
(* their bulk forms).                                                       *)
THEOREM ConsumerOverlooksNothing == DequeueSpec => []NothingOverlooked
<1>1. DequeueInv => NothingOverlooked
  BY DEF DequeueInv
<1> QED  BY <1>1, DequeueInitInv, DequeueNextInv, PTL DEF DequeueSpec

-----------------------------------------------------------------------------
(* Who gets which producer (ProducerHash).                                  *)

(* An entry of a hash table.                                                *)
Entry == [key : HashThreads \union {NoThread}, value : Nat]

(* A hash table.                                                            *)
Table == UNION {[0 .. c - 1 -> Entry] : c \in Nat \ {0}}

(* A producer in the list.                                                  *)
ProducerNode == [isExplicit : BOOLEAN, inactive : BOOLEAN]

(* The locals of get_or_add_implicit_producer and                           *)
(* recycle_or_create_producer.                                              *)
HashLocals == [main : Nat, table : Nat, steps : Nat, newCount : Int, ptr : Nat, value : Nat]

(* What the variables of the tables and of the list hold.                   *)
HashTypes ==
  /\ producers \in Seq(ProducerNode) /\ tables \in Seq(Table) /\ Len(tables) > 0
  /\ hashCount \in Int
  /\ DOMAIN hashAt = Threads /\ hashLocal \in [Threads -> HashLocals]
  /\ acquired \in [Threads -> SUBSET Nat]

(* Thread t has no entry in the table.                                      *)
KeyAbsent(table, t) == \A s \in DOMAIN table : table[s].key # t

(* The producers of the threads, own: each its own, and none a token's.     *)
OwnersDiffer(own, list) ==
  /\ \A t \in HashThreads : own[t] # 0 => own[t] \in 1 .. Len(list) /\ ~list[own[t]].isExplicit
  /\ \A t, u \in HashThreads : t # u /\ own[t] # 0 => own[t] # own[u]

(* Probing for thread t comes to slot s: there is no free slot before it.   *)
Reachable(table, t, s) ==
  \E k \in Nat : /\ s = Slot(table, t, k)
                 /\ \A j \in 0 .. k - 1 : table[Slot(table, t, j)].key # NoThread

(* A table leads every thread that has an entry to its producer.            *)
EntriesOf(own, table) ==
  \A s \in DOMAIN table : table[s].key # NoThread =>
    table[s].value = own[table[s].key] /\ Reachable(table, table[s].key, s)

(* Where a thread is that has found no entry of its own.                    *)
Unregistered == {"count", "resize?", "resize", "unlock", "room", "look", "create"}

(* Where thread t without a token is: it was given nothing but its own      *)
(* producer, and that only once a table has its entry; the probing has met  *)
(* neither a free slot nor its entry in the table it is in, and there is    *)
(* none in the tables before it; when it has looked through all of them, no *)
(* table has one.                                                           *)
HashThreadOk(own, tabs, list, got, t, at, l) ==
  /\ at \in {"idle", "probe", "insert"} \union Unregistered
  /\ got \subseteq {own[t]} \ {0}
  /\ got # {} => \E i \in 1 .. Len(tabs) : ~KeyAbsent(tabs[i], t)
  /\ at # "idle" => l.main \in 1 .. Len(tabs)
  /\ at = "probe" =>
       /\ l.table \in 1 .. Len(tabs)
       /\ \A i \in l.table + 1 .. Len(tabs) : KeyAbsent(tabs[i], t)
       /\ \A j \in 0 .. l.steps - 1 :
            tabs[l.table][Slot(tabs[l.table], t, j)].key \notin {t, NoThread}
  /\ at \in Unregistered => \A i \in 1 .. Len(tabs) : KeyAbsent(tabs[i], t)
  /\ at = "insert" =>
       /\ l.value = own[t]
       /\ \A j \in 0 .. l.steps - 1 : tabs[l.main][Slot(tabs[l.main], t, j)].key # NoThread
  /\ at = "look" => l.ptr =< Len(list)

(* Where a thread with a token is: it has at most one producer, which is    *)
(* explicit and not for the taking, and none while it looks for one.        *)
TokenThreadOk(list, got, at, l) ==
  /\ at \in {"idle", "look", "catch", "create"}
  /\ \A p \in got : p \in 1 .. Len(list) /\ list[p].isExplicit /\ ~list[p].inactive
  /\ \A p, q \in got : p = q
  /\ at # "idle" => got = {}
  /\ at = "look" => l.ptr =< Len(list)
  /\ at = "catch" => l.ptr \in 1 .. Len(list) /\ list[l.ptr].isExplicit

(* Only a token's producer goes back to the list.                           *)
ImplicitStay(list) == \A p \in 1 .. Len(list) : list[p].inactive => list[p].isExplicit

(* The tokens, and the list they take from.                                 *)
TokensInv ==
  /\ ImplicitStay(producers)
  /\ \A t \in TokenThreads : TokenThreadOk(producers, acquired[t], hashAt[t], hashLocal[t])
  /\ \A t, u \in TokenThreads : t # u => acquired[t] \intersect acquired[u] = {}

(* The producers of the threads are own.                                    *)
Owns(own) ==
  /\ own \in [HashThreads -> Nat]
  /\ OwnersDiffer(own, producers)
  /\ \A i \in 1 .. Len(tables) : EntriesOf(own, tables[i])
  /\ \A t \in HashThreads :
       HashThreadOk(own, tables, producers, acquired[t], t, hashAt[t], hashLocal[t])

(* The inductive invariant of ProducerHash: there are producers of the      *)
(* threads' own such that every table and every thread keeps to them.       *)
HashInv == HashTypes /\ TokensInv /\ \E own \in [HashThreads -> Nat] : Owns(own)

(* A table has entries in the slots from 0 to its capacity.                 *)
LEMMA TableShape ==
  ASSUME NEW table \in Table
  PROVE  /\ Capacity(table) \in Nat \ {0} /\ DOMAIN table = 0 .. Capacity(table) - 1
         /\ \A s \in DOMAIN table : table[s] \in Entry
<1>1. PICK c \in Nat \ {0} : table \in [0 .. c - 1 -> Entry]
  BY DEF Table
<1>2. DOMAIN table = 0 .. c - 1 /\ \A s \in DOMAIN table : table[s] \in Entry
  BY <1>1
<1>3. Cardinality(0 .. c - 1) = c
  BY FS_Interval
<1> QED  BY <1>2, <1>3 DEF Capacity

(* A remainder, as an interval.                                             *)
LEMMA ModulusIn ==
  ASSUME NEW a \in Int, NEW c \in Nat \ {0}
  PROVE  a % c \in 0 .. c - 1
OBVIOUS

(* Probing stays in the table.                                              *)
LEMMA SlotIn ==
  ASSUME NEW table \in Table, NEW t \in HashThreads, NEW k \in Nat
  PROVE  Slot(table, t, k) \in DOMAIN table
<1>1. HashedId[t] + k \in Int
  BY HashConstants
<1>2. (HashedId[t] + k) % Capacity(table) \in 0 .. Capacity(table) - 1
  BY <1>1, TableShape, ModulusIn
<1> QED  BY <1>2, TableShape DEF Slot

(* A new table has no entries.                                              *)
LEMMA EmptyIs ==
  ASSUME NEW c \in Nat \ {0}
  PROVE  EmptyTable(c) \in Table /\ \A t \in HashThreads : KeyAbsent(EmptyTable(c), t)
<1>1. EmptyTable(c) \in [0 .. c - 1 -> Entry]
  BY DEF EmptyTable, Entry
<1>2. \A t \in HashThreads : t # NoThread
  BY HashConstants DEF Threads
<1>3. ASSUME NEW t \in HashThreads PROVE KeyAbsent(EmptyTable(c), t)
  BY <1>2 DEF EmptyTable, KeyAbsent
<1> QED  BY <1>1, <1>3 DEF Table

(* A probing that meets a free slot has passed every slot where the entry   *)
(* could be, since a table is never emptied.                                *)
LEMMA ProbingEnds ==
  ASSUME NEW table \in Table, NEW t \in HashThreads, NEW own, EntriesOf(own, table), NEW k \in Nat,
         \A j \in 0 .. k - 1 : table[Slot(table, t, j)].key # t,
         table[Slot(table, t, k)].key = NoThread
  PROVE  KeyAbsent(table, t)
<1> SUFFICES ASSUME NEW s \in DOMAIN table, table[s].key = t PROVE FALSE
  BY DEF KeyAbsent
<1>1. t # NoThread
  BY HashConstants DEF Threads
<1>2. PICK n \in Nat : /\ s = Slot(table, t, n)
                       /\ \A j \in 0 .. n - 1 : table[Slot(table, t, j)].key # NoThread
  BY <1>1 DEF EntriesOf, Reachable
<1>3. CASE n < k
  BY <1>2, <1>3
<1>4. CASE n = k
  BY <1>1, <1>2, <1>4
<1>5. CASE k < n
  BY <1>2, <1>5
<1> QED  BY <1>3, <1>4, <1>5

(* What a step of u does to the tables: free slots become its own, tables   *)
(* with no entries are put in front.                                        *)
Grown(tabs, new, u) ==
  /\ Len(tabs) =< Len(new)
  /\ \A i \in 1 .. Len(tabs) :
       /\ DOMAIN new[i] = DOMAIN tabs[i]
       /\ \A s \in DOMAIN tabs[i] :
            new[i][s] = tabs[i][s] \/ (tabs[i][s].key = NoThread /\ new[i][s].key = u)
  /\ \A i \in Len(tabs) + 1 .. Len(new) : \A t \in HashThreads : KeyAbsent(new[i], t)

(* Nothing is such a step too.                                              *)
LEMMA GrownSame == ASSUME NEW tabs \in Seq(Table), NEW u PROVE Grown(tabs, tabs, u)
BY DEF Grown

(* The slots depend on the capacity alone.                                  *)
LEMMA SameSlots ==
  ASSUME NEW one, NEW two, DOMAIN one = DOMAIN two, NEW t, NEW k
  PROVE  Slot(one, t, k) = Slot(two, t, k)
BY DEF Slot, Capacity

(* Such a step leaves every other thread where it is, whatever it has       *)
(* looked through so far: this is why a table need not be locked.           *)
LEMMA OthersKeep ==
  ASSUME NEW tabs \in Seq(Table), NEW new \in Seq(Table),
         NEW u, NEW t \in HashThreads, t # u, u # NoThread,
         Grown(tabs, new, u), NEW own, NEW own2, own2[t] = own[t], NEW list, NEW list2,
         Len(list) \in Nat, Len(list2) \in Nat, Len(list) =< Len(list2),
         NEW got, NEW at, NEW l \in HashLocals, HashThreadOk(own, tabs, list, got, t, at, l)
  PROVE  HashThreadOk(own2, new, list2, got, t, at, l)
<1>1. t # NoThread /\ Len(tabs) \in Nat /\ Len(new) \in Nat /\ Len(tabs) =< Len(new)
  BY HashConstants DEF Threads, Grown
<1>2. \A i \in 1 .. Len(tabs) : tabs[i] \in Table
  OBVIOUS
<1>3. ASSUME NEW i \in 1 .. Len(new), i \in 1 .. Len(tabs) => KeyAbsent(tabs[i], t)
      PROVE  KeyAbsent(new[i], t)
  <2>1. CASE i \in 1 .. Len(tabs)
    BY <1>3, <2>1 DEF Grown, KeyAbsent
  <2>2. CASE i \notin 1 .. Len(tabs)
    BY <1>1, <2>2 DEF Grown
  <2> QED  BY <2>1, <2>2
<1>4. ASSUME NEW i \in 1 .. Len(tabs), ~KeyAbsent(tabs[i], t)
      PROVE  ~KeyAbsent(new[i], t)
  BY <1>1, <1>4 DEF Grown, KeyAbsent
<1>5. ASSUME NEW i \in 1 .. Len(tabs), NEW j \in Nat
      PROVE  tabs[i][Slot(tabs[i], t, j)].key # NoThread =>
               new[i][Slot(new[i], t, j)].key = tabs[i][Slot(tabs[i], t, j)].key
  <2>1. Slot(tabs[i], t, j) \in DOMAIN tabs[i] /\ Slot(new[i], t, j) = Slot(tabs[i], t, j)
    BY <1>2, SlotIn, SameSlots DEF Grown
  <2> QED  BY <2>1 DEF Grown
<1>6. at \in {"idle", "probe", "insert"} \union Unregistered /\ got \subseteq {own2[t]} \ {0}
  BY DEF HashThreadOk
<1>7. got # {} => \E i \in 1 .. Len(new) : ~KeyAbsent(new[i], t)
  BY <1>1, <1>4 DEF HashThreadOk
<1>8. at # "idle" => l.main \in 1 .. Len(new)
  BY <1>1 DEF HashThreadOk
<1>9. ASSUME at = "probe"
      PROVE  /\ l.table \in 1 .. Len(new)
             /\ \A i \in l.table + 1 .. Len(new) : KeyAbsent(new[i], t)
             /\ \A j \in 0 .. l.steps - 1 :
                  new[l.table][Slot(new[l.table], t, j)].key \notin {t, NoThread}
  <2>1. /\ l.table \in 1 .. Len(tabs) /\ l.steps \in Nat
        /\ \A i \in l.table + 1 .. Len(tabs) : KeyAbsent(tabs[i], t)
        /\ \A j \in 0 .. l.steps - 1 :
             tabs[l.table][Slot(tabs[l.table], t, j)].key \notin {t, NoThread}
    BY <1>9 DEF HashThreadOk, HashLocals
  <2>2. ASSUME NEW i \in l.table + 1 .. Len(new) PROVE KeyAbsent(new[i], t)
    <3>1. i \in 1 .. Len(new) /\ (i \in 1 .. Len(tabs) => i \in l.table + 1 .. Len(tabs))
      BY <1>1, <2>1
    <3> QED  BY <1>3, <2>1, <3>1
  <2>3. ASSUME NEW j \in 0 .. l.steps - 1
        PROVE  new[l.table][Slot(new[l.table], t, j)].key \notin {t, NoThread}
    <3>1. j \in Nat /\ tabs[l.table][Slot(tabs[l.table], t, j)].key \notin {t, NoThread}
      BY <2>1
    <3>2. new[l.table][Slot(new[l.table], t, j)].key = tabs[l.table][Slot(tabs[l.table], t, j)].key
      BY <1>5, <2>1, <3>1
    <3> QED  BY <3>1, <3>2
  <2> QED  BY <1>1, <2>1, <2>2, <2>3
<1>10. at \in Unregistered => \A i \in 1 .. Len(new) : KeyAbsent(new[i], t)
  BY <1>3 DEF HashThreadOk
<1>11. ASSUME at = "insert"
       PROVE  /\ l.value = own2[t]
              /\ \A j \in 0 .. l.steps - 1 : new[l.main][Slot(new[l.main], t, j)].key # NoThread
  <2>1. /\ l.main \in 1 .. Len(tabs) /\ l.steps \in Nat /\ l.value = own[t]
        /\ \A j \in 0 .. l.steps - 1 : tabs[l.main][Slot(tabs[l.main], t, j)].key # NoThread
    BY <1>11 DEF HashThreadOk, HashLocals
  <2>2. ASSUME NEW j \in 0 .. l.steps - 1
        PROVE  new[l.main][Slot(new[l.main], t, j)].key # NoThread
    <3>1. j \in Nat /\ tabs[l.main][Slot(tabs[l.main], t, j)].key # NoThread
      BY <2>1
    <3> QED  BY <1>5, <2>1, <3>1
  <2> QED  BY <2>1, <2>2
<1>12. at = "look" => l.ptr =< Len(list2)
  BY DEF HashThreadOk, HashLocals
<1> QED  BY <1>6, <1>7, <1>8, <1>9, <1>10, <1>11, <1>12 DEF HashThreadOk

(* A step of t keeps the invariant if it keeps t and the tables to          *)
(* producers of their own.                                                  *)
LEMMA OwnsKept ==
  ASSUME HashTypes, HashTypes', NEW t \in Threads, NEW own, Owns(own),
         NEW own2 \in [HashThreads -> Nat], \A u \in HashThreads : u # t => own2[u] = own[u],
         Grown(tables, tables', t), Len(producers) =< Len(producers'),
         \A u \in HashThreads : u # t => /\ acquired'[u] = acquired[u] /\ hashAt'[u] = hashAt[u]
                                         /\ hashLocal'[u] = hashLocal[u],
         OwnersDiffer(own2, producers'),
         \A i \in 1 .. Len(tables') : EntriesOf(own2, tables'[i]),
         t \in HashThreads =>
           HashThreadOk(own2, tables', producers', acquired'[t], t, hashAt'[t], hashLocal'[t])
  PROVE  \E o \in [HashThreads -> Nat] : Owns(o)'
<1>1. t # NoThread
  BY HashConstants
<1>2. /\ tables \in Seq(Table) /\ tables' \in Seq(Table)
      /\ producers \in Seq(ProducerNode) /\ producers' \in Seq(ProducerNode)
  BY DEF HashTypes
<1>3. Len(producers) \in Nat /\ Len(producers') \in Nat
  BY <1>2
<1>4. ASSUME NEW u \in HashThreads, u # t
      PROVE  HashThreadOk(own2, tables', producers', acquired'[u], u, hashAt'[u], hashLocal'[u])
  <2>1. hashLocal[u] \in HashLocals
    BY DEF HashTypes, Threads
  <2>2. HashThreadOk(own, tables, producers, acquired[u], u, hashAt[u], hashLocal[u])
    BY DEF Owns
  <2>3. /\ own2[u] = own[u] /\ acquired'[u] = acquired[u] /\ hashAt'[u] = hashAt[u]
        /\ hashLocal'[u] = hashLocal[u]
    BY <1>4
  <2>4. HashThreadOk(own2, tables', producers', acquired[u], u, hashAt[u], hashLocal[u])
    BY <1>1, <1>2, <1>3, <1>4, <2>1, <2>2, <2>3, OthersKeep
  <2> QED  BY <2>3, <2>4
<1>5. \A u \in HashThreads :
        HashThreadOk(own2, tables', producers', acquired'[u], u, hashAt'[u], hashLocal'[u])
  BY <1>4
<1>6. Owns(own2)'
  BY <1>5 DEF Owns
<1> QED  BY <1>6

(* A step of t keeps the tokens apart if it takes no producer another token *)
(* holds.                                                                   *)
LEMMA TokensKept ==
  ASSUME HashTypes, TokensInv, NEW t \in Threads, Len(producers) \in Nat, Len(producers') \in Nat,
         ImplicitStay(producers'), Len(producers) =< Len(producers'),
         \A p \in 1 .. Len(producers) : producers'[p].isExplicit = producers[p].isExplicit,
         \A u \in TokenThreads : u # t =>
           /\ acquired'[u] = acquired[u] /\ hashAt'[u] = hashAt[u] /\ hashLocal'[u] = hashLocal[u]
           /\ \A p \in acquired[u] : ~producers'[p].inactive,
         t \in TokenThreads =>
           /\ TokenThreadOk(producers', acquired'[t], hashAt'[t], hashLocal'[t])
           /\ \A u \in TokenThreads : u # t => acquired'[t] \intersect acquired[u] = {}
  PROVE  TokensInv'
<1>1. ASSUME NEW u \in TokenThreads, u # t
      PROVE  TokenThreadOk(producers', acquired'[u], hashAt'[u], hashLocal'[u])
  <2>1. hashLocal[u] \in HashLocals
    BY DEF HashTypes, Threads
  <2>2. TokenThreadOk(producers, acquired[u], hashAt[u], hashLocal[u])
    BY DEF TokensInv
  <2>3. hashLocal[u].ptr \in Nat
    BY <2>1 DEF HashLocals
  <2>4. \A p \in acquired[u] :
          p \in 1 .. Len(producers') /\ producers'[p].isExplicit /\ ~producers'[p].inactive
    BY <1>1, <2>2 DEF TokenThreadOk
  <2>5. hashAt[u] = "look" => hashLocal[u].ptr =< Len(producers')
    BY <2>2, <2>3 DEF TokenThreadOk
  <2>6. hashAt[u] = "catch" =>
          hashLocal[u].ptr \in 1 .. Len(producers') /\ producers'[hashLocal[u].ptr].isExplicit
    BY <2>2, <2>3 DEF TokenThreadOk
  <2>7. TokenThreadOk(producers', acquired[u], hashAt[u], hashLocal[u])
    BY <2>2, <2>4, <2>5, <2>6 DEF TokenThreadOk
  <2> QED  BY <1>1, <2>7
<1>2. \A u \in TokenThreads : TokenThreadOk(producers', acquired'[u], hashAt'[u], hashLocal'[u])
  BY <1>1
<1>3. ASSUME NEW u \in TokenThreads, NEW v \in TokenThreads, u # v
      PROVE  acquired'[u] \intersect acquired'[v] = {}
  BY <1>3 DEF TokensInv
<1> QED  BY <1>2, <1>3 DEF TokensInv

(* The next access of thread t, and its locals.                             *)
LEMMA GoTypes ==
  ASSUME HashTypes, NEW t \in Threads, NEW at, NEW local \in HashLocals, GoHash(t, at, local)
  PROVE  /\ DOMAIN hashAt' = Threads /\ hashLocal' \in [Threads -> HashLocals]
         /\ hashAt'[t] = at /\ hashLocal'[t] = local
         /\ \A u \in Threads : u # t => hashAt'[u] = hashAt[u] /\ hashLocal'[u] = hashLocal[u]
BY DEF HashTypes, GoHash

(* A step that leaves the tables and the list alone.                        *)
LEMMA LocalStep ==
  ASSUME HashInv, NEW t \in Threads, NEW at, NEW local \in HashLocals, GoHash(t, at, local),
         UNCHANGED <<producers, tables>>, hashCount' \in Int,
         acquired' \in [Threads -> SUBSET Nat], \A u \in Threads : u # t => acquired'[u] = acquired[u],
         t \in HashThreads => \A own \in [HashThreads -> Nat] : Owns(own) =>
           HashThreadOk(own, tables, producers, acquired'[t], t, at, local),
         t \in TokenThreads =>
           acquired'[t] = acquired[t] /\ TokenThreadOk(producers, acquired[t], at, local)
  PROVE  HashInv'
<1>1. HashTypes /\ TokensInv
  BY DEF HashInv
<1>2. /\ DOMAIN hashAt' = Threads /\ hashLocal' \in [Threads -> HashLocals]
      /\ hashAt'[t] = at /\ hashLocal'[t] = local
      /\ \A u \in Threads : u # t => hashAt'[u] = hashAt[u] /\ hashLocal'[u] = hashLocal[u]
  BY <1>1, GoTypes
<1>3. HashTypes'
  BY <1>1, <1>2 DEF HashTypes
<1>4. Len(producers) \in Nat /\ Len(producers') = Len(producers) /\ tables \in Seq(Table)
  BY <1>1 DEF HashTypes
<1>5. TokensInv'
  <2>1. ImplicitStay(producers')
    BY <1>1 DEF TokensInv
  <2>2. \A u \in TokenThreads : u # t =>
           /\ acquired'[u] = acquired[u] /\ hashAt'[u] = hashAt[u] /\ hashLocal'[u] = hashLocal[u]
           /\ \A p \in acquired[u] : ~producers'[p].inactive
    BY <1>1, <1>2 DEF TokensInv, TokenThreadOk, Threads
  <2>3. ASSUME t \in TokenThreads
        PROVE  /\ TokenThreadOk(producers', acquired'[t], hashAt'[t], hashLocal'[t])
               /\ \A u \in TokenThreads : u # t => acquired'[t] \intersect acquired[u] = {}
    BY <1>1, <1>2, <2>3 DEF TokensInv
  <2> QED  BY <1>1, <1>4, <2>1, <2>2, <2>3, TokensKept
<1>6. PICK own \in [HashThreads -> Nat] : Owns(own)
  BY DEF HashInv
<1>7. \E o \in [HashThreads -> Nat] : Owns(o)'
  <2>1. Grown(tables, tables', t)
    BY <1>4, GrownSame
  <2>2. OwnersDiffer(own, producers') /\ \A i \in 1 .. Len(tables') : EntriesOf(own, tables'[i])
    BY <1>6 DEF Owns
  <2>3. \A u \in HashThreads : u # t => /\ acquired'[u] = acquired[u] /\ hashAt'[u] = hashAt[u]
                                        /\ hashLocal'[u] = hashLocal[u]
    BY <1>2 DEF Threads
  <2>4. t \in HashThreads =>
          HashThreadOk(own, tables', producers', acquired'[t], t, hashAt'[t], hashLocal'[t])
    BY <1>2, <1>6
  <2> QED  BY <1>1, <1>3, <1>4, <1>6, <2>1, <2>2, <2>3, <2>4, OwnsKept
<1> QED  BY <1>3, <1>5, <1>7 DEF HashInv

(* At first there is one table with no entries, and no producer.            *)
LEMMA HashInitInv == HashInit => HashInv
<1> SUFFICES ASSUME HashInit PROVE HashInv
  OBVIOUS
<1>1. /\ EmptyTable(InitialHashSize) \in Table
      /\ \A t \in HashThreads : KeyAbsent(EmptyTable(InitialHashSize), t)
  BY EmptyIs DEF InitialHashSize
<1>2. Blank \in HashLocals
  BY DEF Blank, HashLocals
<1>3. HashTypes
  BY <1>1, <1>2 DEF HashInit, HashTypes
<1>4. TokensInv
  BY DEF HashInit, TokensInv, TokenThreadOk, ImplicitStay, Threads
<1> DEFINE own == [t \in HashThreads |-> 0]
<1>5. OwnersDiffer(own, producers)
  BY DEF OwnersDiffer
<1>6. \A i \in 1 .. Len(tables) : EntriesOf(own, tables[i])
  <2>1. Len(tables) = 1 /\ tables[1] = EmptyTable(InitialHashSize)
    BY DEF HashInit
  <2>2. \A s \in DOMAIN EmptyTable(InitialHashSize) : EmptyTable(InitialHashSize)[s].key = NoThread
    BY DEF EmptyTable
  <2> QED  BY <2>1, <2>2 DEF EntriesOf
<1>7. ASSUME NEW t \in HashThreads
      PROVE  HashThreadOk(own, tables, producers, acquired[t], t, hashAt[t], hashLocal[t])
  BY DEF HashInit, HashThreadOk, Threads, Unregistered
<1>8. own \in [HashThreads -> Nat] /\ Owns(own)
  BY <1>5, <1>6, <1>7 DEF Owns
<1> QED  BY <1>3, <1>4, <1>8 DEF HashInv

(* The locals of a thread between two calls.                                *)
LEMMA BlankIs == Blank \in HashLocals /\ Blank.steps = 0 /\ Blank.table = 0
BY DEF Blank, HashLocals

(* The locals of a call that begins.                                        *)
LEMMA ProbingStarts ==
  ASSUME NEW n \in Nat, NEW local, local = [Blank EXCEPT !.main = n, !.table = n]
  PROVE  local = [main |-> n, table |-> n, steps |-> 0, newCount |-> 0, ptr |-> 0, value |-> 0]
BY DEF Blank

(* A call begins in the current table.                                      *)
LEMMA GetOrAddStep ==
  ASSUME HashInv, NEW t \in HashThreads, GetOrAdd(t)
  PROVE  HashInv'
<1>1. HashTypes /\ Len(tables) \in Nat \ {0} /\ t \in Threads /\ t \notin TokenThreads
  BY HashConstants DEF HashInv, HashTypes, Threads
<1>2. PICK local : local = [Blank EXCEPT !.main = Len(tables), !.table = Len(tables)]
                   /\ GoHash(t, "probe", local)
  BY DEF GetOrAdd
<1>3. /\ local \in HashLocals /\ local.main = Len(tables) /\ local.table = Len(tables)
      /\ local.steps = 0
  <2>1. local = [main |-> Len(tables), table |-> Len(tables), steps |-> 0, newCount |-> 0,
                 ptr |-> 0, value |-> 0]
    BY <1>1, <1>2, ProbingStarts
  <2> QED  BY <1>1, <2>1 DEF HashLocals
<1>6. UNCHANGED <<producers, tables, hashCount, acquired>>
  BY DEF GetOrAdd, sharedHash
<1>4. ASSUME NEW own \in [HashThreads -> Nat], Owns(own)
      PROVE  HashThreadOk(own, tables, producers, acquired'[t], t, "probe", local)
  <2>1. HashThreadOk(own, tables, producers, acquired[t], t, hashAt[t], hashLocal[t])
    BY <1>4 DEF Owns
  <2> QED  BY <1>1, <1>3, <1>6, <2>1 DEF HashThreadOk, Unregistered
<1>5. hashCount' \in Int /\ acquired' \in [Threads -> SUBSET Nat]
  BY <1>1, <1>6 DEF HashTypes
<1> QED  BY <1>1, <1>2, <1>3, <1>4, <1>5, <1>6, LocalStep

(* What the probing meets: the entry of its thread leads to its producer, a *)
(* free slot says that the table has none.                                  *)
LEMMA ProbeFinds ==
  ASSUME HashTypes, NEW t \in HashThreads, NEW own, Owns(own), hashAt[t] = "probe"
  PROVE  LET l == hashLocal[t]
             entry == tables[l.table][Slot(tables[l.table], t, l.steps)]
         IN  /\ l \in HashLocals /\ l.table \in 1 .. Len(tables) /\ l.main \in 1 .. Len(tables)
             /\ entry \in Entry
             /\ entry.key = t => entry.value = own[t] /\ ~KeyAbsent(tables[l.table], t)
             /\ entry.key = NoThread => KeyAbsent(tables[l.table], t)
<1> DEFINE l == hashLocal[t]
           table == tables[l.table]
           slot == Slot(table, t, l.steps)
<1>1. l \in HashLocals /\ l.steps \in Nat /\ t # NoThread
  BY HashConstants DEF HashTypes, HashLocals, Threads
<1>2. /\ l.table \in 1 .. Len(tables) /\ l.main \in 1 .. Len(tables)
      /\ \A j \in 0 .. l.steps - 1 : table[Slot(table, t, j)].key \notin {t, NoThread}
  BY DEF Owns, HashThreadOk
<1>3. table \in Table /\ EntriesOf(own, table)
  BY <1>2 DEF HashTypes, Owns
<1>4. slot \in DOMAIN table /\ table[slot] \in Entry
  BY <1>1, <1>3, SlotIn, TableShape
<1> HIDE DEF table, l
<1>5. table[slot].key = t => table[slot].value = own[t] /\ ~KeyAbsent(table, t)
  BY <1>1, <1>3, <1>4 DEF EntriesOf, KeyAbsent
<1>6. table[slot].key = NoThread => KeyAbsent(table, t)
  BY <1>1, <1>2, <1>3, ProbingEnds
<1> QED  BY <1>1, <1>2, <1>4, <1>5, <1>6 DEF l, table

(* An access to a slot: the producer is found, or an older table has it, or *)
(* is searched next, or none has it.                                        *)
LEMMA ProbeStep ==
  ASSUME HashInv, NEW t \in HashThreads, Probe(t)
  PROVE  HashInv'
<1> DEFINE l == hashLocal[t]
           table == tables[l.table]
           entry == table[Slot(table, t, l.steps)]
<1>1. HashTypes /\ Len(tables) \in Nat \ {0} /\ t \in Threads /\ t \notin TokenThreads /\ t # NoThread
  BY HashConstants DEF HashInv, HashTypes, Threads
<1>2. hashAt[t] = "probe" /\ UNCHANGED <<producers, tables, hashCount>>
  BY DEF Probe, sharedHash
<1>3. ASSUME NEW own \in [HashThreads -> Nat], Owns(own)
      PROVE  /\ l \in HashLocals /\ l.table \in 1 .. Len(tables) /\ l.main \in 1 .. Len(tables)
             /\ entry \in Entry
             /\ entry.key = t => entry.value = own[t] /\ ~KeyAbsent(table, t)
             /\ entry.key = NoThread => KeyAbsent(table, t)
             /\ HashThreadOk(own, tables, producers, acquired[t], t, "probe", l)
  BY <1>1, <1>2, <1>3, ProbeFinds DEF Owns
<1>4. PICK o \in [HashThreads -> Nat] : Owns(o)
  BY DEF HashInv
<1>5. l \in HashLocals /\ entry \in Entry /\ l.table \in Nat \ {0} /\ l.steps \in Nat /\ l.main \in Nat
  BY <1>3, <1>4 DEF HashLocals
<1>6. CASE entry.key = t /\ l.table = l.main
  <2>1. Give(t, entry.value)
    BY <1>1, <1>6 DEF Probe
  <2>2. GoHash(t, "idle", Blank) /\ acquired' = [acquired EXCEPT ![t] = @ \union ({entry.value} \ {0})]
    BY <2>1 DEF Give
  <2>3. Blank \in HashLocals /\ entry.value \in Nat
    BY <1>5 DEF Blank, HashLocals, Entry
  <2>4. /\ acquired' \in [Threads -> SUBSET Nat] /\ \A u \in Threads : u # t => acquired'[u] = acquired[u]
        /\ acquired'[t] = acquired[t] \union ({entry.value} \ {0})
    BY <1>1, <2>2, <2>3 DEF HashTypes
  <2>5. ASSUME NEW own \in [HashThreads -> Nat], Owns(own)
        PROVE  HashThreadOk(own, tables, producers, acquired'[t], t, "idle", Blank)
    <3>1. /\ entry.value = own[t] /\ ~KeyAbsent(table, t) /\ l.table \in 1 .. Len(tables)
          /\ acquired[t] \subseteq {own[t]} \ {0}
      BY <1>3, <1>6, <2>5 DEF HashThreadOk
    <3> QED  BY <2>4, <3>1 DEF HashThreadOk, Unregistered
  <2> HIDE DEF l, entry, table
  <2>6. hashCount' \in Int
    BY <1>1, <1>2 DEF HashTypes
  <2> QED  BY <1>1, <1>2, <2>2, <2>3, <2>4, <2>5, <2>6, LocalStep
<1>7. ASSUME NEW at, NEW local \in HashLocals, GoHash(t, at, local), UNCHANGED acquired,
             \A own \in [HashThreads -> Nat] : Owns(own) =>
               HashThreadOk(own, tables, producers, acquired[t], t, at, local)
      PROVE  HashInv'
  <2>1. hashCount' \in Int /\ acquired' \in [Threads -> SUBSET Nat]
    BY <1>1, <1>2, <1>7 DEF HashTypes
  <2> HIDE DEF l, entry, table
  <2> QED  BY <1>1, <1>2, <1>7, <2>1, LocalStep
<1>8. CASE entry.key = t /\ l.table # l.main
  <2> DEFINE local == [l EXCEPT !.steps = 0, !.value = entry.value]
  <2>1. GoHash(t, "insert", local) /\ UNCHANGED acquired
    BY <1>1, <1>8 DEF Probe, historyHash
  <2>2. local \in HashLocals /\ local.steps = 0 /\ local.value = entry.value /\ local.main = l.main
    BY <1>5 DEF HashLocals, Entry
  <2> HIDE DEF local
  <2>3. ASSUME NEW own \in [HashThreads -> Nat], Owns(own)
        PROVE  HashThreadOk(own, tables, producers, acquired[t], t, "insert", local)
    <3>1. /\ entry.value = own[t] /\ l.main \in 1 .. Len(tables)
          /\ HashThreadOk(own, tables, producers, acquired[t], t, "probe", l)
      BY <1>3, <1>8, <2>3
    <3> QED  BY <2>2, <3>1 DEF HashThreadOk, Unregistered
  <2> QED  BY <1>7, <2>1, <2>2, <2>3
<1>9. CASE entry.key = NoThread /\ OlderTable(l) # 0
  <2> DEFINE local == [l EXCEPT !.table = OlderTable(l), !.steps = 0]
  <2>1. GoHash(t, "probe", local) /\ UNCHANGED acquired
    BY <1>1, <1>9 DEF Probe, historyHash
  <2>2. /\ local \in HashLocals /\ local.steps = 0 /\ local.table = l.table - 1 /\ local.main = l.main
        /\ l.table - 1 # 0
    <3>1. OlderTable(l) = l.table - 1 /\ OlderTable(l) \in Nat
      BY <1>5 DEF OlderTable
    <3>2. ASSUME NEW n \in Nat, NEW m, m = [l EXCEPT !.table = n, !.steps = 0]
          PROVE  m \in HashLocals /\ m.steps = 0 /\ m.table = n /\ m.main = l.main
      <4> HIDE DEF l, table, entry
      <4> QED  BY <1>5, <3>2 DEF HashLocals
    <3> QED  BY <1>9, <3>1, <3>2
  <2> HIDE DEF local
  <2>3. ASSUME NEW own \in [HashThreads -> Nat], Owns(own)
        PROVE  HashThreadOk(own, tables, producers, acquired[t], t, "probe", local)
    <3>1. /\ KeyAbsent(table, t) /\ l.main \in 1 .. Len(tables) /\ l.table \in 1 .. Len(tables)
          /\ HashThreadOk(own, tables, producers, acquired[t], t, "probe", l)
      BY <1>3, <1>9, <2>3
    <3>2. \A i \in l.table .. Len(tables) : KeyAbsent(tables[i], t)
      BY <3>1 DEF HashThreadOk
    <3> QED  BY <1>5, <2>2, <3>1, <3>2, SMTT(20) DEF HashThreadOk, Unregistered
  <2> QED  BY <1>7, <2>1, <2>2, <2>3
<1>10. CASE entry.key = NoThread /\ OlderTable(l) = 0
  <2> DEFINE local == [l EXCEPT !.steps = 0]
  <2>1. GoHash(t, "count", local) /\ UNCHANGED acquired
    BY <1>1, <1>10 DEF Probe, historyHash
  <2>2. local \in HashLocals /\ local.main = l.main /\ l.table = 1
    BY <1>5, <1>10 DEF HashLocals, OlderTable
  <2> HIDE DEF local
  <2>3. ASSUME NEW own \in [HashThreads -> Nat], Owns(own)
        PROVE  HashThreadOk(own, tables, producers, acquired[t], t, "count", local)
    <3>1. /\ KeyAbsent(table, t) /\ l.main \in 1 .. Len(tables)
          /\ HashThreadOk(own, tables, producers, acquired[t], t, "probe", l)
      BY <1>3, <1>10, <2>3
    <3>2. \A i \in 1 .. Len(tables) : KeyAbsent(tables[i], t)
      BY <2>2, <3>1 DEF HashThreadOk
    <3>3. acquired[t] = {}
      BY <3>1, <3>2 DEF HashThreadOk
    <3> QED  BY <2>2, <3>1, <3>2, <3>3 DEF HashThreadOk, Unregistered
  <2> QED  BY <1>7, <2>1, <2>2, <2>3
<1>11. CASE entry.key \notin {t, NoThread}
  <2> DEFINE local == [l EXCEPT !.steps = @ + 1]
  <2>1. GoHash(t, "probe", local) /\ UNCHANGED acquired
    BY <1>1, <1>11 DEF Probe, historyHash
  <2>2. local \in HashLocals /\ local.main = l.main /\ local.table = l.table /\ local.steps = l.steps + 1
    BY <1>5 DEF HashLocals
  <2> HIDE DEF local
  <2>3. ASSUME NEW own \in [HashThreads -> Nat], Owns(own)
        PROVE  HashThreadOk(own, tables, producers, acquired[t], t, "probe", local)
    <3>1. HashThreadOk(own, tables, producers, acquired[t], t, "probe", l)
      BY <1>3, <2>3
    <3>2. \A j \in 0 .. local.steps - 1 : table[Slot(table, t, j)].key \notin {t, NoThread}
      <4> SUFFICES ASSUME NEW j \in 0 .. l.steps PROVE table[Slot(table, t, j)].key \notin {t, NoThread}
        BY <1>5, <2>2
      <4>1. CASE j = l.steps
        BY <1>11, <4>1
      <4>2. CASE j # l.steps
        BY <1>5, <3>1, <4>2 DEF HashThreadOk
      <4> QED  BY <4>1, <4>2
    <3> QED  BY <2>2, <3>1, <3>2 DEF HashThreadOk, Unregistered
  <2> QED  BY <1>7, <2>1, <2>2, <2>3
<1> QED  BY <1>6, <1>8, <1>9, <1>10, <1>11

(* The count, the resizing and the wait for room are for threads without a  *)
(* token.                                                                   *)
LEMMA UnregisteredIs ==
  ASSUME HashInv, NEW t \in Threads, hashAt[t] \in Unregistered \ {"look", "create"}
  PROVE  t \in HashThreads /\ t \notin TokenThreads
BY HashConstants DEF HashInv, TokensInv, TokenThreadOk, Unregistered, Threads

(* A thread that has no entry goes on to another place where it need not    *)
(* have one.                                                                *)
LEMMA GoesOn ==
  ASSUME HashInv, NEW t \in HashThreads, hashAt[t] \in Unregistered, NEW at \in Unregistered,
         NEW local \in HashLocals, GoHash(t, at, local), local.main \in 1 .. Len(tables),
         at = "look" => local.ptr =< Len(producers),
         UNCHANGED <<producers, tables, acquired>>, hashCount' \in Int
  PROVE  HashInv'
<1>1. HashTypes /\ t \in Threads /\ t \notin TokenThreads
  BY HashConstants DEF HashInv, Threads
<1>2. ASSUME NEW own \in [HashThreads -> Nat], Owns(own)
      PROVE  HashThreadOk(own, tables, producers, acquired'[t], t, at, local)
  <2>1. HashThreadOk(own, tables, producers, acquired[t], t, hashAt[t], hashLocal[t])
    BY <1>2 DEF Owns
  <2>2. at \notin {"idle", "probe", "insert"}
    BY DEF Unregistered
  <2> QED  BY <2>1, <2>2 DEF HashThreadOk
<1>3. acquired' \in [Threads -> SUBSET Nat]
  BY <1>1 DEF HashTypes
<1> QED  BY <1>1, <1>2, <1>3, LocalStep

(* A thread in a call has a table it takes for the current one.             *)
LEMMA InCallIs ==
  ASSUME HashInv, NEW t \in HashThreads, hashAt[t] # "idle"
  PROVE  /\ hashLocal[t] \in HashLocals /\ hashLocal[t].main \in 1 .. Len(tables)
         /\ hashCount \in Int /\ Len(tables) \in Nat \ {0} /\ Len(producers) \in Nat
<1>1. PICK own \in [HashThreads -> Nat] : Owns(own)
  BY DEF HashInv
<1> QED  BY <1>1 DEF HashInv, HashTypes, Owns, HashThreadOk, Threads

(* The thread is counted before it has an entry.                            *)
LEMMA CountStep ==
  ASSUME HashInv, NEW t \in HashThreads, Count(t)
  PROVE  HashInv'
<1> DEFINE local == [hashLocal[t] EXCEPT !.newCount = hashCount + 1]
<1>1. hashAt[t] = "count" /\ GoHash(t, "resize?", local) /\ hashCount' = hashCount + 1
  BY DEF Count
<1>2. UNCHANGED <<producers, tables, acquired>>
  BY DEF Count, historyHash
<1>3. hashLocal[t] \in HashLocals /\ hashLocal[t].main \in 1 .. Len(tables) /\ hashCount + 1 \in Int
  BY <1>1, InCallIs
<1>4. local \in HashLocals /\ local.main \in 1 .. Len(tables)
  BY <1>3 DEF HashLocals
<1> HIDE DEF local
<1> QED  BY <1>1, <1>2, <1>3, <1>4, GoesOn DEF Unregistered

(* The resizing flag, taken and given back.                                 *)
LEMMA SameLocalStep ==
  ASSUME HashInv, NEW t \in Threads, TryResize(t) \/ Unlock(t)
  PROVE  HashInv'
<1>1. hashAt[t] \in {"resize?", "unlock"} /\ UNCHANGED <<producers, tables, hashCount, acquired>>
  BY DEF TryResize, Unlock, historyHash
<1>2. PICK at \in {"room", "resize"} : GoHash(t, at, hashLocal[t])
  BY DEF TryResize, Unlock
<1>3. t \in HashThreads
  BY <1>1, UnregisteredIs DEF Unregistered
<1>4. hashLocal[t] \in HashLocals /\ hashLocal[t].main \in 1 .. Len(tables) /\ hashCount' \in Int
  BY <1>1, <1>3, InCallIs
<1> QED  BY <1>1, <1>2, <1>3, <1>4, GoesOn DEF Unregistered

(* A table with room for one more, or another try.                          *)
LEMMA RoomStep ==
  ASSUME HashInv, NEW t \in Threads, Room(t)
  PROVE  HashInv'
<1> DEFINE looking == [hashLocal[t] EXCEPT !.ptr = Len(producers)]
           again == [hashLocal[t] EXCEPT !.main = Len(tables)]
<1>1. hashAt[t] = "room" /\ UNCHANGED <<producers, tables, hashCount, acquired>>
  BY DEF Room, sharedHash, historyHash
<1>2. GoHash(t, "look", looking) \/ GoHash(t, "resize?", again)
  BY DEF Room
<1>3. t \in HashThreads
  BY <1>1, UnregisteredIs DEF Unregistered
<1>4. /\ hashLocal[t] \in HashLocals /\ hashLocal[t].main \in 1 .. Len(tables) /\ hashCount' \in Int
      /\ Len(producers) \in Nat /\ Len(tables) \in Nat \ {0}
  BY <1>1, <1>3, InCallIs
<1>5. looking \in HashLocals /\ looking.main \in 1 .. Len(tables) /\ looking.ptr =< Len(producers)
  BY <1>4, SMTT(20) DEF HashLocals
<1>6. again \in HashLocals /\ again.main \in 1 .. Len(tables)
  BY <1>4, SMTT(20) DEF HashLocals
<1> HIDE DEF looking, again
<1>7. CASE GoHash(t, "look", looking)
  BY <1>1, <1>3, <1>4, <1>5, <1>7, GoesOn DEF Unregistered
<1>8. CASE GoHash(t, "resize?", again)
  BY <1>1, <1>3, <1>4, <1>6, <1>8, GoesOn DEF Unregistered
<1> QED  BY <1>2, <1>7, <1>8

(* A call that fails leaves the thread without a producer.                  *)
LEMMA FailStep ==
  ASSUME HashInv, NEW t \in Threads, ResizeFails(t) \/ CreateFails(t)
  PROVE  HashInv'
<1>1. /\ hashAt[t] \in {"resize", "create"} /\ UNCHANGED <<producers, tables, acquired>>
      /\ GoHash(t, "idle", Blank) /\ hashCount' \in {hashCount, hashCount - 1}
  BY DEF ResizeFails, CreateFails, Fail
<1>2. HashTypes /\ hashCount' \in Int /\ acquired' \in [Threads -> SUBSET Nat] /\ Blank \in HashLocals
  BY <1>1, BlankIs DEF HashInv, HashTypes
<1>3. ASSUME t \in HashThreads, NEW own \in [HashThreads -> Nat], Owns(own)
      PROVE  HashThreadOk(own, tables, producers, acquired'[t], t, "idle", Blank)
  <2>1. HashThreadOk(own, tables, producers, acquired[t], t, hashAt[t], hashLocal[t])
    BY <1>3 DEF Owns
  <2> QED  BY <1>1, <2>1 DEF HashThreadOk, Unregistered
<1>4. ASSUME t \in TokenThreads
      PROVE  acquired'[t] = acquired[t] /\ TokenThreadOk(producers, acquired[t], "idle", Blank)
  BY <1>1, <1>4 DEF HashInv, TokensInv, TokenThreadOk
<1> QED  BY <1>1, <1>2, <1>3, <1>4, LocalStep

(* A token looks for a producer.                                            *)
LEMMA MakeTokenStep ==
  ASSUME HashInv, NEW t \in TokenThreads, MakeToken(t)
  PROVE  HashInv'
<1> DEFINE local == [Blank EXCEPT !.ptr = Len(producers)]
<1>1. HashTypes /\ t \in Threads /\ t \notin HashThreads /\ Len(producers) \in Nat
  BY HashConstants DEF HashInv, HashTypes, Threads
<1>2. acquired[t] = {} /\ GoHash(t, "look", local) /\ UNCHANGED <<producers, tables, hashCount, acquired>>
  BY DEF MakeToken, sharedHash
<1>3. local \in HashLocals /\ local.ptr = Len(producers)
  BY <1>1 DEF Blank, HashLocals
<1>4. hashCount' \in Int /\ acquired' \in [Threads -> SUBSET Nat]
  BY <1>1, <1>2 DEF HashTypes
<1> HIDE DEF local
<1>5. acquired'[t] = acquired[t] /\ TokenThreadOk(producers, acquired[t], "look", local)
  BY <1>1, <1>2, <1>3 DEF TokenThreadOk
<1> QED  BY <1>1, <1>2, <1>3, <1>4, <1>5, LocalStep

(* Only a token finds an inactive producer of its kind.                     *)
LEMMA LookStep ==
  ASSUME HashInv, NEW t \in Threads, Look(t)
  PROVE  HashInv'
<1> DEFINE l == hashLocal[t]
           before == [l EXCEPT !.ptr = @ - 1]
<1>1. HashTypes /\ TokensInv /\ l \in HashLocals /\ l.ptr \in Nat /\ Len(producers) \in Nat
  BY DEF HashInv, HashTypes, HashLocals
<1>2. hashAt[t] = "look" /\ UNCHANGED <<producers, tables, hashCount, acquired>>
  BY DEF Look, sharedHash, historyHash
<1>3. l.ptr # 0 => before \in HashLocals /\ before.main = l.main /\ before.ptr = l.ptr - 1
  BY <1>1 DEF HashLocals
<1>4. l.ptr =< Len(producers)
  BY <1>1, <1>2 DEF HashInv, Owns, HashThreadOk, TokensInv, TokenThreadOk, Threads
<1>5. \/ l.ptr = 0 /\ GoHash(t, "create", l)
      \/ /\ l.ptr \in 1 .. Len(producers) /\ producers[l.ptr].inactive
         /\ producers[l.ptr].isExplicit = (t \in TokenThreads) /\ GoHash(t, "catch", l)
      \/ l.ptr # 0 /\ GoHash(t, "look", before)
  BY <1>1, <1>4 DEF Look
<1> HIDE DEF before, l
<1>6. CASE t \in HashThreads
  <2>1. l.main \in 1 .. Len(tables) /\ hashCount' \in Int /\ t \notin TokenThreads
    BY <1>2, <1>6, HashConstants, InCallIs DEF l
  <2>2. CASE l.ptr = 0 /\ GoHash(t, "create", l)
    BY <1>1, <1>2, <1>6, <2>1, <2>2, GoesOn DEF Unregistered
  <2>3. CASE l.ptr \in 1 .. Len(producers) /\ producers[l.ptr].inactive
             /\ producers[l.ptr].isExplicit = (t \in TokenThreads)
    BY <1>1, <2>1, <2>3 DEF TokensInv, ImplicitStay
  <2>4. CASE l.ptr # 0 /\ GoHash(t, "look", before)
    BY <1>1, <1>2, <1>3, <1>4, <1>6, <2>1, <2>4, GoesOn DEF Unregistered
  <2> QED  BY <1>5, <2>2, <2>3, <2>4
<1>7. CASE t \in TokenThreads
  <2>1. t \notin HashThreads /\ TokenThreadOk(producers, acquired[t], "look", l)
    BY <1>1, <1>2, <1>7, HashConstants DEF TokensInv, l
  <2>2. hashCount' \in Int /\ acquired' \in [Threads -> SUBSET Nat]
    BY <1>1, <1>2 DEF HashTypes
  <2>3. CASE l.ptr = 0 /\ GoHash(t, "create", l)
    <3>1. TokenThreadOk(producers, acquired[t], "create", l)
      BY <2>1 DEF TokenThreadOk
    <3> QED  BY <1>1, <1>2, <1>7, <2>1, <2>2, <2>3, <3>1, LocalStep
  <2>4. CASE /\ l.ptr \in 1 .. Len(producers) /\ producers[l.ptr].inactive
             /\ producers[l.ptr].isExplicit = (t \in TokenThreads) /\ GoHash(t, "catch", l)
    <3>1. TokenThreadOk(producers, acquired[t], "catch", l)
      BY <1>7, <2>1, <2>4 DEF TokenThreadOk
    <3> QED  BY <1>1, <1>2, <1>7, <2>1, <2>2, <2>4, <3>1, LocalStep
  <2>5. CASE l.ptr # 0 /\ GoHash(t, "look", before)
    <3>1. TokenThreadOk(producers, acquired[t], "look", before)
      BY <1>1, <1>3, <1>4, <2>1, <2>5 DEF TokenThreadOk
    <3> QED  BY <1>1, <1>2, <1>3, <1>7, <2>1, <2>2, <2>5, <3>1, LocalStep
  <2> QED  BY <1>5, <2>3, <2>4, <2>5
<1> QED  BY <1>6, <1>7 DEF Threads

(* Tokens are left alone by a step of a thread that has none.               *)
LEMMA TokensUntouched ==
  ASSUME HashTypes, TokensInv, NEW t \in HashThreads,
         Len(producers) \in Nat, Len(producers') \in Nat, Len(producers) =< Len(producers'),
         \A p \in 1 .. Len(producers) : producers'[p] = producers[p],
         ImplicitStay(producers'),
         \A u \in Threads : u # t =>
           acquired'[u] = acquired[u] /\ hashAt'[u] = hashAt[u] /\ hashLocal'[u] = hashLocal[u]
  PROVE  TokensInv'
<1>1. t \notin TokenThreads /\ t \in Threads
  BY HashConstants DEF Threads
<1>2. \A u \in TokenThreads : u # t =>
        /\ acquired'[u] = acquired[u] /\ hashAt'[u] = hashAt[u] /\ hashLocal'[u] = hashLocal[u]
        /\ \A p \in acquired[u] : ~producers'[p].inactive
  BY DEF Threads, TokensInv, TokenThreadOk
<1> QED  BY <1>1, <1>2, TokensKept

(* A new table has slots.                                                   *)
LEMMA NewCapacityIs == ASSUME NEW t, NEW n \in NewCapacity(t) PROVE n \in Nat \ {0}
BY DEF NewCapacity

(* A larger table is put in front: nobody has an entry in it.               *)
LEMMA ResizeStep ==
  ASSUME HashInv, NEW t \in Threads, Resize(t)
  PROVE  HashInv'
<1>1. /\ HashTypes /\ TokensInv /\ hashAt[t] = "resize"
      /\ UNCHANGED <<producers, hashCount, acquired>>
  BY DEF HashInv, Resize, historyHash
<1>2. t \in HashThreads
  BY <1>1, UnregisteredIs DEF Unregistered
<1>3. /\ tables \in Seq(Table) /\ Len(tables) \in Nat \ {0}
      /\ producers' = producers /\ Len(producers) \in Nat
  BY <1>1 DEF HashTypes
<1>4. /\ tables' \in Seq(Table) /\ Len(tables') \in {Len(tables), Len(tables) + 1}
      /\ \A i \in 1 .. Len(tables) : tables'[i] = tables[i]
      /\ \A i \in Len(tables) + 1 .. Len(tables') :
           \E n \in Nat \ {0} : tables'[i] = EmptyTable(n)
  <2>1. CASE UNCHANGED tables
    BY <1>3, <2>1
  <2>2. CASE \E n \in NewCapacity(t) : tables' = Append(tables, EmptyTable(n))
    <3>1. PICK n \in Nat \ {0} : tables' = Append(tables, EmptyTable(n))
      BY <2>2, NewCapacityIs
    <3>2. EmptyTable(n) \in Table
      BY EmptyIs
    <3> QED  BY <1>3, <3>1, <3>2
  <2> QED  BY <2>1, <2>2 DEF Resize
<1>5. Len(tables') \in Nat \ {0} /\ Len(tables) =< Len(tables')
  BY <1>3, <1>4
<1> DEFINE local == [hashLocal[t] EXCEPT !.main = Len(tables')]
<1>6. GoHash(t, "unlock", local)
  BY DEF Resize
<1>7. local \in HashLocals /\ local.main = Len(tables')
  BY <1>1, <1>5 DEF HashTypes, HashLocals
<1> HIDE DEF local
<1>8. /\ DOMAIN hashAt' = Threads /\ hashLocal' \in [Threads -> HashLocals]
      /\ hashAt'[t] = "unlock" /\ hashLocal'[t] = local
      /\ \A u \in Threads : u # t => hashAt'[u] = hashAt[u] /\ hashLocal'[u] = hashLocal[u]
  BY <1>1, <1>6, <1>7, GoTypes
<1>9. HashTypes'
  BY <1>1, <1>4, <1>5, <1>8 DEF HashTypes
<1>10. TokensInv'
  BY <1>1, <1>2, <1>3, <1>8, TokensUntouched DEF TokensInv
<1>11. PICK own \in [HashThreads -> Nat] : Owns(own)
  BY DEF HashInv
<1>12. \A i \in Len(tables) + 1 .. Len(tables') :
         EntriesOf(own, tables'[i]) /\ \A u \in HashThreads : KeyAbsent(tables'[i], u)
  <2>1. ASSUME NEW n \in Nat \ {0}
        PROVE  EntriesOf(own, EmptyTable(n)) /\ \A u \in HashThreads : KeyAbsent(EmptyTable(n), u)
    <3>1. \A s \in DOMAIN EmptyTable(n) : EmptyTable(n)[s].key = NoThread
      BY DEF EmptyTable
    <3> QED  BY <3>1, EmptyIs DEF EntriesOf
  <2> QED  BY <1>4, <2>1
<1>13. Grown(tables, tables', t)
  BY <1>4, <1>5, <1>12 DEF Grown
<1>14. \A i \in 1 .. Len(tables') : EntriesOf(own, tables'[i])
  <2>1. ASSUME NEW i \in 1 .. Len(tables') PROVE EntriesOf(own, tables'[i])
    <3>1. i \in 1 .. Len(tables) \/ i \in Len(tables) + 1 .. Len(tables')
      BY <1>3, <1>5
    <3> QED  BY <1>4, <1>11, <1>12, <3>1 DEF Owns
  <2> QED  BY <2>1
<1>15. HashThreadOk(own, tables', producers', acquired'[t], t, "unlock", local)
  <2>1. /\ \A i \in 1 .. Len(tables) : KeyAbsent(tables[i], t)
        /\ acquired[t] = {}
    BY <1>1, <1>2, <1>11 DEF Owns, HashThreadOk, Unregistered
  <2>2. \A i \in 1 .. Len(tables') : KeyAbsent(tables'[i], t)
    <3>1. ASSUME NEW i \in 1 .. Len(tables') PROVE KeyAbsent(tables'[i], t)
      <4>1. i \in 1 .. Len(tables) \/ i \in Len(tables) + 1 .. Len(tables')
        BY <1>3, <1>5
      <4> QED  BY <1>2, <1>4, <1>12, <2>1, <4>1
    <3> QED  BY <3>1
  <2> QED  BY <1>1, <1>5, <1>7, <2>1, <2>2 DEF HashThreadOk, Unregistered
<1>16. OwnersDiffer(own, producers')
  BY <1>3, <1>11 DEF Owns
<1>17. \A u \in HashThreads : u # t =>
         acquired'[u] = acquired[u] /\ hashAt'[u] = hashAt[u] /\ hashLocal'[u] = hashLocal[u]
  BY <1>1, <1>8 DEF Threads
<1>18. \E o \in [HashThreads -> Nat] : Owns(o)'
  BY <1>1, <1>3, <1>8, <1>9, <1>11, <1>13, <1>14, <1>15, <1>16, <1>17, OwnsKept
<1> QED  BY <1>9, <1>10, <1>18 DEF HashInv

(* A free slot becomes the thread's own: probing for it comes there,        *)
(* because every slot before it was taken.                                  *)
LEMMA InsertStep ==
  ASSUME HashInv, NEW t \in HashThreads, Insert(t)
  PROVE  HashInv'
<1> DEFINE l == hashLocal[t]
           table == tables[l.main]
           slot == Slot(table, t, l.steps)
<1>1. /\ HashTypes /\ TokensInv /\ hashAt[t] = "insert" /\ UNCHANGED <<producers, hashCount>>
      /\ t \in Threads /\ t \notin TokenThreads /\ t # NoThread
  BY HashConstants DEF HashInv, Insert, Threads
<1>2. PICK own \in [HashThreads -> Nat] : Owns(own)
  BY DEF HashInv
<1>3. /\ l \in HashLocals /\ l.main \in 1 .. Len(tables) /\ l.steps \in Nat /\ l.value \in Nat
      /\ producers' = producers /\ Len(producers) \in Nat /\ hashCount' \in Int
      /\ tables \in Seq(Table) /\ Len(tables) \in Nat \ {0}
  BY <1>1, InCallIs DEF HashLocals, HashTypes
<1>4. table \in Table /\ slot \in DOMAIN table
  BY <1>3, SlotIn
<1>5. ASSUME NEW o \in [HashThreads -> Nat], Owns(o)
      PROVE  /\ HashThreadOk(o, tables, producers, acquired[t], t, "insert", l)
             /\ l.value = o[t]
             /\ \A j \in 0 .. l.steps - 1 : table[Slot(table, t, j)].key # NoThread
  BY <1>1, <1>5 DEF Owns, HashThreadOk
<1>6. CASE table[slot].key # NoThread
  <2> DEFINE local == [l EXCEPT !.steps = @ + 1]
  <2>1. GoHash(t, "insert", local) /\ UNCHANGED <<tables, acquired>>
    BY <1>6 DEF Insert, historyHash
  <2>2. /\ local \in HashLocals /\ local.main = l.main /\ local.value = l.value
        /\ local.steps = l.steps + 1
    <3>1. l \in HashLocals /\ l.steps + 1 \in Nat
      BY <1>3
    <3>2. ASSUME NEW n \in Nat, NEW m, m = [l EXCEPT !.steps = n]
          PROVE  m \in HashLocals /\ m.main = l.main /\ m.value = l.value /\ m.steps = n
      <4> HIDE DEF l
      <4> QED  BY <3>1, <3>2 DEF HashLocals
    <3> QED  BY <3>1, <3>2
  <2> HIDE DEF local
  <2>3. ASSUME NEW o \in [HashThreads -> Nat], Owns(o)
        PROVE  HashThreadOk(o, tables, producers, acquired'[t], t, "insert", local)
    <3>1. \A j \in 0 .. local.steps - 1 : table[Slot(table, t, j)].key # NoThread
      <4> SUFFICES ASSUME NEW j \in 0 .. l.steps PROVE table[Slot(table, t, j)].key # NoThread
        BY <1>3, <2>2
      <4>1. CASE j = l.steps
        BY <1>6, <4>1
      <4>2. CASE j # l.steps
        <5>1. j \in 0 .. l.steps - 1
          BY <1>3, <4>2
        <5> QED  BY <1>5, <2>3, <5>1
      <4> QED  BY <4>1, <4>2
    <3>2. HashThreadOk(o, tables, producers, acquired[t], t, "insert", l) /\ l.value = o[t]
      BY <1>5, <2>3
    <3> QED  BY <2>1, <2>2, <3>1, <3>2 DEF HashThreadOk, Unregistered
  <2>4. acquired' \in [Threads -> SUBSET Nat] /\ \A u \in Threads : acquired'[u] = acquired[u]
    BY <1>1, <2>1 DEF HashTypes
  <2> HIDE DEF l, table, slot
  <2> QED  BY <1>1, <1>3, <2>1, <2>2, <2>3, <2>4, LocalStep
<1>7. CASE table[slot].key = NoThread
  <2> DEFINE entry == [key |-> t, value |-> l.value]
             new == [table EXCEPT ![slot] = entry]
  <2>1. tables' = [tables EXCEPT ![l.main][slot] = entry] /\ Give(t, l.value)
    BY <1>7 DEF Insert
  <2>2. entry \in Entry /\ entry.key = t /\ entry.value = l.value
    BY <1>3 DEF Entry
  <2>3. /\ DOMAIN new = DOMAIN table /\ new[slot] = entry
        /\ \A s \in DOMAIN table : s # slot => new[s] = table[s]
    BY <1>4
  <2>4. new \in Table
    <3>1. PICK c \in Nat \ {0} : table \in [0 .. c - 1 -> Entry]
      BY <1>4 DEF Table
    <3>2. new \in [0 .. c - 1 -> Entry]
      BY <1>4, <2>2, <3>1
    <3> QED  BY <3>2 DEF Table
  <2>5. tables' = [tables EXCEPT ![l.main] = new]
    BY <2>1
  <2>6. Give(t, l.value)
    BY <2>1
  <2> HIDE DEF new, entry, table, slot, l
  <2>7. /\ tables' \in Seq(Table) /\ Len(tables') = Len(tables) /\ tables'[l.main] = new
        /\ \A i \in 1 .. Len(tables) : i # l.main => tables'[i] = tables[i]
    BY <1>3, <2>4, <2>5
  <2>8. Blank \in HashLocals
    BY BlankIs
  <2>9. GoHash(t, "idle", Blank) /\ acquired' = [acquired EXCEPT ![t] = @ \union ({l.value} \ {0})]
    BY <2>6 DEF Give
  <2>10. /\ DOMAIN hashAt' = Threads /\ hashLocal' \in [Threads -> HashLocals]
         /\ hashAt'[t] = "idle" /\ hashLocal'[t] = Blank
         /\ \A u \in Threads : u # t => hashAt'[u] = hashAt[u] /\ hashLocal'[u] = hashLocal[u]
    BY <1>1, <2>8, <2>9, GoTypes
  <2>11. /\ acquired' \in [Threads -> SUBSET Nat] /\ \A u \in Threads : u # t => acquired'[u] = acquired[u]
         /\ acquired'[t] = acquired[t] \union ({l.value} \ {0})
    BY <1>1, <1>3, <2>9 DEF HashTypes
  <2>12. HashTypes'
    BY <1>1, <1>3, <2>7, <2>10, <2>11 DEF HashTypes
  <2>13. TokensInv'
    BY <1>1, <1>3, <2>10, <2>11, TokensUntouched DEF TokensInv
  <2>14. Grown(tables, tables', t)
    <3>1. ASSUME NEW i \in 1 .. Len(tables)
          PROVE  /\ DOMAIN tables'[i] = DOMAIN tables[i]
                 /\ \A s \in DOMAIN tables[i] : tables'[i][s] = tables[i][s]
                      \/ (tables[i][s].key = NoThread /\ tables'[i][s].key = t)
      <4>1. CASE i = l.main
        BY <1>7, <2>2, <2>3, <2>7, <4>1 DEF table
      <4>2. CASE i # l.main
        BY <2>7, <4>2
      <4> QED  BY <4>1, <4>2
    <3> QED  BY <1>3, <2>7, <3>1 DEF Grown
  <2>15. EntriesOf(own, new)
    <3> SUFFICES ASSUME NEW s \in DOMAIN new, new[s].key # NoThread
                 PROVE  new[s].value = own[new[s].key] /\ Reachable(new, new[s].key, s)
      BY DEF EntriesOf
    <3>1. \A u, j : Slot(new, u, j) = Slot(table, u, j)
      BY <2>3, SameSlots
    <3>2. \A v \in DOMAIN table : table[v].key # NoThread => new[v].key # NoThread
      BY <1>1, <2>2, <2>3
    <3>3. CASE s = slot
      <4>1. \A j \in 0 .. l.steps - 1 : Slot(table, t, j) \in DOMAIN table
        BY <1>3, <1>4, SlotIn
      <4>2. Reachable(new, t, s)
        BY <1>2, <1>3, <1>5, <3>1, <3>2, <3>3, <4>1 DEF Reachable, slot
      <4> QED  BY <1>2, <1>5, <2>2, <2>3, <3>3, <4>2
    <3>4. CASE s # slot
      <4>1. new[s] = table[s] /\ s \in DOMAIN table
        BY <2>3, <3>4
      <4>2. EntriesOf(own, table)
        BY <1>2, <1>3 DEF Owns, table
      <4>3. table[s].value = own[table[s].key] /\ Reachable(table, table[s].key, s)
        BY <4>1, <4>2 DEF EntriesOf
      <4>4. table[s].key \in HashThreads
        BY <1>4, <4>1, TableShape DEF Entry
      <4>5. PICK k \in Nat : /\ s = Slot(table, table[s].key, k)
                             /\ \A j \in 0 .. k - 1 : table[Slot(table, table[s].key, j)].key # NoThread
        BY <4>3 DEF Reachable
      <4>6. \A j \in 0 .. k - 1 : Slot(table, table[s].key, j) \in DOMAIN table
        BY <1>4, <4>4, SlotIn
      <4>7. Reachable(new, table[s].key, s)
        BY <3>1, <3>2, <4>5, <4>6 DEF Reachable
      <4> QED  BY <4>1, <4>3, <4>7
    <3> QED  BY <3>3, <3>4
  <2>16. \A i \in 1 .. Len(tables') : EntriesOf(own, tables'[i])
    BY <1>2, <2>7, <2>15 DEF Owns
  <2>17. HashThreadOk(own, tables', producers', acquired'[t], t, "idle", Blank)
    <3>1. acquired[t] \subseteq {own[t]} \ {0} /\ l.value = own[t]
      BY <1>2, <1>5 DEF HashThreadOk
    <3>2. ~KeyAbsent(tables'[l.main], t) /\ l.main \in 1 .. Len(tables')
      BY <1>3, <1>4, <2>2, <2>3, <2>7 DEF KeyAbsent
    <3> QED  BY <2>11, <3>1, <3>2 DEF HashThreadOk, Unregistered
  <2>18. OwnersDiffer(own, producers')
    BY <1>2, <1>3 DEF Owns
  <2>19. \A u \in HashThreads : u # t =>
           acquired'[u] = acquired[u] /\ hashAt'[u] = hashAt[u] /\ hashLocal'[u] = hashLocal[u]
    BY <2>10, <2>11 DEF Threads
  <2>20. \E o \in [HashThreads -> Nat] : Owns(o)'
    BY <1>1, <1>2, <1>3, <2>10, <2>12, <2>14, <2>16, <2>17, <2>18, <2>19, OwnsKept
  <2> QED  BY <2>12, <2>13, <2>20 DEF HashInv
<1> QED  BY <1>6, <1>7

(* A step of a token changes an entry of the list, or appends one.          *)
LEMMA TokenStep ==
  ASSUME HashInv, HashTypes', NEW t \in TokenThreads, UNCHANGED tables,
         \A u \in Threads : u # t =>
           acquired'[u] = acquired[u] /\ hashAt'[u] = hashAt[u] /\ hashLocal'[u] = hashLocal[u],
         Len(producers) =< Len(producers'),
         \A p \in 1 .. Len(producers) : producers'[p].isExplicit = producers[p].isExplicit,
         TokensInv'
  PROVE  HashInv'
<1>1. HashTypes /\ t \in Threads /\ t \notin HashThreads /\ tables \in Seq(Table) /\ tables' = tables
  BY HashConstants DEF HashInv, HashTypes, Threads
<1>2. PICK own \in [HashThreads -> Nat] : Owns(own)
  BY DEF HashInv
<1>3. Len(producers) \in Nat /\ Len(producers') \in Nat
  BY <1>1 DEF HashTypes
<1>4. OwnersDiffer(own, producers')
  BY <1>2, <1>3 DEF Owns, OwnersDiffer
<1>5. Grown(tables, tables', t) /\ \A i \in 1 .. Len(tables') : EntriesOf(own, tables'[i])
  BY <1>1, <1>2, GrownSame DEF Owns
<1>6. \A u \in HashThreads : u # t =>
        acquired'[u] = acquired[u] /\ hashAt'[u] = hashAt[u] /\ hashLocal'[u] = hashLocal[u]
  BY DEF Threads
<1>7. \E o \in [HashThreads -> Nat] : Owns(o)'
  BY <1>1, <1>2, <1>3, <1>4, <1>5, <1>6, OwnsKept
<1> QED  BY <1>7 DEF HashInv

(* A producer is marked inactive or active, and stays of its kind.          *)
LEMMA MarkNode ==
  ASSUME NEW node \in ProducerNode
  PROVE  /\ [node EXCEPT !.inactive = TRUE] \in ProducerNode
         /\ [node EXCEPT !.inactive = TRUE].isExplicit = node.isExplicit
         /\ [node EXCEPT !.inactive = TRUE].inactive = TRUE
         /\ [node EXCEPT !.inactive = FALSE] \in ProducerNode
         /\ [node EXCEPT !.inactive = FALSE].isExplicit = node.isExplicit
         /\ [node EXCEPT !.inactive = FALSE].inactive = FALSE
BY DEF ProducerNode

(* An inactive producer taken over was no other token's.                    *)
LEMMA CatchStep ==
  ASSUME HashInv, NEW t \in Threads, Catch(t)
  PROVE  HashInv'
<1> DEFINE l == hashLocal[t]
           before == [l EXCEPT !.ptr = @ - 1]
<1>1. /\ HashTypes /\ TokensInv /\ hashAt[t] = "catch" /\ UNCHANGED <<tables, hashCount>>
      /\ producers \in Seq(ProducerNode) /\ Len(producers) \in Nat /\ l \in HashLocals
  BY DEF HashInv, HashTypes, Catch
<1>2. t \in TokenThreads /\ t \notin HashThreads
  <2>1. t \notin HashThreads
    BY <1>1 DEF HashInv, Owns, HashThreadOk, Unregistered
  <2> QED  BY <2>1 DEF Threads
<1>3. /\ TokenThreadOk(producers, acquired[t], "catch", l) /\ acquired[t] = {}
      /\ l.ptr \in 1 .. Len(producers) /\ producers[l.ptr].isExplicit
  BY <1>1, <1>2 DEF TokensInv, TokenThreadOk
<1>4. CASE ~producers[l.ptr].inactive
  <2>1. GoHash(t, "look", before) /\ UNCHANGED <<producers, acquired>>
    BY <1>4 DEF Catch, historyHash
  <2>2. before \in HashLocals /\ before.ptr = l.ptr - 1
    <3>1. l \in HashLocals /\ l.ptr - 1 \in Nat
      BY <1>1, <1>3
    <3>2. ASSUME NEW n \in Nat, NEW m, m = [l EXCEPT !.ptr = n]
          PROVE  m \in HashLocals /\ m.ptr = n
      <4> HIDE DEF l
      <4> QED  BY <3>1, <3>2 DEF HashLocals
    <3> QED  BY <3>1, <3>2
  <2> HIDE DEF before, l
  <2>3. TokenThreadOk(producers, acquired[t], "look", before)
    BY <1>1, <1>3, <2>2 DEF TokenThreadOk
  <2>4. hashCount' \in Int /\ acquired' \in [Threads -> SUBSET Nat] /\ UNCHANGED <<producers, tables>>
    BY <1>1, <2>1 DEF HashTypes
  <2> QED  BY <1>2, <2>1, <2>2, <2>3, <2>4, LocalStep
<1>5. CASE producers[l.ptr].inactive
  <2>1. producers' = [producers EXCEPT ![l.ptr].inactive = FALSE] /\ Give(t, l.ptr)
    BY <1>5 DEF Catch
  <2>2. GoHash(t, "idle", Blank) /\ acquired' = [acquired EXCEPT ![t] = @ \union ({l.ptr} \ {0})]
    BY <2>1 DEF Give
  <2> HIDE DEF l
  <2>3. /\ producers' \in Seq(ProducerNode) /\ Len(producers') = Len(producers)
        /\ \A p \in 1 .. Len(producers) : /\ producers'[p].isExplicit = producers[p].isExplicit
                                          /\ p # l.ptr => producers'[p] = producers[p]
        /\ producers'[l.ptr].inactive = FALSE
    <3> DEFINE node == [producers[l.ptr] EXCEPT !.inactive = FALSE]
    <3>1. node \in ProducerNode /\ node.isExplicit = producers[l.ptr].isExplicit /\ node.inactive = FALSE
      <4>1. producers[l.ptr] \in ProducerNode
        BY <1>1, <1>3 DEF l
      <4> QED  BY <4>1, MarkNode
    <3>2. producers' = [producers EXCEPT ![l.ptr] = node]
      BY <2>1
    <3> HIDE DEF node
    <3>3. l.ptr \in 1 .. Len(producers)
      BY <1>3 DEF l
    <3> QED  BY <1>1, <3>1, <3>2, <3>3
  <2>4. /\ acquired' \in [Threads -> SUBSET Nat] /\ acquired'[t] = {l.ptr}
        /\ \A u \in Threads : u # t => acquired'[u] = acquired[u]
    BY <1>1, <1>3, <2>2 DEF HashTypes
  <2>5. Blank \in HashLocals
    BY BlankIs
  <2>6. /\ DOMAIN hashAt' = Threads /\ hashLocal' \in [Threads -> HashLocals]
        /\ hashAt'[t] = "idle" /\ hashLocal'[t] = Blank
        /\ \A u \in Threads : u # t => hashAt'[u] = hashAt[u] /\ hashLocal'[u] = hashLocal[u]
    BY <1>1, <2>2, <2>5, GoTypes
  <2>7. HashTypes'
    BY <1>1, <2>3, <2>4, <2>6 DEF HashTypes
  <2>8. ImplicitStay(producers')
    BY <1>1, <2>3 DEF TokensInv, ImplicitStay
  <2>9. ASSUME NEW u \in TokenThreads, u # t
        PROVE  /\ l.ptr \notin acquired[u] /\ \A p \in acquired[u] : ~producers'[p].inactive
               /\ acquired'[u] = acquired[u] /\ hashAt'[u] = hashAt[u] /\ hashLocal'[u] = hashLocal[u]
    <3>1. \A p \in acquired[u] : p \in 1 .. Len(producers) /\ ~producers[p].inactive
      BY <1>1 DEF TokensInv, TokenThreadOk
    <3> QED  BY <1>5, <2>3, <2>4, <2>6, <2>9, <3>1 DEF Threads, l
  <2>10. TokenThreadOk(producers', acquired'[t], hashAt'[t], hashLocal'[t])
    BY <1>1, <1>3, <2>3, <2>4, <2>6 DEF TokenThreadOk
  <2>11. \A u \in TokenThreads : u # t => acquired'[t] \intersect acquired[u] = {}
    BY <2>4, <2>9
  <2>12. TokensInv'
    BY <1>1, <1>2, <2>3, <2>8, <2>9, <2>10, <2>11, TokensKept
  <2>13. Len(producers) =< Len(producers') /\ UNCHANGED tables
    BY <1>1, <2>3
  <2> QED  BY <1>2, <2>3, <2>4, <2>6, <2>7, <2>12, <2>13, TokenStep
<1> QED  BY <1>4, <1>5

(* The producer given back was the token's only one.                        *)
LEMMA DropTokenStep ==
  ASSUME HashInv, NEW t \in TokenThreads, DropToken(t)
  PROVE  HashInv'
<1>1. /\ HashTypes /\ TokensInv /\ hashAt[t] = "idle"
      /\ UNCHANGED <<tables, hashCount, hashAt, hashLocal>>
      /\ producers \in Seq(ProducerNode) /\ Len(producers) \in Nat /\ t \in Threads
  BY DEF HashInv, HashTypes, DropToken, Threads
<1>2. PICK p \in acquired[t] : producers' = [producers EXCEPT ![p].inactive = TRUE]
  BY DEF DropToken
<1>3. acquired' = [acquired EXCEPT ![t] = {}]
  BY DEF DropToken
<1>4. p \in 1 .. Len(producers) /\ producers[p].isExplicit
  BY <1>1 DEF TokensInv, TokenThreadOk
<1>5. /\ producers' \in Seq(ProducerNode) /\ Len(producers') = Len(producers)
      /\ \A q \in 1 .. Len(producers) : /\ producers'[q].isExplicit = producers[q].isExplicit
                                        /\ q # p => producers'[q] = producers[q]
  <2> DEFINE node == [producers[p] EXCEPT !.inactive = TRUE]
  <2>1. node \in ProducerNode /\ node.isExplicit = producers[p].isExplicit /\ node.inactive = TRUE
    <3>1. producers[p] \in ProducerNode
      BY <1>1, <1>4
    <3> QED  BY <3>1, MarkNode
  <2>2. producers' = [producers EXCEPT ![p] = node]
    BY <1>2
  <2> HIDE DEF node
  <2>3. producers \in Seq(ProducerNode) /\ p \in 1 .. Len(producers)
    BY <1>1, <1>4
  <2>4. producers' \in Seq(ProducerNode) /\ Len(producers') = Len(producers) /\ producers'[p] = node
    BY <2>1, <2>2, <2>3
  <2>5. \A q \in 1 .. Len(producers) : q # p => producers'[q] = producers[q]
    BY <2>2, <2>3
  <2> QED  BY <2>1, <2>4, <2>5
<1>6. /\ acquired' \in [Threads -> SUBSET Nat] /\ acquired'[t] = {}
      /\ \A u \in Threads : u # t => acquired'[u] = acquired[u]
  BY <1>1, <1>3 DEF HashTypes
<1>7. HashTypes'
  BY <1>1, <1>5, <1>6 DEF HashTypes
<1>8. ImplicitStay(producers')
  BY <1>1, <1>4, <1>5 DEF TokensInv, ImplicitStay
<1>9. ASSUME NEW u \in TokenThreads, u # t
      PROVE  /\ \A q \in acquired[u] : ~producers'[q].inactive
             /\ acquired'[u] = acquired[u] /\ hashAt'[u] = hashAt[u] /\ hashLocal'[u] = hashLocal[u]
  <2>1. \A q \in acquired[u] : q \in 1 .. Len(producers) /\ ~producers[q].inactive
    BY <1>1 DEF TokensInv, TokenThreadOk
  <2>2. p \notin acquired[u]
    BY <1>1, <1>2, <1>9 DEF TokensInv
  <2> QED  BY <1>1, <1>5, <1>6, <1>9, <2>1, <2>2 DEF Threads
<1>10. TokenThreadOk(producers', acquired'[t], hashAt'[t], hashLocal'[t])
  BY <1>1, <1>6 DEF TokenThreadOk
<1>11. \A u \in TokenThreads : u # t => acquired'[t] \intersect acquired[u] = {}
  BY <1>6
<1>12. TokensInv'
  BY <1>1, <1>5, <1>8, <1>9, <1>10, <1>11, TokensKept
<1>13. /\ Len(producers) =< Len(producers') /\ UNCHANGED tables
       /\ \A u \in Threads : u # t => hashAt'[u] = hashAt[u] /\ hashLocal'[u] = hashLocal[u]
  BY <1>1, <1>5
<1> QED  BY <1>5, <1>6, <1>7, <1>12, <1>13, TokenStep

(* A new producer is nobody else's: a token has it at once, a thread once   *)
(* its entry is in a table.                                                 *)
LEMMA CreateStep ==
  ASSUME HashInv, NEW t \in Threads, CreateProducer(t)
  PROVE  HashInv'
<1> DEFINE explicit == t \in TokenThreads
           node == [isExplicit |-> explicit, inactive |-> FALSE]
           p == Len(producers) + 1
<1>1. /\ HashTypes /\ TokensInv /\ hashAt[t] = "create" /\ UNCHANGED <<tables, hashCount>>
      /\ producers \in Seq(ProducerNode) /\ Len(producers) \in Nat /\ hashLocal[t] \in HashLocals
      /\ tables \in Seq(Table)
  BY DEF HashInv, HashTypes, CreateProducer
<1>2. /\ node \in ProducerNode /\ node.inactive = FALSE
      /\ t \in TokenThreads => node.isExplicit = TRUE
      /\ t \notin TokenThreads => node.isExplicit = FALSE
  <2>1. /\ explicit \in BOOLEAN /\ (t \in TokenThreads => explicit = TRUE)
        /\ (t \notin TokenThreads => explicit = FALSE)
    OBVIOUS
  <2> HIDE DEF explicit
  <2>2. node \in ProducerNode /\ node.isExplicit = explicit /\ node.inactive = FALSE
    BY <2>1 DEF ProducerNode
  <2> QED  BY <2>1, <2>2
<1>3. producers' = Append(producers, node)
  BY DEF CreateProducer
<1> HIDE DEF node
<1>4. /\ producers' \in Seq(ProducerNode) /\ Len(producers') = p /\ producers'[p] = node
      /\ \A q \in 1 .. Len(producers) : producers'[q] = producers[q]
  BY <1>1, <1>2, <1>3
<1>5. ImplicitStay(producers')
  <2>1. \A q \in 1 .. Len(producers') : q = p \/ q \in 1 .. Len(producers)
    BY <1>1, <1>4
  <2> QED  BY <1>1, <1>2, <1>4, <2>1 DEF TokensInv, ImplicitStay
<1>6. p \in Nat \ {0} /\ Len(producers) =< Len(producers') /\ Len(producers') \in Nat
  BY <1>1, <1>4
<1>7. CASE t \in TokenThreads
  <2>1. Give(t, p)
    BY <1>4, <1>7 DEF CreateProducer
  <2>2. GoHash(t, "idle", Blank) /\ acquired' = [acquired EXCEPT ![t] = @ \union ({p} \ {0})]
    BY <2>1 DEF Give
  <2>3. acquired[t] = {}
    BY <1>1, <1>7 DEF TokensInv, TokenThreadOk
  <2>4. /\ acquired' \in [Threads -> SUBSET Nat] /\ acquired'[t] = {p}
        /\ \A u \in Threads : u # t => acquired'[u] = acquired[u]
    BY <1>1, <1>6, <2>2, <2>3 DEF HashTypes
  <2>5. Blank \in HashLocals
    BY BlankIs
  <2>6. /\ DOMAIN hashAt' = Threads /\ hashLocal' \in [Threads -> HashLocals]
        /\ hashAt'[t] = "idle" /\ hashLocal'[t] = Blank
        /\ \A u \in Threads : u # t => hashAt'[u] = hashAt[u] /\ hashLocal'[u] = hashLocal[u]
    BY <1>1, <2>2, <2>5, GoTypes
  <2>7. HashTypes'
    BY <1>1, <1>4, <2>4, <2>6 DEF HashTypes
  <2>8. ASSUME NEW u \in TokenThreads, u # t
        PROVE  /\ p \notin acquired[u] /\ \A q \in acquired[u] : ~producers'[q].inactive
               /\ acquired'[u] = acquired[u] /\ hashAt'[u] = hashAt[u] /\ hashLocal'[u] = hashLocal[u]
    <3>1. \A q \in acquired[u] : q \in 1 .. Len(producers) /\ ~producers[q].inactive
      BY <1>1 DEF TokensInv, TokenThreadOk
    <3>2. p \notin 1 .. Len(producers)
      BY <1>1
    <3> QED  BY <1>4, <2>4, <2>6, <2>8, <3>1, <3>2 DEF Threads
  <2>9. TokenThreadOk(producers', acquired'[t], hashAt'[t], hashLocal'[t])
    BY <1>2, <1>4, <1>6, <1>7, <2>4, <2>6 DEF TokenThreadOk
  <2>10. \A u \in TokenThreads : u # t => acquired'[t] \intersect acquired[u] = {}
    BY <2>4, <2>8
  <2>11. TokensInv'
    BY <1>1, <1>4, <1>5, <1>6, <2>8, <2>9, <2>10, TokensKept
  <2> QED  BY <1>1, <1>4, <1>6, <1>7, <2>4, <2>6, <2>7, <2>11, TokenStep
<1>8. CASE t \in HashThreads
  <2> DEFINE local == [hashLocal[t] EXCEPT !.value = p, !.steps = 0]
  <2>1. t \notin TokenThreads
    BY <1>8, HashConstants
  <2>2. GoHash(t, "insert", local) /\ UNCHANGED acquired
    BY <1>4, <2>1 DEF CreateProducer, historyHash
  <2>3. local \in HashLocals /\ local.main = hashLocal[t].main /\ local.value = p /\ local.steps = 0
    BY <1>1, <1>6 DEF HashLocals
  <2> HIDE DEF local
  <2>4. /\ DOMAIN hashAt' = Threads /\ hashLocal' \in [Threads -> HashLocals]
        /\ hashAt'[t] = "insert" /\ hashLocal'[t] = local
        /\ \A u \in Threads : u # t => hashAt'[u] = hashAt[u] /\ hashLocal'[u] = hashLocal[u]
    BY <1>1, <2>2, <2>3, GoTypes
  <2>5. HashTypes'
    BY <1>1, <1>4, <2>2, <2>4 DEF HashTypes
  <2>6. TokensInv'
    BY <1>1, <1>4, <1>5, <1>6, <1>8, <2>2, <2>4, TokensUntouched
  <2>7. PICK own \in [HashThreads -> Nat] : Owns(own)
    BY DEF HashInv
  <2>8. /\ \A i \in 1 .. Len(tables) : KeyAbsent(tables[i], t)
        /\ acquired[t] = {} /\ hashLocal[t].main \in 1 .. Len(tables)
    BY <1>1, <1>8, <2>7 DEF Owns, HashThreadOk, Unregistered
  <2> DEFINE own2 == [own EXCEPT ![t] = p]
  <2>9. /\ own2 \in [HashThreads -> Nat] /\ own2[t] = p
        /\ \A u \in HashThreads : u # t => own2[u] = own[u]
    BY <1>6, <1>8, <2>7
  <2> HIDE DEF own2
  <2>10. OwnersDiffer(own2, producers')
    <3>1. OwnersDiffer(own, producers)
      BY <2>7 DEF Owns
    <3>2. \A u \in HashThreads : u # t /\ own2[u] # 0 =>
            own2[u] \in 1 .. Len(producers) /\ ~producers'[own2[u]].isExplicit
      BY <1>4, <2>9, <3>1 DEF OwnersDiffer
    <3>3. p \in 1 .. Len(producers') /\ ~producers'[p].isExplicit /\ p \notin 1 .. Len(producers)
      BY <1>1, <1>2, <1>4, <1>6, <2>1
    <3>4. ASSUME NEW u \in HashThreads, own2[u] # 0
          PROVE  own2[u] \in 1 .. Len(producers') /\ ~producers'[own2[u]].isExplicit
      <4>1. CASE u = t
        BY <2>9, <3>3, <4>1
      <4>2. CASE u # t
        BY <1>1, <1>4, <3>2, <3>4, <4>2
      <4> QED  BY <4>1, <4>2
    <3>5. ASSUME NEW u \in HashThreads, NEW v \in HashThreads, u # v, own2[u] # 0
          PROVE  own2[u] # own2[v]
      <4>1. CASE u = t
        BY <2>9, <3>2, <3>3, <3>5, <4>1
      <4>2. CASE v = t
        BY <2>9, <3>2, <3>3, <3>5, <4>2
      <4>3. CASE u # t /\ v # t
        BY <2>9, <3>1, <3>5, <4>3 DEF OwnersDiffer
      <4> QED  BY <4>1, <4>2, <4>3
    <3> QED  BY <3>4, <3>5 DEF OwnersDiffer
  <2>11. ASSUME NEW i \in 1 .. Len(tables)
         PROVE  EntriesOf(own2, tables[i])
    <3> SUFFICES ASSUME NEW s \in DOMAIN tables[i], tables[i][s].key # NoThread
                 PROVE  /\ tables[i][s].value = own2[tables[i][s].key]
                        /\ Reachable(tables[i], tables[i][s].key, s)
      BY DEF EntriesOf
    <3>1. EntriesOf(own, tables[i]) /\ tables[i] \in Table
      BY <1>1, <2>7 DEF Owns
    <3>2. tables[i][s].key \in HashThreads
      BY <3>1, TableShape DEF Entry
    <3>3. tables[i][s].key # t
      BY <2>8 DEF KeyAbsent
    <3> QED  BY <2>9, <3>1, <3>2, <3>3 DEF EntriesOf
  <2>12. HashThreadOk(own2, tables', producers', acquired'[t], t, "insert", local)
    <3>1. \A j : ~(j \in 0 .. local.steps - 1)
      BY <2>3
    <3> QED  BY <1>1, <2>2, <2>3, <2>8, <2>9, <3>1 DEF HashThreadOk, Unregistered
  <2>13. Grown(tables, tables', t) /\ \A i \in 1 .. Len(tables') : EntriesOf(own2, tables'[i])
    BY <1>1, <2>11, GrownSame
  <2>14. \A u \in HashThreads : u # t =>
           acquired'[u] = acquired[u] /\ hashAt'[u] = hashAt[u] /\ hashLocal'[u] = hashLocal[u]
    BY <2>2, <2>4 DEF Threads
  <2>15. \E o \in [HashThreads -> Nat] : Owns(o)'
    BY <1>1, <1>6, <2>4, <2>5, <2>7, <2>9, <2>10, <2>12, <2>13, <2>14, OwnsKept
  <2> QED  BY <2>5, <2>6, <2>15 DEF HashInv
<1> QED  BY <1>7, <1>8 DEF Threads

(* Every step keeps the invariant of the hash tables.                       *)
LEMMA HashNextInv == HashInv /\ [HashNext]_hashVars => HashInv'
<1> SUFFICES ASSUME HashInv, [HashNext]_hashVars PROVE HashInv'
  OBVIOUS
<1>1. CASE \E t \in HashThreads : GetOrAdd(t) \/ Probe(t) \/ Count(t) \/ Insert(t)
  BY <1>1, GetOrAddStep, ProbeStep, CountStep, InsertStep
<1>2. CASE \E t \in TokenThreads : MakeToken(t) \/ DropToken(t)
  BY <1>2, MakeTokenStep, DropTokenStep
<1>3. CASE \E t \in Threads : \/ TryResize(t) \/ Resize(t) \/ ResizeFails(t) \/ Unlock(t) \/ Room(t)
                              \/ Look(t) \/ Catch(t) \/ CreateProducer(t) \/ CreateFails(t)
  BY <1>3, SameLocalStep, ResizeStep, FailStep, RoomStep, LookStep, CatchStep, CreateStep
<1>4. CASE UNCHANGED hashVars
  BY <1>4 DEF hashVars, HashInv, HashTypes, TokensInv, Owns
<1> QED  BY <1>1, <1>2, <1>3, <1>4 DEF HashNext, InCall

(* A set whose elements are equal.                                          *)
LEMMA AtMostOne ==
  ASSUME NEW S, \A p, q \in S : p = q
  PROVE  Cardinality(S) =< 1
<1>1. CASE S = {}
  BY <1>1, FS_EmptySet
<1>2. CASE S # {}
  <2>1. PICK p : S = {p}
    BY <1>2
  <2>2. Cardinality({p}) = 1
    BY FS_Singleton
  <2> QED  BY <2>1, <2>2
<1> QED  BY <1>1, <1>2

(* Producers of their own are not shared.                                   *)
LEMMA OwnersApart == HashInv => OwnProducer
<1> SUFFICES ASSUME HashInv PROVE OwnProducer
  OBVIOUS
<1>1. PICK own \in [HashThreads -> Nat] : Owns(own)
  BY DEF HashInv
<1>2. \A t \in HashThreads : acquired[t] \subseteq {own[t]} \ {0}
  BY <1>1 DEF Owns, HashThreadOk
<1>3. OwnersDiffer(own, producers)
  BY <1>1 DEF Owns
<1>4. \A t \in TokenThreads : /\ \A p, q \in acquired[t] : p = q
                              /\ \A p \in acquired[t] : producers[p].isExplicit
  BY DEF HashInv, TokensInv, TokenThreadOk
<1>5. ASSUME NEW t \in Threads PROVE Cardinality(acquired[t]) =< 1
  BY <1>2, <1>4, AtMostOne DEF Threads
<1>6. ASSUME NEW t \in Threads, NEW u \in Threads, t # u PROVE acquired[t] \intersect acquired[u] = {}
  <2>1. CASE t \in HashThreads /\ u \in HashThreads
    BY <1>2, <1>3, <1>6, <2>1 DEF OwnersDiffer
  <2>2. CASE t \in TokenThreads /\ u \in TokenThreads
    BY <1>6, <2>2 DEF HashInv, TokensInv
  <2>3. CASE t \in HashThreads /\ u \in TokenThreads
    BY <1>2, <1>3, <1>4, <2>3 DEF OwnersDiffer
  <2>4. CASE t \in TokenThreads /\ u \in HashThreads
    BY <1>2, <1>3, <1>4, <2>4 DEF OwnersDiffer
  <2> QED  BY <2>1, <2>2, <2>3, <2>4 DEF Threads
<1> QED  BY <1>5, <1>6 DEF OwnProducer

(* A thread is given one producer only, however many tables were put in     *)
(* front of the one it was first entered in, and no other thread or token   *)
(* is given the same: for any number of threads and tokens, any hash        *)
(* values, capacities and failures of allocations                           *)
(* (get_or_add_implicit_producer, recycle_or_create_producer).              *)
THEOREM OneProducerEach == HashSpec => []OwnProducer
<1>1. HashSpec => []HashInv
  BY HashInitInv, HashNextInv, PTL DEF HashSpec
<1> QED  BY <1>1, OwnersApart, PTL

-----------------------------------------------------------------------------
(* The list of free blocks (FreeList).                                      *)

(* The node a thread has counted a reference of.                            *)
Holds(t, n) ==
  \/ flAt[t] \in {"load next", "pop", "drop two"} /\ flLocal[t].head = n
  \/ flAt[t] = "drop one" /\ flLocal[t].prevHead = n
Holders(n) == {t \in FreeListThreads : Holds(t, n)}

(* A thread is about to put a node on the list: before it stores the one    *)
(* reference that is the list's, and after.                                 *)
Early == {"load expected", "store next", "store refs"}
Late == {"push", "leave"}

(* Where a node can be: a thread has it, a thread has popped it, a thread   *)
(* is about to put it on the list, it is on the list, or it is marked, and  *)
(* whoever drops the last reference will put it there.                      *)
Kinds == {"owned", "popped", "early", "late", "list", "marked"}
Weight(k) == IF k = "owned" THEN 0 ELSE IF k \in {"popped", "late", "list"} THEN 1 ELSE 8

(* A thread has a node, in this way.                                        *)
HasKinds == {"owned", "popped", "early", "late"}
Has(t, n, k) ==
  \/ k = "owned" /\ n \in flOwned[t]
  \/ k = "popped" /\ flAt[t] = "drop two" /\ flLocal[t].head = n
  \/ k = "early" /\ flAt[t] \in Early /\ flLocal[t].node = n
  \/ k = "late" /\ flAt[t] \in Late /\ flLocal[t].node = n

(* A node is in one place, that of one thread, and its count is that of the *)
(* threads that look at it, of the list and of the mark.                    *)
Placed(where, by) ==
  /\ \A n \in FreeListNodes, t \in FreeListThreads, k \in HasKinds :
       Has(t, n, k) <=> where[n] = k /\ by[n] = t
  /\ \A n \in FreeListNodes : n \in Chain <=> where[n] = "list"
  /\ \A n \in FreeListNodes : freeListRefs[n] = Cardinality(Holders(n)) + Weight(where[n])
  /\ \A n \in FreeListNodes : where[n] = "early" => Holders(n) = {}
  /\ \A n \in FreeListNodes : where[n] = "marked" => Holders(n) # {}

(* The list has no cycle.                                                   *)
Acyclic == \A n \in Chain : n \notin Reach(freeListNext[n], freeListNext)

(* What a thread knows of the nodes it looks at: the next one of the node   *)
(* it is about to pop, as long as it holds it; and that of the node it is   *)
(* about to push.                                                           *)
Fetched(t) ==
  /\ flAt[t] \in {"load refs", "take ref", "load next", "pop", "drop two"} =>
       flLocal[t].head \in FreeListNodes
  /\ flAt[t] = "take ref" => RefsBits(flLocal[t].refs) # 0
  /\ flAt[t] = "drop one" => flLocal[t].prevHead \in FreeListNodes
  /\ flAt[t] \in Early \cup Late => flLocal[t].node \in FreeListNodes
  /\ flAt[t] = "pop" => flLocal[t].next = freeListNext[flLocal[t].head]
  /\ flAt[t] \in {"store refs", "push"} =>
       freeListNext[flLocal[t].node] = flLocal[t].expected

NodeOrNone == FreeListNodes \cup {NoNode}
FLPlaces == {"idle", "load refs", "take ref", "load next", "pop", "drop two", "drop one", "reload"}
            \cup Early \cup Late
FLLocals ==
  [head : NodeOrNone, prevHead : NodeOrNone, refs : Nat, next : NodeOrNone,
   node : NodeOrNone, expected : NodeOrNone]

FreeListTypes ==
  /\ freeListHead \in NodeOrNone
  /\ freeListRefs \in [FreeListNodes -> Nat]
  /\ freeListNext \in [FreeListNodes -> NodeOrNone]
  /\ flAt \in [FreeListThreads -> FLPlaces]
  /\ flLocal \in [FreeListThreads -> FLLocals]
  /\ flOwned \in [FreeListThreads -> SUBSET FreeListNodes]

FreeListInv ==
  /\ FreeListTypes /\ Acyclic /\ \A t \in FreeListThreads : Fetched(t)
  /\ \E where \in [FreeListNodes -> Kinds], by \in [FreeListNodes -> FreeListThreads] :
       Placed(where, by)

-----------------------------------------------------------------------------
(* Lists of nodes.                                                          *)

(* The nodes found from a node on have it and their next nodes, and are in  *)
(* every set that does.                                                     *)
LEMMA ReachClosed ==
  ASSUME NEW h \in NodeOrNone, NEW nx \in [FreeListNodes -> NodeOrNone]
  PROVE  /\ Closed(Reach(h, nx), h, nx) /\ Reach(h, nx) \subseteq FreeListNodes
         /\ \A S \in SUBSET FreeListNodes : Closed(S, h, nx) => Reach(h, nx) \subseteq S
         /\ h = NoNode => Reach(h, nx) = {}
<1>1. NoNode \notin FreeListNodes
  BY FreeListConstants
<1>2. Reach(h, nx) \subseteq FreeListNodes
  BY DEF Reach
<1>3. \A S \in SUBSET FreeListNodes : Closed(S, h, nx) => Reach(h, nx) \subseteq S
  BY DEF Reach
<1>4. h \in Reach(h, nx) \cup {NoNode}
  BY DEF Reach, Closed, NodeOrNone
<1>5. ASSUME NEW n \in Reach(h, nx) PROVE nx[n] \in Reach(h, nx) \cup {NoNode}
  <2>1. n \in FreeListNodes /\ nx[n] \in NodeOrNone
    BY <1>2
  <2>2. \A S \in SUBSET FreeListNodes : Closed(S, h, nx) => nx[n] \in S \cup {NoNode}
    BY DEF Reach, Closed
  <2> QED  BY <2>1, <2>2 DEF Reach, NodeOrNone
<1>6. h = NoNode => Closed({}, h, nx)
  BY DEF Closed
<1> QED  BY <1>2, <1>3, <1>4, <1>5, <1>6 DEF Closed

(* A list is its first node and the list from the next one on.              *)
LEMMA ReachSplit ==
  ASSUME NEW n \in FreeListNodes, NEW nx \in [FreeListNodes -> NodeOrNone]
  PROVE  Reach(n, nx) = {n} \cup Reach(nx[n], nx)
<1>0. nx[n] \in NodeOrNone /\ n \in NodeOrNone /\ n # NoNode
  BY FreeListConstants DEF NodeOrNone
<1>1. Closed({n} \cup Reach(nx[n], nx), n, nx) /\ {n} \cup Reach(nx[n], nx) \in SUBSET FreeListNodes
  BY <1>0, ReachClosed DEF Closed
<1>2. Closed(Reach(n, nx), n, nx) /\ Reach(n, nx) \in SUBSET FreeListNodes
  BY <1>0, ReachClosed
<1>3. Closed(Reach(n, nx), nx[n], nx)
  BY <1>0, <1>2 DEF Closed
<1>4. Reach(nx[n], nx) \subseteq Reach(n, nx)
  BY <1>0, <1>2, <1>3, ReachClosed
<1>5. Reach(n, nx) \subseteq {n} \cup Reach(nx[n], nx)
  BY <1>0, <1>1, ReachClosed
<1>6. n \in Reach(n, nx)
  BY <1>0, <1>2 DEF Closed
<1> QED  BY <1>4, <1>5, <1>6

(* The list from a node of a list on is part of it.                         *)
LEMMA ReachPart ==
  ASSUME NEW h \in NodeOrNone, NEW nx \in [FreeListNodes -> NodeOrNone], NEW n \in Reach(h, nx)
  PROVE  Reach(nx[n], nx) \subseteq Reach(h, nx)
<1>1. Closed(Reach(h, nx), h, nx) /\ Reach(h, nx) \in SUBSET FreeListNodes
  BY ReachClosed
<1>2. nx[n] \in NodeOrNone /\ Closed(Reach(h, nx), nx[n], nx)
  BY <1>1 DEF Closed
<1> QED  BY <1>1, <1>2, ReachClosed

(* The next node of one that is not on the list does not matter to it.      *)
LEMMA ReachStore ==
  ASSUME NEW h \in NodeOrNone, NEW nx \in [FreeListNodes -> NodeOrNone],
         NEW n \in FreeListNodes, n \notin Reach(h, nx), NEW e \in NodeOrNone
  PROVE  Reach(h, [nx EXCEPT ![n] = e]) = Reach(h, nx)
<1> DEFINE ny == [nx EXCEPT ![n] = e]
<1>1. ny \in [FreeListNodes -> NodeOrNone] /\ \A m \in FreeListNodes : m # n => ny[m] = nx[m]
  OBVIOUS
<1> HIDE DEF ny
<1>2. Closed(Reach(h, nx), h, nx) /\ Reach(h, nx) \in SUBSET FreeListNodes
  BY ReachClosed
<1>3. Closed(Reach(h, nx), h, ny)
  BY <1>1, <1>2 DEF Closed
<1>4. Reach(h, ny) \subseteq Reach(h, nx)
  BY <1>1, <1>2, <1>3, ReachClosed
<1>5. Closed(Reach(h, ny), h, ny) /\ Reach(h, ny) \in SUBSET FreeListNodes
  BY <1>1, ReachClosed
<1>6. Closed(Reach(h, ny), h, nx)
  BY <1>1, <1>4, <1>5 DEF Closed
<1>7. Reach(h, nx) \subseteq Reach(h, ny)
  BY <1>5, <1>6, ReachClosed
<1> QED  BY <1>4, <1>7 DEF ny

-----------------------------------------------------------------------------
(* Those who look at a node.                                                *)

(* There are fewer holders than the mask can count, and one alone is the    *)
(* one there is.                                                            *)
LEMMA HoldersFinite ==
  ASSUME NEW n
  PROVE  /\ IsFiniteSet(Holders(n)) /\ Cardinality(Holders(n)) \in 0 .. 6
         /\ Cardinality(Holders(n)) = 0 <=> Holders(n) = {}
         /\ \A t \in Holders(n) : Cardinality(Holders(n)) = 1 => Holders(n) = {t}
<1>1. IsFiniteSet(FreeListThreads) /\ Cardinality(FreeListThreads) < 7
  BY FreeListConstants DEF ShouldBeOnFreeList
<1>2. Holders(n) \in SUBSET FreeListThreads
  BY DEF Holders
<1>3. IsFiniteSet(Holders(n)) /\ Cardinality(Holders(n)) =< Cardinality(FreeListThreads)
  BY <1>1, <1>2, FS_Subset
<1>4. Cardinality(Holders(n)) \in Nat /\ Cardinality(FreeListThreads) \in Nat
  BY <1>1, <1>3, FS_CardinalityType
<1>5. Cardinality(Holders(n)) = 0 <=> Holders(n) = {}
  BY <1>3, FS_EmptySet
<1>6. Cardinality(Holders(n)) = 1 => \E x : Holders(n) = {x}
  BY <1>3, FS_Singleton
<1> QED  BY <1>1, <1>3, <1>4, <1>5, <1>6

(* A step of one thread.                                                    *)
Others(t) ==
  /\ flAt' \in [FreeListThreads -> FLPlaces] /\ flLocal' \in [FreeListThreads -> FLLocals]
  /\ flOwned' \in [FreeListThreads -> SUBSET FreeListNodes]
  /\ \A u \in FreeListThreads :
       u # t => flAt'[u] = flAt[u] /\ flLocal'[u] = flLocal[u] /\ flOwned'[u] = flOwned[u]

(* A step of a thread changes the holders of a node by that thread at most. *)
LEMMA HoldersStep ==
  ASSUME NEW t \in FreeListThreads, Others(t), NEW n
  PROVE  /\ (Holds(t, n)' <=> Holds(t, n)) => Holders(n)' = Holders(n)
         /\ Holds(t, n)' /\ ~Holds(t, n) =>
              /\ Holders(n)' # {} /\ t \notin Holders(n)
              /\ Cardinality(Holders(n)') = Cardinality(Holders(n)) + 1
         /\ ~Holds(t, n)' /\ Holds(t, n) =>
              /\ t \in Holders(n)
              /\ Cardinality(Holders(n)') = Cardinality(Holders(n)) - 1
              /\ Holders(n)' = {} <=> Cardinality(Holders(n)) = 1
<1>1. \A u \in FreeListThreads : u # t => (Holds(u, n)' <=> Holds(u, n))
  BY DEF Others, Holds
<1>2. IsFiniteSet(Holders(n)) /\ Cardinality(Holders(n)) \in Nat
  BY HoldersFinite
<1>3. ASSUME Holds(t, n)' <=> Holds(t, n) PROVE Holders(n)' = Holders(n)
  BY <1>1, <1>3 DEF Holders
<1>4. ASSUME Holds(t, n)', ~Holds(t, n)
      PROVE  /\ Holders(n)' # {} /\ t \notin Holders(n)
             /\ Cardinality(Holders(n)') = Cardinality(Holders(n)) + 1
  <2>1. Holders(n)' = Holders(n) \cup {t} /\ t \notin Holders(n)
    BY <1>1, <1>4 DEF Holders
  <2>2. Cardinality(Holders(n) \cup {t}) = Cardinality(Holders(n)) + 1
    BY <1>2, <2>1, FS_AddElement
  <2> QED  BY <2>1, <2>2
<1>5. ASSUME ~Holds(t, n)', Holds(t, n)
      PROVE  /\ t \in Holders(n)
             /\ Cardinality(Holders(n)') = Cardinality(Holders(n)) - 1
             /\ Holders(n)' = {} <=> Cardinality(Holders(n)) = 1
  <2>1. Holders(n)' = Holders(n) \ {t} /\ t \in Holders(n)
    BY <1>1, <1>5 DEF Holders
  <2>2. /\ Cardinality(Holders(n) \ {t}) = Cardinality(Holders(n)) - 1
        /\ IsFiniteSet(Holders(n) \ {t})
    BY <1>2, <2>1, FS_RemoveElement
  <2>3. Holders(n) \ {t} = {} <=> Cardinality(Holders(n)) - 1 = 0
    BY <2>2, FS_EmptySet
  <2> QED  BY <1>2, <2>1, <2>2, <2>3
<1> QED  BY <1>3, <1>4, <1>5

(* A step of t that moves no node: the counts change with those who look at *)
(* the nodes.                                                               *)
Still(t, where) ==
  /\ Others(t) /\ Chain' = Chain
  /\ \A n \in FreeListNodes, k \in HasKinds : Has(t, n, k)' <=> Has(t, n, k)
  /\ \A n \in FreeListNodes :
       /\ freeListRefs'[n] = Cardinality(Holders(n)') + Weight(where[n])
       /\ where[n] = "early" => Holders(n)' = {}
       /\ where[n] = "marked" => Holders(n)' # {}

(* A step of t that moves the node m to k.                                  *)
Move(t, m, k) ==
  /\ Others(t)
  /\ \A n \in FreeListNodes, l \in HasKinds :
       Has(t, n, l)' <=> IF n = m THEN l = k ELSE Has(t, n, l)
  /\ \A n \in FreeListNodes : n \in Chain' <=> IF n = m THEN k = "list" ELSE n \in Chain
  /\ \A n \in FreeListNodes \ {m} :
       freeListRefs'[n] = freeListRefs[n] /\ Holders(n)' = Holders(n)
  /\ freeListRefs'[m] = Cardinality(Holders(m)') + Weight(k)
  /\ (k = "early" => Holders(m)' = {}) /\ (k = "marked" => Holders(m)' # {})

(* A step that moves no node keeps every node in its place.                 *)
LEMMA Stays ==
  ASSUME NEW where \in [FreeListNodes -> Kinds], NEW by \in [FreeListNodes -> FreeListThreads],
         Placed(where, by), NEW t \in FreeListThreads, Still(t, where)
  PROVE  Placed(where, by)'
<1>1. \A n \in FreeListNodes, u \in FreeListThreads, k \in HasKinds : Has(u, n, k)' <=> Has(u, n, k)
  <2> SUFFICES ASSUME NEW n \in FreeListNodes, NEW u \in FreeListThreads, NEW k \in HasKinds, u # t
               PROVE  Has(u, n, k)' <=> Has(u, n, k)
    BY DEF Still
  <2> QED  BY DEF Still, Others, Has
<1>2. \A n \in FreeListNodes, u \in FreeListThreads, k \in HasKinds :
        Has(u, n, k)' <=> where[n] = k /\ by[n] = u
  BY <1>1 DEF Placed
<1>3. \A n \in FreeListNodes : n \in Chain' <=> where[n] = "list"
  BY DEF Placed, Still
<1> QED  BY <1>2, <1>3 DEF Placed, Still

(* A step that moves one node of the thread, or one that no thread has,     *)
(* leaves every node in one place.                                          *)
LEMMA Moves ==
  ASSUME NEW where \in [FreeListNodes -> Kinds], NEW by \in [FreeListNodes -> FreeListThreads],
         Placed(where, by), NEW t \in FreeListThreads, NEW m \in FreeListNodes, NEW k \in Kinds,
         Move(t, m, k), by[m] = t \/ where[m] \in {"list", "marked"}
  PROVE  \E w \in [FreeListNodes -> Kinds], b \in [FreeListNodes -> FreeListThreads] : Placed(w, b)'
<1>0. \E w \in [FreeListNodes -> Kinds], b \in [FreeListNodes -> FreeListThreads] :
        w = [where EXCEPT ![m] = k] /\ b = [by EXCEPT ![m] = t]
  OBVIOUS
<1> PICK w \in [FreeListNodes -> Kinds], b \in [FreeListNodes -> FreeListThreads] :
           w = [where EXCEPT ![m] = k] /\ b = [by EXCEPT ![m] = t]
  BY <1>0
<1>1. /\ w \in [FreeListNodes -> Kinds] /\ b \in [FreeListNodes -> FreeListThreads]
      /\ w[m] = k /\ b[m] = t
      /\ \A n \in FreeListNodes \ {m} : w[n] = where[n] /\ b[n] = by[n]
  OBVIOUS
<1>2. ASSUME NEW n \in FreeListNodes, NEW u \in FreeListThreads, NEW l \in HasKinds
      PROVE  Has(u, n, l)' <=> w[n] = l /\ b[n] = u
  <2>1. CASE u = t /\ n = m
    BY <1>1, <2>1 DEF Move
  <2>2. CASE u = t /\ n # m
    BY <1>1, <2>2 DEF Placed, Move
  <2>3. CASE u # t
    <3>1. Has(u, n, l)' <=> Has(u, n, l)
      BY <2>3 DEF Move, Others, Has
    <3>2. Has(u, n, l) <=> where[n] = l /\ by[n] = u
      BY DEF Placed
    <3>3. n = m => ~(where[n] = l /\ by[n] = u)
      BY <2>3 DEF HasKinds
    <3> QED  BY <1>1, <2>3, <3>1, <3>2, <3>3
  <2> QED  BY <2>1, <2>2, <2>3
<1>3. \A n \in FreeListNodes : n \in Chain' <=> w[n] = "list"
  BY <1>1 DEF Placed, Move
<1>4. \A n \in FreeListNodes : freeListRefs'[n] = Cardinality(Holders(n)') + Weight(w[n])
  BY <1>1 DEF Placed, Move
<1>5. \A n \in FreeListNodes : w[n] = "early" => Holders(n)' = {}
  BY <1>1 DEF Placed, Move
<1>6. \A n \in FreeListNodes : w[n] = "marked" => Holders(n)' # {}
  BY <1>1 DEF Placed, Move
<1>7. Placed(w, b)'
  BY <1>2, <1>3, <1>4, <1>5, <1>6 DEF Placed
<1> QED  BY <1>7

(* Where a thread goes.                                                     *)
LEMMA Goes ==
  ASSUME FreeListTypes, NEW t \in FreeListThreads, NEW at \in FLPlaces, NEW local \in FLLocals,
         Goto(t, at, local), NEW o \in SUBSET FreeListNodes, flOwned' = [flOwned EXCEPT ![t] = o]
  PROVE  Others(t) /\ flAt'[t] = at /\ flLocal'[t] = local /\ flOwned'[t] = o
BY DEF FreeListTypes, Goto, Others

(* The same when what it owns does not change.                              *)
LEMMA GoesOwned ==
  ASSUME FreeListTypes, NEW t \in FreeListThreads, NEW at \in FLPlaces, NEW local \in FLLocals,
         Goto(t, at, local), UNCHANGED flOwned
  PROVE  Others(t) /\ flAt'[t] = at /\ flLocal'[t] = local /\ flOwned'[t] = flOwned[t]
BY DEF FreeListTypes, Goto, Others

(* The loop of try_get goes on.                                             *)
LEMMA Loops ==
  ASSUME FreeListTypes, NEW t \in FreeListThreads, NEW head \in NodeOrNone,
         Loop(t, head), UNCHANGED flOwned
  PROVE  /\ Others(t) /\ flAt'[t] \in {"idle", "load refs"} /\ flOwned'[t] = flOwned[t]
         /\ flAt'[t] = "load refs" => flLocal'[t].head \in FreeListNodes
<1> DEFINE local == [NoLocals EXCEPT !.head = head]
           at == IF head = NoNode THEN "idle" ELSE "load refs"
<1>1. local \in FLLocals /\ local.head = head /\ at \in FLPlaces
  BY DEF NoLocals, FLLocals, NodeOrNone, FLPlaces
<1>2. at \in {"idle", "load refs"} /\ (at = "load refs" => head \in FreeListNodes)
  BY DEF NodeOrNone
<1>3. Goto(t, at, local)
  BY DEF Loop
<1> HIDE DEF local, at
<1> QED  BY <1>1, <1>2, <1>3, GoesOwned

(* A step that leaves the list alone.                                       *)
LEMMA ListAlone ==
  ASSUME FreeListInv, NEW t \in FreeListThreads, Others(t), UNCHANGED <<freeListHead, freeListNext>>,
         freeListRefs' \in [FreeListNodes -> Nat], Fetched(t)',
         \E where \in [FreeListNodes -> Kinds], by \in [FreeListNodes -> FreeListThreads] :
           Placed(where, by)'
  PROVE  FreeListInv'
<1>1. FreeListTypes'
  BY DEF FreeListInv, FreeListTypes, Others
<1>2. Acyclic'
  BY DEF FreeListInv, Acyclic, Chain
<1>3. \A u \in FreeListThreads : Fetched(u)'
  <2> SUFFICES ASSUME NEW u \in FreeListThreads, u # t PROVE Fetched(u)'
    OBVIOUS
  <2>1. Fetched(u) /\ flAt'[u] = flAt[u] /\ flLocal'[u] = flLocal[u]
    BY DEF FreeListInv, Others
  <2> QED  BY <2>1 DEF Fetched
<1> QED  BY <1>1, <1>2, <1>3 DEF FreeListInv

(* The counts stay in their width.                                          *)
LEMMA Counts ==
  ASSUME NEW k \in 0 .. 6
  PROVE  /\ AddRefs(k, ShouldBeOnFreeList) = 8 + k
         /\ AddRefs(1 + k, ShouldBeOnFreeList - 1) = 8 + k
BY DEF AddRefs, ShouldBeOnFreeList

-----------------------------------------------------------------------------
(* The steps.                                                               *)

(* add: an owned node is put on the list, or left to those who look at it.  *)
LEMMA AddStep ==
  ASSUME FreeListInv, NEW t \in FreeListThreads, NEW n \in FreeListNodes, Add(t, n)
  PROVE  FreeListInv'
<1>0. FreeListTypes /\ flAt[t] = "idle" /\ n \in flOwned[t]
  BY DEF FreeListInv, Add
<1>1. PICK where \in [FreeListNodes -> Kinds], by \in [FreeListNodes -> FreeListThreads] :
        Placed(where, by)
  BY DEF FreeListInv
<1>2. where[n] = "owned" /\ by[n] = t
  BY <1>0, <1>1 DEF Placed, Has, HasKinds
<1>3. /\ freeListRefs[n] = Cardinality(Holders(n)) /\ Cardinality(Holders(n)) \in 0 .. 6
      /\ Cardinality(Holders(n)) = 0 <=> Holders(n) = {}
  <2>1. freeListRefs[n] = Cardinality(Holders(n)) + Weight("owned")
    BY <1>1, <1>2 DEF Placed
  <2> QED  BY <2>1, HoldersFinite DEF Weight
<1>4. freeListRefs' = [freeListRefs EXCEPT ![n] = 8 + Cardinality(Holders(n))]
  BY <1>3, Counts DEF Add
<1> DEFINE o == flOwned[t] \ {n}
           local == [NoLocals EXCEPT !.node = n]
           k == IF freeListRefs[n] = 0 THEN "early" ELSE "marked"
<1>5. /\ Others(t) /\ flOwned'[t] = o
      /\ IF freeListRefs[n] = 0 THEN flAt'[t] = "load expected" /\ flLocal'[t] = local
         ELSE flAt'[t] = flAt[t] /\ flLocal'[t] = flLocal[t]
  <2>1. o \in SUBSET FreeListNodes /\ flOwned' = [flOwned EXCEPT ![t] = o]
    BY <1>0 DEF FreeListTypes, Add
  <2>2. local \in FLLocals /\ "load expected" \in FLPlaces
    BY DEF NoLocals, FLLocals, NodeOrNone, FLPlaces, Early
  <2> HIDE DEF o, local
  <2>3. CASE freeListRefs[n] = 0
    <3>1. Goto(t, "load expected", local)
      BY <2>3 DEF Add, local
    <3> QED  BY <1>0, <2>1, <2>2, <2>3, <3>1, Goes
  <2>4. CASE freeListRefs[n] # 0
    BY <1>0, <2>1, <2>4 DEF Add, Others, FreeListTypes
  <2> QED  BY <2>3, <2>4
<1>6. local.node = n
  BY DEF NoLocals
<1> HIDE DEF local
<1>7. \A m : Holders(m)' = Holders(m)
  <2> SUFFICES ASSUME NEW m PROVE Holders(m)' = Holders(m)
    OBVIOUS
  <2>1. Holds(t, m)' <=> Holds(t, m)
    BY <1>0, <1>5 DEF Holds
  <2> QED  BY <1>5, <2>1, HoldersStep
<1>8. ASSUME NEW m \in FreeListNodes, NEW l \in HasKinds
      PROVE  Has(t, m, l)' <=> IF m = n THEN l = k ELSE Has(t, m, l)
  BY <1>0, <1>5, <1>6 DEF Has, HasKinds, Early, Late
<1>9. UNCHANGED <<freeListHead, freeListNext>> /\ Chain' = Chain
  BY DEF Add, Chain
<1>10. n \notin Chain
  BY <1>1, <1>2 DEF Placed
<1>11. /\ freeListRefs' \in [FreeListNodes -> Nat]
       /\ freeListRefs'[n] = Cardinality(Holders(n)') + Weight(k)
       /\ \A m \in FreeListNodes \ {n} : freeListRefs'[m] = freeListRefs[m]
  BY <1>0, <1>3, <1>4, <1>7 DEF FreeListTypes, Weight
<1>12. k \in Kinds /\ (k = "early" => Holders(n)' = {}) /\ (k = "marked" => Holders(n)' # {})
       /\ k # "list"
  BY <1>3, <1>7 DEF Kinds
<1> HIDE DEF k
<1>13. \E w \in [FreeListNodes -> Kinds], b \in [FreeListNodes -> FreeListThreads] : Placed(w, b)'
  <2>1. \A m \in FreeListNodes : m \in Chain' <=> IF m = n THEN k = "list" ELSE m \in Chain
    BY <1>9, <1>10, <1>12
  <2>2. \A m \in FreeListNodes \ {n} :
          freeListRefs'[m] = freeListRefs[m] /\ Holders(m)' = Holders(m)
    BY <1>7, <1>11
  <2>3. Move(t, n, k)
    BY <1>5, <1>8, <1>11, <1>12, <2>1, <2>2 DEF Move
  <2> QED  BY <1>1, <1>2, <1>12, <2>3, Moves
<1>14. Fetched(t)'
  BY <1>0, <1>5, <1>6 DEF Fetched, Early, Late
<1> QED  BY <1>5, <1>9, <1>11, <1>13, <1>14, ListAlone

(* A step that changes only what its thread knows.                          *)
LEMMA Quiet ==
  ASSUME FreeListInv, NEW t \in FreeListThreads, Others(t),
         UNCHANGED <<freeListHead, freeListNext, freeListRefs>>,
         \A n \in FreeListNodes, k \in HasKinds : Has(t, n, k)' <=> Has(t, n, k),
         \A n \in FreeListNodes : Holds(t, n)' <=> Holds(t, n),
         Fetched(t)'
  PROVE  FreeListInv'
<1>1. PICK where \in [FreeListNodes -> Kinds], by \in [FreeListNodes -> FreeListThreads] :
        Placed(where, by)
  BY DEF FreeListInv
<1>2. \A n \in FreeListNodes : Holders(n)' = Holders(n)
  BY HoldersStep
<1>3. Chain' = Chain
  BY DEF Chain
<1>4. \A n \in FreeListNodes :
       /\ freeListRefs'[n] = Cardinality(Holders(n)') + Weight(where[n])
       /\ where[n] = "early" => Holders(n)' = {}
       /\ where[n] = "marked" => Holders(n)' # {}
  BY <1>1, <1>2 DEF Placed
<1>5. Placed(where, by)'
  BY <1>1, <1>3, <1>4, Stays DEF Still
<1>6. freeListRefs' \in [FreeListNodes -> Nat]
  BY DEF FreeListInv, FreeListTypes
<1> QED  BY <1>5, <1>6, ListAlone

(* What the invariant says of one thread.                                   *)
LEMMA LocalFacts ==
  ASSUME FreeListInv, NEW t \in FreeListThreads
  PROVE  /\ FreeListTypes /\ flLocal[t] \in FLLocals /\ freeListHead \in NodeOrNone
         /\ flLocal[t].head \in NodeOrNone /\ flLocal[t].node \in NodeOrNone
         /\ flLocal[t].prevHead \in NodeOrNone /\ flLocal[t].next \in NodeOrNone
         /\ flLocal[t].expected \in NodeOrNone /\ flLocal[t].refs \in Nat
         /\ Fetched(t) /\ flOwned[t] \in SUBSET FreeListNodes
BY DEF FreeListInv, FreeListTypes, FLLocals

(* add_knowing_refcount_is_zero: the head is read.                          *)
LEMMA LoadExpectedStep ==
  ASSUME FreeListInv, NEW t \in FreeListThreads, LoadExpected(t)
  PROVE  FreeListInv'
<1> DEFINE local == [flLocal[t] EXCEPT !.expected = freeListHead]
<1>1. local \in FLLocals /\ local.node = flLocal[t].node
  BY LocalFacts DEF FLLocals
<1>2. Goto(t, "store next", local) /\ "store next" \in FLPlaces
  BY DEF LoadExpected, FLPlaces, Early
<1> HIDE DEF local
<1>3. /\ Others(t) /\ flAt'[t] = "store next" /\ flLocal'[t] = local /\ flOwned'[t] = flOwned[t]
      /\ flAt[t] = "load expected"
  BY <1>1, <1>2, LocalFacts, GoesOwned DEF LoadExpected
<1>4. \A n \in FreeListNodes, k \in HasKinds : Has(t, n, k)' <=> Has(t, n, k)
  BY <1>1, <1>3 DEF Has, Early, Late
<1>5. \A n \in FreeListNodes : Holds(t, n)' <=> Holds(t, n)
  BY <1>3 DEF Holds
<1>6. Fetched(t)'
  BY <1>1, <1>3, LocalFacts DEF Fetched, Early, Late
<1> QED  BY <1>3, <1>4, <1>5, <1>6, Quiet DEF LoadExpected

(* try_get: the head and its count are read.                                *)
LEMMA LoadHeadStep ==
  ASSUME FreeListInv, NEW t \in FreeListThreads, LoadHead(t)
  PROVE  FreeListInv'
<1>1. CASE TryGet(t) \/ Reload(t)
  <2>1. Loop(t, freeListHead) /\ flAt[t] \in {"idle", "reload"} /\ UNCHANGED flOwned
    BY <1>1 DEF TryGet, Reload, LoadHead
  <2>2. /\ Others(t) /\ flAt'[t] \in {"idle", "load refs"} /\ flOwned'[t] = flOwned[t]
        /\ flAt'[t] = "load refs" => flLocal'[t].head \in FreeListNodes
    BY <2>1, LocalFacts, Loops
  <2>3. \A n \in FreeListNodes, k \in HasKinds : Has(t, n, k)' <=> Has(t, n, k)
    BY <2>1, <2>2 DEF Has, Early, Late
  <2>4. \A n \in FreeListNodes : Holds(t, n)' <=> Holds(t, n)
    BY <2>1, <2>2 DEF Holds
  <2>5. Fetched(t)'
    BY <2>2 DEF Fetched, Early, Late
  <2> QED  BY <2>2, <2>3, <2>4, <2>5, Quiet DEF LoadHead
<1>2. CASE LoadRefs(t)
  <2> DEFINE refs == freeListRefs[flLocal[t].head]
             at == IF RefsBits(refs) = 0 THEN "reload" ELSE "take ref"
             local == [flLocal[t] EXCEPT !.refs = refs]
  <2>1. flAt[t] = "load refs" /\ Goto(t, at, local) /\ UNCHANGED flOwned
    BY <1>2 DEF LoadRefs, LoadHead
  <2>2. flLocal[t].head \in FreeListNodes
    BY <2>1, LocalFacts DEF Fetched
  <2>3. refs \in Nat
    BY <2>2, LocalFacts DEF FreeListTypes
  <2>4. at \in FLPlaces /\ at \in {"reload", "take ref"} /\ (at = "take ref" => RefsBits(refs) # 0)
    BY DEF FLPlaces
  <2> HIDE DEF refs, at
  <2>5. local \in FLLocals /\ local.head = flLocal[t].head /\ local.refs = refs
    BY <2>3, LocalFacts DEF FLLocals
  <2> HIDE DEF local
  <2>6. Others(t) /\ flAt'[t] = at /\ flLocal'[t] = local /\ flOwned'[t] = flOwned[t]
    BY <2>1, <2>4, <2>5, LocalFacts, GoesOwned
  <2>7. \A n \in FreeListNodes, k \in HasKinds : Has(t, n, k)' <=> Has(t, n, k)
    BY <2>1, <2>4, <2>6 DEF Has, Early, Late
  <2>8. \A n \in FreeListNodes : Holds(t, n)' <=> Holds(t, n)
    BY <2>1, <2>4, <2>6 DEF Holds
  <2>9. Fetched(t)'
    BY <2>2, <2>4, <2>5, <2>6 DEF Fetched, Early, Late
  <2> QED  BY <2>6, <2>7, <2>8, <2>9, Quiet DEF LoadHead
<1> QED  BY <1>1, <1>2 DEF LoadHead

(* The next node of the head is read, which no other thread changes now.    *)
LEMMA LoadNextStep ==
  ASSUME FreeListInv, NEW t \in FreeListThreads, LoadNext(t)
  PROVE  FreeListInv'
<1> DEFINE next == freeListNext[flLocal[t].head]
           local == [flLocal[t] EXCEPT !.next = next, !.refs = 0]
<1>1. flAt[t] = "load next" /\ Goto(t, "pop", local) /\ UNCHANGED flOwned /\ "pop" \in FLPlaces
  BY DEF LoadNext, FLPlaces
<1>2. flLocal[t].head \in FreeListNodes
  BY <1>1, LocalFacts DEF Fetched
<1>3. next \in NodeOrNone
  BY <1>2, LocalFacts DEF FreeListTypes
<1> HIDE DEF next
<1>4. local \in FLLocals /\ local.head = flLocal[t].head /\ local.next = next
  BY <1>3, LocalFacts DEF FLLocals
<1> HIDE DEF local
<1>5. Others(t) /\ flAt'[t] = "pop" /\ flLocal'[t] = local /\ flOwned'[t] = flOwned[t]
  BY <1>1, <1>4, LocalFacts, GoesOwned
<1>6. \A n \in FreeListNodes, k \in HasKinds : Has(t, n, k)' <=> Has(t, n, k)
  BY <1>1, <1>5 DEF Has, Early, Late
<1>7. \A n \in FreeListNodes : Holds(t, n)' <=> Holds(t, n)
  BY <1>1, <1>4, <1>5 DEF Holds
<1>8. UNCHANGED <<freeListHead, freeListNext, freeListRefs>>
  BY DEF LoadNext
<1>9. Fetched(t)'
  BY <1>2, <1>4, <1>5, <1>8 DEF Fetched, Early, Late, next
<1> QED  BY <1>5, <1>6, <1>7, <1>8, <1>9, Quiet

(* A reference is counted, of a node that is in no thread's early hands:    *)
(* its count was not zero, and the mark alone is not a reference.           *)
LEMMA TakeRefStep ==
  ASSUME FreeListInv, NEW t \in FreeListThreads, TakeRef(t)
  PROVE  FreeListInv'
<1>1. flAt[t] = "take ref" /\ UNCHANGED <<freeListHead, freeListNext, flOwned>>
  BY DEF TakeRef
<1>2. PICK head \in FreeListNodes : flLocal[t].head = head /\ RefsBits(flLocal[t].refs) # 0
  BY <1>1, LocalFacts DEF Fetched
<1>3. CASE freeListRefs[head] = flLocal[t].refs
  <2>1. /\ Goto(t, "load next", flLocal[t])
        /\ freeListRefs' = [freeListRefs EXCEPT ![head] = AddRefs(freeListRefs[head], 1)]
    BY <1>2, <1>3 DEF TakeRef
  <2>2. Others(t) /\ flAt'[t] = "load next" /\ flLocal'[t] = flLocal[t] /\ flOwned'[t] = flOwned[t]
    BY <1>1, <2>1, LocalFacts, GoesOwned DEF FLPlaces
  <2>3. PICK where \in [FreeListNodes -> Kinds], by \in [FreeListNodes -> FreeListThreads] :
          Placed(where, by)
    BY DEF FreeListInv
  <2>4. freeListRefs[head] = Cardinality(Holders(head)) + Weight(where[head])
    BY <1>2, <2>3 DEF Placed
  <2>5. Weight(where[head]) \in {0, 1, 8} /\ Cardinality(Holders(head)) \in 0 .. 6
        /\ (where[head] = "early" => Weight(where[head]) = 8 /\ Cardinality(Holders(head)) = 0)
    BY <1>2, <2>3, HoldersFinite DEF Placed, Weight
  <2>6. where[head] # "early"
    BY <1>2, <1>3, <2>4, <2>5 DEF RefsBits, ShouldBeOnFreeList
  <2>7. AddRefs(freeListRefs[head], 1) = Cardinality(Holders(head)) + 1 + Weight(where[head])
    <3> DEFINE k == Cardinality(Holders(head))
               w == Weight(where[head])
    <3>1. k \in 0 .. 6 /\ w \in {0, 1, 8} /\ freeListRefs[head] = k + w
      BY <2>4, <2>5
    <3> HIDE DEF k, w
    <3>2. AddRefs(k + w, 1) = k + 1 + w
      BY <3>1 DEF AddRefs, ShouldBeOnFreeList
    <3> QED  BY <3>1, <3>2 DEF k, w
  <2>8. /\ Holders(head)' # {} /\ Cardinality(Holders(head)') = Cardinality(Holders(head)) + 1
    <3>1. Holds(t, head)' /\ ~Holds(t, head)
      BY <1>1, <1>2, <2>2 DEF Holds
    <3> QED  BY <2>2, <3>1, HoldersStep
  <2>9. \A n \in FreeListNodes \ {head} : Holders(n)' = Holders(n)
    <3> SUFFICES ASSUME NEW n \in FreeListNodes \ {head} PROVE Holders(n)' = Holders(n)
      OBVIOUS
    <3>1. Holds(t, n)' <=> Holds(t, n)
      BY <1>1, <1>2, <2>2 DEF Holds
    <3> QED  BY <2>2, <3>1, HoldersStep
  <2>10. \A n \in FreeListNodes \ {head} : freeListRefs'[n] = freeListRefs[n]
    BY <1>2, <2>1, LocalFacts DEF FreeListTypes
  <2>11. /\ freeListRefs'[head] = Cardinality(Holders(head)') + Weight(where[head])
         /\ freeListRefs' \in [FreeListNodes -> Nat]
    <3>1. AddRefs(freeListRefs[head], 1) \in Nat
      BY <2>5, <2>7
    <3>2. freeListRefs \in [FreeListNodes -> Nat]
      BY LocalFacts DEF FreeListTypes
    <3>3. freeListRefs'[head] = AddRefs(freeListRefs[head], 1) /\ freeListRefs' \in [FreeListNodes -> Nat]
      BY <1>2, <2>1, <3>1, <3>2
    <3> QED  BY <2>5, <2>7, <2>8, <3>3
  <2>12. \A n \in FreeListNodes :
          /\ freeListRefs'[n] = Cardinality(Holders(n)') + Weight(where[n])
          /\ where[n] = "early" => Holders(n)' = {}
          /\ where[n] = "marked" => Holders(n)' # {}
    <3> SUFFICES ASSUME NEW n \in FreeListNodes
                 PROVE /\ freeListRefs'[n] = Cardinality(Holders(n)') + Weight(where[n])
                       /\ where[n] = "early" => Holders(n)' = {}
                       /\ where[n] = "marked" => Holders(n)' # {}
      OBVIOUS
    <3>1. CASE n = head
      BY <2>6, <2>8, <2>11, <3>1
    <3>2. CASE n # head
      BY <2>3, <2>9, <2>10, <3>2 DEF Placed
    <3> QED  BY <3>1, <3>2
  <2>13. \A n \in FreeListNodes, k \in HasKinds : Has(t, n, k)' <=> Has(t, n, k)
    BY <1>1, <2>2 DEF Has, Early, Late
  <2>14. Placed(where, by)'
    <3>1. Chain' = Chain
      BY <1>1 DEF Chain
    <3> QED  BY <2>2, <2>3, <2>12, <2>13, <3>1, Stays DEF Still
  <2>15. Fetched(t)'
    BY <1>2, <2>2 DEF Fetched, Early, Late
  <2> QED  BY <1>1, <2>2, <2>11, <2>14, <2>15, ListAlone
<1>4. CASE freeListRefs[head] # flLocal[t].refs
  <2>1. Goto(t, "reload", NoLocals) /\ UNCHANGED freeListRefs
    BY <1>2, <1>4 DEF TakeRef
  <2>2. NoLocals \in FLLocals /\ "reload" \in FLPlaces
    BY DEF NoLocals, FLLocals, NodeOrNone, FLPlaces
  <2>3. Others(t) /\ flAt'[t] = "reload" /\ flOwned'[t] = flOwned[t]
    BY <1>1, <2>1, <2>2, LocalFacts, GoesOwned
  <2>4. \A n \in FreeListNodes, k \in HasKinds : Has(t, n, k)' <=> Has(t, n, k)
    BY <1>1, <2>3 DEF Has, Early, Late
  <2>5. \A n \in FreeListNodes : Holds(t, n)' <=> Holds(t, n)
    BY <1>1, <2>3 DEF Holds
  <2>6. Fetched(t)'
    BY <2>3 DEF Fetched, Early, Late
  <2> QED  BY <1>1, <2>1, <2>3, <2>4, <2>5, <2>6, Quiet
<1> QED  BY <1>3, <1>4

(* The head is popped: nobody changed its next node while it was held.      *)
LEMMA PopStep ==
  ASSUME FreeListInv, NEW t \in FreeListThreads, Pop(t)
  PROVE  FreeListInv'
<1>1. flAt[t] = "pop" /\ UNCHANGED <<freeListRefs, freeListNext, flOwned>>
  BY DEF Pop
<1>2. PICK head \in FreeListNodes : flLocal[t].head = head /\ flLocal[t].next = freeListNext[head]
  BY <1>1, LocalFacts DEF Fetched
<1>3. CASE freeListHead = head
  <2> DEFINE local == [NoLocals EXCEPT !.head = head]
  <2>1. freeListHead' = freeListNext[head] /\ Goto(t, "drop two", local)
    BY <1>2, <1>3 DEF Pop
  <2>2. local \in FLLocals /\ local.head = head
    BY <1>2 DEF NoLocals, FLLocals, NodeOrNone
  <2> HIDE DEF local
  <2>3. Others(t) /\ flAt'[t] = "drop two" /\ flLocal'[t] = local /\ flOwned'[t] = flOwned[t]
    BY <1>1, <2>1, <2>2, LocalFacts, GoesOwned DEF FLPlaces
  <2>4. PICK where \in [FreeListNodes -> Kinds], by \in [FreeListNodes -> FreeListThreads] :
          Placed(where, by)
    BY DEF FreeListInv
  <2>5. freeListNext \in [FreeListNodes -> NodeOrNone] /\ freeListHead \in NodeOrNone
    BY LocalFacts DEF FreeListTypes
  <2>6. Chain = {head} \cup Reach(freeListNext[head], freeListNext)
    BY <1>2, <1>3, <2>5, ReachSplit DEF Chain
  <2>7. Chain' = Reach(freeListNext[head], freeListNext)
    BY <1>1, <2>1 DEF Chain
  <2>8. head \notin Chain' /\ Chain = {head} \cup Chain'
    BY <2>6, <2>7 DEF FreeListInv, Acyclic
  <2>9. where[head] = "list"
    BY <1>2, <2>4, <2>8 DEF Placed
  <2>10. \A n : Holders(n)' = Holders(n)
    <3> SUFFICES ASSUME NEW n PROVE Holders(n)' = Holders(n)
      OBVIOUS
    <3>1. Holds(t, n)' <=> Holds(t, n)
      BY <1>1, <1>2, <2>2, <2>3 DEF Holds
    <3> QED  BY <2>3, <3>1, HoldersStep
  <2>11. \A n \in FreeListNodes, l \in HasKinds :
           Has(t, n, l)' <=> IF n = head THEN l = "popped" ELSE Has(t, n, l)
    <3>1. head \notin flOwned[t]
      BY <1>2, <2>4, <2>9 DEF Placed, Has, HasKinds
    <3> QED  BY <1>1, <2>2, <2>3, <3>1 DEF Has, Early, Late, HasKinds
  <2>12. freeListRefs'[head] = Cardinality(Holders(head)') + Weight("popped")
    BY <1>1, <1>2, <2>4, <2>9, <2>10 DEF Placed, Weight
  <2>13. \A n \in FreeListNodes : n \in Chain' <=> IF n = head THEN "popped" = "list" ELSE n \in Chain
    BY <2>8
  <2>14. \A n \in FreeListNodes \ {head} :
           freeListRefs'[n] = freeListRefs[n] /\ Holders(n)' = Holders(n)
    BY <1>1, <2>10
  <2>15. Move(t, head, "popped")
    BY <2>3, <2>11, <2>12, <2>13, <2>14 DEF Move
  <2>16. \E w \in [FreeListNodes -> Kinds], b \in [FreeListNodes -> FreeListThreads] : Placed(w, b)'
    BY <1>2, <2>4, <2>9, <2>15, Moves DEF Kinds
  <2>17. Acyclic'
    BY <1>1, <2>8 DEF FreeListInv, Acyclic
  <2>18. FreeListTypes'
    BY <1>1, <1>2, <2>1, <2>3, <2>5 DEF FreeListInv, FreeListTypes, Others
  <2>19. \A u \in FreeListThreads : Fetched(u)'
    <3>1. ASSUME NEW u \in FreeListThreads, u # t PROVE Fetched(u)'
      <4>1. Fetched(u) /\ flAt'[u] = flAt[u] /\ flLocal'[u] = flLocal[u]
        BY <2>3, <3>1 DEF FreeListInv, Others
      <4> QED  BY <1>1, <4>1 DEF Fetched
    <3>2. Fetched(t)'
      BY <1>2, <2>2, <2>3 DEF Fetched, Early, Late
    <3> QED  BY <3>1, <3>2
  <2> QED  BY <2>16, <2>17, <2>18, <2>19 DEF FreeListInv
<1>4. CASE freeListHead # head
  <2> DEFINE local == [NoLocals EXCEPT !.prevHead = head, !.head = freeListHead]
  <2>1. UNCHANGED freeListHead /\ Goto(t, "drop one", local)
    BY <1>2, <1>4 DEF Pop
  <2>2. local \in FLLocals /\ local.prevHead = head
    BY <1>2, LocalFacts DEF NoLocals, FLLocals, NodeOrNone
  <2> HIDE DEF local
  <2>3. Others(t) /\ flAt'[t] = "drop one" /\ flLocal'[t] = local /\ flOwned'[t] = flOwned[t]
    BY <1>1, <2>1, <2>2, LocalFacts, GoesOwned DEF FLPlaces
  <2>4. \A n \in FreeListNodes, k \in HasKinds : Has(t, n, k)' <=> Has(t, n, k)
    BY <1>1, <2>3 DEF Has, Early, Late
  <2>5. \A n \in FreeListNodes : Holds(t, n)' <=> Holds(t, n)
    BY <1>1, <1>2, <2>2, <2>3 DEF Holds
  <2>6. Fetched(t)'
    BY <1>2, <2>2, <2>3 DEF Fetched, Early, Late
  <2> QED  BY <1>1, <2>1, <2>3, <2>4, <2>5, <2>6, Quiet
<1> QED  BY <1>3, <1>4

(* The node is the caller's: the list's reference and its own are dropped.  *)
LEMMA DropTwoStep ==
  ASSUME FreeListInv, NEW t \in FreeListThreads, DropTwo(t)
  PROVE  FreeListInv'
<1>1. flAt[t] = "drop two" /\ UNCHANGED <<freeListHead, freeListNext>>
  BY DEF DropTwo
<1>2. PICK head \in FreeListNodes : flLocal[t].head = head
  BY <1>1, LocalFacts DEF Fetched
<1>3. PICK where \in [FreeListNodes -> Kinds], by \in [FreeListNodes -> FreeListThreads] :
        Placed(where, by)
  BY DEF FreeListInv
<1>4. where[head] = "popped" /\ by[head] = t
  BY <1>1, <1>2, <1>3 DEF Placed, Has, HasKinds
<1>5. Others(t) /\ flAt'[t] = "idle" /\ flOwned'[t] = flOwned[t] \cup {head}
  <2> DEFINE o == flOwned[t] \cup {head}
  <2>1. Goto(t, "idle", NoLocals) /\ flOwned' = [flOwned EXCEPT ![t] = o]
    BY <1>2 DEF DropTwo
  <2>2. NoLocals \in FLLocals /\ "idle" \in FLPlaces /\ o \in SUBSET FreeListNodes
    BY LocalFacts DEF NoLocals, FLLocals, NodeOrNone, FLPlaces
  <2>3. o = flOwned[t] \cup {head}
    OBVIOUS
  <2> HIDE DEF o
  <2>4. Others(t) /\ flAt'[t] = "idle" /\ flOwned'[t] = o
    BY <2>1, <2>2, LocalFacts, Goes
  <2> QED  BY <2>3, <2>4
<1>6. Cardinality(Holders(head)') = Cardinality(Holders(head)) - 1 /\ Cardinality(Holders(head)) > 0
  <2>1. ~Holds(t, head)' /\ Holds(t, head)
    BY <1>1, <1>2, <1>5 DEF Holds
  <2>2. t \in Holders(head) /\ Cardinality(Holders(head)') = Cardinality(Holders(head)) - 1
    BY <1>5, <2>1, HoldersStep
  <2> QED  BY <2>2, HoldersFinite
<1>7. \A n \in FreeListNodes \ {head} : Holders(n)' = Holders(n)
  <2> SUFFICES ASSUME NEW n \in FreeListNodes \ {head} PROVE Holders(n)' = Holders(n)
    OBVIOUS
  <2>1. Holds(t, n)' <=> Holds(t, n)
    BY <1>1, <1>2, <1>5 DEF Holds
  <2> QED  BY <1>5, <2>1, HoldersStep
<1>8. /\ freeListRefs'[head] = Cardinality(Holders(head)') + Weight("owned")
      /\ freeListRefs' \in [FreeListNodes -> Nat]
      /\ \A n \in FreeListNodes \ {head} : freeListRefs'[n] = freeListRefs[n]
  <2>1. freeListRefs[head] = Cardinality(Holders(head)) + 1
    BY <1>3, <1>4 DEF Placed, Weight
  <2>2. freeListRefs' = [freeListRefs EXCEPT ![head] = AddRefs(freeListRefs[head], -2)]
    BY <1>2 DEF DropTwo
  <2>3. Cardinality(Holders(head)) \in 0 .. 6
    BY HoldersFinite
  <2>4. AddRefs(freeListRefs[head], -2) = Cardinality(Holders(head)) - 1
    BY <1>6, <2>1, <2>3 DEF AddRefs, ShouldBeOnFreeList
  <2>5. freeListRefs \in [FreeListNodes -> Nat] /\ Cardinality(Holders(head)) - 1 \in Nat
    BY <1>6, <2>3, LocalFacts DEF FreeListTypes
  <2> QED  BY <1>6, <2>2, <2>4, <2>5 DEF Weight
<1>9. \A n \in FreeListNodes, l \in HasKinds :
        Has(t, n, l)' <=> IF n = head THEN l = "owned" ELSE Has(t, n, l)
  BY <1>1, <1>2, <1>5 DEF Has, Early, Late, HasKinds
<1>10. \A n \in FreeListNodes : n \in Chain' <=> IF n = head THEN "owned" = "list" ELSE n \in Chain
  <2>1. Chain' = Chain /\ head \notin Chain
    BY <1>1, <1>3, <1>4 DEF Chain, Placed
  <2> QED  BY <2>1
<1>11. Move(t, head, "owned")
  BY <1>5, <1>7, <1>8, <1>9, <1>10 DEF Move
<1>12. \E w \in [FreeListNodes -> Kinds], b \in [FreeListNodes -> FreeListThreads] : Placed(w, b)'
  BY <1>3, <1>4, <1>11, Moves DEF Kinds
<1>13. Fetched(t)'
  BY <1>5 DEF Fetched, Early, Late
<1> QED  BY <1>1, <1>5, <1>8, <1>12, <1>13, ListAlone

(* A reference is dropped: by the last who looked at a marked node, who     *)
(* puts it on the list.                                                     *)
LEMMA DropOneStep ==
  ASSUME FreeListInv, NEW t \in FreeListThreads, DropOne(t)
  PROVE  FreeListInv'
<1>1. flAt[t] = "drop one" /\ UNCHANGED <<freeListHead, freeListNext, flOwned>>
  BY DEF DropOne
<1>2. PICK prev \in FreeListNodes : flLocal[t].prevHead = prev
  BY <1>1, LocalFacts DEF Fetched
<1>3. PICK where \in [FreeListNodes -> Kinds], by \in [FreeListNodes -> FreeListThreads] :
        Placed(where, by)
  BY DEF FreeListInv
<1> DEFINE local == [flLocal[t] EXCEPT !.node = prev, !.prevHead = NoNode]
<1>4. local \in FLLocals /\ local.node = prev
  BY LocalFacts DEF FLLocals, NodeOrNone
<1> HIDE DEF local
<1>5. /\ Others(t) /\ flOwned'[t] = flOwned[t]
      /\ \/ /\ freeListRefs[prev] = 9
            /\ flAt'[t] = "load expected" /\ flLocal'[t] = local
         \/ /\ freeListRefs[prev] # 9
            /\ flAt'[t] \in {"idle", "load refs"}
            /\ flAt'[t] = "load refs" => flLocal'[t].head \in FreeListNodes
  <2>1. CASE freeListRefs[prev] = 9
    <3>0. freeListRefs[prev] = ShouldBeOnFreeList + 1
      BY <2>1 DEF ShouldBeOnFreeList
    <3>1. Goto(t, "load expected", local)
      BY <1>2, <3>0 DEF DropOne, local
    <3> QED  BY <1>1, <1>4, <2>1, <3>1, LocalFacts, GoesOwned DEF FLPlaces, Early
  <2>2. CASE freeListRefs[prev] # 9
    <3>0. freeListRefs[prev] # ShouldBeOnFreeList + 1
      BY <2>2 DEF ShouldBeOnFreeList
    <3>1. Loop(t, flLocal[t].head)
      BY <1>2, <3>0 DEF DropOne
    <3> QED  BY <1>1, <2>2, <3>1, LocalFacts, Loops
  <2> QED  BY <2>1, <2>2
<1>6. Holds(t, prev) /\ ~Holds(t, prev)'
  BY <1>1, <1>2, <1>5 DEF Holds
<1>7. /\ Cardinality(Holders(prev)') = Cardinality(Holders(prev)) - 1
      /\ Holders(prev)' = {} <=> Cardinality(Holders(prev)) = 1
      /\ Cardinality(Holders(prev)) \in 1 .. 6 /\ Holders(prev) # {}
  <2>1. /\ t \in Holders(prev) /\ Cardinality(Holders(prev)') = Cardinality(Holders(prev)) - 1
        /\ Holders(prev)' = {} <=> Cardinality(Holders(prev)) = 1
    BY <1>5, <1>6, HoldersStep
  <2> QED  BY <2>1, HoldersFinite
<1>8. \A n \in FreeListNodes \ {prev} : Holders(n)' = Holders(n)
  <2> SUFFICES ASSUME NEW n \in FreeListNodes \ {prev} PROVE Holders(n)' = Holders(n)
    OBVIOUS
  <2>1. Holds(t, n)' <=> Holds(t, n)
    BY <1>1, <1>2, <1>5 DEF Holds
  <2> QED  BY <1>5, <2>1, HoldersStep
<1>9. /\ freeListRefs[prev] = Cardinality(Holders(prev)) + Weight(where[prev])
      /\ where[prev] # "early" /\ Weight(where[prev]) \in {0, 1, 8}
      /\ Weight(where[prev]) = 8 => where[prev] = "marked"
  BY <1>3, <1>7 DEF Placed, Weight, Kinds
<1>10. /\ freeListRefs'[prev] = Cardinality(Holders(prev)') + Weight(where[prev])
       /\ freeListRefs' \in [FreeListNodes -> Nat]
       /\ \A n \in FreeListNodes \ {prev} : freeListRefs'[n] = freeListRefs[n]
  <2>1. freeListRefs' = [freeListRefs EXCEPT ![prev] = AddRefs(freeListRefs[prev], -1)]
    BY <1>2 DEF DropOne
  <2>2. AddRefs(freeListRefs[prev], -1) = Cardinality(Holders(prev)) - 1 + Weight(where[prev])
    BY <1>7, <1>9 DEF AddRefs, ShouldBeOnFreeList
  <2>3. /\ freeListRefs \in [FreeListNodes -> Nat]
        /\ Cardinality(Holders(prev)) - 1 + Weight(where[prev]) \in Nat
    BY <1>7, <1>9, LocalFacts DEF FreeListTypes
  <2> QED  BY <1>7, <2>1, <2>2, <2>3
<1>11. Chain' = Chain
  BY <1>1 DEF Chain
<1>12. CASE freeListRefs[prev] = 9
  <2>1. where[prev] = "marked" /\ Holders(prev)' = {}
    BY <1>7, <1>9, <1>12
  <2>2. \A n \in FreeListNodes, l \in HasKinds :
          Has(t, n, l)' <=> IF n = prev THEN l = "early" ELSE Has(t, n, l)
    <3>1. prev \notin flOwned[t]
      BY <1>3, <2>1 DEF Placed, Has, HasKinds
    <3> QED  BY <1>1, <1>4, <1>5, <1>12, <3>1 DEF Has, Early, Late, HasKinds
  <2>3. \A n \in FreeListNodes : n \in Chain' <=> IF n = prev THEN "early" = "list" ELSE n \in Chain
    BY <1>3, <1>11, <2>1 DEF Placed
  <2>4. freeListRefs'[prev] = Cardinality(Holders(prev)') + Weight("early")
    BY <1>10, <2>1 DEF Weight
  <2>5. Move(t, prev, "early")
    BY <1>5, <1>8, <1>10, <2>1, <2>2, <2>3, <2>4 DEF Move
  <2>6. \E w \in [FreeListNodes -> Kinds], b \in [FreeListNodes -> FreeListThreads] : Placed(w, b)'
    BY <1>3, <2>1, <2>5, Moves DEF Kinds
  <2>7. Fetched(t)'
    BY <1>4, <1>5, <1>12 DEF Fetched, Early, Late
  <2> QED  BY <1>1, <1>5, <1>10, <2>6, <2>7, ListAlone
<1>13. CASE freeListRefs[prev] # 9
  <2>1. \A n \in FreeListNodes, l \in HasKinds : Has(t, n, l)' <=> Has(t, n, l)
    BY <1>1, <1>5, <1>13 DEF Has, Early, Late, HasKinds
  <2>2. where[prev] = "marked" => Holders(prev)' # {}
    BY <1>7, <1>9, <1>13 DEF Weight
  <2>3. \A n \in FreeListNodes :
          /\ freeListRefs'[n] = Cardinality(Holders(n)') + Weight(where[n])
          /\ where[n] = "early" => Holders(n)' = {}
          /\ where[n] = "marked" => Holders(n)' # {}
    <3> SUFFICES ASSUME NEW n \in FreeListNodes
                 PROVE /\ freeListRefs'[n] = Cardinality(Holders(n)') + Weight(where[n])
                       /\ where[n] = "early" => Holders(n)' = {}
                       /\ where[n] = "marked" => Holders(n)' # {}
      OBVIOUS
    <3>1. CASE n = prev
      BY <1>9, <1>10, <2>2, <3>1
    <3>2. CASE n # prev
      BY <1>3, <1>8, <1>10, <3>2 DEF Placed
    <3> QED  BY <3>1, <3>2
  <2>4. Placed(where, by)'
    BY <1>3, <1>5, <1>11, <2>1, <2>3, Stays DEF Still
  <2>5. Fetched(t)'
    BY <1>5, <1>13 DEF Fetched, Early, Late
  <2> QED  BY <1>1, <1>5, <1>10, <2>4, <2>5, ListAlone
<1> QED  BY <1>12, <1>13

(* The next node of one that nobody looks at, nor that is on the list.      *)
LEMMA StoreNextStep ==
  ASSUME FreeListInv, NEW t \in FreeListThreads, StoreNext(t)
  PROVE  FreeListInv'
<1>1. flAt[t] = "store next" /\ UNCHANGED <<freeListHead, freeListRefs, flLocal, flOwned>>
  BY DEF StoreNext
<1>2. PICK node \in FreeListNodes : flLocal[t].node = node
  BY <1>1, LocalFacts DEF Fetched, Early
<1>3. PICK where \in [FreeListNodes -> Kinds], by \in [FreeListNodes -> FreeListThreads] :
        Placed(where, by)
  BY DEF FreeListInv
<1>4. where[node] = "early" /\ by[node] = t
  <2>1. Has(t, node, "early")
    BY <1>1, <1>2 DEF Has, Early
  <2> QED  BY <1>3, <2>1 DEF Placed, HasKinds
<1>5. PICK e \in NodeOrNone : e = flLocal[t].expected
  BY LocalFacts
<1>6. /\ freeListNext \in [FreeListNodes -> NodeOrNone] /\ freeListHead \in NodeOrNone
      /\ freeListNext' = [freeListNext EXCEPT ![node] = e]
  BY <1>2, <1>5, LocalFacts DEF FreeListTypes, StoreNext
<1>7. Others(t) /\ flAt'[t] = "store refs" /\ flAt' \in [FreeListThreads -> FLPlaces]
  BY <1>1, LocalFacts DEF StoreNext, Others, FreeListTypes, FLPlaces, Early
<1>8. node \notin Chain
  BY <1>3, <1>4 DEF Placed
<1>9. Chain' = Chain
  BY <1>1, <1>6, <1>8, ReachStore DEF Chain
<1>10. \A n \in FreeListNodes, k \in HasKinds : Has(t, n, k)' <=> Has(t, n, k)
  BY <1>1, <1>7 DEF Has, Early, Late
<1>11. \A n \in FreeListNodes : Holders(n)' = Holders(n)
  <2> SUFFICES ASSUME NEW n \in FreeListNodes PROVE Holders(n)' = Holders(n)
    OBVIOUS
  <2>1. Holds(t, n)' <=> Holds(t, n)
    BY <1>1, <1>7 DEF Holds
  <2> QED  BY <1>7, <2>1, HoldersStep
<1>12. Placed(where, by)'
  <2>1. \A n \in FreeListNodes :
          /\ freeListRefs'[n] = Cardinality(Holders(n)') + Weight(where[n])
          /\ where[n] = "early" => Holders(n)' = {}
          /\ where[n] = "marked" => Holders(n)' # {}
    <3> SUFFICES ASSUME NEW n \in FreeListNodes
                 PROVE /\ freeListRefs'[n] = Cardinality(Holders(n)') + Weight(where[n])
                       /\ where[n] = "early" => Holders(n)' = {}
                       /\ where[n] = "marked" => Holders(n)' # {}
      OBVIOUS
    <3>1. Holders(n)' = Holders(n) /\ freeListRefs'[n] = freeListRefs[n]
      BY <1>1, <1>11
    <3>2. /\ freeListRefs[n] = Cardinality(Holders(n)) + Weight(where[n])
          /\ where[n] = "early" => Holders(n) = {}
          /\ where[n] = "marked" => Holders(n) # {}
      BY <1>3 DEF Placed
    <3> QED  BY <3>1, <3>2
  <2> QED  BY <1>3, <1>7, <1>9, <1>10, <2>1, Stays DEF Still
<1>13. Acyclic'
  <2> SUFFICES ASSUME NEW n \in Chain PROVE n \notin Reach(freeListNext[n], freeListNext)'
    BY <1>9 DEF Acyclic
  <2>1. n \in FreeListNodes /\ n # node /\ n \in Reach(freeListHead, freeListNext)
    BY <1>6, <1>8 DEF Chain, Reach
  <2>2. Reach(freeListNext[n], freeListNext) \subseteq Chain
    BY <1>6, <2>1, ReachPart DEF Chain
  <2>3. freeListNext'[n] = freeListNext[n] /\ freeListNext[n] \in NodeOrNone
    BY <1>6, <2>1
  <2>4. Reach(freeListNext[n], freeListNext') = Reach(freeListNext[n], freeListNext)
    BY <1>6, <1>8, <2>2, <2>3, ReachStore
  <2> QED  BY <2>3, <2>4 DEF FreeListInv, Acyclic
<1>14. FreeListTypes'
  BY <1>1, <1>6, <1>7 DEF FreeListInv, FreeListTypes
<1>15. \A u \in FreeListThreads : Fetched(u)'
  <2>1. ASSUME NEW u \in FreeListThreads, u # t PROVE Fetched(u)'
    <3>1. Fetched(u) /\ flAt'[u] = flAt[u] /\ flLocal'[u] = flLocal[u]
      BY <1>7, <2>1 DEF FreeListInv, Others
    <3>2. flAt[u] = "pop" => flLocal[u].head \in FreeListNodes /\ flLocal[u].head # node
      <4>1. ~Holds(u, node)
        BY <1>3, <1>4 DEF Placed, Holders
      <4> QED  BY <3>1, <4>1 DEF Holds, Fetched
    <3>3. flAt[u] \in {"store refs", "push"} =>
            flLocal[u].node \in FreeListNodes /\ flLocal[u].node # node
      <4>1. ~Has(u, node, "early") /\ ~Has(u, node, "late")
        BY <1>3, <1>4, <2>1 DEF Placed, HasKinds
      <4> QED  BY <3>1, <4>1 DEF Has, Fetched, Early, Late
    <3>4. \A n \in FreeListNodes : n # node => freeListNext'[n] = freeListNext[n]
      BY <1>6
    <3> QED  BY <3>1, <3>2, <3>3, <3>4 DEF Fetched
  <2>2. Fetched(t)'
    BY <1>1, <1>2, <1>5, <1>6, <1>7 DEF Fetched, Early, Late
  <2> QED  BY <2>1, <2>2
<1> QED  BY <1>12, <1>13, <1>14, <1>15 DEF FreeListInv

(* The count is the list's reference alone: nobody looked at the node.      *)
LEMMA StoreRefsStep ==
  ASSUME FreeListInv, NEW t \in FreeListThreads, StoreRefs(t)
  PROVE  FreeListInv'
<1>1. flAt[t] = "store refs" /\ UNCHANGED <<freeListHead, freeListNext, flLocal, flOwned>>
  BY DEF StoreRefs
<1>2. PICK node \in FreeListNodes :
        flLocal[t].node = node /\ freeListNext[node] = flLocal[t].expected
  BY <1>1, LocalFacts DEF Fetched, Early
<1>3. PICK where \in [FreeListNodes -> Kinds], by \in [FreeListNodes -> FreeListThreads] :
        Placed(where, by)
  BY DEF FreeListInv
<1>4. where[node] = "early" /\ by[node] = t
  <2>1. Has(t, node, "early")
    BY <1>1, <1>2 DEF Has, Early
  <2> QED  BY <1>3, <2>1 DEF Placed, HasKinds
<1>5. Others(t) /\ flAt'[t] = "push" /\ flLocal'[t] = flLocal[t] /\ flOwned'[t] = flOwned[t]
  BY <1>1, LocalFacts DEF StoreRefs, Others, FreeListTypes, FLPlaces, Late
<1>6. \A n \in FreeListNodes : Holders(n)' = Holders(n)
  <2> SUFFICES ASSUME NEW n \in FreeListNodes PROVE Holders(n)' = Holders(n)
    OBVIOUS
  <2>1. Holds(t, n)' <=> Holds(t, n)
    BY <1>1, <1>5 DEF Holds
  <2> QED  BY <1>5, <2>1, HoldersStep
<1>7. Cardinality(Holders(node)') = 0
  BY <1>3, <1>4, <1>6, FS_EmptySet DEF Placed
<1>8. /\ freeListRefs'[node] = Cardinality(Holders(node)') + Weight("late")
      /\ freeListRefs' \in [FreeListNodes -> Nat]
      /\ \A n \in FreeListNodes \ {node} : freeListRefs'[n] = freeListRefs[n]
  <2>1. freeListRefs' = [freeListRefs EXCEPT ![node] = 1] /\ freeListRefs \in [FreeListNodes -> Nat]
    BY <1>2, LocalFacts DEF StoreRefs, FreeListTypes
  <2> QED  BY <1>7, <2>1 DEF Weight
<1>9. \A n \in FreeListNodes, l \in HasKinds :
        Has(t, n, l)' <=> IF n = node THEN l = "late" ELSE Has(t, n, l)
  <2>1. node \notin flOwned[t]
    BY <1>3, <1>4 DEF Placed, Has, HasKinds
  <2> QED  BY <1>1, <1>2, <1>5, <2>1 DEF Has, Early, Late, HasKinds
<1>10. \A n \in FreeListNodes : n \in Chain' <=> IF n = node THEN "late" = "list" ELSE n \in Chain
  <2>1. Chain' = Chain /\ node \notin Chain
    BY <1>1, <1>3, <1>4 DEF Chain, Placed
  <2> QED  BY <2>1
<1>11. Move(t, node, "late")
  BY <1>5, <1>6, <1>8, <1>9, <1>10 DEF Move
<1>12. \E w \in [FreeListNodes -> Kinds], b \in [FreeListNodes -> FreeListThreads] : Placed(w, b)'
  BY <1>3, <1>4, <1>11, Moves DEF Kinds
<1>13. Fetched(t)'
  BY <1>1, <1>2, <1>5 DEF Fetched, Early, Late
<1> QED  BY <1>1, <1>5, <1>8, <1>12, <1>13, ListAlone

(* The node becomes the head, and is on no list before: the list has no     *)
(* cycle after it.  Or the head is another, and is expected the next time.  *)
LEMMA PushStep ==
  ASSUME FreeListInv, NEW t \in FreeListThreads, Push(t)
  PROVE  FreeListInv'
<1>1. flAt[t] = "push" /\ UNCHANGED <<freeListRefs, freeListNext, flOwned>>
  BY DEF Push
<1>2. PICK node \in FreeListNodes :
        flLocal[t].node = node /\ freeListNext[node] = flLocal[t].expected
  BY <1>1, LocalFacts DEF Fetched, Late
<1>3. CASE freeListHead = flLocal[t].expected
  <2>1. freeListHead' = node /\ freeListNext[node] = freeListHead /\ Loop(t, flLocal[t].head)
    BY <1>2, <1>3 DEF Push
  <2>2. /\ Others(t) /\ flAt'[t] \in {"idle", "load refs"} /\ flOwned'[t] = flOwned[t]
        /\ flAt'[t] = "load refs" => flLocal'[t].head \in FreeListNodes
    BY <1>1, <2>1, LocalFacts, Loops
  <2>3. PICK where \in [FreeListNodes -> Kinds], by \in [FreeListNodes -> FreeListThreads] :
          Placed(where, by)
    BY DEF FreeListInv
  <2>4. where[node] = "late" /\ by[node] = t
    <3>1. Has(t, node, "late")
      BY <1>1, <1>2 DEF Has, Late
    <3> QED  BY <2>3, <3>1 DEF Placed, HasKinds
  <2>5. freeListNext \in [FreeListNodes -> NodeOrNone]
    BY LocalFacts DEF FreeListTypes
  <2>6. node \notin Chain /\ Chain' = {node} \cup Chain
    BY <1>1, <2>1, <2>3, <2>4, <2>5, ReachSplit DEF Placed, Chain
  <2>7. \A n \in FreeListNodes : Holders(n)' = Holders(n)
    <3> SUFFICES ASSUME NEW n \in FreeListNodes PROVE Holders(n)' = Holders(n)
      OBVIOUS
    <3>1. Holds(t, n)' <=> Holds(t, n)
      BY <1>1, <2>2 DEF Holds
    <3> QED  BY <2>2, <3>1, HoldersStep
  <2>8. \A n \in FreeListNodes, l \in HasKinds :
          Has(t, n, l)' <=> IF n = node THEN l = "list" ELSE Has(t, n, l)
    <3>1. node \notin flOwned[t]
      BY <2>3, <2>4 DEF Placed, Has, HasKinds
    <3> QED  BY <1>1, <1>2, <2>2, <3>1 DEF Has, Early, Late, HasKinds
  <2>9. freeListRefs'[node] = Cardinality(Holders(node)') + Weight("list")
    BY <1>1, <2>3, <2>4, <2>7 DEF Placed, Weight
  <2>10. \A n \in FreeListNodes : n \in Chain' <=> IF n = node THEN "list" = "list" ELSE n \in Chain
    BY <2>6
  <2>11. \A n \in FreeListNodes \ {node} :
           freeListRefs'[n] = freeListRefs[n] /\ Holders(n)' = Holders(n)
    BY <1>1, <2>7
  <2>12. Move(t, node, "list")
    BY <2>2, <2>8, <2>9, <2>10, <2>11 DEF Move
  <2>13. \E w \in [FreeListNodes -> Kinds], b \in [FreeListNodes -> FreeListThreads] : Placed(w, b)'
    BY <2>3, <2>4, <2>12, Moves DEF Kinds
  <2>14. Acyclic'
    BY <1>1, <2>1, <2>6 DEF FreeListInv, Acyclic, Chain
  <2>15. FreeListTypes'
    BY <1>1, <2>1, <2>2, <2>5 DEF FreeListInv, FreeListTypes, Others, NodeOrNone
  <2>16. \A u \in FreeListThreads : Fetched(u)'
    <3>1. ASSUME NEW u \in FreeListThreads, u # t PROVE Fetched(u)'
      <4>1. Fetched(u) /\ flAt'[u] = flAt[u] /\ flLocal'[u] = flLocal[u]
        BY <2>2, <3>1 DEF FreeListInv, Others
      <4> QED  BY <1>1, <4>1 DEF Fetched
    <3>2. Fetched(t)'
      BY <2>2 DEF Fetched, Early, Late
    <3> QED  BY <3>1, <3>2
  <2> QED  BY <2>13, <2>14, <2>15, <2>16 DEF FreeListInv
<1>4. CASE freeListHead # flLocal[t].expected
  <2> DEFINE local == [flLocal[t] EXCEPT !.expected = freeListHead]
  <2>1. UNCHANGED freeListHead /\ Goto(t, "leave", local) /\ "leave" \in FLPlaces
    BY <1>4 DEF Push, FLPlaces, Late
  <2>2. local \in FLLocals /\ local.node = node
    BY <1>2, LocalFacts DEF FLLocals
  <2> HIDE DEF local
  <2>3. Others(t) /\ flAt'[t] = "leave" /\ flLocal'[t] = local /\ flOwned'[t] = flOwned[t]
    BY <1>1, <2>1, <2>2, LocalFacts, GoesOwned
  <2>4. \A n \in FreeListNodes, k \in HasKinds : Has(t, n, k)' <=> Has(t, n, k)
    BY <1>1, <1>2, <2>2, <2>3 DEF Has, Early, Late
  <2>5. \A n \in FreeListNodes : Holds(t, n)' <=> Holds(t, n)
    BY <1>1, <2>3 DEF Holds
  <2>6. Fetched(t)'
    BY <2>2, <2>3 DEF Fetched, Early, Late
  <2> QED  BY <1>1, <2>1, <2>3, <2>4, <2>5, <2>6, Quiet
<1> QED  BY <1>3, <1>4

(* The push failed and the node is marked: for this thread again when no    *)
(* other looks at it, for the last of those who do otherwise.               *)
LEMMA LeaveStep ==
  ASSUME FreeListInv, NEW t \in FreeListThreads, Leave(t)
  PROVE  FreeListInv'
<1>1. flAt[t] = "leave" /\ UNCHANGED <<freeListHead, freeListNext, flOwned>>
  BY DEF Leave
<1>2. PICK node \in FreeListNodes : flLocal[t].node = node
  BY <1>1, LocalFacts DEF Fetched, Late
<1>3. PICK where \in [FreeListNodes -> Kinds], by \in [FreeListNodes -> FreeListThreads] :
        Placed(where, by)
  BY DEF FreeListInv
<1>4. where[node] = "late" /\ by[node] = t
  <2>1. Has(t, node, "late")
    BY <1>1, <1>2 DEF Has, Late
  <2> QED  BY <1>3, <2>1 DEF Placed, HasKinds
<1>5. /\ freeListRefs[node] = 1 + Cardinality(Holders(node)) /\ Cardinality(Holders(node)) \in 0 .. 6
      /\ Cardinality(Holders(node)) = 0 <=> Holders(node) = {}
  <2>1. freeListRefs[node] = Cardinality(Holders(node)) + 1
    BY <1>3, <1>4 DEF Placed, Weight
  <2> QED  BY <2>1, HoldersFinite
<1>6. /\ Others(t) /\ flOwned'[t] = flOwned[t]
      /\ \/ /\ freeListRefs[node] = 1
            /\ flAt'[t] = "store next" /\ flLocal'[t] = flLocal[t]
         \/ /\ freeListRefs[node] # 1
            /\ flAt'[t] \in {"idle", "load refs"}
            /\ flAt'[t] = "load refs" => flLocal'[t].head \in FreeListNodes
  <2>1. CASE freeListRefs[node] = 1
    <3>1. Goto(t, "store next", flLocal[t]) /\ "store next" \in FLPlaces
      BY <1>2, <2>1 DEF Leave, FLPlaces, Early
    <3> QED  BY <1>1, <2>1, <3>1, LocalFacts, GoesOwned
  <2>2. CASE freeListRefs[node] # 1
    <3>1. Loop(t, flLocal[t].head)
      BY <1>2, <2>2 DEF Leave
    <3> QED  BY <1>1, <2>2, <3>1, LocalFacts, Loops
  <2> QED  BY <2>1, <2>2
<1>7. \A n \in FreeListNodes : Holders(n)' = Holders(n)
  <2> SUFFICES ASSUME NEW n \in FreeListNodes PROVE Holders(n)' = Holders(n)
    OBVIOUS
  <2>1. Holds(t, n)' <=> Holds(t, n)
    BY <1>1, <1>6 DEF Holds
  <2> QED  BY <1>6, <2>1, HoldersStep
<1>8. /\ freeListRefs'[node] = Cardinality(Holders(node)') + 8
      /\ freeListRefs' \in [FreeListNodes -> Nat]
      /\ \A n \in FreeListNodes \ {node} : freeListRefs'[n] = freeListRefs[n]
  <2>1. freeListRefs' = [freeListRefs EXCEPT ![node] = AddRefs(freeListRefs[node], ShouldBeOnFreeList - 1)]
    BY <1>2 DEF Leave
  <2>2. AddRefs(freeListRefs[node], ShouldBeOnFreeList - 1) = Cardinality(Holders(node)) + 8
    BY <1>5, Counts
  <2>3. freeListRefs \in [FreeListNodes -> Nat] /\ Cardinality(Holders(node)) + 8 \in Nat
    BY <1>5, LocalFacts DEF FreeListTypes
  <2> QED  BY <1>7, <2>1, <2>2, <2>3
<1>9. \A n \in FreeListNodes \ {node} : freeListRefs'[n] = freeListRefs[n] /\ Holders(n)' = Holders(n)
  BY <1>7, <1>8
<1>10. node \notin Chain /\ Chain' = Chain /\ node \notin flOwned[t]
  BY <1>1, <1>3, <1>4 DEF Chain, Placed, Has, HasKinds
<1>11. CASE freeListRefs[node] = 1
  <2>1. Holders(node)' = {}
    BY <1>5, <1>7, <1>11
  <2>2. \A n \in FreeListNodes, l \in HasKinds :
          Has(t, n, l)' <=> IF n = node THEN l = "early" ELSE Has(t, n, l)
    BY <1>1, <1>2, <1>6, <1>10, <1>11 DEF Has, Early, Late, HasKinds
  <2>3. \A n \in FreeListNodes : n \in Chain' <=> IF n = node THEN "early" = "list" ELSE n \in Chain
    BY <1>10
  <2>4. freeListRefs'[node] = Cardinality(Holders(node)') + Weight("early")
    BY <1>8 DEF Weight
  <2>5. Move(t, node, "early")
    BY <1>6, <1>9, <2>1, <2>2, <2>3, <2>4 DEF Move
  <2>6. \E w \in [FreeListNodes -> Kinds], b \in [FreeListNodes -> FreeListThreads] : Placed(w, b)'
    BY <1>3, <1>4, <2>5, Moves DEF Kinds
  <2>7. Fetched(t)'
    BY <1>2, <1>6, <1>11 DEF Fetched, Early, Late
  <2> QED  BY <1>1, <1>6, <1>8, <2>6, <2>7, ListAlone
<1>12. CASE freeListRefs[node] # 1
  <2>1. Holders(node)' # {}
    BY <1>5, <1>7, <1>12
  <2>2. \A n \in FreeListNodes, l \in HasKinds :
          Has(t, n, l)' <=> IF n = node THEN l = "marked" ELSE Has(t, n, l)
    BY <1>1, <1>2, <1>6, <1>10, <1>12 DEF Has, Early, Late, HasKinds
  <2>3. \A n \in FreeListNodes : n \in Chain' <=> IF n = node THEN "marked" = "list" ELSE n \in Chain
    BY <1>10
  <2>4. freeListRefs'[node] = Cardinality(Holders(node)') + Weight("marked")
    BY <1>8 DEF Weight
  <2>5. Move(t, node, "marked")
    BY <1>6, <1>9, <2>1, <2>2, <2>3, <2>4 DEF Move
  <2>6. \E w \in [FreeListNodes -> Kinds], b \in [FreeListNodes -> FreeListThreads] : Placed(w, b)'
    BY <1>3, <1>4, <2>5, Moves DEF Kinds
  <2>7. Fetched(t)'
    BY <1>6, <1>12 DEF Fetched, Early, Late
  <2> QED  BY <1>1, <1>6, <1>8, <2>6, <2>7, ListAlone
<1> QED  BY <1>11, <1>12

-----------------------------------------------------------------------------
(* A thread owns every node first: the list is empty.                       *)
LEMMA FreeListStarts == FreeListInit => FreeListInv
<1> SUFFICES ASSUME FreeListInit PROVE FreeListInv
  OBVIOUS
<1>1. PICK owner \in [FreeListNodes -> FreeListThreads] :
        flOwned = [t \in FreeListThreads |-> {n \in FreeListNodes : owner[n] = t}]
  BY DEF FreeListInit
<1>2. PICK where \in [FreeListNodes -> Kinds] : \A n \in FreeListNodes : where[n] = "owned"
  <2>1. [n \in FreeListNodes |-> "owned"] \in [FreeListNodes -> Kinds]
    BY DEF Kinds
  <2> QED  BY <2>1
<1>3. NoLocals \in FLLocals
  BY DEF NoLocals, FLLocals, NodeOrNone
<1>4. FreeListTypes
  BY <1>1, <1>3 DEF FreeListInit, FreeListTypes, NodeOrNone, FLPlaces
<1>5. Chain = {}
  BY <1>4, ReachClosed DEF Chain, FreeListInit, FreeListTypes
<1>6. \A n \in FreeListNodes : Holders(n) = {}
  BY DEF FreeListInit, Holders, Holds
<1>7. Placed(where, owner)
  <2>1. \A n \in FreeListNodes, t \in FreeListThreads, k \in HasKinds :
          Has(t, n, k) <=> where[n] = k /\ owner[n] = t
    BY <1>1, <1>2 DEF FreeListInit, Has, HasKinds, Early, Late
  <2>2. \A n \in FreeListNodes : freeListRefs[n] = Cardinality(Holders(n)) + Weight(where[n])
    <3>1. Cardinality({}) = 0
      BY FS_EmptySet
    <3> QED  BY <1>2, <1>6, <3>1 DEF FreeListInit, Weight
  <2> QED  BY <1>2, <1>5, <2>1, <2>2 DEF Placed
<1>8. \A t \in FreeListThreads : Fetched(t)
  BY DEF FreeListInit, Fetched, Early, Late
<1> QED  BY <1>4, <1>5, <1>7, <1>8 DEF FreeListInv, Acyclic

(* Every step of every thread keeps the invariant.                          *)
LEMMA FreeListSteps == FreeListInv /\ [FreeListNextState]_freeListVars => FreeListInv'
<1> SUFFICES ASSUME FreeListInv, [FreeListNextState]_freeListVars PROVE FreeListInv'
  OBVIOUS
<1>1. CASE UNCHANGED freeListVars
  <2>1. \A t \in FreeListThreads : Fetched(t)'
    BY <1>1 DEF FreeListInv, freeListVars, Fetched
  <2>2. FreeListTypes' /\ Acyclic'
    BY <1>1 DEF FreeListInv, freeListVars, FreeListTypes, Acyclic, Chain
  <2>3. PICK where \in [FreeListNodes -> Kinds], by \in [FreeListNodes -> FreeListThreads] :
          Placed(where, by)
    BY DEF FreeListInv
  <2>4. Placed(where, by)'
    <3>1. /\ UNCHANGED <<freeListRefs, flAt, flLocal, flOwned>> /\ Chain' = Chain
          /\ \A n \in FreeListNodes : Holders(n)' = Holders(n)
      BY <1>1 DEF freeListVars, Chain, Holders, Holds
    <3>2. \A n \in FreeListNodes, t \in FreeListThreads, k \in HasKinds : Has(t, n, k)' <=> Has(t, n, k)
      BY <3>1 DEF Has
    <3>3. \A n \in FreeListNodes, t \in FreeListThreads, k \in HasKinds :
            Has(t, n, k)' <=> where[n] = k /\ by[n] = t
      BY <2>3, <3>2 DEF Placed
    <3>4. \A n \in FreeListNodes : freeListRefs'[n] = Cardinality(Holders(n)') + Weight(where[n])
      BY <2>3, <3>1 DEF Placed
    <3> QED  BY <2>3, <3>1, <3>3, <3>4 DEF Placed
  <2> QED  BY <2>1, <2>2, <2>4 DEF FreeListInv
<1>2. CASE FreeListNextState
  <2>1. PICK t \in FreeListThreads : FreeListStep(t) \/ \E n \in FreeListNodes : Add(t, n)
    BY <1>2 DEF FreeListNextState
  <2>2. CASE \E n \in FreeListNodes : Add(t, n)
    BY <2>2, AddStep
  <2>3. CASE FreeListStep(t)
    BY <2>3, LoadExpectedStep, StoreNextStep, StoreRefsStep, PushStep, LeaveStep, TakeRefStep,
       LoadNextStep, PopStep, DropTwoStep, DropOneStep, LoadHeadStep DEF FreeListStep
  <2> QED  BY <2>1, <2>2, <2>3
<1> QED  BY <1>1, <1>2

(* Nodes in one place each are handed to one thread, and none is forgotten. *)
LEMMA FreeListKeeps == FreeListInv => NodesKept
<1> SUFFICES ASSUME FreeListInv PROVE NodesKept
  OBVIOUS
<1>1. PICK where \in [FreeListNodes -> Kinds], by \in [FreeListNodes -> FreeListThreads] :
        Placed(where, by)
  BY DEF FreeListInv
<1>2. ASSUME NEW t \in FreeListThreads, NEW n \in flOwned[t] \cup Popped(t)
      PROVE  n \in FreeListNodes /\ by[n] = t /\ where[n] \in {"owned", "popped"}
  <2>1. CASE n \in flOwned[t]
    <3>1. n \in FreeListNodes /\ Has(t, n, "owned")
      BY <2>1, LocalFacts DEF Has
    <3> QED  BY <1>1, <3>1 DEF Placed, HasKinds
  <2>2. CASE n \in Popped(t)
    <3>1. n \in FreeListNodes /\ Has(t, n, "popped")
      BY <2>2, LocalFacts DEF Has, Popped, Fetched
    <3> QED  BY <1>1, <3>1 DEF Placed, HasKinds
  <2> QED  BY <1>2, <2>1, <2>2
<1>3. ASSUME NEW t \in FreeListThreads, NEW u \in FreeListThreads, t # u
      PROVE  (flOwned[t] \cup Popped(t)) \cap (flOwned[u] \cup Popped(u)) = {}
  BY <1>2, <1>3
<1>4. ASSUME NEW t \in FreeListThreads PROVE (flOwned[t] \cup Popped(t)) \cap Chain = {}
  BY <1>1, <1>2 DEF Placed
<1>5. ASSUME NEW t \in FreeListThreads, flAt[t] = "drop two"
      PROVE  freeListRefs[flLocal[t].head] < ShouldBeOnFreeList
  <2>1. PICK n \in FreeListNodes : n = flLocal[t].head
    BY <1>5, LocalFacts DEF Fetched
  <2>2. Has(t, n, "popped")
    BY <1>5, <2>1 DEF Has
  <2>3. freeListRefs[n] = Cardinality(Holders(n)) + 1
    BY <1>1, <2>2 DEF Placed, HasKinds, Weight
  <2> QED  BY <2>1, <2>3, HoldersFinite DEF ShouldBeOnFreeList
<1>6. ASSUME \A t \in FreeListThreads : flAt[t] = "idle"
      PROVE  FreeListNodes = Chain \cup UNION {flOwned[t] : t \in FreeListThreads}
  <2>1. ASSUME NEW n \in FreeListNodes PROVE n \in Chain \/ \E t \in FreeListThreads : n \in flOwned[t]
    <3>1. Holders(n) = {}
      BY <1>6 DEF Holders, Holds
    <3>2. where[n] # "marked"
      BY <1>1, <3>1 DEF Placed
    <3>3. ASSUME NEW k \in HasKinds, k # "owned" PROVE where[n] # k
      <4>1. ~Has(by[n], n, k)
        BY <1>6, <3>3 DEF Has, HasKinds, Early, Late
      <4> QED  BY <1>1, <4>1 DEF Placed
    <3>4. where[n] = "owned" => n \in flOwned[by[n]]
      <4>1. where[n] = "owned" => Has(by[n], n, "owned")
        BY <1>1 DEF Placed, HasKinds
      <4> QED  BY <4>1 DEF Has
    <3>5. where[n] \in {"owned", "list"}
      BY <3>2, <3>3 DEF Kinds, HasKinds
    <3> QED  BY <1>1, <3>4, <3>5 DEF Placed
  <2>2. Chain \subseteq FreeListNodes /\ \A t \in FreeListThreads : flOwned[t] \subseteq FreeListNodes
    BY LocalFacts DEF Chain, Reach
  <2> QED  BY <2>1, <2>2
<1> QED  BY <1>3, <1>4, <1>5, <1>6 DEF NodesKept

(* A block of the free list is handed to one thread, and none is forgotten. *)
THEOREM NodesStayKept == FreeListSpec => []NodesKept
<1>1. FreeListInit => FreeListInv
  BY FreeListStarts
<1>2. FreeListInv /\ [FreeListNextState]_freeListVars => FreeListInv'
  BY FreeListSteps
<1>3. FreeListInv => NodesKept
  BY FreeListKeeps
<1> QED  BY <1>1, <1>2, <1>3, PTL DEF FreeListSpec

-----------------------------------------------------------------------------
(* What a consumer of an implicit producer reads (ImplicitProducer): every  *)
(* element that was constructed and that nobody has moved out yet is in the *)
(* block of its number, at the place of its index.                          *)

-----------------------------------------------------------------------------
(* What consumers read (ImplicitProducer).                                  *)

Numbers == 0..(RangeOfBases - 1)

(* Block b is in the index, as block n.                                     *)
InEntry(b, n) ==
  \E e \in 1..Len(idxEntries) : idxEntries[e].value = b /\ idxEntries[e].key = BaseOf(n)

(* The elements that are constructed and not yet moved out.                 *)
Constructed == Item(tailIndex) + (IF enqAt = "publish" THEN enq.count ELSE 0)
ToRead(c) == IF dqAt[c] = "set empty" THEN Stop(c)..(Beyond(c) - 1) ELSE Pending(c)
Unread(k) == k < Constructed /\ (k >= Item(headIndex) \/ \E c \in Consumers : k \in ToRead(c))

ElementsShape == \E S : elements \in [Blocks -> [0..(BlockSize - 1) -> S]]

(* They are in their block, at their place.                                 *)
Contents ==
  /\ ElementsShape
  /\ \A n \in Numbers : \A b \in Blocks : InEntry(b, n) =>
       \A k \in ItemsOf(n) : Unread(k) => elements[b][k % BlockSize] = k

(* A step that constructs and moves out nothing.                            *)
LEMMA ContentsStay ==
  ASSUME Contents, UNCHANGED <<elements, load>>,
         \A n \in Numbers : \A b \in Blocks : InEntry(b, n)' =>
           InEntry(b, n) \/ \A k \in ItemsOf(n) : ~Unread(k)',
         \A k \in Int : Unread(k)' => Unread(k)
  PROVE  Contents'
<1>1. ElementsShape'
  BY DEF Contents, ElementsShape
<1>2. ASSUME NEW n \in Numbers, NEW b \in Blocks, InEntry(b, n)', NEW k \in ItemsOf(n), Unread(k)'
      PROVE  elements'[b][k % BlockSize] = k
  <2>1. n \in Int
    BY <1>2 DEF Numbers
  <2>2. k \in Int
    BY <2>1, ItemsIs
  <2>3. InEntry(b, n) /\ Unread(k)
    BY <1>2, <2>2
  <2> QED BY <2>3 DEF Contents
<1>3. Numbers' = Numbers /\ \A n : ItemsOf(n)' = ItemsOf(n)
  BY DEF Numbers, ItemsOf, RangeOfBases
<1> QED BY <1>1, <1>2, <1>3 DEF Contents

LEMMA EntriesStay ==
  ASSUME UNCHANGED <<idxEntries, load>>
  PROVE  \A b, n : InEntry(b, n)' <=> InEntry(b, n)
BY DEF InEntry, BaseOf, Wrap, startIndex

(* An entry is emptied.                                                     *)
LEMMA EntryEmptied ==
  ASSUME IndexTypes, load' = load, NEW e, idxEntries' = [idxEntries EXCEPT ![e].value = NoBlock]
  PROVE  \A b \in Blocks : \A n : InEntry(b, n)' => InEntry(b, n)
<1>1. idxEntries \in Seq(EntrySet)
  BY DEF IndexTypes
<1>2. Len(idxEntries') = Len(idxEntries)
  BY <1>1
<1>3. ASSUME NEW b \in Blocks, NEW n, InEntry(b, n)' PROVE InEntry(b, n)
  <2>1. PICK g \in 1..Len(idxEntries) : idxEntries'[g].value = b /\ idxEntries'[g].key = BaseOf(n)
    BY <1>2, <1>3 DEF InEntry, BaseOf, Wrap, startIndex
  <2>2. NoBlock \notin Blocks
    BY ProducerConstants
  <2>3. g \in DOMAIN idxEntries /\ DOMAIN idxEntries = 1..Len(idxEntries)
    BY <1>1, <2>1
  <2>4. ASSUME g = e PROVE FALSE
    <3>1. idxEntries[g] \in EntrySet
      BY <1>1, <2>1, ElementOfSeq
    <3>2. idxEntries'[g].value = NoBlock
      BY <2>3, <2>4, <3>1 DEF EntrySet
    <3> QED BY <2>1, <2>2, <3>2
  <2>5. idxEntries'[g] = idxEntries[g]
    BY <2>3, <2>4
  <2> QED BY <2>1, <2>5 DEF InEntry
<1> QED BY <1>3

(* A step of the producer that constructs nothing.                          *)
LEMMA UnreadStays ==
  ASSUME ClaimInv, CallTypes, ProducerOnly, tailIndex' = tailIndex, enqAt' # "publish"
  PROVE  \A k \in Int : Unread(k)' => Unread(k)
<1>1. \A c : ToRead(c)' = ToRead(c)
  BY DoneStays DEF ToRead, ProducerOnly, Stop
<1>2. Item(headIndex)' = Item(headIndex) /\ Item(tailIndex)' = Item(tailIndex)
  BY DEF ProducerOnly, Item, startIndex
<1>3. Item(tailIndex) \in Int /\ enq.count \in Nat
  BY TailIs, CallCounts
<1>4. Constructed' \in Int /\ Constructed \in Int /\ Constructed' <= Constructed
  BY <1>2, <1>3 DEF Constructed
<1> QED BY <1>1, <1>2, <1>4 DEF Unread

(* A step of a consumer that moves nothing out.                             *)
LEMMA LessToRead ==
  ASSUME ClaimInv, ConsumerOnly, NEW c \in Consumers, OthersStay(c),
         Item(headIndex)' \in Int, Item(headIndex) <= Item(headIndex)',
         \A k \in Int : k \in ToRead(c)' => k \in ToRead(c) \/ k >= Item(headIndex)
  PROVE  \A k \in Int : Unread(k)' => Unread(k)
<1>1. \A e \in Consumers : e # c => ToRead(e)' = ToRead(e)
  BY OthersSame DEF ToRead
<1>2. Constructed' = Constructed
  BY DEF Constructed, ConsumerOnly, Item, startIndex
<1>3. Item(headIndex) \in Int
  BY TailIs
<1> SUFFICES ASSUME NEW k \in Int, Unread(k)' PROVE Unread(k)
  OBVIOUS
<1>4. CASE k >= Item(headIndex)'
  BY <1>2, <1>3, <1>4 DEF Unread
<1>5. CASE \E e \in Consumers : k \in ToRead(e)'
  BY <1>1, <1>2, <1>5 DEF Unread
<1> QED BY <1>4, <1>5 DEF Unread

(* The numbers of blocks with elements that are there.                      *)
LEMMA NumberIs ==
  ASSUME NEW k \in Int, NEW n \in Int, k \in ItemsOf(n), 0 <= k, k < IndexMod
  PROVE  n \in Numbers
<1>1. /\ BlockSize * n \in Int /\ BlockSize * n <= k /\ k < BlockSize * n + BlockSize
  BY ItemsIs
<1>2. RangeOfBases \in Nat \ {0} /\ IndexMod = BlockSize * RangeOfBases /\ RangeOfBases \in Int
      /\ BlockSize \in Nat
  BY Sizes
<1>3. ASSUME RangeOfBases <= n PROVE FALSE
  <2>1. CASE RangeOfBases = n
    BY <1>1, <1>2, <2>1
  <2>2. CASE RangeOfBases < n
    <3>1. PICK r \in Int : r = RangeOfBases
      BY <1>2
    <3>2. BlockSize * r + BlockSize <= BlockSize * n /\ BlockSize * r \in Int
      BY <2>2, <3>1, Multiples
    <3> QED BY <1>1, <1>2, <3>1, <3>2
  <2> QED BY <1>2, <1>3, <2>1, <2>2
<1>4. ASSUME n < 0 PROVE FALSE
  <2>1. PICK z \in Int : z = 0
    OBVIOUS
  <2>2. BlockSize * n + BlockSize <= BlockSize * z /\ BlockSize * z = 0
    BY <1>2, <1>4, <2>1, Multiples
  <2> QED BY <1>1, <1>2, <2>1, <2>2
<1> QED BY <1>2, <1>3, <1>4 DEF Numbers

LEMMA OneNumber ==
  ASSUME load \in Loads, NEW n \in Numbers, NEW m \in Numbers, BaseOf(n) = BaseOf(m)
  PROVE  n = m
<1>1. n \in Int /\ m \in Int /\ n - m < RangeOfBases /\ m - n < RangeOfBases
  BY Sizes DEF Numbers
<1> QED BY <1>1, BasesDiffer

(* The block of an entry is the one the producer means.                     *)
LEMMA EntryIs ==
  ASSUME NEW d, NEW a, NEW f, NEW holds, LiveInv(d, a, f, holds),
         NEW n \in Numbers, NEW b \in Blocks, InEntry(b, n)
  PROVE  \E m \in DOMAIN holds : holds[m] = b /\ BaseOf(m) = BaseOf(n) /\ (m \in Numbers => m = n)
<1>1. /\ IndexTypes /\ Shape(d) /\ a \in Int /\ HoldsBlocks(d, a, f, holds) /\ KeysUpTo(d, a, f)
      /\ load \in Loads
  BY TailIs DEF LiveInv, Indexes
<1>2. PICK e \in 1..Len(idxEntries) : idxEntries[e].value = b /\ idxEntries[e].key = BaseOf(n)
  BY DEF InEntry
<1>3. PICK x \in Int : e = EntryOf(d, x)
  BY <1>1 DEF Shape
<1>4. PICK m \in Window(a) : e = EntryOf(d, m)
  BY <1>1, <1>3, EntryInWindow
<1>5. ValueOf(d, m) = b /\ KeyOf(d, m) = BaseOf(n)
  BY <1>2, <1>4 DEF ValueOf, KeyOf
<1>6. m \in DOMAIN holds /\ holds[m] = b /\ m >= f
  BY <1>1, <1>4, <1>5 DEF HoldsBlocks
<1>7. BaseOf(m) = BaseOf(n)
  BY <1>1, <1>4, <1>5, <1>6 DEF KeysUpTo
<1> QED BY <1>1, <1>6, <1>7, OneNumber

(* The entry of a block, as a consumer or the producer holds it.            *)
LEMMA HeldInEntry ==
  ASSUME NEW d, NEW a, NEW f, NEW holds, LiveInv(d, a, f, holds), NEW n \in DOMAIN holds
  PROVE  holds[n] \in Blocks /\ InEntry(holds[n], n)
<1>1. /\ IndexTypes /\ Shape(d) /\ a \in Int /\ HoldsBlocks(d, a, f, holds) /\ KeysUpTo(d, a, f)
  BY DEF LiveInv, Indexes
<1>2. n \in Window(a) /\ n >= f /\ ValueOf(d, n) = holds[n] /\ holds[n] \in Blocks
  BY <1>1 DEF HoldsBlocks
<1>3. KeyOf(d, n) = BaseOf(n)
  BY <1>1, <1>2 DEF KeysUpTo
<1>4. n \in Int
  BY <1>1, <1>2, WindowIsInt
<1>5. EntryOf(d, n) \in 1..Len(idxEntries)
  BY <1>1, <1>4, EntryInWindow
<1> QED BY <1>2, <1>3, <1>5 DEF InEntry, ValueOf, KeyOf

-----------------------------------------------------------------------------
(* The producer.                                                            *)
LEMMA InsertEntryReads ==
  ASSUME NEW d, NEW a, NEW f, NEW holds, LiveInv(d, a, f, holds), InsertEntry, Contents
  PROVE  Contents'
<1>1. /\ ClaimInv /\ CallTypes /\ IndexTypes /\ Shape(d) /\ a \in Int
  BY DEF LiveInv, Calls, Indexes
<1>2. PICK e : e = EntryAt(Len(idxHeaders), NewTail)
  OBVIOUS
<1>3. /\ EntryFree(e) /\ PutKey(e, enq.base) /\ enqAt = "insert" /\ enqAt' = "store tail"
      /\ UNCHANGED <<baseVars, idxHeaders>>
  BY <1>2 DEF InsertEntry, PutKey, EnqGoto
<1>4. ProducerOnly /\ UNCHANGED <<tailIndex, elements, load>> /\ tailIndex' = tailIndex
  BY <1>3 DEF ProducerOnly, baseVars, counterVars
<1>5. AtInsert
  BY <1>3 DEF AtInsert
<1>6. e = EntryOf(d, Made) /\ Made \in Int /\ ValueOf(d, Made) \notin Blocks
  BY <1>2, <1>3, <1>5, NewTailIs
<1>7. e \in 1..Len(idxEntries)
  BY <1>1, <1>6, EntryInWindow
<1>8. enq.base \in Int
  BY <1>1, CallCounts
<1>9. /\ Len(idxEntries') = Len(idxEntries) /\ idxEntries'[e].value = idxEntries[e].value
      /\ \A g \in 1..Len(idxEntries) : g # e => idxEntries'[g] = idxEntries[g]
  BY <1>1, <1>3, <1>7, <1>8, KeyWritten DEF PutKey
<1>10. \A n : BaseOf(n)' = BaseOf(n)
  BY <1>4 DEF BaseOf, Wrap, startIndex
<1>11. \A n \in Numbers : \A b \in Blocks : InEntry(b, n)' => InEntry(b, n)
  BY <1>6, <1>9, <1>10 DEF InEntry, ValueOf
<1>12. \A k \in Int : Unread(k)' => Unread(k)
  BY <1>1, <1>3, <1>4, UnreadStays
<1> QED BY <1>4, <1>11, <1>12, ContentsStay

(* A block that is put in the index has nothing yet.                        *)
LEMMA StoreValueReads ==
  ASSUME NEW d, NEW a, NEW f, NEW holds, LiveInv(d, a, f, holds), StoreValue, Contents
  PROVE  Contents'
<1>1. /\ ClaimInv /\ CallTypes /\ IndexTypes /\ Shape(d) /\ a \in Int /\ f \in Int /\ Calls(d, holds)
      /\ Tails(d, a, f) /\ KeysUpTo(d, a, f) /\ Kept(holds)
  BY DEF LiveInv, Calls, Indexes
<1>2. /\ enqAt = "store value" /\ enqAt' # "publish"
      /\ PutValue(EntryAt(Len(idxHeaders), enq.slot), enq.block)
      /\ UNCHANGED <<baseVars, idxHeaders>>
  <2>1. enqAt = "store value" /\ enqAt' # "publish"
    BY DEF StoreValue, EnqGoto
  <2>2. /\ PutValue(EntryAt(Len(idxHeaders), enq.slot), enq.block)
        /\ UNCHANGED <<baseVars, idxHeaders>>
    BY DEF StoreValue, PutValue
  <2> QED BY <2>1, <2>2
<1>3. ProducerOnly /\ UNCHANGED <<tailIndex, elements, load>> /\ tailIndex' = tailIndex
  BY <1>2 DEF ProducerOnly, baseVars, counterVars
<1>4. /\ enqAt \in Inserting /\ enq.block \in Blocks
  BY <1>1, <1>2 DEF Inserting, Calls
<1>5. /\ enq.slot = SlotAt(d, Current, Made) /\ Made < a /\ a <= Filled + IndexSize(Current)
      /\ f <= Filled /\ BlockSize * Made < Item(tailIndex) + enq.count
      /\ Item(tailIndex) + enq.count <= load.items
  BY <1>1, <1>2, <1>4 DEF Calls, Tails, ClaimInv
<1>6. /\ Filled \in Int /\ Made \in Int /\ Filled <= Made /\ load \in Loads
      /\ IndexSize(Current) \in Nat \ {0} /\ load.items \in Int /\ load.items < IndexMod
      /\ Item(tailIndex) \in Int /\ Item(tailIndex) <= BlockSize * Filled /\ Item(tailIndex) >= 0
      /\ enq.count \in Nat
  <2>1. Current \in 1..Current
    BY <1>1, CurrentIs
  <2>2. IndexSize(Current) \in Nat \ {0}
    BY <1>1, <2>1, CapacityIs
  <2>3. /\ Made \in Int /\ Made = Filled + Len(enq.got) /\ Len(enq.got) \in Nat
        /\ load.items \in Int /\ load.items < IndexMod /\ enq.count \in Nat
    BY <1>1, CallCounts
  <2>4. /\ Filled \in Int /\ load \in Loads /\ Item(tailIndex) \in Int
        /\ Item(tailIndex) <= BlockSize * Filled /\ Item(tailIndex) \in 0..(IndexMod - 1)
    BY <1>1, TailIs
  <2>5. Filled <= Made /\ Item(tailIndex) >= 0
    BY <2>3, <2>4
  <2> QED BY <2>2, <2>3, <2>4, <2>5
<1>7. PICK n : n = Made
  OBVIOUS
<1>8. n \in Window(a) /\ n >= f /\ n \in Int
  BY <1>1, <1>5, <1>6, <1>7 DEF Window
<1>9. PICK e : e = EntryOf(d, n)
  OBVIOUS
<1>10. EntryAt(Len(idxHeaders), enq.slot) = e
  BY <1>5, <1>7, <1>9 DEF EntryOf, Current
<1>11. e \in 1..Len(idxEntries) /\ idxEntries[e].key = BaseOf(n)
  <2>1. KeyOf(d, n) = BaseOf(n)
    BY <1>1, <1>8 DEF KeysUpTo
  <2>2. e \in 1..Len(idxEntries)
    BY <1>1, <1>8, <1>9, EntryInWindow
  <2> QED BY <1>9, <2>1, <2>2 DEF KeyOf
<1>12. /\ Len(idxEntries') = Len(idxEntries) /\ SameKeys
       /\ \A g \in 1..Len(idxEntries) : g # e => idxEntries'[g] = idxEntries[g]
  BY <1>1, <1>2, <1>4, <1>10, <1>11, ValueWritten DEF PutValue
<1>13. \A m : BaseOf(m)' = BaseOf(m)
  BY <1>3 DEF BaseOf, Wrap, startIndex
<1>14. /\ BlockSize * Filled <= BlockSize * n /\ BlockSize * n \in Int /\ BlockSize * Filled \in Int
  <2>1. PICK x \in Int : x = Filled
    BY <1>6
  <2>2. BlockSize * x < BlockSize * x + BlockSize /\ BlockSize \in Nat \ {0} /\ BlockSize * x \in Int
        /\ BlockSize * n \in Int
    BY <1>8, Sizes, Multiples
  <2>3. x = n \/ x < n
    BY <1>6, <1>7, <1>8, <2>1
  <2>4. x < n => BlockSize * x + BlockSize <= BlockSize * n
    BY <1>8, Multiples
  <2> QED BY <2>1, <2>2, <2>3, <2>4
<1>15. n \in Numbers
  <2>1. PICK k \in Int : k = BlockSize * n
    BY <1>14
  <2>2. k \in ItemsOf(n)
    BY <1>8, <2>1, ItemsIs, Sizes
  <2>3. 0 <= k /\ k < IndexMod
    BY <1>5, <1>6, <1>7, <1>14, <2>1, Sizes
  <2> QED BY <1>8, <2>2, <2>3, NumberIs
<1>16. \A k \in ItemsOf(n) : ~Unread(k)'
  <2>1. Constructed' = Item(tailIndex)
    <3>1. Item(tailIndex)' = Item(tailIndex)
      BY <1>3 DEF Item, startIndex
    <3>2. enqAt' # "publish"
      BY <1>2
    <3>3. Constructed' = Item(tailIndex)' + 0
      BY <3>2, Zenon DEF Constructed
    <3> QED BY <1>6, <3>1, <3>3
  <2>2. \A k \in ItemsOf(n) : k \in Int /\ BlockSize * n <= k
    BY <1>8, ItemsIs
  <2> QED BY <1>6, <1>14, <2>1, <2>2 DEF Unread
<1>17. ASSUME NEW m \in Numbers, NEW b \in Blocks, InEntry(b, m)'
       PROVE  InEntry(b, m) \/ \A k \in ItemsOf(m) : ~Unread(k)'
  <2>1. PICK g \in 1..Len(idxEntries) : idxEntries'[g].value = b /\ idxEntries'[g].key = BaseOf(m)
    BY <1>12, <1>13, <1>17 DEF InEntry
  <2>2. CASE g = e
    <3>1. BaseOf(m) = BaseOf(n)
      BY <1>11, <1>12, <2>1, <2>2 DEF SameKeys
    <3>2. m = n
      BY <1>6, <1>15, <3>1, OneNumber
    <3> QED BY <1>16, <3>2
  <2>3. CASE g # e
    BY <1>12, <2>1, <2>3 DEF InEntry
  <2> QED BY <2>2, <2>3
<1>18. \A k \in Int : Unread(k)' => Unread(k)
  BY <1>1, <1>2, <1>3, UnreadStays
<1> QED BY <1>3, <1>17, <1>18, ContentsStay

(* The blocks of a call that fills them.                                    *)
Fills == IF BlockOffset(tailIndex) = 0 THEN enq.got ELSE <<tailBlock>> \o enq.got
FillOf(j) == Fills[1 + ((BlockOffset(tailIndex) + j) \div BlockSize)]
FilledAt(b, o) ==
  {j \in 0..(enq.count - 1) : BlockOffset(tailIndex + j) = o /\ FillOf(j) = b}
AtFill == enqAt = "fill"

LEMMA AfterFirst ==
  ASSUME NEW S, NEW s \in Seq(S), NEW x
  PROVE  /\ (<<x>> \o s)[1] = x
         /\ \A i \in 1..Len(s) : (<<x>> \o s)[1 + i] = s[i]
<1>1. /\ Len(<<x>>) = 1 /\ Len(s) \in Nat
  OBVIOUS
<1>2. <<x>> \in Seq(S \union {x}) /\ s \in Seq(S \union {x})
  <2>1. s \in Seq(S \union {x})
    OBVIOUS
  <2> QED BY <2>1
<1> QED BY <1>1, <1>2

(* The block of a number that the call has taken.                           *)
LEMMA GotIs ==
  ASSUME NEW d, NEW a, NEW f, NEW holds, LiveInv(d, a, f, holds), AtFill,
         NEW n \in Int, Filled <= n, n < Made
  PROVE  /\ n \in DOMAIN holds /\ 1 + (n - Filled) \in 1..Len(enq.got)
         /\ enq.got[1 + (n - Filled)] = holds[n]
<1>1. ClaimInv /\ Calls(d, holds) /\ CallTypes
  BY DEF LiveInv, Calls
<1>2. /\ Len(enq.got) \in Nat /\ Made = Filled + Len(enq.got) /\ Filled \in Int
  BY <1>1, CallCounts, TailIs
<1>3. PICK i : i = 1 + (n - Filled)
  OBVIOUS
<1>4. i \in 1..Len(enq.got) /\ Filled + (i - 1) = n
  BY <1>2, <1>3
<1>5. Undone = 0
  BY DEF Undone, AtFill
<1>6. ~(i <= Undone)
  BY <1>4, <1>5
<1>7. Filled + (i - 1) \in DOMAIN holds /\ holds[Filled + (i - 1)] = enq.got[i]
  BY <1>1, <1>4, <1>6 DEF Calls
<1> QED BY <1>3, <1>4, <1>7

(* The element that is some places on from an index.                        *)
LEMMA IndexPlus ==
  ASSUME load \in Loads, NEW x \in 0..(IndexMod - 1), NEW j \in Nat, NEW k, k = Item(x) + j, k < IndexMod
  PROVE  k \in Int /\ 0 <= k /\ BlockOffset(x + j) = k % BlockSize /\ Item(x + j) = k
<1>1. Item(x) \in 0..(IndexMod - 1) /\ Item(x) \in Int
  BY IndexOfItem, Sizes
<1>2. /\ BlockSize \in Nat \ {0} /\ IndexMod \in Nat \ {0} /\ startIndex \in Int
  BY Sizes, Start
<1>3. PICK T \in Int : T = Item(x) /\ 0 <= T
  BY <1>1
<1>4. PICK z \in Int : startIndex + Item(x) = x + IndexMod * z
  BY IndexOfItem
<1>5. k \in Int /\ 0 <= k /\ x \in Int /\ k \in 0..(IndexMod - 1)
  BY <1>2, <1>3
<1>6. PICK i \in Int : i = x + j
  BY <1>5
<1>7. PICK w \in Int, S \in Int : /\ w = IndexMod * z /\ S = startIndex
                               /\ S + k = i + w
  <2>1. PICK w \in Int, S \in Int : w = IndexMod * z /\ S = startIndex
    BY <1>2
  <2>2. S + T = x + w /\ k = T + j
    BY <1>3, <1>4, <2>1
  <2>3. S + k = i + w
    BY <1>5, <1>6, <2>1, <2>2
  <2> QED BY <1>5, <2>1, <2>3
<1>8. BlockOffset(i) = k % BlockSize
  BY <1>5, <1>7, OffsetIs
<1>9. Item(i) = k
  <2>1. PICK y \in Int : y = 0 - z
    OBVIOUS
  <2>2. PICK u \in Int : u = IndexMod * y /\ u = 0 - w
    BY <1>2, <1>7, <2>1
  <2>3. i - S = k + u
    <3>1. PICK v \in Int : v = k
      BY <1>5
    <3>2. S + v = i + w
      BY <1>7, <3>1
    <3>3. PICK a \in Int, b \in Int, e \in Int, g \in Int : a = S /\ b = i /\ e = w /\ g = u
      BY <1>6, <1>7, <2>2
    <3>4. a + v = b + e /\ g = 0 - e
      BY <2>2, <3>2, <3>3
    <3>5. b - a = v + g
      BY <3>4
    <3> QED BY <3>1, <3>3, <3>5
  <2>4. Wrap(k + IndexMod * y) = Wrap(k) /\ Wrap(k) = k
    BY <1>5, WrapIs
  <2> QED BY <1>7, <2>2, <2>3, <2>4 DEF Item
<1> QED BY <1>5, <1>6, <1>8, <1>9

(* The number of an element that the call constructs, and its index.        *)
LEMMA FillItems ==
  ASSUME ClaimInv, NEW j \in Nat, NEW k, k = Item(tailIndex) + j, k < IndexMod
  PROVE  /\ k \in Int /\ 0 <= k /\ BlockOffset(tailIndex + j) = k % BlockSize
         /\ Item(tailIndex + j) = k
         /\ (BlockOffset(tailIndex) + j) \div BlockSize = (k \div BlockSize) - (Item(tailIndex) \div BlockSize)
         /\ BlockOffset(tailIndex) = Item(tailIndex) % BlockSize
<1>1. load \in Loads /\ tailIndex \in 0..(IndexMod - 1) /\ Item(tailIndex) \in 0..(IndexMod - 1)
  BY TailIs
<1>2. BlockSize \in Nat \ {0} /\ IndexMod \in Nat \ {0}
  BY Sizes
<1>3. PICK T \in Int : T = Item(tailIndex) /\ 0 <= T
  BY <1>1, <1>2
<1>4. k \in Int /\ 0 <= k /\ BlockOffset(tailIndex + j) = k % BlockSize /\ Item(tailIndex + j) = k
  BY <1>1, IndexPlus
<1>5. BlockOffset(tailIndex) = Item(tailIndex) % BlockSize
  BY <1>1, BlockOfIndex
<1>6. (BlockOffset(tailIndex) + j) \div BlockSize = (k \div BlockSize) - (T \div BlockSize)
  <2>1. PICK q \in Int, r \in 0..(BlockSize - 1) :
          q = T \div BlockSize /\ r = T % BlockSize /\ T = BlockSize * q + r
    BY <1>2, <1>3, Divides
  <2>2. PICK n \in Int, s \in 0..(BlockSize - 1) :
          n = k \div BlockSize /\ s = k % BlockSize /\ k = BlockSize * n + s
    BY <1>2, <1>4, Divides
  <2>3. PICK m \in Int : m = n - q
    BY <2>1, <2>2
  <2>4. PICK u \in Int, v \in Int : u = BlockSize * n /\ v = BlockSize * q /\ BlockSize * m = u - v
    <3>1. BlockSize * n \in Int /\ BlockSize * q \in Int
      BY Multiples
    <3>3. n = q + m
      BY <2>3
    <3>2. BlockSize * (q + m) = BlockSize * q + BlockSize * m /\ BlockSize * m \in Int
      BY <1>2
    <3> QED BY <3>1, <3>2, <3>3
  <2>5. T = v + r /\ k = u + s /\ k = T + j
    BY <1>3, <2>1, <2>2, <2>4
  <2>6. PICK x \in Int : x = r + j
    BY <2>1
  <2>7. x = (u - v) + s
    BY <1>3, <1>4, <2>4, <2>5, <2>6
  <2>8. x \div BlockSize = m
    <3>1. x = BlockSize * m + s
      BY <2>4, <2>7
    <3>2. s \in 0..(BlockSize - 1) /\ BlockSize \in Nat \ {0}
      BY <1>2, <2>2
    <3> QED BY <3>1, <3>2, Division
  <2> QED BY <1>3, <1>5, <2>1, <2>2, <2>3, <2>6, <2>8
<1> QED BY <1>3, <1>4, <1>5, <1>6

(* Each element goes to the block that the index has for it.                *)
LEMMA FillIs ==
  ASSUME NEW d, NEW a, NEW f, NEW holds, LiveInv(d, a, f, holds), AtFill,
         NEW j \in Nat, NEW k, k = Item(tailIndex) + j, k < Item(tailIndex) + enq.count
  PROVE  /\ k \in Int /\ 0 <= k /\ k < IndexMod
         /\ BlockOffset(tailIndex + j) = k % BlockSize /\ Item(tailIndex + j) = k
         /\ k \div BlockSize \in DOMAIN holds /\ FillOf(j) = holds[k \div BlockSize]
<1>1. ClaimInv /\ Calls(d, holds) /\ CallTypes /\ Kept(holds)
  BY DEF LiveInv, Calls
<1>2. /\ load \in Loads /\ Item(tailIndex) \in 0..(IndexMod - 1) /\ Item(tailIndex) \in Int
      /\ Item(headIndex) \in Int /\ Item(headIndex) <= Item(tailIndex) /\ Filled \in Nat
      /\ Item(tailIndex) <= BlockSize * Filled /\ BlockSize * Filled < Item(tailIndex) + BlockSize
  BY <1>1, TailIs
<1>3. /\ Len(enq.got) \in Nat /\ Made = Filled + Len(enq.got) /\ Made \in Int
      /\ enq.got \in Seq(Blocks) /\ enq.count \in Nat
      /\ load.items \in Int /\ load.items < IndexMod
  BY <1>1, CallCounts
<1>4. PICK T \in Int : T = Item(tailIndex) /\ 0 <= T
  BY <1>2
<1>5. /\ Item(tailIndex) + enq.count <= load.items
      /\ Item(tailIndex) + enq.count <= BlockSize * Made
  BY <1>1 DEF ClaimInv, Calls, AtFill
<1>6. k \in Int /\ 0 <= k /\ k < IndexMod /\ T <= k /\ k < BlockSize * Made
  <2>1. BlockSize * Made \in Int /\ IndexMod \in Int
    BY <1>3, Multiples, Sizes
  <2>2. PICK C \in Int, L \in Int, W \in Int, M \in Int :
          C = enq.count /\ L = load.items /\ W = BlockSize * Made /\ M = IndexMod
    BY <1>3, <2>1
  <2>3. /\ T + C <= L /\ T + C <= W /\ L < M /\ k = T + j /\ k < T + C
    BY <1>3, <1>4, <1>5, <2>2
  <2>4. k \in Int /\ 0 <= k /\ k < M /\ T <= k /\ k < W
    BY <1>4, <2>2, <2>3
  <2> QED BY <2>2, <2>4
<1>7. /\ BlockOffset(tailIndex + j) = k % BlockSize /\ Item(tailIndex + j) = k
      /\ (BlockOffset(tailIndex) + j) \div BlockSize = (k \div BlockSize) - (T \div BlockSize)
      /\ BlockOffset(tailIndex) = T % BlockSize
  BY <1>1, <1>4, <1>6, FillItems
<1>8. BlockSize \in Nat \ {0}
  BY Sizes
<1>9. PICK q \in Int, r \in 0..(BlockSize - 1) :
        q = T \div BlockSize /\ r = T % BlockSize /\ T = BlockSize * q + r
  BY <1>4, <1>8, Divides
<1>10. PICK n \in Int : n = k \div BlockSize
  BY <1>6, ItemOfBlock
<1>11. k \in ItemsOf(n) /\ BlockSize * n <= k /\ k < BlockSize * n + BlockSize
  BY <1>6, <1>10, ItemOfBlock, ItemsIs
<1>12. PICK F \in Int : F = Filled
  BY <1>2
<1>13. q <= n /\ n < Made /\ 0 <= q
  <2>1. PICK u \in Int, v \in Int, w \in Int, M \in Int :
          u = BlockSize * q /\ v = BlockSize * n /\ w = BlockSize * M /\ M = Made
    BY <1>3, Multiples
  <2>2. u < v + BlockSize
    BY <1>6, <1>8, <1>9, <1>11, <2>1
  <2>3. q <= n
    BY <2>1, <2>2, Multiples
  <2>4. ASSUME M <= n PROVE FALSE
    <3>1. M < n => w + BlockSize <= v
      BY <2>1, Multiples
    <3>2. M = n \/ M < n
      BY <2>4
    <3> QED BY <1>6, <1>8, <1>11, <2>1, <3>1, <3>2
  <2>5. PICK z \in Int : z = 0 /\ BlockSize * z = 0
    BY <1>8
  <2>6. BlockSize * z < BlockSize * q + BlockSize
    <3>1. u + BlockSize > 0
      <4>1. T = u + r
        BY <1>9, <2>1
      <4> QED BY <1>4, <1>8, <4>1
    <3> QED BY <2>1, <2>5, <3>1
  <2>7. z <= q
    BY <2>6, Multiples
  <2> QED BY <2>1, <2>3, <2>4, <2>5, <2>7
<1>14. PICK m \in Int : m = n - q /\ 0 <= m
  BY <1>13
<1>15. FillOf(j) = Fills[1 + m]
  BY <1>7, <1>9, <1>10, <1>14 DEF FillOf
<1>16. CASE r = 0
  <2>1. F = q
    <3>1. PICK x \in Int : x = BlockSize * q
      BY Multiples
    <3>2. T <= x /\ x < T + BlockSize
      BY <1>8, <1>9, <1>16, <3>1
    <3>3. (T + BlockSize - 1) \div BlockSize = q
      BY <3>1, <3>2, FilledIs
    <3> QED BY <1>4, <1>12, <3>3 DEF Filled
  <2>2. Fills = enq.got
    BY <1>7, <1>9, <1>16 DEF Fills
  <2>3. 1 + m = 1 + (n - Filled) /\ Filled <= n
    BY <1>12, <1>13, <1>14, <2>1
  <2>4. n \in DOMAIN holds /\ enq.got[1 + (n - Filled)] = holds[n]
    BY <1>13, <2>3, GotIs
  <2> QED BY <1>6, <1>7, <1>10, <1>15, <2>2, <2>3, <2>4
<1>17. CASE r # 0
  <2>1. F = q + 1
    <3>1. PICK p \in Int : p = q + 1
      OBVIOUS
    <3>2. PICK x \in Int : x = BlockSize * q
      BY Multiples
    <3>3. BlockSize * p = x + BlockSize
      BY <3>1, <3>2, Multiples
    <3>4. T <= BlockSize * p /\ BlockSize * p < T + BlockSize
      BY <1>8, <1>9, <1>17, <3>2, <3>3
    <3>5. (T + BlockSize - 1) \div BlockSize = p
      BY <3>4, FilledIs
    <3> QED BY <1>4, <1>12, <3>1, <3>5 DEF Filled
  <2>2. Fills = <<tailBlock>> \o enq.got
    BY <1>7, <1>9, <1>17 DEF Fills
  <2>3. CASE m = 0
    <3>1. n = Filled - 1 /\ n \in 0..(Filled - 1)
      BY <1>12, <1>13, <1>14, <2>1, <2>3
    <3>2. ~AllDone(n)
      <4>1. ~(k < Item(headIndex))
        BY <1>2, <1>4, <1>6
      <4> QED BY <1>11, <4>1 DEF AllDone, Done
    <3>3. n \in DOMAIN holds /\ tailBlock = holds[n]
      BY <1>1, <3>1, <3>2 DEF Kept
    <3>4. Fills[1] = tailBlock
      BY <1>3, <2>2, AfterFirst
    <3>5. 1 + m = 1
      BY <2>3
    <3> QED BY <1>6, <1>7, <1>10, <1>15, <3>3, <3>4, <3>5
  <2>4. CASE m # 0
    <3>1. m = 1 + (n - Filled) /\ Filled <= n
      BY <1>12, <1>14, <2>1, <2>4
    <3>2. n \in DOMAIN holds /\ m \in 1..Len(enq.got) /\ enq.got[m] = holds[n]
      BY <1>13, <3>1, GotIs
    <3>3. Fills[1 + m] = enq.got[m]
      BY <1>3, <2>2, <3>2, AfterFirst
    <3> QED BY <1>6, <1>7, <1>10, <1>15, <3>2, <3>3
  <2> QED BY <2>3, <2>4
<1> QED BY <1>16, <1>17

(* Where an element is constructed: nowhere else, and no other is there.    *)
LEMMA ElementPlaced ==
  ASSUME NEW d, NEW a, NEW f, NEW holds, LiveInv(d, a, f, holds), AtFill,
         NEW n \in DOMAIN holds, n \in Int, NEW k \in ItemsOf(n)
  PROVE  /\ \A j \in FilledAt(holds[n], k % BlockSize) :
              j \in Nat /\ k = Item(tailIndex) + j /\ Item(tailIndex + j) = k
         /\ k >= Item(tailIndex) /\ k < Item(tailIndex) + enq.count =>
              FilledAt(holds[n], k % BlockSize) # {}
<1>1. ClaimInv /\ CallTypes /\ Kept(holds)
  BY DEF LiveInv, Calls
<1>2. PICK T \in Int, C \in Int : T = Item(tailIndex) /\ C = enq.count
  BY <1>1, TailIs, CallCounts
<1>3. BlockSize \in Nat \ {0} /\ k \in Int /\ k \div BlockSize = n
  BY ItemsIs, ItemOfBlock, Sizes
<1>4. PICK o : o = k % BlockSize
  OBVIOUS
<1>5. k = BlockSize * n + o
  BY <1>3, <1>4, Divides
<1>6. ASSUME NEW j \in FilledAt(holds[n], o)
      PROVE  j \in Nat /\ k = T + j /\ Item(tailIndex + j) = k
  <2>1. j \in 0..(C - 1) /\ BlockOffset(tailIndex + j) = o /\ FillOf(j) = holds[n]
    BY <1>2 DEF FilledAt
  <2>2. PICK i \in Int : i = T + j /\ i < T + C
    BY <1>2, <2>1
  <2>3. j \in Nat
    BY <1>2, <2>1
  <2>4. /\ BlockOffset(tailIndex + j) = i % BlockSize /\ Item(tailIndex + j) = i
        /\ i \div BlockSize \in DOMAIN holds /\ FillOf(j) = holds[i \div BlockSize]
    BY <1>2, <2>2, <2>3, FillIs
  <2>5. i \div BlockSize = n
    BY <1>1, <2>1, <2>4 DEF Kept
  <2>6. i = BlockSize * n + o
    BY <1>3, <2>1, <2>4, <2>5, Divides
  <2> QED BY <1>5, <2>2, <2>3, <2>4, <2>6
<1>7. ASSUME k >= T, k < T + C PROVE FilledAt(holds[n], o) # {}
  <2>1. PICK j \in Int : j = k - T /\ j \in 0..(C - 1)
    BY <1>2, <1>3, <1>7
  <2>2. j \in Nat /\ k = T + j
    BY <1>2, <1>3, <2>1
  <2>3. BlockOffset(tailIndex + j) = o /\ FillOf(j) = holds[n]
    BY <1>2, <1>3, <1>4, <1>7, <2>2, FillIs
  <2> QED BY <1>2, <2>1, <2>3 DEF FilledAt
<1> QED BY <1>2, <1>4, <1>6, <1>7

LEMMA FillNumbers ==
  ASSUME NEW d, NEW a, NEW f, NEW holds, LiveInv(d, a, f, holds), AtFill
  PROVE  \A n \in DOMAIN holds : n \in Numbers /\ n \in Int
<1>1. ClaimInv /\ Calls(d, holds) /\ CallTypes /\ Kept(holds)
  BY DEF LiveInv, Calls
<1>2. PICK T \in Int, C \in Int, M \in Int, L \in Int, X \in Int :
        T = Item(tailIndex) /\ C = enq.count /\ M = Made /\ L = load.items /\ X = IndexMod
  <2>1. Item(tailIndex) \in Int /\ enq.count \in Int
    BY <1>1, TailIs, CallCounts
  <2>2. Made \in Int /\ load.items \in Int
    BY <1>1, CallCounts
  <2>3. IndexMod \in Int
    BY Sizes
  <2> QED BY <2>1, <2>2, <2>3
<1>3. L < X /\ T + C <= L /\ BlockSize * M < T + C + BlockSize
  <2>1. load.items < IndexMod
    BY <1>1, CallCounts
  <2>2. Item(tailIndex) + enq.count <= load.items
    BY <1>1 DEF ClaimInv, AtFill
  <2>3. BlockSize * Made < Item(tailIndex) + enq.count + BlockSize
    BY <1>1 DEF Calls, AtFill
  <2> QED BY <1>2, <2>1, <2>2, <2>3
<1>4. ASSUME NEW n \in DOMAIN holds PROVE n \in Numbers /\ n \in Int
  <2>1. n \in Int /\ 0 <= n /\ n < M
    <3>1. n \in Nat /\ n < Limit
      BY <1>1 DEF Kept
    <3>2. Limit = Made
      BY DEF Limit, AtFill
    <3> QED BY <1>2, <3>1, <3>2
  <2>2. PICK k \in Int, w \in Int, B \in Int : k = BlockSize * n /\ w = BlockSize * M /\ B = BlockSize /\ B > 0
    BY <2>1, Sizes, Multiples
  <2>3. k + B <= w
    BY <2>1, <2>2, Multiples
  <2>4. k < X
    BY <1>2, <1>3, <2>2, <2>3
  <2>5. 0 <= k
    <3>1. BlockSize \in Nat
      BY Sizes
    <3> QED BY <2>1, <2>2, <3>1
  <2>6. k \in ItemsOf(n)
    BY <2>1, <2>2, ItemsIs
  <2> QED BY <1>2, <2>1, <2>4, <2>5, <2>6, NumberIs
<1> QED BY <1>4

LEMMA FillReads ==
  ASSUME NEW d, NEW a, NEW f, NEW holds, LiveInv(d, a, f, holds), Fill, Contents
  PROVE  Contents'
<1>1. ClaimInv /\ Calls(d, holds) /\ CallTypes /\ Kept(holds)
  BY DEF LiveInv, Calls
<1>2. /\ AtFill /\ enqAt = "fill" /\ enqAt' = "publish" /\ enq' = enq
      /\ UNCHANGED <<tailIndex, headIndex, dqAt, dq, load, idxEntries>>
  BY DEF Fill, EnqGoto, AtFill, counterVars
<1>3. elements' = [b \in Blocks |-> [o \in 0..(BlockSize - 1) |->
                     IF FilledAt(b, o) = {} THEN elements[b][o]
                     ELSE Item(tailIndex + CHOOSE j \in FilledAt(b, o) : TRUE)]]
  BY DEF Fill, ConstructElements, FilledAt, FillOf, Fills
<1>4. ElementsShape'
  <2> DEFINE S == UNION {{elements'[b][o] : o \in 0..(BlockSize - 1)} : b \in Blocks}
  <2>1. elements' \in [Blocks -> [0..(BlockSize - 1) -> S]]
    BY <1>3
  <2> HIDE DEF S
  <2> QED BY <2>1 DEF ElementsShape
<1>5. PICK T \in Int, C \in Int : T = Item(tailIndex) /\ C = enq.count
  BY <1>1, TailIs, CallCounts
<1>6. Constructed' = T + C /\ Constructed = T
  <2>1. Item(tailIndex)' = Item(tailIndex)
    BY <1>2 DEF Item, startIndex
  <2>2. Constructed' = Item(tailIndex) + enq.count
    BY <1>2, <2>1 DEF Constructed
  <2>3. Constructed = Item(tailIndex) + 0
    BY <1>2, Zenon DEF Constructed
  <2> QED BY <1>5, <2>2, <2>3
<1>7. /\ Item(headIndex)' = Item(headIndex) /\ \A c : ToRead(c)' = ToRead(c)
      /\ \A b, n : InEntry(b, n)' <=> InEntry(b, n)
  BY <1>2, EntriesStay DEF ToRead, Pending, Stop, Beyond, First, Number, Item, startIndex
<1>8. ASSUME NEW n \in Numbers, NEW b \in Blocks, InEntry(b, n)', NEW k \in ItemsOf(n), Unread(k)'
      PROVE  elements'[b][k % BlockSize] = k
  <2>1. InEntry(b, n) /\ n \in Int /\ k \in Int
    BY <1>7, <1>8, ItemsIs DEF Numbers
  <2>2. n \in DOMAIN holds /\ holds[n] = b
    BY <1>2, <2>1, EntryIs, FillNumbers
  <2>3. PICK o \in 0..(BlockSize - 1) : o = k % BlockSize
    BY <2>1, Sizes, Divides
  <2>4. /\ \A j \in FilledAt(b, o) : k = T + j /\ Item(tailIndex + j) = k /\ j \in Nat
        /\ k >= T /\ k < T + C => FilledAt(b, o) # {}
    BY <1>2, <1>5, <2>1, <2>2, <2>3, ElementPlaced
  <2>5. k < T + C
    BY <1>6, <1>8 DEF Unread
  <2>6. CASE FilledAt(b, o) = {}
    <3>1. elements'[b][o] = elements[b][o]
      BY <1>3, <2>3, <2>6
    <3>2. k < T
      BY <1>5, <2>1, <2>4, <2>5, <2>6
    <3>3. Unread(k)
      BY <1>6, <1>7, <1>8, <3>2 DEF Unread
    <3> QED BY <2>1, <2>3, <3>1, <3>3 DEF Contents
  <2>7. CASE FilledAt(b, o) # {}
    <3>1. PICK j \in FilledAt(b, o) : j = CHOOSE i \in FilledAt(b, o) : TRUE
      BY <2>7
    <3>2. elements'[b][o] = Item(tailIndex + j)
      BY <1>3, <2>3, <2>7, <3>1
    <3> QED BY <2>3, <2>4, <3>1, <3>2
  <2> QED BY <2>6, <2>7
<1>9. Numbers' = Numbers /\ \A n : ItemsOf(n)' = ItemsOf(n)
  BY DEF Numbers, ItemsOf, RangeOfBases
<1> QED BY <1>4, <1>8, <1>9 DEF Contents

LEMMA PublishTailReads ==
  ASSUME NEW d, NEW a, NEW f, NEW holds, LiveInv(d, a, f, holds), PublishTail, Contents
  PROVE  Contents'
<1>1. ClaimInv /\ CallTypes
  BY DEF LiveInv, Calls
<1>2. /\ enqAt = "publish" /\ enqAt' = "idle" /\ tailIndex' = Wrap(tailIndex + enq.count)
      /\ UNCHANGED <<headIndex, dqAt, dq, load, idxEntries, elements>>
  BY DEF PublishTail, EnqGoto
<1>3. PICK T \in Int, C \in Nat : T = Item(tailIndex) /\ C = enq.count
  BY <1>1, TailIs, CallCounts
<1>4. T + C < IndexMod
  <2>1. Item(tailIndex) + enq.count <= load.items
    BY <1>1, <1>2 DEF ClaimInv
  <2>2. PICK L \in Int, M \in Int : L = load.items /\ M = IndexMod /\ L < M
    BY <1>1, CallCounts, Sizes
  <2> QED BY <1>3, <2>1, <2>2
<1>5. Item(tailIndex') = T + C
  <2>1. load \in Loads /\ tailIndex \in 0..(IndexMod - 1)
    BY <1>1, TailIs
  <2> QED BY <1>2, <1>3, <1>4, <2>1, ItemOfSum
<1>6. Constructed' = Constructed
  <2>1. Item(tailIndex)' = Item(tailIndex')
    BY <1>2 DEF Item, startIndex
  <2>2. Constructed' = Item(tailIndex)' + 0
    BY <1>2, Zenon DEF Constructed
  <2>3. Constructed = T + C
    BY <1>2, <1>3 DEF Constructed
  <2> QED BY <1>3, <1>5, <2>1, <2>2, <2>3
<1>7. /\ Item(headIndex)' = Item(headIndex) /\ \A c : ToRead(c)' = ToRead(c)
      /\ \A b, n : InEntry(b, n)' <=> InEntry(b, n)
  BY <1>2, EntriesStay DEF ToRead, Pending, Stop, Beyond, First, Number, Item, startIndex
<1>8. \A k \in Int : Unread(k)' => Unread(k)
  BY <1>6, <1>7 DEF Unread
<1> QED BY <1>2, <1>7, <1>8, ContentsStay

(* Steps that leave the index, or empty an entry of it.                     *)
LEMMA PlainReads ==
  ASSUME NEW d, NEW a, NEW f, NEW holds, LiveInv(d, a, f, holds), Contents,
         ProducerOnly, tailIndex' = tailIndex, elements' = elements, enqAt' # "publish",
         idxEntries' = idxEntries \/ \E e : PutValue(e, NoBlock)
  PROVE  Contents'
<1>1. ClaimInv /\ CallTypes /\ IndexTypes
  BY DEF LiveInv, Calls, Indexes
<1>2. load' = load
  BY DEF ProducerOnly
<1>3. \A b \in Blocks : \A n : InEntry(b, n)' => InEntry(b, n)
  BY <1>1, <1>2, EntriesStay, EntryEmptied DEF PutValue
<1>4. \A k \in Int : Unread(k)' => Unread(k)
  BY <1>1, UnreadStays
<1> QED BY <1>2, <1>3, <1>4, ContentsStay

(* New entries have no block.                                               *)
LEMMA NewBlockIndexReads ==
  ASSUME NEW d, NEW a, NEW f, NEW holds, LiveInv(d, a, f, holds), NewBlockIndex, Contents
  PROVE  Contents'
<1>1. ClaimInv /\ CallTypes /\ IndexTypes
  BY DEF LiveInv, Calls, Indexes
<1>2. UNCHANGED <<baseVars, enqAt, enq>> /\ enqAt = "insert"
  BY DEF NewBlockIndex
<1>3. UNCHANGED <<elements, load>> /\ ProducerOnly /\ tailIndex' = tailIndex /\ enqAt' # "publish"
  BY <1>2 DEF baseVars, counterVars, ProducerOnly
<1>4. PICK k : k = Cardinality(DOMAIN Header.index) /\ k \in Nat
  BY <1>1, CurrentIs, CapacityIs DEF Current, IndexSize, Header
<1>5. ASSUME NEW b \in Blocks, NEW n, InEntry(b, n)' PROVE InEntry(b, n)
  <2>1. idxEntries' = idxEntries \o [e \in 1..k |-> [key |-> InvalidBlockBase, value |-> Uninitialized]]
    BY <1>4 DEF NewBlockIndex
  <2>2. PICK s : s = [e \in 1..k |-> [key |-> InvalidBlockBase, value |-> Uninitialized]]
    OBVIOUS
  <2>3. s \in Seq(EntrySet) /\ Len(s) = k /\ \A e \in 1..k : s[e].value = Uninitialized
    <3>1. PICK x : x = [key |-> InvalidBlockBase, value |-> Uninitialized]
      OBVIOUS
    <3>2. x \in EntrySet /\ x.value = Uninitialized
      BY <3>1 DEF EntrySet, InvalidBlockBase
    <3>3. s = [e \in 1..k |-> x]
      BY <2>2, <3>1
    <3>4. s \in Seq(EntrySet) /\ Len(s) = k
      BY <1>4, <3>2, <3>3
    <3> QED BY <3>2, <3>3, <3>4
  <2>4. idxEntries \in Seq(EntrySet)
    BY <1>1 DEF IndexTypes
  <2>5. PICK g \in 1..Len(idxEntries') : idxEntries'[g].value = b /\ idxEntries'[g].key = BaseOf(n)
    BY <1>3, <1>5 DEF InEntry, BaseOf, Wrap, startIndex
  <2>6. idxEntries' = idxEntries \o s
    BY <2>1, <2>2
  <2>7. g \in 1..(Len(idxEntries) + k) /\ Len(idxEntries) \in Nat
    BY <2>3, <2>4, <2>5, <2>6
  <2>8. CASE g <= Len(idxEntries)
    <3>1. idxEntries'[g] = idxEntries[g] /\ g \in 1..Len(idxEntries)
      BY <2>3, <2>4, <2>6, <2>7, <2>8
    <3> QED BY <2>5, <3>1 DEF InEntry
  <2>9. CASE g > Len(idxEntries)
    <3>1. PICK e \in 1..k : e = g - Len(idxEntries)
      BY <1>4, <2>7, <2>9
    <3>2. idxEntries'[g] = s[e]
      BY <1>4, <2>3, <2>4, <2>6, <2>7, <2>9, <3>1
    <3>3. b = Uninitialized
      BY <2>3, <2>5, <3>2
    <3> QED BY <3>3, ImplicitConstants
  <2> QED BY <2>7, <2>8, <2>9
<1>6. \A i \in Int : Unread(i)' => Unread(i)
  BY <1>1, <1>3, UnreadStays
<1> QED BY <1>3, <1>5, <1>6, ContentsStay

(* Any step of the producer.                                                *)
LEMMA UndoIs ==
  ASSUME NEW k, UndoFrom(k)
  PROVE  enqAt' # "publish"
BY DEF UndoFrom, EnqGoto

LEMMA EnqueueReads ==
  ASSUME NEW d, NEW a, NEW f, NEW holds, LiveInv(d, a, f, holds), EnqueueStep, Contents
  PROVE  Contents'
<1> USE DEF baseVars, counterVars
<1> DEFINE Plain == ProducerOnly /\ tailIndex' = tailIndex /\ elements' = elements
<1>1. CASE CheckHead
  <2>1. Plain /\ idxEntries' = idxEntries
    BY <1>1 DEF CheckHead, ProducerOnly
  <2>2. enqAt' # "publish"
    BY <1>1, UndoIs DEF CheckHead, EnqGoto
  <2> QED BY <2>1, <2>2, PlainReads
<1>2. CASE InsertEntry
  BY <1>2, InsertEntryReads
<1>3. CASE StoreIndexTail
  <2>1. Plain /\ idxEntries' = idxEntries /\ enqAt' # "publish"
    BY <1>3 DEF StoreIndexTail, EnqGoto, ProducerOnly
  <2> QED BY <2>1, PlainReads
<1>4. CASE NewBlockIndex
  BY <1>4, NewBlockIndexReads
<1>5. CASE NoBlockIndex
  <2>1. Plain /\ idxEntries' = idxEntries
    BY <1>5 DEF NoBlockIndex, ProducerOnly
  <2>2. enqAt' # "publish"
    BY <1>5, UndoIs DEF NoBlockIndex
  <2> QED BY <2>1, <2>2, PlainReads
<1>6. CASE RequisitionBlock
  <2>1. Plain /\ idxEntries' = idxEntries /\ enqAt' # "publish"
    BY <1>6 DEF RequisitionBlock, EnqGoto, ProducerOnly
  <2> QED BY <2>1, PlainReads
<1>7. CASE NoBlockAvailable
  <2>1. Plain /\ idxEntries' = idxEntries /\ enqAt' # "publish"
    BY <1>7 DEF NoBlockAvailable, EnqGoto, ProducerOnly
  <2> QED BY <2>1, PlainReads
<1>8. CASE StoreValue
  BY <1>8, StoreValueReads
<1>9. CASE RewindTail
  <2>1. Plain /\ idxEntries' = idxEntries
    BY <1>9 DEF RewindTail, ProducerOnly
  <2>2. enqAt' # "publish"
    BY <1>9, UndoIs DEF RewindTail, EnqGoto
  <2> QED BY <2>1, <2>2, PlainReads
<1>10. CASE NullValue
  <2>1. Plain /\ \E e : PutValue(e, NoBlock)
    BY <1>10 DEF NullValue, ProducerOnly, PutValue
  <2>2. enqAt' # "publish"
    BY <1>10, UndoIs DEF NullValue
  <2> QED BY <2>1, <2>2, PlainReads
<1>11. CASE UndoValue
  <2>1. Plain /\ enqAt' # "publish" /\ \E e : PutValue(e, NoBlock)
    BY <1>11 DEF UndoValue, EnqGoto, ProducerOnly, PutValue
  <2> QED BY <2>1, PlainReads
<1>12. CASE FreeBlocks
  <2>1. Plain /\ idxEntries' = idxEntries /\ enqAt' # "publish"
    BY <1>12 DEF FreeBlocks, EnqGoto, ProducerOnly
  <2> QED BY <2>1, PlainReads
<1>13. CASE Fill
  BY <1>13, FillReads
<1>14. CASE PublishTail
  BY <1>14, PublishTailReads
<1> QED BY <1>1, <1>2, <1>3, <1>4, <1>5, <1>6, <1>7, <1>8, <1>9, <1>10, <1>11, <1>12, <1>13, <1>14
     DEF EnqueueStep

LEMMA EnqueueBulkReads ==
  ASSUME NEW d, NEW a, NEW f, NEW holds, LiveInv(d, a, f, holds), NEW count, EnqueueBulk(count), Contents
  PROVE  Contents'
<1>1. ProducerOnly /\ tailIndex' = tailIndex /\ elements' = elements /\ enqAt' # "publish"
      /\ idxEntries' = idxEntries
  BY DEF EnqueueBulk, EnqGoto, ProducerOnly, baseVars, counterVars
<1> QED BY <1>1, PlainReads

-----------------------------------------------------------------------------
(* The consumers.                                                           *)
LEMMA ClaimsReads ==
  ASSUME NEW d, NEW a, NEW f, NEW holds, LiveInv(d, a, f, holds), ClaimsCovered, NEW c \in Consumers,
         Claims(c), UNCHANGED <<idxEntries, idxHeaders, enqAt, enq>>, Contents
  PROVE  Contents'
<1>1. ClaimInv
  BY DEF LiveInv
<1>2. /\ UNCHANGED <<tailBlock, elements, isExplicit, destroyed, load>>
      /\ \/ LoadTail(c) \/ LoadOvercommit(c) \/ LoadOptimistic(c) \/ ClaimCount(c)
         \/ ReloadTail(c) \/ GiveBack(c) \/ TakeIndex(c)
  BY DEF Claims
<1>3. \A b, n : InEntry(b, n)' <=> InEntry(b, n)
  BY <1>2, EntriesStay
<1>4. Item(headIndex) \in Int
  BY <1>1, TailIs
<1>5. CASE TakeIndex(c)
  <2>1. /\ ClaimInv' /\ \A k \in Int : Done(k)' <=> Done(k)
        /\ \A k : k \in Pending(c)' <=> k \in Item(headIndex)..(Item(headIndex') - 1)
    BY <1>1, <1>2, <1>5, TakeIndexClaims
  <2>2. /\ \E local : DqGoto(c, "load index", local)
        /\ dqAt[c] = "take" /\ tailIndex' = tailIndex
    BY <1>5 DEF TakeIndex
  <2>3. dqAt'[c] = "load index" /\ OthersStay(c)
    BY <1>1, <2>2, GotoIs
  <2>4. ConsumerOnly
    BY <1>2, <2>2 DEF ConsumerOnly
  <2>5. ToRead(c)' = Pending(c)'
    BY <2>3 DEF ToRead
  <2>6. Item(headIndex)' = Item(headIndex') /\ Item(headIndex)' \in Int
    <3>1. Item(headIndex)' = Item(headIndex')
      BY <1>2 DEF Item, startIndex
    <3>2. headIndex' \in 0..(IndexMod - 1) /\ load \in Loads
      BY <1>1, <2>1 DEF ClaimInv, ClaimTypes
    <3>3. Item(headIndex') \in Int
      BY <3>2, IndexOfItem
    <3> QED BY <3>1, <3>3
  <2>7. First(c)' = Item(headIndex) /\ Beyond(c)' = Item(headIndex)'
    <3>1. PICK local : /\ local = [NoDequeue EXCEPT !.index = headIndex, !.end = headIndex']
                       /\ DqGoto(c, "load index", local)
      BY <1>5 DEF TakeIndex
    <3>2. local.index = headIndex /\ local.end = headIndex'
      BY <3>1 DEF NoDequeue
    <3>3. dq'[c] = local
      BY <1>1, <3>1, GotoIs
    <3> QED BY <1>2, <3>2, <3>3 DEF First, Beyond, Item, startIndex
  <2>8. Item(headIndex) <= Item(headIndex)'
    <3>1. First(c)' < Beyond(c)'
      BY <2>1, <2>3 DEF ClaimInv, Ranged, Holding
    <3> QED BY <1>4, <2>6, <2>7, <3>1
  <2>9. \A k \in Int : k \in ToRead(c)' => k \in ToRead(c) \/ k >= Item(headIndex)
    BY <1>4, <2>1, <2>5
  <2>10. \A k \in Int : Unread(k)' => Unread(k)
    BY <1>1, <2>3, <2>4, <2>6, <2>8, <2>9, LessToRead
  <2> QED BY <1>2, <1>3, <2>10, ContentsStay
<1>6. CASE LoadTail(c) \/ LoadOvercommit(c) \/ LoadOptimistic(c) \/ ClaimCount(c) \/ ReloadTail(c) \/ GiveBack(c)
  <2>1. /\ dqAt[c] \in Claiming /\ headIndex' = headIndex /\ tailIndex' = tailIndex
        /\ \E at \in Claiming : \E local : DqGoto(c, at, local)
    BY <1>6, ClaimsOn
  <2>2. dqAt'[c] \in Claiming /\ OthersStay(c)
    BY <1>1, <2>1, GotoIs
  <2>3. ConsumerOnly
    BY <1>2, <2>1 DEF ConsumerOnly
  <2>4. ToRead(c)' = {}
    BY <2>2 DEF ToRead, Pending, Claiming, Holding, Leaving
  <2>5. Item(headIndex)' = Item(headIndex)
    BY <1>2, <2>1 DEF Item, startIndex
  <2>6. Item(headIndex)' \in Int /\ Item(headIndex) <= Item(headIndex)'
    BY <1>4, <2>5
  <2>7. \A k \in Int : Unread(k)' => Unread(k)
    BY <1>1, <2>2, <2>3, <2>4, <2>6, LessToRead
  <2> QED BY <1>2, <1>3, <2>7, ContentsStay
<1> QED BY <1>2, <1>5, <1>6

(* A consumer that looks for a block, or has left one.                      *)
LEMMA ReadingOn ==
  ASSUME ClaimInv, Contents, NEW c \in Consumers, ConsumerOnly, OthersStay(c), headIndex' = headIndex,
         elements' = elements, \A k \in Int : k \in ToRead(c)' => k \in ToRead(c),
         idxEntries' = idxEntries \/ \E e : PutValue(e, NoBlock), IndexTypes
  PROVE  Contents'
<1>1. load' = load
  BY DEF ConsumerOnly
<1>2. \A b \in Blocks : \A n : InEntry(b, n)' => InEntry(b, n)
  BY <1>1, EntriesStay, EntryEmptied DEF PutValue
<1>3. Item(headIndex)' \in Int /\ Item(headIndex) <= Item(headIndex)'
  <2>1. Item(headIndex)' = Item(headIndex)
    BY <1>1 DEF Item, startIndex
  <2>2. Item(headIndex) \in Int
    BY TailIs
  <2> QED BY <2>1, <2>2
<1>4. \A k \in Int : Unread(k)' => Unread(k)
  BY <1>3, LessToRead
<1> QED BY <1>1, <1>2, <1>4, ContentsStay

LEMMA LookingReads ==
  ASSUME NEW d, NEW a, NEW f, NEW holds, LiveInv(d, a, f, holds), NEW c \in Consumers, OnlyLooks,
         LoadBlockIndex(c) \/ LoadIndexTail(c) \/ LoadTailBase(c) \/ LoadBlock(c),
         elements' = elements, Contents
  PROVE  Contents'
<1>1. ClaimInv /\ IndexTypes
  BY DEF LiveInv, Indexes
<1>2. PICK U : dq \in [Consumers -> DqLocals(U)]
  BY <1>1 DEF ClaimInv, ClaimTypes
<1>3. PICK at, local : /\ DqGoto(c, at, local) /\ at \in Holding /\ at # "set empty"
                       /\ dqAt[c] \in Holding /\ dqAt[c] # "set empty"
                       /\ \E v : local \in {WithHeader(dq[c], v), WithSlot(dq[c], v), WithBlock(dq[c], v)}
  <2>1. CASE LoadBlockIndex(c)
    BY <2>1 DEF LoadBlockIndex, WithHeader, Holding
  <2>2. CASE LoadIndexTail(c)
    BY <2>2 DEF LoadIndexTail, WithSlot, Holding
  <2>3. CASE LoadTailBase(c)
    BY <2>3 DEF LoadTailBase, WithSlot, Holding
  <2>4. CASE LoadBlock(c)
    BY <2>4 DEF LoadBlock, WithBlock, Holding
  <2> QED BY <2>1, <2>2, <2>3, <2>4
<1>4. PICK v : local \in DqLocals(U \union {v}) /\ local.index = dq[c].index /\ local.end = dq[c].end
  <2>1. PICK x : x = dq[c] /\ x \in DqLocals(U)
    BY <1>2
  <2>2. PICK v : local = WithHeader(x, v) \/ local = WithSlot(x, v) \/ local = WithBlock(x, v)
    BY <1>3, <2>1
  <2>3. local \in DqLocals(U \union {v}) /\ local.index = x.index /\ local.end = x.end
    BY <2>1, <2>2, LocalNoted
  <2> QED BY <2>1, <2>3
<1>5. /\ dqAt'[c] = at /\ OthersStay(c) /\ ConsumerOnly /\ Pending(c)' = Pending(c)
      /\ idxEntries' = idxEntries
  BY <1>1, <1>3, <1>4, LookingIs
<1>6. ToRead(c)' = ToRead(c)
  BY <1>3, <1>5 DEF ToRead
<1>7. headIndex' = headIndex
  BY DEF OnlyLooks, counterVars
<1> QED BY <1>1, <1>5, <1>6, <1>7, ReadingOn

LEMMA LeavingReads ==
  ASSUME NEW d, NEW a, NEW f, NEW holds, LiveInv(d, a, f, holds), NEW c \in Consumers, CountersStay,
         SetManyEmpty(c) \/ ClearEntry(c) \/ AddBlockToFreeList(c), elements' = elements, Contents
  PROVE  Contents'
<1>1. ClaimInv /\ IndexTypes
  BY DEF LiveInv, Indexes
<1>2. /\ UNCHANGED <<counterVars, isExplicit, load, enqAt, enq>> /\ ConsumerOnly
      /\ headIndex' = headIndex
  BY DEF CountersStay, ConsumerOnly, counterVars
<1>3. CASE ClearEntry(c)
  <2>1. /\ dqAt[c] = "clear entry" /\ DqGoto(c, "free block", dq[c])
        /\ \E e : PutValue(e, NoBlock)
    BY <1>3 DEF ClearEntry, PutValue
  <2>2. dqAt'[c] = "free block" /\ dq'[c] = dq[c] /\ OthersStay(c)
    BY <1>1, <2>1, GotoIs
  <2>3. ToRead(c)' = ToRead(c)
    BY <1>2, <2>1, <2>2 DEF ToRead, Pending, Holding, Leaving, First, Beyond, Stop, Number, Item, startIndex
  <2> QED BY <1>1, <1>2, <2>1, <2>2, <2>3, ReadingOn
<1>4. CASE SetManyEmpty(c) \/ AddBlockToFreeList(c)
  <2>1. /\ dqAt[c] \in {"set empty", "free block"}
        /\ DqGoto(c, "clear entry", dq[c]) \/ ImplicitNextSegment(c)
        /\ idxEntries' = idxEntries
    BY <1>4 DEF SetManyEmpty, AddBlockToFreeList
  <2>2. /\ Pending(c)' = Stop(c)..(Beyond(c) - 1)
        /\ dqAt'[c] \in {"clear entry", "idle", "load block"}
        /\ OthersStay(c)
    BY <1>1, <1>2, <2>1, Advances DEF OthersStay
  <2>3. ToRead(c)' = Pending(c)' /\ ToRead(c) = Stop(c)..(Beyond(c) - 1)
    BY <2>1, <2>2 DEF ToRead, Pending, Holding, Leaving
  <2> QED BY <1>1, <1>2, <2>1, <2>2, <2>3, ReadingOn
<1> QED BY <1>3, <1>4


(* Another part of a block than the one that is moved out.                  *)
LEMMA PartOfBlock ==
  ASSUME NEW n \in Int, NEW i \in ItemsOf(n), NEW k \in ItemsOf(n), NEW z \in Int
  PROVE  k % BlockSize \in (i % BlockSize)..((i % BlockSize) + z - 1) <=> k \in i..(i + z - 1)
<1>1. BlockSize \in Nat \ {0} /\ i \in Int /\ k \in Int /\ i \div BlockSize = n /\ k \div BlockSize = n
  BY ItemsIs, ItemOfBlock, Sizes
<1>2. PICK r \in Int, s \in Int, u \in Int :
        /\ r = i % BlockSize /\ s = k % BlockSize /\ u = BlockSize * n
        /\ i = u + r /\ k = u + s
  <2>1. \A x \in Int : x = BlockSize * (x \div BlockSize) + (x % BlockSize) /\ x % BlockSize \in Int
    <3>1. \A x \in 0..(BlockSize - 1) : x \in Int
      BY <1>1
    <3> QED BY <1>1, <3>1, Divides
  <2>2. BlockSize * n \in Int
    BY ItemsIs
  <2> QED BY <1>1, <2>1, <2>2
<1>3. s \in r..(r + z - 1) <=> k \in i..(i + z - 1)
  BY <1>1, <1>2
<1> QED BY <1>2, <1>3

LEMMA MoveOutReads ==
  ASSUME NEW d, NEW a, NEW f, NEW holds, LiveInv(d, a, f, holds), NEW c \in Consumers, MoveOut(c),
         OnlyLooks, Contents
  PROVE  Contents'
<1>1. ClaimInv /\ Kept(holds) /\ Looks(d, holds, c) /\ load \in Loads
  BY TailIs DEF LiveInv
<1>2. dqAt[c] = "move out" /\ dqAt[c] \in Holding /\ DqGoto(c, "set empty", dq[c])
  BY DEF MoveOut, Holding
<1>3. /\ dqAt'[c] = "set empty" /\ dq'[c] = dq[c] /\ OthersStay(c) /\ ConsumerOnly /\ headIndex' = headIndex
      /\ UNCHANGED <<load, idxEntries>>
  BY <1>1, <1>2, GotoIs DEF OnlyLooks, ConsumerOnly, counterVars
<1>4. PICK n \in Int, b \in Blocks : /\ n = Number(c) /\ b = dq[c].block /\ n \in DOMAIN holds /\ holds[n] = b
                                     /\ dq[c].index \in 0..(IndexMod - 1)
  <2>1. /\ Number(c) \in DOMAIN holds /\ Number(c) \in Int /\ holds[Number(c)] \in Blocks
        /\ dq[c].index \in 0..(IndexMod - 1)
    BY <1>2, FoundIs
  <2>2. dq[c].block = holds[Number(c)]
    BY <1>1, <1>2 DEF Looks
  <2> QED BY <2>1, <2>2
<1>5. PICK i \in Int, j \in Int, y \in Int, z \in Int :
        /\ i = First(c) /\ j = Stop(c) /\ y = Beyond(c) /\ z = SegmentSize(c) /\ z = j - i
        /\ i < j /\ j <= y
  <2>1. /\ First(c) \in Int /\ Stop(c) \in Int /\ Beyond(c) \in Int
        /\ First(c) < Stop(c) /\ Stop(c) <= Beyond(c) /\ SegmentSize(c) = Stop(c) - First(c)
    BY <1>1, <1>2, SegmentOfBlock
  <2>2. SegmentSize(c) \in Int
    BY <2>1
  <2> QED BY <2>1, <2>2
<1>6. i \in ItemsOf(n) /\ BlockOffset(dq[c].index) = i % BlockSize
  <2>1. First(c) \in First(c)..(Stop(c) - 1)
    BY <1>5
  <2>2. First(c) \in ItemsOf(Number(c))
    BY <1>1, <1>2, <2>1, SegmentOfBlock
  <2>3. BlockOffset(dq[c].index) = Item(dq[c].index) % BlockSize
    BY <1>1, <1>4, BlockOfIndex
  <2> QED BY <1>4, <1>5, <2>2, <2>3 DEF First
<1>7. SegmentOffsets(c) = (i % BlockSize)..((i % BlockSize) + z - 1)
  BY <1>5, <1>6 DEF SegmentOffsets
<1>8. PICK S : elements \in [Blocks -> [0..(BlockSize - 1) -> S]]
  BY DEF Contents, ElementsShape
<1>9. /\ elements' \in [Blocks -> [0..(BlockSize - 1) -> S \union {Destructed}]]
      /\ \A x \in Blocks : x # b => elements'[x] = elements[x]
      /\ \A o \in 0..(BlockSize - 1) : o \notin SegmentOffsets(c) => elements'[b][o] = elements[b][o]
  <2>1. elements' = [elements EXCEPT ![b] =
          [o \in DOMAIN elements[b] |-> IF o \in SegmentOffsets(c) THEN Destructed ELSE elements[b][o]]]
    BY <1>4 DEF MoveOut
  <2>2. DOMAIN elements[b] = 0..(BlockSize - 1)
    BY <1>4, <1>8
  <2> HIDE DEF Contents
  <2> QED BY <1>4, <1>8, <2>1, <2>2
<1>10. n \in Numbers
  <2>1. i \in 0..(IndexMod - 1)
    BY <1>1, <1>4, <1>5, IndexOfItem DEF First
  <2>2. 0 <= i /\ i < IndexMod
    BY <1>5, <2>1, Sizes
  <2> QED BY <1>6, <2>2, NumberIs
<1>11. /\ ToRead(c) = i..(y - 1) /\ ToRead(c)' = j..(y - 1) /\ Pending(c) = i..(y - 1)
       /\ y <= Item(headIndex) /\ Item(headIndex) \in Int /\ Item(headIndex)' = Item(headIndex)
  <2>1. ToRead(c)' = Stop(c)'..(Beyond(c)' - 1)
    BY <1>3 DEF ToRead
  <2>2. Stop(c)' = Stop(c) /\ Beyond(c)' = Beyond(c) /\ Item(headIndex)' = Item(headIndex)
    BY <1>3 DEF Stop, Beyond, First, Number, Item, startIndex
  <2>3. Pending(c) = i..(y - 1) /\ ToRead(c) = Pending(c)
    BY <1>2, <1>5 DEF Pending, ToRead
  <2>4. y <= Item(headIndex) /\ Item(headIndex) \in Int
    BY <1>1, <1>2, <1>5, TailIs DEF ClaimInv, Ranged
  <2> QED BY <1>5, <2>1, <2>2, <2>3, <2>4
<1>12. \A k \in Int : Unread(k)' => Unread(k)
  <2>1. \A k \in Int : k \in ToRead(c)' => k \in ToRead(c)
    BY <1>5, <1>11
  <2>2. Item(headIndex)' \in Int /\ Item(headIndex) <= Item(headIndex)'
    BY <1>11
  <2> QED BY <1>1, <1>3, <2>1, <2>2, LessToRead
<1>13. ASSUME NEW k \in Int, Unread(k)' PROVE k \notin i..(j - 1)
  <2>1. SUFFICES ASSUME k \in i..(j - 1) PROVE FALSE
    OBVIOUS
  <2>2. k < Item(headIndex) /\ k \in Pending(c) /\ k \notin ToRead(c)'
    BY <1>5, <1>11, <2>1
  <2>3. PICK e \in Consumers : k \in ToRead(e)'
    BY <1>11, <1>13, <2>2 DEF Unread
  <2>4. e # c
    BY <2>2, <2>3
  <2>5. ToRead(e)' = ToRead(e)
    BY <1>3, <2>4, OthersSame DEF ToRead
  <2>6. k \in Pending(e)
    <3>1. CASE dqAt[e] = "set empty"
      <4>1. dqAt[e] \in Holding
        BY <3>1 DEF Holding
      <4>2. Pending(e) = First(e)..(Beyond(e) - 1) /\ k \in Stop(e)..(Beyond(e) - 1)
        BY <2>3, <2>5, <3>1, <4>1 DEF Pending, ToRead
      <4>3. First(e) \in Int /\ Stop(e) \in Int /\ Beyond(e) \in Int /\ First(e) < Stop(e)
        BY <1>1, <4>1, SegmentOfBlock
      <4> QED BY <4>2, <4>3
    <3>2. CASE dqAt[e] # "set empty"
      BY <2>3, <2>5, <3>2 DEF ToRead
    <3> QED BY <3>1, <3>2
  <2> QED BY <1>1, <2>2, <2>4, <2>6 DEF ClaimInv
<1>14. ASSUME NEW m \in Numbers, NEW x \in Blocks, InEntry(x, m)', NEW k \in ItemsOf(m), Unread(k)'
       PROVE  elements'[x][k % BlockSize] = k
  <2>1. m \in Int /\ k \in Int
    BY ItemsIs DEF Numbers
  <2>2. InEntry(x, m) /\ elements[x][k % BlockSize] = k
    BY <1>3, <1>12, <1>14, <2>1, EntriesStay DEF Contents
  <2>3. CASE x # b
    BY <1>9, <2>2, <2>3
  <2>4. CASE x = b
    <3>1. PICK p \in DOMAIN holds : holds[p] = b /\ (p \in Numbers => p = m)
      BY <2>2, <2>4, EntryIs
    <3>2. n = m
      BY <1>1, <1>4, <1>10, <3>1 DEF Kept
    <3>3. k \notin i..(i + z - 1)
      <4>1. i + z = j
        BY <1>5
      <4> QED BY <1>13, <1>14, <2>1, <4>1
    <3>4. k % BlockSize \notin SegmentOffsets(c)
      BY <1>5, <1>6, <1>7, <3>2, <3>3, PartOfBlock
    <3>5. k % BlockSize \in 0..(BlockSize - 1)
      BY <2>1, Sizes, Divides
    <3> QED BY <1>9, <2>2, <2>4, <3>4, <3>5
  <2> QED BY <2>3, <2>4
<1>15. Numbers' = Numbers /\ \A m : ItemsOf(m)' = ItemsOf(m)
  BY DEF Numbers, ItemsOf, RangeOfBases
<1> QED BY <1>9, <1>14, <1>15 DEF Contents, ElementsShape

LEMMA ConsumerReads ==
  ASSUME NEW d, NEW a, NEW f, NEW holds, LiveInv(d, a, f, holds), ClaimsCovered, NEW c \in Consumers,
         ConsumerStep(c), Contents
  PROVE  Contents'
<1>1. UNCHANGED <<idxHeaders, enqAt, enq>>
  BY DEF ConsumerStep
<1>2. CASE Claims(c) /\ UNCHANGED idxEntries
  BY <1>1, <1>2, ClaimsReads
<1>3. CASE MoveOut(c) /\ UNCHANGED idxEntries
  <2>1. OnlyLooks
    BY <1>1, <1>3 DEF MoveOut, OnlyLooks
  <2> QED BY <1>3, <2>1, MoveOutReads
<1>4. CASE Dequeues(c)
  <2>1. UNCHANGED <<counterVars, tailBlock, elements, isExplicit, destroyed, load>>
    BY <1>4 DEF Dequeues
  <2>2. CountersStay
    BY <1>1, <2>1 DEF CountersStay, ConsumerOnly, counterVars
  <2>3. CASE /\ LoadBlockIndex(c) \/ LoadIndexTail(c) \/ LoadTailBase(c) \/ LoadBlock(c)
             /\ UNCHANGED <<emptied, freed, idxEntries>>
    <3>1. OnlyLooks
      BY <1>1, <2>1, <2>3 DEF OnlyLooks
    <3> QED BY <2>1, <2>3, <3>1, LookingReads
  <2>4. CASE SetManyEmpty(c) \/ ClearEntry(c) \/ AddBlockToFreeList(c)
    BY <2>1, <2>2, <2>4, LeavingReads
  <2> QED BY <1>4, <2>3, <2>4 DEF Dequeues
<1> QED BY <1>2, <1>3, <1>4 DEF ConsumerStep


-----------------------------------------------------------------------------
(* Any step, and the first state.                                           *)
ReadingInv == ImplicitInv /\ (destroyed \/ Contents)

LEMMA InitReads ==
  ASSUME ImplicitInit
  PROVE  ReadingInv
<1>1. ImplicitInv
  BY InitLives DEF ImplicitInv
<1>2. ElementsShape
  <2>1. elements \in [Blocks -> [0..(BlockSize - 1) -> {Destructed}]]
    BY DEF ImplicitInit, BaseInit
  <2> QED BY <2>1 DEF ElementsShape
<1>3. \A b \in Blocks : \A n : ~InEntry(b, n)
  <2>1. \A e \in 1..InitialIndexSize : idxEntries[e].value \in {Uninitialized, NoBlock}
    BY DEF ImplicitInit, IndexInit
  <2>2. Len(idxEntries) = InitialIndexSize
    BY ImplicitConstants DEF ImplicitInit, IndexInit
  <2>3. NoBlock \notin Blocks /\ Uninitialized \notin Blocks
    BY ProducerConstants, ImplicitConstants
  <2> QED BY <2>1, <2>2, <2>3 DEF InEntry
<1> QED BY <1>1, <1>2, <1>3 DEF Contents, ReadingInv

(* Nothing happens after the destructor.                                    *)
LEMMA GoneStays ==
  ASSUME ImplicitInv, destroyed, ImplicitNext
  PROVE  FALSE
<1>1. enqAt = "idle"
  BY DEF ImplicitInv, LiveInv, Gone, AtRest
<1>2. ~EnqueueStep
  BY <1>1 DEF EnqueueStep, CheckHead, InsertEntry, StoreIndexTail, NewBlockIndex, NoBlockIndex,
              RequisitionBlock, NoBlockAvailable, StoreValue, RewindTail, NullValue, UndoValue,
              FreeBlocks, Fill, PublishTail
<1>3. \A count : ~EnqueueBulk(count)
  BY DEF EnqueueBulk
<1>4. ~Destroy /\ \A c : ~ConsumerStep(c)
  BY DEF Destroy, ConsumerStep
<1> QED BY <1>2, <1>3, <1>4 DEF ImplicitNext

LEMMA ReadingSteps ==
  ASSUME ReadingInv, ClaimsCovered, [ImplicitNext]_implicitVars
  PROVE  ReadingInv'
<1>1. ImplicitInv /\ ImplicitInv'
  BY ImplicitSteps DEF ReadingInv
<1>2. CASE UNCHANGED implicitVars
  <2>1. destroyed' = destroyed /\ (Contents' <=> Contents)
    BY <1>2 DEF implicitVars, baseVars, counterVars, indexVars, Contents, ElementsShape, Numbers,
                RangeOfBases, ItemsOf, InEntry, BaseOf, Wrap, Unread, Constructed, ToRead, Pending,
                Stop, Beyond, First, Number, Item, startIndex
  <2> QED BY <1>1, <2>1 DEF ReadingInv
<1>3. CASE ImplicitNext
  <2>1. CASE destroyed
    BY <1>1, <1>3, <2>1, GoneStays
  <2>2. CASE ~destroyed
    <3>1. PICK d, a, f, holds : LiveInv(d, a, f, holds)
      BY <1>1, <2>2 DEF ImplicitInv, Gone
    <3>2. Contents
      BY <2>2 DEF ReadingInv
    <3>3. CASE \E count \in load.bulk : EnqueueBulk(count)
      BY <1>1, <3>1, <3>2, <3>3, EnqueueBulkReads DEF ReadingInv
    <3>4. CASE EnqueueStep
      BY <1>1, <3>1, <3>2, <3>4, EnqueueReads DEF ReadingInv
    <3>5. CASE \E c \in Consumers : ConsumerStep(c)
      BY <1>1, <3>1, <3>2, <3>5, ConsumerReads DEF ReadingInv
    <3>6. CASE Destroy
      BY <1>1, <3>6 DEF ReadingInv, Destroy
    <3> QED BY <1>3, <3>3, <3>4, <3>5, <3>6 DEF ImplicitNext
  <2> QED BY <2>1, <2>2
<1> QED BY <1>2, <1>3

(* The element at an index that a consumer has taken.                       *)
InSegment(c, j) == j \in 0..(SegmentSize(c) - 1)
AtMoveOut(c) == dqAt[c] = "move out"

LEMMA TakenIsThere ==
  ASSUME NEW d, NEW a, NEW f, NEW holds, LiveInv(d, a, f, holds), Contents, NEW c \in Consumers,
         AtMoveOut(c), NEW j, InSegment(c, j)
  PROVE  elements[dq[c].block][BlockOffset(dq[c].index + j)] = Item(dq[c].index + j)
<1>1. ClaimInv /\ Looks(d, holds, c) /\ load \in Loads /\ CallTypes
  BY TailIs DEF LiveInv, Calls
<1>2. dqAt[c] \in Holding
  BY DEF Holding, AtMoveOut
<1>3. PICK n \in Int, b \in Blocks : /\ n = Number(c) /\ b = dq[c].block /\ n \in DOMAIN holds /\ holds[n] = b
                                     /\ dq[c].index \in 0..(IndexMod - 1)
  <2>1. /\ Number(c) \in DOMAIN holds /\ Number(c) \in Int /\ holds[Number(c)] \in Blocks
        /\ dq[c].index \in 0..(IndexMod - 1)
    BY <1>1, FoundIs DEF AtMoveOut
  <2>2. dq[c].block = holds[Number(c)]
    BY <1>1, <1>2 DEF Looks, AtMoveOut
  <2> QED BY <2>1, <2>2
<1>4. PICK i \in Int, s \in Int, y \in Int : i = First(c) /\ s = Stop(c) /\ y = Beyond(c) /\ i < s /\ s <= y
                                             /\ SegmentSize(c) = s - i
  <2>1. /\ First(c) \in Int /\ Stop(c) \in Int /\ Beyond(c) \in Int
        /\ First(c) < Stop(c) /\ Stop(c) <= Beyond(c) /\ SegmentSize(c) = Stop(c) - First(c)
    BY <1>1, <1>2, SegmentOfBlock
  <2> QED BY <2>1
<1>5. PICK k \in Int : k = i + j /\ k \in i..(s - 1) /\ j \in Nat
  BY <1>4 DEF InSegment
<1>6. k \in ItemsOf(n)
  BY <1>1, <1>2, <1>3, <1>4, <1>5, SegmentOfBlock
<1>7. PICK H \in Int, T \in Int, M \in Int :
        H = Item(headIndex) /\ T = Item(tailIndex) /\ M = IndexMod /\ y <= H /\ H <= T /\ T < M
  <2>1. Beyond(c) <= Item(headIndex)
    BY <1>1, <1>2 DEF ClaimInv, Ranged
  <2>2. IndexMod \in Int
    BY Sizes
  <2> QED BY <1>1, <1>4, <2>1, <2>2, TailIs
<1>8. k < H /\ k < T /\ k < M /\ i <= k
  BY <1>4, <1>5, <1>7
<1>9. 0 <= k
  <2>1. i \in 0..(IndexMod - 1)
    BY <1>1, <1>3, <1>4, IndexOfItem DEF First
  <2> QED BY <1>7, <1>8, <2>1
<1>10. BlockOffset(dq[c].index + j) = k % BlockSize /\ Item(dq[c].index + j) = k
  BY <1>1, <1>3, <1>4, <1>5, <1>7, <1>8, IndexPlus DEF First
<1>11. Unread(k)
  <2>1. k \in ToRead(c)
    <3>1. ToRead(c) = First(c)..(Beyond(c) - 1)
      BY <1>2 DEF ToRead, Pending, AtMoveOut
    <3> QED BY <1>4, <1>5, <3>1
  <2>2. k < Constructed
    <3>1. PICK C \in Nat : C = IF enqAt = "publish" THEN enq.count ELSE 0
      BY <1>1, CallCounts
    <3>2. Constructed = T + C
      BY <1>7, <3>1 DEF Constructed
    <3> QED BY <1>7, <1>8, <3>1, <3>2
  <2> QED BY <2>1, <2>2 DEF Unread
<1>12. n \in Numbers
  BY <1>6, <1>7, <1>8, <1>9, NumberIs
<1>13. InEntry(b, n)
  BY <1>3, HeldInEntry
<1> QED BY <1>3, <1>6, <1>10, <1>11, <1>12, <1>13 DEF Contents

LEMMA ReadFromInv ==
  ASSUME ReadingInv, ClaimsCovered
  PROVE  ReadsWhatWasEnqueued
<1> SUFFICES ASSUME NEW c \in Consumers, dqAt[c] = "move out"
             PROVE  /\ dq[c].block \in Blocks /\ freed[dq[c].block] = 0
                    /\ \A j \in 0..(SegmentSize(c) - 1) :
                         elements[dq[c].block][BlockOffset(dq[c].index + j)] = Item(dq[c].index + j)
  BY DEF ReadsWhatWasEnqueued
<1>1. PICK d, a, f, holds : LiveInv(d, a, f, holds)
  BY DEF ReadingInv, ImplicitInv, Gone, AtRest
<1>2. Contents /\ Places(holds) /\ Looks(d, holds, c)
  BY <1>1 DEF ReadingInv, LiveInv
<1>3. /\ Number(c) \in DOMAIN holds /\ holds[Number(c)] \in Blocks /\ dq[c].block = holds[Number(c)]
  BY <1>1, <1>2, FoundIs DEF Looks
<1>4. freed[dq[c].block] = 0
  BY <1>2, <1>3 DEF Places, Used, InIndex
<1>5. AtMoveOut(c)
  BY DEF AtMoveOut
<1>6. ASSUME NEW j \in 0..(SegmentSize(c) - 1)
      PROVE  elements[dq[c].block][BlockOffset(dq[c].index + j)] = Item(dq[c].index + j)
  <2>1. InSegment(c, j)
    BY DEF InSegment
  <2> QED BY <1>1, <1>2, <1>5, <2>1, TakenIsThere
<1> QED BY <1>3, <1>4, <1>6

(* Consumers read what was enqueued: the element one is about to move out   *)
(* is the one enqueued at the index it claimed, in a block that nobody else *)
(* has: as long as nobody takes more than is there.                         *)
THEOREM EveryElementRead == ImplicitSpec /\ []ClaimsCovered => []ReadsWhatWasEnqueued
<1>1. ImplicitInit => ReadingInv
  BY InitReads
<1>2. ReadingInv /\ ClaimsCovered /\ [ImplicitNext]_implicitVars => ReadingInv'
  BY ReadingSteps
<1>3. ReadingInv /\ ClaimsCovered => ReadsWhatWasEnqueued
  BY ReadFromInv
<1> QED BY <1>1, <1>2, <1>3, PTL DEF ImplicitSpec
=============================================================================

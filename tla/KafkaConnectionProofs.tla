----------------------- MODULE KafkaConnectionProofs -----------------------
(* No request is lost or reported twice by the connection to the broker,    *)
(* and no two reads share the socket, for any number of requests and any    *)
(* faults; and while nothing fails every request is given its own response. *)
(* Each member function has a lemma that says what it does to the places    *)
(* and the order of the requests; the steps of io_service put them together.*)
EXTENDS KafkaConnection, NumberProofs, SequenceTheorems

(* The states of the connection: the record `c` of KafkaConnection.         *)
ConnState ==
  [state : {"closed", "connecting", "connected"},
   write_state : {"idle", "busy"}, read_state : {"idle", "busy"},
   write_queue : Seq(Requests), read_queue : Seq(Requests),
   deadline : [Timers -> {"off", "armed", "expired"}], open : BOOLEAN,
   resolving : Seq(ResolveOperation), reading : Seq(ReadOperation),
   writing : Seq(WriteOperation), unanswered : Seq(Requests),
   ready : Seq(Handler)]

(* A read that is under way, or whose success io_service has still to       *)
(* report: while there is one, no other read may start.                     *)
LiveReads == {h \in Handler : h.h \in {"SizeRead", "Read"} /\ h.res = "ok"}
Live(s) == Len(s.reading) + Occurrences(s.ready, LiveReads)

(* The handler of a timer is in io_service's queue.                         *)
Calls(s, t) == \E i \in 1 .. Len(s.ready) : s.ready[i].h = t

(* What a member function never does to the timers: it takes no handler of  *)
(* theirs out of the queue, and none expires under it.                      *)
Later(s, t) ==
  \A u \in Timers : /\ Calls(s, u) => Calls(t, u)
                    /\ t.deadline[u] = "expired" => s.deadline[u] = "expired"

(* What one that starts no read leaves alone: the read that may be under    *)
(* way keeps its place and its deadline, unless the socket is closed.       *)
ReadsKept(s, t) ==
  /\ t.read_state = s.read_state /\ Live(t) =< Live(s)
  /\ t.reading # <<>> =>
       s.reading # <<>> /\ t.deadline["read_deadline"] = s.deadline["read_deadline"]

(* 1 for the request that is handled, 0 for every other.                    *)
One(r, a) == IF r = a THEN 1 ELSE 0

(* From s to t, request `a` has gained a place (none has if `a` is None)    *)
(* and all the others have as many as before: they may have changed queues. *)
Moved(s, t, a) == \A r \in Requests : PlacesOf(t, r) = PlacesOf(s, r) + One(r, a)

(* What a member function that starts no read does to the connection.       *)
Keeps(s, t, a) == t \in ConnState /\ Later(s, t) /\ ReadsKept(s, t) /\ Moved(s, t, a)

-----------------------------------------------------------------------------
(* Places and queues.                                                       *)

(* The queues that Close and HandleAsyncAutoConnect leave behind.           *)
LEMMA EmptyQueues ==
  /\ <<>> \in Seq(ResolveOperation) /\ <<>> \in Seq(ReadOperation)
  /\ <<>> \in Seq(WriteOperation) /\ <<>> \in Seq(Requests)
OBVIOUS

(* One(r, a) is a number of places.                                         *)
LEMMA OneType ==
  ASSUME NEW r \in Requests, NEW a
  PROVE  One(r, a) \in Nat /\ (r # a => One(r, a) = 0)
BY DEF One

(* Handlers of connecting and of the timers belong to no request.           *)
LEMMA OneNone ==
  ASSUME NEW r \in Requests
  PROVE  One(r, None) = 0
BY KafkaConstants DEF One, None, Requests

(* Live(s) is a number.                                                     *)
LEMMA LiveType ==
  ASSUME NEW s \in ConnState
  PROVE  Live(s) \in Nat
<1>1. s.ready \in Seq(Handler) /\ s.reading \in Seq(ReadOperation)
  BY DEF ConnState
<1>2. Occurrences(s.ready, LiveReads) \in Nat
  BY <1>1, PlacesFinite
<1> QED  BY <1>1, <1>2 DEF Live

(* A request is in a finite number of places.                               *)
LEMMA PlacesOfType ==
  ASSUME NEW s \in ConnState, NEW r \in Requests
  PROVE  /\ PlacesOf(s, r) \in Nat /\ Live(s) \in Nat
         /\ Occurrences(s.ready, HandlersOf(r)) \in Nat
         /\ Occurrences(s.reading, OperationsOf(r)) \in Nat
         /\ Occurrences(s.writing, OperationsOf(r)) \in Nat
         /\ Occurrences(s.write_queue, {r}) \in Nat
         /\ Occurrences(s.read_queue, {r}) \in Nat
         /\ Occurrences(s.ready, LiveReads) \in Nat
<1>1. /\ s.ready \in Seq(Handler) /\ s.reading \in Seq(ReadOperation)
      /\ s.writing \in Seq(WriteOperation) /\ s.write_queue \in Seq(Requests)
      /\ s.read_queue \in Seq(Requests) /\ Len(s.reading) \in Nat
  BY DEF ConnState
<1>2. /\ Occurrences(s.ready, HandlersOf(r)) \in Nat
      /\ Occurrences(s.reading, OperationsOf(r)) \in Nat
      /\ Occurrences(s.writing, OperationsOf(r)) \in Nat
      /\ Occurrences(s.write_queue, {r}) \in Nat
      /\ Occurrences(s.read_queue, {r}) \in Nat
      /\ Occurrences(s.ready, LiveReads) \in Nat
  BY <1>1, PlacesFinite
<1>3. Len(s.reading) \in Nat
  BY <1>1
<1>4. PlacesOf(s, r) \in Nat
  BY <1>2 DEF PlacesOf
<1>5. Live(s) \in Nat
  BY <1>2, <1>3 DEF Live
<1> QED  BY <1>2, <1>4, <1>5

(* Calling one member function after the other: at most one of them is for  *)
(* a request.                                                               *)
LEMMA Compose ==
  ASSUME NEW s \in ConnState, NEW t, NEW u, NEW a, NEW b,
         Keeps(s, t, a), Keeps(t, u, b), a = None \/ b = None
  PROVE  Keeps(s, u, IF a = None THEN b ELSE a)
<1>1. /\ t \in ConnState /\ u \in ConnState
      /\ Later(s, t) /\ Later(t, u) /\ ReadsKept(s, t) /\ ReadsKept(t, u)
      /\ Moved(s, t, a) /\ Moved(t, u, b)
  BY DEF Keeps
<1>2. Later(s, u)
  BY <1>1 DEF Later
<1>3. ReadsKept(s, u)
  <2>1. Live(s) \in Nat /\ Live(t) \in Nat /\ Live(u) \in Nat
    BY <1>1, LiveType
  <2> QED  BY <1>1, <2>1 DEF ReadsKept
<1>4. Moved(s, u, IF a = None THEN b ELSE a)
  <2> SUFFICES ASSUME NEW r \in Requests
               PROVE  PlacesOf(u, r) = PlacesOf(s, r) + One(r, IF a = None THEN b ELSE a)
    BY DEF Moved
  <2>1. /\ PlacesOf(t, r) = PlacesOf(s, r) + One(r, a)
        /\ PlacesOf(u, r) = PlacesOf(t, r) + One(r, b)
    BY <1>1 DEF Moved
  <2>2. /\ One(r, a) \in Nat /\ One(r, b) \in Nat /\ One(r, None) = 0
        /\ PlacesOf(s, r) \in Nat
    BY OneType, OneNone, PlacesOfType
  <2>3. CASE a = None
    BY <2>1, <2>2, <2>3
  <2>4. CASE a # None /\ b = None
    BY <2>1, <2>2, <2>4
  <2> QED  BY <2>3, <2>4
<1> QED  BY <1>1, <1>2, <1>3, <1>4 DEF Keeps

(* An early return changes nothing.                                         *)
LEMMA KeepsItself ==
  ASSUME NEW s \in ConnState
  PROVE  Keeps(s, s, None)
<1>1. Live(s) \in Nat
  BY LiveType
<1>2. ASSUME NEW r \in Requests PROVE PlacesOf(s, r) = PlacesOf(s, r) + One(r, None)
  <2>1. PlacesOf(s, r) \in Nat
    BY PlacesOfType
  <2>2. One(r, None) = 0
    BY OneNone
  <2> QED  BY <2>1, <2>2
<1> QED  BY <1>1, <1>2 DEF Keeps, Later, ReadsKept, Moved

(* io_service::post puts a handler into one more place, that of its         *)
(* request.                                                                 *)
LEMMA PostEffect ==
  ASSUME NEW s \in ConnState, NEW h \in Handler
  PROVE  /\ Post(s, h) \in ConnState
         /\ Later(s, Post(s, h))
         /\ Moved(s, Post(s, h), h.arg)
         /\ h \in LiveReads => Live(Post(s, h)) = Live(s) + 1
         /\ h \notin LiveReads => Keeps(s, Post(s, h), h.arg)
<1> DEFINE t == Post(s, h)
<1>0. s.ready \in Seq(Handler) /\ Append(s.ready, h) \in Seq(Handler)
  BY DEF ConnState
<1>1. /\ t \in ConnState
      /\ t.ready = Append(s.ready, h)
      /\ t.deadline = s.deadline /\ t.reading = s.reading /\ t.writing = s.writing
      /\ t.write_queue = s.write_queue /\ t.read_queue = s.read_queue
      /\ t.read_state = s.read_state /\ s.ready \in Seq(Handler)
  BY <1>0 DEF Post, ConnState
<1> HIDE DEF t
<1>2. Later(s, t)
  BY <1>1 DEF Later, Calls
<1>3. Moved(s, t, h.arg)
  <2> SUFFICES ASSUME NEW r \in Requests
               PROVE  PlacesOf(t, r) = PlacesOf(s, r) + One(r, h.arg)
    BY DEF Moved
  <2>1. Occurrences(t.ready, HandlersOf(r)) = Occurrences(s.ready, HandlersOf(r)) + One(r, h.arg)
    <3>1. CASE h.arg = r
      <4>1. h \in HandlersOf(r) /\ One(r, h.arg) = 1
        BY <3>1 DEF HandlersOf, One
      <4> QED  BY <4>1, <1>1, OccAppend
    <3>2. CASE h.arg # r
      <4>1. h \notin HandlersOf(r) /\ One(r, h.arg) = 0
        BY <3>2 DEF HandlersOf, One
      <4>2. Occurrences(s.ready, HandlersOf(r)) \in Nat
        BY PlacesOfType
      <4>3. Occurrences(t.ready, HandlersOf(r)) = Occurrences(s.ready, HandlersOf(r))
        BY <4>1, <1>1, OccAppend
      <4> QED  BY <4>1, <4>2, <4>3
    <3> QED  BY <3>1, <3>2
  <2>2. One(r, h.arg) \in Nat
    BY OneType
  <2>3. /\ Occurrences(s.ready, HandlersOf(r)) \in Nat
        /\ Occurrences(s.reading, OperationsOf(r)) \in Nat
        /\ Occurrences(s.writing, OperationsOf(r)) \in Nat
        /\ Occurrences(s.write_queue, {r}) \in Nat
        /\ Occurrences(s.read_queue, {r}) \in Nat
    BY PlacesOfType
  <2> QED  BY <2>1, <2>2, <2>3, <1>1 DEF PlacesOf
<1>4. /\ h \in LiveReads => Live(t) = Live(s) + 1
      /\ h \notin LiveReads => Live(t) = Live(s)
  <2>1. /\ h \in LiveReads => Occurrences(t.ready, LiveReads) = Occurrences(s.ready, LiveReads) + 1
        /\ h \notin LiveReads => Occurrences(t.ready, LiveReads) = Occurrences(s.ready, LiveReads)
    BY <1>1, OccAppend
  <2>2. Occurrences(s.ready, LiveReads) \in Nat /\ Len(s.reading) \in Nat
    <3>1. s.ready \in Seq(Handler) /\ Len(s.reading) \in Nat
      BY <1>1 DEF ConnState
    <3> QED  BY <3>1, PlacesFinite
  <2> QED  BY <1>1, <2>1, <2>2 DEF Live
<1>5. Live(s) \in Nat
  BY LiveType
<1>6. h \notin LiveReads => ReadsKept(s, t)
  BY <1>1, <1>4, <1>5 DEF ReadsKept
<1>7. /\ t \in ConnState /\ Later(s, t) /\ Moved(s, t, h.arg)
      /\ h \in LiveReads => Live(t) = Live(s) + 1
      /\ h \notin LiveReads => Keeps(s, t, h.arg)
  BY <1>1, <1>2, <1>3, <1>4, <1>6 DEF Keeps
<1> QED  BY <1>7 DEF t

(* Handlers that report no successful read.                                 *)
Quiet == {h \in Handler : h \notin LiveReads}

(* Posting several handlers, none of a successful read, adds the places of  *)
(* their requests.                                                          *)
LEMMA PostAllEffect ==
  ASSUME NEW s \in ConnState, NEW hs \in Seq(Quiet)
  PROVE  LET t == PostAll(s, hs) IN
         /\ t \in ConnState /\ t.ready = s.ready \o hs
         /\ Later(s, t) /\ ReadsKept(s, t) /\ Live(t) = Live(s)
         /\ \A r \in Requests : PlacesOf(t, r) = PlacesOf(s, r) + Occurrences(hs, HandlersOf(r))
<1> DEFINE t == PostAll(s, hs)
<1>0. s.ready \in Seq(Handler) /\ hs \in Seq(Handler) /\ s.ready \o hs \in Seq(Handler)
  <2>1. Quiet \subseteq Handler
    BY DEF Quiet
  <2>2. s.ready \in Seq(Handler)
    BY DEF ConnState
  <2>3. hs \in Seq(Handler)
    BY <2>1, SeqMonotonic
  <2> QED  BY <2>2, <2>3
<1>1. /\ t \in ConnState
      /\ t.ready = s.ready \o hs
      /\ t.deadline = s.deadline /\ t.reading = s.reading /\ t.writing = s.writing
      /\ t.write_queue = s.write_queue /\ t.read_queue = s.read_queue
      /\ t.read_state = s.read_state
  BY <1>0 DEF PostAll, ConnState
<1> HIDE DEF t
<1>2. Later(s, t)
  BY <1>0, <1>1 DEF Later, Calls
<1>3. Live(t) = Live(s) /\ Live(s) \in Nat
  <2>1. Occurrences(t.ready, LiveReads) = Occurrences(s.ready, LiveReads) + Occurrences(hs, LiveReads)
    BY <1>0, <1>1, OccConcat
  <2>2. Occurrences(hs, LiveReads) = 0
    <3>1. Positions(hs, LiveReads) = {}
      BY DEF Positions, Quiet
    <3> QED  BY <3>1, FS_EmptySet DEF Occurrences
  <2>3. Occurrences(s.ready, LiveReads) \in Nat
    BY <1>0, PlacesFinite
  <2> QED  BY <1>1, <2>1, <2>2, <2>3, LiveType DEF Live
<1>4. ReadsKept(s, t)
  BY <1>1, <1>3 DEF ReadsKept
<1>5. ASSUME NEW r \in Requests
      PROVE  PlacesOf(t, r) = PlacesOf(s, r) + Occurrences(hs, HandlersOf(r))
  <2>1. Occurrences(t.ready, HandlersOf(r)) = Occurrences(s.ready, HandlersOf(r)) + Occurrences(hs, HandlersOf(r))
    BY <1>0, <1>1, OccConcat
  <2>2. Occurrences(hs, HandlersOf(r)) \in Nat
    BY <1>0, PlacesFinite
  <2>3. /\ Occurrences(s.ready, HandlersOf(r)) \in Nat
        /\ Occurrences(s.reading, OperationsOf(r)) \in Nat
        /\ Occurrences(s.writing, OperationsOf(r)) \in Nat
        /\ Occurrences(s.write_queue, {r}) \in Nat
        /\ Occurrences(s.read_queue, {r}) \in Nat
    BY PlacesOfType
  <2> QED  BY <2>1, <2>2, <2>3, <1>1 DEF PlacesOf
<1> QED  BY <1>1, <1>2, <1>3, <1>4, <1>5 DEF t

(* The handlers of cancelled operations are for the requests of the         *)
(* operations, in their order.                                              *)
LEMMA AbortedHandlers ==
  ASSUME NEW ops \in Seq(ReadOperation \cup WriteOperation \cup ResolveOperation)
  PROVE  /\ Aborted(ops) \in Seq(Quiet)
         /\ \A r \in Requests : Occurrences(Aborted(ops), HandlersOf(r))
                                  = Occurrences(ops, OperationsOf(r))
<1>1. ASSUME NEW o \in ReadOperation \cup WriteOperation \cup ResolveOperation
      PROVE  /\ H(o.op, o.arg, "aborted") \in Quiet
             /\ H(o.op, o.arg, "aborted").arg = o.arg
  BY DEF ReadOperation, WriteOperation, ResolveOperation, H, Quiet, Handler, Outcomes, LiveReads
<1>2. /\ Len(ops) \in Nat
      /\ \A i \in 1 .. Len(ops) : ops[i] \in ReadOperation \cup WriteOperation \cup ResolveOperation
  OBVIOUS
<1>3. /\ Len(Aborted(ops)) = Len(ops)
      /\ \A i \in 1 .. Len(ops) : Aborted(ops)[i] \in Quiet /\ Aborted(ops)[i].arg = ops[i].arg
  BY <1>1, <1>2 DEF Aborted
<1>4. Aborted(ops) \in Seq(Quiet)
  BY <1>1, <1>2 DEF Aborted
<1>5. ASSUME NEW r \in Requests, NEW i \in 1 .. Len(ops)
      PROVE  Aborted(ops)[i] \in HandlersOf(r) <=> ops[i] \in OperationsOf(r)
  <2>1. ops[i] \in ResolveOperation => ops[i].arg # r
    BY KafkaConstants DEF ResolveOperation, None, Requests
  <2> QED  BY <1>2, <1>3, <2>1 DEF HandlersOf, OperationsOf, Quiet
<1>6. ASSUME NEW r \in Requests
      PROVE  Occurrences(Aborted(ops), HandlersOf(r)) = Occurrences(ops, OperationsOf(r))
  BY <1>3, <1>5, OccSame
<1> QED  BY <1>4, <1>6

(* Closing a socket gives each of its operations' requests a handler        *)
(* instead: none is lost and none is counted twice.                         *)
LEMMA AbortSocketEffect ==
  ASSUME NEW s \in ConnState
  PROVE  LET t == AbortSocket(s) IN
         Keeps(s, t, None) /\ t.reading = <<>> /\ t.writing = <<>> /\ t.open = s.open
<1> DEFINE ops == s.reading \o s.writing
           u == [s EXCEPT !.reading = <<>>, !.writing = <<>>, !.unanswered = <<>>]
           t == PostAll(u, Aborted(ops))
<1>1. /\ u \in ConnState /\ u.ready = s.ready /\ u.reading = <<>> /\ u.writing = <<>>
      /\ u.write_queue = s.write_queue /\ u.read_queue = s.read_queue
      /\ u.deadline = s.deadline /\ u.read_state = s.read_state
  BY EmptyQueues DEF ConnState
<1>2. /\ s.reading \in Seq(ReadOperation) /\ s.writing \in Seq(WriteOperation)
      /\ s.reading \in Seq(ReadOperation \cup WriteOperation)
      /\ s.writing \in Seq(ReadOperation \cup WriteOperation)
      /\ ops \in Seq(ReadOperation \cup WriteOperation \cup ResolveOperation)
  <2>1. s.reading \in Seq(ReadOperation) /\ s.writing \in Seq(WriteOperation)
    BY DEF ConnState
  <2>2. s.reading \in Seq(ReadOperation \cup WriteOperation \cup ResolveOperation)
        /\ s.writing \in Seq(ReadOperation \cup WriteOperation \cup ResolveOperation)
        /\ s.reading \in Seq(ReadOperation \cup WriteOperation)
        /\ s.writing \in Seq(ReadOperation \cup WriteOperation)
    BY <2>1
  <2> QED  BY <2>1, <2>2
<1> HIDE DEF u, ops
<1>3. Aborted(ops) \in Seq(Quiet)
  BY <1>2, AbortedHandlers
<1>4. /\ t \in ConnState /\ t.ready = u.ready \o Aborted(ops)
      /\ Later(u, t) /\ ReadsKept(u, t) /\ Live(t) = Live(u)
      /\ \A r \in Requests : PlacesOf(t, r) = PlacesOf(u, r) + Occurrences(Aborted(ops), HandlersOf(r))
  BY <1>1, <1>3, PostAllEffect
<1>5. t.reading = <<>> /\ t.writing = <<>> /\ t.open = s.open
  BY <1>1 DEF PostAll, ConnState, u
<1>6. Moved(s, t, None)
  <2> SUFFICES ASSUME NEW r \in Requests
               PROVE  PlacesOf(t, r) = PlacesOf(s, r) + One(r, None)
    BY DEF Moved
  <2>1. Occurrences(Aborted(ops), HandlersOf(r))
          = Occurrences(s.reading, OperationsOf(r)) + Occurrences(s.writing, OperationsOf(r))
    <3>1. Occurrences(Aborted(ops), HandlersOf(r)) = Occurrences(ops, OperationsOf(r))
      BY <1>2, AbortedHandlers
    <3> QED  BY <1>2, <3>1, OccConcat DEF ops
  <2>2. Occurrences(u.reading, OperationsOf(r)) = 0 /\ Occurrences(u.writing, OperationsOf(r)) = 0
    BY <1>1, OccEmpty
  <2>3. /\ Occurrences(s.ready, HandlersOf(r)) \in Nat
        /\ Occurrences(s.reading, OperationsOf(r)) \in Nat
        /\ Occurrences(s.writing, OperationsOf(r)) \in Nat
        /\ Occurrences(s.write_queue, {r}) \in Nat
        /\ Occurrences(s.read_queue, {r}) \in Nat
    BY PlacesOfType
  <2>4. PlacesOf(t, r) = PlacesOf(u, r) + Occurrences(Aborted(ops), HandlersOf(r)) /\ One(r, None) = 0
    BY <1>4, OneNone
  <2> QED  BY <1>1, <2>1, <2>2, <2>3, <2>4 DEF PlacesOf
<1>7. ReadsKept(s, t)
  <2>1. Live(u) =< Live(s)
    <3>1. Occurrences(s.ready, LiveReads) \in Nat /\ Len(s.reading) \in Nat /\ Len(u.reading) = 0
      <4>1. s.ready \in Seq(Handler)
        BY DEF ConnState
      <4> QED  BY <1>1, <1>2, <4>1, PlacesFinite
    <3> QED  BY <1>1, <3>1 DEF Live
  <2> QED  BY <1>1, <1>4, <1>5, <2>1 DEF ReadsKept
<1>8. Later(s, t)
  BY <1>1, <1>4 DEF Later, Calls
<1> QED  BY <1>4, <1>5, <1>6, <1>7, <1>8 DEF Keeps, AbortSocket, u, ops

(* Cancelling the resolver concerns no request.                             *)
LEMMA CancelResolverEffect ==
  ASSUME NEW s \in ConnState
  PROVE  LET t == CancelResolver(s) IN
         /\ Keeps(s, t, None) /\ t.reading = s.reading /\ t.open = s.open
<1> DEFINE u == [s EXCEPT !.resolving = <<>>]
           t == PostAll(u, Aborted(s.resolving))
<1>1. /\ u \in ConnState /\ u.ready = s.ready /\ u.reading = s.reading /\ u.writing = s.writing
      /\ u.write_queue = s.write_queue /\ u.read_queue = s.read_queue
      /\ u.deadline = s.deadline /\ u.read_state = s.read_state /\ u.open = s.open
  BY EmptyQueues DEF ConnState
<1>2. s.resolving \in Seq(ResolveOperation)
      /\ s.resolving \in Seq(ReadOperation \cup WriteOperation \cup ResolveOperation)
  <2>1. s.resolving \in Seq(ResolveOperation)
    BY DEF ConnState
  <2> QED  BY <2>1
<1> HIDE DEF u
<1>3. Aborted(s.resolving) \in Seq(Quiet)
  BY <1>2, AbortedHandlers
<1>4. /\ t \in ConnState
      /\ Later(u, t) /\ ReadsKept(u, t) /\ Live(t) = Live(u)
      /\ \A r \in Requests : PlacesOf(t, r) = PlacesOf(u, r) + Occurrences(Aborted(s.resolving), HandlersOf(r))
  BY <1>1, <1>3, PostAllEffect
<1>5. t.reading = s.reading /\ t.open = s.open
  BY <1>1 DEF PostAll, ConnState
<1>6. Moved(s, t, None)
  <2> SUFFICES ASSUME NEW r \in Requests
               PROVE  PlacesOf(t, r) = PlacesOf(s, r) + One(r, None)
    BY DEF Moved
  <2>1. Occurrences(Aborted(s.resolving), HandlersOf(r)) = Occurrences(s.resolving, OperationsOf(r))
    BY <1>2, AbortedHandlers
  <2>2. Occurrences(s.resolving, OperationsOf(r)) = 0
    <3>1. Positions(s.resolving, OperationsOf(r)) = {}
      BY <1>2 DEF Positions, OperationsOf, ResolveOperation, ReadOperation, WriteOperation
    <3> QED  BY <3>1, FS_EmptySet DEF Occurrences
  <2>3. PlacesOf(u, r) = PlacesOf(s, r)
    BY <1>1 DEF PlacesOf
  <2>4. PlacesOf(t, r) = PlacesOf(u, r) + Occurrences(Aborted(s.resolving), HandlersOf(r)) /\ One(r, None) = 0
        /\ PlacesOf(s, r) \in Nat
    BY <1>4, OneNone, PlacesOfType
  <2> QED  BY <2>1, <2>2, <2>3, <2>4
<1>7. ReadsKept(s, t)
  BY <1>1, <1>4, <1>5 DEF ReadsKept, Live
<1>8. Later(s, t)
  BY <1>1, <1>4 DEF Later, Calls
<1> QED  BY <1>4, <1>5, <1>6, <1>7, <1>8 DEF Keeps, CancelResolver, u

(* The queues a request can be in are the same.                             *)
SameQueues(s, t) ==
  /\ t.ready = s.ready /\ t.reading = s.reading /\ t.writing = s.writing
  /\ t.write_queue = s.write_queue /\ t.read_queue = s.read_queue

(* A change of the other fields, such as the state or a timer, keeps every  *)
(* request where it was.                                                    *)
LEMMA OtherFields ==
  ASSUME NEW s \in ConnState, NEW t \in ConnState, SameQueues(s, t),
         t.read_state = s.read_state,
         \A u \in Timers : t.deadline[u] = "expired" => s.deadline[u] = "expired",
         s.reading # <<>> => t.deadline["read_deadline"] = s.deadline["read_deadline"]
  PROVE  Keeps(s, t, None)
<1>1. Later(s, t)
  BY DEF Later, Calls, SameQueues
<1>2. Live(t) = Live(s) /\ Live(s) \in Nat
  BY LiveType DEF Live, SameQueues
<1>3. ReadsKept(s, t)
  BY <1>2 DEF ReadsKept, SameQueues
<1>4. ASSUME NEW r \in Requests
      PROVE  PlacesOf(t, r) = PlacesOf(s, r) + One(r, None)
  <2>1. PlacesOf(s, r) \in Nat
    BY PlacesOfType
  <2>2. One(r, None) = 0
    BY OneNone
  <2>3. PlacesOf(t, r) = PlacesOf(s, r)
    BY DEF PlacesOf, SameQueues
  <2> QED  BY <2>1, <2>2, <2>3
<1> QED  BY <1>1, <1>3, <1>4 DEF Keeps, Moved

(* Cancelling timers, but the read deadline only when nothing is read.      *)
LEMMA CancelEffect ==
  ASSUME NEW s \in ConnState, NEW T \in SUBSET Timers,
         "read_deadline" \in T => s.reading = <<>>
  PROVE  LET t == Cancel(s, T) IN
         /\ Keeps(s, t, None) /\ SameQueues(s, t)
         /\ t.state = s.state /\ t.open = s.open /\ t.read_state = s.read_state
         /\ t.write_state = s.write_state
<1> DEFINE d == [u \in Timers |-> IF u \in T /\ s.deadline[u] = "armed"
                                  THEN "off" ELSE s.deadline[u]]
           t == [s EXCEPT !.deadline = d]
<1>1. d \in [Timers -> {"off", "armed", "expired"}]
  BY DEF ConnState
<1>2. /\ \A u \in Timers : d[u] = "expired" => s.deadline[u] = "expired"
      /\ s.reading # <<>> => d["read_deadline"] = s.deadline["read_deadline"]
  BY DEF Timers
<1> HIDE DEF d
<1>3. /\ t \in ConnState /\ t.deadline = d /\ t.read_state = s.read_state
      /\ SameQueues(s, t) /\ t.state = s.state /\ t.open = s.open
      /\ t.write_state = s.write_state
  BY <1>1 DEF ConnState, SameQueues
<1>4. Keeps(s, t, None)
  BY <1>2, <1>3, OtherFields
<1>5. Cancel(s, T) = t
  BY DEF Cancel, d
<1> QED  BY <1>3, <1>4, <1>5

(* Arming a timer: a handler it has in the queue will find it not expired.  *)
LEMMA SetDeadlineEffect ==
  ASSUME NEW s \in ConnState, NEW u \in Timers
  PROVE  LET t == SetDeadline(s, u) IN
         /\ t \in ConnState /\ SameQueues(s, t) /\ Later(s, t)
         /\ t.deadline[u] = "armed"
         /\ u # "read_deadline" => Keeps(s, t, None)
         /\ t.state = s.state /\ t.open = s.open /\ t.read_state = s.read_state
         /\ t.write_state = s.write_state
<1> DEFINE d == [s.deadline EXCEPT ![u] = "armed"]
           t == [s EXCEPT !.deadline = d]
<1>1. /\ d \in [Timers -> {"off", "armed", "expired"}] /\ d[u] = "armed"
      /\ \A v \in Timers : d[v] = "expired" => s.deadline[v] = "expired"
      /\ u # "read_deadline" => d["read_deadline"] = s.deadline["read_deadline"]
  BY DEF ConnState, Timers
<1> HIDE DEF d
<1>2. /\ t \in ConnState /\ t.deadline = d /\ t.read_state = s.read_state
      /\ SameQueues(s, t) /\ t.state = s.state /\ t.open = s.open
      /\ t.write_state = s.write_state
  BY <1>1 DEF ConnState, SameQueues
<1>3. Later(s, t)
  BY <1>1, <1>2 DEF Later, Calls, SameQueues
<1>4. u # "read_deadline" => Keeps(s, t, None)
  BY <1>1, <1>2, OtherFields
<1>5. SetDeadline(s, u) = t
  BY DEF SetDeadline, d
<1> QED  BY <1>1, <1>2, <1>3, <1>4, <1>5

(* Close ends every read and keeps every request.                           *)
LEMMA CloseEffect ==
  ASSUME NEW s \in ConnState
  PROVE  Keeps(s, Close(s), None) /\ Close(s).reading = <<>>
<1> DEFINE t1 == [s EXCEPT !.state = "closed", !.open = FALSE]
           t2 == CancelResolver(t1)
           t3 == AbortSocket(t2)
           t4 == Cancel(t3, Timers)
<1>1. t1 \in ConnState /\ Keeps(s, t1, None)
  <2>1. /\ t1 \in ConnState /\ SameQueues(s, t1) /\ t1.read_state = s.read_state
        /\ t1.deadline = s.deadline
    BY DEF ConnState, SameQueues
  <2> QED  BY <2>1, OtherFields
<1> HIDE DEF t1
<1>2. Keeps(t1, t2, None) /\ t2 \in ConnState
  BY <1>1, CancelResolverEffect DEF Keeps
<1> HIDE DEF t2
<1>3. Keeps(t2, t3, None) /\ t3.reading = <<>> /\ t3 \in ConnState
  BY <1>2, AbortSocketEffect DEF Keeps
<1> HIDE DEF t3
<1>4. Keeps(t3, t4, None) /\ t4.reading = <<>>
  BY <1>3, CancelEffect DEF SameQueues
<1>5. Close(s) = t4
  BY DEF Close, t1, t2, t3
<1> HIDE DEF t4
<1>6. Keeps(s, t2, None)
  BY <1>1, <1>2, Compose
<1>7. Keeps(s, t3, None)
  BY <1>3, <1>6, Compose
<1>8. Keeps(s, t4, None)
  BY <1>4, <1>7, Compose
<1> QED  BY <1>4, <1>5, <1>8

(* The handlers of requests, and those of the connection, are handlers.     *)
LEMMA HandlerOf ==
  ASSUME NEW r \in Requests, NEW res \in Outcomes
  PROVE  /\ \A h \in {"EnqueueRequest", "Write", "SizeRead", "Read", "User"} :
              /\ H(h, r, res) \in Handler /\ H(h, r, res).arg = r
              /\ H(h, r, res) \in LiveReads => h \in {"SizeRead", "Read"} /\ res = "ok"
         /\ \A h \in {"Resolve", "Connect", "AutoConnect"} \cup Timers :
              H(h, None, res) \in Handler \ LiveReads /\ H(h, None, res).arg = None
BY DEF H, Handler, LiveReads, Timers

(* Resolving the broker's name concerns no request.                         *)
LEMMA ResolveEffect ==
  ASSUME NEW s \in ConnState
  PROVE  Keeps(s, Resolve(s), None)
<1> DEFINE q == Append(s.resolving, Operation("Resolve", None))
           t == [s EXCEPT !.resolving = q]
<1>1. q \in Seq(ResolveOperation)
  <2>1. s.resolving \in Seq(ResolveOperation) /\ Operation("Resolve", None) \in ResolveOperation
    BY DEF ConnState, ResolveOperation, Operation
  <2> QED  BY <2>1
<1> HIDE DEF q
<1>2. t \in ConnState /\ SameQueues(s, t) /\ t.read_state = s.read_state /\ t.deadline = s.deadline
  BY <1>1 DEF ConnState, SameQueues
<1>3. Keeps(s, t, None)
  BY <1>2, OtherFields
<1> QED  BY <1>3 DEF Resolve, q

(* An operation that waits for the socket to be writable is a place of its  *)
(* request.                                                                 *)
LEMMA WritingAppended ==
  ASSUME NEW s \in ConnState, NEW o \in WriteOperation
  PROVE  LET t == [s EXCEPT !.writing = Append(@, o)] IN
         /\ Keeps(s, t, o.arg) /\ t.reading = s.reading
         /\ t.write_queue = s.write_queue /\ t.read_queue = s.read_queue
         /\ t.state = s.state /\ t.open = s.open
<1> DEFINE q == Append(s.writing, o)
           t == [s EXCEPT !.writing = q]
<1>1. q \in Seq(WriteOperation) /\ s.writing \in Seq(WriteOperation)
  <2>1. s.writing \in Seq(WriteOperation)
    BY DEF ConnState
  <2> QED  BY <2>1
<1>2. ASSUME NEW r \in Requests
      PROVE  Occurrences(q, OperationsOf(r)) = Occurrences(s.writing, OperationsOf(r)) + One(r, o.arg)
  <2>1. CASE o.arg = r
    <3>1. o \in OperationsOf(r) /\ One(r, o.arg) = 1
      BY <2>1 DEF OperationsOf, One
    <3> QED  BY <1>1, <3>1, OccAppend
  <2>2. CASE o.arg # r
    <3>1. o \notin OperationsOf(r) /\ One(r, o.arg) = 0
      BY <2>2 DEF OperationsOf, One
    <3>2. Occurrences(s.writing, OperationsOf(r)) \in Nat
      BY PlacesOfType
    <3>3. Occurrences(q, OperationsOf(r)) = Occurrences(s.writing, OperationsOf(r))
      BY <1>1, <3>1, OccAppend
    <3> QED  BY <3>1, <3>2, <3>3
  <2> QED  BY <2>1, <2>2
<1> HIDE DEF q
<1>3. /\ t \in ConnState /\ t.ready = s.ready /\ t.reading = s.reading /\ t.writing = q
      /\ t.write_queue = s.write_queue /\ t.read_queue = s.read_queue
      /\ t.deadline = s.deadline /\ t.read_state = s.read_state
      /\ t.state = s.state /\ t.open = s.open
  BY <1>1 DEF ConnState
<1> HIDE DEF t
<1>4. Moved(s, t, o.arg)
  <2> SUFFICES ASSUME NEW r \in Requests
               PROVE  PlacesOf(t, r) = PlacesOf(s, r) + One(r, o.arg)
    BY DEF Moved
  <2>1. /\ Occurrences(s.ready, HandlersOf(r)) \in Nat
        /\ Occurrences(s.reading, OperationsOf(r)) \in Nat
        /\ Occurrences(s.writing, OperationsOf(r)) \in Nat
        /\ Occurrences(s.write_queue, {r}) \in Nat
        /\ Occurrences(s.read_queue, {r}) \in Nat
    BY PlacesOfType
  <2>2. One(r, o.arg) \in Nat
    BY OneType
  <2>3. Occurrences(t.writing, OperationsOf(r)) = Occurrences(s.writing, OperationsOf(r)) + One(r, o.arg)
    BY <1>2, <1>3
  <2> QED  BY <1>3, <2>1, <2>2, <2>3 DEF PlacesOf
<1>5. Later(s, t)
  BY <1>3 DEF Later, Calls
<1>6. ReadsKept(s, t)
  <2>1. Live(s) \in Nat /\ Live(t) = Live(s)
    BY <1>3, LiveType DEF Live
  <2> QED  BY <1>3, <2>1 DEF ReadsKept
<1>7. Keeps(s, t, o.arg)
  BY <1>3, <1>4, <1>5, <1>6 DEF Keeps
<1> QED  BY <1>3, <1>7 DEF t, q

(* Connecting concerns no request.                                          *)
LEMMA ConnectEffect ==
  ASSUME NEW s \in ConnState
  PROVE  Keeps(s, Connect(s), None)
<1>1. Operation("Connect", None) \in WriteOperation /\ Operation("Connect", None).arg = None
  BY DEF Operation, WriteOperation
<1> QED  BY <1>1, WritingAppended DEF Connect

(* Posting leaves everything but the queue of io_service alone.             *)
LEMMA PostFields ==
  ASSUME NEW s \in ConnState, NEW h
  PROVE  LET t == Post(s, h) IN
         /\ t.reading = s.reading /\ t.writing = s.writing
         /\ t.write_queue = s.write_queue /\ t.read_queue = s.read_queue
         /\ t.state = s.state /\ t.open = s.open /\ t.read_state = s.read_state
         /\ t.deadline = s.deadline
BY DEF Post, ConnState

(* async_write gives its request a place: as an operation or, when the      *)
(* socket has no descriptor, as a handler with an error.                    *)
LEMMA WriteEffect ==
  ASSUME NEW s \in ConnState, NEW r \in Requests
  PROVE  LET t == Write(s, r) IN
         /\ Keeps(s, t, r) /\ t \in ConnState
         /\ t.write_queue = s.write_queue /\ t.read_queue = s.read_queue
         /\ t.state = s.state
<1>1. CASE s.open
  <2>1. Operation("Write", r) \in WriteOperation /\ Operation("Write", r).arg = r
    BY DEF Operation, WriteOperation
  <2>2. Write(s, r) = [s EXCEPT !.writing = Append(@, Operation("Write", r))]
    BY <1>1 DEF Write
  <2> QED  BY <2>1, <2>2, WritingAppended DEF Keeps
<1>2. CASE ~s.open
  <2> DEFINE h == H("Write", r, "bad_descriptor")
  <2>1. h \in Handler /\ h \notin LiveReads /\ h.arg = r
    BY HandlerOf DEF Outcomes
  <2>2. Write(s, r) = Post(s, h)
    BY <1>2 DEF Write
  <2> HIDE DEF h
  <2> QED  BY <2>1, <2>2, PostEffect, PostFields DEF Keeps
<1> QED  BY <1>1, <1>2

(* SendRequest gives its request that place too.                            *)
LEMMA SendRequestEffect ==
  ASSUME NEW s \in ConnState, NEW r \in Requests
  PROVE  LET t == SendRequest(s, r) IN
         /\ Keeps(s, t, r) /\ t \in ConnState
         /\ t.write_queue = s.write_queue /\ t.read_queue = s.read_queue
<1> DEFINE t1 == Write(s, r)
           t2 == [t1 EXCEPT !.write_state = "busy"]
           t3 == SetDeadline(t2, "write_deadline")
<1>1. /\ Keeps(s, t1, r) /\ t1 \in ConnState
      /\ t1.write_queue = s.write_queue /\ t1.read_queue = s.read_queue
  BY WriteEffect
<1> HIDE DEF t1
<1>2. /\ t2 \in ConnState /\ SameQueues(t1, t2) /\ t2.read_state = t1.read_state
      /\ t2.deadline = t1.deadline
  BY <1>1 DEF ConnState, SameQueues
<1>3. Keeps(t1, t2, None)
  BY <1>1, <1>2, OtherFields
<1> HIDE DEF t2
<1>4. Keeps(t2, t3, None) /\ t3 \in ConnState /\ SameQueues(t2, t3)
  BY <1>2, SetDeadlineEffect DEF Timers
<1>5. SendRequest(s, r) = t3
  BY DEF SendRequest, t1, t2
<1> HIDE DEF t3
<1>6. r # None
  BY KafkaConstants DEF Requests, None
<1>7. Keeps(s, t2, r)
  BY <1>1, <1>3, <1>6, Compose
<1>8. Keeps(s, t3, r)
  BY <1>4, <1>7, <1>6, Compose
<1> QED  BY <1>1, <1>2, <1>4, <1>5, <1>8 DEF SameQueues

(* The handlers of connecting and of the timers are for no request.         *)
LEMMA HandlerOfNone ==
  ASSUME NEW h \in {"Resolve", "Connect", "AutoConnect"} \cup Timers, NEW res \in Outcomes
  PROVE  H(h, None, res) \in Handler \ LiveReads /\ H(h, None, res).arg = None
BY DEF H, Handler, LiveReads, Timers

(* AsyncConnect concerns no request, whatever the connection's state.       *)
LEMMA AsyncConnectEffect ==
  ASSUME NEW s \in ConnState
  PROVE  Keeps(s, AsyncConnect(s), None)
<1>1. CASE s.state # "closed"
  <2> DEFINE h == H("AutoConnect", None, "already_connected")
  <2>1. h \in Handler /\ h \notin LiveReads /\ h.arg = None
    BY HandlerOfNone DEF Outcomes
  <2>2. AsyncConnect(s) = Post(s, h)
    BY <1>1 DEF AsyncConnect
  <2> HIDE DEF h
  <2> QED  BY <2>1, <2>2, PostEffect
<1>2. CASE s.state = "closed"
  <2> DEFINE t1 == Resolve(s)
             t2 == [t1 EXCEPT !.state = "connecting"]
             t3 == SetDeadline(t2, "connect_deadline")
  <2>1. Keeps(s, t1, None) /\ t1 \in ConnState
    BY ResolveEffect DEF Keeps
  <2> HIDE DEF t1
  <2>2. /\ t2 \in ConnState /\ SameQueues(t1, t2) /\ t2.read_state = t1.read_state
        /\ t2.deadline = t1.deadline
    BY <2>1 DEF ConnState, SameQueues
  <2>3. Keeps(t1, t2, None)
    BY <2>1, <2>2, OtherFields
  <2> HIDE DEF t2
  <2>4. Keeps(t2, t3, None)
    BY <2>2, SetDeadlineEffect DEF Timers
  <2>5. AsyncConnect(s) = t3
    BY <1>2 DEF AsyncConnect, t1, t2
  <2> HIDE DEF t3
  <2>6. Keeps(s, t2, None)
    BY <2>1, <2>3, Compose
  <2>7. Keeps(s, t3, None)
    BY <2>4, <2>6, Compose
  <2> QED  BY <2>5, <2>7
<1> QED  BY <1>1, <1>2

(* A request at the end of the write or the read queue is in one more       *)
(* place.                                                                   *)
LEMMA QueueAppended ==
  ASSUME NEW q \in Seq(Requests), NEW a \in Requests, NEW r \in Requests
  PROVE  Occurrences(Append(q, a), {r}) = Occurrences(q, {r}) + One(r, a)
<1>1. Occurrences(q, {r}) \in Nat
  BY PlacesFinite
<1>2. CASE a = r
  <2>1. a \in {r} /\ One(r, a) = 1
    BY <1>2 DEF One
  <2> QED  BY <2>1, OccAppend
<1>3. CASE a # r
  <2>1. a \notin {r} /\ One(r, a) = 0
    BY <1>3 DEF One
  <2>2. Occurrences(Append(q, a), {r}) = Occurrences(q, {r})
    BY <2>1, OccAppend
  <2> QED  BY <1>1, <2>1, <2>2
<1> QED  BY <1>2, <1>3

(* Taking the first request off a queue takes it out of one place.          *)
LEMMA QueueTail ==
  ASSUME NEW q \in Seq(Requests), q # <<>>, NEW r \in Requests
  PROVE  /\ Tail(q) \in Seq(Requests) /\ Head(q) \in Requests
         /\ Occurrences(q, {r}) = Occurrences(Tail(q), {r}) + One(r, Head(q))
<1>1. Tail(q) \in Seq(Requests) /\ Head(q) \in Requests
  OBVIOUS
<1>2. Occurrences(Tail(q), {r}) \in Nat
  BY <1>1, PlacesFinite
<1>3. CASE Head(q) = r
  <2>1. Head(q) \in {r} /\ One(r, Head(q)) = 1
    BY <1>3 DEF One
  <2> QED  BY <1>1, <2>1, OccHead
<1>4. CASE Head(q) # r
  <2>1. Head(q) \notin {r} /\ One(r, Head(q)) = 0
    BY <1>4 DEF One
  <2>2. Occurrences(q, {r}) = Occurrences(Tail(q), {r})
    BY <2>1, OccHead
  <2> QED  BY <1>1, <1>2, <2>1, <2>2
<1> QED  BY <1>3, <1>4

(* Replacing the write queue changes a request's places by the difference.  *)
LEMMA WriteQueueChanged ==
  ASSUME NEW s \in ConnState, NEW q \in Seq(Requests)
  PROVE  LET t == [s EXCEPT !.write_queue = q] IN
         /\ t \in ConnState /\ Later(s, t) /\ ReadsKept(s, t)
         /\ t.state = s.state /\ t.write_state = s.write_state /\ t.write_queue = q
         /\ \A r \in Requests :
              PlacesOf(t, r) + Occurrences(s.write_queue, {r})
                = PlacesOf(s, r) + Occurrences(q, {r})
<1> DEFINE t == [s EXCEPT !.write_queue = q]
<1>1. /\ t \in ConnState /\ t.ready = s.ready /\ t.reading = s.reading
      /\ t.writing = s.writing /\ t.write_queue = q /\ t.read_queue = s.read_queue
      /\ t.deadline = s.deadline /\ t.read_state = s.read_state
      /\ t.state = s.state /\ t.write_state = s.write_state
  BY DEF ConnState
<1> HIDE DEF t
<1>2. Later(s, t)
  BY <1>1 DEF Later, Calls
<1>3. ReadsKept(s, t)
  <2>1. Live(s) \in Nat /\ Live(t) = Live(s)
    BY <1>1, LiveType DEF Live
  <2> QED  BY <1>1, <2>1 DEF ReadsKept
<1>4. ASSUME NEW r \in Requests
      PROVE  PlacesOf(t, r) + Occurrences(s.write_queue, {r})
               = PlacesOf(s, r) + Occurrences(q, {r})
  <2>1. /\ Occurrences(s.ready, HandlersOf(r)) \in Nat
        /\ Occurrences(s.reading, OperationsOf(r)) \in Nat
        /\ Occurrences(s.writing, OperationsOf(r)) \in Nat
        /\ Occurrences(s.write_queue, {r}) \in Nat
        /\ Occurrences(s.read_queue, {r}) \in Nat
    BY PlacesOfType
  <2>2. Occurrences(q, {r}) \in Nat
    BY PlacesFinite
  <2> QED  BY <1>1, <2>1, <2>2 DEF PlacesOf
<1> QED  BY <1>1, <1>2, <1>3, <1>4 DEF t

(* The same for the read queue.                                             *)
LEMMA ReadQueueChanged ==
  ASSUME NEW s \in ConnState, NEW q \in Seq(Requests)
  PROVE  LET t == [s EXCEPT !.read_queue = q] IN
         /\ t \in ConnState /\ Later(s, t) /\ ReadsKept(s, t)
         /\ t.state = s.state /\ t.read_state = s.read_state /\ t.read_queue = q
         /\ t.reading = s.reading /\ t.deadline = s.deadline /\ Live(t) = Live(s)
         /\ \A r \in Requests :
              PlacesOf(t, r) + Occurrences(s.read_queue, {r})
                = PlacesOf(s, r) + Occurrences(q, {r})
<1> DEFINE t == [s EXCEPT !.read_queue = q]
<1>1. /\ t \in ConnState /\ t.ready = s.ready /\ t.reading = s.reading
      /\ t.writing = s.writing /\ t.read_queue = q /\ t.write_queue = s.write_queue
      /\ t.deadline = s.deadline /\ t.read_state = s.read_state
      /\ t.state = s.state
  BY DEF ConnState
<1> HIDE DEF t
<1>2. Later(s, t)
  BY <1>1 DEF Later, Calls
<1>3. ReadsKept(s, t) /\ Live(t) = Live(s)
  <2>1. Live(s) \in Nat /\ Live(t) = Live(s)
    BY <1>1, LiveType DEF Live
  <2> QED  BY <1>1, <2>1 DEF ReadsKept
<1>4. ASSUME NEW r \in Requests
      PROVE  PlacesOf(t, r) + Occurrences(s.read_queue, {r})
               = PlacesOf(s, r) + Occurrences(q, {r})
  <2>1. /\ Occurrences(s.ready, HandlersOf(r)) \in Nat
        /\ Occurrences(s.reading, OperationsOf(r)) \in Nat
        /\ Occurrences(s.writing, OperationsOf(r)) \in Nat
        /\ Occurrences(s.write_queue, {r}) \in Nat
        /\ Occurrences(s.read_queue, {r}) \in Nat
    BY PlacesOfType
  <2>2. Occurrences(q, {r}) \in Nat
    BY PlacesFinite
  <2> QED  BY <1>1, <2>1, <2>2 DEF PlacesOf
<1> QED  BY <1>1, <1>2, <1>3, <1>4 DEF t

(* Sending the first request of the write queue and popping it moves it.    *)
LEMMA SendHead ==
  ASSUME NEW s \in ConnState, s.write_queue # <<>>
  PROVE  Keeps(s, [SendRequest(s, Head(s.write_queue)) EXCEPT !.write_queue = Tail(@)], None)
<1> DEFINE a == Head(s.write_queue)
           u == SendRequest(s, a)
           q == Tail(s.write_queue)
           t == [u EXCEPT !.write_queue = q]
<1>1. s.write_queue \in Seq(Requests) /\ a \in Requests /\ q \in Seq(Requests)
  <2>1. s.write_queue \in Seq(Requests)
    BY DEF ConnState
  <2> QED  BY <2>1
<1> HIDE DEF a, q
<1>2. Keeps(s, u, a) /\ u \in ConnState /\ u.write_queue = s.write_queue
  BY <1>1, SendRequestEffect
<1> HIDE DEF u
<1>3. /\ t \in ConnState /\ Later(u, t) /\ ReadsKept(u, t)
      /\ \A r \in Requests : PlacesOf(t, r) + Occurrences(u.write_queue, {r})
                               = PlacesOf(u, r) + Occurrences(q, {r})
  BY <1>1, <1>2, WriteQueueChanged
<1> HIDE DEF t
<1>4. Later(s, t)
  BY <1>2, <1>3 DEF Keeps, Later
<1>5. ReadsKept(s, t)
  <2>1. Live(s) \in Nat /\ Live(u) \in Nat /\ Live(t) \in Nat
    BY <1>2, <1>3, LiveType
  <2> QED  BY <1>2, <1>3, <2>1 DEF Keeps, ReadsKept
<1>6. ASSUME NEW r \in Requests
      PROVE  PlacesOf(t, r) = PlacesOf(s, r) + One(r, None)
  <2>1. /\ PlacesOf(s, r) \in Nat /\ PlacesOf(t, r) \in Nat /\ One(r, None) = 0
        /\ One(r, a) \in Nat
    BY <1>3, PlacesOfType, OneType, OneNone
  <2>2. PlacesOf(u, r) = PlacesOf(s, r) + One(r, a)
    BY <1>2 DEF Keeps, Moved
  <2>3. Occurrences(s.write_queue, {r}) = Occurrences(q, {r}) + One(r, a)
    BY <1>1, QueueTail DEF a, q
  <2>4. Occurrences(q, {r}) \in Nat
    BY <1>1, PlacesFinite
  <2>5. PlacesOf(t, r) + Occurrences(s.write_queue, {r}) = PlacesOf(u, r) + Occurrences(q, {r})
    BY <1>2, <1>3
  <2> QED  BY <2>1, <2>2, <2>3, <2>4, <2>5
<1>7. [u EXCEPT !.write_queue = Tail(@)] = t
  BY <1>2 DEF t, q
<1> QED  BY <1>3, <1>4, <1>5, <1>6, <1>7 DEF Keeps, Moved, u, a

(* NextRequest moves the first request of the write queue, starts to        *)
(* connect, or does nothing.                                                *)
LEMMA NextRequestEffect ==
  ASSUME NEW s \in ConnState
  PROVE  Keeps(s, NextRequest(s), None)
<1>1. CASE s.write_state = "busy" \/ s.write_queue = <<>>
  <2>1. NextRequest(s) = s
    BY <1>1 DEF NextRequest
  <2> QED  BY <2>1, KeepsItself
<1>2. CASE ~(s.write_state = "busy" \/ s.write_queue = <<>>) /\ s.state = "closed"
  <2>1. NextRequest(s) = AsyncConnect(s)
    BY <1>2 DEF NextRequest
  <2> QED  BY <2>1, AsyncConnectEffect
<1>3. CASE ~(s.write_state = "busy" \/ s.write_queue = <<>>) /\ s.state = "connected"
  <2>1. NextRequest(s) = [SendRequest(s, Head(s.write_queue)) EXCEPT !.write_queue = Tail(@)]
    BY <1>3 DEF NextRequest
  <2> QED  BY <1>3, <2>1, SendHead
<1>4. CASE ~(s.write_state = "busy" \/ s.write_queue = <<>>) /\ s.state = "connecting"
  <2>1. NextRequest(s) = s
    BY <1>4 DEF NextRequest
  <2> QED  BY <2>1, KeepsItself
<1>5. s.state \in {"closed", "connecting", "connected"}
  BY DEF ConnState
<1> QED  BY <1>1, <1>2, <1>3, <1>4, <1>5

(* EnqueueRequest gives the request one place: in the queue, or on the      *)
(* socket.                                                                  *)
LEMMA EnqueueRequestEffect ==
  ASSUME NEW s \in ConnState, NEW a \in Requests
  PROVE  Keeps(s, EnqueueRequest(s, a), a)
<1> DEFINE q == Append(s.write_queue, a)
           queued == [s EXCEPT !.write_queue = q]
<1>0. s.write_queue \in Seq(Requests) /\ q \in Seq(Requests)
  <2>1. s.write_queue \in Seq(Requests)
    BY DEF ConnState
  <2> QED  BY <2>1
<1>1. /\ queued \in ConnState /\ Later(s, queued) /\ ReadsKept(s, queued)
      /\ \A r \in Requests : PlacesOf(queued, r) + Occurrences(s.write_queue, {r})
                               = PlacesOf(s, r) + Occurrences(q, {r})
  BY <1>0, WriteQueueChanged
<1>2. Moved(s, queued, a)
  <2> SUFFICES ASSUME NEW r \in Requests
               PROVE  PlacesOf(queued, r) = PlacesOf(s, r) + One(r, a)
    BY DEF Moved
  <2>1. Occurrences(q, {r}) = Occurrences(s.write_queue, {r}) + One(r, a)
    BY <1>0, QueueAppended
  <2>2. Occurrences(s.write_queue, {r}) \in Nat /\ One(r, a) \in Nat
    BY <1>0, PlacesFinite, OneType
  <2>3. PlacesOf(s, r) \in Nat /\ PlacesOf(queued, r) \in Nat
    BY <1>1, PlacesOfType
  <2>4. PlacesOf(queued, r) + Occurrences(s.write_queue, {r}) = PlacesOf(s, r) + Occurrences(q, {r})
    BY <1>1
  <2> HIDE DEF queued, q
  <2> QED  BY <2>1, <2>2, <2>3, <2>4
<1>3. Keeps(s, queued, a)
  BY <1>1, <1>2 DEF Keeps
<1>4. queued = [s EXCEPT !.write_queue = Append(@, a)]
  OBVIOUS
<1> HIDE DEF queued
<1>5. CASE s.write_state = "busy"
  <2>1. EnqueueRequest(s, a) = queued
    BY <1>4, <1>5 DEF EnqueueRequest
  <2> QED  BY <1>3, <2>1
<1>6. CASE s.write_state # "busy" /\ s.write_queue = <<>> /\ s.state = "connected"
  <2>1. EnqueueRequest(s, a) = SendRequest(s, a)
    BY <1>6 DEF EnqueueRequest
  <2> QED  BY <2>1, SendRequestEffect
<1>7. CASE s.write_state # "busy" /\ ~(s.write_queue = <<>> /\ s.state = "connected")
  <2>1. EnqueueRequest(s, a) = NextRequest(queued)
    BY <1>4, <1>7 DEF EnqueueRequest
  <2>2. Keeps(queued, NextRequest(queued), None)
    BY <1>1, NextRequestEffect
  <2>3. a # None
    BY KafkaConstants DEF Requests, None
  <2>4. Keeps(s, NextRequest(queued), a)
    BY <1>3, <2>2, <2>3, Compose
  <2> QED  BY <2>1, <2>4
<1> QED  BY <1>5, <1>6, <1>7

-----------------------------------------------------------------------------
(* One read at a time, and watched.                                         *)

(* At most one read is under way or to be reported, and none when           *)
(* read_state is idle. This is what makes one read at a time: read_state    *)
(* alone is not enough, since a failed read leaves it busy.                 *)
ReadBound(s) == Live(s) =< 1 /\ (s.read_state = "idle" => Live(s) = 0)

(* A read on the socket has a deadline that has not been cancelled.         *)
Watched(s) == s.reading # <<>> => s.deadline["read_deadline"] # "off"

(* The part of the invariant that a member function keeps by itself.        *)
Tidy(s) == s \in ConnState /\ ReadBound(s) /\ Watched(s)

(* What a member function does to a tidy connection, for the request `a`.   *)
Serves(s, t, a) == Tidy(t) /\ Later(s, t) /\ Moved(s, t, a)

(* Starting no read keeps the connection tidy.                              *)
LEMMA KeepsServes ==
  ASSUME NEW s, NEW t, NEW a, Tidy(s), Keeps(s, t, a)
  PROVE  Serves(s, t, a)
<1>1. Live(s) \in Nat /\ Live(t) \in Nat
  BY LiveType DEF Tidy, Keeps
<1> QED  BY <1>1 DEF Serves, Tidy, Keeps, ReadsKept, ReadBound, Watched

(* Of two functions called in turn, the places.                             *)
LEMMA MovedTwice ==
  ASSUME NEW s \in ConnState, NEW t \in ConnState, NEW u \in ConnState, NEW a, NEW b,
         Moved(s, t, a), Moved(t, u, b), a = None \/ b = None
  PROVE  Moved(s, u, IF a = None THEN b ELSE a)
<1> SUFFICES ASSUME NEW r \in Requests
             PROVE  PlacesOf(u, r) = PlacesOf(s, r) + One(r, IF a = None THEN b ELSE a)
  BY DEF Moved
<1>1. /\ PlacesOf(t, r) = PlacesOf(s, r) + One(r, a)
      /\ PlacesOf(u, r) = PlacesOf(t, r) + One(r, b)
  BY DEF Moved
<1>2. /\ One(r, a) \in Nat /\ One(r, b) \in Nat /\ One(r, None) = 0
      /\ PlacesOf(s, r) \in Nat
  BY OneType, OneNone, PlacesOfType
<1>3. CASE a = None
  BY <1>1, <1>2, <1>3
<1>4. CASE a # None /\ b = None
  BY <1>1, <1>2, <1>4
<1> QED  BY <1>3, <1>4

(* Of two functions called in turn, the timers.                             *)
LEMMA LaterTwice ==
  ASSUME NEW s, NEW t, NEW u, Later(s, t), Later(t, u)
  PROVE  Later(s, u)
BY DEF Later

(* A function that starts no read, and then one that may.                   *)
LEMMA KeepsThenServes ==
  ASSUME NEW s \in ConnState, NEW t, NEW u, NEW a, NEW b,
         Keeps(s, t, a), Serves(t, u, b), a = None \/ b = None
  PROVE  Serves(s, u, IF a = None THEN b ELSE a)
<1>1. /\ t \in ConnState /\ u \in ConnState /\ Moved(s, t, a) /\ Moved(t, u, b)
      /\ Later(s, t) /\ Later(t, u) /\ Tidy(u)
  BY DEF Keeps, Serves, Tidy
<1>2. Moved(s, u, IF a = None THEN b ELSE a)
  BY <1>1, MovedTwice
<1>3. Later(s, u)
  BY <1>1, LaterTwice
<1> QED  BY <1>1, <1>2, <1>3 DEF Serves

(* The other order.                                                         *)
LEMMA ServesThenKeeps ==
  ASSUME NEW s \in ConnState, NEW t, NEW u, NEW a, NEW b,
         Serves(s, t, a), Keeps(t, u, b), a = None \/ b = None
  PROVE  Serves(s, u, IF a = None THEN b ELSE a)
<1>1. Serves(t, u, b)
  BY KeepsServes DEF Serves
<1>2. /\ t \in ConnState /\ u \in ConnState /\ Moved(s, t, a) /\ Moved(t, u, b)
      /\ Later(s, t) /\ Later(t, u) /\ Tidy(u)
  BY <1>1 DEF Keeps, Serves, Tidy
<1>3. Moved(s, u, IF a = None THEN b ELSE a)
  BY <1>2, MovedTwice
<1>4. Later(s, u)
  BY <1>2, LaterTwice
<1> QED  BY <1>2, <1>3, <1>4 DEF Serves

(* async_read gives its request a place, and there is at most one live read *)
(* more.                                                                    *)
LEMMA ReadEffect ==
  ASSUME NEW s \in ConnState, NEW r \in Requests, NEW op \in {"SizeRead", "Read"}
  PROVE  LET t == Read(s, op, r) IN
         /\ t \in ConnState /\ Later(s, t) /\ Moved(s, t, r) /\ Live(t) =< Live(s) + 1
         /\ t.read_state = s.read_state /\ t.read_queue = s.read_queue
<1>1. CASE s.open
  <2> DEFINE o == Operation(op, r)
             q == Append(s.reading, o)
             t == [s EXCEPT !.reading = q]
  <2>1. /\ o \in ReadOperation /\ o.arg = r
        /\ q \in Seq(ReadOperation) /\ s.reading \in Seq(ReadOperation)
        /\ Len(q) = Len(s.reading) + 1
    <3>1. s.reading \in Seq(ReadOperation) /\ o \in ReadOperation /\ o.arg = r
      BY DEF ConnState, Operation, ReadOperation
    <3> HIDE DEF o
    <3> QED  BY <3>1
  <2>2. ASSUME NEW x \in Requests
        PROVE  Occurrences(q, OperationsOf(x)) = Occurrences(s.reading, OperationsOf(x)) + One(x, r)
    <3>1. CASE r = x
      <4>1. o \in OperationsOf(x) /\ One(x, r) = 1
        BY <2>1, <3>1 DEF OperationsOf, One
      <4> HIDE DEF o
      <4> QED  BY <2>1, <4>1, OccAppend
    <3>2. CASE r # x
      <4>1. o \notin OperationsOf(x) /\ One(x, r) = 0
        BY <2>1, <3>2 DEF OperationsOf, One
      <4>2. Occurrences(s.reading, OperationsOf(x)) \in Nat
        BY PlacesOfType
      <4> HIDE DEF o
      <4>3. Occurrences(q, OperationsOf(x)) = Occurrences(s.reading, OperationsOf(x))
        BY <2>1, <4>1, OccAppend
      <4> QED  BY <4>1, <4>2, <4>3
    <3> QED  BY <3>1, <3>2
  <2>3. Read(s, op, r) = t
    BY <1>1 DEF Read
  <2> HIDE DEF q
  <2>4. /\ t \in ConnState /\ t.ready = s.ready /\ t.reading = q /\ t.writing = s.writing
        /\ t.write_queue = s.write_queue /\ t.read_queue = s.read_queue
        /\ t.deadline = s.deadline /\ t.read_state = s.read_state
    BY <2>1 DEF ConnState
  <2> HIDE DEF t
  <2>5. Moved(s, t, r)
    <3> SUFFICES ASSUME NEW x \in Requests
                 PROVE  PlacesOf(t, x) = PlacesOf(s, x) + One(x, r)
      BY DEF Moved
    <3>1. /\ Occurrences(s.ready, HandlersOf(x)) \in Nat
          /\ Occurrences(s.reading, OperationsOf(x)) \in Nat
          /\ Occurrences(s.writing, OperationsOf(x)) \in Nat
          /\ Occurrences(s.write_queue, {x}) \in Nat
          /\ Occurrences(s.read_queue, {x}) \in Nat
      BY PlacesOfType
    <3>2. One(x, r) \in Nat
      BY OneType
    <3>3. Occurrences(t.reading, OperationsOf(x)) = Occurrences(s.reading, OperationsOf(x)) + One(x, r)
      BY <2>2, <2>4
    <3> QED  BY <2>4, <3>1, <3>2, <3>3 DEF PlacesOf
  <2>6. Later(s, t)
    BY <2>4 DEF Later, Calls
  <2>7. Live(t) = Live(s) + 1
    <3>1. Occurrences(s.ready, LiveReads) \in Nat /\ Len(s.reading) \in Nat
      <4>1. s.ready \in Seq(Handler)
        BY DEF ConnState
      <4> QED  BY <2>1, <4>1, PlacesFinite
    <3> QED  BY <2>1, <2>4, <3>1 DEF Live
  <2>8. Live(t) =< Live(s) + 1
    BY <2>7, LiveType
  <2> QED  BY <2>3, <2>4, <2>5, <2>6, <2>8
<1>2. CASE ~s.open
  <2> DEFINE h == H(op, r, "bad_descriptor")
             t == Post(s, h)
  <2>1. h \in Handler /\ h \notin LiveReads /\ h.arg = r
    BY HandlerOf DEF Outcomes
  <2>2. Read(s, op, r) = t
    BY <1>2 DEF Read
  <2> HIDE DEF h
  <2>3. Keeps(s, t, r) /\ t.read_state = s.read_state /\ t.read_queue = s.read_queue
    BY <2>1, PostEffect, PostFields
  <2> HIDE DEF t
  <2>4. Live(t) =< Live(s) + 1
    <3>1. t \in ConnState /\ Live(t) =< Live(s)
      BY <2>3 DEF Keeps, ReadsKept
    <3>2. Live(s) \in Nat /\ Live(t) \in Nat
      BY <3>1, LiveType
    <3> QED  BY <3>1, <3>2
  <2> QED  BY <2>2, <2>3, <2>4 DEF Keeps
<1> QED  BY <1>1, <1>2

(* With the read deadline armed, the read that was just started is watched. *)
LEMMA DeadlineSet ==
  ASSUME NEW s \in ConnState, s.read_state = "busy", Live(s) =< 1
  PROVE  LET t == SetDeadline(s, "read_deadline") IN
         /\ Serves(s, t, None) /\ t.read_queue = s.read_queue
<1> DEFINE t == SetDeadline(s, "read_deadline")
<1>1. /\ t \in ConnState /\ SameQueues(s, t) /\ Later(s, t)
      /\ t.deadline["read_deadline"] = "armed" /\ t.read_state = s.read_state
  BY SetDeadlineEffect DEF Timers
<1> HIDE DEF t
<1>2. Live(t) = Live(s)
  BY <1>1 DEF Live, SameQueues
<1>3. Tidy(t)
  BY <1>1, <1>2 DEF Tidy, ReadBound, Watched
<1>4. Moved(s, t, None)
  <2> SUFFICES ASSUME NEW r \in Requests
               PROVE  PlacesOf(t, r) = PlacesOf(s, r) + One(r, None)
    BY DEF Moved
  <2>1. PlacesOf(s, r) \in Nat /\ One(r, None) = 0
    BY PlacesOfType, OneNone
  <2>2. PlacesOf(t, r) = PlacesOf(s, r)
    BY <1>1 DEF PlacesOf, SameQueues
  <2> QED  BY <2>1, <2>2
<1>5. Serves(s, t, None) /\ t.read_queue = s.read_queue
  BY <1>1, <1>3, <1>4 DEF Serves, SameQueues
<1> QED  BY <1>5 DEF t

(* ReceiveResponse starts the only read and watches it.                     *)
LEMMA ReceiveResponseEffect ==
  ASSUME NEW s \in ConnState, NEW r \in Requests, Live(s) = 0
  PROVE  LET t == ReceiveResponse(s, r) IN
         Serves(s, t, r) /\ t.read_queue = s.read_queue
<1> DEFINE t1 == Read(s, "SizeRead", r)
           t2 == [t1 EXCEPT !.read_state = "busy"]
           t3 == SetDeadline(t2, "read_deadline")
<1>1. /\ t1 \in ConnState /\ Later(s, t1) /\ Moved(s, t1, r) /\ Live(t1) =< 1
      /\ t1.read_queue = s.read_queue
  <2>1. /\ t1 \in ConnState /\ Later(s, t1) /\ Moved(s, t1, r) /\ Live(t1) =< Live(s) + 1
        /\ t1.read_queue = s.read_queue
    BY ReadEffect
  <2> HIDE DEF t1
  <2> QED  BY <2>1
<1> HIDE DEF t1
<1>2. /\ t2 \in ConnState /\ SameQueues(t1, t2) /\ t2.deadline = t1.deadline
      /\ t2.read_state = "busy"
  BY <1>1 DEF ConnState, SameQueues
<1> HIDE DEF t2
<1>3. Live(t2) = Live(t1) /\ Later(t1, t2)
  BY <1>2 DEF Live, SameQueues, Later, Calls
<1>4. Moved(t1, t2, None)
  <2> SUFFICES ASSUME NEW x \in Requests
               PROVE  PlacesOf(t2, x) = PlacesOf(t1, x) + One(x, None)
    BY DEF Moved
  <2>1. PlacesOf(t1, x) \in Nat /\ One(x, None) = 0
    BY <1>1, PlacesOfType, OneNone
  <2>2. PlacesOf(t2, x) = PlacesOf(t1, x)
    BY <1>2 DEF PlacesOf, SameQueues
  <2> QED  BY <2>1, <2>2
<1>5. Serves(t2, t3, None) /\ t3.read_queue = t2.read_queue
  BY <1>1, <1>2, <1>3, DeadlineSet
<1>6. ReceiveResponse(s, r) = t3
  BY DEF ReceiveResponse, t1, t2
<1> HIDE DEF t3
<1>7. r # None
  BY KafkaConstants DEF Requests, None
<1>8. t3 \in ConnState /\ Moved(t2, t3, None) /\ Later(t2, t3) /\ Tidy(t3)
  BY <1>5 DEF Serves, Tidy
<1>9. Moved(s, t2, r)
  BY <1>1, <1>2, <1>4, <1>7, MovedTwice
<1>10. Moved(s, t3, r)
  BY <1>2, <1>7, <1>8, <1>9, MovedTwice
<1>11. Later(s, t3)
  BY <1>1, <1>3, <1>8, LaterTwice
<1> QED  BY <1>1, <1>2, <1>5, <1>6, <1>8, <1>10, <1>11 DEF Serves, SameQueues

(* NextResponse moves the first request of the read queue, if read_state is *)
(* idle.                                                                    *)
LEMMA NextResponseEffect ==
  ASSUME NEW s, Tidy(s)
  PROVE  Serves(s, NextResponse(s), None)
<1>0. s \in ConnState
  BY DEF Tidy
<1>1. CASE s.read_state = "busy" \/ s.read_queue = <<>>
  <2>1. NextResponse(s) = s
    BY <1>1 DEF NextResponse
  <2>2. Keeps(s, s, None)
    BY <1>0, KeepsItself
  <2> QED  BY <2>1, <2>2, KeepsServes
<1>2. CASE ~(s.read_state = "busy" \/ s.read_queue = <<>>)
  <2> DEFINE a == Head(s.read_queue)
             q == Tail(s.read_queue)
             u == ReceiveResponse(s, a)
             t == [u EXCEPT !.read_queue = q]
  <2>1. s.read_queue \in Seq(Requests) /\ a \in Requests /\ q \in Seq(Requests)
    <3>1. s.read_queue \in Seq(Requests)
      BY <1>0 DEF ConnState
    <3> QED  BY <1>2, <3>1
  <2> HIDE DEF a, q
  <2>2. s.read_state = "idle"
    BY <1>0, <1>2 DEF ConnState
  <2>3. Live(s) = 0
    BY <2>2 DEF Tidy, ReadBound
  <2>4. Serves(s, u, a) /\ u.read_queue = s.read_queue
    BY <1>0, <2>1, <2>3, ReceiveResponseEffect
  <2>5. NextResponse(s) = [u EXCEPT !.read_queue = Tail(@)]
    BY <1>2 DEF NextResponse, u, a
  <2>6. NextResponse(s) = t
    BY <2>4, <2>5 DEF q
  <2> HIDE DEF u
  <2>7. u \in ConnState
    BY <2>4 DEF Serves, Tidy
  <2>8. /\ t \in ConnState /\ Later(u, t) /\ ReadsKept(u, t)
        /\ t.read_state = u.read_state /\ t.reading = u.reading
        /\ t.deadline = u.deadline /\ Live(t) = Live(u)
        /\ \A r \in Requests : PlacesOf(t, r) + Occurrences(u.read_queue, {r})
                                 = PlacesOf(u, r) + Occurrences(q, {r})
    BY <2>1, <2>7, ReadQueueChanged
  <2> HIDE DEF t
  <2>9. Tidy(t)
    BY <2>4, <2>8 DEF Serves, Tidy, ReadBound, Watched
  <2>10. Later(s, t)
    BY <2>4, <2>8, LaterTwice DEF Serves
  <2>11. Moved(s, t, None)
    <3> SUFFICES ASSUME NEW r \in Requests
                 PROVE  PlacesOf(t, r) = PlacesOf(s, r) + One(r, None)
      BY DEF Moved
    <3>1. /\ PlacesOf(s, r) \in Nat /\ PlacesOf(t, r) \in Nat /\ One(r, None) = 0
          /\ One(r, a) \in Nat
      BY <1>0, <2>8, PlacesOfType, OneType, OneNone
    <3>2. PlacesOf(u, r) = PlacesOf(s, r) + One(r, a)
      BY <2>4 DEF Serves, Moved
    <3>3. Occurrences(s.read_queue, {r}) = Occurrences(q, {r}) + One(r, a)
      BY <1>2, <2>1, QueueTail DEF a, q
    <3>4. Occurrences(q, {r}) \in Nat
      BY <2>1, PlacesFinite
    <3>5. PlacesOf(t, r) + Occurrences(s.read_queue, {r}) = PlacesOf(u, r) + Occurrences(q, {r})
      BY <2>4, <2>8
    <3> QED  BY <3>1, <3>2, <3>3, <3>4, <3>5
  <2> QED  BY <2>6, <2>9, <2>10, <2>11 DEF Serves
<1> QED  BY <1>1, <1>2

(* The handlers that give up a whole queue are for the requests in it.      *)
LEMMA QueueHandlers ==
  ASSUME NEW q \in Seq(Requests), NEW h \in {"Write", "SizeRead"}, NEW res \in Outcomes \ {"ok"}
  PROVE  LET hs == [i \in 1 .. Len(q) |-> H(h, q[i], res)] IN
         /\ hs \in Seq(Quiet)
         /\ \A r \in Requests : Occurrences(hs, HandlersOf(r)) = Occurrences(q, {r})
<1> DEFINE hs == [i \in 1 .. Len(q) |-> H(h, q[i], res)]
<1>1. ASSUME NEW a \in Requests
      PROVE  H(h, a, res) \in Quiet /\ H(h, a, res).arg = a
  BY HandlerOf DEF Quiet
<1>2. Len(q) \in Nat /\ \A i \in 1 .. Len(q) : q[i] \in Requests
  OBVIOUS
<1>3. /\ hs \in Seq(Quiet) /\ Len(hs) = Len(q)
      /\ \A i \in 1 .. Len(q) : hs[i] \in Quiet /\ hs[i].arg = q[i]
  <2>1. \A i \in 1 .. Len(q) : H(h, q[i], res) \in Quiet /\ H(h, q[i], res).arg = q[i]
    BY <1>1, <1>2
  <2> QED  BY <1>2, <2>1
<1> HIDE DEF hs
<1>4. ASSUME NEW r \in Requests, NEW i \in 1 .. Len(q)
      PROVE  hs[i] \in HandlersOf(r) <=> q[i] \in {r}
  BY <1>3 DEF HandlersOf, Quiet
<1>5. ASSUME NEW r \in Requests
      PROVE  Occurrences(hs, HandlersOf(r)) = Occurrences(q, {r})
  BY <1>3, <1>4, OccSame
<1> QED  BY <1>3, <1>5 DEF hs

(* Giving up the responses still awaited gives each of their requests a     *)
(* handler instead.                                                         *)
LEMMA GiveUpEffect ==
  ASSUME NEW s \in ConnState
  PROVE  Keeps(s, GiveUpResponses(s), None)
<1> DEFINE q == s.read_queue
           u == [s EXCEPT !.read_queue = <<>>]
           hs == [i \in 1 .. Len(q) |-> H("SizeRead", q[i], "not_connected")]
           t == PostAll(u, hs)
<1>1. q \in Seq(Requests)
  BY DEF ConnState
<1>2. /\ u \in ConnState /\ Later(s, u) /\ ReadsKept(s, u)
      /\ \A r \in Requests : PlacesOf(u, r) + Occurrences(q, {r})
                               = PlacesOf(s, r) + Occurrences(<<>>, {r})
  BY EmptyQueues, ReadQueueChanged
<1>3. /\ hs \in Seq(Quiet)
      /\ \A r \in Requests : Occurrences(hs, HandlersOf(r)) = Occurrences(q, {r})
  BY <1>1, QueueHandlers DEF Outcomes
<1>4. GiveUpResponses(s) = t
  BY DEF GiveUpResponses
<1> HIDE DEF hs, u, q
<1>5. /\ t \in ConnState /\ Later(u, t) /\ ReadsKept(u, t)
      /\ \A r \in Requests : PlacesOf(t, r) = PlacesOf(u, r) + Occurrences(hs, HandlersOf(r))
  BY <1>2, <1>3, PostAllEffect
<1> HIDE DEF t
<1>6. ASSUME NEW r \in Requests
      PROVE  PlacesOf(t, r) = PlacesOf(s, r) + One(r, None)
  <2>1. /\ PlacesOf(s, r) \in Nat /\ PlacesOf(u, r) \in Nat /\ One(r, None) = 0
        /\ Occurrences(q, {r}) \in Nat
    BY <1>1, <1>2, PlacesOfType, OneNone, PlacesFinite
  <2>2. PlacesOf(t, r) = PlacesOf(u, r) + Occurrences(q, {r})
    BY <1>3, <1>5
  <2>3. PlacesOf(u, r) + Occurrences(q, {r}) = PlacesOf(s, r) + 0
    BY <1>2, OccEmpty
  <2> QED  BY <2>1, <2>2, <2>3
<1>7. ReadsKept(s, t)
  <2>1. Live(s) \in Nat /\ Live(u) \in Nat /\ Live(t) \in Nat
    BY <1>2, <1>5, LiveType
  <2> QED  BY <1>2, <1>5, <2>1 DEF ReadsKept
<1>8. Later(s, t)
  BY <1>2, <1>5, LaterTwice
<1> QED  BY <1>4, <1>5, <1>6, <1>7, <1>8 DEF Keeps, Moved

(* EnqueueResponse gives the request one place on each of its paths.        *)
LEMMA EnqueueResponseEffect ==
  ASSUME NEW s, Tidy(s), NEW a \in Requests
  PROVE  Serves(s, EnqueueResponse(s, a), a)
<1>0. s \in ConnState /\ a # None
  BY KafkaConstants DEF Tidy, Requests, None
<1>1. CASE s.state # "connected"
  <2> DEFINE h == H("User", a, "not_connected")
             t1 == Post(s, h)
             t2 == GiveUpResponses(t1)
             t3 == NextRequest(t2)
  <2>1. h \in Handler /\ h \notin LiveReads /\ h.arg = a
    BY HandlerOf DEF Outcomes
  <2>2. EnqueueResponse(s, a) = t3
    BY <1>1 DEF EnqueueResponse
  <2> HIDE DEF h
  <2>3. Keeps(s, t1, a) /\ t1 \in ConnState
    BY <1>0, <2>1, PostEffect
  <2> HIDE DEF t1
  <2>4. Keeps(t1, t2, None) /\ t2 \in ConnState
    BY <2>3, GiveUpEffect DEF Keeps
  <2> HIDE DEF t2
  <2>5. Keeps(t2, t3, None)
    BY <2>4, NextRequestEffect
  <2> HIDE DEF t3
  <2>6. Keeps(s, t2, a)
    BY <1>0, <2>3, <2>4, Compose
  <2>7. Keeps(s, t3, a)
    BY <1>0, <2>5, <2>6, Compose
  <2> QED  BY <2>2, <2>7, KeepsServes
<1>2. CASE s.state = "connected" /\ s.read_state # "busy" /\ s.read_queue = <<>>
  <2>1. EnqueueResponse(s, a) = ReceiveResponse(s, a)
    BY <1>2 DEF EnqueueResponse
  <2>2. s.read_state = "idle"
    BY <1>0, <1>2 DEF ConnState
  <2>3. Live(s) = 0
    BY <2>2 DEF Tidy, ReadBound
  <2> QED  BY <1>0, <2>1, <2>3, ReceiveResponseEffect
<1>3. CASE s.state = "connected" /\ (s.read_state = "busy" \/ s.read_queue # <<>>)
  <2> DEFINE q == Append(s.read_queue, a)
             u == [s EXCEPT !.read_queue = q]
  <2>1. s.read_queue \in Seq(Requests) /\ q \in Seq(Requests)
    <3>1. s.read_queue \in Seq(Requests)
      BY <1>0 DEF ConnState
    <3> QED  BY <3>1
  <2>2. \A r \in Requests : Occurrences(q, {r}) = Occurrences(s.read_queue, {r}) + One(r, a)
    BY <2>1, QueueAppended
  <2>3. u = [s EXCEPT !.read_queue = Append(@, a)]
    OBVIOUS
  <2> HIDE DEF q
  <2>4. /\ u \in ConnState /\ Later(s, u) /\ ReadsKept(s, u)
        /\ \A r \in Requests : PlacesOf(u, r) + Occurrences(s.read_queue, {r})
                                 = PlacesOf(s, r) + Occurrences(q, {r})
    BY <1>0, <2>1, ReadQueueChanged
  <2> HIDE DEF u
  <2>5. ASSUME NEW r \in Requests
        PROVE  PlacesOf(u, r) = PlacesOf(s, r) + One(r, a)
    <3>1. Occurrences(q, {r}) = Occurrences(s.read_queue, {r}) + One(r, a)
      BY <2>2
    <3>2. Occurrences(s.read_queue, {r}) \in Nat /\ One(r, a) \in Nat
      BY <2>1, PlacesFinite, OneType
    <3>3. PlacesOf(s, r) \in Nat /\ PlacesOf(u, r) \in Nat
      BY <1>0, <2>4, PlacesOfType
    <3>4. PlacesOf(u, r) + Occurrences(s.read_queue, {r}) = PlacesOf(s, r) + Occurrences(q, {r})
      BY <2>4
    <3> QED  BY <3>1, <3>2, <3>3, <3>4
  <2>6. Keeps(s, u, a)
    BY <2>4, <2>5 DEF Keeps, Moved
  <2>7. Serves(s, u, a)
    BY <2>6, KeepsServes
  <2>8. CASE s.read_state = "busy"
    <3>1. EnqueueResponse(s, a) = u
      BY <1>3, <2>3, <2>8 DEF EnqueueResponse
    <3> QED  BY <2>7, <3>1
  <2>9. CASE s.read_state # "busy"
    <3>1. EnqueueResponse(s, a) = NextResponse(u)
      BY <1>3, <2>3, <2>9 DEF EnqueueResponse
    <3>2. Serves(u, NextResponse(u), None)
      BY <2>7, NextResponseEffect DEF Serves
    <3>3. Serves(s, NextResponse(u), a)
      BY <1>0, <2>6, <3>2, KeepsThenServes
    <3> QED  BY <3>1, <3>3
  <2> QED  BY <2>8, <2>9
<1> QED  BY <1>1, <1>2, <1>3

(* HandleAsyncResolve keeps every request, also those of the socket it      *)
(* closes and opens again.                                                  *)
LEMMA ResolveHandlerEffect ==
  ASSUME NEW s \in ConnState, NEW res \in Outcomes
  PROVE  Keeps(s, HandleAsyncResolve(s, res), None)
<1>1. CASE res # "ok"
  <2> DEFINE h == H("AutoConnect", None, res)
             t1 == Post(s, h)
             t2 == Close(t1)
  <2>1. h \in Handler /\ h \notin LiveReads /\ h.arg = None
    BY HandlerOfNone
  <2>2. HandleAsyncResolve(s, res) = t2
    BY <1>1 DEF HandleAsyncResolve
  <2> HIDE DEF h
  <2>3. Keeps(s, t1, None) /\ t1 \in ConnState
    BY <2>1, PostEffect
  <2> HIDE DEF t1
  <2>4. Keeps(t1, t2, None)
    BY <2>3, CloseEffect
  <2> HIDE DEF t2
  <2> QED  BY <2>2, <2>3, <2>4, Compose
<1>2. CASE res = "ok"
  <2> DEFINE t1 == AbortSocket(s)
             t2 == [t1 EXCEPT !.open = TRUE]
             t3 == Connect(t2)
             t4 == SetDeadline(t3, "connect_deadline")
  <2>1. HandleAsyncResolve(s, res) = t4
    BY <1>2 DEF HandleAsyncResolve
  <2>2. Keeps(s, t1, None) /\ t1 \in ConnState
    BY AbortSocketEffect DEF Keeps
  <2> HIDE DEF t1
  <2>3. /\ t2 \in ConnState /\ SameQueues(t1, t2) /\ t2.read_state = t1.read_state
        /\ t2.deadline = t1.deadline
    BY <2>2 DEF ConnState, SameQueues
  <2>4. Keeps(t1, t2, None)
    BY <2>2, <2>3, OtherFields
  <2> HIDE DEF t2
  <2>5. Keeps(t2, t3, None) /\ t3 \in ConnState
    BY <2>3, ConnectEffect DEF Keeps
  <2> HIDE DEF t3
  <2>6. Keeps(t3, t4, None)
    BY <2>5, SetDeadlineEffect DEF Timers
  <2> HIDE DEF t4
  <2>7. Keeps(s, t2, None)
    BY <2>2, <2>4, Compose
  <2>8. Keeps(s, t3, None)
    BY <2>5, <2>7, Compose
  <2> QED  BY <2>1, <2>6, <2>8, Compose
<1> QED  BY <1>1, <1>2

(* HandleAsyncConnect keeps every request.                                  *)
LEMMA ConnectHandlerEffect ==
  ASSUME NEW s \in ConnState, NEW res \in Outcomes
  PROVE  Keeps(s, HandleAsyncConnect(s, res), None)
<1> DEFINE h == H("AutoConnect", None, res)
           open == Cancel([s EXCEPT !.state = "connected"], {"connect_deadline"})
           t1 == IF res # "ok" THEN Close(s) ELSE open
           t2 == Post(t1, h)
<1>1. h \in Handler /\ h \notin LiveReads /\ h.arg = None
  BY HandlerOfNone
<1>2. HandleAsyncConnect(s, res) = t2
  BY DEF HandleAsyncConnect
<1>3. Keeps(s, open, None)
  <2> DEFINE u == [s EXCEPT !.state = "connected"]
  <2>1. /\ u \in ConnState /\ SameQueues(s, u) /\ u.read_state = s.read_state
        /\ u.deadline = s.deadline
    BY DEF ConnState, SameQueues
  <2>2. Keeps(s, u, None)
    BY <2>1, OtherFields
  <2> HIDE DEF u
  <2>3. Keeps(u, Cancel(u, {"connect_deadline"}), None)
    <3>1. {"connect_deadline"} \in SUBSET Timers /\ "read_deadline" \notin {"connect_deadline"}
      BY DEF Timers
    <3> QED  BY <2>1, <3>1, CancelEffect
  <2>4. Keeps(s, Cancel(u, {"connect_deadline"}), None)
    BY <2>2, <2>3, Compose
  <2> QED  BY <2>4 DEF u
<1> HIDE DEF h, open
<1>4. Keeps(s, t1, None)
  BY <1>3, CloseEffect
<1>5. t1 \in ConnState
  BY <1>4 DEF Keeps
<1> HIDE DEF t1
<1>6. Keeps(t1, t2, None)
  BY <1>1, <1>5, PostEffect
<1> HIDE DEF t2
<1> QED  BY <1>2, <1>4, <1>6, Compose

(* HandleAsyncAutoConnect gives up the write queue or sends its first       *)
(* request, and loses none.                                                 *)
LEMMA AutoConnectHandlerEffect ==
  ASSUME NEW s \in ConnState, NEW res \in Outcomes
  PROVE  Keeps(s, HandleAsyncAutoConnect(s, res), None)
<1>1. CASE res # "ok"
  <2> DEFINE q == s.write_queue
             u == [s EXCEPT !.write_queue = <<>>]
             hs == [i \in 1 .. Len(q) |-> H("Write", q[i], res)]
             t == PostAll(u, hs)
  <2>1. q \in Seq(Requests)
    BY DEF ConnState
  <2>2. /\ u \in ConnState /\ Later(s, u) /\ ReadsKept(s, u)
        /\ \A r \in Requests : PlacesOf(u, r) + Occurrences(q, {r})
                                 = PlacesOf(s, r) + Occurrences(<<>>, {r})
    BY EmptyQueues, WriteQueueChanged
  <2>3. /\ hs \in Seq(Quiet)
        /\ \A r \in Requests : Occurrences(hs, HandlersOf(r)) = Occurrences(q, {r})
    BY <1>1, <2>1, QueueHandlers
  <2>4. HandleAsyncAutoConnect(s, res) = t
    BY <1>1 DEF HandleAsyncAutoConnect
  <2> HIDE DEF hs, u, q
  <2>5. /\ t \in ConnState /\ Later(u, t) /\ ReadsKept(u, t)
        /\ \A r \in Requests : PlacesOf(t, r) = PlacesOf(u, r) + Occurrences(hs, HandlersOf(r))
    BY <2>2, <2>3, PostAllEffect
  <2> HIDE DEF t
  <2>6. ASSUME NEW r \in Requests
        PROVE  PlacesOf(t, r) = PlacesOf(s, r) + One(r, None)
    <3>1. /\ PlacesOf(s, r) \in Nat /\ PlacesOf(u, r) \in Nat /\ One(r, None) = 0
          /\ Occurrences(q, {r}) \in Nat
      BY <2>1, <2>2, PlacesOfType, OneNone, PlacesFinite
    <3>2. PlacesOf(t, r) = PlacesOf(u, r) + Occurrences(q, {r})
      BY <2>3, <2>5
    <3>3. PlacesOf(u, r) + Occurrences(q, {r}) = PlacesOf(s, r) + 0
      BY <2>2, OccEmpty
    <3> QED  BY <3>1, <3>2, <3>3
  <2>7. ReadsKept(s, t)
    <3>1. Live(s) \in Nat /\ Live(u) \in Nat /\ Live(t) \in Nat
      BY <2>2, <2>5, LiveType
    <3> QED  BY <2>2, <2>5, <3>1 DEF ReadsKept
  <2>8. Later(s, t)
    BY <2>2, <2>5, LaterTwice
  <2> QED  BY <2>4, <2>5, <2>6, <2>7, <2>8 DEF Keeps, Moved
<1>2. CASE res = "ok" /\ s.write_queue = <<>>
  <2>1. HandleAsyncAutoConnect(s, res) = s
    BY <1>2 DEF HandleAsyncAutoConnect
  <2> QED  BY <2>1, KeepsItself
<1>3. CASE res = "ok" /\ s.write_queue # <<>>
  <2>1. HandleAsyncAutoConnect(s, res)
          = [SendRequest(s, Head(s.write_queue)) EXCEPT !.write_queue = Tail(@)]
    BY <1>3 DEF HandleAsyncAutoConnect
  <2> QED  BY <1>3, <2>1, SendHead
<1> QED  BY <1>1, <1>2, <1>3

(* Reporting a failure to the caller and closing the connection gives the   *)
(* request its one place.                                                   *)
LEMMA FailureReported ==
  ASSUME NEW s \in ConnState, NEW a \in Requests, NEW res \in Outcomes, res # "ok"
  PROVE  Keeps(s, Close(Post(s, H("User", a, res))), a)
<1> DEFINE h == H("User", a, res)
           t1 == Post(s, h)
           t2 == Close(t1)
<1>1. h \in Handler /\ h \notin LiveReads /\ h.arg = a
  BY HandlerOf
<1>2. a # None
  BY KafkaConstants DEF Requests, None
<1> HIDE DEF h
<1>3. Keeps(s, t1, a) /\ t1 \in ConnState
  BY <1>1, PostEffect
<1> HIDE DEF t1
<1>4. Keeps(t1, t2, None)
  BY <1>3, CloseEffect
<1> HIDE DEF t2
<1>5. Keeps(s, t2, a)
  BY <1>2, <1>3, <1>4, Compose
<1> QED  BY <1>5 DEF h, t1, t2

(* HandleAsyncRequestWrite hands the request on to EnqueueResponse, or to   *)
(* the caller.                                                              *)
LEMMA WriteHandlerEffect ==
  ASSUME NEW s, Tidy(s), NEW a \in Requests, NEW res \in Outcomes
  PROVE  Serves(s, HandleAsyncRequestWrite(s, a, res), a)
<1> DEFINE u == [s EXCEPT !.write_state = "idle"]
           written == Cancel(u, {"write_deadline"})
<1>0. s \in ConnState /\ a # None
  BY KafkaConstants DEF Tidy, Requests, None
<1>1. /\ u \in ConnState /\ SameQueues(s, u) /\ u.read_state = s.read_state
      /\ u.deadline = s.deadline
  BY <1>0 DEF ConnState, SameQueues
<1>2. Keeps(s, u, None)
  BY <1>0, <1>1, OtherFields
<1>3. HandleAsyncRequestWrite(s, a, res)
        = IF res # "ok" THEN Close(Post(written, H("User", a, res)))
                        ELSE EnqueueResponse(written, a)
  BY DEF HandleAsyncRequestWrite
<1> HIDE DEF u
<1>4. Keeps(u, written, None)
  <2>1. {"write_deadline"} \in SUBSET Timers /\ "read_deadline" \notin {"write_deadline"}
    BY DEF Timers
  <2> QED  BY <1>1, <2>1, CancelEffect
<1> HIDE DEF written
<1>5. Keeps(s, written, None)
  BY <1>0, <1>2, <1>4, Compose
<1>6. written \in ConnState /\ Tidy(written)
  <2>1. Serves(s, written, None)
    BY <1>5, KeepsServes
  <2> QED  BY <2>1 DEF Serves, Tidy
<1>7. CASE res # "ok"
  <2> DEFINE t == Close(Post(written, H("User", a, res)))
  <2>1. Keeps(written, t, a)
    BY <1>6, <1>7, FailureReported
  <2> HIDE DEF t
  <2>2. Keeps(s, t, a)
    BY <1>0, <1>5, <2>1, Compose
  <2>3. Serves(s, t, a)
    BY <2>2, KeepsServes
  <2> QED  BY <1>3, <1>7, <2>3 DEF t
<1>8. CASE res = "ok"
  <2>1. Serves(written, EnqueueResponse(written, a), a)
    BY <1>6, EnqueueResponseEffect
  <2>2. Serves(s, EnqueueResponse(written, a), a)
    BY <1>0, <1>5, <2>1, KeepsThenServes
  <2> QED  BY <1>3, <1>8, <2>2
<1> QED  BY <1>7, <1>8

(* HandleAsyncResponseSizeRead starts the read of the rest only after the   *)
(* read of the size has ended.                                              *)
LEMMA SizeReadHandlerEffect ==
  ASSUME NEW s, Tidy(s), NEW a \in Requests, NEW res \in Outcomes,
         res = "ok" => s.read_state = "busy" /\ Live(s) = 0
  PROVE  Serves(s, HandleAsyncResponseSizeRead(s, a, res), a)
<1>0. s \in ConnState /\ a # None
  BY KafkaConstants DEF Tidy, Requests, None
<1>1. CASE res # "ok"
  <2>1. HandleAsyncResponseSizeRead(s, a, res) = Close(Post(s, H("User", a, res)))
    BY <1>1 DEF HandleAsyncResponseSizeRead
  <2> QED  BY <1>0, <1>1, <2>1, FailureReported, KeepsServes
<1>2. CASE res = "ok"
  <2> DEFINE u == Read(s, "Read", a)
             t == SetDeadline(u, "read_deadline")
  <2>1. HandleAsyncResponseSizeRead(s, a, res) = t
    BY <1>2 DEF HandleAsyncResponseSizeRead
  <2>2. /\ u \in ConnState /\ Later(s, u) /\ Moved(s, u, a) /\ Live(u) =< Live(s) + 1
        /\ u.read_state = s.read_state
    BY <1>0, ReadEffect
  <2> HIDE DEF u
  <2>3. Live(u) =< 1 /\ u.read_state = "busy"
    BY <1>2, <2>2
  <2>4. Serves(u, t, None)
    BY <2>2, <2>3, DeadlineSet
  <2> HIDE DEF t
  <2>5. Later(s, t) /\ Moved(s, t, a)
    BY <1>0, <2>2, <2>4, LaterTwice, MovedTwice DEF Serves, Tidy
  <2> QED  BY <2>1, <2>4, <2>5 DEF Serves
<1> QED  BY <1>1, <1>2

(* The response goes to the caller, and the next read may start.            *)
LEMMA GiveResponseEffect ==
  ASSUME NEW s \in ConnState, Live(s) = 0, NEW a \in Requests,
         NEW response \in Requests \cup {None}
  PROVE  Serves(s, GiveResponse(s, a, response), a)
<1> DEFINE h == [H("User", a, "ok") EXCEPT !.response = response]
           t1 == [s EXCEPT !.read_state = "idle"]
           t2 == Cancel(t1, {"read_deadline"})
           t3 == Post(t2, h)
<1>1. h \in Handler /\ h \notin LiveReads /\ h.arg = a
  BY DEF H, Handler, LiveReads, Outcomes
<1>2. GiveResponse(s, a, response) = t3
  BY DEF GiveResponse
<1>3. s.reading = <<>>
  <2>1. s.ready \in Seq(Handler) /\ s.reading \in Seq(ReadOperation)
    BY DEF ConnState
  <2>2. Occurrences(s.ready, LiveReads) \in Nat /\ Len(s.reading) \in Nat
    BY <2>1, PlacesFinite
  <2>3. Len(s.reading) = 0
    BY <2>2 DEF Live
  <2> QED  BY <2>1, <2>3
<1> HIDE DEF h
<1>4. t1 \in ConnState /\ SameQueues(s, t1) /\ t1.deadline = s.deadline
      /\ t1.reading = <<>> /\ t1.read_state = "idle"
  BY <1>3 DEF ConnState, SameQueues
<1> HIDE DEF t1
<1>5. Live(t1) = 0 /\ Later(s, t1)
  BY <1>4 DEF Live, SameQueues, Later, Calls
<1>6. Moved(s, t1, None)
  <2> SUFFICES ASSUME NEW x \in Requests
               PROVE  PlacesOf(t1, x) = PlacesOf(s, x) + One(x, None)
    BY DEF Moved
  <2>1. PlacesOf(s, x) \in Nat /\ One(x, None) = 0
    BY PlacesOfType, OneNone
  <2>2. PlacesOf(t1, x) = PlacesOf(s, x)
    BY <1>4 DEF PlacesOf, SameQueues
  <2> QED  BY <2>1, <2>2
<1>7. Keeps(t1, t2, None)
  <2>1. {"read_deadline"} \in SUBSET Timers
    BY DEF Timers
  <2> QED  BY <1>4, <2>1, CancelEffect
<1>8. Serves(s, t1, None)
  BY <1>4, <1>5, <1>6 DEF Serves, Tidy, ReadBound, Watched
<1> HIDE DEF t2
<1>9. t2 \in ConnState /\ Serves(s, t2, None)
  BY <1>7, <1>8, ServesThenKeeps DEF Keeps
<1>10. Keeps(t2, t3, a)
  BY <1>1, <1>9, PostEffect
<1> HIDE DEF t3
<1>11. Serves(s, t3, a)
  BY <1>9, <1>10, ServesThenKeeps
<1> QED  BY <1>2, <1>11

(* HandleAsyncResponseRead reports the request once.                        *)
LEMMA ReadHandlerEffect ==
  ASSUME NEW s, Tidy(s), NEW a \in Requests, NEW res \in Outcomes,
         NEW response \in Requests \cup {None}, res = "ok" => Live(s) = 0
  PROVE  Serves(s, HandleAsyncResponseRead(s, a, res, response), a)
<1>0. s \in ConnState /\ a # None
  BY KafkaConstants DEF Tidy, Requests, None
<1>1. CASE res # "ok"
  <2>1. HandleAsyncResponseRead(s, a, res, response) = Close(Post(s, H("User", a, res)))
    BY <1>1 DEF HandleAsyncResponseRead
  <2> QED  BY <1>0, <1>1, <2>1, FailureReported, KeepsServes
<1>2. CASE res = "ok"
  <2> DEFINE u == GiveResponse(s, a, response)
  <2>1. HandleAsyncResponseRead(s, a, res, response) = NextRequest(u)
    BY <1>2 DEF HandleAsyncResponseRead
  <2>2. Serves(s, u, a)
    BY <1>0, <1>2, GiveResponseEffect
  <2> HIDE DEF u
  <2>3. Keeps(u, NextRequest(u), None)
    BY <2>2, NextRequestEffect DEF Serves, Tidy
  <2>4. Serves(s, NextRequest(u), a)
    BY <1>0, <2>2, <2>3, ServesThenKeeps
  <2> QED  BY <2>1, <2>4
<1> QED  BY <1>1, <1>2

(* A deadline's handler closes the connection, unless the timer was set     *)
(* again meanwhile.                                                         *)
LEMMA DeadlineHandlerEffect ==
  ASSUME NEW s \in ConnState, NEW u \in Timers
  PROVE  LET t == HandleDeadline(s, u) IN
         Keeps(s, t, None) /\ t.deadline[u] # "expired"
<1>1. CASE s.deadline[u] # "expired"
  <2>1. HandleDeadline(s, u) = s
    BY <1>1 DEF HandleDeadline
  <2> QED  BY <1>1, <2>1, KeepsItself
<1>2. CASE s.deadline[u] = "expired"
  <2> DEFINE d == [v \in Timers |-> "off"]
             x == [s EXCEPT !.deadline = d]
             t == Close(x)
  <2>1. HandleDeadline(s, u) = t
    BY <1>2 DEF HandleDeadline
  <2>2. d \in [Timers -> {"off", "armed", "expired"}] /\ \A v \in Timers : d[v] = "off"
    OBVIOUS
  <2> HIDE DEF d
  <2>3. /\ x \in ConnState /\ SameQueues(s, x) /\ x.read_state = s.read_state
        /\ x.deadline = d
    BY <2>2 DEF ConnState, SameQueues
  <2> HIDE DEF x
  <2>4. Keeps(x, t, None) /\ t.reading = <<>>
    BY <2>3, CloseEffect
  <2> HIDE DEF t
  <2>5. Later(s, t)
    <3>1. Later(s, x)
      BY <2>2, <2>3 DEF Later, Calls, SameQueues
    <3> QED  BY <2>4, <3>1, LaterTwice DEF Keeps
  <2>6. ReadsKept(s, t)
    <3>1. Live(x) = Live(s)
      BY <2>3 DEF Live, SameQueues
    <3> QED  BY <2>3, <2>4, <3>1 DEF Keeps, ReadsKept
  <2>7. Moved(s, t, None)
    <3>1. \A r \in Requests : PlacesOf(x, r) = PlacesOf(s, r)
      BY <2>3 DEF PlacesOf, SameQueues
    <3> QED  BY <2>4, <3>1 DEF Keeps, Moved
  <2>8. t.deadline[u] # "expired"
    BY <2>2, <2>3, <2>4 DEF Keeps, Later
  <2> QED  BY <2>1, <2>4, <2>5, <2>6, <2>7, <2>8 DEF Keeps
<1> QED  BY <1>1, <1>2

-----------------------------------------------------------------------------
(* Steps of io_service.                                                     *)

(* A timer that ran out has its handler in io_service's queue.              *)
Rings(s) == \A u \in Timers : s.deadline[u] = "expired" => Calls(s, u)

(* It stays so under every member function.                                 *)
LEMMA LaterRings ==
  ASSUME NEW s, NEW t, Rings(s), Later(s, t)
  PROVE  Rings(t)
BY DEF Rings, Later

(* The handler io_service calls leaves the queue: its request has one place *)
(* less, and if it reports a successful read none is live any more.         *)
LEMMA HandlerTaken ==
  ASSUME NEW s, Tidy(s), s.ready # <<>>
  PROVE  LET h == Head(s.ready)
             t == [s EXCEPT !.ready = Tail(@)] IN
         /\ h \in Handler /\ Tidy(t)
         /\ t.read_state = s.read_state /\ t.deadline = s.deadline
         /\ h \in LiveReads => Live(t) = 0 /\ t.read_state = "busy"
         /\ \A u \in Timers : Calls(s, u) /\ h.h # u => Calls(t, u)
         /\ \A r \in Requests : PlacesOf(s, r) = PlacesOf(t, r) + One(r, h.arg)
<1> DEFINE h == Head(s.ready)
           q == Tail(s.ready)
           t == [s EXCEPT !.ready = q]
<1>0. s \in ConnState
  BY DEF Tidy
<1>1. /\ s.ready \in Seq(Handler) /\ h \in Handler /\ q \in Seq(Handler)
      /\ Len(q) = Len(s.ready) - 1 /\ \A i \in 1 .. Len(q) : q[i] = s.ready[i + 1]
      /\ Len(s.ready) \in Nat /\ h = s.ready[1]
  <2>1. s.ready \in Seq(Handler)
    BY <1>0 DEF ConnState
  <2> QED  BY <2>1
<1>2. /\ \A T : h \in T => Occurrences(s.ready, T) = Occurrences(q, T) + 1
      /\ \A T : h \notin T => Occurrences(s.ready, T) = Occurrences(q, T)
  BY <1>1, OccHead
<1>3. t = [s EXCEPT !.ready = Tail(@)]
  OBVIOUS
<1> HIDE DEF h, q
<1>4. /\ t \in ConnState /\ t.ready = q /\ t.reading = s.reading
      /\ t.writing = s.writing /\ t.write_queue = s.write_queue
      /\ t.read_queue = s.read_queue /\ t.deadline = s.deadline
      /\ t.read_state = s.read_state
  BY <1>0, <1>1 DEF ConnState
<1> HIDE DEF t
<1>5. /\ h \in LiveReads => Live(s) = Live(t) + 1
      /\ h \notin LiveReads => Live(s) = Live(t)
      /\ Live(t) \in Nat
  <2>1. Occurrences(q, LiveReads) \in Nat /\ Len(s.reading) \in Nat
    <3>1. s.reading \in Seq(ReadOperation)
      BY <1>0 DEF ConnState
    <3> QED  BY <1>1, <3>1, PlacesFinite
  <2>2. Live(t) \in Nat
    BY <1>4, LiveType
  <2> QED  BY <1>2, <1>4, <2>1, <2>2 DEF Live
<1>6. Tidy(t) /\ (h \in LiveReads => Live(t) = 0 /\ t.read_state = "busy")
  <2>1. ReadBound(s) /\ Watched(s) /\ s.read_state \in {"idle", "busy"}
    BY <1>0 DEF Tidy, ConnState
  <2>2. ReadBound(t) /\ (h \in LiveReads => Live(t) = 0 /\ t.read_state = "busy")
    BY <1>4, <1>5, <2>1 DEF ReadBound
  <2>3. Watched(t)
    BY <1>4, <2>1 DEF Watched
  <2> QED  BY <1>4, <2>2, <2>3 DEF Tidy
<1>7. ASSUME NEW u \in Timers, Calls(s, u), h.h # u
      PROVE  Calls(t, u)
  <2>1. PICK i \in 1 .. Len(s.ready) : s.ready[i].h = u
    BY <1>7 DEF Calls
  <2>2. i # 1
    BY <1>1, <1>7, <2>1
  <2>3. i - 1 \in 1 .. Len(q) /\ q[i - 1] = s.ready[i]
    BY <1>1, <2>1, <2>2
  <2> QED  BY <1>4, <2>1, <2>3 DEF Calls
<1>8. ASSUME NEW r \in Requests
      PROVE  PlacesOf(s, r) = PlacesOf(t, r) + One(r, h.arg)
  <2>1. Occurrences(s.ready, HandlersOf(r)) = Occurrences(q, HandlersOf(r)) + One(r, h.arg)
    <3>1. CASE h.arg = r
      <4>1. h \in HandlersOf(r) /\ One(r, h.arg) = 1
        BY <1>1, <3>1 DEF HandlersOf, One
      <4> QED  BY <1>2, <4>1
    <3>2. CASE h.arg # r
      <4>1. h \notin HandlersOf(r) /\ One(r, h.arg) = 0
        BY <3>2 DEF HandlersOf, One
      <4>2. Occurrences(q, HandlersOf(r)) \in Nat
        BY <1>1, PlacesFinite
      <4> QED  BY <1>2, <4>1, <4>2
    <3> QED  BY <3>1, <3>2
  <2>2. One(r, h.arg) \in Nat
    BY OneType
  <2>3. /\ Occurrences(t.ready, HandlersOf(r)) \in Nat
        /\ Occurrences(t.reading, OperationsOf(r)) \in Nat
        /\ Occurrences(t.writing, OperationsOf(r)) \in Nat
        /\ Occurrences(t.write_queue, {r}) \in Nat
        /\ Occurrences(t.read_queue, {r}) \in Nat
    BY <1>4, PlacesOfType
  <2> QED  BY <1>4, <2>1, <2>2, <2>3 DEF PlacesOf
<1>9. /\ h \in Handler /\ Tidy(t)
      /\ t.read_state = s.read_state /\ t.deadline = s.deadline
      /\ h \in LiveReads => Live(t) = 0 /\ t.read_state = "busy"
      /\ \A u \in Timers : Calls(s, u) /\ h.h # u => Calls(t, u)
      /\ \A r \in Requests : PlacesOf(s, r) = PlacesOf(t, r) + One(r, h.arg)
  BY <1>1, <1>4, <1>6, <1>7, <1>8
<1> QED  BY <1>3, <1>9 DEF h

(* What every step of the io_service thread, but the caller's own handler,  *)
(* does to the requests: each is in as many places as before.               *)
Undisturbed == Tidy(c') /\ Rings(c') /\ \A r \in Requests : PlacesOf(c', r) = PlacesOf(c, r)

(* Taking a handler off the queue and doing what it says comes to nothing   *)
(* gained and nothing lost.                                                 *)
LEMMA HandlerRan ==
  ASSUME Tidy(c), Rings(c), c.ready # <<>>, c' \in ConnState,
         NEW s, s = [c EXCEPT !.ready = Tail(@)],
         Serves(s, c', Head(c.ready).arg), Head(c.ready).h \notin Timers
  PROVE  Undisturbed
<1> DEFINE h == Head(c.ready)
<1>1. /\ Tidy(s) /\ s.deadline = c.deadline
      /\ \A u \in Timers : Calls(c, u) /\ h.h # u => Calls(s, u)
      /\ \A r \in Requests : PlacesOf(c, r) = PlacesOf(s, r) + One(r, h.arg)
  BY HandlerTaken
<1>2. Rings(s)
  BY <1>1 DEF Rings
<1>3. Rings(c')
  BY <1>2, LaterRings DEF Serves
<1>4. \A r \in Requests : PlacesOf(c', r) = PlacesOf(c, r)
  BY <1>1 DEF Serves, Moved
<1> QED  BY <1>3, <1>4 DEF Undisturbed, Serves

(* io_service calls HandleAsyncResolve.                                     *)
LEMMA RunResolveStep ==
  ASSUME Tidy(c), Rings(c), RunResolve
  PROVE  Undisturbed
<1> DEFINE s == [c EXCEPT !.ready = Tail(@)]
           h == Head(c.ready)
<1>1. /\ c.ready # <<>> /\ h.h = "Resolve"
      /\ c' = HandleAsyncResolve(s, h.res)
  BY DEF RunResolve, Runs
<1>2. Tidy(s) /\ h \in Handler
  BY <1>1, HandlerTaken
<1> HIDE DEF s
<1>3. h.res \in Outcomes /\ h.arg = None /\ h.h \notin Timers
  BY <1>1, <1>2 DEF Handler, Timers
<1>4. Keeps(s, c', None)
  BY <1>1, <1>2, <1>3, ResolveHandlerEffect DEF Tidy
<1>5. Serves(s, c', h.arg)
  BY <1>2, <1>3, <1>4, KeepsServes
<1> QED  BY <1>1, <1>3, <1>5, HandlerRan DEF s, Serves, Tidy

(* io_service calls HandleAsyncConnect.                                     *)
LEMMA RunConnectStep ==
  ASSUME Tidy(c), Rings(c), RunConnect
  PROVE  Undisturbed
<1> DEFINE s == [c EXCEPT !.ready = Tail(@)]
           h == Head(c.ready)
<1>1. /\ c.ready # <<>> /\ h.h = "Connect"
      /\ c' = HandleAsyncConnect(s, h.res)
  BY DEF RunConnect, Runs
<1>2. Tidy(s) /\ h \in Handler
  BY <1>1, HandlerTaken
<1> HIDE DEF s
<1>3. h.res \in Outcomes /\ h.arg = None /\ h.h \notin Timers
  BY <1>1, <1>2 DEF Handler, Timers
<1>4. Keeps(s, c', None)
  BY <1>1, <1>2, <1>3, ConnectHandlerEffect DEF Tidy
<1>5. Serves(s, c', h.arg)
  BY <1>2, <1>3, <1>4, KeepsServes
<1> QED  BY <1>1, <1>3, <1>5, HandlerRan DEF s, Serves, Tidy

(* io_service calls HandleAsyncAutoConnect.                                 *)
LEMMA RunAutoConnectStep ==
  ASSUME Tidy(c), Rings(c), RunAutoConnect
  PROVE  Undisturbed
<1> DEFINE s == [c EXCEPT !.ready = Tail(@)]
           h == Head(c.ready)
<1>1. /\ c.ready # <<>> /\ h.h = "AutoConnect"
      /\ c' = HandleAsyncAutoConnect(s, h.res)
  BY DEF RunAutoConnect, Runs
<1>2. Tidy(s) /\ h \in Handler
  BY <1>1, HandlerTaken
<1> HIDE DEF s
<1>3. h.res \in Outcomes /\ h.arg = None /\ h.h \notin Timers
  BY <1>1, <1>2 DEF Handler, Timers
<1>4. Keeps(s, c', None)
  BY <1>1, <1>2, <1>3, AutoConnectHandlerEffect DEF Tidy
<1>5. Serves(s, c', h.arg)
  BY <1>2, <1>3, <1>4, KeepsServes
<1> QED  BY <1>1, <1>3, <1>5, HandlerRan DEF s, Serves, Tidy

(* io_service calls EnqueueRequest.                                         *)
LEMMA RunEnqueueRequestStep ==
  ASSUME Tidy(c), Rings(c), RunEnqueueRequest
  PROVE  Undisturbed
<1> DEFINE s == [c EXCEPT !.ready = Tail(@)]
           h == Head(c.ready)
<1>1. /\ c.ready # <<>> /\ h.h = "EnqueueRequest"
      /\ c' = EnqueueRequest(s, h.arg)
  BY DEF RunEnqueueRequest, Runs
<1>2. /\ Tidy(s) /\ h \in Handler
      /\ h \in LiveReads => Live(s) = 0 /\ s.read_state = "busy"
  BY <1>1, HandlerTaken
<1> HIDE DEF s
<1>3. /\ h.res \in Outcomes /\ h.arg \in Requests /\ h.h \notin Timers
      /\ h.response \in Requests \cup {None}
  BY <1>1, <1>2 DEF Handler, Timers
<1>4. Serves(s, c', h.arg)
  <2>1. Keeps(s, c', h.arg)
    BY <1>1, <1>2, <1>3, EnqueueRequestEffect DEF Tidy
  <2> QED  BY <1>2, <2>1, KeepsServes
<1> QED  BY <1>1, <1>3, <1>4, HandlerRan DEF s, Serves, Tidy

(* io_service calls HandleAsyncRequestWrite.                                *)
LEMMA RunWriteStep ==
  ASSUME Tidy(c), Rings(c), RunWrite
  PROVE  Undisturbed
<1> DEFINE s == [c EXCEPT !.ready = Tail(@)]
           h == Head(c.ready)
<1>1. /\ c.ready # <<>> /\ h.h = "Write"
      /\ c' = HandleAsyncRequestWrite(s, h.arg, h.res)
  BY DEF RunWrite, Runs
<1>2. /\ Tidy(s) /\ h \in Handler
      /\ h \in LiveReads => Live(s) = 0 /\ s.read_state = "busy"
  BY <1>1, HandlerTaken
<1> HIDE DEF s
<1>3. /\ h.res \in Outcomes /\ h.arg \in Requests /\ h.h \notin Timers
      /\ h.response \in Requests \cup {None}
  BY <1>1, <1>2 DEF Handler, Timers
<1>4. Serves(s, c', h.arg)
  BY <1>1, <1>2, <1>3, WriteHandlerEffect
<1> QED  BY <1>1, <1>3, <1>4, HandlerRan DEF s, Serves, Tidy

(* io_service calls HandleAsyncResponseSizeRead.                            *)
LEMMA RunSizeReadStep ==
  ASSUME Tidy(c), Rings(c), RunSizeRead
  PROVE  Undisturbed
<1> DEFINE s == [c EXCEPT !.ready = Tail(@)]
           h == Head(c.ready)
<1>1. /\ c.ready # <<>> /\ h.h = "SizeRead"
      /\ c' = HandleAsyncResponseSizeRead(s, h.arg, h.res)
  BY DEF RunSizeRead, Runs
<1>2. /\ Tidy(s) /\ h \in Handler
      /\ h \in LiveReads => Live(s) = 0 /\ s.read_state = "busy"
  BY <1>1, HandlerTaken
<1> HIDE DEF s
<1>3. /\ h.res \in Outcomes /\ h.arg \in Requests /\ h.h \notin Timers
      /\ h.response \in Requests \cup {None}
  BY <1>1, <1>2 DEF Handler, Timers
<1>4. Serves(s, c', h.arg)
  <2>1. h.res = "ok" => s.read_state = "busy" /\ Live(s) = 0
    BY <1>1, <1>2 DEF LiveReads
  <2> QED  BY <1>1, <1>2, <1>3, <2>1, SizeReadHandlerEffect
<1> QED  BY <1>1, <1>3, <1>4, HandlerRan DEF s, Serves, Tidy

(* io_service calls HandleAsyncResponseRead.                                *)
LEMMA RunReadStep ==
  ASSUME Tidy(c), Rings(c), RunRead
  PROVE  Undisturbed
<1> DEFINE s == [c EXCEPT !.ready = Tail(@)]
           h == Head(c.ready)
<1>1. /\ c.ready # <<>> /\ h.h = "Read"
      /\ c' = HandleAsyncResponseRead(s, h.arg, h.res, h.response)
  BY DEF RunRead, Runs
<1>2. /\ Tidy(s) /\ h \in Handler
      /\ h \in LiveReads => Live(s) = 0 /\ s.read_state = "busy"
  BY <1>1, HandlerTaken
<1> HIDE DEF s
<1>3. /\ h.res \in Outcomes /\ h.arg \in Requests /\ h.h \notin Timers
      /\ h.response \in Requests \cup {None}
  BY <1>1, <1>2 DEF Handler, Timers
<1>4. Serves(s, c', h.arg)
  <2>1. h.res = "ok" => Live(s) = 0
    BY <1>1, <1>2 DEF LiveReads
  <2> QED  BY <1>1, <1>2, <1>3, <2>1, ReadHandlerEffect
<1> QED  BY <1>1, <1>3, <1>4, HandlerRan DEF s, Serves, Tidy

(* io_service calls the handler of a deadline: the timer's bell is off      *)
(* then.                                                                    *)
LEMMA RunDeadlineStep ==
  ASSUME Tidy(c), Rings(c), RunDeadline
  PROVE  Undisturbed
<1> DEFINE s == [c EXCEPT !.ready = Tail(@)]
           h == Head(c.ready)
<1>1. PICK v \in Timers : /\ c.ready # <<>> /\ h.h = v
                          /\ c' = HandleDeadline(s, v)
  BY DEF RunDeadline, Runs
<1>2. /\ Tidy(s) /\ h \in Handler /\ s.deadline = c.deadline
      /\ \A u \in Timers : Calls(c, u) /\ h.h # u => Calls(s, u)
      /\ \A r \in Requests : PlacesOf(c, r) = PlacesOf(s, r) + One(r, h.arg)
  BY <1>1, HandlerTaken
<1> HIDE DEF s
<1>3. h.arg = None
  BY <1>1, <1>2 DEF Handler, Timers
<1>4. Keeps(s, c', None) /\ c'.deadline[v] # "expired"
  BY <1>1, <1>2, DeadlineHandlerEffect DEF Tidy
<1>5. Serves(s, c', None)
  BY <1>2, <1>4, KeepsServes
<1>6. Rings(c')
  <2> SUFFICES ASSUME NEW u \in Timers, c'.deadline[u] = "expired"
               PROVE  Calls(c', u)
    BY DEF Rings
  <2>1. u # v /\ c.deadline[u] = "expired"
    BY <1>2, <1>4 DEF Keeps, Later
  <2>2. Calls(s, u)
    BY <1>1, <1>2, <2>1 DEF Rings
  <2> QED  BY <1>4, <2>2 DEF Keeps, Later
<1>7. \A r \in Requests : PlacesOf(c', r) = PlacesOf(c, r)
  BY <1>2, <1>3, <1>5 DEF Serves, Moved
<1> QED  BY <1>5, <1>6, <1>7 DEF Undisturbed, Serves

-----------------------------------------------------------------------------

(* An operation that ends gives its request a handler instead.              *)
LEMMA OperationEnds ==
  ASSUME Tidy(c), Rings(c), NEW u \in ConnState, NEW h \in Handler,
         u.ready = c.ready, u.deadline = c.deadline, u.read_state = c.read_state,
         c' = Post(u, h),
         \A r \in Requests : PlacesOf(c, r) = PlacesOf(u, r) + One(r, h.arg),
         u.reading # <<>> => c.reading # <<>>,
         h \notin LiveReads => Live(u) =< Live(c),
         h \in LiveReads => Live(u) + 1 =< Live(c)
  PROVE  Undisturbed
<1>1. /\ c' \in ConnState /\ Later(u, c') /\ Moved(u, c', h.arg)
      /\ h \in LiveReads => Live(c') = Live(u) + 1
      /\ h \notin LiveReads => Keeps(u, c', h.arg)
  BY PostEffect
<1>2. Live(c) \in Nat /\ Live(u) \in Nat /\ Live(c') \in Nat
  BY <1>1, LiveType DEF Tidy
<1>3. Live(c') =< Live(c)
  BY <1>1, <1>2 DEF Keeps, ReadsKept
<1>4. /\ c'.reading = u.reading /\ c'.deadline = u.deadline
      /\ c'.read_state = u.read_state
  BY PostFields
<1>5. Tidy(c')
  BY <1>1, <1>2, <1>3, <1>4 DEF Tidy, ReadBound, Watched
<1>6. Rings(u)
  BY DEF Rings, Calls
<1>7. Rings(c')
  BY <1>1, <1>6, LaterRings
<1>8. \A r \in Requests : PlacesOf(c', r) = PlacesOf(c, r)
  BY <1>1 DEF Moved
<1> QED  BY <1>5, <1>7, <1>8 DEF Undisturbed

(* Taking the first operation off a queue of the socket takes its request   *)
(* out of one place.                                                        *)
LEMMA OccurrencesOfOperations ==
  ASSUME NEW S \in {ReadOperation, WriteOperation}, NEW q \in Seq(S), q # <<>>,
         NEW r \in Requests
  PROVE  Occurrences(q, OperationsOf(r)) = Occurrences(Tail(q), OperationsOf(r)) + One(r, Head(q).arg)
<1>1. Head(q) \in S /\ Tail(q) \in Seq(S)
  OBVIOUS
<1>2. Occurrences(Tail(q), OperationsOf(r)) \in Nat
  BY <1>1, PlacesFinite
<1>3. CASE Head(q).arg = r
  <2>1. Head(q) \in OperationsOf(r) /\ One(r, Head(q).arg) = 1
    BY <1>1, <1>3 DEF OperationsOf, One
  <2> QED  BY <2>1, OccHead
<1>4. CASE Head(q).arg # r
  <2>1. Head(q) \notin OperationsOf(r) /\ One(r, Head(q).arg) = 0
    BY <1>4 DEF OperationsOf, One
  <2>2. Occurrences(q, OperationsOf(r)) = Occurrences(Tail(q), OperationsOf(r))
    BY <2>1, OccHead
  <2> QED  BY <1>2, <2>1, <2>2
<1> QED  BY <1>3, <1>4

(* The first operation that waits for the socket to be writable ends.       *)
LEMMA WritingTaken ==
  ASSUME NEW s \in ConnState, s.writing # <<>>, NEW answers \in Seq(Requests)
  PROVE  LET u == [s EXCEPT !.writing = Tail(@), !.unanswered = answers]
             o == Head(s.writing) IN
         /\ u \in ConnState /\ o \in WriteOperation
         /\ u.ready = s.ready /\ u.deadline = s.deadline
         /\ u.read_state = s.read_state /\ u.reading = s.reading
         /\ Live(u) = Live(s)
         /\ \A r \in Requests : PlacesOf(s, r) = PlacesOf(u, r) + One(r, o.arg)
<1> DEFINE q == Tail(s.writing)
           o == Head(s.writing)
           u == [s EXCEPT !.writing = q, !.unanswered = answers]
<1>1. s.writing \in Seq(WriteOperation) /\ q \in Seq(WriteOperation) /\ o \in WriteOperation
  <2>1. s.writing \in Seq(WriteOperation)
    BY DEF ConnState
  <2> QED  BY <2>1
<1>2. ASSUME NEW r \in Requests
      PROVE  Occurrences(s.writing, OperationsOf(r)) = Occurrences(q, OperationsOf(r)) + One(r, o.arg)
  BY <1>1, OccurrencesOfOperations
<1>3. u = [s EXCEPT !.writing = Tail(@), !.unanswered = answers]
  OBVIOUS
<1> HIDE DEF q, o
<1>4. /\ u \in ConnState /\ u.ready = s.ready /\ u.reading = s.reading
      /\ u.writing = q /\ u.write_queue = s.write_queue
      /\ u.read_queue = s.read_queue /\ u.deadline = s.deadline
      /\ u.read_state = s.read_state
  BY <1>1 DEF ConnState
<1> HIDE DEF u
<1>5. Live(u) = Live(s)
  BY <1>4 DEF Live
<1>6. ASSUME NEW r \in Requests
      PROVE  PlacesOf(s, r) = PlacesOf(u, r) + One(r, o.arg)
  <2>1. One(r, o.arg) \in Nat
    BY OneType
  <2>2. /\ Occurrences(u.ready, HandlersOf(r)) \in Nat
        /\ Occurrences(u.reading, OperationsOf(r)) \in Nat
        /\ Occurrences(u.writing, OperationsOf(r)) \in Nat
        /\ Occurrences(u.write_queue, {r}) \in Nat
        /\ Occurrences(u.read_queue, {r}) \in Nat
    BY <1>4, PlacesOfType
  <2>3. Occurrences(s.writing, OperationsOf(r)) = Occurrences(q, OperationsOf(r)) + One(r, o.arg)
    BY <1>2
  <2> QED  BY <1>4, <2>1, <2>2, <2>3 DEF PlacesOf
<1> QED  BY <1>1, <1>3, <1>4, <1>5, <1>6 DEF o

(* The first operation that waits for the socket to be readable ends.       *)
LEMMA ReadingTaken ==
  ASSUME NEW s \in ConnState, s.reading # <<>>, NEW answers \in Seq(Requests)
  PROVE  LET u == [s EXCEPT !.reading = Tail(@), !.unanswered = answers]
             o == Head(s.reading) IN
         /\ u \in ConnState /\ o \in ReadOperation
         /\ u.ready = s.ready /\ u.deadline = s.deadline
         /\ u.read_state = s.read_state
         /\ Live(u) + 1 = Live(s)
         /\ \A r \in Requests : PlacesOf(s, r) = PlacesOf(u, r) + One(r, o.arg)
<1> DEFINE q == Tail(s.reading)
           o == Head(s.reading)
           u == [s EXCEPT !.reading = q, !.unanswered = answers]
<1>1. /\ s.reading \in Seq(ReadOperation) /\ q \in Seq(ReadOperation)
      /\ o \in ReadOperation /\ Len(s.reading) = Len(q) + 1 /\ Len(q) \in Nat
  <2>1. s.reading \in Seq(ReadOperation)
    BY DEF ConnState
  <2> QED  BY <2>1
<1>2. ASSUME NEW r \in Requests
      PROVE  Occurrences(s.reading, OperationsOf(r)) = Occurrences(q, OperationsOf(r)) + One(r, o.arg)
  BY <1>1, OccurrencesOfOperations
<1>3. u = [s EXCEPT !.reading = Tail(@), !.unanswered = answers]
  OBVIOUS
<1> HIDE DEF q, o
<1>4. /\ u \in ConnState /\ u.ready = s.ready /\ u.reading = q
      /\ u.writing = s.writing /\ u.write_queue = s.write_queue
      /\ u.read_queue = s.read_queue /\ u.deadline = s.deadline
      /\ u.read_state = s.read_state
  BY <1>1 DEF ConnState
<1> HIDE DEF u
<1>5. Live(u) + 1 = Live(s)
  <2>1. Occurrences(s.ready, LiveReads) \in Nat
    <3>1. s.ready \in Seq(Handler)
      BY DEF ConnState
    <3> QED  BY <3>1, PlacesFinite
  <2> QED  BY <1>1, <1>4, <2>1 DEF Live
<1>6. ASSUME NEW r \in Requests
      PROVE  PlacesOf(s, r) = PlacesOf(u, r) + One(r, o.arg)
  <2>1. One(r, o.arg) \in Nat
    BY OneType
  <2>2. /\ Occurrences(u.ready, HandlersOf(r)) \in Nat
        /\ Occurrences(u.reading, OperationsOf(r)) \in Nat
        /\ Occurrences(u.writing, OperationsOf(r)) \in Nat
        /\ Occurrences(u.write_queue, {r}) \in Nat
        /\ Occurrences(u.read_queue, {r}) \in Nat
    BY <1>4, PlacesOfType
  <2>3. Occurrences(s.reading, OperationsOf(r)) = Occurrences(q, OperationsOf(r)) + One(r, o.arg)
    BY <1>2
  <2> QED  BY <1>4, <2>1, <2>2, <2>3 DEF PlacesOf
<1> QED  BY <1>1, <1>3, <1>4, <1>5, <1>6 DEF o

(* The resolver answers.                                                    *)
LEMMA ResolvedStep ==
  ASSUME Tidy(c), Rings(c), NEW res \in Outcomes, Resolved(res)
  PROVE  Undisturbed
<1> DEFINE q == Tail(c.resolving)
           u == [c EXCEPT !.resolving = q]
           h == H("Resolve", None, res)
<1>0. c \in ConnState
  BY DEF Tidy
<1>1. q \in Seq(ResolveOperation)
  <2>1. c.resolving \in Seq(ResolveOperation) /\ c.resolving # <<>>
    BY <1>0 DEF ConnState, Resolved
  <2> QED  BY <2>1
<1>2. c' = Post(u, h)
  BY DEF Resolved
<1> HIDE DEF q
<1>3. u \in ConnState /\ SameQueues(c, u) /\ u.deadline = c.deadline /\ u.read_state = c.read_state
  BY <1>0, <1>1 DEF ConnState, SameQueues
<1> HIDE DEF u
<1>4. h \in Handler /\ h \notin LiveReads /\ h.arg = None
  BY HandlerOfNone
<1> HIDE DEF h
<1>5. Live(u) =< Live(c)
  <2>1. Live(u) \in Nat /\ Live(u) = Live(c)
    BY <1>3, LiveType DEF Live, SameQueues
  <2> QED  BY <2>1
<1>6. ASSUME NEW r \in Requests
      PROVE  PlacesOf(c, r) = PlacesOf(u, r) + One(r, h.arg)
  <2>1. PlacesOf(u, r) \in Nat /\ One(r, None) = 0
    BY <1>3, PlacesOfType, OneNone
  <2>2. PlacesOf(c, r) = PlacesOf(u, r)
    BY <1>3 DEF PlacesOf, SameQueues
  <2> QED  BY <1>4, <2>1, <2>2
<1> QED  BY <1>2, <1>3, <1>4, <1>5, <1>6, OperationEnds DEF SameQueues

(* A write or a connect ends, whatever the broker has received.             *)
LEMMA WriteEnds ==
  ASSUME Tidy(c), Rings(c), c.writing # <<>>, NEW answers \in Seq(Requests),
         NEW h \in Handler, h \notin LiveReads, h.arg = Head(c.writing).arg,
         c' = Post([c EXCEPT !.writing = Tail(@), !.unanswered = answers], h)
  PROVE  Undisturbed
<1> DEFINE u == [c EXCEPT !.writing = Tail(@), !.unanswered = answers]
<1>1. /\ u \in ConnState
      /\ u.ready = c.ready /\ u.deadline = c.deadline
      /\ u.read_state = c.read_state /\ u.reading = c.reading
      /\ Live(u) = Live(c)
      /\ \A r \in Requests : PlacesOf(c, r) = PlacesOf(u, r) + One(r, h.arg)
  BY WritingTaken DEF Tidy
<1>2. c' = Post(u, h)
  OBVIOUS
<1> HIDE DEF u
<1>3. Live(u) =< Live(c)
  <2>1. Live(u) \in Nat
    BY <1>1, LiveType
  <2> QED  BY <1>1, <2>1
<1> QED  BY <1>1, <1>2, <1>3, OperationEnds

(* A read ends: the live read is now in io_service's queue.                 *)
LEMMA ReadingEnds ==
  ASSUME Tidy(c), Rings(c), c.reading # <<>>, NEW answers \in Seq(Requests),
         NEW h \in Handler, h.arg = Head(c.reading).arg,
         c' = Post([c EXCEPT !.reading = Tail(@), !.unanswered = answers], h)
  PROVE  Undisturbed
<1> DEFINE u == [c EXCEPT !.reading = Tail(@), !.unanswered = answers]
<1>1. /\ u \in ConnState
      /\ u.ready = c.ready /\ u.deadline = c.deadline
      /\ u.read_state = c.read_state
      /\ Live(u) + 1 = Live(c)
      /\ \A r \in Requests : PlacesOf(c, r) = PlacesOf(u, r) + One(r, h.arg)
  BY ReadingTaken DEF Tidy
<1>2. c' = Post(u, h)
  OBVIOUS
<1> HIDE DEF u
<1>3. Live(u) =< Live(c) /\ Live(u) + 1 =< Live(c)
  <2>1. Live(u) \in Nat
    BY <1>1, LiveType
  <2> QED  BY <1>1, <2>1
<1> QED  BY <1>1, <1>2, <1>3, OperationEnds

(* An operation that ends without a word to or from the broker.             *)
LEMMA SocketUnchanged ==
  ASSUME NEW s \in ConnState
  PROVE  /\ s.unanswered \in Seq(Requests)
         /\ [s EXCEPT !.writing = Tail(@)]
              = [s EXCEPT !.writing = Tail(@), !.unanswered = s.unanswered]
         /\ [s EXCEPT !.reading = Tail(@)]
              = [s EXCEPT !.reading = Tail(@), !.unanswered = s.unanswered]
BY DEF ConnState

(* The socket is connected, or is not.                                      *)
LEMMA ConnectedStep ==
  ASSUME Tidy(c), Rings(c), NEW res \in Outcomes, Connected(res)
  PROVE  Undisturbed
<1> DEFINE h == H("Connect", None, res)
<1>1. c \in ConnState /\ c.writing # <<>> /\ Head(c.writing).op = "Connect"
      /\ c' = Post([c EXCEPT !.writing = Tail(@)], h)
  BY DEF Tidy, Connected
<1>2. h \in Handler /\ h \notin LiveReads /\ h.arg = None
  BY HandlerOfNone
<1> HIDE DEF h
<1>3. Head(c.writing).arg = None
  <2>1. Head(c.writing) \in WriteOperation
    <3>1. c.writing \in Seq(WriteOperation)
      BY <1>1 DEF ConnState
    <3> QED  BY <1>1, <3>1
  <2> QED  BY <1>1, <2>1 DEF WriteOperation
<1> QED  BY <1>1, <1>2, <1>3, SocketUnchanged, WriteEnds

(* A write is for a request.                                                *)
LEMMA WriteHead ==
  ASSUME NEW s \in ConnState, s.writing # <<>>, Head(s.writing).op = "Write"
  PROVE  Head(s.writing).arg \in Requests
<1>1. Head(s.writing) \in WriteOperation
  <2>1. s.writing \in Seq(WriteOperation)
    BY DEF ConnState
  <2> QED  BY <2>1
<1> QED  BY <1>1 DEF WriteOperation

(* A write reaches the broker.                                              *)
LEMMA WrittenStep ==
  ASSUME Tidy(c), Rings(c), Written
  PROVE  Undisturbed
<1> DEFINE a == Head(c.writing).arg
           h == H("Write", a, "ok")
           answers == Append(c.unanswered, a)
<1>1. c \in ConnState /\ c.writing # <<>> /\ Head(c.writing).op = "Write"
      /\ c' = Post([c EXCEPT !.writing = Tail(@), !.unanswered = Append(@, a)], h)
  BY DEF Tidy, Written
<1>2. a \in Requests
  BY <1>1, WriteHead
<1>3. [c EXCEPT !.writing = Tail(@), !.unanswered = Append(@, a)]
        = [c EXCEPT !.writing = Tail(@), !.unanswered = answers]
  OBVIOUS
<1>4. answers \in Seq(Requests)
  <2>1. c.unanswered \in Seq(Requests)
    BY <1>1 DEF ConnState
  <2> HIDE DEF a
  <2> QED  BY <1>2, <2>1
<1>5. h \in Handler /\ h \notin LiveReads /\ h.arg = a
  <2> HIDE DEF a
  <2> QED  BY <1>2, HandlerOf DEF Outcomes
<1> HIDE DEF h, answers
<1> QED  BY <1>1, <1>3, <1>4, <1>5, WriteEnds

(* A write fails.                                                           *)
LEMMA WriteFailsStep ==
  ASSUME Tidy(c), Rings(c), WriteFails
  PROVE  Undisturbed
<1> DEFINE a == Head(c.writing).arg
           h == H("Write", a, "failed")
<1>1. c \in ConnState /\ c.writing # <<>> /\ Head(c.writing).op = "Write"
      /\ c' = Post([c EXCEPT !.writing = Tail(@)], h)
  BY DEF Tidy, WriteFails
<1>2. a \in Requests
  BY <1>1, WriteHead
<1>3. h \in Handler /\ h \notin LiveReads /\ h.arg = a
  <2> HIDE DEF a
  <2> QED  BY <1>2, HandlerOf DEF Outcomes
<1> HIDE DEF h
<1> QED  BY <1>1, <1>3, SocketUnchanged, WriteEnds

(* A read is for a request.                                                 *)
LEMMA ReadHead ==
  ASSUME NEW s \in ConnState, s.reading # <<>>
  PROVE  /\ Head(s.reading).arg \in Requests
         /\ Head(s.reading).op \in {"SizeRead", "Read"}
<1>1. Head(s.reading) \in ReadOperation
  <2>1. s.reading \in Seq(ReadOperation)
    BY DEF ConnState
  <2> QED  BY <2>1
<1> QED  BY <1>1 DEF ReadOperation

(* The size of a response has been read.                                    *)
LEMMA SizeReadStep ==
  ASSUME Tidy(c), Rings(c), NEW res \in Outcomes, SizeReadEnds(res)
  PROVE  Undisturbed
<1> DEFINE a == Head(c.reading).arg
           h == H("SizeRead", a, res)
<1>1. c \in ConnState /\ c.reading # <<>>
      /\ c' = Post([c EXCEPT !.reading = Tail(@)], h)
  BY DEF Tidy, SizeReadEnds
<1>2. a \in Requests
  BY <1>1, ReadHead
<1>3. h \in Handler /\ h.arg = a
  <2> HIDE DEF a
  <2> QED  BY <1>2, HandlerOf DEF Outcomes
<1> HIDE DEF h
<1> QED  BY <1>1, <1>3, SocketUnchanged, ReadingEnds

(* A read fails.                                                            *)
LEMMA ReadFailsStep ==
  ASSUME Tidy(c), Rings(c), ReadFails
  PROVE  Undisturbed
<1> DEFINE a == Head(c.reading).arg
           h == H(Head(c.reading).op, a, "failed")
<1>1. c \in ConnState /\ c.reading # <<>>
      /\ c' = Post([c EXCEPT !.reading = Tail(@)], h)
  BY DEF Tidy, ReadFails
<1>2. a \in Requests /\ Head(c.reading).op \in {"SizeRead", "Read"}
  BY <1>1, ReadHead
<1>3. h \in Handler /\ h.arg = a
  <2> HIDE DEF a
  <2> QED  BY <1>2, HandlerOf DEF Outcomes
<1> HIDE DEF h
<1> QED  BY <1>1, <1>3, SocketUnchanged, ReadingEnds

(* A response has been read.                                                *)
LEMMA ReadEndsStep ==
  ASSUME Tidy(c), Rings(c), ReadEnds
  PROVE  Undisturbed
<1> DEFINE a == Head(c.reading).arg
           b == Head(c.unanswered)
           h == [H("Read", a, "ok") EXCEPT !.response = b]
           answers == Tail(c.unanswered)
<1>1. c \in ConnState /\ c.reading # <<>> /\ c.unanswered # <<>>
      /\ c' = Post([c EXCEPT !.reading = Tail(@), !.unanswered = Tail(@)], h)
  BY DEF Tidy, ReadEnds
<1>2. a \in Requests
  BY <1>1, ReadHead
<1>3. answers \in Seq(Requests) /\ b \in Requests
  <2>1. c.unanswered \in Seq(Requests)
    BY <1>1 DEF ConnState
  <2> QED  BY <1>1, <2>1
<1>4. [c EXCEPT !.reading = Tail(@), !.unanswered = Tail(@)]
        = [c EXCEPT !.reading = Tail(@), !.unanswered = answers]
  OBVIOUS
<1>5. h \in Handler /\ h.arg = a
  <2> HIDE DEF a, b
  <2> QED  BY <1>2, <1>3 DEF H, Handler, Outcomes
<1> HIDE DEF h, answers
<1> QED  BY <1>1, <1>3, <1>4, <1>5, ReadingEnds

(* A timer runs out: its handler is posted.                                 *)
LEMMA DeadlineStep ==
  ASSUME Tidy(c), Rings(c), DeadlinePasses
  PROVE  Undisturbed
<1> PICK v \in Timers : /\ c.deadline[v] = "armed"
                        /\ c' = Post([c EXCEPT !.deadline[v] = "expired"], H(v, None, "ok"))
  BY DEF DeadlinePasses
<1> DEFINE d == [c.deadline EXCEPT ![v] = "expired"]
           u == [c EXCEPT !.deadline = d]
           h == H(v, None, "ok")
<1>0. c \in ConnState
  BY DEF Tidy
<1>1. /\ d \in [Timers -> {"off", "armed", "expired"}]
      /\ \A w \in Timers \ {v} : d[w] = c.deadline[w]
      /\ d[v] = "expired"
  BY <1>0 DEF ConnState
<1>2. c' = Post(u, h)
  OBVIOUS
<1> HIDE DEF d
<1>3. u \in ConnState /\ SameQueues(c, u) /\ u.deadline = d /\ u.read_state = c.read_state
  BY <1>0, <1>1 DEF ConnState, SameQueues
<1> HIDE DEF u
<1>4. h \in Handler /\ h \notin LiveReads /\ h.arg = None /\ h.h = v
  <2>1. h.h = v
    BY DEF H
  <2>2. h \in Handler \ LiveReads /\ h.arg = None
    BY HandlerOfNone DEF Outcomes
  <2> QED  BY <2>1, <2>2
<1> HIDE DEF h
<1>5. Live(u) = Live(c)
  BY <1>3 DEF Live, SameQueues
<1>6. Tidy(u)
  <2>1. d["read_deadline"] # "off" \/ c.deadline["read_deadline"] = "off"
    BY <1>1 DEF Timers
  <2> QED  BY <1>3, <1>5, <2>1 DEF Tidy, ReadBound, Watched, SameQueues
<1>7. Keeps(u, c', None)
  BY <1>2, <1>3, <1>4, PostEffect
<1>8. Tidy(c')
  BY <1>6, <1>7, KeepsServes DEF Serves
<1>9. Rings(c')
  <2> SUFFICES ASSUME NEW w \in Timers, c'.deadline[w] = "expired"
               PROVE  Calls(c', w)
    BY DEF Rings
  <2>1. u.deadline[w] = "expired"
    BY <1>7 DEF Keeps, Later
  <2>2. CASE w # v
    <3>1. Calls(c, w)
      BY <1>1, <1>3, <2>1, <2>2 DEF Rings
    <3>2. Calls(u, w)
      BY <1>3, <3>1 DEF Calls, SameQueues
    <3> QED  BY <1>7, <3>2 DEF Keeps, Later
  <2>3. CASE w = v
    <3>1. c'.ready = Append(u.ready, h) /\ u.ready \in Seq(Handler)
      BY <1>2, <1>3 DEF Post, ConnState
    <3>2. Len(c'.ready) \in 1 .. Len(c'.ready) /\ c'.ready[Len(c'.ready)] = h
      BY <1>4, <3>1
    <3> QED  BY <1>4, <2>3, <3>2 DEF Calls
  <2> QED  BY <2>2, <2>3
<1>10. ASSUME NEW r \in Requests
       PROVE  PlacesOf(c', r) = PlacesOf(c, r)
  <2>1. PlacesOf(c, r) \in Nat /\ One(r, None) = 0
    BY <1>0, PlacesOfType, OneNone
  <2>2. PlacesOf(u, r) = PlacesOf(c, r)
    BY <1>3 DEF PlacesOf, SameQueues
  <2>3. PlacesOf(c', r) = PlacesOf(u, r) + One(r, None)
    BY <1>7 DEF Keeps, Moved
  <2> QED  BY <2>1, <2>2, <2>3
<1> QED  BY <1>8, <1>9, <1>10 DEF Undisturbed

-----------------------------------------------------------------------------
(* The invariant.                                                           *)

(* The inductive invariant. InOnePlace needs the types of the queues; that  *)
(* no read starts beside another needs ReadBound; that a read is watched    *)
(* needs Watched and, since a deadline that has run out watches only        *)
(* through its handler, Rings.                                              *)
ConnInv ==
  /\ Tidy(c) /\ Rings(c)
  /\ world \in Worlds /\ submitted \in 0 .. MaxRequests
  /\ called \in [Requests -> Nat]
  /\ InOnePlace

(* The connection before the first request.                                 *)
LEMMA InitConnInv == Init => ConnInv
<1> SUFFICES ASSUME Init PROVE ConnInv
  OBVIOUS
<1>1. /\ c.ready = <<>> /\ c.reading = <<>> /\ c.writing = <<>>
      /\ c.write_queue = <<>> /\ c.read_queue = <<>>
      /\ c.deadline = [t \in Timers |-> "off"]
  BY DEF Init
<1>2. c \in ConnState
  BY EmptyQueues DEF Init, ConnState
<1>3. Live(c) = 0
  BY <1>1, OccEmpty DEF Live
<1>4. Tidy(c)
  BY <1>1, <1>2, <1>3 DEF Tidy, ReadBound, Watched
<1>5. Rings(c)
  BY <1>1 DEF Rings
<1>6. world \in Worlds /\ submitted \in 0 .. MaxRequests /\ called \in [Requests -> Nat]
  BY KafkaConstants DEF Init
<1>7. ASSUME NEW r \in Requests
      PROVE  PlacesOf(c, r) + called[r] = IF r =< submitted THEN 1 ELSE 0
  <2>1. PlacesOf(c, r) = 0
    BY <1>1, OccEmpty DEF PlacesOf
  <2> QED  BY <2>1, KafkaConstants DEF Init, Requests
<1> QED  BY <1>4, <1>5, <1>6, <1>7 DEF ConnInv, InOnePlace

(* A step that leaves the requests in place keeps the invariant.            *)
LEMMA UndisturbedInv ==
  ASSUME ConnInv, Undisturbed, UNCHANGED <<world, submitted, called>>
  PROVE  ConnInv'
<1>1. ASSUME NEW r \in Requests
      PROVE  PlacesOf(c', r) + called[r] = IF r =< submitted THEN 1 ELSE 0
  BY DEF ConnInv, Undisturbed, InOnePlace
<1>2. InOnePlace'
  <2>1. InOnePlace' <=> \A r \in Requests : PlacesOf(c', r) + called'[r] = IF r =< submitted' THEN 1 ELSE 0
    BY DEF InOnePlace, PlacesOf, HandlersOf, OperationsOf
  <2> QED  BY <1>1, <2>1
<1> QED  BY <1>2 DEF ConnInv, Undisturbed, Tidy, Rings, ReadBound, Watched, Live, Calls

(* Every step of the connection keeps the invariant.                        *)
LEMMA NextConnInv ==
  ASSUME ConnInv, [Next]_vars
  PROVE  ConnInv'
<1>1. Tidy(c) /\ Rings(c)
  BY DEF ConnInv
<1>2. CASE RunHandler /\ ~RunUser
  <2>1. RunEnqueueRequest \/ RunResolve \/ RunConnect \/ RunAutoConnect \/ RunWrite
        \/ RunSizeRead \/ RunRead \/ RunDeadline
    BY <1>2 DEF RunHandler
  <2>2. UNCHANGED <<world, submitted, called>>
    BY <2>1 DEF RunEnqueueRequest, RunResolve, RunConnect, RunAutoConnect,
                RunWrite, RunSizeRead, RunRead, RunDeadline, Runs
  <2>3. Undisturbed
    BY <1>1, <2>1, RunEnqueueRequestStep, RunResolveStep, RunConnectStep,
       RunAutoConnectStep, RunWriteStep, RunSizeReadStep, RunReadStep, RunDeadlineStep
  <2> QED  BY <2>2, <2>3, UndisturbedInv
<1>3. CASE RunUser
  <2> DEFINE h == Head(c.ready)
             s == [c EXCEPT !.ready = Tail(@)]
  <2>1. /\ c.ready # <<>> /\ h.h = "User" /\ c' = s
        /\ called' = [called EXCEPT ![h.arg] = @ + 1]
        /\ submitted' = submitted /\ world' = world
    BY <1>3 DEF RunUser
  <2>2. /\ h \in Handler /\ Tidy(s) /\ s.deadline = c.deadline
        /\ \A u \in Timers : Calls(c, u) /\ h.h # u => Calls(s, u)
        /\ \A r \in Requests : PlacesOf(c, r) = PlacesOf(s, r) + One(r, h.arg)
    BY <1>1, <2>1, HandlerTaken
  <2>3. h.arg \in Requests /\ h.h \notin Timers
    BY <2>1, <2>2 DEF Handler, Timers
  <2>4. Rings(s)
    BY <1>1, <2>2, <2>3 DEF Rings
  <2> HIDE DEF s, h
  <2>5. called' \in [Requests -> Nat]
    BY <2>1, <2>3 DEF ConnInv
  <2>6. ASSUME NEW r \in Requests
        PROVE  PlacesOf(c', r) + called'[r] = IF r =< submitted THEN 1 ELSE 0
    <3>1. PlacesOf(c, r) = PlacesOf(s, r) + One(r, h.arg)
      BY <2>2
    <3>2. called'[r] = called[r] + One(r, h.arg)
      BY <2>1, <2>3 DEF ConnInv, One
    <3>3. PlacesOf(s, r) \in Nat /\ One(r, h.arg) \in Nat /\ called[r] \in Nat
      BY <2>2, PlacesOfType, OneType DEF Tidy, ConnInv
    <3>4. PlacesOf(c, r) + called[r] = IF r =< submitted THEN 1 ELSE 0
      BY DEF ConnInv, InOnePlace
    <3> QED  BY <2>1, <3>1, <3>2, <3>3, <3>4
  <2>7. InOnePlace'
    <3>1. InOnePlace' <=> \A r \in Requests : PlacesOf(c', r) + called'[r] = IF r =< submitted' THEN 1 ELSE 0
      BY DEF InOnePlace, PlacesOf, HandlersOf, OperationsOf
    <3> QED  BY <2>1, <2>6, <3>1
  <2> QED  BY <2>1, <2>2, <2>4, <2>5, <2>7
           DEF ConnInv, Tidy, Rings, ReadBound, Watched, Live, Calls
<1>4. CASE AsyncRequest
  <2> DEFINE a == submitted + 1
             h == H("EnqueueRequest", a, "ok")
  <2>1. /\ submitted < world.requests /\ submitted' = a /\ c' = Post(c, h)
        /\ called' = called /\ world' = world
    BY <1>4 DEF AsyncRequest
  <2>2. submitted < MaxRequests /\ submitted \in Nat /\ MaxRequests \in Nat
    <3>1. world \in Worlds /\ submitted \in 0 .. MaxRequests
      BY DEF ConnInv
    <3>2. world.requests \in 1 .. MaxRequests
      BY <3>1, KafkaConstants
    <3> QED  BY <2>1, <3>1, <3>2, KafkaConstants
  <2>3. a \in Requests /\ a \in 0 .. MaxRequests
    BY <2>2 DEF Requests
  <2>4. h \in Handler /\ h \notin LiveReads /\ h.arg = a
    <3> HIDE DEF a
    <3> QED  BY <2>3, HandlerOf DEF Outcomes
  <2> HIDE DEF h
  <2>5. Keeps(c, c', a)
    BY <1>1, <2>1, <2>4, PostEffect DEF Tidy
  <2>6. Tidy(c') /\ Rings(c')
    BY <1>1, <2>5, KeepsServes, LaterRings DEF Serves
  <2>7. ASSUME NEW r \in Requests
        PROVE  PlacesOf(c', r) + called[r] = IF r =< a THEN 1 ELSE 0
    <3>1. PlacesOf(c', r) = PlacesOf(c, r) + One(r, a)
      BY <2>5 DEF Keeps, Moved
    <3>2. PlacesOf(c, r) + called[r] = IF r =< submitted THEN 1 ELSE 0
      BY DEF ConnInv, InOnePlace
    <3>3. PlacesOf(c, r) \in Nat /\ called[r] \in Nat /\ r \in Nat
      <4>1. c \in ConnState
        BY <1>1 DEF Tidy
      <4>2. PlacesOf(c, r) \in Nat
        BY <4>1, PlacesOfType
      <4>3. called[r] \in Nat
        BY DEF ConnInv
      <4>4. r \in Nat
        BY KafkaConstants DEF Requests
      <4> QED  BY <4>2, <4>3, <4>4
    <3>4. CASE r = a
      <4>1. One(r, a) = 1 /\ ~ r =< submitted
        BY <2>2, <3>4 DEF One
      <4> QED  BY <2>2, <3>1, <3>2, <3>3, <3>4, <4>1
    <3>5. CASE r # a
      <4>1. One(r, a) = 0 /\ (r =< a <=> r =< submitted)
        BY <2>2, <3>3, <3>5 DEF One
      <4> QED  BY <3>1, <3>2, <3>3, <4>1
    <3> QED  BY <3>4, <3>5
  <2>8. InOnePlace'
    <3>1. InOnePlace' <=> \A r \in Requests : PlacesOf(c', r) + called'[r] = IF r =< submitted' THEN 1 ELSE 0
      BY DEF InOnePlace, PlacesOf, HandlersOf, OperationsOf
    <3> QED  BY <2>1, <2>7, <3>1
  <2> QED  BY <2>1, <2>3, <2>6, <2>8
           DEF ConnInv, Tidy, Rings, ReadBound, Watched, Live, Calls
<1>5. CASE OpSucceeds
  <2>1. UNCHANGED <<world, submitted, called>>
    BY <1>5 DEF OpSucceeds
  <2>2. "ok" \in Outcomes
    BY DEF Outcomes
  <2>3. Undisturbed
    BY <1>1, <1>5, <2>2, ResolvedStep, ConnectedStep, WrittenStep, SizeReadStep, ReadEndsStep
    DEF OpSucceeds
  <2> QED  BY <2>1, <2>3, UndisturbedInv
<1>6. CASE OpFails
  <2>1. UNCHANGED <<world, submitted, called>>
    BY <1>6 DEF OpFails
  <2>2. "failed" \in Outcomes
    BY DEF Outcomes
  <2>3. Undisturbed
    BY <1>1, <1>6, <2>2, ResolvedStep, ConnectedStep, WriteFailsStep, ReadFailsStep
    DEF OpFails
  <2> QED  BY <2>1, <2>3, UndisturbedInv
<1>7. CASE SizeTooLarge
  <2>1. UNCHANGED <<world, submitted, called>>
    BY <1>7 DEF SizeTooLarge
  <2>2. "too_large" \in Outcomes
    BY DEF Outcomes
  <2>3. Undisturbed
    BY <1>1, <1>7, <2>2, SizeReadStep DEF SizeTooLarge
  <2> QED  BY <2>1, <2>3, UndisturbedInv
<1>8. CASE DeadlinePasses
  <2>1. UNCHANGED <<world, submitted, called>>
    BY <1>8 DEF DeadlinePasses
  <2>2. Undisturbed
    BY <1>1, <1>8, DeadlineStep
  <2> QED  BY <2>1, <2>2, UndisturbedInv
<1>9. CASE UNCHANGED vars
  BY <1>9 DEF vars, ConnInv, Tidy, Rings, ReadBound, Watched, Live, Calls, InOnePlace,
              PlacesOf, HandlersOf, OperationsOf
<1> QED  BY <1>2, <1>3, <1>4, <1>5, <1>6, <1>7, <1>8, <1>9 DEF Next, RunHandler

(* The inductive invariant holds in every state of the connection, with any *)
(* number of requests and any faults (ConnectionServiceImpl).               *)
THEOREM KafkaInvariant == Spec => []ConnInv
<1>1. Init => ConnInv
  BY InitConnInv
<1>2. ConnInv /\ [Next]_vars => ConnInv'
  BY NextConnInv
<1> QED  BY <1>1, <1>2, PTL DEF Spec

(* A request handed to AsyncRequest is in exactly one queue, operation or   *)
(* handler until its handler has been called, and that happens once: no     *)
(* path of ConnectionServiceImpl drops a request or reports it twice,       *)
(* whatever fails, whenever a timer runs out.                               *)
THEOREM RequestsInOnePlace == Spec => []InOnePlace
<1>1. ConnInv => InOnePlace
  BY DEF ConnInv
<1> QED  BY <1>1, KafkaInvariant, PTL

(* There is never more than one read on the socket, and its deadline is     *)
(* armed or its handler is about to be called (ReceiveResponse,             *)
(* HandleAsyncResponseSizeRead).                                            *)
THEOREM ReadsWatched == Spec => []ReadWatched
<1>1. ConnInv => ReadWatched
  <2> SUFFICES ASSUME ConnInv PROVE ReadWatched
    OBVIOUS
  <2>1. Tidy(c) /\ Rings(c) /\ c \in ConnState
    BY DEF ConnInv, Tidy
  <2>2. /\ Len(c.reading) \in Nat /\ Occurrences(c.ready, LiveReads) \in Nat
        /\ c.deadline \in [Timers -> {"off", "armed", "expired"}]
    <3>1. c.ready \in Seq(Handler) /\ c.reading \in Seq(ReadOperation)
      BY <2>1 DEF ConnState
    <3> QED  BY <2>1, <3>1, PlacesFinite DEF ConnState
  <2>3. Len(c.reading) =< 1
    BY <2>1, <2>2 DEF Tidy, ReadBound, Live
  <2>4. c.reading # <<>> => c.deadline["read_deadline"] \in {"armed", "expired"}
    BY <2>1, <2>2 DEF Tidy, Watched, Timers
  <2>5. c.deadline["read_deadline"] = "expired" => Calls(c, "read_deadline")
    BY <2>1 DEF Rings, Timers
  <2> QED  BY <2>3, <2>4, <2>5 DEF ReadWatched, Calls
<1> QED  BY <1>1, KafkaInvariant, PTL

-----------------------------------------------------------------------------
(* While nothing fails, requests and responses keep the order of            *)
(* AsyncRequest.                                                            *)

(* How far the requests have come while nothing fails: how many have been   *)
(* enqueued, sent and written, how many responses are awaited, how many of  *)
(* them are being read, have their size, are read and have been given.      *)
Marks == [enqueued : Nat, sent : Nat, written : Nat, awaited : Nat, begun : Nat,
          sized : Nat, ended : Nat, given : Nat]

(* The requests after the a-th, up to the b-th, in their order.             *)
Between(q, a, b) == /\ Len(q) = b - a
                    /\ \A i \in 1 .. Len(q) : q[i] = a + i

(* The handlers h in io_service's queue are those of these requests, in     *)
(* their order.                                                             *)
Line(ready, h, a, b) ==
  /\ \A i, j \in 1 .. Len(ready) :
       i < j /\ ready[i].h = h /\ ready[j].h = h => ready[i].arg < ready[j].arg
  /\ \A r \in Nat : (\E i \in 1 .. Len(ready) : ready[i].h = h /\ ready[i].arg = r)
                      <=> a < r /\ r =< b

(* No handler of S is in the queue, or one at most.                         *)
NoneOf(ready, S) == \A i \in 1 .. Len(ready) : ready[i].h \notin S
OneOf(ready, S) ==
  \A i, j \in 1 .. Len(ready) : ready[i].h \in S /\ ready[j].h \in S => i = j

(* No request overtakes another, and one is read at a time.                 *)
Order(s, m, n) ==
  /\ m.given =< m.ended /\ m.ended =< m.sized /\ m.sized =< m.begun
  /\ m.begun =< m.awaited /\ m.awaited =< m.written /\ m.written =< m.sent
  /\ m.sent =< m.enqueued /\ m.enqueued =< n
  /\ m.begun =< m.given + 1
  /\ s.read_state = "idle" => m.begun = m.given

(* The handlers of the requests wait in their order, each kind for those it *)
(* is due for.                                                              *)
Lines(ready, m, n) ==
  /\ Line(ready, "EnqueueRequest", m.enqueued, n)
  /\ Line(ready, "Write", m.awaited, m.written)
  /\ Line(ready, "SizeRead", m.sized, m.begun)
  /\ Line(ready, "Read", m.given, m.ended)

(* A handler that reports success, and the response that is its own.        *)
Succeeds(h) ==
  /\ h.res = "ok" /\ h.h \notin Timers
  /\ h.h \in {"Read", "User"} => h.response = h.arg

(* The queues and the operations of the socket hold the requests between two*)
(* marks, in their order.                                                   *)
Queues(s, m) ==
  /\ Between(s.write_queue, m.sent, m.enqueued)
  /\ Between(s.read_queue, m.begun, m.awaited)
  /\ Between(s.unanswered, m.ended, m.written)
  /\ Len(s.reading) = m.sized - m.ended
  /\ \A i \in 1 .. Len(s.reading) : s.reading[i].arg = m.sized

(* The handlers of connecting.                                              *)
Dials == {"Resolve", "Connect"}

(* Connecting has one thing under way, and nothing is sent before it ends.  *)
Connection(s, m) ==
  /\ s.state = "closed" => s.resolving = <<>> /\ s.writing = <<>>
  /\ s.state # "connected" =>
       /\ m.sent = 0 /\ NoneOf(s.ready, {"AutoConnect"})
       /\ s.resolving = <<>> \/ s.writing = <<>>
       /\ Len(s.resolving) =< 1 /\ Len(s.writing) =< 1
       /\ \A i \in 1 .. Len(s.writing) : s.writing[i].op = "Connect"
  /\ s.state = "connected" =>
       /\ s.open /\ s.resolving = <<>>
       /\ Len(s.writing) = m.sent - m.written
       /\ \A i \in 1 .. Len(s.writing) :
            s.writing[i].op = "Write" /\ s.writing[i].arg = m.written + i
  /\ s.state # "connecting" \/ s.resolving # <<>> \/ s.writing # <<>> => NoneOf(s.ready, Dials)
  /\ OneOf(s.ready, Dials)
  /\ ~s.open => s.writing = <<>> /\ NoneOf(s.ready, {"Connect"})

(* What holds of a connection on which nothing has failed, with the marks m *)
(* of its n requests; and that there are such marks.                        *)
Calm(s, m, n) ==
  /\ Order(s, m, n) /\ Lines(s.ready, m, n)
  /\ \A i \in 1 .. Len(s.ready) : Succeeds(s.ready[i])
  /\ Queues(s, m) /\ Connection(s, m)

InCalm(s, n) == s \in ConnState /\ \E m \in Marks : Calm(s, m, n)

-----------------------------------------------------------------------------
(* Lines and queues.                                                        *)

(* A handler's request is a number, that of no request included.            *)
LEMMA HandlerArg ==
  ASSUME NEW h \in Handler
  PROVE  h.arg \in Nat
BY KafkaConstants DEF Handler, Requests, None

(* Calling the first handler of a line advances it by one request, calling  *)
(* another handler leaves it alone.                                         *)
LEMMA LineTail ==
  ASSUME NEW q \in Seq(Handler), q # <<>>, NEW h, NEW a \in Nat, NEW b \in Nat, Line(q, h, a, b)
  PROVE  /\ Head(q).h = h => Head(q).arg = a + 1 /\ a < b /\ Line(Tail(q), h, a + 1, b)
         /\ Head(q).h # h => Line(Tail(q), h, a, b)
<1> DEFINE p == Tail(q)
<1>1. /\ Len(q) \in Nat /\ Len(q) >= 1 /\ Len(p) = Len(q) - 1 /\ Head(q) = q[1]
      /\ \A i \in 1 .. Len(p) : p[i] = q[i + 1]
      /\ \A i \in 1 .. Len(q) : i # 1 => i - 1 \in 1 .. Len(p) /\ q[i] = p[i - 1]
  OBVIOUS
<1>2. \A i \in 1 .. Len(q) : q[i].arg \in Nat
  BY HandlerArg
<1>3. \A i, j \in 1 .. Len(q) : i < j /\ q[i].h = h /\ q[j].h = h => q[i].arg < q[j].arg
  BY DEF Line
<1>4. \A r \in Nat : (\E i \in 1 .. Len(q) : q[i].h = h /\ q[i].arg = r) <=> a < r /\ r =< b
  BY DEF Line
<1> HIDE DEF p
<1>5. \A i, j \in 1 .. Len(p) : i < j /\ p[i].h = h /\ p[j].h = h => p[i].arg < p[j].arg
  <2> SUFFICES ASSUME NEW i \in 1 .. Len(p), NEW j \in 1 .. Len(p), i < j, p[i].h = h, p[j].h = h
               PROVE  p[i].arg < p[j].arg
    OBVIOUS
  <2>1. i + 1 \in 1 .. Len(q) /\ j + 1 \in 1 .. Len(q) /\ i + 1 < j + 1
    BY <1>1
  <2> QED  BY <1>1, <1>3, <2>1
<1>6. CASE Head(q).h = h
  <2>1. 1 \in 1 .. Len(q) /\ q[1].h = h
    BY <1>1, <1>6
  <2>2. a < q[1].arg /\ q[1].arg =< b /\ q[1].arg \in Nat
    BY <1>2, <1>4, <2>1
  <2>3. PICK k \in 1 .. Len(q) : q[k].h = h /\ q[k].arg = a + 1
    <3>1. a + 1 \in Nat /\ a < a + 1 /\ a + 1 =< b
      BY <2>2
    <3> QED  BY <1>4, <3>1
  <2>4. k = 1
    <3> SUFFICES ASSUME k # 1 PROVE FALSE
      OBVIOUS
    <3>1. 1 < k
      BY <1>1
    <3>2. q[1].arg < a + 1
      BY <1>3, <2>1, <2>3, <3>1
    <3> QED  BY <2>2, <3>2
  <2>5. ASSUME NEW r \in Nat
        PROVE  (\E i \in 1 .. Len(p) : p[i].h = h /\ p[i].arg = r) <=> a + 1 < r /\ r =< b
    <3>1. ASSUME NEW i \in 1 .. Len(p), p[i].h = h, p[i].arg = r PROVE a + 1 < r /\ r =< b
      <4>1. i + 1 \in 1 .. Len(q) /\ 1 < i + 1 /\ q[i + 1] = p[i]
        BY <1>1
      <4>2. q[1].arg < r /\ r =< b
        BY <1>3, <1>4, <2>1, <3>1, <4>1
      <4> QED  BY <2>3, <2>4, <4>2
    <3>2. ASSUME a + 1 < r, r =< b PROVE \E i \in 1 .. Len(p) : p[i].h = h /\ p[i].arg = r
      <4>1. PICK i \in 1 .. Len(q) : q[i].h = h /\ q[i].arg = r
        BY <1>4, <3>2
      <4>2. i # 1
        BY <2>3, <2>4, <3>2, <4>1
      <4> QED  BY <1>1, <4>1, <4>2
    <3> QED  BY <3>1, <3>2
  <2>6. Line(p, h, a + 1, b)
    BY <1>5, <2>5 DEF Line
  <2>7. Head(q).arg = a + 1 /\ a < b
    BY <1>1, <2>2, <2>3, <2>4
  <2> QED  BY <1>6, <2>6, <2>7 DEF p
<1>7. CASE Head(q).h # h
  <2>1. \A r \in Nat : (\E i \in 1 .. Len(p) : p[i].h = h /\ p[i].arg = r)
                         <=> (\E i \in 1 .. Len(q) : q[i].h = h /\ q[i].arg = r)
    <3> SUFFICES ASSUME NEW r \in Nat
                 PROVE  (\E i \in 1 .. Len(p) : p[i].h = h /\ p[i].arg = r)
                         <=> (\E i \in 1 .. Len(q) : q[i].h = h /\ q[i].arg = r)
      OBVIOUS
    <3>1. ASSUME NEW i \in 1 .. Len(p), p[i].h = h, p[i].arg = r
          PROVE  \E j \in 1 .. Len(q) : q[j].h = h /\ q[j].arg = r
      <4>1. i + 1 \in 1 .. Len(q) /\ q[i + 1] = p[i]
        BY <1>1
      <4> QED  BY <3>1, <4>1
    <3>2. ASSUME NEW i \in 1 .. Len(q), q[i].h = h, q[i].arg = r
          PROVE  \E j \in 1 .. Len(p) : p[j].h = h /\ p[j].arg = r
      <4>1. i # 1
        BY <1>1, <1>7, <3>2
      <4> QED  BY <1>1, <3>2, <4>1
    <3> QED  BY <3>1, <3>2
  <2>2. Line(p, h, a, b)
    BY <1>4, <1>5, <2>1 DEF Line
  <2> QED  BY <1>7, <2>2 DEF p
<1> QED  BY <1>6, <1>7

(* Posting the next request's handler extends a line, posting another       *)
(* handler leaves it alone.                                                 *)
LEMMA LineAppend ==
  ASSUME NEW q \in Seq(Handler), NEW x \in Handler, NEW h, NEW a \in Nat, NEW b \in Nat,
         a =< b, Line(q, h, a, b)
  PROVE  /\ x.h = h /\ x.arg = b + 1 => Line(Append(q, x), h, a, b + 1)
         /\ x.h # h => Line(Append(q, x), h, a, b)
<1> DEFINE p == Append(q, x)
           n == Len(q)
<1>1. /\ n \in Nat /\ Len(p) = n + 1 /\ p[n + 1] = x /\ n + 1 \in 1 .. Len(p)
      /\ \A i \in 1 .. n : p[i] = q[i] /\ i \in 1 .. Len(p)
      /\ \A i \in 1 .. Len(p) : i # n + 1 => i \in 1 .. n
  OBVIOUS
<1>2. \A i \in 1 .. Len(q) : q[i].arg \in Nat
  BY HandlerArg
<1>3. \A i, j \in 1 .. n : i < j /\ q[i].h = h /\ q[j].h = h => q[i].arg < q[j].arg
  BY DEF Line
<1>4. \A r \in Nat : (\E i \in 1 .. n : q[i].h = h /\ q[i].arg = r) <=> a < r /\ r =< b
  BY DEF Line
<1> HIDE DEF p, n
<1>5. ASSUME x.h = h, x.arg = b + 1 PROVE Line(p, h, a, b + 1)
  <2>1. ASSUME NEW i \in 1 .. Len(p), NEW j \in 1 .. Len(p), i < j, p[i].h = h, p[j].h = h
        PROVE  p[i].arg < p[j].arg
    <3>1. i \in 1 .. n /\ p[i] = q[i]
      BY <1>1, <2>1
    <3>2. q[i].arg =< b /\ q[i].arg \in Nat
      BY <1>2, <1>4, <2>1, <3>1 DEF n
    <3>3. CASE j = n + 1
      BY <1>1, <1>5, <3>1, <3>2, <3>3
    <3>4. CASE j # n + 1
      BY <1>1, <1>3, <2>1, <3>1, <3>4
    <3> QED  BY <3>3, <3>4
  <2>2. ASSUME NEW r \in Nat
        PROVE  (\E i \in 1 .. Len(p) : p[i].h = h /\ p[i].arg = r) <=> a < r /\ r =< b + 1
    <3>1. ASSUME NEW i \in 1 .. Len(p), p[i].h = h, p[i].arg = r PROVE a < r /\ r =< b + 1
      <4>1. CASE i = n + 1
        BY <1>1, <1>5, <3>1, <4>1
      <4>2. CASE i # n + 1
        <5>1. a < r /\ r =< b
          BY <1>1, <1>4, <3>1, <4>2
        <5> QED  BY <5>1
      <4> QED  BY <4>1, <4>2
    <3>2. ASSUME a < r, r =< b + 1 PROVE \E i \in 1 .. Len(p) : p[i].h = h /\ p[i].arg = r
      <4>1. CASE r = b + 1
        BY <1>1, <1>5, <4>1
      <4>2. CASE r # b + 1
        <5>1. r =< b
          BY <3>2, <4>2
        <5> QED  BY <1>1, <1>4, <3>2, <5>1
      <4> QED  BY <4>1, <4>2
    <3> QED  BY <3>1, <3>2
  <2> QED  BY <2>1, <2>2 DEF Line
<1>6. ASSUME x.h # h PROVE Line(p, h, a, b)
  <2>1. \A i \in 1 .. Len(p) : p[i].h = h => i \in 1 .. n /\ p[i] = q[i]
    BY <1>1, <1>6
  <2>2. \A i, j \in 1 .. Len(p) : i < j /\ p[i].h = h /\ p[j].h = h => p[i].arg < p[j].arg
    BY <1>3, <2>1
  <2>3. \A r \in Nat : (\E i \in 1 .. Len(p) : p[i].h = h /\ p[i].arg = r)
                         <=> (\E i \in 1 .. n : q[i].h = h /\ q[i].arg = r)
    BY <1>1, <2>1
  <2> QED  BY <1>4, <2>2, <2>3 DEF Line
<1> QED  BY <1>5, <1>6 DEF p

(* The first of the requests in a queue is taken.                           *)
LEMMA BetweenTail ==
  ASSUME NEW q \in Seq(Requests), q # <<>>, NEW a \in Nat, NEW b \in Nat, Between(q, a, b)
  PROVE  Head(q) = a + 1 /\ a < b /\ Between(Tail(q), a + 1, b)
<1>1. /\ Len(q) \in Nat /\ Len(q) >= 1 /\ Len(Tail(q)) = Len(q) - 1 /\ Head(q) = q[1]
      /\ \A i \in 1 .. Len(Tail(q)) : Tail(q)[i] = q[i + 1] /\ i + 1 \in 1 .. Len(q)
  OBVIOUS
<1>2. Len(q) = b - a /\ \A i \in 1 .. Len(q) : q[i] = a + i
  BY DEF Between
<1>3. \A i \in 1 .. Len(Tail(q)) : Tail(q)[i] = (a + 1) + i
  BY <1>1, <1>2
<1> QED  BY <1>1, <1>2, <1>3 DEF Between

(* The next request joins a queue.                                          *)
LEMMA BetweenAppend ==
  ASSUME NEW q \in Seq(Requests), NEW a \in Nat, NEW b \in Nat, Between(q, a, b), NEW r, r = b + 1
  PROVE  Between(Append(q, r), a, b + 1)
<1>1. Len(q) \in Nat /\ Len(q) = b - a /\ \A i \in 1 .. Len(q) : q[i] = a + i
  BY DEF Between
<1>2. /\ Len(Append(q, r)) = Len(q) + 1 /\ Append(q, r)[Len(q) + 1] = r
      /\ \A i \in 1 .. Len(q) : Append(q, r)[i] = q[i]
  OBVIOUS
<1>3. \A i \in 1 .. Len(Append(q, r)) : i \in 1 .. Len(q) \/ i = Len(q) + 1
  BY <1>1, <1>2
<1> HIDE DEF Between
<1>4. ASSUME NEW i \in 1 .. Len(Append(q, r)) PROVE Append(q, r)[i] = a + i
  <2>1. CASE i \in 1 .. Len(q)
    BY <1>1, <1>2, <2>1
  <2>2. CASE i = Len(q) + 1
    BY <1>1, <1>2, <2>2
  <2> QED  BY <1>3, <2>1, <2>2
<1> QED  BY <1>1, <1>2, <1>4 DEF Between

(* What holds of every handler in the queue holds of the first and of the   *)
(* others; the only one of a kind is gone once it is called.                *)
LEMMA EveryTail ==
  ASSUME NEW q \in Seq(Handler), q # <<>>
  PROVE  /\ \A S : NoneOf(q, S) => NoneOf(Tail(q), S)
         /\ \A S : OneOf(q, S) => OneOf(Tail(q), S)
         /\ \A S : OneOf(q, S) /\ Head(q).h \in S => NoneOf(Tail(q), S)
         /\ \A S : NoneOf(q, S) => Head(q).h \notin S
         /\ (\A i \in 1 .. Len(q) : Succeeds(q[i]))
              => Succeeds(Head(q)) /\ \A i \in 1 .. Len(Tail(q)) : Succeeds(Tail(q)[i])
<1>1. /\ Len(q) \in Nat /\ 1 \in 1 .. Len(q) /\ Len(Tail(q)) = Len(q) - 1 /\ Head(q) = q[1]
      /\ \A i \in 1 .. Len(Tail(q)) : Tail(q)[i] = q[i + 1] /\ i + 1 \in 1 .. Len(q) /\ i + 1 # 1
      /\ \A i, j \in 1 .. Len(Tail(q)) : i + 1 = j + 1 => i = j
  OBVIOUS
<1>2. \A S : NoneOf(q, S) => NoneOf(Tail(q), S) /\ Head(q).h \notin S
  BY <1>1 DEF NoneOf
<1>3. \A S : OneOf(q, S) => OneOf(Tail(q), S)
  BY <1>1 DEF OneOf
<1>4. \A S : OneOf(q, S) /\ Head(q).h \in S => NoneOf(Tail(q), S)
  BY <1>1 DEF OneOf, NoneOf
<1>5. (\A i \in 1 .. Len(q) : Succeeds(q[i]))
         => Succeeds(Head(q)) /\ \A i \in 1 .. Len(Tail(q)) : Succeeds(Tail(q)[i])
  BY <1>1
<1> QED  BY <1>2, <1>3, <1>4, <1>5

(* What holds of every handler and of a new one holds after it is posted;   *)
(* the first of a kind is the only one.                                     *)
LEMMA EveryAppend ==
  ASSUME NEW q \in Seq(Handler), NEW x \in Handler
  PROVE  /\ \A S : NoneOf(q, S) /\ x.h \notin S => NoneOf(Append(q, x), S)
         /\ \A S : OneOf(q, S) /\ x.h \notin S => OneOf(Append(q, x), S)
         /\ \A S : NoneOf(q, S) => OneOf(Append(q, x), S)
         /\ (\A i \in 1 .. Len(q) : Succeeds(q[i])) /\ Succeeds(x)
              => \A i \in 1 .. Len(Append(q, x)) : Succeeds(Append(q, x)[i])
<1> DEFINE p == Append(q, x)
<1>1. /\ Len(q) \in Nat /\ Len(p) = Len(q) + 1 /\ p[Len(q) + 1] = x
      /\ \A i \in 1 .. Len(p) : i # Len(q) + 1 => i \in 1 .. Len(q) /\ p[i] = q[i]
  OBVIOUS
<1> HIDE DEF p
<1>2. \A S : NoneOf(q, S) /\ x.h \notin S => NoneOf(p, S)
  BY <1>1 DEF NoneOf
<1>3. \A S : OneOf(q, S) /\ x.h \notin S => OneOf(p, S)
  BY <1>1 DEF OneOf
<1>4. \A S : NoneOf(q, S) => OneOf(p, S)
  BY <1>1 DEF OneOf, NoneOf
<1>5. (\A i \in 1 .. Len(q) : Succeeds(q[i])) /\ Succeeds(x) => \A i \in 1 .. Len(p) : Succeeds(p[i])
  BY <1>1
<1> QED  BY <1>2, <1>3, <1>4, <1>5 DEF p

(* A handler that tells nothing of a request's way leaves the lines alone.  *)
LEMMA LinesAppended ==
  ASSUME NEW q \in Seq(Handler), NEW x \in Handler, NEW m \in Marks, NEW n \in Nat, NEW s,
         Order(s, m, n), Lines(q, m, n), x.h \notin {"EnqueueRequest", "Write", "SizeRead", "Read"}
  PROVE  Lines(Append(q, x), m, n)
<1>1. /\ m.enqueued \in Nat /\ m.awaited \in Nat /\ m.written \in Nat /\ m.sized \in Nat
      /\ m.begun \in Nat /\ m.given \in Nat /\ m.ended \in Nat
      /\ m.enqueued =< n /\ m.awaited =< m.written /\ m.sized =< m.begun /\ m.given =< m.ended
  BY DEF Marks, Order
<1>2. Line(Append(q, x), "EnqueueRequest", m.enqueued, n)
  BY <1>1, LineAppend DEF Lines
<1>3. Line(Append(q, x), "Write", m.awaited, m.written)
  BY <1>1, LineAppend DEF Lines
<1>4. Line(Append(q, x), "SizeRead", m.sized, m.begun)
  BY <1>1, LineAppend DEF Lines
<1>5. Line(Append(q, x), "Read", m.given, m.ended)
  BY <1>1, LineAppend DEF Lines
<1> QED  BY <1>2, <1>3, <1>4, <1>5 DEF Lines

(* The first handler is that of the next request of its line.               *)
LEMMA LinesTaken ==
  ASSUME NEW q \in Seq(Handler), q # <<>>, NEW m \in Marks, NEW n \in Nat,
         Lines(q, m, n)
  PROVE  /\ Head(q).h = "EnqueueRequest" =>
              /\ Head(q).arg = m.enqueued + 1 /\ m.enqueued < n
              /\ Line(Tail(q), "EnqueueRequest", m.enqueued + 1, n)
         /\ Head(q).h = "Write" =>
              /\ Head(q).arg = m.awaited + 1 /\ m.awaited < m.written
              /\ Line(Tail(q), "Write", m.awaited + 1, m.written)
         /\ Head(q).h = "SizeRead" =>
              /\ Head(q).arg = m.sized + 1 /\ m.sized < m.begun
              /\ Line(Tail(q), "SizeRead", m.sized + 1, m.begun)
         /\ Head(q).h = "Read" =>
              /\ Head(q).arg = m.given + 1 /\ m.given < m.ended
              /\ Line(Tail(q), "Read", m.given + 1, m.ended)
         /\ Head(q).h # "EnqueueRequest" => Line(Tail(q), "EnqueueRequest", m.enqueued, n)
         /\ Head(q).h # "Write" => Line(Tail(q), "Write", m.awaited, m.written)
         /\ Head(q).h # "SizeRead" => Line(Tail(q), "SizeRead", m.sized, m.begun)
         /\ Head(q).h # "Read" => Line(Tail(q), "Read", m.given, m.ended)
<1>1. /\ m.enqueued \in Nat /\ m.awaited \in Nat /\ m.written \in Nat /\ m.sized \in Nat
      /\ m.begun \in Nat /\ m.given \in Nat /\ m.ended \in Nat
  BY DEF Marks
<1>2. /\ Head(q).h = "EnqueueRequest" =>
              /\ Head(q).arg = m.enqueued + 1 /\ m.enqueued < n
              /\ Line(Tail(q), "EnqueueRequest", m.enqueued + 1, n)
      /\ Head(q).h # "EnqueueRequest" => Line(Tail(q), "EnqueueRequest", m.enqueued, n)
  BY <1>1, LineTail DEF Lines
<1>3. /\ Head(q).h = "Write" =>
              /\ Head(q).arg = m.awaited + 1 /\ m.awaited < m.written
              /\ Line(Tail(q), "Write", m.awaited + 1, m.written)
      /\ Head(q).h # "Write" => Line(Tail(q), "Write", m.awaited, m.written)
  BY <1>1, LineTail DEF Lines
<1>4. /\ Head(q).h = "SizeRead" =>
              /\ Head(q).arg = m.sized + 1 /\ m.sized < m.begun
              /\ Line(Tail(q), "SizeRead", m.sized + 1, m.begun)
      /\ Head(q).h # "SizeRead" => Line(Tail(q), "SizeRead", m.sized, m.begun)
  BY <1>1, LineTail DEF Lines
<1>5. /\ Head(q).h = "Read" =>
              /\ Head(q).arg = m.given + 1 /\ m.given < m.ended
              /\ Line(Tail(q), "Read", m.given + 1, m.ended)
      /\ Head(q).h # "Read" => Line(Tail(q), "Read", m.given, m.ended)
  BY <1>1, LineTail DEF Lines
<1> QED  BY <1>2, <1>3, <1>4, <1>5

(* The timers, and whether a write is under way, do not matter.             *)
Alike(s, t) ==
  /\ t.state = s.state /\ t.open = s.open /\ t.read_state = s.read_state
  /\ t.write_queue = s.write_queue /\ t.read_queue = s.read_queue
  /\ t.resolving = s.resolving /\ t.reading = s.reading /\ t.writing = s.writing
  /\ t.unanswered = s.unanswered /\ t.ready = s.ready

(* A change of a timer, or of write_state, keeps the order.                 *)
LEMMA AlikeCalm ==
  ASSUME NEW s, NEW t \in ConnState, Alike(s, t), NEW n, InCalm(s, n)
  PROVE  InCalm(t, n)
BY DEF Alike, InCalm, Calm, Order, Lines, Queues, Connection

(* SetDeadline changes a timer only.                                        *)
LEMMA SetDeadlineAlike ==
  ASSUME NEW s \in ConnState, NEW u \in Timers
  PROVE  SetDeadline(s, u) \in ConnState /\ Alike(s, SetDeadline(s, u))
<1>1. SetDeadline(s, u) \in ConnState
  BY SetDeadlineEffect
<1> DEFINE d == [s.deadline EXCEPT ![u] = "armed"]
<1>2. SetDeadline(s, u) = [s EXCEPT !.deadline = d]
  BY DEF SetDeadline
<1> HIDE DEF d
<1>3. Alike(s, [s EXCEPT !.deadline = d])
  BY DEF Alike, ConnState
<1> QED  BY <1>1, <1>2, <1>3

(* Cancel changes timers only.                                              *)
LEMMA CancelAlike ==
  ASSUME NEW s \in ConnState, NEW T
  PROVE  Cancel(s, T) \in ConnState /\ Alike(s, Cancel(s, T))
<1> DEFINE d == [u \in Timers |-> IF u \in T /\ s.deadline[u] = "armed"
                                  THEN "off" ELSE s.deadline[u]]
<1>1. d \in [Timers -> {"off", "armed", "expired"}]
  BY DEF ConnState
<1>2. Cancel(s, T) = [s EXCEPT !.deadline = d]
  BY DEF Cancel
<1> HIDE DEF d
<1>3. Alike(s, [s EXCEPT !.deadline = d]) /\ [s EXCEPT !.deadline = d] \in ConnState
  BY <1>1 DEF Alike, ConnState
<1> QED  BY <1>2, <1>3

-----------------------------------------------------------------------------
(* Sending.                                                                 *)

(* The oldest queued request is sent.                                       *)
LEMMA SentCalm ==
  ASSUME NEW s \in ConnState, NEW t \in ConnState, NEW n \in Nat, InCalm(s, n),
         s.state = "connected", s.write_queue # <<>>,
         t.state = s.state, t.open = s.open, t.read_state = s.read_state,
         t.write_queue = Tail(s.write_queue), t.read_queue = s.read_queue,
         t.resolving = s.resolving, t.reading = s.reading,
         t.writing = Append(s.writing, Operation("Write", Head(s.write_queue))),
         t.unanswered = s.unanswered, t.ready = s.ready
  PROVE  InCalm(t, n)
<1> PICK m \in Marks : Calm(s, m, n)
  BY DEF InCalm
<1> DEFINE b == m.sent + 1
           k == [m EXCEPT !.sent = b]
           w == Operation("Write", Head(s.write_queue))
<1>0. b \in Nat /\ b = m.sent + 1 /\ m.sent \in Nat /\ m.enqueued \in Nat /\ m.written \in Nat
  BY DEF Marks
<1> HIDE DEF b
<1>1. k \in Marks /\ k.sent = b /\ k.enqueued = m.enqueued /\ k.written = m.written
      /\ k.awaited = m.awaited /\ k.begun = m.begun /\ k.sized = m.sized /\ k.ended = m.ended
      /\ k.given = m.given
  BY <1>0 DEF Marks
<1> HIDE DEF k
<1>2. s.write_queue \in Seq(Requests) /\ s.writing \in Seq(WriteOperation)
  BY DEF ConnState
<1>3. /\ Head(s.write_queue) = m.sent + 1 /\ m.sent < m.enqueued
      /\ Between(t.write_queue, k.sent, k.enqueued)
  BY <1>0, <1>1, <1>2, BetweenTail DEF Calm, Queues
<1>4. Order(t, k, n)
  BY <1>0, <1>1, <1>3 DEF Calm, Order
<1>5. Lines(t.ready, k, n) /\ \A i \in 1 .. Len(t.ready) : Succeeds(t.ready[i])
  BY <1>0, <1>1 DEF Calm, Lines
<1>6. Queues(t, k)
  BY <1>0, <1>1, <1>3 DEF Calm, Queues
<1>7. w.op = "Write" /\ w.arg = m.sent + 1
  BY <1>3 DEF Operation
<1> HIDE DEF w
<1>8. /\ Len(t.writing) = k.sent - k.written
      /\ \A i \in 1 .. Len(t.writing) : t.writing[i].op = "Write" /\ t.writing[i].arg = k.written + i
  <2>1. /\ Len(s.writing) = m.sent - m.written /\ Len(s.writing) \in Nat
        /\ \A i \in 1 .. Len(s.writing) : s.writing[i].op = "Write" /\ s.writing[i].arg = m.written + i
    BY <1>2 DEF Calm, Connection
  <2>2. /\ Len(t.writing) = Len(s.writing) + 1 /\ t.writing[Len(s.writing) + 1] = w
        /\ \A i \in 1 .. Len(s.writing) : t.writing[i] = s.writing[i]
    BY <1>2 DEF w
  <2>3. \A i \in 1 .. Len(t.writing) : i \in 1 .. Len(s.writing) \/ i = Len(s.writing) + 1
    BY <2>1, <2>2
  <2>4. Len(t.writing) = k.sent - k.written
    BY <1>0, <1>1, <2>1, <2>2
  <2>5. ASSUME NEW i \in 1 .. Len(t.writing)
        PROVE  t.writing[i].op = "Write" /\ t.writing[i].arg = k.written + i
    <3>1. CASE i \in 1 .. Len(s.writing)
      BY <1>0, <1>1, <2>1, <2>2, <3>1
    <3>2. CASE i = Len(s.writing) + 1
      <4>1. m.written + i = m.sent + 1
        BY <1>0, <1>1, <2>1, <3>2
      <4> QED  BY <1>0, <1>1, <1>7, <2>2, <3>2, <4>1
    <3> QED  BY <2>3, <3>1, <3>2
  <2> QED  BY <2>4, <2>5
<1>9. Connection(t, k)
  <2>1. s.open /\ s.resolving = <<>> /\ NoneOf(s.ready, Dials) /\ OneOf(s.ready, Dials)
    BY DEF Calm, Connection
  <2> QED  BY <1>8, <2>1 DEF Connection
<1>10. Calm(t, k, n)
  BY <1>4, <1>5, <1>6, <1>9 DEF Calm
<1> QED  BY <1>0, <1>1, <1>10 DEF InCalm

(* SendRequest adds a write to the socket's.                                *)
LEMMA SendRequestFields ==
  ASSUME NEW s \in ConnState, NEW r \in Requests, s.open
  PROVE  LET t == SendRequest(s, r) IN
         /\ t \in ConnState
         /\ t.state = s.state /\ t.open = s.open /\ t.read_state = s.read_state
         /\ t.write_queue = s.write_queue /\ t.read_queue = s.read_queue
         /\ t.resolving = s.resolving /\ t.reading = s.reading
         /\ t.writing = Append(s.writing, Operation("Write", r))
         /\ t.unanswered = s.unanswered /\ t.ready = s.ready
<1> DEFINE q == Append(s.writing, Operation("Write", r))
           u == [s EXCEPT !.writing = q]
           v == [u EXCEPT !.write_state = "busy"]
           t == SetDeadline(v, "write_deadline")
<1>1. q \in Seq(WriteOperation)
  <2>1. s.writing \in Seq(WriteOperation) /\ Operation("Write", r) \in WriteOperation
    BY DEF ConnState, Operation, WriteOperation
  <2> QED  BY <2>1
<1>2. SendRequest(s, r) = t
  BY DEF SendRequest, Write
<1> HIDE DEF q
<1>3. /\ v \in ConnState
      /\ v.state = s.state /\ v.open = s.open /\ v.read_state = s.read_state
      /\ v.write_queue = s.write_queue /\ v.read_queue = s.read_queue
      /\ v.resolving = s.resolving /\ v.reading = s.reading
      /\ v.writing = q /\ v.unanswered = s.unanswered /\ v.ready = s.ready
  BY <1>1 DEF ConnState
<1> HIDE DEF v
<1>4. t \in ConnState /\ Alike(v, t)
  BY <1>3, SetDeadlineAlike DEF Timers
<1> HIDE DEF t
<1> QED  BY <1>2, <1>3, <1>4 DEF Alike, q

(* NextRequest and HandleAsyncAutoConnect send the head of the write queue, *)
(* also while an earlier write is under way.                                *)
LEMMA SendHeadCalm ==
  ASSUME NEW s \in ConnState, NEW n \in Nat, InCalm(s, n),
         s.state = "connected", s.write_queue # <<>>
  PROVE  InCalm([SendRequest(s, Head(s.write_queue)) EXCEPT !.write_queue = Tail(@)], n)
<1> DEFINE u == SendRequest(s, Head(s.write_queue))
           t == [u EXCEPT !.write_queue = Tail(u.write_queue)]
<1>1. s.open
  BY DEF InCalm, Calm, Connection
<1>2. s.write_queue \in Seq(Requests) /\ Head(s.write_queue) \in Requests
      /\ Tail(s.write_queue) \in Seq(Requests)
  <2>1. s.write_queue \in Seq(Requests)
    BY DEF ConnState
  <2> QED  BY <2>1
<1>3. /\ u \in ConnState
      /\ u.state = s.state /\ u.open = s.open /\ u.read_state = s.read_state
      /\ u.write_queue = s.write_queue /\ u.read_queue = s.read_queue
      /\ u.resolving = s.resolving /\ u.reading = s.reading
      /\ u.writing = Append(s.writing, Operation("Write", Head(s.write_queue)))
      /\ u.unanswered = s.unanswered /\ u.ready = s.ready
  BY <1>1, <1>2, SendRequestFields
<1> HIDE DEF u
<1>4. t \in ConnState /\ t.write_queue = Tail(s.write_queue)
      /\ t.state = u.state /\ t.open = u.open /\ t.read_state = u.read_state
      /\ t.read_queue = u.read_queue /\ t.resolving = u.resolving /\ t.reading = u.reading
      /\ t.writing = u.writing /\ t.unanswered = u.unanswered /\ t.ready = u.ready
  BY <1>2, <1>3 DEF ConnState
<1> HIDE DEF t
<1>5. InCalm(t, n)
  BY <1>3, <1>4, SentCalm
<1> QED  BY <1>5 DEF t, u

(* AsyncConnect is called when nothing is under way, and starts to resolve. *)
LEMMA AsyncConnectCalm ==
  ASSUME NEW s \in ConnState, NEW n \in Nat, InCalm(s, n), s.state = "closed"
  PROVE  InCalm(AsyncConnect(s), n)
<1> PICK m \in Marks : Calm(s, m, n)
  BY DEF InCalm
<1> DEFINE q == Append(s.resolving, Operation("Resolve", None))
           u == [s EXCEPT !.resolving = q, !.state = "connecting"]
<1>1. s.resolving = <<>> /\ s.writing = <<>> /\ NoneOf(s.ready, Dials) /\ NoneOf(s.ready, {"AutoConnect"})
      /\ OneOf(s.ready, Dials) /\ m.sent = 0 /\ (~s.open => NoneOf(s.ready, {"Connect"}))
  BY DEF Calm, Connection
<1>2. q \in Seq(ResolveOperation) /\ q # <<>> /\ Len(q) = 1
  <2>1. s.resolving \in Seq(ResolveOperation) /\ Operation("Resolve", None) \in ResolveOperation
    BY DEF ConnState, ResolveOperation, Operation
  <2> QED  BY <1>1, <2>1
<1>3. AsyncConnect(s) = SetDeadline(u, "connect_deadline")
  <2>1. AsyncConnect(s) = SetDeadline([Resolve(s) EXCEPT !.state = "connecting"], "connect_deadline")
    BY DEF AsyncConnect
  <2>2. [Resolve(s) EXCEPT !.state = "connecting"] = u
    BY DEF Resolve
  <2> QED  BY <2>1, <2>2
<1> HIDE DEF q
<1>4. u \in ConnState
  BY <1>2 DEF ConnState
<1>40. /\ u.resolving = q /\ u.state = "connecting"
      /\ u.open = s.open /\ u.read_state = s.read_state
      /\ u.write_queue = s.write_queue /\ u.read_queue = s.read_queue
      /\ u.reading = s.reading /\ u.writing = s.writing
      /\ u.unanswered = s.unanswered /\ u.ready = s.ready
  BY DEF ConnState
<1> HIDE DEF u
<1>5. Order(u, m, n) /\ Lines(u.ready, m, n) /\ Queues(u, m)
      /\ \A i \in 1 .. Len(u.ready) : Succeeds(u.ready[i])
  BY <1>40 DEF Calm, Order, Queues
<1>6. Connection(u, m)
  <2>0. u.resolving = q /\ u.writing = <<>>
    BY <1>1, <1>40
  <2>1. Len(u.resolving) =< 1 /\ Len(u.writing) = 0 /\ u.writing = <<>>
    <3>1. Len(u.resolving) = 1
      BY <1>2, <2>0
    <3>2. Len(u.writing) = 0
      BY <2>0
    <3> QED  BY <2>0, <3>1, <3>2
  <2>2. \A i \in 1 .. Len(u.writing) : u.writing[i].op = "Connect"
    BY <2>1
  <2>3. /\ u.state = "connecting" /\ m.sent = 0 /\ NoneOf(u.ready, {"AutoConnect"})
        /\ NoneOf(u.ready, Dials) /\ OneOf(u.ready, Dials)
        /\ (~u.open => NoneOf(u.ready, {"Connect"}))
    BY <1>1, <1>40
  <2> QED  BY <2>1, <2>2, <2>3 DEF Connection
<1>7. InCalm(u, n)
  BY <1>4, <1>5, <1>6 DEF Calm, InCalm
<1>8. SetDeadline(u, "connect_deadline") \in ConnState /\ Alike(u, SetDeadline(u, "connect_deadline"))
  BY <1>4, SetDeadlineAlike DEF Timers
<1> QED  BY <1>3, <1>7, <1>8, AlikeCalm

(* NextRequest keeps the order in each of its cases.                        *)
LEMMA NextRequestCalm ==
  ASSUME NEW s \in ConnState, NEW n \in Nat, InCalm(s, n)
  PROVE  InCalm(NextRequest(s), n)
<1>1. CASE s.write_state = "busy" \/ s.write_queue = <<>>
  BY <1>1 DEF NextRequest
<1>2. CASE ~(s.write_state = "busy" \/ s.write_queue = <<>>) /\ s.state = "closed"
  <2>1. NextRequest(s) = AsyncConnect(s)
    BY <1>2 DEF NextRequest
  <2> QED  BY <1>2, <2>1, AsyncConnectCalm
<1>3. CASE ~(s.write_state = "busy" \/ s.write_queue = <<>>) /\ s.state = "connected"
  <2>1. NextRequest(s) = [SendRequest(s, Head(s.write_queue)) EXCEPT !.write_queue = Tail(@)]
    BY <1>3 DEF NextRequest
  <2> QED  BY <1>3, <2>1, SendHeadCalm
<1>4. CASE ~(s.write_state = "busy" \/ s.write_queue = <<>>) /\ s.state = "connecting"
  <2>1. NextRequest(s) = s
    BY <1>4 DEF NextRequest
  <2> QED  BY <2>1
<1>5. s.state \in {"closed", "connecting", "connected"}
  BY DEF ConnState
<1> QED  BY <1>1, <1>2, <1>3, <1>4, <1>5

-----------------------------------------------------------------------------
(* The handler that io_service calls.                                       *)

(* Calling a handler leaves what is said of the connection true.            *)
LEMMA ConnectionTail ==
  ASSUME NEW s \in ConnState, s.ready # <<>>, NEW t, NEW m, NEW k, Connection(s, m),
         t.state = s.state, t.open = s.open, t.resolving = s.resolving, t.writing = s.writing,
         t.ready = Tail(s.ready), k.sent = m.sent, k.written = m.written
  PROVE  Connection(t, k)
<1>1. /\ \A S : NoneOf(s.ready, S) => NoneOf(t.ready, S)
      /\ \A S : OneOf(s.ready, S) => OneOf(t.ready, S)
  BY EveryTail DEF ConnState
<1> QED  BY <1>1 DEF Connection

(* So does posting a handler that is not one of connecting.                 *)
LEMMA ConnectionAppend ==
  ASSUME NEW s \in ConnState, NEW x \in Handler, NEW t, NEW m, NEW k, Connection(s, m),
         t.state = s.state, t.open = s.open, t.resolving = s.resolving, t.writing = s.writing,
         t.ready = Append(s.ready, x), x.h \notin {"Resolve", "Connect", "AutoConnect"},
         k.sent = m.sent, k.written = m.written
  PROVE  Connection(t, k)
<1>1. /\ \A S : NoneOf(s.ready, S) /\ x.h \notin S => NoneOf(t.ready, S)
      /\ \A S : OneOf(s.ready, S) /\ x.h \notin S => OneOf(t.ready, S)
  BY EveryAppend DEF ConnState
<1>2. x.h \notin Dials /\ x.h \notin {"AutoConnect"} /\ x.h \notin {"Connect"}
  BY DEF Dials
<1>3. /\ NoneOf(s.ready, Dials) => NoneOf(t.ready, Dials)
      /\ OneOf(s.ready, Dials) => OneOf(t.ready, Dials)
      /\ NoneOf(s.ready, {"AutoConnect"}) => NoneOf(t.ready, {"AutoConnect"})
      /\ NoneOf(s.ready, {"Connect"}) => NoneOf(t.ready, {"Connect"})
  BY <1>1, <1>2
<1> QED  BY <1>3 DEF Connection

(* Nothing is sent before the connection is there.                          *)
LEMMA SentConnected ==
  ASSUME NEW s \in ConnState, NEW m \in Marks, NEW n \in Nat, Calm(s, m, n), m.written > 0
  PROVE  s.state = "connected" /\ s.open
<1>1. m.written =< m.sent /\ m.written \in Nat /\ m.sent \in Nat
  BY DEF Calm, Order, Marks
<1> QED  BY <1>1 DEF Calm, Connection

(* The handler that io_service calls: the connection without it.            *)
Taken(s, t) ==
  /\ s.ready # <<>> /\ t = [s EXCEPT !.ready = Tail(@)]

(* Taking the handler leaves everything but the queue of io_service alone.  *)
LEMMA TakenFields ==
  ASSUME NEW s \in ConnState, NEW t, Taken(s, t)
  PROVE  /\ t \in ConnState /\ Head(s.ready) \in Handler
         /\ t.state = s.state /\ t.open = s.open /\ t.read_state = s.read_state
         /\ t.write_queue = s.write_queue /\ t.read_queue = s.read_queue
         /\ t.resolving = s.resolving /\ t.reading = s.reading /\ t.writing = s.writing
         /\ t.unanswered = s.unanswered /\ t.ready = Tail(s.ready)
<1> DEFINE q == Tail(s.ready)
<1>1. q \in Seq(Handler) /\ Head(s.ready) \in Handler
  <2>1. s.ready \in Seq(Handler) /\ s.ready # <<>>
    BY DEF ConnState, Taken
  <2> QED  BY <2>1
<1>2. t = [s EXCEPT !.ready = q]
  BY DEF Taken
<1> HIDE DEF q
<1>3. t \in ConnState
  BY <1>1, <1>2 DEF ConnState
<1>4. /\ t.state = s.state /\ t.open = s.open /\ t.read_state = s.read_state
      /\ t.write_queue = s.write_queue /\ t.read_queue = s.read_queue
      /\ t.resolving = s.resolving /\ t.reading = s.reading /\ t.writing = s.writing
      /\ t.unanswered = s.unanswered /\ t.ready = q
  BY <1>2 DEF ConnState
<1> QED  BY <1>1, <1>3, <1>4 DEF q

(* The handler that is called reports success, and what is left is in order *)
(* except for the line of the handler.                                      *)
LEMMA TakenCalm ==
  ASSUME NEW s \in ConnState, NEW t, Taken(s, t), NEW m \in Marks, NEW n \in Nat, Calm(s, m, n)
  PROVE  /\ Succeeds(Head(s.ready)) /\ \A i \in 1 .. Len(t.ready) : Succeeds(t.ready[i])
         /\ Order(t, m, n) /\ Queues(t, m) /\ Connection(t, m)
         /\ Head(s.ready).h \notin {"EnqueueRequest", "Write", "SizeRead", "Read"} => Lines(t.ready, m, n)
<1>1. s.ready \in Seq(Handler) /\ s.ready # <<>>
  BY DEF ConnState, Taken
<1>2. /\ t.state = s.state /\ t.open = s.open /\ t.read_state = s.read_state
      /\ t.write_queue = s.write_queue /\ t.read_queue = s.read_queue
      /\ t.resolving = s.resolving /\ t.reading = s.reading /\ t.writing = s.writing
      /\ t.unanswered = s.unanswered /\ t.ready = Tail(s.ready)
  BY TakenFields
<1>3. Succeeds(Head(s.ready)) /\ \A i \in 1 .. Len(t.ready) : Succeeds(t.ready[i])
  BY <1>1, <1>2, EveryTail DEF Calm
<1>4. Order(t, m, n) /\ Queues(t, m)
  BY <1>2 DEF Calm, Order, Queues
<1>5. Connection(t, m)
  BY <1>1, <1>2, ConnectionTail DEF Calm
<1>6. ASSUME Head(s.ready).h \notin {"EnqueueRequest", "Write", "SizeRead", "Read"}
      PROVE  Lines(t.ready, m, n)
  <2>1. Lines(s.ready, m, n)
    BY DEF Calm
  <2>2. /\ Line(Tail(s.ready), "EnqueueRequest", m.enqueued, n)
        /\ Line(Tail(s.ready), "Write", m.awaited, m.written)
        /\ Line(Tail(s.ready), "SizeRead", m.sized, m.begun)
        /\ Line(Tail(s.ready), "Read", m.given, m.ended)
    BY <1>1, <1>6, <2>1, LinesTaken
  <2> QED  BY <1>2, <2>2 DEF Lines
<1> QED  BY <1>3, <1>4, <1>5, <1>6

(* EnqueueRequest.                                                          *)
LEMMA QueuedCalm ==
  ASSUME NEW s \in ConnState, NEW t, Taken(s, t), NEW n \in Nat, InCalm(s, n),
         Head(s.ready).h = "EnqueueRequest"
  PROVE  InCalm([t EXCEPT !.write_queue = Append(@, Head(s.ready).arg)], n)
<1> PICK m \in Marks : Calm(s, m, n)
  BY DEF InCalm
<1> DEFINE b == m.enqueued + 1
           k == [m EXCEPT !.enqueued = b]
           r == Head(s.ready).arg
           q == Append(t.write_queue, r)
           u == [t EXCEPT !.write_queue = q]
<1>0. /\ b \in Nat /\ b = m.enqueued + 1 /\ m.enqueued \in Nat /\ m.sent \in Nat
  BY DEF Marks
<1> HIDE DEF b
<1>1. k \in Marks /\ k.enqueued = b /\ k.sent = m.sent /\ k.written = m.written
      /\ k.awaited = m.awaited /\ k.begun = m.begun /\ k.sized = m.sized /\ k.ended = m.ended
      /\ k.given = m.given
  BY <1>0 DEF Marks
<1> HIDE DEF k
<1>2. /\ t \in ConnState /\ Head(s.ready) \in Handler /\ t.ready = Tail(s.ready)
      /\ s.ready \in Seq(Handler) /\ s.ready # <<>>
  BY TakenFields DEF ConnState, Taken
<1>3. /\ r = b /\ m.enqueued < n
      /\ Line(t.ready, "EnqueueRequest", b, n) /\ Line(t.ready, "Write", m.awaited, m.written)
      /\ Line(t.ready, "SizeRead", m.sized, m.begun) /\ Line(t.ready, "Read", m.given, m.ended)
  BY <1>0, <1>2, LinesTaken DEF Calm
<1>4. r \in Requests /\ t.write_queue \in Seq(Requests)
  BY <1>2 DEF Handler, Timers, ConnState
<1>5. q \in Seq(Requests)
  BY <1>4
<1>6. Between(q, m.sent, b)
  <2>1. Between(t.write_queue, m.sent, m.enqueued)
    BY TakenCalm DEF Queues
  <2> QED  BY <1>0, <1>3, <1>4, <2>1, BetweenAppend
<1> HIDE DEF q
<1>7. u \in ConnState
  BY <1>2, <1>5 DEF ConnState
<1>8. /\ u.state = t.state /\ u.open = t.open /\ u.read_state = t.read_state
      /\ u.write_queue = q /\ u.read_queue = t.read_queue
      /\ u.resolving = t.resolving /\ u.reading = t.reading /\ u.writing = t.writing
      /\ u.unanswered = t.unanswered /\ u.ready = t.ready
  BY <1>2 DEF ConnState
<1> HIDE DEF u, r
<1>9. /\ \A i \in 1 .. Len(t.ready) : Succeeds(t.ready[i])
      /\ Order(t, m, n) /\ Queues(t, m) /\ Connection(t, m)
  BY TakenCalm
<1>10. Order(u, k, n)
  BY <1>0, <1>1, <1>3, <1>8, <1>9 DEF Order
<1>11. Lines(u.ready, k, n)
  BY <1>1, <1>3, <1>8 DEF Lines
<1>12. Queues(u, k)
  BY <1>1, <1>6, <1>8, <1>9 DEF Queues
<1>13. Connection(u, k)
  BY <1>1, <1>8, <1>9 DEF Connection
<1>14. Calm(u, k, n)
  BY <1>8, <1>9, <1>10, <1>11, <1>12, <1>13 DEF Calm
<1>15. InCalm(u, n)
  BY <1>1, <1>7, <1>14 DEF InCalm
<1> QED  BY <1>15 DEF u, q, r

(* EnqueueRequest sends the request at once only if no other waits.         *)
LEMMA EnqueueRequestCalm ==
  ASSUME NEW s \in ConnState, NEW t, Taken(s, t), NEW n \in Nat, InCalm(s, n),
         Head(s.ready).h = "EnqueueRequest"
  PROVE  InCalm(EnqueueRequest(t, Head(s.ready).arg), n)
<1> DEFINE r == Head(s.ready).arg
           u == [t EXCEPT !.write_queue = Append(@, r)]
<1>1. InCalm(u, n) /\ u \in ConnState
  BY QueuedCalm DEF InCalm
<1>2. t \in ConnState /\ r \in Requests
  BY TakenFields DEF Handler, Timers
<1>3. CASE t.write_state = "busy"
  BY <1>1, <1>3 DEF EnqueueRequest
<1>4. CASE t.write_state # "busy" /\ t.write_queue = <<>> /\ t.state = "connected"
  <2> DEFINE v == SendRequest(t, r)
  <2>1. EnqueueRequest(t, r) = v
    BY <1>4 DEF EnqueueRequest
  <2>2. /\ u.state = t.state /\ u.open = t.open /\ u.read_state = t.read_state
        /\ u.write_queue = Append(t.write_queue, r) /\ u.read_queue = t.read_queue
        /\ u.resolving = t.resolving /\ u.reading = t.reading /\ u.writing = t.writing
        /\ u.unanswered = t.unanswered /\ u.ready = t.ready
    BY <1>2 DEF ConnState
  <2>3. Head(u.write_queue) = r /\ Tail(u.write_queue) = <<>> /\ u.write_queue # <<>>
    <3>1. u.write_queue = <<r>>
      BY <1>4, <2>2
    <3> QED  BY <3>1
  <2>4. t.open
    BY <1>1, <1>4, <2>2 DEF InCalm, Calm, Connection
  <2>5. /\ v \in ConnState
        /\ v.state = t.state /\ v.open = t.open /\ v.read_state = t.read_state
        /\ v.write_queue = t.write_queue /\ v.read_queue = t.read_queue
        /\ v.resolving = t.resolving /\ v.reading = t.reading
        /\ v.writing = Append(t.writing, Operation("Write", r))
        /\ v.unanswered = t.unanswered /\ v.ready = t.ready
    BY <1>2, <2>4, SendRequestFields
  <2> HIDE DEF v, u
  <2>6. InCalm(v, n)
    <3>1. /\ v.state = u.state /\ v.open = u.open /\ v.read_state = u.read_state
          /\ v.write_queue = Tail(u.write_queue) /\ v.read_queue = u.read_queue
          /\ v.resolving = u.resolving /\ v.reading = u.reading
          /\ v.writing = Append(u.writing, Operation("Write", Head(u.write_queue)))
          /\ v.unanswered = u.unanswered /\ v.ready = u.ready
      BY <1>4, <2>2, <2>3, <2>5
    <3>2. u.state = "connected"
      BY <1>4, <2>2
    <3> QED  BY <1>1, <2>3, <2>5, <3>1, <3>2, SentCalm
  <2> QED  BY <2>1, <2>6
<1>5. CASE t.write_state # "busy" /\ ~(t.write_queue = <<>> /\ t.state = "connected")
  <2>1. EnqueueRequest(t, r) = NextRequest(u)
    BY <1>5 DEF EnqueueRequest
  <2> HIDE DEF u
  <2> QED  BY <1>1, <2>1, NextRequestCalm
<1> QED  BY <1>3, <1>4, <1>5

-----------------------------------------------------------------------------
(* Awaiting and reading responses.                                          *)

(* An empty line may be anywhere.                                           *)
LEMMA EmptyLine ==
  ASSUME NEW q, NEW h, NEW a \in Nat, NEW b \in Nat, Line(q, h, a, a)
  PROVE  Line(q, h, b, b)
<1>1. \A r \in Nat : ~(a < r /\ r =< a) /\ ~(b < r /\ r =< b)
  OBVIOUS
<1> QED  BY <1>1 DEF Line

(* The oldest response awaited is read next.                                *)
LEMMA BegunCalm ==
  ASSUME NEW s \in ConnState, NEW t \in ConnState, NEW n \in Nat, InCalm(s, n),
         s.read_queue # <<>>, s.read_state = "idle",
         t.state = s.state, t.open = s.open, t.read_state = "busy",
         t.write_queue = s.write_queue, t.read_queue = Tail(s.read_queue),
         t.resolving = s.resolving, t.writing = s.writing,
         t.reading = Append(s.reading, Operation("SizeRead", Head(s.read_queue))),
         t.unanswered = s.unanswered, t.ready = s.ready
  PROVE  InCalm(t, n)
<1> PICK m \in Marks : Calm(s, m, n)
  BY DEF InCalm
<1> DEFINE b == m.begun + 1
           k == [m EXCEPT !.begun = b, !.sized = b]
           o == Operation("SizeRead", Head(s.read_queue))
<1>0. /\ b \in Nat /\ b = m.begun + 1 /\ m.begun \in Nat /\ m.awaited \in Nat
      /\ m.sized \in Nat /\ m.ended \in Nat /\ m.given \in Nat
      /\ m.given =< m.ended /\ m.ended =< m.sized /\ m.sized =< m.begun /\ m.begun = m.given
  BY DEF Marks, Calm, Order
<1>1. m.sized = m.begun /\ m.ended = m.begun
  BY <1>0
<1> HIDE DEF b
<1>2. k \in Marks
  BY <1>0 DEF Marks
<1>3. /\ k.begun = b /\ k.sized = b /\ k.enqueued = m.enqueued /\ k.sent = m.sent
      /\ k.written = m.written /\ k.awaited = m.awaited /\ k.ended = m.ended /\ k.given = m.given
  BY DEF Marks
<1> HIDE DEF k
<1>4. s.read_queue \in Seq(Requests) /\ s.reading \in Seq(ReadOperation)
  BY DEF ConnState
<1>5. Head(s.read_queue) = b /\ m.begun < m.awaited /\ Between(t.read_queue, b, m.awaited)
  BY <1>0, <1>4, BetweenTail DEF Calm, Queues
<1>6. Order(t, k, n)
  <2>1. Order(s, m, n)
    BY DEF Calm
  <2>2. b =< m.awaited /\ b =< m.given + 1 /\ m.ended =< b
    BY <1>0, <1>1, <1>5
  <2>3. /\ m.given =< m.ended /\ m.awaited =< m.written /\ m.written =< m.sent
        /\ m.sent =< m.enqueued /\ m.enqueued =< n
    BY <2>1 DEF Order
  <2>4. b =< b
    BY <1>0
  <2>5. /\ k.given =< k.ended /\ k.ended =< k.sized /\ k.sized =< k.begun
        /\ k.begun =< k.awaited /\ k.awaited =< k.written /\ k.written =< k.sent
        /\ k.sent =< k.enqueued /\ k.enqueued =< n /\ k.begun =< k.given + 1
    BY <1>3, <2>2, <2>3, <2>4
  <2>6. t.read_state # "idle"
    OBVIOUS
  <2> QED  BY <2>5, <2>6 DEF Order
<1>7. Lines(t.ready, k, n)
  <2>1. Lines(s.ready, m, n)
    BY DEF Calm
  <2>2. Line(s.ready, "SizeRead", b, b)
    BY <1>0, <1>1, <2>1, EmptyLine DEF Lines
  <2> QED  BY <1>3, <2>1, <2>2 DEF Lines
<1>8. o.arg = b
  BY <1>5 DEF Operation
<1> HIDE DEF o
<1>9. Len(t.reading) = 1 /\ t.reading[1] = o
  <2>1. Len(s.reading) = 0
    BY <1>0, <1>1 DEF Calm, Queues
  <2> QED  BY <1>4, <2>1 DEF o
<1>10. Len(t.reading) = b - m.ended /\ \A i \in 1 .. Len(t.reading) : t.reading[i].arg = b
  BY <1>0, <1>1, <1>8, <1>9
<1>11. Queues(t, k)
  <2>1. Queues(s, m)
    BY DEF Calm
  <2> QED  BY <1>3, <1>5, <1>10, <2>1 DEF Queues
<1>12. Connection(t, k)
  BY <1>3 DEF Calm, Connection
<1>13. Calm(t, k, n)
  BY <1>6, <1>7, <1>11, <1>12 DEF Calm
<1> QED  BY <1>2, <1>13 DEF InCalm

(* async_read adds a read to the socket's.                                  *)
LEMMA ReadFields ==
  ASSUME NEW s \in ConnState, NEW r \in Requests, NEW op \in {"SizeRead", "Read"}, s.open
  PROVE  LET t == Read(s, op, r) IN
         /\ t \in ConnState
         /\ t.state = s.state /\ t.open = s.open /\ t.read_state = s.read_state
         /\ t.write_queue = s.write_queue /\ t.read_queue = s.read_queue
         /\ t.resolving = s.resolving /\ t.writing = s.writing
         /\ t.reading = Append(s.reading, Operation(op, r))
         /\ t.unanswered = s.unanswered /\ t.ready = s.ready
<1> DEFINE q == Append(s.reading, Operation(op, r))
           t == [s EXCEPT !.reading = q]
<1>1. q \in Seq(ReadOperation)
  <2>1. s.reading \in Seq(ReadOperation) /\ Operation(op, r) \in ReadOperation
    BY DEF ConnState, Operation, ReadOperation
  <2> QED  BY <2>1
<1>2. Read(s, op, r) = t
  BY DEF Read
<1> HIDE DEF q
<1>3. t \in ConnState
  BY <1>1 DEF ConnState
<1>4. /\ t.state = s.state /\ t.open = s.open /\ t.read_state = s.read_state
      /\ t.write_queue = s.write_queue /\ t.read_queue = s.read_queue
      /\ t.resolving = s.resolving /\ t.writing = s.writing
      /\ t.reading = q /\ t.unanswered = s.unanswered /\ t.ready = s.ready
  BY DEF ConnState
<1> QED  BY <1>2, <1>3, <1>4 DEF q

(* ReceiveResponse reads the size and marks the connection busy.            *)
LEMMA ReceiveFields ==
  ASSUME NEW s \in ConnState, NEW r \in Requests, s.open
  PROVE  LET t == ReceiveResponse(s, r) IN
         /\ t \in ConnState
         /\ t.state = s.state /\ t.open = s.open /\ t.read_state = "busy"
         /\ t.write_queue = s.write_queue /\ t.read_queue = s.read_queue
         /\ t.resolving = s.resolving /\ t.writing = s.writing
         /\ t.reading = Append(s.reading, Operation("SizeRead", r))
         /\ t.unanswered = s.unanswered /\ t.ready = s.ready
<1> DEFINE u == Read(s, "SizeRead", r)
           v == [u EXCEPT !.read_state = "busy"]
           t == SetDeadline(v, "read_deadline")
<1>1. /\ u \in ConnState
      /\ u.state = s.state /\ u.open = s.open
      /\ u.write_queue = s.write_queue /\ u.read_queue = s.read_queue
      /\ u.resolving = s.resolving /\ u.writing = s.writing
      /\ u.reading = Append(s.reading, Operation("SizeRead", r))
      /\ u.unanswered = s.unanswered /\ u.ready = s.ready
  BY ReadFields
<1>2. ReceiveResponse(s, r) = t
  BY DEF ReceiveResponse
<1> HIDE DEF u
<1>3. v \in ConnState
  BY <1>1 DEF ConnState
<1>4. /\ v.state = u.state /\ v.open = u.open /\ v.read_state = "busy"
      /\ v.write_queue = u.write_queue /\ v.read_queue = u.read_queue
      /\ v.resolving = u.resolving /\ v.reading = u.reading
      /\ v.writing = u.writing /\ v.unanswered = u.unanswered /\ v.ready = u.ready
  BY <1>1 DEF ConnState
<1> HIDE DEF v
<1>5. t \in ConnState /\ Alike(v, t)
  BY <1>3, SetDeadlineAlike DEF Timers
<1> HIDE DEF t
<1> QED  BY <1>1, <1>2, <1>4, <1>5 DEF Alike

(* NextResponse reads for the head of the read queue.                       *)
LEMMA NextResponseCalm ==
  ASSUME NEW s \in ConnState, NEW n \in Nat, InCalm(s, n), s.open
  PROVE  InCalm(NextResponse(s), n)
<1>1. CASE s.read_state = "busy" \/ s.read_queue = <<>>
  BY <1>1 DEF NextResponse
<1>2. CASE ~(s.read_state = "busy" \/ s.read_queue = <<>>)
  <2> DEFINE u == ReceiveResponse(s, Head(s.read_queue))
             t == [u EXCEPT !.read_queue = Tail(u.read_queue)]
  <2>1. NextResponse(s) = t
    BY <1>2 DEF NextResponse
  <2>2. s.read_queue \in Seq(Requests) /\ Head(s.read_queue) \in Requests
        /\ Tail(s.read_queue) \in Seq(Requests) /\ s.read_state = "idle"
    <3>1. s.read_queue \in Seq(Requests) /\ s.read_queue # <<>> /\ s.read_state \in {"idle", "busy"}
      BY <1>2 DEF ConnState
    <3> QED  BY <1>2, <3>1
  <2>3. /\ u \in ConnState
        /\ u.state = s.state /\ u.open = s.open /\ u.read_state = "busy"
        /\ u.write_queue = s.write_queue /\ u.read_queue = s.read_queue
        /\ u.resolving = s.resolving /\ u.writing = s.writing
        /\ u.reading = Append(s.reading, Operation("SizeRead", Head(s.read_queue)))
        /\ u.unanswered = s.unanswered /\ u.ready = s.ready
    BY <2>2, ReceiveFields
  <2> HIDE DEF u
  <2>4. t \in ConnState
    BY <2>2, <2>3 DEF ConnState
  <2>5. /\ t.read_queue = Tail(u.read_queue)
        /\ t.state = u.state /\ t.open = u.open /\ t.read_state = u.read_state
        /\ t.write_queue = u.write_queue /\ t.resolving = u.resolving /\ t.reading = u.reading
        /\ t.writing = u.writing /\ t.unanswered = u.unanswered /\ t.ready = u.ready
    BY <2>3 DEF ConnState
  <2> HIDE DEF t
  <2>6. /\ t.state = s.state /\ t.open = s.open /\ t.read_state = "busy"
        /\ t.write_queue = s.write_queue /\ t.read_queue = Tail(s.read_queue)
        /\ t.resolving = s.resolving /\ t.writing = s.writing
        /\ t.reading = Append(s.reading, Operation("SizeRead", Head(s.read_queue)))
        /\ t.unanswered = s.unanswered /\ t.ready = s.ready
    BY <2>3, <2>5
  <2>7. s.read_queue # <<>>
    BY <1>2
  <2>8. InCalm(t, n)
    BY <2>2, <2>4, <2>6, <2>7, BegunCalm
  <2> QED  BY <2>1, <2>8
<1> QED  BY <1>1, <1>2

(* EnqueueResponse.                                                         *)
LEMMA AwaitedCalm ==
  ASSUME NEW s \in ConnState, NEW v, NEW t \in ConnState, Taken(s, v), Alike(v, t),
         NEW n \in Nat, InCalm(s, n), Head(s.ready).h = "Write"
  PROVE  /\ InCalm([t EXCEPT !.read_queue = Append(@, Head(s.ready).arg)], n)
         /\ t.state = "connected" /\ t.open
<1> PICK m \in Marks : Calm(s, m, n)
  BY DEF InCalm
<1> DEFINE b == m.awaited + 1
           k == [m EXCEPT !.awaited = b]
           r == Head(s.ready).arg
           q == Append(t.read_queue, r)
           u == [t EXCEPT !.read_queue = q]
<1>0. /\ b \in Nat /\ b = m.awaited + 1 /\ m.awaited \in Nat /\ m.begun \in Nat /\ m.written \in Nat
  BY DEF Marks
<1> HIDE DEF b
<1>1. k \in Marks /\ k.awaited = b /\ k.sent = m.sent /\ k.written = m.written
      /\ k.enqueued = m.enqueued /\ k.begun = m.begun /\ k.sized = m.sized /\ k.ended = m.ended
      /\ k.given = m.given
  BY <1>0 DEF Marks
<1> HIDE DEF k
<1>2. /\ v \in ConnState /\ Head(s.ready) \in Handler /\ v.ready = Tail(s.ready)
      /\ s.ready \in Seq(Handler) /\ s.ready # <<>> /\ v.state = s.state /\ v.open = s.open
  BY TakenFields DEF ConnState, Taken
<1>3. /\ r = b /\ m.awaited < m.written
      /\ Line(v.ready, "EnqueueRequest", m.enqueued, n) /\ Line(v.ready, "Write", b, m.written)
      /\ Line(v.ready, "SizeRead", m.sized, m.begun) /\ Line(v.ready, "Read", m.given, m.ended)
  BY <1>0, <1>2, LinesTaken DEF Calm
<1>4. r \in Requests /\ t.read_queue \in Seq(Requests)
  BY <1>2 DEF Handler, Timers, ConnState
<1>5. q \in Seq(Requests)
  BY <1>4
<1>6. /\ \A i \in 1 .. Len(v.ready) : Succeeds(v.ready[i])
      /\ Order(v, m, n) /\ Queues(v, m) /\ Connection(v, m)
  BY TakenCalm
<1>7. Between(q, m.begun, b)
  <2>1. Between(t.read_queue, m.begun, m.awaited)
    BY <1>6 DEF Queues, Alike
  <2> QED  BY <1>0, <1>3, <1>4, <2>1, BetweenAppend
<1> HIDE DEF q
<1>8. u \in ConnState
  BY <1>5 DEF ConnState
<1>9. /\ u.state = t.state /\ u.open = t.open /\ u.read_state = t.read_state
      /\ u.write_queue = t.write_queue /\ u.read_queue = q
      /\ u.resolving = t.resolving /\ u.reading = t.reading /\ u.writing = t.writing
      /\ u.unanswered = t.unanswered /\ u.ready = t.ready
  BY DEF ConnState
<1> HIDE DEF u, r
<1>10. /\ u.state = v.state /\ u.open = v.open /\ u.read_state = v.read_state
       /\ u.write_queue = v.write_queue
       /\ u.resolving = v.resolving /\ u.reading = v.reading /\ u.writing = v.writing
       /\ u.unanswered = v.unanswered /\ u.ready = v.ready
  BY <1>9 DEF Alike
<1>11. Order(u, k, n)
  BY <1>0, <1>1, <1>3, <1>6, <1>10 DEF Order
<1>12. Lines(u.ready, k, n)
  BY <1>1, <1>3, <1>10 DEF Lines
<1>13. Queues(u, k)
  BY <1>1, <1>6, <1>7, <1>9, <1>10 DEF Queues
<1>14. Connection(u, k)
  BY <1>1, <1>6, <1>10 DEF Connection
<1>15. Calm(u, k, n)
  BY <1>6, <1>10, <1>11, <1>12, <1>13, <1>14 DEF Calm
<1>16. InCalm(u, n)
  BY <1>1, <1>8, <1>15 DEF InCalm
<1>17. t.state = "connected" /\ t.open
  <2>1. m.written > 0
    BY <1>0, <1>3
  <2>2. s.state = "connected" /\ s.open
    BY <2>1, SentConnected
  <2> QED  BY <1>2, <2>2 DEF Alike
<1> QED  BY <1>16, <1>17 DEF u, q, r

(* HandleAsyncRequestWrite, with EnqueueResponse: a response is read at     *)
(* once only if no other is awaited.                                        *)
LEMMA WriteHandlerCalm ==
  ASSUME NEW s \in ConnState, NEW v, Taken(s, v), NEW n \in Nat, InCalm(s, n),
         Head(s.ready).h = "Write"
  PROVE  InCalm(HandleAsyncRequestWrite(v, Head(s.ready).arg, Head(s.ready).res), n)
<1> DEFINE r == Head(s.ready).arg
           w == [v EXCEPT !.write_state = "idle"]
           t == Cancel(w, {"write_deadline"})
           u == [t EXCEPT !.read_queue = Append(@, r)]
<1>1. v \in ConnState /\ r \in Requests
  BY TakenFields DEF Handler, Timers
<1>2. Head(s.ready).res = "ok"
  BY TakenCalm DEF InCalm, Succeeds
<1>3. w \in ConnState /\ Alike(v, w)
  BY <1>1 DEF ConnState, Alike
<1>4. HandleAsyncRequestWrite(v, r, Head(s.ready).res) = EnqueueResponse(t, r)
  BY <1>2 DEF HandleAsyncRequestWrite
<1> HIDE DEF w
<1>5. t \in ConnState /\ Alike(v, t)
  <2>1. t \in ConnState /\ Alike(w, t)
    BY <1>3, CancelAlike
  <2> HIDE DEF t
  <2> QED  BY <1>3, <2>1 DEF Alike
<1> HIDE DEF t
<1>6. InCalm(u, n) /\ t.state = "connected" /\ t.open
  BY <1>5, AwaitedCalm
<1>7. u \in ConnState
  BY <1>6 DEF InCalm
<1>8. /\ u.state = t.state /\ u.open = t.open /\ u.read_state = t.read_state
      /\ u.write_queue = t.write_queue /\ u.read_queue = Append(t.read_queue, r)
      /\ u.resolving = t.resolving /\ u.reading = t.reading /\ u.writing = t.writing
      /\ u.unanswered = t.unanswered /\ u.ready = t.ready
  BY <1>5 DEF ConnState
<1>9. CASE t.read_state = "busy"
  <2>1. EnqueueResponse(t, r) = u
    BY <1>6, <1>9 DEF EnqueueResponse
  <2> QED  BY <1>4, <1>6, <2>1
<1>10. CASE t.read_state # "busy" /\ t.read_queue = <<>>
  <2> DEFINE x == ReceiveResponse(t, r)
  <2>1. EnqueueResponse(t, r) = x
    BY <1>6, <1>10 DEF EnqueueResponse
  <2>2. u.read_queue # <<>> /\ Head(u.read_queue) = r /\ Tail(u.read_queue) = <<>>
    <3>1. u.read_queue = Append(<<>>, r)
      BY <1>8, <1>10
    <3>2. Append(<<>>, r) # <<>> /\ Head(Append(<<>>, r)) = r /\ Tail(Append(<<>>, r)) = <<>>
      <4> HIDE DEF r
      <4> QED  OBVIOUS
    <3> QED  BY <3>1, <3>2
  <2>3. /\ x \in ConnState
        /\ x.state = t.state /\ x.open = t.open /\ x.read_state = "busy"
        /\ x.write_queue = t.write_queue /\ x.read_queue = t.read_queue
        /\ x.resolving = t.resolving /\ x.writing = t.writing
        /\ x.reading = Append(t.reading, Operation("SizeRead", r))
        /\ x.unanswered = t.unanswered /\ x.ready = t.ready
    BY <1>1, <1>5, <1>6, ReceiveFields
  <2>4. u.read_state = "idle"
    <3>1. t.read_state \in {"idle", "busy"}
      BY <1>5 DEF ConnState
    <3> QED  BY <1>8, <1>10, <3>1
  <2> HIDE DEF x, u
  <2>5. InCalm(x, n)
    <3>1. /\ x.state = u.state /\ x.open = u.open
          /\ x.write_queue = u.write_queue /\ x.read_queue = Tail(u.read_queue)
          /\ x.resolving = u.resolving /\ x.writing = u.writing
          /\ x.reading = Append(u.reading, Operation("SizeRead", Head(u.read_queue)))
          /\ x.unanswered = u.unanswered /\ x.ready = u.ready
      BY <1>8, <1>10, <2>2, <2>3
    <3> QED  BY <1>6, <1>7, <2>2, <2>3, <2>4, <3>1, BegunCalm
  <2> QED  BY <1>4, <2>1, <2>5
<1>11. CASE t.read_state # "busy" /\ t.read_queue # <<>>
  <2>1. EnqueueResponse(t, r) = NextResponse(u)
    BY <1>6, <1>11 DEF EnqueueResponse
  <2> HIDE DEF u
  <2>2. u.open
    BY <1>6, <1>8
  <2> QED  BY <1>4, <1>6, <1>7, <2>1, <2>2, NextResponseCalm
<1> QED  BY <1>9, <1>10, <1>11

(* HandleAsyncResponseSizeRead goes on with the same request.               *)
LEMMA SizeReadHandlerCalm ==
  ASSUME NEW s \in ConnState, NEW v, Taken(s, v), NEW n \in Nat, InCalm(s, n),
         Head(s.ready).h = "SizeRead"
  PROVE  InCalm(HandleAsyncResponseSizeRead(v, Head(s.ready).arg, Head(s.ready).res), n)
<1> PICK m \in Marks : Calm(s, m, n)
  BY DEF InCalm
<1> DEFINE b == m.sized + 1
           k == [m EXCEPT !.sized = b]
           r == Head(s.ready).arg
           o == Operation("Read", r)
           u == Read(v, "Read", r)
           t == SetDeadline(u, "read_deadline")
<1>0. /\ b \in Nat /\ b = m.sized + 1 /\ m.sized \in Nat /\ m.begun \in Nat /\ m.ended \in Nat
      /\ m.given \in Nat /\ m.awaited \in Nat /\ m.written \in Nat
      /\ m.begun =< m.given + 1 /\ m.given =< m.ended /\ m.ended =< m.sized
      /\ m.begun =< m.awaited /\ m.awaited =< m.written
  BY DEF Marks, Calm, Order
<1> HIDE DEF b
<1>1. k \in Marks /\ k.sized = b /\ k.sent = m.sent /\ k.written = m.written
      /\ k.enqueued = m.enqueued /\ k.awaited = m.awaited /\ k.begun = m.begun /\ k.ended = m.ended
      /\ k.given = m.given
  BY <1>0 DEF Marks
<1> HIDE DEF k
<1>2. /\ v \in ConnState /\ Head(s.ready) \in Handler /\ v.ready = Tail(s.ready)
      /\ s.ready \in Seq(Handler) /\ s.ready # <<>> /\ v.state = s.state /\ v.open = s.open
  BY TakenFields DEF ConnState, Taken
<1>3. /\ r = b /\ m.sized < m.begun
      /\ Line(v.ready, "EnqueueRequest", m.enqueued, n) /\ Line(v.ready, "Write", m.awaited, m.written)
      /\ Line(v.ready, "SizeRead", b, m.begun) /\ Line(v.ready, "Read", m.given, m.ended)
  BY <1>0, <1>2, LinesTaken DEF Calm
<1>4. r \in Requests /\ Head(s.ready).res = "ok"
  BY <1>2, TakenCalm DEF Handler, Timers, Succeeds
<1>5. m.sized = m.ended /\ m.written > 0
  BY <1>0, <1>3
<1>6. v.open
  BY <1>2, <1>5, SentConnected
<1>7. HandleAsyncResponseSizeRead(v, r, Head(s.ready).res) = t
  BY <1>4 DEF HandleAsyncResponseSizeRead
<1>8. /\ u \in ConnState
      /\ u.state = v.state /\ u.open = v.open /\ u.read_state = v.read_state
      /\ u.write_queue = v.write_queue /\ u.read_queue = v.read_queue
      /\ u.resolving = v.resolving /\ u.writing = v.writing
      /\ u.reading = Append(v.reading, o)
      /\ u.unanswered = v.unanswered /\ u.ready = v.ready
  BY <1>2, <1>4, <1>6, ReadFields
<1>9. /\ \A i \in 1 .. Len(v.ready) : Succeeds(v.ready[i])
      /\ Order(v, m, n) /\ Queues(v, m) /\ Connection(v, m)
  BY TakenCalm
<1>10. o.arg = b
  BY <1>3 DEF Operation
<1> HIDE DEF o, r, u
<1>11. Len(u.reading) = 1 /\ u.reading[1] = o
  <2>1. Len(v.reading) = 0 /\ v.reading \in Seq(ReadOperation)
    <3>1. Len(v.reading) = m.sized - m.ended
      BY <1>9 DEF Queues
    <3>2. m.sized - m.ended = 0
      BY <1>0, <1>5
    <3>3. v.reading \in Seq(ReadOperation)
      BY <1>2 DEF ConnState
    <3> QED  BY <3>1, <3>2, <3>3
  <2> QED  BY <1>8, <2>1
<1>12. Len(u.reading) = b - m.ended /\ \A i \in 1 .. Len(u.reading) : u.reading[i].arg = b
  BY <1>0, <1>5, <1>10, <1>11
<1>13. Queues(u, k)
  BY <1>1, <1>8, <1>9, <1>12 DEF Queues
<1>14. Order(u, k, n)
  <2>1. m.ended =< b /\ b =< m.begun
    BY <1>0, <1>3
  <2> QED  BY <1>1, <1>8, <1>9, <2>1 DEF Order
<1>15. Lines(u.ready, k, n)
  BY <1>1, <1>3, <1>8 DEF Lines
<1>16. Connection(u, k)
  BY <1>1, <1>8, <1>9 DEF Connection
<1>17. InCalm(u, n)
  BY <1>1, <1>8, <1>9, <1>13, <1>14, <1>15, <1>16 DEF Calm, InCalm
<1>18. t \in ConnState /\ Alike(u, t)
  BY <1>8, SetDeadlineAlike DEF Timers
<1> HIDE DEF t
<1>19. InCalm(t, n)
  BY <1>17, <1>18, AlikeCalm
<1> QED  BY <1>7, <1>19 DEF r

(* The read handler gives the response and the next request is sent.        *)
LEMMA GiveResponseCalm ==
  ASSUME NEW s \in ConnState, NEW v, Taken(s, v), NEW n \in Nat, InCalm(s, n),
         Head(s.ready).h = "Read"
  PROVE  InCalm(GiveResponse(v, Head(s.ready).arg, Head(s.ready).response), n)
<1> PICK m \in Marks : Calm(s, m, n)
  BY DEF InCalm
<1> DEFINE b == m.given + 1
           k == [m EXCEPT !.given = b]
           r == Head(s.ready).arg
           y == Head(s.ready).response
           x == [H("User", r, "ok") EXCEPT !.response = y]
           w == [v EXCEPT !.read_state = "idle"]
           u == Cancel(w, {"read_deadline"})
           t == Post(u, x)
<1>0. /\ b \in Nat /\ b = m.given + 1 /\ m.begun \in Nat /\ m.ended \in Nat
      /\ m.given \in Nat /\ m.sized \in Nat
      /\ m.begun =< m.given + 1 /\ m.ended =< m.sized /\ m.sized =< m.begun
  BY DEF Marks, Calm, Order
<1> HIDE DEF b
<1>1. k \in Marks /\ k.given = b /\ k.sent = m.sent /\ k.written = m.written
      /\ k.enqueued = m.enqueued /\ k.awaited = m.awaited /\ k.begun = m.begun /\ k.ended = m.ended
      /\ k.sized = m.sized
  BY <1>0 DEF Marks
<1> HIDE DEF k
<1>2. /\ v \in ConnState /\ Head(s.ready) \in Handler /\ v.ready = Tail(s.ready)
      /\ s.ready \in Seq(Handler) /\ s.ready # <<>>
  BY TakenFields DEF ConnState, Taken
<1>3. /\ r = b /\ m.given < m.ended
      /\ Line(v.ready, "EnqueueRequest", m.enqueued, n) /\ Line(v.ready, "Write", m.awaited, m.written)
      /\ Line(v.ready, "SizeRead", m.sized, m.begun) /\ Line(v.ready, "Read", b, m.ended)
  BY <1>0, <1>2, LinesTaken DEF Calm
<1>4. r \in Requests /\ y = r
  <2>1. Succeeds(Head(s.ready))
    BY TakenCalm
  <2> QED  BY <1>2, <2>1 DEF Handler, Timers, Succeeds
<1>5. b = m.ended /\ m.begun = b
  BY <1>0, <1>3
<1>6. x \in Handler /\ x.h = "User" /\ Succeeds(x)
  <2> HIDE DEF r, y
  <2> QED  BY <1>4 DEF H, Handler, Outcomes, Succeeds, Timers
<1>7. GiveResponse(v, r, y) = t
  BY DEF GiveResponse
<1> HIDE DEF x, r, y
<1>8. w \in ConnState
  BY <1>2 DEF ConnState
<1>9. /\ w.state = v.state /\ w.open = v.open /\ w.read_state = "idle"
      /\ w.write_queue = v.write_queue /\ w.read_queue = v.read_queue
      /\ w.resolving = v.resolving /\ w.writing = v.writing /\ w.reading = v.reading
      /\ w.unanswered = v.unanswered /\ w.ready = v.ready
  BY <1>2 DEF ConnState
<1> HIDE DEF w
<1>10. /\ \A i \in 1 .. Len(v.ready) : Succeeds(v.ready[i])
       /\ Order(v, m, n) /\ Queues(v, m) /\ Connection(v, m)
  BY TakenCalm
<1>11. u \in ConnState /\ Alike(w, u)
  BY <1>8, CancelAlike
<1> HIDE DEF u
<1>12. Order(u, k, n)
  <2>1. b =< m.ended /\ m.begun =< b + 1 /\ m.begun = b
    BY <1>0, <1>5
  <2> QED  BY <1>1, <1>10, <2>1 DEF Order
<1>13. Lines(u.ready, k, n)
  BY <1>1, <1>3, <1>9, <1>11 DEF Lines, Alike
<1>14. Queues(u, k)
  BY <1>1, <1>9, <1>10, <1>11 DEF Queues, Alike
<1>15. Connection(u, k)
  BY <1>1, <1>9, <1>10, <1>11 DEF Connection, Alike
<1>16. \A i \in 1 .. Len(u.ready) : Succeeds(u.ready[i])
  BY <1>9, <1>10, <1>11 DEF Alike
<1>17. InCalm(u, n) /\ Calm(u, k, n)
  BY <1>1, <1>11, <1>12, <1>13, <1>14, <1>15, <1>16 DEF Calm, InCalm
<1>18. t \in ConnState /\ t.ready = Append(u.ready, x)
       /\ t.state = u.state /\ t.open = u.open /\ t.read_state = u.read_state
       /\ t.write_queue = u.write_queue /\ t.read_queue = u.read_queue
       /\ t.resolving = u.resolving /\ t.reading = u.reading /\ t.writing = u.writing
       /\ t.unanswered = u.unanswered
  <2>1. t \in ConnState
    BY <1>6, <1>11, PostEffect
  <2> QED  BY <1>11, <2>1 DEF Post, ConnState
<1> HIDE DEF t
<1>19. Order(t, k, n) /\ Queues(t, k)
  BY <1>12, <1>14, <1>18 DEF Order, Queues
<1>20. u.ready \in Seq(Handler)
  BY <1>11 DEF ConnState
<1>21. Lines(t.ready, k, n)
  BY <1>1, <1>6, <1>12, <1>13, <1>18, <1>20, LinesAppended
<1>22. \A i \in 1 .. Len(t.ready) : Succeeds(t.ready[i])
  BY <1>6, <1>16, <1>18, <1>20, EveryAppend
<1>23. Connection(t, k)
  BY <1>6, <1>11, <1>15, <1>18, ConnectionAppend
<1>24. InCalm(t, n)
  BY <1>1, <1>18, <1>19, <1>21, <1>22, <1>23 DEF Calm, InCalm
<1> QED  BY <1>7, <1>24 DEF r, y

(* HandleAsyncResponseRead gives the response and sends the next request.   *)
LEMMA ReadHandlerCalm ==
  ASSUME NEW s \in ConnState, NEW v, Taken(s, v), NEW n \in Nat, InCalm(s, n),
         Head(s.ready).h = "Read"
  PROVE  InCalm(HandleAsyncResponseRead(v, Head(s.ready).arg, Head(s.ready).res,
                                        Head(s.ready).response), n)
<1> DEFINE u == GiveResponse(v, Head(s.ready).arg, Head(s.ready).response)
<1>1. InCalm(u, n) /\ u \in ConnState
  BY GiveResponseCalm DEF InCalm
<1>2. Head(s.ready).res = "ok"
  BY TakenCalm DEF InCalm, Succeeds
<1>3. HandleAsyncResponseRead(v, Head(s.ready).arg, Head(s.ready).res, Head(s.ready).response)
        = NextRequest(u)
  BY <1>2 DEF HandleAsyncResponseRead
<1> HIDE DEF u
<1> QED  BY <1>1, <1>3, NextRequestCalm

(* A handler that tells nothing of a request's way.                         *)
LEMMA OtherTaken ==
  ASSUME NEW s \in ConnState, NEW t, Taken(s, t), NEW n \in Nat, InCalm(s, n),
         Head(s.ready).h \notin {"EnqueueRequest", "Write", "SizeRead", "Read"}
  PROVE  InCalm(t, n)
<1> PICK m \in Marks : Calm(s, m, n)
  BY DEF InCalm
<1>1. t \in ConnState
  BY TakenFields
<1>2. Calm(t, m, n)
  BY TakenCalm DEF Calm
<1> QED  BY <1>1, <1>2 DEF InCalm

(* HandleAsyncAutoConnect finds the connection there, and may send a second *)
(* request beside one that is being written.                                *)
LEMMA AutoConnectCalm ==
  ASSUME NEW s \in ConnState, NEW t, Taken(s, t), NEW n \in Nat, InCalm(s, n),
         Head(s.ready).h = "AutoConnect"
  PROVE  InCalm(HandleAsyncAutoConnect(t, Head(s.ready).res), n)
<1>1. InCalm(t, n) /\ t \in ConnState
  BY OtherTaken DEF InCalm
<1>2. Head(s.ready).res = "ok"
  BY TakenCalm DEF InCalm, Succeeds
<1>3. t.state = "connected"
  <2> PICK m \in Marks : Calm(s, m, n)
    BY DEF InCalm
  <2>1. s.ready \in Seq(Handler) /\ s.ready # <<>> /\ t.state = s.state
    BY TakenFields DEF ConnState, Taken
  <2>2. s.state # "connected" => NoneOf(s.ready, {"AutoConnect"})
    BY DEF Calm, Connection
  <2>3. ~NoneOf(s.ready, {"AutoConnect"})
    BY <2>1, EveryTail
  <2> QED  BY <2>1, <2>2, <2>3
<1>4. CASE t.write_queue = <<>>
  BY <1>1, <1>2, <1>4 DEF HandleAsyncAutoConnect
<1>5. CASE t.write_queue # <<>>
  <2>1. HandleAsyncAutoConnect(t, Head(s.ready).res)
          = [SendRequest(t, Head(t.write_queue)) EXCEPT !.write_queue = Tail(@)]
    BY <1>2, <1>5 DEF HandleAsyncAutoConnect
  <2> QED  BY <1>1, <1>3, <1>5, <2>1, SendHeadCalm
<1> QED  BY <1>4, <1>5

-----------------------------------------------------------------------------
(* Connecting.                                                              *)

(* Before the connection is there, no queue but that of writes is used.     *)
LEMMA NothingSent ==
  ASSUME NEW s \in ConnState, NEW m \in Marks, NEW n \in Nat, Calm(s, m, n), m.sent = 0
  PROVE  /\ s.reading = <<>> /\ s.unanswered = <<>>
         /\ m.written = 0 /\ m.ended = 0 /\ m.sized = 0
<1>1. /\ m.written = 0 /\ m.ended = 0 /\ m.sized = 0
  BY DEF Calm, Order, Marks
<1>2. Len(s.reading) = 0 /\ Len(s.unanswered) = 0
  BY <1>1 DEF Calm, Queues, Between
<1>3. s.reading \in Seq(ReadOperation) /\ s.unanswered \in Seq(Requests)
  BY DEF ConnState
<1>4. s.reading = <<>> /\ s.unanswered = <<>>
  BY <1>2, <1>3
<1> QED  BY <1>1, <1>4

(* Nothing under way, nothing to abort.                                     *)
LEMMA NoHandlers == Aborted(<<>>) = <<>>
<1>1. Len(<<>>) = 0
  OBVIOUS
<1>2. Aborted(<<>>) \in Seq(Handler) /\ Len(Aborted(<<>>)) = 0
  BY <1>1 DEF Aborted
<1> QED  BY <1>2

(* What async_connect does to a socket on which nothing is under way.       *)
LEMMA OpenedFields ==
  ASSUME NEW s \in ConnState, s.reading = <<>>, s.writing = <<>>, s.unanswered = <<>>
  PROVE  LET t == Connect([AbortSocket(s) EXCEPT !.open = TRUE]) IN
         /\ t \in ConnState
         /\ t.state = s.state /\ t.open = TRUE /\ t.read_state = s.read_state
         /\ t.write_queue = s.write_queue /\ t.read_queue = s.read_queue
         /\ t.resolving = s.resolving /\ t.reading = <<>>
         /\ t.writing = <<Operation("Connect", None)>>
         /\ t.unanswered = <<>> /\ t.ready = s.ready
<1> DEFINE a == [s EXCEPT !.reading = <<>>, !.writing = <<>>, !.unanswered = <<>>]
           u == PostAll(a, Aborted(s.reading \o s.writing))
           q == s.ready \o <<>>
           w == [u EXCEPT !.open = TRUE]
           o == Operation("Connect", None)
           p == Append(w.writing, o)
           t == [w EXCEPT !.writing = p]
<1>1. AbortSocket(s) = u /\ Connect([AbortSocket(s) EXCEPT !.open = TRUE]) = t
  BY DEF AbortSocket, Connect
<1>2. a = s
  BY DEF ConnState
<1>3. Aborted(s.reading \o s.writing) = <<>>
  <2>1. <<>> \o <<>> = <<>>
    OBVIOUS
  <2> QED  BY <2>1, NoHandlers
<1>4. q = s.ready /\ s.ready \in Seq(Handler)
  <2>1. s.ready \in Seq(Handler)
    BY DEF ConnState
  <2> QED  BY <2>1, ConcatEmptySeq
<1>5. u = [s EXCEPT !.ready = q]
  BY <1>2, <1>3 DEF PostAll
<1>6. u = s
  <2> HIDE DEF u, q
  <2> QED  BY <1>4, <1>5 DEF ConnState
<1> HIDE DEF u
<1>7. w \in ConnState
  BY <1>6 DEF ConnState
<1>8. /\ w.state = s.state /\ w.open = TRUE /\ w.read_state = s.read_state
      /\ w.write_queue = s.write_queue /\ w.read_queue = s.read_queue
      /\ w.resolving = s.resolving /\ w.reading = <<>> /\ w.writing = <<>>
      /\ w.unanswered = <<>> /\ w.ready = s.ready
  BY <1>6 DEF ConnState
<1> HIDE DEF w
<1>9. o \in WriteOperation
  BY DEF Operation, WriteOperation
<1> HIDE DEF o
<1>10. p = <<o>> /\ p \in Seq(WriteOperation)
  BY <1>8, <1>9
<1> HIDE DEF p
<1>11. t \in ConnState
  BY <1>7, <1>10 DEF ConnState
<1>12. /\ t.state = w.state /\ t.open = w.open /\ t.read_state = w.read_state
       /\ t.write_queue = w.write_queue /\ t.read_queue = w.read_queue
       /\ t.resolving = w.resolving /\ t.reading = w.reading /\ t.writing = p
       /\ t.unanswered = w.unanswered /\ t.ready = w.ready
  BY <1>7 DEF ConnState
<1> HIDE DEF t
<1> QED  BY <1>1, <1>8, <1>10, <1>11, <1>12 DEF o

(* HandleAsyncResolve opens the socket: nothing is lost, since nothing was  *)
(* sent.                                                                    *)
LEMMA ResolveHandlerCalm ==
  ASSUME NEW s \in ConnState, NEW v, Taken(s, v), NEW n \in Nat, InCalm(s, n),
         Head(s.ready).h = "Resolve"
  PROVE  InCalm(HandleAsyncResolve(v, Head(s.ready).res), n)
<1> PICK m \in Marks : Calm(s, m, n)
  BY DEF InCalm
<1> DEFINE u == Connect([AbortSocket(v) EXCEPT !.open = TRUE])
           t == SetDeadline(u, "connect_deadline")
<1>1. /\ v \in ConnState /\ v.ready = Tail(s.ready)
      /\ s.ready \in Seq(Handler) /\ s.ready # <<>> /\ v.state = s.state /\ v.open = s.open
      /\ v.resolving = s.resolving /\ v.writing = s.writing
  BY TakenFields DEF ConnState, Taken
<1>2. Head(s.ready).res = "ok" /\ HandleAsyncResolve(v, Head(s.ready).res) = t
  <2>1. Head(s.ready).res = "ok"
    BY TakenCalm DEF Succeeds
  <2> QED  BY <2>1 DEF HandleAsyncResolve
<1>3. Calm(v, m, n)
  BY TakenCalm DEF Calm
<1>4. /\ s.state = "connecting" /\ s.resolving = <<>> /\ s.writing = <<>>
      /\ NoneOf(v.ready, Dials)
  <2>1. Head(s.ready).h \in Dials
    BY DEF Dials
  <2>2. ~NoneOf(s.ready, Dials) /\ (OneOf(s.ready, Dials) => NoneOf(v.ready, Dials))
    BY <1>1, <2>1, EveryTail
  <2> QED  BY <2>2 DEF Calm, Connection
<1>5. m.sent = 0 /\ NoneOf(v.ready, {"AutoConnect"}) /\ OneOf(v.ready, Dials)
  BY <1>1, <1>3, <1>4 DEF Calm, Connection
<1>6. v.reading = <<>> /\ v.unanswered = <<>>
  BY <1>1, <1>3, <1>5, NothingSent
<1>7. /\ u \in ConnState
      /\ u.state = v.state /\ u.open = TRUE /\ u.read_state = v.read_state
      /\ u.write_queue = v.write_queue /\ u.read_queue = v.read_queue
      /\ u.resolving = v.resolving /\ u.reading = <<>>
      /\ u.writing = <<Operation("Connect", None)>>
      /\ u.unanswered = <<>> /\ u.ready = v.ready
  BY <1>1, <1>4, <1>6, OpenedFields
<1> HIDE DEF u
<1>8. Order(u, m, n) /\ Lines(u.ready, m, n) /\ \A i \in 1 .. Len(u.ready) : Succeeds(u.ready[i])
  BY <1>3, <1>7 DEF Calm, Order
<1>9. Queues(u, m)
  BY <1>3, <1>6, <1>7 DEF Calm, Queues
<1>10. Connection(u, m)
  <2>1. Len(u.writing) = 1 /\ Len(u.resolving) = 0 /\ u.writing[1].op = "Connect"
    BY <1>1, <1>4, <1>7 DEF Operation
  <2>2. \A i \in 1 .. Len(u.writing) : u.writing[i].op = "Connect"
    BY <2>1
  <2>3. u.state = "connecting" /\ u.resolving = <<>> /\ u.open
    BY <1>1, <1>4, <1>7
  <2>4. NoneOf(u.ready, {"AutoConnect"}) /\ OneOf(u.ready, Dials) /\ NoneOf(u.ready, Dials)
    BY <1>4, <1>5, <1>7
  <2> QED  BY <1>5, <2>1, <2>2, <2>3, <2>4 DEF Connection
<1>11. InCalm(u, n)
  BY <1>7, <1>8, <1>9, <1>10 DEF Calm, InCalm
<1>12. t \in ConnState /\ Alike(u, t)
  BY <1>7, SetDeadlineAlike DEF Timers
<1> HIDE DEF t
<1>13. InCalm(t, n)
  BY <1>11, <1>12, AlikeCalm
<1> QED  BY <1>2, <1>13

(* HandleAsyncConnect makes the connection usable.                          *)
LEMMA ConnectHandlerCalm ==
  ASSUME NEW s \in ConnState, NEW v, Taken(s, v), NEW n \in Nat, InCalm(s, n),
         Head(s.ready).h = "Connect"
  PROVE  InCalm(HandleAsyncConnect(v, Head(s.ready).res), n)
<1> PICK m \in Marks : Calm(s, m, n)
  BY DEF InCalm
<1> DEFINE w == [v EXCEPT !.state = "connected"]
           u == Cancel(w, {"connect_deadline"})
           x == H("AutoConnect", None, "ok")
           t == Post(u, x)
<1>1. /\ v \in ConnState /\ v.ready = Tail(s.ready)
      /\ s.ready \in Seq(Handler) /\ s.ready # <<>> /\ v.state = s.state /\ v.open = s.open
      /\ v.resolving = s.resolving /\ v.writing = s.writing
  BY TakenFields DEF ConnState, Taken
<1>2. Head(s.ready).res = "ok" /\ HandleAsyncConnect(v, Head(s.ready).res) = t
  <2>1. Head(s.ready).res = "ok"
    BY TakenCalm DEF Succeeds
  <2> QED  BY <2>1 DEF HandleAsyncConnect
<1>3. Calm(v, m, n)
  BY TakenCalm DEF Calm
<1>4. /\ s.state = "connecting" /\ s.resolving = <<>> /\ s.writing = <<>>
      /\ NoneOf(v.ready, Dials) /\ v.open
  <2>1. Head(s.ready).h \in Dials /\ Head(s.ready).h \in {"Connect"}
    BY DEF Dials
  <2>2. ~NoneOf(s.ready, Dials) /\ (OneOf(s.ready, Dials) => NoneOf(v.ready, Dials))
        /\ ~NoneOf(s.ready, {"Connect"})
    BY <1>1, <2>1, EveryTail
  <2> QED  BY <1>1, <2>2 DEF Calm, Connection
<1>5. m.sent = 0
  BY <1>1, <1>3, <1>4 DEF Calm, Connection
<1>6. m.written = 0
  BY <1>1, <1>3, <1>5, NothingSent
<1>7. w \in ConnState
  BY <1>1 DEF ConnState
<1>8. /\ w.state = "connected" /\ w.open = v.open /\ w.read_state = v.read_state
      /\ w.write_queue = v.write_queue /\ w.read_queue = v.read_queue
      /\ w.resolving = v.resolving /\ w.writing = v.writing /\ w.reading = v.reading
      /\ w.unanswered = v.unanswered /\ w.ready = v.ready
  BY <1>1 DEF ConnState
<1> HIDE DEF w
<1>9. u \in ConnState /\ Alike(w, u)
  BY <1>7, CancelAlike
<1> HIDE DEF u
<1>10. x \in Handler /\ x.h = "AutoConnect" /\ Succeeds(x)
  BY DEF H, Handler, Outcomes, Succeeds, Timers
<1> HIDE DEF x
<1>11. t \in ConnState /\ t.ready = Append(u.ready, x)
       /\ t.state = u.state /\ t.open = u.open /\ t.read_state = u.read_state
       /\ t.write_queue = u.write_queue /\ t.read_queue = u.read_queue
       /\ t.resolving = u.resolving /\ t.reading = u.reading /\ t.writing = u.writing
       /\ t.unanswered = u.unanswered
  <2>1. t \in ConnState
    BY <1>9, <1>10, PostEffect
  <2> QED  BY <1>9, <2>1 DEF Post, ConnState
<1> HIDE DEF t
<1>12. /\ t.state = "connected" /\ t.open /\ t.read_state = v.read_state
       /\ t.write_queue = v.write_queue /\ t.read_queue = v.read_queue
       /\ t.resolving = <<>> /\ t.writing = <<>> /\ t.reading = v.reading
       /\ t.unanswered = v.unanswered /\ t.ready = Append(v.ready, x)
  BY <1>1, <1>4, <1>8, <1>9, <1>11 DEF Alike
<1>13. v.ready \in Seq(Handler)
  BY <1>1 DEF ConnState
<1>14. Order(t, m, n) /\ Queues(t, m)
  BY <1>3, <1>12 DEF Calm, Order, Queues
<1>15. Lines(t.ready, m, n)
  BY <1>3, <1>10, <1>12, <1>13, LinesAppended DEF Calm
<1>16. \A i \in 1 .. Len(t.ready) : Succeeds(t.ready[i])
  BY <1>3, <1>10, <1>12, <1>13, EveryAppend DEF Calm
<1>17. Connection(t, m)
  <2>1. NoneOf(t.ready, Dials) /\ OneOf(t.ready, Dials)
    <3>1. x.h \notin Dials
      BY <1>10 DEF Dials
    <3> QED  BY <1>4, <1>10, <1>12, <1>13, <3>1, EveryAppend
  <2>2. Len(t.writing) = 0 /\ m.sent - m.written = 0
    BY <1>5, <1>6, <1>12
  <2>3. Len(t.writing) = m.sent - m.written
        /\ \A i \in 1 .. Len(t.writing) : t.writing[i].op = "Write" /\ t.writing[i].arg = m.written + i
    BY <2>2
  <2> QED  BY <1>12, <2>1, <2>3 DEF Connection
<1>18. InCalm(t, n)
  BY <1>11, <1>14, <1>15, <1>16, <1>17 DEF Calm, InCalm
<1> QED  BY <1>2, <1>18

(* An operation ends: its queue and that of the broker change, and a        *)
(* handler is posted.                                                       *)
Ends(s, t, resolving, reading, writing, unanswered, x) ==
  /\ t \in ConnState
  /\ t.state = s.state /\ t.open = s.open /\ t.read_state = s.read_state
  /\ t.write_queue = s.write_queue /\ t.read_queue = s.read_queue
  /\ t.resolving = resolving /\ t.reading = reading /\ t.writing = writing
  /\ t.unanswered = unanswered /\ t.ready = Append(s.ready, x)

-----------------------------------------------------------------------------
(* Operations end.                                                          *)

(* A changed connection and a posted handler.                               *)
LEMMA PostEnds ==
  ASSUME NEW s \in ConnState, NEW u \in ConnState, NEW x \in Handler,
         u.state = s.state, u.open = s.open, u.read_state = s.read_state,
         u.write_queue = s.write_queue, u.read_queue = s.read_queue, u.ready = s.ready
  PROVE  Ends(s, Post(u, x), u.resolving, u.reading, u.writing, u.unanswered, x)
<1>1. Post(u, x) \in ConnState
  BY PostEffect
<1>2. LET t == Post(u, x) IN
      /\ t.state = u.state /\ t.open = u.open /\ t.read_state = u.read_state
      /\ t.write_queue = u.write_queue /\ t.read_queue = u.read_queue
      /\ t.resolving = u.resolving /\ t.reading = u.reading /\ t.writing = u.writing
      /\ t.unanswered = u.unanswered /\ t.ready = Append(u.ready, x)
  BY DEF Post, ConnState
<1> QED  BY <1>1, <1>2 DEF Ends

(* The resolver's operation ends.                                           *)
LEMMA ResolvingEnds ==
  ASSUME NEW s \in ConnState, NEW x \in Handler, s.resolving # <<>>,
         NEW t, t = Post([s EXCEPT !.resolving = Tail(@)], x)
  PROVE  Ends(s, t, Tail(s.resolving), s.reading, s.writing, s.unanswered, x)
<1> DEFINE q == Tail(s.resolving)
           u == [s EXCEPT !.resolving = q]
<1>1. q \in Seq(ResolveOperation)
  <2>1. s.resolving \in Seq(ResolveOperation)
    BY DEF ConnState
  <2> QED  BY <2>1
<1>2. t = Post(u, x)
  OBVIOUS
<1> HIDE DEF q
<1>3. u \in ConnState
  BY <1>1 DEF ConnState
<1>4. /\ u.state = s.state /\ u.open = s.open /\ u.read_state = s.read_state
      /\ u.write_queue = s.write_queue /\ u.read_queue = s.read_queue /\ u.ready = s.ready
      /\ u.resolving = q /\ u.reading = s.reading /\ u.writing = s.writing
      /\ u.unanswered = s.unanswered
  BY DEF ConnState
<1> HIDE DEF u
<1>5. Ends(s, t, q, s.reading, s.writing, s.unanswered, x)
  BY <1>2, <1>3, <1>4, PostEnds
<1> QED  BY <1>5 DEF q

(* An operation of the socket ends.                                         *)
LEMMA SocketEnds ==
  ASSUME NEW s \in ConnState, NEW x \in Handler,
         NEW reading \in Seq(ReadOperation), NEW writing \in Seq(WriteOperation),
         NEW unanswered \in Seq(Requests),
         NEW t, t = Post([s EXCEPT !.reading = reading, !.writing = writing,
                                   !.unanswered = unanswered], x)
  PROVE  Ends(s, t, s.resolving, reading, writing, unanswered, x)
<1> DEFINE u == [s EXCEPT !.reading = reading, !.writing = writing, !.unanswered = unanswered]
<1>1. t = Post(u, x)
  OBVIOUS
<1>2. u \in ConnState
  BY DEF ConnState
<1>3. /\ u.state = s.state /\ u.open = s.open /\ u.read_state = s.read_state
      /\ u.write_queue = s.write_queue /\ u.read_queue = s.read_queue /\ u.ready = s.ready
      /\ u.resolving = s.resolving /\ u.reading = reading /\ u.writing = writing
      /\ u.unanswered = unanswered
  BY DEF ConnState
<1> HIDE DEF u
<1> QED  BY <1>1, <1>2, <1>3, PostEnds

(* The only element of a sequence is taken.                                 *)
LEMMA LastTaken ==
  ASSUME NEW S, NEW q \in Seq(S), q # <<>>, Len(q) =< 1
  PROVE  Tail(q) = <<>>
<1>1. Tail(q) \in Seq(S) /\ Len(Tail(q)) = Len(q) - 1 /\ Len(q) \in Nat /\ Len(q) >= 1
  OBVIOUS
<1>2. Len(Tail(q)) = 0
  BY <1>1
<1> QED  BY <1>1, <1>2

(* The empty sequence has no elements.                                      *)
LEMMA EmptyLen ==
  ASSUME NEW q, q = <<>>
  PROVE  Len(q) = 0 /\ \A i \in 1 .. Len(q) : FALSE
<1>1. Len(q) = 0
  OBVIOUS
<1> QED  BY <1>1

(* The name is resolved.                                                    *)
LEMMA ResolvedCalm ==
  ASSUME NEW s \in ConnState, NEW n \in Nat, InCalm(s, n), s.resolving # <<>>,
         NEW t, t = Post([s EXCEPT !.resolving = Tail(@)], H("Resolve", None, "ok"))
  PROVE  InCalm(t, n)
<1> PICK m \in Marks : Calm(s, m, n)
  BY DEF InCalm
<1> DEFINE x == H("Resolve", None, "ok")
<1>1. x \in Handler /\ x.h = "Resolve" /\ Succeeds(x)
  BY DEF H, Handler, Outcomes, Succeeds, Timers
<1> HIDE DEF x
<1>2. Ends(s, t, Tail(s.resolving), s.reading, s.writing, s.unanswered, x)
  BY <1>1, ResolvingEnds DEF x
<1>3. /\ s.state = "connecting" /\ s.writing = <<>> /\ NoneOf(s.ready, Dials)
      /\ m.sent = 0 /\ NoneOf(s.ready, {"AutoConnect"}) /\ Len(s.resolving) =< 1
      /\ (~s.open => NoneOf(s.ready, {"Connect"}))
  BY DEF Calm, Connection, ConnState
<1>4. s.ready \in Seq(Handler) /\ s.resolving \in Seq(ResolveOperation)
  BY DEF ConnState
<1>5. Tail(s.resolving) = <<>>
  BY <1>3, <1>4, LastTaken
<1>6. Order(t, m, n) /\ Queues(t, m)
  BY <1>2 DEF Calm, Order, Queues, Ends
<1>7. Lines(t.ready, m, n)
  BY <1>1, <1>2, <1>4, LinesAppended DEF Calm, Ends
<1>8. \A i \in 1 .. Len(t.ready) : Succeeds(t.ready[i])
  BY <1>1, <1>2, <1>4, EveryAppend DEF Calm, Ends
<1>9. Connection(t, m)
  <2>1. /\ OneOf(t.ready, Dials) /\ NoneOf(t.ready, {"AutoConnect"})
        /\ (~s.open => NoneOf(t.ready, {"Connect"}))
    <3>1. t.ready = Append(s.ready, x) /\ x.h \notin {"AutoConnect"} /\ x.h \notin {"Connect"}
      BY <1>1, <1>2 DEF Ends
    <3> QED  BY <1>1, <1>3, <1>4, <3>1, EveryAppend
  <2>2. t.state = "connecting" /\ t.resolving = <<>> /\ t.writing = <<>> /\ t.open = s.open
    BY <1>2, <1>3, <1>5 DEF Ends
  <2>3. Len(t.resolving) =< 1 /\ Len(t.writing) =< 1
        /\ \A i \in 1 .. Len(t.writing) : t.writing[i].op = "Connect"
    <3>1. Len(t.resolving) = 0
      BY <2>2, EmptyLen
    <3>2. Len(t.writing) = 0
      BY <2>2, EmptyLen
    <3>3. \A i \in 1 .. Len(t.writing) : t.writing[i].op = "Connect"
      BY <2>2, EmptyLen
    <3>4. Len(t.resolving) =< 1
      BY <3>1
    <3>5. Len(t.writing) =< 1
      BY <3>2
    <3> QED  BY <3>3, <3>4, <3>5
  <2> QED  BY <1>3, <2>1, <2>2, <2>3 DEF Connection
<1> QED  BY <1>2, <1>6, <1>7, <1>8, <1>9 DEF Ends, Calm, InCalm

(* The connection is there.                                                 *)
LEMMA ConnectedCalm ==
  ASSUME NEW s \in ConnState, NEW n \in Nat, InCalm(s, n),
         s.writing # <<>>, Head(s.writing).op = "Connect",
         NEW t, t = Post([s EXCEPT !.writing = Tail(@)], H("Connect", None, "ok"))
  PROVE  InCalm(t, n)
<1> PICK m \in Marks : Calm(s, m, n)
  BY DEF InCalm
<1> DEFINE x == H("Connect", None, "ok")
           q == Tail(s.writing)
<1>1. x \in Handler /\ x.h = "Connect" /\ Succeeds(x)
  BY DEF H, Handler, Outcomes, Succeeds, Timers
<1>2. s.ready \in Seq(Handler) /\ s.writing \in Seq(WriteOperation) /\ q \in Seq(WriteOperation)
      /\ s.reading \in Seq(ReadOperation) /\ s.unanswered \in Seq(Requests)
  <2>1. s.writing \in Seq(WriteOperation) /\ s.ready \in Seq(Handler)
        /\ s.reading \in Seq(ReadOperation) /\ s.unanswered \in Seq(Requests)
    BY DEF ConnState
  <2> QED  BY <2>1
<1>3. t = Post([s EXCEPT !.reading = s.reading, !.writing = q, !.unanswered = s.unanswered], x)
  <2>1. [s EXCEPT !.writing = Tail(@)]
          = [s EXCEPT !.reading = s.reading, !.writing = Tail(s.writing), !.unanswered = s.unanswered]
    BY DEF ConnState
  <2> QED  BY <2>1
<1> HIDE DEF x, q
<1>4. Ends(s, t, s.resolving, s.reading, q, s.unanswered, x)
  BY <1>1, <1>2, <1>3, SocketEnds
<1>5. 1 \in 1 .. Len(s.writing) /\ s.writing[1].op = "Connect"
  BY <1>2
<1>6. /\ s.state = "connecting" /\ s.resolving = <<>> /\ NoneOf(s.ready, Dials)
      /\ m.sent = 0 /\ NoneOf(s.ready, {"AutoConnect"}) /\ Len(s.writing) =< 1 /\ s.open
  <2>1. s.state # "connected"
    <3> SUFFICES ASSUME s.state = "connected" PROVE FALSE
      OBVIOUS
    <3>1. s.writing[1].op = "Write"
      BY <1>5 DEF Calm, Connection
    <3> QED  BY <1>5, <3>1
  <2>2. s.state # "closed" /\ s.state \in {"closed", "connecting", "connected"}
    BY DEF Calm, Connection, ConnState
  <2>3. s.state = "connecting"
    BY <2>1, <2>2
  <2> QED  BY <2>3 DEF Calm, Connection
<1>7. q = <<>>
  BY <1>2, <1>6, LastTaken DEF q
<1>8. Order(t, m, n) /\ Queues(t, m)
  BY <1>4 DEF Calm, Order, Queues, Ends
<1>9. Lines(t.ready, m, n)
  BY <1>1, <1>2, <1>4, LinesAppended DEF Calm, Ends
<1>10. \A i \in 1 .. Len(t.ready) : Succeeds(t.ready[i])
  BY <1>1, <1>2, <1>4, EveryAppend DEF Calm, Ends
<1>11. Connection(t, m)
  <2>1. OneOf(t.ready, Dials) /\ NoneOf(t.ready, {"AutoConnect"})
    <3>1. t.ready = Append(s.ready, x) /\ x.h \notin {"AutoConnect"}
      BY <1>1, <1>4 DEF Ends
    <3> QED  BY <1>1, <1>2, <1>6, <3>1, EveryAppend
  <2>2. t.state = "connecting" /\ t.resolving = <<>> /\ t.writing = <<>> /\ t.open
    BY <1>4, <1>6, <1>7 DEF Ends
  <2>3. Len(t.resolving) =< 1 /\ Len(t.writing) =< 1
        /\ \A i \in 1 .. Len(t.writing) : t.writing[i].op = "Connect"
    <3>1. Len(t.resolving) = 0
      BY <2>2, EmptyLen
    <3>2. Len(t.writing) = 0
      BY <2>2, EmptyLen
    <3>3. \A i \in 1 .. Len(t.writing) : t.writing[i].op = "Connect"
      BY <2>2, EmptyLen
    <3>4. Len(t.resolving) =< 1
      BY <3>1
    <3>5. Len(t.writing) =< 1
      BY <3>2
    <3> QED  BY <3>3, <3>4, <3>5
  <2> QED  BY <1>6, <2>1, <2>2, <2>3 DEF Connection
<1> QED  BY <1>4, <1>8, <1>9, <1>10, <1>11 DEF Ends, Calm, InCalm

(* The oldest write reaches the broker.                                     *)
LEMMA WrittenCalm ==
  ASSUME NEW s \in ConnState, NEW n \in Nat, InCalm(s, n),
         s.writing # <<>>, Head(s.writing).op = "Write",
         NEW t, t = Post([s EXCEPT !.writing = Tail(@), !.unanswered = Append(@, Head(s.writing).arg)],
                         H("Write", Head(s.writing).arg, "ok"))
  PROVE  InCalm(t, n)
<1> PICK m \in Marks : Calm(s, m, n)
  BY DEF InCalm
<1> DEFINE r == Head(s.writing).arg
           x == H("Write", r, "ok")
           q == Tail(s.writing)
           w == Append(s.unanswered, r)
           b == m.written + 1
           k == [m EXCEPT !.written = b]
<1>0. /\ b \in Nat /\ b = m.written + 1 /\ m.written \in Nat /\ m.sent \in Nat /\ m.awaited \in Nat
      /\ m.ended \in Nat /\ m.awaited =< m.written
  BY DEF Marks, Calm, Order
<1> HIDE DEF b
<1>1. k \in Marks
  BY <1>0 DEF Marks
<1>2. /\ k.written = b /\ k.enqueued = m.enqueued /\ k.sent = m.sent /\ k.awaited = m.awaited
      /\ k.begun = m.begun /\ k.sized = m.sized /\ k.ended = m.ended /\ k.given = m.given
  BY DEF Marks
<1> HIDE DEF k
<1>3. s.ready \in Seq(Handler) /\ s.writing \in Seq(WriteOperation)
      /\ s.reading \in Seq(ReadOperation) /\ s.unanswered \in Seq(Requests) /\ r \in Requests
  <2>1. s.writing \in Seq(WriteOperation) /\ s.ready \in Seq(Handler)
        /\ s.reading \in Seq(ReadOperation) /\ s.unanswered \in Seq(Requests)
    BY DEF ConnState
  <2> QED  BY <2>1, WriteHead
<1>4. x \in Handler /\ x.h = "Write" /\ x.arg = r /\ Succeeds(x)
  <2> HIDE DEF r
  <2> QED  BY <1>3 DEF H, Handler, Outcomes, Succeeds, Timers
<1>5. q \in Seq(WriteOperation) /\ w \in Seq(Requests)
  <2> HIDE DEF r
  <2> QED  BY <1>3
<1>6. t = Post([s EXCEPT !.reading = s.reading, !.writing = q, !.unanswered = w], x)
  <2>1. [s EXCEPT !.writing = Tail(@), !.unanswered = Append(@, r)]
          = [s EXCEPT !.reading = s.reading, !.writing = Tail(s.writing),
                      !.unanswered = Append(s.unanswered, r)]
    <3> HIDE DEF r
    <3> QED  BY DEF ConnState
  <2> QED  BY <2>1
<1>7. 1 \in 1 .. Len(s.writing) /\ s.writing[1].op = "Write" /\ s.writing[1].arg = r
      /\ Len(q) = Len(s.writing) - 1 /\ Len(s.writing) \in Nat /\ Len(s.writing) >= 1
      /\ \A i \in 1 .. Len(q) : q[i] = s.writing[i + 1] /\ i + 1 \in 1 .. Len(s.writing)
  BY <1>3
<1> HIDE DEF x, q, r, w
<1>8. Ends(s, t, s.resolving, s.reading, q, w, x)
  BY <1>3, <1>4, <1>5, <1>6, SocketEnds
<1>9. s.state = "connected"
  <2> SUFFICES ASSUME s.state # "connected" PROVE FALSE
    OBVIOUS
  <2>1. s.writing[1].op = "Connect"
    BY <1>7 DEF Calm, Connection
  <2> QED  BY <1>7, <2>1
<1>10. /\ s.open /\ s.resolving = <<>> /\ NoneOf(s.ready, Dials) /\ OneOf(s.ready, Dials)
       /\ Len(s.writing) = m.sent - m.written
       /\ \A i \in 1 .. Len(s.writing) : s.writing[i].op = "Write" /\ s.writing[i].arg = m.written + i
  BY <1>9 DEF Calm, Connection
<1>11. r = b /\ b =< m.sent
  <2>1. r = m.written + 1
    BY <1>7, <1>10
  <2>2. Len(s.writing) = m.sent - m.written /\ Len(s.writing) >= 1
    BY <1>7, <1>10
  <2> QED  BY <1>0, <2>1, <2>2
<1>12. Order(t, k, n)
  <2>1. m.awaited =< b
    BY <1>0
  <2> QED  BY <1>2, <1>8, <1>11, <2>1 DEF Calm, Order, Ends
<1>13. Between(w, m.ended, b)
  <2>1. Between(s.unanswered, m.ended, m.written)
    BY DEF Calm, Queues
  <2> QED  BY <1>0, <1>3, <1>11, <2>1, BetweenAppend DEF w
<1>14. Queues(t, k)
  BY <1>2, <1>8, <1>13 DEF Calm, Queues, Ends
<1>15. Lines(t.ready, k, n)
  <2>1. /\ m.enqueued \in Nat /\ m.sized \in Nat /\ m.begun \in Nat /\ m.given \in Nat
        /\ m.enqueued =< n /\ m.sized =< m.begun /\ m.given =< m.ended
    BY DEF Marks, Calm, Order
  <2>2. /\ Line(s.ready, "EnqueueRequest", m.enqueued, n)
        /\ Line(s.ready, "Write", m.awaited, m.written)
        /\ Line(s.ready, "SizeRead", m.sized, m.begun)
        /\ Line(s.ready, "Read", m.given, m.ended)
    BY DEF Calm, Lines
  <2>3. Line(t.ready, "Write", m.awaited, b)
    BY <1>0, <1>3, <1>4, <1>8, <1>11, <2>2, LineAppend DEF Ends
  <2>4. Line(t.ready, "EnqueueRequest", m.enqueued, n)
    BY <1>3, <1>4, <1>8, <2>1, <2>2, LineAppend DEF Ends
  <2>5. Line(t.ready, "SizeRead", m.sized, m.begun)
    BY <1>3, <1>4, <1>8, <2>1, <2>2, LineAppend DEF Ends
  <2>6. Line(t.ready, "Read", m.given, m.ended)
    BY <1>0, <1>3, <1>4, <1>8, <2>1, <2>2, LineAppend DEF Ends
  <2> QED  BY <1>2, <2>3, <2>4, <2>5, <2>6 DEF Lines
<1>16. \A i \in 1 .. Len(t.ready) : Succeeds(t.ready[i])
  BY <1>3, <1>4, <1>8, EveryAppend DEF Calm, Ends
<1>17. Connection(t, k)
  <2>1. NoneOf(t.ready, Dials) /\ OneOf(t.ready, Dials)
    <3>1. x.h \notin Dials /\ t.ready = Append(s.ready, x)
      BY <1>4, <1>8 DEF Dials, Ends
    <3> QED  BY <1>3, <1>4, <1>10, <3>1, EveryAppend
  <2>2. Len(q) = m.sent - b
    BY <1>0, <1>7, <1>10
  <2>3. ASSUME NEW i \in 1 .. Len(q)
        PROVE  q[i].op = "Write" /\ q[i].arg = b + i
    <3>0. Len(q) \in Nat
      BY <1>5
    <3>1. i \in Int /\ m.written + (i + 1) = b + i
      BY <1>0, <3>0, SMTT(20)
    <3> QED  BY <1>7, <1>10, <3>1
  <2>4. t.state = "connected" /\ t.resolving = <<>> /\ t.writing = q /\ t.open
    BY <1>8, <1>9, <1>10 DEF Ends
  <2> QED  BY <1>2, <2>1, <2>2, <2>3, <2>4 DEF Connection
<1> QED  BY <1>1, <1>8, <1>12, <1>14, <1>15, <1>16, <1>17 DEF Ends, Calm, InCalm

(* The size of the response is read.                                        *)
LEMMA SizeReadEndsCalm ==
  ASSUME NEW s \in ConnState, NEW n \in Nat, InCalm(s, n), s.reading # <<>>,
         NEW t, t = Post([s EXCEPT !.reading = Tail(@)], H("SizeRead", Head(s.reading).arg, "ok"))
  PROVE  InCalm(t, n)
<1> PICK m \in Marks : Calm(s, m, n)
  BY DEF InCalm
<1> DEFINE r == Head(s.reading).arg
           x == H("SizeRead", r, "ok")
           q == Tail(s.reading)
           k == [m EXCEPT !.sized = m.ended]
<1>0. /\ m.sized \in Nat /\ m.ended \in Nat /\ m.begun \in Nat /\ m.given \in Nat
      /\ m.given =< m.ended /\ m.ended =< m.sized /\ m.sized =< m.begun /\ m.begun =< m.given + 1
  BY DEF Marks, Calm, Order
<1>1. k \in Marks
  BY <1>0 DEF Marks
<1>2. /\ k.sized = m.ended /\ k.enqueued = m.enqueued /\ k.sent = m.sent /\ k.awaited = m.awaited
      /\ k.begun = m.begun /\ k.written = m.written /\ k.ended = m.ended /\ k.given = m.given
  BY DEF Marks
<1> HIDE DEF k
<1>3. s.ready \in Seq(Handler) /\ s.writing \in Seq(WriteOperation)
      /\ s.reading \in Seq(ReadOperation) /\ s.unanswered \in Seq(Requests) /\ r \in Requests
  <2>1. s.writing \in Seq(WriteOperation) /\ s.ready \in Seq(Handler)
        /\ s.reading \in Seq(ReadOperation) /\ s.unanswered \in Seq(Requests)
    BY DEF ConnState
  <2> QED  BY <2>1, ReadHead
<1>4. x \in Handler /\ x.h = "SizeRead" /\ x.arg = r /\ Succeeds(x)
  <2> HIDE DEF r
  <2> QED  BY <1>3 DEF H, Handler, Outcomes, Succeeds, Timers
<1>5. q \in Seq(ReadOperation)
  BY <1>3
<1>6. t = Post([s EXCEPT !.reading = q, !.writing = s.writing, !.unanswered = s.unanswered], x)
  <2>1. [s EXCEPT !.reading = Tail(@)]
          = [s EXCEPT !.reading = Tail(s.reading), !.writing = s.writing, !.unanswered = s.unanswered]
    BY DEF ConnState
  <2> QED  BY <2>1
<1>7. 1 \in 1 .. Len(s.reading) /\ s.reading[1].arg = r /\ Len(s.reading) \in Nat /\ Len(s.reading) >= 1
  BY <1>3
<1> HIDE DEF x, r
<1>8. Ends(s, t, s.resolving, q, s.writing, s.unanswered, x)
  BY <1>3, <1>4, <1>5, <1>6, SocketEnds
<1>9. r = m.sized /\ Len(s.reading) = m.sized - m.ended
  BY <1>7 DEF Calm, Queues
<1>10. m.sized = m.ended + 1 /\ m.begun = m.ended + 1 /\ Len(s.reading) =< 1
  BY <1>0, <1>7, <1>9
<1>11. q = <<>>
  BY <1>3, <1>10, LastTaken
<1> HIDE DEF q
<1>12. Order(t, k, n)
  <2>1. m.ended =< m.ended /\ m.ended =< m.begun
    BY <1>0
  <2> QED  BY <1>2, <1>8, <2>1 DEF Calm, Order, Ends
<1>13. Queues(t, k)
  <2>0. m.ended - m.ended = 0
    BY <1>0
  <2>1. Len(q) = 0 /\ m.ended - m.ended = 0
    BY <1>11, <2>0, EmptyLen
  <2>2. Len(q) = m.ended - m.ended /\ \A i \in 1 .. Len(q) : q[i].arg = m.ended
    BY <1>11, <2>1, EmptyLen
  <2> QED  BY <1>2, <1>8, <2>2 DEF Calm, Queues, Ends
<1>14. Lines(t.ready, k, n)
  <2>1. /\ m.enqueued \in Nat /\ m.awaited \in Nat /\ m.written \in Nat
        /\ m.enqueued =< n /\ m.awaited =< m.written
    BY DEF Marks, Calm, Order
  <2>2. /\ Line(s.ready, "EnqueueRequest", m.enqueued, n)
        /\ Line(s.ready, "Write", m.awaited, m.written)
        /\ Line(s.ready, "SizeRead", m.sized, m.begun)
        /\ Line(s.ready, "Read", m.given, m.ended)
    BY DEF Calm, Lines
  <2>3. Line(s.ready, "SizeRead", m.ended, m.ended)
    BY <1>0, <1>10, <2>2, EmptyLine
  <2>4. Line(t.ready, "SizeRead", m.ended, m.ended + 1)
    <3>1. x.h = "SizeRead" /\ x.arg = m.ended + 1 /\ t.ready = Append(s.ready, x)
      BY <1>4, <1>8, <1>9, <1>10 DEF Ends
    <3>2. m.ended \in Nat /\ m.ended =< m.ended
      BY <1>0
    <3> QED  BY <1>3, <1>4, <2>3, <3>1, <3>2, LineAppend
  <2>5. Line(t.ready, "EnqueueRequest", m.enqueued, n)
    BY <1>3, <1>4, <1>8, <2>1, <2>2, LineAppend DEF Ends
  <2>6. Line(t.ready, "Write", m.awaited, m.written)
    BY <1>3, <1>4, <1>8, <2>1, <2>2, LineAppend DEF Ends
  <2>7. Line(t.ready, "Read", m.given, m.ended)
    BY <1>0, <1>3, <1>4, <1>8, <2>1, <2>2, LineAppend DEF Ends
  <2> QED  BY <1>2, <1>10, <2>4, <2>5, <2>6, <2>7 DEF Lines
<1>15. \A i \in 1 .. Len(t.ready) : Succeeds(t.ready[i])
  BY <1>3, <1>4, <1>8, EveryAppend DEF Calm, Ends
<1>16. Connection(t, k)
  <2>1. x.h \notin {"Resolve", "Connect", "AutoConnect"}
    BY <1>4
  <2> QED  BY <1>2, <1>4, <1>8, <2>1, ConnectionAppend, ZenonT(30) DEF Calm, Ends
<1> QED  BY <1>1, <1>8, <1>12, <1>13, <1>14, <1>15, <1>16 DEF Ends, Calm, InCalm

(* The broker's oldest unanswered request is the one being read.            *)
LEMMA ReadEndsCalm ==
  ASSUME NEW s \in ConnState, NEW n \in Nat, InCalm(s, n), s.reading # <<>>, s.unanswered # <<>>,
         NEW t, t = Post([s EXCEPT !.reading = Tail(@), !.unanswered = Tail(@)],
                         [H("Read", Head(s.reading).arg, "ok") EXCEPT !.response = Head(s.unanswered)])
  PROVE  InCalm(t, n)
<1> PICK m \in Marks : Calm(s, m, n)
  BY DEF InCalm
<1> DEFINE r == Head(s.reading).arg
           y == Head(s.unanswered)
           x == [H("Read", r, "ok") EXCEPT !.response = y]
           q == Tail(s.reading)
           w == Tail(s.unanswered)
           b == m.ended + 1
           k == [m EXCEPT !.ended = b]
<1>0. /\ m.sized \in Nat /\ m.ended \in Nat /\ m.begun \in Nat /\ m.given \in Nat /\ b \in Nat
      /\ b = m.ended + 1 /\ m.written \in Nat
      /\ m.given =< m.ended /\ m.ended =< m.sized /\ m.sized =< m.begun /\ m.begun =< m.given + 1
  BY DEF Marks, Calm, Order
<1> HIDE DEF b
<1>1. k \in Marks
  BY <1>0 DEF Marks
<1>2. /\ k.ended = b /\ k.enqueued = m.enqueued /\ k.sent = m.sent /\ k.awaited = m.awaited
      /\ k.begun = m.begun /\ k.written = m.written /\ k.sized = m.sized /\ k.given = m.given
  BY DEF Marks
<1> HIDE DEF k
<1>3. s.ready \in Seq(Handler) /\ s.writing \in Seq(WriteOperation)
      /\ s.reading \in Seq(ReadOperation) /\ s.unanswered \in Seq(Requests) /\ r \in Requests
  <2>1. s.writing \in Seq(WriteOperation) /\ s.ready \in Seq(Handler)
        /\ s.reading \in Seq(ReadOperation) /\ s.unanswered \in Seq(Requests)
    BY DEF ConnState
  <2> QED  BY <2>1, ReadHead
<1>4. 1 \in 1 .. Len(s.reading) /\ s.reading[1].arg = r /\ Len(s.reading) \in Nat /\ Len(s.reading) >= 1
  BY <1>3
<1>5. r = m.sized /\ Len(s.reading) = m.sized - m.ended
  <2> HIDE DEF r
  <2> QED  BY <1>4 DEF Calm, Queues
<1>6. m.sized = b /\ m.begun = b /\ Len(s.reading) =< 1
  BY <1>0, <1>4, <1>5, SMTT(20)
<1>7. y = b /\ Between(w, b, m.written)
  BY <1>0, <1>3, BetweenTail DEF Calm, Queues
<1>8. x \in Handler /\ x.h = "Read" /\ x.arg = r /\ Succeeds(x)
  <2>1. y = r
    BY <1>5, <1>6, <1>7
  <2> HIDE DEF r, y
  <2> QED  BY <1>3, <2>1 DEF H, Handler, Outcomes, Succeeds, Timers
<1>9. q \in Seq(ReadOperation) /\ w \in Seq(Requests)
  BY <1>3
<1>10. t = Post([s EXCEPT !.reading = q, !.writing = s.writing, !.unanswered = w], x)
  <2>1. [s EXCEPT !.reading = Tail(@), !.unanswered = Tail(@)]
          = [s EXCEPT !.reading = Tail(s.reading), !.writing = s.writing, !.unanswered = Tail(s.unanswered)]
    BY DEF ConnState
  <2> QED  BY <2>1
<1>11. q = <<>>
  BY <1>3, <1>6, LastTaken
<1> HIDE DEF x, r, y, w, q
<1>12. Ends(s, t, s.resolving, q, s.writing, w, x)
  BY <1>3, <1>8, <1>9, <1>10, SocketEnds
<1>13. Order(t, k, n)
  <2>1. m.given =< b /\ b =< m.sized
    BY <1>0, <1>6
  <2> QED  BY <1>2, <1>12, <2>1 DEF Calm, Order, Ends
<1>14. Queues(t, k)
  <2>1. Len(q) = 0 /\ m.sized - b = 0
    BY <1>0, <1>6, <1>11, EmptyLen
  <2>2. Len(q) = m.sized - b /\ \A i \in 1 .. Len(q) : q[i].arg = m.sized
    BY <1>11, <2>1, EmptyLen
  <2> QED  BY <1>2, <1>7, <1>12, <2>2 DEF Calm, Queues, Ends
<1>15. Lines(t.ready, k, n)
  <2>1. /\ m.enqueued \in Nat /\ m.awaited \in Nat
        /\ m.enqueued =< n /\ m.awaited =< m.written
    BY DEF Marks, Calm, Order
  <2>2. /\ Line(s.ready, "EnqueueRequest", m.enqueued, n)
        /\ Line(s.ready, "Write", m.awaited, m.written)
        /\ Line(s.ready, "SizeRead", m.sized, m.begun)
        /\ Line(s.ready, "Read", m.given, m.ended)
    BY DEF Calm, Lines
  <2>3. Line(t.ready, "Read", m.given, b)
    BY <1>0, <1>3, <1>5, <1>6, <1>8, <1>12, <2>2, LineAppend DEF Ends
  <2>4. Line(t.ready, "EnqueueRequest", m.enqueued, n)
    BY <1>3, <1>8, <1>12, <2>1, <2>2, LineAppend DEF Ends
  <2>5. Line(t.ready, "Write", m.awaited, m.written)
    BY <1>0, <1>3, <1>8, <1>12, <2>1, <2>2, LineAppend DEF Ends
  <2>6. Line(t.ready, "SizeRead", m.sized, m.begun)
    BY <1>0, <1>3, <1>8, <1>12, <2>2, LineAppend DEF Ends
  <2> QED  BY <1>2, <2>3, <2>4, <2>5, <2>6 DEF Lines
<1>16. \A i \in 1 .. Len(t.ready) : Succeeds(t.ready[i])
  BY <1>3, <1>8, <1>12, EveryAppend DEF Calm, Ends
<1>17. Connection(t, k)
  <2>1. x.h \notin {"Resolve", "Connect", "AutoConnect"}
    BY <1>8
  <2> QED  BY <1>2, <1>8, <1>12, <2>1, ConnectionAppend DEF Calm, Ends
<1> QED  BY <1>1, <1>12, <1>13, <1>14, <1>15, <1>16, <1>17 DEF Ends, Calm, InCalm

(* AsyncRequest posts the next request.                                     *)
LEMMA SubmittedCalm ==
  ASSUME NEW s \in ConnState, NEW n \in Nat, InCalm(s, n), n + 1 \in Requests
  PROVE  InCalm(Post(s, H("EnqueueRequest", n + 1, "ok")), n + 1)
<1> PICK m \in Marks : Calm(s, m, n)
  BY DEF InCalm
<1> DEFINE b == n + 1
           x == H("EnqueueRequest", b, "ok")
           t == Post(s, x)
<1>0. b \in Requests /\ b = n + 1 /\ b \in Nat
  OBVIOUS
<1> HIDE DEF b
<1>1. x \in Handler /\ x.h = "EnqueueRequest" /\ x.arg = b /\ Succeeds(x)
  BY <1>0 DEF H, Handler, Outcomes, Succeeds, Timers
<1> HIDE DEF x
<1>2. Ends(s, t, s.resolving, s.reading, s.writing, s.unanswered, x)
  BY <1>1, PostEnds
<1> HIDE DEF t
<1>3. s.ready \in Seq(Handler)
  BY DEF ConnState
<1>4. /\ m.enqueued \in Nat /\ m.enqueued =< n /\ m.enqueued =< b /\ m.awaited \in Nat /\ m.written \in Nat
      /\ m.awaited =< m.written /\ m.sized \in Nat /\ m.begun \in Nat /\ m.sized =< m.begun
      /\ m.given \in Nat /\ m.ended \in Nat /\ m.given =< m.ended
  BY <1>0 DEF Marks, Calm, Order
<1>5. Order(t, m, b)
  BY <1>2, <1>4 DEF Calm, Order, Ends
<1>6. Queues(t, m)
  BY <1>2 DEF Calm, Queues, Ends
<1>7. Lines(t.ready, m, b)
  <2>1. /\ Line(s.ready, "EnqueueRequest", m.enqueued, n)
        /\ Line(s.ready, "Write", m.awaited, m.written)
        /\ Line(s.ready, "SizeRead", m.sized, m.begun)
        /\ Line(s.ready, "Read", m.given, m.ended)
    BY DEF Calm, Lines
  <2>2. Line(t.ready, "EnqueueRequest", m.enqueued, b)
    BY <1>0, <1>1, <1>2, <1>3, <1>4, <2>1, LineAppend DEF Ends
  <2>3. Line(t.ready, "Write", m.awaited, m.written)
    BY <1>1, <1>2, <1>3, <1>4, <2>1, LineAppend DEF Ends
  <2>4. Line(t.ready, "SizeRead", m.sized, m.begun)
    BY <1>1, <1>2, <1>3, <1>4, <2>1, LineAppend DEF Ends
  <2>5. Line(t.ready, "Read", m.given, m.ended)
    BY <1>1, <1>2, <1>3, <1>4, <2>1, LineAppend DEF Ends
  <2> QED  BY <2>2, <2>3, <2>4, <2>5 DEF Lines
<1>8. \A i \in 1 .. Len(t.ready) : Succeeds(t.ready[i])
  BY <1>1, <1>2, <1>3, EveryAppend DEF Calm, Ends
<1>9. Connection(t, m)
  <2>1. x.h \notin {"Resolve", "Connect", "AutoConnect"}
    BY <1>1
  <2> QED  BY <1>1, <1>2, <2>1, ConnectionAppend DEF Calm, Ends
<1>10. InCalm(t, b)
  BY <1>2, <1>5, <1>6, <1>7, <1>8, <1>9 DEF Ends, Calm, InCalm
<1> QED  BY <1>10 DEF t, x, b

(* While nothing fails, the requests keep their order, and so every answer  *)
(* given so far was the right one.                                          *)
MatchInv ==
  world.faults = {} =>
    /\ InCalm(c, submitted)
    /\ answer \in [Requests -> Requests \cup {None}]
    /\ \A r \in Requests : answer[r] \in {None, r}

(* Before the first request.                                                *)
LEMMA InitMatch == Init => MatchInv
<1> SUFFICES ASSUME Init PROVE MatchInv
  OBVIOUS
<1>1. c \in ConnState
  BY InitConnInv DEF ConnInv, Tidy
<1> DEFINE m == [enqueued |-> 0, sent |-> 0, written |-> 0, awaited |-> 0, begun |-> 0,
                 sized |-> 0, ended |-> 0, given |-> 0]
<1>2. /\ m.enqueued = 0 /\ m.sent = 0 /\ m.written = 0 /\ m.awaited = 0 /\ m.begun = 0
      /\ m.sized = 0 /\ m.ended = 0 /\ m.given = 0 /\ m \in Marks
  BY DEF Marks
<1> HIDE DEF m
<1>3. /\ c.ready = <<>> /\ c.write_queue = <<>> /\ c.read_queue = <<>> /\ c.unanswered = <<>>
      /\ c.reading = <<>> /\ c.writing = <<>> /\ c.resolving = <<>> /\ c.state = "closed"
      /\ c.read_state = "idle" /\ submitted = 0
  BY DEF Init
<1>4. Order(c, m, 0)
  BY <1>2 DEF Order
<1>5. \A h : Line(c.ready, h, 0, 0)
  <2>1. \A r \in Nat : ~(0 < r /\ r =< 0)
    OBVIOUS
  <2>2. \A i \in 1 .. Len(c.ready) : FALSE
    BY <1>3, EmptyLen
  <2> QED  BY <2>1, <2>2 DEF Line
<1>6. Lines(c.ready, m, 0)
  BY <1>2, <1>5 DEF Lines
<1>7. \A i \in 1 .. Len(c.ready) : Succeeds(c.ready[i])
  BY <1>3, EmptyLen
<1>8. Queues(c, m)
  <2>1. \A q : q = <<>> => Between(q, 0, 0)
    BY EmptyLen DEF Between
  <2>2. Len(c.reading) = 0 - 0 /\ \A i \in 1 .. Len(c.reading) : c.reading[i].arg = 0
    BY <1>3, EmptyLen
  <2> QED  BY <1>2, <1>3, <2>1, <2>2 DEF Queues
<1>9. Connection(c, m)
  <2>1. \A S : NoneOf(c.ready, S) /\ OneOf(c.ready, S)
    BY <1>3, EmptyLen DEF NoneOf, OneOf
  <2>2. Len(c.resolving) =< 1
    BY <1>3, EmptyLen
  <2>3. Len(c.writing) =< 1
    BY <1>3, EmptyLen
  <2>4. \A i \in 1 .. Len(c.writing) : c.writing[i].op = "Connect"
    BY <1>3, EmptyLen
  <2> QED  BY <1>2, <1>3, <2>1, <2>2, <2>3, <2>4 DEF Connection
<1>10. InCalm(c, submitted)
  BY <1>1, <1>2, <1>3, <1>4, <1>6, <1>7, <1>8, <1>9 DEF InCalm, Calm
<1>11. answer = [r \in Requests |-> None]
  BY DEF Init
<1> QED  BY <1>10, <1>11 DEF MatchInv

(* A timer's handler is not called, and nothing fails.                      *)
LEMMA RunsCalm ==
  ASSUME InCalm(c, submitted), submitted \in Nat, RunHandler, ~RunUser
  PROVE  InCalm(c', submitted)
<1> DEFINE s == [c EXCEPT !.ready = Tail(@)]
           h == Head(c.ready)
<1>1. c \in ConnState
  BY DEF InCalm
<1>2. c.ready # <<>> => Taken(c, s)
  BY DEF Taken
<1>3. CASE RunEnqueueRequest
  <2>1. c.ready # <<>> /\ h.h = "EnqueueRequest" /\ c' = EnqueueRequest(s, h.arg)
    BY <1>3 DEF RunEnqueueRequest, Runs
  <2> HIDE DEF s
  <2> QED  BY <1>1, <1>2, <2>1, EnqueueRequestCalm
<1>4. CASE RunResolve
  <2>1. c.ready # <<>> /\ h.h = "Resolve" /\ c' = HandleAsyncResolve(s, h.res)
    BY <1>4 DEF RunResolve, Runs
  <2> HIDE DEF s
  <2> QED  BY <1>1, <1>2, <2>1, ResolveHandlerCalm
<1>5. CASE RunConnect
  <2>1. c.ready # <<>> /\ h.h = "Connect" /\ c' = HandleAsyncConnect(s, h.res)
    BY <1>5 DEF RunConnect, Runs
  <2> HIDE DEF s
  <2> QED  BY <1>1, <1>2, <2>1, ConnectHandlerCalm
<1>6. CASE RunAutoConnect
  <2>1. c.ready # <<>> /\ h.h = "AutoConnect" /\ c' = HandleAsyncAutoConnect(s, h.res)
    BY <1>6 DEF RunAutoConnect, Runs
  <2> HIDE DEF s
  <2> QED  BY <1>1, <1>2, <2>1, AutoConnectCalm
<1>7. CASE RunWrite
  <2>1. c.ready # <<>> /\ h.h = "Write" /\ c' = HandleAsyncRequestWrite(s, h.arg, h.res)
    BY <1>7 DEF RunWrite, Runs
  <2> HIDE DEF s
  <2> QED  BY <1>1, <1>2, <2>1, WriteHandlerCalm
<1>8. CASE RunSizeRead
  <2>1. c.ready # <<>> /\ h.h = "SizeRead" /\ c' = HandleAsyncResponseSizeRead(s, h.arg, h.res)
    BY <1>8 DEF RunSizeRead, Runs
  <2> HIDE DEF s
  <2> QED  BY <1>1, <1>2, <2>1, SizeReadHandlerCalm
<1>9. CASE RunRead
  <2>1. c.ready # <<>> /\ h.h = "Read" /\ c' = HandleAsyncResponseRead(s, h.arg, h.res, h.response)
    BY <1>9 DEF RunRead, Runs
  <2> HIDE DEF s
  <2> QED  BY <1>1, <1>2, <2>1, ReadHandlerCalm
<1>10. CASE RunDeadline
  <2>1. c.ready # <<>> /\ h.h \in Timers
    BY <1>10 DEF RunDeadline, Runs
  <2> HIDE DEF s
  <2>2. h.h \notin Timers
    BY <1>1, <1>2, <2>1, TakenCalm DEF InCalm, Succeeds
  <2> QED  BY <2>1, <2>2
<1> QED  BY <1>3, <1>4, <1>5, <1>6, <1>7, <1>8, <1>9, <1>10 DEF RunHandler

(* What io_service waits for succeeds.                                      *)
LEMMA OpSucceedsCalm ==
  ASSUME InCalm(c, submitted), submitted \in Nat, OpSucceeds
  PROVE  InCalm(c', submitted)
<1>1. c \in ConnState
  BY DEF InCalm
<1>2. CASE Resolved("ok")
  <2>1. c.resolving # <<>> /\ c' = Post([c EXCEPT !.resolving = Tail(@)], H("Resolve", None, "ok"))
    BY <1>2 DEF Resolved
  <2> QED  BY <1>1, <2>1, ResolvedCalm
<1>3. CASE Connected("ok")
  <2>1. /\ c.writing # <<>> /\ Head(c.writing).op = "Connect"
        /\ c' = Post([c EXCEPT !.writing = Tail(@)], H("Connect", None, "ok"))
    BY <1>3 DEF Connected
  <2> QED  BY <1>1, <2>1, ConnectedCalm
<1>4. CASE Written
  <2>1. /\ c.writing # <<>> /\ Head(c.writing).op = "Write"
        /\ c' = Post([c EXCEPT !.writing = Tail(@), !.unanswered = Append(@, Head(c.writing).arg)],
                     H("Write", Head(c.writing).arg, "ok"))
    BY <1>4 DEF Written
  <2> QED  BY <1>1, <2>1, WrittenCalm
<1>5. CASE SizeReadEnds("ok")
  <2>1. /\ c.reading # <<>>
        /\ c' = Post([c EXCEPT !.reading = Tail(@)], H("SizeRead", Head(c.reading).arg, "ok"))
    BY <1>5 DEF SizeReadEnds
  <2> QED  BY <1>1, <2>1, SizeReadEndsCalm
<1>6. CASE ReadEnds
  <2>1. /\ c.reading # <<>> /\ c.unanswered # <<>>
        /\ c' = Post([c EXCEPT !.reading = Tail(@), !.unanswered = Tail(@)],
                     [H("Read", Head(c.reading).arg, "ok") EXCEPT !.response = Head(c.unanswered)])
    BY <1>6 DEF ReadEnds
  <2> QED  BY <1>1, <2>1, ReadEndsCalm
<1> QED  BY <1>2, <1>3, <1>4, <1>5, <1>6 DEF OpSucceeds

(* Every step keeps the order while nothing fails.                          *)
LEMMA NextMatch ==
  ASSUME MatchInv, ConnInv, [Next]_vars
  PROVE  MatchInv'
<1>1. world' = world
  BY DEF Next, RunHandler, RunEnqueueRequest, RunResolve, RunConnect, RunAutoConnect,
         RunWrite, RunSizeRead, RunRead, RunDeadline, RunUser, Runs, AsyncRequest, OpSucceeds,
         OpFails, SizeTooLarge, DeadlinePasses, vars
<1> SUFFICES ASSUME world.faults = {}
             PROVE  /\ InCalm(c', submitted')
                    /\ answer' \in [Requests -> Requests \cup {None}]
                    /\ \A r \in Requests : answer'[r] \in {None, r}
  <2>1. MatchInv' <=> (world'.faults = {} =>
                         /\ InCalm(c', submitted')
                         /\ answer' \in [Requests -> Requests \cup {None}]
                         /\ \A r \in Requests : answer'[r] \in {None, r})
    BY DEF MatchInv, InCalm, Calm, Order, Lines, Line, Queues, Between, Connection, Succeeds, NoneOf, OneOf
  <2> QED  BY <1>1, <2>1
<1>2. /\ InCalm(c, submitted) /\ submitted \in Nat
      /\ answer \in [Requests -> Requests \cup {None}]
      /\ \A r \in Requests : answer[r] \in {None, r}
  BY KafkaConstants DEF MatchInv, ConnInv
<1>3. CASE RunHandler /\ ~RunUser
  <2>1. answer' = answer /\ submitted' = submitted
    BY <1>3 DEF RunHandler, RunEnqueueRequest, RunResolve, RunConnect, RunAutoConnect,
                RunWrite, RunSizeRead, RunRead, RunDeadline, Runs
  <2> QED  BY <1>2, <1>3, <2>1, RunsCalm
<1>4. CASE RunUser
  <2> DEFINE h == Head(c.ready)
             s == [c EXCEPT !.ready = Tail(@)]
  <2>1. /\ c.ready # <<>> /\ h.h = "User" /\ c' = s
        /\ answer' = [answer EXCEPT ![h.arg] = h.response]
        /\ submitted' = submitted
    BY <1>4 DEF RunUser
  <2>2. Taken(c, s) /\ c \in ConnState
    BY <1>2, <2>1 DEF Taken, InCalm
  <2> HIDE DEF s
  <2>3. InCalm(s, submitted)
    BY <1>2, <2>1, <2>2, OtherTaken
  <2>4. h.arg \in Requests /\ h.response = h.arg
    <3>1. h \in Handler /\ Succeeds(h)
      BY <1>2, <2>2, TakenFields, TakenCalm DEF InCalm
    <3> QED  BY <2>1, <3>1 DEF Handler, Timers, Succeeds
  <2> QED  BY <1>2, <2>1, <2>3, <2>4
<1>5. CASE AsyncRequest
  <2>1. /\ submitted < world.requests /\ submitted' = submitted + 1 /\ answer' = answer
        /\ c' = Post(c, H("EnqueueRequest", submitted + 1, "ok"))
    BY <1>5 DEF AsyncRequest
  <2>2. submitted + 1 \in Requests
    <3>1. world \in Worlds /\ submitted \in 0 .. MaxRequests
      BY DEF ConnInv
    <3>2. world.requests \in 1 .. MaxRequests
      BY <3>1, KafkaConstants
    <3> QED  BY <2>1, <3>1, <3>2, KafkaConstants DEF Requests
  <2>3. c \in ConnState
    BY <1>2 DEF InCalm
  <2> QED  BY <1>2, <2>1, <2>2, <2>3, SubmittedCalm
<1>6. CASE OpSucceeds
  <2>1. answer' = answer /\ submitted' = submitted
    BY <1>6 DEF OpSucceeds
  <2> QED  BY <1>2, <1>6, <2>1, OpSucceedsCalm
<1>7. CASE OpFails \/ SizeTooLarge \/ DeadlinePasses
  BY <1>7 DEF OpFails, SizeTooLarge, DeadlinePasses
<1>8. CASE UNCHANGED vars
  BY <1>2, <1>8 DEF vars
<1> QED  BY <1>3, <1>4, <1>5, <1>6, <1>7, <1>8 DEF Next

(* While no operation fails, the response given to a request's handler is   *)
(* the broker's answer to that request: requests are written, and their     *)
(* responses awaited and read, in the order of AsyncRequest, even when two  *)
(* writes are under way at once (EnqueueRequest, EnqueueResponse,           *)
(* HandleAsyncAutoConnect).                                                 *)
THEOREM AnswersMatch == Spec => []ResponsesMatch
<1>1. Init => MatchInv
  BY InitMatch
<1>2. MatchInv /\ ConnInv /\ [Next]_vars => MatchInv'
  BY NextMatch
<1>3. MatchInv => ResponsesMatch
  BY DEF MatchInv, ResponsesMatch
<1> QED  BY <1>1, <1>2, <1>3, KafkaInvariant, PTL DEF Spec
=============================================================================

-------------------------- MODULE KafkaConnection --------------------------
(* The connection to the Kafka broker through which KafkaOutput publishes   *)
(* the statistics: ConnectionServiceImpl of libkafka_asio.  One thread runs *)
(* io_service::run, so handlers run one at a time and a handler is a step.  *)
(* What a handler starts completes later, and what it posts runs later, in  *)
(* the order of `ready`.                                                    *)
(*                                                                          *)
(* Handlers of cancelled timers return at once and are left out.  The       *)
(* configuration is KafkaOutput's: auto_connect, one broker, one endpoint,  *)
(* and requests whose acknowledgement is awaited.                           *)
EXTENDS Naturals, Sequences, FiniteSets, Counts

CONSTANTS
  MaxRequests,    \* bound: requests published
  Worlds          \* how many are published and what may fail meanwhile

FaultKinds == {"resolve", "connect", "write", "read", "size", "deadline"}

ASSUME KafkaConstants ==
  /\ MaxRequests \in Nat \ {0}
  /\ Worlds \subseteq [requests : 1 .. MaxRequests, faults : SUBSET FaultKinds]

Requests == 1 .. MaxRequests
None == 0
Timers == {"connect_deadline", "write_deadline", "read_deadline"}

(* A handler in the queue of io_service: which one (a timer has the name of *)
(* its member), for which request, the outcome it is called with, and the   *)
(* request that the response in its buffer answers.                         *)
H(h, arg, res) == [h |-> h, arg |-> arg, res |-> res, response |-> None]

Outcomes == {"ok", "failed", "aborted", "bad_descriptor", "too_large",
             "not_connected", "already_connected"}

Handler ==
  [h : {"EnqueueRequest", "Write", "SizeRead", "Read", "User"}, arg : Requests,
   res : Outcomes, response : Requests \cup {None}]
  \cup [h : {"Resolve", "Connect", "AutoConnect"} \cup Timers, arg : {None},
        res : Outcomes, response : {None}]

(* An operation that waits for the socket, or for the resolver.             *)
Operation(op, arg) == [op |-> op, arg |-> arg]

ReadOperation == [op : {"SizeRead", "Read"}, arg : Requests]
WriteOperation ==
  [op : {"Write"}, arg : Requests] \cup [op : {"Connect"}, arg : {None}]
ResolveOperation == [op : {"Resolve"}, arg : {None}]

VARIABLES
  world,       \* that of this behaviour
  c,           \* the ConnectionServiceImpl, its socket, and the io_service
  submitted,   \* requests handed to AsyncRequest so far
  called,      \* how often a request's handler has been called
  answer       \* the request whose response the handler was given

vars == <<world, c, submitted, called, answer>>

Init ==
  /\ world \in Worlds
  /\ c = [state |-> "closed", write_state |-> "idle", read_state |-> "idle",
          write_queue |-> <<>>, read_queue |-> <<>>,
          deadline |-> [t \in Timers |-> "off"],
          open |-> FALSE,          \* the socket has a descriptor
          resolving |-> <<>>,      \* operations under way, as [op, arg]: those
          reading |-> <<>>,        \* of the resolver, those that wait for the
          writing |-> <<>>,        \* socket to be readable and to be writable
          unanswered |-> <<>>,     \* requests the broker has received
          ready |-> <<>>]          \* handlers io_service will call
  /\ submitted = 0
  /\ called = [r \in Requests |-> 0]
  /\ answer = [r \in Requests |-> None]

-----------------------------------------------------------------------------
(* The library underneath: io_service, timers, socket and resolver.         *)

Post(s, h) == [s EXCEPT !.ready = Append(@, h)]
PostAll(s, hs) == [s EXCEPT !.ready = @ \o hs]

Aborted(ops) == [i \in 1 .. Len(ops) |-> H(ops[i].op, ops[i].arg, "aborted")]

(* Closing a socket completes its reads first, then its writes.             *)
AbortSocket(s) ==
  PostAll([s EXCEPT !.reading = <<>>, !.writing = <<>>, !.unanswered = <<>>],
          Aborted(s.reading \o s.writing))

CancelResolver(s) ==
  PostAll([s EXCEPT !.resolving = <<>>], Aborted(s.resolving))

Cancel(s, timers) ==
  [s EXCEPT !.deadline = [t \in Timers |->
     IF t \in timers /\ @[t] = "armed" THEN "off" ELSE @[t]]]

Resolve(s) == [s EXCEPT !.resolving = Append(@, Operation("Resolve", None))]

Connect(s) == [s EXCEPT !.writing = Append(@, Operation("Connect", None))]

Write(s, r) ==
  IF s.open THEN [s EXCEPT !.writing = Append(@, Operation("Write", r))]
            ELSE Post(s, H("Write", r, "bad_descriptor"))

Read(s, op, r) ==
  IF s.open THEN [s EXCEPT !.reading = Append(@, Operation(op, r))]
            ELSE Post(s, H(op, r, "bad_descriptor"))

SetDeadline(s, t) == [s EXCEPT !.deadline[t] = "armed"]

-----------------------------------------------------------------------------
(* ConnectionServiceImpl: each operator is a member function.               *)

Close(s) ==
  Cancel(AbortSocket(CancelResolver([s EXCEPT !.state = "closed",
                                              !.open = FALSE])), Timers)

AsyncConnect(s) ==
  IF s.state # "closed"
  THEN Post(s, H("AutoConnect", None, "already_connected"))
  ELSE SetDeadline([Resolve(s) EXCEPT !.state = "connecting"],
                   "connect_deadline")

SendRequest(s, r) ==
  SetDeadline([Write(s, r) EXCEPT !.write_state = "busy"],
              "write_deadline")

ReceiveResponse_NoDeadline(s, r) ==
  [Read(s, "SizeRead", r) EXCEPT !.read_state = "busy"]

ReceiveResponse(s, r) ==
  SetDeadline([Read(s, "SizeRead", r) EXCEPT !.read_state = "busy"],
              "read_deadline")

NextRequest_NoPop(s) ==
  IF s.write_state = "busy" \/ s.write_queue = <<>> THEN s
  ELSE CASE s.state = "closed" -> AsyncConnect(s)
         [] s.state = "connected" -> SendRequest(s, Head(s.write_queue))
         [] OTHER -> s

NextRequest(s) ==
  IF s.write_state = "busy" \/ s.write_queue = <<>> THEN s
  ELSE CASE s.state = "closed" -> AsyncConnect(s)
         [] s.state = "connected" ->
              [SendRequest(s, Head(s.write_queue))
                 EXCEPT !.write_queue = Tail(@)]
         [] OTHER -> s

NextResponse(s) ==
  IF s.read_state = "busy" \/ s.read_queue = <<>> THEN s
  ELSE [ReceiveResponse(s, Head(s.read_queue)) EXCEPT !.read_queue = Tail(@)]

EnqueueRequest(s, r) ==
  LET queued == [s EXCEPT !.write_queue = Append(@, r)] IN
  IF s.write_state = "busy" THEN queued
  ELSE IF s.write_queue = <<>> /\ s.state = "connected" THEN SendRequest(s, r)
  ELSE NextRequest(queued)

(* Without a connection the responses still awaited are given up.           *)
GiveUpResponses(s) ==
  PostAll([s EXCEPT !.read_queue = <<>>],
          [i \in 1 .. Len(s.read_queue) |->
             H("SizeRead", s.read_queue[i], "not_connected")])

EnqueueResponse_Newest(s, r) ==
  LET queued == [s EXCEPT !.read_queue = Append(@, r)] IN
  IF s.state # "connected"
  THEN NextRequest(GiveUpResponses(Post(s, H("User", r, "not_connected"))))
  ELSE IF s.read_state = "busy" THEN queued
  ELSE ReceiveResponse(s, r)

EnqueueResponse(s, r) ==
  LET queued == [s EXCEPT !.read_queue = Append(@, r)] IN
  IF s.state # "connected"
  THEN NextRequest(GiveUpResponses(Post(s, H("User", r, "not_connected"))))
  ELSE IF s.read_state = "busy" THEN queued
  ELSE IF s.read_queue = <<>> THEN ReceiveResponse(s, r)
  ELSE NextResponse(queued)

(* async_connect closes the socket it is given and opens it again.          *)
HandleAsyncResolve(s, res) ==
  IF res # "ok" THEN Close(Post(s, H("AutoConnect", None, res)))
  ELSE SetDeadline(Connect([AbortSocket(s) EXCEPT !.open = TRUE]),
                   "connect_deadline")

HandleAsyncConnect(s, res) ==
  Post(IF res # "ok" THEN Close(s)
       ELSE Cancel([s EXCEPT !.state = "connected"], {"connect_deadline"}),
       H("AutoConnect", None, res))

HandleAsyncAutoConnect(s, res) ==
  IF res # "ok"
  THEN PostAll([s EXCEPT !.write_queue = <<>>],
               [i \in 1 .. Len(s.write_queue) |->
                  H("Write", s.write_queue[i], res)])
  ELSE IF s.write_queue = <<>> THEN s
  ELSE [SendRequest(s, Head(s.write_queue)) EXCEPT !.write_queue = Tail(@)]

HandleAsyncRequestWrite(s, r, res) ==
  LET written == Cancel([s EXCEPT !.write_state = "idle"], {"write_deadline"}) IN
  IF res # "ok" THEN Close(Post(written, H("User", r, res)))
  ELSE EnqueueResponse(written, r)

(* "too_large": the size announced is at least message_max_bytes.           *)
HandleAsyncResponseSizeRead(s, r, res) ==
  IF res # "ok" THEN Close(Post(s, H("User", r, res)))
  ELSE SetDeadline(Read(s, "Read", r), "read_deadline")

GiveResponse(s, r, response) ==
  Post(Cancel([s EXCEPT !.read_state = "idle"], {"read_deadline"}),
       [H("User", r, "ok") EXCEPT !.response = response])

HandleAsyncResponseRead_NoNext(s, r, res, response) ==
  IF res # "ok" THEN Close(Post(s, H("User", r, res)))
  ELSE GiveResponse(s, r, response)

(* A response that cannot be parsed is reported and handled like any other. *)
HandleAsyncResponseRead(s, r, res, response) ==
  IF res # "ok" THEN Close(Post(s, H("User", r, res)))
  ELSE NextRequest(GiveResponse(s, r, response))

(* Called for a timer that ran out: it may have been set again meanwhile.   *)
HandleDeadline(s, t) ==
  IF s.deadline[t] # "expired" THEN s
  ELSE Close([s EXCEPT !.deadline = [u \in Timers |-> "off"]])

-----------------------------------------------------------------------------
(* The io_service thread calls the first handler of its queue.              *)

Runs(h, Effect(_, _)) ==
  /\ c.ready # <<>> /\ Head(c.ready).h = h
  /\ c' = Effect([c EXCEPT !.ready = Tail(@)], Head(c.ready))
  /\ UNCHANGED <<world, submitted, called, answer>>

RunEnqueueRequest ==
  Runs("EnqueueRequest", LAMBDA s, h : EnqueueRequest(s, h.arg))
RunResolve == Runs("Resolve", LAMBDA s, h : HandleAsyncResolve(s, h.res))
RunConnect == Runs("Connect", LAMBDA s, h : HandleAsyncConnect(s, h.res))
RunAutoConnect ==
  Runs("AutoConnect", LAMBDA s, h : HandleAsyncAutoConnect(s, h.res))
RunWrite ==
  Runs("Write", LAMBDA s, h : HandleAsyncRequestWrite(s, h.arg, h.res))
RunSizeRead ==
  Runs("SizeRead", LAMBDA s, h : HandleAsyncResponseSizeRead(s, h.arg, h.res))
RunRead == Runs("Read", LAMBDA s, h :
                          HandleAsyncResponseRead(s, h.arg, h.res, h.response))
RunDeadline == \E t \in Timers : Runs(t, LAMBDA s, h : HandleDeadline(s, t))

(* The handler that KafkaOutput::write passed to AsyncRequest.              *)
RunUser ==
  /\ c.ready # <<>> /\ Head(c.ready).h = "User"
  /\ c' = [c EXCEPT !.ready = Tail(@)]
  /\ called' = [called EXCEPT ![Head(c.ready).arg] = @ + 1]
  /\ answer' = [answer EXCEPT ![Head(c.ready).arg] = Head(c.ready).response]
  /\ UNCHANGED <<world, submitted>>

RunHandler ==
  RunEnqueueRequest \/ RunResolve \/ RunConnect \/ RunAutoConnect \/ RunWrite
  \/ RunSizeRead \/ RunRead \/ RunDeadline \/ RunUser

-----------------------------------------------------------------------------
(* What io_service waits for.                                               *)

(* KafkaOutput::write, on a tenant's thread: AsyncRequest posts.            *)
AsyncRequest ==
  /\ submitted < world.requests
  /\ submitted' = submitted + 1
  /\ c' = Post(c, H("EnqueueRequest", submitted + 1, "ok"))
  /\ UNCHANGED <<world, called, answer>>

(* The operations that wait for the same thing complete in the order they   *)
(* began: a handler is posted with the outcome `res`.                       *)
Resolved(res) ==
  /\ c.resolving # <<>>
  /\ c' = Post([c EXCEPT !.resolving = Tail(@)], H("Resolve", None, res))

Connected(res) ==
  /\ c.writing # <<>> /\ Head(c.writing).op = "Connect"
  /\ c' = Post([c EXCEPT !.writing = Tail(@)], H("Connect", None, res))

(* A write reaches the broker ...                                           *)
Written ==
  /\ c.writing # <<>> /\ Head(c.writing).op = "Write"
  /\ LET r == Head(c.writing).arg IN
     c' = Post([c EXCEPT !.writing = Tail(@), !.unanswered = Append(@, r)],
               H("Write", r, "ok"))

WriteFails ==
  /\ c.writing # <<>> /\ Head(c.writing).op = "Write"
  /\ c' = Post([c EXCEPT !.writing = Tail(@)],
               H("Write", Head(c.writing).arg, "failed"))

(* ... and a response comes back for the oldest request it has received:    *)
(* one read for its size and one for the rest.                              *)
SizeReadEnds(res) ==
  /\ c.reading # <<>> /\ Head(c.reading).op = "SizeRead" /\ c.unanswered # <<>>
  /\ c' = Post([c EXCEPT !.reading = Tail(@)],
               H("SizeRead", Head(c.reading).arg, res))

ReadEnds ==
  /\ c.reading # <<>> /\ Head(c.reading).op = "Read" /\ c.unanswered # <<>>
  /\ c' = Post([c EXCEPT !.reading = Tail(@), !.unanswered = Tail(@)],
               [H("Read", Head(c.reading).arg, "ok")
                  EXCEPT !.response = Head(c.unanswered)])

ReadFails ==
  /\ c.reading # <<>>
  /\ c' = Post([c EXCEPT !.reading = Tail(@)],
               H(Head(c.reading).op, Head(c.reading).arg, "failed"))

OpSucceeds ==
  /\ Resolved("ok") \/ Connected("ok") \/ Written \/ SizeReadEnds("ok")
     \/ ReadEnds
  /\ UNCHANGED <<world, submitted, called, answer>>

OpFails ==
  /\ \/ "resolve" \in world.faults /\ Resolved("failed")
     \/ "connect" \in world.faults /\ Connected("failed")
     \/ "write" \in world.faults /\ WriteFails
     \/ "read" \in world.faults /\ ReadFails
  /\ UNCHANGED <<world, submitted, called, answer>>

SizeTooLarge ==
  /\ "size" \in world.faults /\ SizeReadEnds("too_large")
  /\ UNCHANGED <<world, submitted, called, answer>>

DeadlinePasses ==
  \E t \in Timers :
    /\ "deadline" \in world.faults /\ c.deadline[t] = "armed"
    /\ c' = Post([c EXCEPT !.deadline[t] = "expired"], H(t, None, "ok"))
    /\ UNCHANGED <<world, submitted, called, answer>>

Next == RunHandler \/ AsyncRequest \/ OpSucceeds \/ OpFails \/ SizeTooLarge
        \/ DeadlinePasses

Spec == Init /\ [][Next]_vars

(* The thread keeps running (asio_work_), the network and the broker answer.*)
FairSpec == Spec /\ WF_vars(RunHandler) /\ WF_vars(OpSucceeds)

-----------------------------------------------------------------------------
(* Properties.                                                              *)

(* A request's handlers in io_service's queue, and its operations.          *)
HandlersOf(r) == {h \in Handler : h.arg = r}
OperationsOf(r) == {o \in ReadOperation \cup WriteOperation : o.arg = r}

(* How many of the connection's queues a request is in, and how often.      *)
PlacesOf(s, r) ==
  Occurrences(s.ready, HandlersOf(r))
  + Occurrences(s.reading, OperationsOf(r))
  + Occurrences(s.writing, OperationsOf(r))
  + Occurrences(s.write_queue, {r}) + Occurrences(s.read_queue, {r})

(* A request that was handed to AsyncRequest is in exactly one place: on    *)
(* its way through a queue, an operation or a posted handler, or reported   *)
(* back once. No path of the handlers drops one or reports it twice.        *)
InOnePlace ==
  \A r \in Requests :
    PlacesOf(c, r) + called[r] = IF r =< submitted THEN 1 ELSE 0

(* Never two reads on the socket, whose bytes they would share, and a read  *)
(* that waits for the broker is always watched by its deadline, so that a   *)
(* silent broker cannot keep it forever (EnqueueResponse, ReceiveResponse). *)
ReadWatched ==
  /\ Len(c.reading) =< 1
  /\ c.reading # <<>> =>
       \/ c.deadline["read_deadline"] = "armed"
       \/ /\ c.deadline["read_deadline"] = "expired"
          /\ \E i \in 1 .. Len(c.ready) : c.ready[i].h = "read_deadline"

(* While no operation fails, the response a handler is given answers its    *)
(* own request: the read queue keeps the order of the writes.               *)
ResponsesMatch ==
  world.faults = {} => \A r \in Requests : answer[r] \in {None, r}

(* While no operation fails, a request in the write queue is sent: somebody *)
(* always calls NextRequest again.                                          *)
EventuallySent ==
  \A r \in Requests :
    (world.faults = {} /\ Positions(c.write_queue, {r}) # {})
      ~> (Positions(c.write_queue, {r}) = {})

(* detail/connection_service.h, 68: "one write and one read operation       *)
(* pending on the socket".                                                  *)
OneWritePending ==
  Cardinality({i \in 1 .. Len(c.writing) : c.writing[i].op = "Write"}) =< 1

(* detail/basic_connection.h, 128: "The given handler function object will  *)
(* be called on success as well as on error condition."                     *)
EventuallyCalled ==
  \A r \in Requests : (r =< submitted) ~> (called[r] = 1)

=============================================================================

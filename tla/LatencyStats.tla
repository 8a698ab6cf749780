---------------------------- MODULE LatencyStats ----------------------------
(***************************************************************************)
(* How one tenant measures response delays.  The tenant's thread runs      *)
(* HVBenchController::run: it takes a request from the generator, stamps   *)
(* it, gives it to the switch connection and then records it in            *)
(* OFLatencyStats::reply_waiting_list; once per second it collects the     *)
(* statistics and resets them.  libfluid's event loop threads run          *)
(* message_callback, which calls OFLatencyStats::received: it dequeues     *)
(* entries until one has the identifier of the reply and credits the delay *)
(* to the type of that entry.                                              *)
(*                                                                         *)
(* reply_waiting_list is used through try_enqueue and try_dequeue of one   *)
(* producer and is a FIFO queue here; its storage is a fixed pool of       *)
(* blocks, so try_enqueue fails when no block is free.                     *)
(***************************************************************************)
EXTENDS Naturals, Sequences, FiniteSets, SequencesExt

CONSTANTS
  Types,          \* request types of the generator
  ReplyTypes,     \* those whose message has _has_reply = true
  Own,            \* the event loop thread that serves the adopted connection
  Others,         \* event loop threads that serve further connections
  BlockSize,      \* elements per queue block (BLOCK_SIZE = 32)
  PoolBlocks,     \* blocks of the queue's initial pool (6)
  Faults,         \* what the environment may do, see the ASSUME
  MaxXid,         \* bound: requests generated
  MaxTime,        \* bound: values of the clock
  MaxUnasked      \* bound: identifiers of replies nobody asked for

ASSUME LatencyConstants ==
  /\ ReplyTypes \subseteq Types
  /\ Own \notin Others
  /\ BlockSize \in Nat \ {0}
  /\ PoolBlocks \in Nat
  /\ MaxXid \in Nat
  /\ MaxTime \in Nat
  /\ MaxUnasked \in Nat
  /\ Faults \subseteq {"reorder", "lose", "close", "unasked"}

Workers == {Own} \cup Others

Xids == 1 .. MaxXid
Times == 0 .. MaxTime
Request == [xid : Xids, type : Types, at : Times]
Sample == [xid : Xids, type : Types, sent : Times, recv : Times]

VARIABLES
  now,                \* clock_source::now()
  (* the tenant's thread *)
  pc,                 \* its place in HVBenchController::run
  idx,                \* the generator's request counter
  msg,                \* the request in hand
  counters_,          \* requests per type, as reported
  reply_waiting_list, \* recorded requests, oldest first
  enqueued, dequeued, \* elements that went through the queue so far
  (* the connection and the switch *)
  alive,              \* OFConnection::is_alive of the adopted connection
  to_switch,          \* requests on the wire that will be answered
  replies,            \* identifiers of replies on the wire
  (* the event loop threads *)
  recv,               \* per thread: the reply being handled by received()
  (* the statistics, as sets of samples *)
  stats_latency_,     \* since the last reset
  published,          \* copied into a Collector so far
  (* history variables *)
  issued,             \* requests given to the connection
  answered,           \* identifiers whose reply reached message_callback
  overflowed,         \* identifiers try_enqueue refused
  discarded,          \* identifiers dequeued without a sample
  missed,             \* identifiers whose reply found no entry
  unasked,            \* identifiers that came in a reply nobody asked for
  lost                \* samples reset before any Collector copied them

runVars   == <<pc, idx, msg, counters_>>
queueVars == <<reply_waiting_list, enqueued, dequeued>>
netVars   == <<alive, to_switch, replies>>
statVars  == <<stats_latency_, published, lost>>
history   == <<issued, answered, overflowed, discarded, missed, unasked>>
vars == <<now, runVars, queueVars, netVars, recv, statVars, history>>

Idle == [pc |-> "idle"]

Init ==
  /\ now = 0
  /\ pc = "next" /\ idx = 0
  /\ msg = [xid |-> 0]
  /\ counters_ = [t \in Types |-> 0]
  /\ reply_waiting_list = <<>> /\ enqueued = 0 /\ dequeued = 0
  /\ alive = TRUE /\ to_switch = <<>> /\ replies = <<>>
  /\ recv = [w \in Workers |-> Idle]
  /\ stats_latency_ = {} /\ published = {} /\ lost = {}
  /\ issued = {} /\ answered = {} /\ overflowed = {}
  /\ discarded = {} /\ missed = {} /\ unasked = {}

(***************************************************************************)
(* The queue.  A block is taken from the pool when the tail enters it and  *)
(* goes back when every element of it has been dequeued.                   *)
(***************************************************************************)
BlockInPool ==
  (enqueued \div BlockSize) - (dequeued \div BlockSize) < PoolBlocks

CanEnqueue == enqueued % BlockSize # 0 \/ BlockInPool

(* Variant: a full queue overwrites its oldest entry. *)
sent_Overwrite(e) ==
  /\ reply_waiting_list' = IF CanEnqueue THEN Append(reply_waiting_list, e)
                           ELSE Append(Tail(reply_waiting_list), e)
  /\ enqueued' = enqueued + 1
  /\ UNCHANGED <<dequeued, overflowed>>

(* Variant: the newest entry is found first. *)
sent_Newest(e) ==
  /\ reply_waiting_list' = IF CanEnqueue THEN <<e>> \o reply_waiting_list
                           ELSE reply_waiting_list
  /\ enqueued' = enqueued + 1
  /\ UNCHANGED <<dequeued, overflowed>>

(* OFLatencyStats::sent: a refused try_enqueue is not noticed. *)
sent(e) ==
  IF CanEnqueue
  THEN /\ reply_waiting_list' = Append(reply_waiting_list, e)
       /\ enqueued' = enqueued + 1
       /\ UNCHANGED <<dequeued, overflowed>>
  ELSE /\ overflowed' = overflowed \cup {e.xid}
       /\ UNCHANGED queueVars

(***************************************************************************)
(* The tenant's thread.                                                    *)
(***************************************************************************)

(* auto next = generator->next() *)
NextRequest ==
  /\ pc = "next" /\ idx < MaxXid
  /\ idx' = idx + 1
  /\ \E t \in Types : msg' = [xid |-> idx + 1, type |-> t]
  /\ pc' = "loop"
  /\ UNCHANGED <<now, counters_, queueVars, netVars, recv, statVars, history>>

(* A new second: accept() copies the statistics under the lock. *)
Visit ==
  /\ pc = "loop"
  /\ published' = published \cup stats_latency_
  /\ pc' = "reset"
  /\ UNCHANGED <<now, idx, msg, counters_, queueVars, netVars, recv,
                 stats_latency_, lost, history>>

(* ... and clears them, under the lock again. *)
Reset ==
  /\ pc = "reset"
  /\ lost' = lost \cup (stats_latency_ \ published)
  /\ stats_latency_' = {}
  /\ pc' = "loop"
  /\ UNCHANGED <<now, idx, msg, counters_, queueVars, netVars, recv,
                 published, history>>

(* The request is due: its time stamp is read before it is sent. *)
Stamp ==
  /\ pc = "loop"
  /\ msg' = [xid |-> msg.xid, type |-> msg.type, at |-> now]
  /\ pc' = "send"
  /\ UNCHANGED <<now, idx, counters_, queueVars, netVars, recv, statVars,
                 history>>

(* conn->send(next) and the counter: counted even when the connection is   *)
(* gone and nothing is sent.                                               *)
Send ==
  /\ pc = "send"
  /\ to_switch' = IF alive /\ msg.type \in ReplyTypes
                  THEN Append(to_switch, msg.xid) ELSE to_switch
  /\ counters_' = [counters_ EXCEPT ![msg.type] = @ + 1]
  /\ issued' = issued \cup {msg}
  /\ pc' = IF msg.type \in ReplyTypes THEN "record" ELSE "next"
  /\ UNCHANGED <<now, idx, msg, queueVars, alive, replies, recv, statVars,
                 answered, overflowed, discarded, missed, unasked>>

(* Only now is a request that awaits a reply recorded. *)
Record ==
  /\ pc = "record"
  /\ sent(msg)
  /\ pc' = "next"
  /\ UNCHANGED <<now, idx, msg, counters_, netVars, recv, statVars,
                 issued, answered, discarded, missed, unasked>>

(***************************************************************************)
(* The switch and the connection.                                          *)
(***************************************************************************)

SwitchReplies ==
  \E i \in 1 .. Len(to_switch) :
    /\ i = 1 \/ "reorder" \in Faults
    /\ replies' = Append(replies, to_switch[i])
    /\ to_switch' = RemoveAt(to_switch, i)
    /\ UNCHANGED <<now, runVars, queueVars, alive, recv, statVars, history>>

SwitchLoses ==
  /\ "lose" \in Faults /\ to_switch # <<>>
  /\ to_switch' = Tail(to_switch)
  /\ UNCHANGED <<now, runVars, queueVars, alive, replies, recv, statVars,
                 history>>

(* connection_callback ignores EVENT_CLOSED and EVENT_DEAD, and a further   *)
(* connection is never adopted: the tenant keeps its dead connection.       *)
Close ==
  /\ "close" \in Faults /\ alive
  /\ alive' = FALSE /\ to_switch' = <<>> /\ replies' = <<>>
  /\ UNCHANGED <<now, runVars, queueVars, recv, statVars, history>>

Tick ==
  /\ now < MaxTime /\ now' = now + 1
  /\ UNCHANGED <<runVars, queueVars, netVars, recv, statVars, history>>

(***************************************************************************)
(* message_callback and OFLatencyStats::received, per event loop thread.   *)
(***************************************************************************)
ReplyArrives ==
  /\ replies # <<>> /\ recv[Own] = Idle
  /\ recv' = [recv EXCEPT ![Own] =
                [pc |-> "dequeue", xid |-> Head(replies), at |-> now]]
  /\ replies' = Tail(replies)
  /\ answered' = answered \cup {Head(replies)}
  /\ UNCHANGED <<now, runVars, queueVars, alive, to_switch, statVars,
                 issued, overflowed, discarded, missed, unasked>>

(* message_callback does not ask which connection a reply came from, nor    *)
(* received() whether it was answered before: a further connection may      *)
(* carry any identifier, one that is outstanding here included (the xid of  *)
(* its FEATURES_REPLY is the one its switch chose), and the own switch may  *)
(* answer twice, or what it was never asked.  An identifier that no request *)
(* ever has drains the list as one does that is not issued yet.             *)
UnaskedReply(w) ==
  /\ "unasked" \in Faults /\ recv[w] = Idle
  /\ w = Own => alive
  /\ \E x \in Xids :
       /\ Cardinality(unasked \cup {x}) =< MaxUnasked
       /\ recv' = [recv EXCEPT ![w] = [pc |-> "dequeue", xid |-> x, at |-> now]]
       /\ unasked' = unasked \cup {x}
  /\ UNCHANGED <<now, runVars, queueVars, netVars, statVars,
                 issued, answered, overflowed, discarded, missed>>

(* Variant: an entry is read and stays in the list. *)
dequeue_Stays == UNCHANGED queueVars

dequeue ==
  /\ reply_waiting_list' = Tail(reply_waiting_list)
  /\ dequeued' = dequeued + 1
  /\ UNCHANGED enqueued

(* try_dequeue fails: give up.  It may fail with an entry there while the   *)
(* claim of another consumer is in flight (Dequeue has it in detail).       *)
Exhausted(w) ==
  /\ recv[w].pc = "dequeue"
  /\ \/ reply_waiting_list = <<>>
     \/ \E v \in Workers \ {w} : recv[v].pc = "dequeue"
  /\ missed' = missed \cup {recv[w].xid}
  /\ recv' = [recv EXCEPT ![w] = Idle]
  /\ UNCHANGED <<now, runVars, queueVars, netVars, statVars,
                 issued, answered, overflowed, discarded, unasked>>

(* The oldest entry belongs to another request: it is thrown away. *)
Discard(w) ==
  /\ recv[w].pc = "dequeue" /\ reply_waiting_list # <<>>
  /\ Head(reply_waiting_list).xid # recv[w].xid
  /\ dequeue
  /\ discarded' = discarded \cup {Head(reply_waiting_list).xid}
  /\ UNCHANGED <<now, runVars, netVars, recv, statVars,
                 issued, answered, overflowed, missed, unasked>>

(* Variant: replies are taken to come in order, without a look at the xid.  *)
Match_AnyXid(w) ==
  /\ recv[w].pc = "dequeue" /\ reply_waiting_list # <<>>
  /\ dequeue
  /\ recv' = [recv EXCEPT ![w] =
                [pc |-> "account", at |-> recv[w].at,
                 entry |-> Head(reply_waiting_list)]]
  /\ UNCHANGED <<now, runVars, netVars, statVars, history>>

(* Variant: the loop is left before the sample is taken. *)
Match_EarlyBreak(w) ==
  /\ recv[w].pc = "dequeue" /\ reply_waiting_list # <<>>
  /\ Head(reply_waiting_list).xid = recv[w].xid
  /\ dequeue
  /\ recv' = [recv EXCEPT ![w] = Idle]
  /\ UNCHANGED <<now, runVars, netVars, statVars, history>>

(* The entry of the reply itself. *)
Match(w) ==
  /\ recv[w].pc = "dequeue" /\ reply_waiting_list # <<>>
  /\ Head(reply_waiting_list).xid = recv[w].xid
  /\ dequeue
  /\ recv' = [recv EXCEPT ![w] =
                [pc |-> "account", at |-> recv[w].at,
                 entry |-> Head(reply_waiting_list)]]
  /\ UNCHANGED <<now, runVars, netVars, statVars, history>>

(* Variant: the two time stamps are swapped. *)
SampleOf_Swapped(e, at) ==
  [xid |-> e.xid, type |-> e.type, sent |-> at, recv |-> e.at]

SampleOf(e, at) ==
  [xid |-> e.xid, type |-> e.type, sent |-> e.at, recv |-> at]

(* Under the lock: the sample goes to the type of the request. *)
Account(w) ==
  /\ recv[w].pc = "account"
  /\ stats_latency_' = stats_latency_ \cup
                         {SampleOf(recv[w].entry, recv[w].at)}
  /\ recv' = [recv EXCEPT ![w] = Idle]
  /\ UNCHANGED <<now, runVars, queueVars, netVars, published, lost, history>>

Run == NextRequest \/ Visit \/ Reset \/ Stamp \/ Send \/ Record

Received(w) == Exhausted(w) \/ Discard(w) \/ Match(w) \/ Account(w)

Next ==
  \/ Run
  \/ SwitchReplies \/ SwitchLoses \/ Close \/ Tick
  \/ ReplyArrives
  \/ \E w \in Workers : UnaskedReply(w) \/ Received(w)

Spec == Init /\ [][Next]_vars

(* The threads are scheduled: the tenant's thread gets on with its request  *)
(* (a due request is sent even if a collection is due as well, as accept()  *)
(* is called at most once per second) and the event loops with a reply they *)
(* hold.                                                                    *)
Fairness ==
  /\ WF_vars(NextRequest) /\ WF_vars(Reset) /\ SF_vars(Stamp)
  /\ WF_vars(Send) /\ WF_vars(Record)
  /\ WF_vars(SwitchReplies) /\ WF_vars(ReplyArrives)
  /\ \A w \in Workers : WF_vars(Received(w))

FairSpec == Spec /\ Fairness

(***************************************************************************)
(* Properties.                                                             *)
(***************************************************************************)
XidsOf(S) == {e.xid : e \in S}

Measured == stats_latency_ \cup published \cup lost

InHand == {w \in Workers : recv[w].pc = "account"}

Waiting == ToSet(reply_waiting_list)

RecvState ==
  {Idle} \cup [pc : {"dequeue"}, xid : Xids, at : Times]
         \cup [pc : {"account"}, at : Times, entry : Request]

(* Every variable holds a value the program can give it; the request in    *)
(* hand has as many fields as the thread's place says.                     *)
TypeOK ==
  /\ now \in Times
  /\ pc \in {"next", "loop", "reset", "send", "record"}
  /\ idx \in 0 .. MaxXid
  /\ pc \in {"loop", "reset"} => msg \in [xid : Xids, type : Types]
  /\ pc = "send" => msg \in Request
  /\ pc = "record" => msg \in Request
  /\ counters_ \in [Types -> Nat]
  /\ reply_waiting_list \in Seq(Request)
  /\ enqueued \in Nat /\ dequeued \in Nat
  /\ alive \in BOOLEAN
  /\ to_switch \in Seq(Xids) /\ replies \in Seq(Xids)
  /\ recv \in [Workers -> RecvState]
  /\ stats_latency_ \subseteq Sample /\ published \subseteq Sample
  /\ lost \subseteq Sample
  /\ issued \subseteq Request
  /\ answered \subseteq Xids /\ overflowed \subseteq Xids
  /\ discarded \subseteq Xids
  /\ missed \subseteq Xids /\ unasked \subseteq Xids

(* OFLatencyStats::received: whatever order replies come in, however many  *)
(* event loop threads drain the list, a sample carries the type and the    *)
(* time stamp of the request with its identifier.  Its delay is the one    *)
(* from that request to its own reply, and not negative, unless a reply    *)
(* nobody asked for came with the same identifier, the only way in which   *)
(* a measurement can be wrong.                                             *)
SampleGenuine ==
  \A s \in Measured :
    /\ \E r \in issued : r.xid = s.xid /\ r.type = s.type /\ r.at = s.sent
    /\ s.xid \in unasked \/ (s.xid \in answered /\ s.sent =< s.recv)

(* No two samples are of one request, nor is one still to come of a request *)
(* that has a sample.                                                       *)
MeasuredAtMostOnce ==
  /\ \A s1, s2 \in Measured : s1.xid = s2.xid => s1 = s2
  /\ \A w \in InHand : recv[w].entry.xid \notin XidsOf(Measured)

(* What a Collector has copied is gone before the next one copies.          *)
ReportedAtMostOnce == pc # "reset" => stats_latency_ \cap published = {}

(* No request is measured twice, also when two threads dequeue at once and *)
(* its reply comes again; and no sample is in two reports, although the    *)
(* statistics are copied and reset in two steps.                           *)
SampledOnce == MeasuredAtMostOnce /\ ReportedAtMostOnce

(* Every request that was to be recorded is in exactly one place: still    *)
(* waiting, in the hands of a thread, measured, thrown away by received()  *)
(* or refused by the full queue.                                           *)
Places ==
  << XidsOf(Waiting), {recv[w].entry.xid : w \in InHand}, XidsOf(Measured),
     discarded, overflowed >>

Conservation ==
  /\ {r.xid : r \in {q \in issued : q.type \in ReplyTypes}} =
       (UNION Range(Places)) \cup (IF pc = "record" THEN {msg.xid} ELSE {})
  /\ \A i, j \in DOMAIN Places : i # j => Places[i] \cap Places[j] = {}

(* The list stays in the order of the identifiers, so that received() only *)
(* passes over requests older than the one that was answered.  Only a reply *)
(* whose own entry is not in the list (late, repeated, or unasked for)      *)
(* throws away younger ones: then it empties the list.                      *)
DiscardsOnlyOlder ==
  [][\A w \in Workers :
       Discard(w) =>
         \/ Head(reply_waiting_list).xid < recv[w].xid
         \/ recv[w].xid \notin XidsOf(Waiting)]_vars

(* A request that awaits a reply, on a connection that stays, is settled:  *)
(* it is measured, or its reply came too early to be.                      *)
EventuallySettled ==
  \A x \in Xids :
    (\E r \in issued : r.xid = x /\ r.type \in ReplyTypes)
      ~> x \in XidsOf(Measured) \cup missed

(* The implementation keeps the promise of ResponseDelay: answered and     *)
(* measured as they are, the samples of all three sets together.           *)
Promise == INSTANCE ResponseDelay WITH measured <- Measured
ImplementsPromise == Promise!RDSpec
=============================================================================

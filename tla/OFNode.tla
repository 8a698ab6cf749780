------------------------------- MODULE OFNode -------------------------------
(* One data plane node: the thread that connects it to its hypervisor, the  *)
(* event loop that answers the handshake and watches the connection with    *)
(* echo requests, and stop() on the thread of HVBench::run.  libfluid owns  *)
(* sockets, timers and event loop; of it the module keeps what the node     *)
(* relies on: EVENT_UP comes before any message, close() takes effect later *)
(* on the event loop, timers go with the connection, and the calls of       *)
(* libevent below take the lock of the node's event_base.                   *)
EXTENDS Naturals, Sequences, FiniteSets, Counts

CONSTANTS
  NodeMessages,  \* bound: messages the hypervisor sends of its own accord
  NodeFlips,     \* bound: how often the hypervisor becomes (un)reachable
  NodeTimers     \* bound: features requests, each of which adds a timer

(* What a hypervisor may send besides the answers to the node's echoes.     *)
PeerKinds == {"hello", "features_request", "echo_request", "other"}
Message == PeerKinds \cup {"echo_reply"}

VARIABLES
  reachable, flips,  \* does connect() succeed
  sent,              \* messages the hypervisor has sent
  inbox,             \* messages the node's event loop has not handled
  echoes,            \* echo requests the hypervisor has not answered
  connector,         \* where try_connect is
  base,              \* the BaseOFConnection
  conn,              \* has the OFConnection been made
  state, alive,      \* what it says
  timers,            \* periodic send_echo callbacks
  stopping,          \* where stop() is
  evloop,            \* the event loop's thread
  broken             \* a freed BaseOFConnection was used

nodeVars == <<reachable, flips, sent, inbox, echoes, connector, base, conn,
              state, alive, timers, stopping, evloop, broken>>

NodeInit ==
  /\ reachable \in BOOLEAN /\ flips = 0 /\ sent = 0
  /\ inbox = <<>> /\ echoes = 0
  /\ connector = "socket" /\ base = "none"
  /\ conn = FALSE /\ state = "none" /\ alive = TRUE
  /\ timers = 0 /\ stopping = "no" /\ evloop = "running" /\ broken = FALSE

-----------------------------------------------------------------------------
(* The hypervisor and the network.                                          *)

Flip ==
  /\ flips < NodeFlips /\ flips' = flips + 1 /\ reachable' = ~reachable
  /\ UNCHANGED <<sent, inbox, echoes, connector, base, conn, state, alive,
                 timers, stopping, evloop, broken>>

PeerSends(m) ==
  /\ base = "up" /\ sent < NodeMessages
  /\ m = "features_request" => timers < NodeTimers
  /\ sent' = sent + 1 /\ inbox' = Append(inbox, m)
  /\ UNCHANGED <<reachable, flips, echoes, connector, base, conn, state, alive,
                 timers, stopping, evloop, broken>>

PeerAnswersEcho ==
  /\ base = "up" /\ echoes > 0
  /\ echoes' = echoes - 1 /\ inbox' = Append(inbox, "echo_reply")
  /\ UNCHANGED <<reachable, flips, sent, connector, base, conn, state, alive,
                 timers, stopping, evloop, broken>>

-----------------------------------------------------------------------------
(* try_connect, on a thread of its own.                                     *)

(* Without a socket the thread returns at once, and nothing starts another. *)
MakeSocket ==
  /\ connector = "socket" /\ connector' \in {"connect", "failed"}
  /\ UNCHANGED <<reachable, flips, sent, inbox, echoes, base, conn, state,
                 alive, timers, stopping, evloop, broken>>

ConnectFails ==
  /\ connector = "connect" /\ ~reachable /\ connector' = "sleep"
  /\ UNCHANGED <<reachable, flips, sent, inbox, echoes, base, conn, state,
                 alive, timers, stopping, evloop, broken>>

Retry_GivesUp ==
  /\ connector = "sleep" /\ connector' = "done"
  /\ UNCHANGED <<reachable, flips, sent, inbox, echoes, base, conn, state,
                 alive, timers, stopping, evloop, broken>>

Retry ==
  /\ connector = "sleep" /\ connector' = "connect"
  /\ UNCHANGED <<reachable, flips, sent, inbox, echoes, base, conn, state,
                 alive, timers, stopping, evloop, broken>>

ConnectSucceeds ==
  /\ connector = "connect" /\ reachable /\ connector' = "new"
  /\ UNCHANGED <<reachable, flips, sent, inbox, echoes, base, conn, state,
                 alive, timers, stopping, evloop, broken>>

(* new BaseOFConnection works inside libevent, under the lock of the base.  *)
EnterLibevent ==
  /\ connector = "new" /\ connector' = "libevent"
  /\ UNCHANGED <<reachable, flips, sent, inbox, echoes, base, conn, state,
                 alive, timers, stopping, evloop, broken>>

(* Its EVENT_UP sends HELLO and makes the OFConnection.                     *)
ConnectionUp ==
  /\ connector = "libevent" /\ connector' = "done"
  /\ base' = "up" /\ conn' = TRUE /\ state' = "handshake" /\ alive' = TRUE
  /\ UNCHANGED <<reachable, flips, sent, inbox, echoes, timers, stopping,
                 evloop, broken>>

(* Cancelled, the thread may end at a cancellation point inside libevent,   *)
(* such as the write() that wakes the event loop, and takes the lock along. *)
DiesInLibevent ==
  /\ connector = "libevent" /\ stopping \in {"loop", "join"}
  /\ connector' = "lost"
  /\ UNCHANGED <<reachable, flips, sent, inbox, echoes, base, conn, state,
                 alive, timers, stopping, evloop, broken>>

BaseLocked == connector \in {"libevent", "lost"}

-----------------------------------------------------------------------------
(* The event loop.                                                          *)

(* base_message_callback, with the handshake and the liveness check on (the *)
(* defaults of OFServerSettings).  The test of a HELLO's version negates    *)
(* before it masks and is never true: every version passes.                 *)
HandleMessage_AnyEcho ==
  /\ evloop = "running" /\ base = "up" /\ inbox # <<>>
  /\ inbox' = Tail(inbox)
  /\ LET m == Head(inbox) IN
     /\ alive' = (alive \/ m \in {"echo_reply", "echo_request"})
     /\ IF m = "features_request"
        THEN state' = "running" /\ timers' = timers + 1
        ELSE UNCHANGED <<state, timers>>
  /\ UNCHANGED <<reachable, flips, sent, echoes, connector, base, conn,
                 stopping, evloop, broken>>

HandleMessage ==
  /\ evloop = "running" /\ base = "up" /\ inbox # <<>>
  /\ inbox' = Tail(inbox)
  /\ LET m == Head(inbox) IN
     /\ alive' = (alive \/ m = "echo_reply")
     /\ IF m = "features_request"
        THEN state' = "running" /\ timers' = timers + 1
        ELSE UNCHANGED <<state, timers>>
  /\ UNCHANGED <<reachable, flips, sent, echoes, connector, base, conn,
                 stopping, evloop, broken>>

(* send_echo, when one of the timers fires: a connection whose last echo is *)
(* unanswered is closed and reported dead.                                  *)
SendEcho ==
  /\ evloop = "running" /\ base = "up" /\ timers > 0
  /\ IF alive
     THEN alive' = FALSE /\ echoes' = echoes + 1 /\ UNCHANGED <<base, state>>
     ELSE base' = "closing" /\ state' = "down" /\ UNCHANGED <<alive, echoes>>
  /\ UNCHANGED <<reachable, flips, sent, inbox, connector, conn, timers,
                 stopping, evloop, broken>>

(* EVENT_DOWN: the hypervisor closed the connection; libfluid closes it.    *)
ConnectionDown ==
  /\ evloop = "running" /\ base = "up" /\ base' = "closing"
  /\ UNCHANGED <<reachable, flips, sent, inbox, echoes, connector, conn, state,
                 alive, timers, stopping, evloop, broken>>

(* EVENT_CLOSED: the BaseOFConnection is deleted; `conn` still points to an *)
(* OFConnection that points to it, and nothing connects again.              *)
ConnectionClosed ==
  /\ evloop = "running" /\ base = "closing"
  /\ base' = "freed" /\ timers' = 0 /\ inbox' = <<>> /\ echoes' = 0
  /\ UNCHANGED <<reachable, flips, sent, connector, conn, state, alive,
                 stopping, evloop, broken>>

-----------------------------------------------------------------------------
(* HVBenchNode::stop.                                                       *)

StopConn ==
  /\ stopping = "no" /\ stopping' = "cancel"
  /\ broken' = (conn /\ base = "freed")
  /\ IF conn /\ base = "up" THEN base' = "closing" /\ state' = "down"
                            ELSE UNCHANGED <<base, state>>
  /\ UNCHANGED <<reachable, flips, sent, inbox, echoes, connector, conn, alive,
                 timers, evloop>>

(* pthread_cancel takes effect at once in connect() or sleep(), and at the  *)
(* first of them when the socket is being made.                             *)
CancelConnector ==
  /\ stopping = "cancel" /\ ~broken /\ stopping' = "loop"
  /\ connector' = IF connector \in {"socket", "connect", "sleep"}
                  THEN "cancelled" ELSE connector
  /\ UNCHANGED <<reachable, flips, sent, inbox, echoes, base, conn, state,
                 alive, timers, evloop, broken>>

StopLoop_Forgotten ==
  /\ stopping = "loop" /\ ~BaseLocked /\ stopping' = "join"
  /\ UNCHANGED <<reachable, flips, sent, inbox, echoes, connector, base, conn,
                 state, alive, timers, evloop, broken>>

StopLoop ==
  /\ stopping = "loop" /\ ~BaseLocked /\ stopping' = "join" /\ evloop' = "told"
  /\ UNCHANGED <<reachable, flips, sent, inbox, echoes, connector, base, conn,
                 state, alive, timers, broken>>

LoopEnds ==
  /\ evloop = "told" /\ ~BaseLocked /\ evloop' = "ended"
  /\ UNCHANGED <<reachable, flips, sent, inbox, echoes, connector, base, conn,
                 state, alive, timers, stopping, broken>>

JoinLoop ==
  /\ stopping = "join" /\ evloop = "ended" /\ stopping' = "done"
  /\ UNCHANGED <<reachable, flips, sent, inbox, echoes, connector, base, conn,
                 state, alive, timers, evloop, broken>>

-----------------------------------------------------------------------------
Connector == MakeSocket \/ ConnectFails \/ Retry \/ ConnectSucceeds
             \/ EnterLibevent \/ ConnectionUp
EventLoop == HandleMessage \/ ConnectionClosed \/ LoopEnds
StopRest == CancelConnector \/ StopLoop \/ JoinLoop

NodeNext ==
  \/ Flip \/ PeerAnswersEcho \/ Connector \/ DiesInLibevent \/ EventLoop
  \/ SendEcho \/ ConnectionDown \/ StopConn \/ StopRest
  \/ \E m \in PeerKinds : PeerSends(m)

(* The three threads are scheduled; nobody is obliged to send, to close or  *)
(* to stop the node.                                                        *)
NodeFair ==
  WF_nodeVars(Connector) /\ WF_nodeVars(EventLoop) /\ WF_nodeVars(StopRest)

NodeSpec == NodeInit /\ [][NodeNext]_nodeVars /\ NodeFair

-----------------------------------------------------------------------------
(* Properties.                                                              *)

(* However many timers features requests have started, a connection has one *)
(* echo outstanding at most, and is only "not alive" (so that the next      *)
(* timer closes it) while one is: send_echo, base_message_callback.         *)
OneEchoOutstanding ==
  base = "up" =>
    echoes + Occurrences(inbox, {"echo_reply"}) = IF alive THEN 0 ELSE 1

(* A node that got its socket connects once its hypervisor stays reachable, *)
(* however often connect() had failed before: try_connect retries until it  *)
(* is cancelled.  Only socket() is not tried again.                         *)
Connects ==
  <>[]reachable =>
    <>(base # "none" \/ stopping # "no" \/ connector = "failed")

(* stop() comes to its end whatever the connecting thread and the event     *)
(* loop are doing, the constructor of the connection included; what can     *)
(* keep it is a connection deleted before, or the lock of the event_base    *)
(* that the cancelled thread has taken along.                               *)
NodeStops == stopping # "no" ~> (stopping = "done" \/ broken \/ connector = "lost")
=============================================================================

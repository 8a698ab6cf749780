------------------------------ MODULE HVBench ------------------------------
(* The threads of one hvbench instance, from the first event on its etcd    *)
(* directory to the end of HVBench::run:                                    *)
(*   main         waits for the shutdown, then stops tenants and nodes;     *)
(*   watch        handles changes of the instance (new tenant, new node,    *)
(*                shutdown), one at a time;                                 *)
(*   conf         handles changes of the tenants' configuration;            *)
(*   a tenant     sets up its controller and generator, waits for a switch  *)
(*                and sends requests until it is told to stop;              *)
(*   event loops  of a tenant's controller call connection_callback.        *)
(* What is sent and measured is in LatencyStats; insertions into the map of *)
(* tenants and look-ups by other threads are atomic here.                   *)
EXTENDS Integers, Sequences, FiniteSets

CONSTANTS
  MaxTenant,     \* bound: tenants, numbered in the order of the map's keys
  Nodes,         \* data plane nodes
  Loops,         \* event loops of a controller (n_workers)
  Scenarios      \* the operators and instances that are looked at

Tenants == 1 .. MaxTenant

(* A scenario has tenants, nodes and event loops, a bound on the changes of *)
(* the instance's directory, and an operator who, if patient, waits until   *)
(* the tenants send and adds each once.                                     *)
ASSUME HVBenchConstants ==
  /\ MaxTenant \in Nat
  /\ IsFiniteSet(Loops) /\ IsFiniteSet(Nodes) /\ "none" \notin Loops
  /\ Scenarios \subseteq [tenants : SUBSET Tenants, nodes : SUBSET Nodes,
                          loops : SUBSET Loops, events : Nat, patient : BOOLEAN]

Free == "free"   \* a mutex nobody holds
None == "none"   \* a null shared_ptr

VARIABLES
  \* etcd
  scenario,      \* the one of Scenarios that runs
  events,        \* changes of the instance's directory not handled yet
  announced,     \* how many changes there have been
  \* HVBench
  watch,         \* [pc, of]: where _onChange is and for which tenant
  main, cursor,  \* where run() is, and the tenant it is stopping
  wait_shutdown, \* who holds wait_shutdown_mt_
  shutdown_, tenants_, nodes_,
  \* tenants, and their controllers
  ten,           \* where each tenant's thread is
  generator,     \* tenants whose msg_generator_ is set
  server,        \* the OFServer: off, listening or stopped
  running, switch_up, conn,
  mut_switch_up, \* who holds it
  cb,            \* where each event loop is in connection_callback
  \* history
  crashed,       \* what ended the process
  before,        \* tenants_ when the shutdown was seen
  removed        \* tenants whose key was deleted

etcdVars == <<scenario, events, announced>>
benchVars == <<watch, main, cursor, wait_shutdown, shutdown_, tenants_, nodes_>>
tenantVars == <<ten, generator, server, running, switch_up, conn,
                mut_switch_up, cb>>
history == <<crashed, before, removed>>
vars == <<etcdVars, benchVars, tenantVars, history>>

IdleWatch == [pc |-> "idle", of |-> 0]

Init ==
  /\ scenario \in Scenarios /\ events = <<>> /\ announced = 0
  /\ watch = IdleWatch
  /\ main = "lock" /\ cursor = 0 /\ wait_shutdown = Free
  /\ shutdown_ = FALSE /\ tenants_ = {} /\ nodes_ = {}
  /\ ten = [t \in Tenants |-> "absent"]
  /\ generator = {}
  /\ server = [t \in Tenants |-> "off"]
  /\ running = [t \in Tenants |-> TRUE]
  /\ switch_up = [t \in Tenants |-> FALSE]
  /\ conn = [t \in Tenants |-> None]
  /\ mut_switch_up = [t \in Tenants |-> Free]
  /\ cb = [t \in Tenants |-> [l \in Loops |-> "none"]]
  /\ crashed = None /\ before = {} /\ removed = {}

(* The process ends with run(), or with a failed assertion or a null        *)
(* pointer in any of its threads.                                           *)
Alive == crashed = None /\ main # "quit"

-----------------------------------------------------------------------------
(* The operator, through etcd.                                              *)

Patient == scenario.patient
Event == [type : {"tenant", "delete"}, of : scenario.tenants]
           \cup [type : {"node"}, of : scenario.nodes]
           \cup [type : {"shutdown"}, of : {0}]

Settled == \A t \in Tenants : ten[t] \in {"absent", "send"}

Announce(e) ==
  /\ Alive /\ announced < scenario.events
  /\ Patient => /\ ~shutdown_ /\ \A i \in 1 .. Len(events) :
                                     events[i].type # "shutdown"
                /\ e.type \in {"shutdown", "delete"} =>
                     (events = <<>> /\ watch = IdleWatch /\ Settled)
                /\ e.type \in {"tenant", "node"} =>
                     \A i \in 1 .. Len(events) : events[i] # e
                /\ e.type = "tenant" => ten[e.of] = "absent"
                /\ e.type = "node" => e.of \notin nodes_
  /\ events' = Append(events, e) /\ announced' = announced + 1
  /\ UNCHANGED <<scenario, benchVars, tenantVars, history>>

-----------------------------------------------------------------------------
(* _onChange, on the watch thread.                                          *)

(* Tenant::start starts the thread before _onNewTenant stores the tenant.   *)
NewTenant ==
  /\ Alive /\ watch = IdleWatch /\ events # <<>> /\ Head(events).type = "tenant"
  /\ events' = Tail(events)
  /\ LET t == Head(events).of IN
     IF t \in tenants_
     THEN crashed' = "assert" /\ UNCHANGED <<watch, ten>>
     ELSE /\ watch' = [pc |-> "insert", of |-> t]
          /\ ten' = [ten EXCEPT ![t] = "setup"]
          /\ UNCHANGED crashed
  /\ UNCHANGED <<scenario, announced, main, cursor, wait_shutdown, shutdown_, tenants_,
                 nodes_, generator, server, running, switch_up, conn,
                 mut_switch_up, cb, before, removed>>

InsertTenant ==
  /\ Alive /\ watch.pc = "insert"
  /\ tenants_' = tenants_ \cup {watch.of}
  /\ watch' = IdleWatch
  /\ UNCHANGED <<etcdVars, main, cursor, wait_shutdown, shutdown_, nodes_,
                 tenantVars, history>>

NewNode ==
  /\ Alive /\ watch = IdleWatch /\ events # <<>> /\ Head(events).type = "node"
  /\ events' = Tail(events)
  /\ IF Head(events).of \in nodes_
     THEN crashed' = "assert" /\ UNCHANGED nodes_
     ELSE nodes_' = nodes_ \cup {Head(events).of} /\ UNCHANGED crashed
  /\ UNCHANGED <<scenario, announced, watch, main, cursor, wait_shutdown, shutdown_,
                 tenants_, tenantVars, before, removed>>

(* Anything but a SET is ignored: the tenant whose key is deleted stays.    *)
IgnoreOther ==
  /\ Alive /\ watch = IdleWatch /\ events # <<>> /\ Head(events).type = "delete"
  /\ events' = Tail(events)
  /\ removed' = removed \cup ({Head(events).of} \cap tenants_)
  /\ UNCHANGED <<scenario, announced, benchVars, tenantVars, crashed, before>>

(* The flag is set with the mutex held, which is then given back.           *)
Shutdown ==
  /\ Alive /\ watch = IdleWatch /\ events # <<>> /\ Head(events).type = "shutdown"
  /\ wait_shutdown = Free
  /\ events' = Tail(events)
  /\ shutdown_' = TRUE /\ watch' = [IdleWatch EXCEPT !.pc = "notify"]
  /\ before' = IF shutdown_ THEN before ELSE tenants_
  /\ UNCHANGED <<scenario, announced, main, cursor, wait_shutdown, tenants_, nodes_,
                 tenantVars, crashed, removed>>

NotifyShutdown ==
  /\ Alive /\ watch.pc = "notify"
  /\ watch' = IdleWatch
  /\ main' = IF main = "waiting" THEN "lock" ELSE main
  /\ UNCHANGED <<etcdVars, cursor, wait_shutdown, shutdown_, tenants_, nodes_,
                 tenantVars, history>>

(* _onChangeTenantConf, on the conf thread: a known tenant's generator gets *)
(* the change, an unknown tenant's change is dropped.                       *)
ChangeTenantConf(t) ==
  /\ Alive /\ t \in tenants_ /\ t \notin generator
  /\ Patient => ten[t] = "send"
  /\ crashed' = "null generator"
  /\ UNCHANGED <<etcdVars, benchVars, tenantVars, before, removed>>

-----------------------------------------------------------------------------
(* HVBench::run, on the main thread.                                        *)

MainLock ==
  /\ Alive /\ main = "lock" /\ wait_shutdown = Free
  /\ main' = "check" /\ wait_shutdown' = "main"
  /\ UNCHANGED <<etcdVars, watch, cursor, shutdown_, tenants_, nodes_,
                 tenantVars, history>>

MainCheck ==
  /\ Alive /\ main = "check"
  /\ main' = IF shutdown_ THEN "stop" ELSE "wait"
  /\ UNCHANGED <<etcdVars, watch, cursor, wait_shutdown, shutdown_, tenants_,
                 nodes_, tenantVars, history>>

MainWait ==
  /\ Alive /\ main = "wait"
  /\ main' = "waiting" /\ wait_shutdown' = Free
  /\ UNCHANGED <<etcdVars, watch, cursor, shutdown_, tenants_, nodes_,
                 tenantVars, history>>

(* The tenants are stopped in the order of the map, then the nodes.         *)
StopNext ==
  /\ Alive /\ main = "stop"
  /\ LET rest == {t \in tenants_ : t > cursor} IN
     IF rest = {}
     THEN main' = "quit" /\ nodes_' = {} /\ UNCHANGED cursor
     ELSE /\ cursor' = CHOOSE t \in rest : \A u \in rest : t =< u
          /\ main' = "signal" /\ UNCHANGED nodes_
  /\ UNCHANGED <<etcdVars, watch, wait_shutdown, shutdown_, tenants_,
                 tenantVars, history>>

Signal_JoinsFirst ==
  /\ Alive /\ main = "signal"
  /\ \A l \in Loops : cb[cursor][l] \in {"none", "served"}
  /\ IF ten[cursor] = "setup"
     THEN crashed' = "null controller" /\ UNCHANGED <<main, running, server>>
     ELSE /\ main' = "loops"
          /\ running' = [running EXCEPT ![cursor] = FALSE]
          /\ server' = [server EXCEPT ![cursor] = "stopped"]
          /\ UNCHANGED crashed
  /\ UNCHANGED <<etcdVars, watch, cursor, wait_shutdown, shutdown_, tenants_,
                 nodes_, ten, generator, switch_up, conn, mut_switch_up, cb,
                 before, removed>>

(* HVBenchController::stop: the controller must have been created.          *)
Signal ==
  /\ Alive /\ main = "signal"
  /\ IF ten[cursor] = "setup"
     THEN crashed' = "null controller" /\ UNCHANGED <<main, running, server>>
     ELSE /\ main' = "loops"
          /\ running' = [running EXCEPT ![cursor] = FALSE]
          /\ server' = [server EXCEPT ![cursor] = "stopped"]
          /\ UNCHANGED crashed
  /\ UNCHANGED <<etcdVars, watch, cursor, wait_shutdown, shutdown_, tenants_,
                 nodes_, ten, generator, switch_up, conn, mut_switch_up, cb,
                 before, removed>>

(* OFServer::stop joins the event loops, which finish their callbacks.      *)
JoinLoops ==
  /\ Alive /\ main = "loops"
  /\ \A l \in Loops : cb[cursor][l] \in {"none", "served"}
  /\ main' = "join"
  /\ UNCHANGED <<etcdVars, watch, cursor, wait_shutdown, shutdown_, tenants_,
                 nodes_, tenantVars, history>>

(* Tenant::stop returns when _run has.                                      *)
JoinThread ==
  /\ Alive /\ main = "join" /\ ten[cursor] = "done"
  /\ main' = "stop"
  /\ UNCHANGED <<etcdVars, watch, cursor, wait_shutdown, shutdown_, tenants_,
                 nodes_, tenantVars, history>>

-----------------------------------------------------------------------------
(* Tenant::_run and HVBenchController::run, on the tenant's thread.         *)

Moves(t, from, to) ==
  /\ Alive /\ ten[t] = from /\ ten' = [ten EXCEPT ![t] = to]
  /\ UNCHANGED <<etcdVars, benchVars>>

CreateController(t) ==
  /\ Moves(t, "setup", "created")
  /\ UNCHANGED <<generator, server, running, switch_up, conn, mut_switch_up,
                 cb, history>>

StartController(t) ==
  /\ Moves(t, "created", "configure")
  /\ server' = [server EXCEPT ![t] = "listening"]
  /\ UNCHANGED <<generator, running, switch_up, conn, mut_switch_up, cb,
                 history>>

CreateGenerator_NotStored(t) ==
  /\ Moves(t, "configure", "lock")
  /\ UNCHANGED <<generator, server, running, switch_up, conn, mut_switch_up,
                 cb, history>>

CreateGenerator(t) ==
  /\ Moves(t, "configure", "lock")
  /\ generator' = generator \cup {t}
  /\ UNCHANGED <<server, running, switch_up, conn, mut_switch_up, cb, history>>

LockSwitchUp(t) ==
  /\ mut_switch_up[t] = Free
  /\ Moves(t, "lock", "check")
  /\ mut_switch_up' = [mut_switch_up EXCEPT ![t] = "run"]
  /\ UNCHANGED <<generator, server, running, switch_up, conn, cb, history>>

CheckSwitchUp(t) ==
  /\ Moves(t, "check", IF switch_up[t] THEN "settle" ELSE "wait")
  /\ UNCHANGED <<generator, server, running, switch_up, conn, mut_switch_up,
                 cb, history>>

WaitSwitchUp(t) ==
  /\ Moves(t, "wait", "waiting")
  /\ mut_switch_up' = [mut_switch_up EXCEPT ![t] = Free]
  /\ UNCHANGED <<generator, server, running, switch_up, conn, cb, history>>

SpuriousWakeup(t) ==
  /\ Moves(t, "waiting", "lock")
  /\ UNCHANGED <<generator, server, running, switch_up, conn, mut_switch_up,
                 cb, history>>

(* After a second of sleep, which orders nothing, setupSwitch uses the      *)
(* connection, stored by then or not.                                       *)
SetupSwitch(t) ==
  /\ Moves(t, "settle", "send")
  /\ crashed' = IF conn[t] = None THEN "connection" ELSE crashed
  /\ UNCHANGED <<generator, server, running, switch_up, conn, mut_switch_up,
                 cb, before, removed>>

(* run() keeps mut_switch_up until it returns.                              *)
Finish(t) ==
  /\ ~running[t]
  /\ Moves(t, "send", "done")
  /\ mut_switch_up' = [mut_switch_up EXCEPT ![t] = Free]
  /\ UNCHANGED <<generator, server, running, switch_up, conn, cb, history>>

-----------------------------------------------------------------------------
(* connection_callback(EVENT_ESTABLISHED), on an event loop.                *)

Callback(t, l, from, to) ==
  /\ Alive /\ cb[t][l] = from
  /\ cb' = [cb EXCEPT ![t][l] = to]
  /\ UNCHANGED <<etcdVars, benchVars, generator, server, running, history>>

Establish_Always(t, l) ==
  /\ l \in scenario.loops /\ server[t] = "listening"
  /\ Callback(t, l, "none", "up")
  /\ UNCHANGED <<ten, switch_up, conn, mut_switch_up>>

(* A switch connects; the flag is read without the mutex.                   *)
Establish(t, l) ==
  /\ l \in scenario.loops /\ server[t] = "listening"
  /\ Callback(t, l, "none", IF switch_up[t] THEN "served" ELSE "up")
  /\ UNCHANGED <<ten, switch_up, conn, mut_switch_up>>

RaiseFlag(t, l) ==
  /\ Callback(t, l, "up", "conn")
  /\ switch_up' = [switch_up EXCEPT ![t] = TRUE]
  /\ UNCHANGED <<ten, conn, mut_switch_up>>

AdoptConn(t, l) ==
  /\ Callback(t, l, "conn", "mutex")
  /\ conn' = [conn EXCEPT ![t] = l]
  /\ UNCHANGED <<ten, switch_up, mut_switch_up>>

(* No mutex guards `conn`: run() uses it, or another callback stores it, at  *)
(* the same time, and what it points to may be gone.                        *)
Races(t, l) == /\ cb[t][l] = "conn"
               /\ ten[t] = "send" \/ \E k \in Loops \ {l} : cb[t][k] = "conn"

AdoptConnRaces(t, l) ==
  /\ Alive /\ Races(t, l)
  /\ crashed' = "connection"
  /\ UNCHANGED <<etcdVars, benchVars, tenantVars, before, removed>>

LockedFlag_NoLock(t, l) ==
  /\ Callback(t, l, "mutex", "notify")
  /\ switch_up' = [switch_up EXCEPT ![t] = TRUE]
  /\ UNCHANGED <<ten, conn, mut_switch_up>>

LockedFlag(t, l) ==
  /\ mut_switch_up[t] = Free
  /\ Callback(t, l, "mutex", "notify")
  /\ switch_up' = [switch_up EXCEPT ![t] = TRUE]
  /\ UNCHANGED <<ten, conn, mut_switch_up>>

NotifySwitchUp(t, l) ==
  /\ Callback(t, l, "notify", "served")
  /\ ten' = IF ten[t] = "waiting" THEN [ten EXCEPT ![t] = "lock"] ELSE ten
  /\ UNCHANGED <<switch_up, conn, mut_switch_up>>

-----------------------------------------------------------------------------
Operator == \E e \in Event : Announce(e)
Watch == NewTenant \/ InsertTenant \/ NewNode \/ IgnoreOther \/ Shutdown
         \/ NotifyShutdown
Main == MainLock \/ MainCheck \/ MainWait \/ StopNext \/ Signal \/ JoinLoops
        \/ JoinThread
Run(t) == CreateController(t) \/ StartController(t) \/ CreateGenerator(t)
          \/ LockSwitchUp(t) \/ CheckSwitchUp(t) \/ WaitSwitchUp(t)
          \/ SetupSwitch(t) \/ Finish(t)
Loop(t, l) == RaiseFlag(t, l) \/ AdoptConn(t, l) \/ LockedFlag(t, l)
              \/ NotifySwitchUp(t, l)

Next ==
  \/ Operator \/ Watch \/ Main
  \/ \E t \in Tenants :
       \/ Run(t) \/ SpuriousWakeup(t) \/ ChangeTenantConf(t)
       \/ \E l \in Loops : Establish(t, l) \/ Loop(t, l) \/ AdoptConnRaces(t, l)

Spec == Init /\ [][Next]_vars

(* Every thread is scheduled, and gets a mutex that is free again and again.*)
(* The watch and main threads and the callbacks take finitely many steps,   *)
(* so that fairness of all of them together is fairness of each.            *)
FairSpec ==
  /\ Spec
  /\ SF_vars(Watch \/ Main \/ \E t \in Tenants, l \in Loops : Loop(t, l))
  /\ \A t \in Tenants : SF_vars(Run(t))

-----------------------------------------------------------------------------
(* Properties.                                                              *)

(* Once the callbacks that found no switch are through, the tenant has a    *)
(* connection and keeps it for good: a switch that connects late or twice,  *)
(* while the tenant starts, sends or stops, never gets to be adopted.       *)
Through(t) == switch_up[t] /\ \A l \in Loops : cb[t][l] \notin {"up", "conn"}

ConnStable ==
  [][\A t \in Tenants : Through(t) =>
       conn[t] # None /\ Through(t)' /\ conn'[t] = conn[t]]_vars

(* A tenant that waits for its switch does not miss it: connection_callback *)
(* sets the flag again with the mutex before it notifies.                   *)
SwitchNoticed ==
  \A t \in Tenants :
    (switch_up[t] /\ ten[t] = "waiting") ~> (ten[t] # "waiting" \/ ~Alive)

(* Once all tenants send, a shutdown ends the instance: whatever their      *)
(* threads and callbacks are doing, nobody waits for anybody in a circle    *)
(* (unless a callback that still stores the connection crashes it).         *)
Quits == (shutdown_ /\ Patient) ~> (main = "quit" \/ crashed = "connection")

(* An operator who changes or stops tenants only once they send does not    *)
(* crash the instance by it: their controllers and generators exist by      *)
(* then.  What is left is the unguarded connection: whoever the operator    *)
(* is, the process ends on it only while a callback that found no switch    *)
(* has yet to store it, and run() or another callback is at it.  And when   *)
(* run() of HVBench returns, every tenant that had been added before the    *)
(* shutdown has finished its own run().                                     *)
EndsCleanly ==
  /\ Patient => crashed \in {None, "connection"}
  /\ crashed = "connection" => \E t \in Tenants, l \in Loops : Races(t, l)
  /\ main = "quit" => \A t \in before : ten[t] = "done"

(* README.md, 3: hvbench "collects run-time statistics such as the response *)
(* delay": the event loop of the adopted connection gets to its replies.    *)
RepliesHandled ==
  \A t \in Tenants, l \in Loops :
    (conn[t] = l /\ cb[t][l] = "mutex") ~> (cb[t][l] # "mutex")

=============================================================================

---------------------------- MODULE HVBenchProofs ----------------------------
(***************************************************************************)
(* The connection a tenant sends on stays, and the instance ends cleanly,  *)
(* for every number of tenants, nodes and event loops and any scenarios.   *)
(***************************************************************************)
EXTENDS HVBench, WellFoundedInduction, TLAPS

-----------------------------------------------------------------------------
(* The states of the variables.                                            *)

TenantPlaces == {"absent", "setup", "created", "configure", "lock", "check",
                 "wait", "waiting", "settle", "send", "done"}
CallbackPlaces == {"none", "up", "conn", "mutex", "notify", "served"}
MainPlaces == {"lock", "check", "wait", "waiting", "stop", "signal", "loops",
               "join", "quit"}
AnyEvent == [type : {"tenant", "delete"}, of : Tenants]
              \cup [type : {"node"}, of : Nodes] \cup [type : {"shutdown"}, of : {0}]

Types ==
  /\ scenario \in Scenarios
  /\ events \in Seq(AnyEvent)
  /\ watch \in [pc : {"idle", "insert", "notify"}, of : Tenants \cup {0}]
  /\ watch.pc = "insert" => watch.of \in Tenants
  /\ main \in MainPlaces /\ cursor \in Nat
  /\ main \in {"signal", "loops", "join"} => cursor \in Tenants
  /\ shutdown_ \in BOOLEAN
  /\ tenants_ \subseteq Tenants
  /\ ten \in [Tenants -> TenantPlaces]
  /\ running \in [Tenants -> BOOLEAN]
  /\ server \in [Tenants -> {"off", "listening", "stopped"}]
  /\ switch_up \in [Tenants -> BOOLEAN]
  /\ conn \in [Tenants -> Loops \cup {None}]
  /\ cb \in [Tenants -> [Loops -> CallbackPlaces]]

(* The flag of a tenant is up only if a connection is stored or about to   *)
(* be, and for good once the tenant has seen it.                           *)
Adopted(t) ==
  /\ ten[t] \in {"settle", "send", "done"} => switch_up[t]
  /\ switch_up[t] => conn[t] # None \/ \E l \in Loops : cb[t][l] = "conn"
  /\ \A l \in Loops : cb[t][l] \in {"mutex", "notify"} => conn[t] # None

AdoptInv == \A t \in Tenants : Adopted(t)

(* The process ends on a connection only while one is being stored.        *)
RaceInv == crashed = "connection" => \E t \in Tenants, l \in Loops : Races(t, l)

(* The tenants the shutdown found are stopped in their order.              *)
Stopping == main \in {"stop", "signal", "loops", "join", "quit"}
Stopped(t) == t < cursor \/ main = "quit" \/ (main = "stop" /\ t = cursor)

OrderInv ==
  /\ before \subseteq tenants_
  /\ before # {} => shutdown_
  /\ IF Stopping THEN shutdown_ ELSE cursor = 0
  /\ \A t \in before : Stopped(t) => ten[t] = "done"

(* What a patient operator has announced, and what follows from his        *)
(* patience when he announces the shutdown.                                *)
Queued == 1 .. Len(events)
Closing == shutdown_ \/ \E i \in Queued : events[i].type = "shutdown"

Fresh ==
  /\ \A i \in Queued : events[i].type = "tenant" => ten[events[i].of] = "absent"
  /\ \A i \in Queued : events[i].type = "node" => events[i].of \notin nodes_
  /\ \A i, j \in Queued : events[i].type \in {"tenant", "node"} /\ i # j =>
       events[i] # events[j]
  /\ \A t \in tenants_ : ten[t] # "absent"
  /\ watch.pc = "insert" => ten[watch.of] # "absent"

Calm ==
  Closing =>
    /\ \A t \in Tenants : ten[t] \in {"absent", "send", "done"}
    /\ watch.pc # "insert"
    /\ \A i \in Queued : events[i].type = "shutdown"

Configured ==
  \A t \in Tenants :
    ten[t] \in {"lock", "check", "wait", "waiting", "settle", "send", "done"} =>
      t \in generator

CleanInv == Patient => Fresh /\ Calm /\ Configured /\ crashed \in {None, "connection"}

-----------------------------------------------------------------------------
LEMMA SmallestOf ==
  ASSUME NEW S \in SUBSET Nat, S # {}
  PROVE  \E t \in S : \A u \in S : t =< u
<1>1. PICK R : R = {ss \in Nat \X Nat : ss[1] < ss[2]}
  OBVIOUS
<1>2. IsWellFoundedOn(R, Nat)
  BY <1>1, NatLessThanWellFounded DEF OpToRel
<1>3. PICK t \in S : \A u \in S : ~(<<u, t>> \in R)
  BY <1>2, WFMin
<1>4. ASSUME NEW u \in S PROVE t =< u
  <2>1. <<u, t>> \in Nat \X Nat /\ <<u, t>>[1] = u /\ <<u, t>>[2] = t
    OBVIOUS
  <2>2. ~(u < t)
    BY <1>1, <1>3, <2>1
  <2> QED
    BY <2>2
<1> QED
  BY <1>4

(* The tenant that is stopped next is the first of those left.             *)
LEMMA NextTenant ==
  ASSUME Types, StopNext, {t \in tenants_ : t > cursor} # {}
  PROVE  /\ cursor' \in tenants_ /\ cursor' > cursor /\ main' = "signal" /\ nodes_' = nodes_
         /\ \A u \in tenants_ : u > cursor => cursor' =< u
<1> DEFINE rest == {t \in tenants_ : t > cursor}
<1>1. rest \in SUBSET Nat
  <2>1. Tenants \subseteq Nat
    BY DEF Tenants
  <2> QED
    BY <2>1 DEF Types
<1>2. \E t \in rest : \A u \in rest : t =< u
  BY <1>1, SmallestOf
<1>3. cursor' = CHOOSE t \in rest : \A u \in rest : t =< u
  BY DEF StopNext
<1>4. cursor' \in rest /\ \A u \in rest : cursor' =< u
  <2> HIDE DEF rest
  <2> QED
    BY <1>2, <1>3
<1> QED
  BY <1>4 DEF StopNext

LEMMA TailOf ==
  ASSUME NEW S, NEW s \in Seq(S), s # <<>>
  PROVE  /\ Tail(s) \in Seq(S) /\ Len(Tail(s)) = Len(s) - 1
         /\ 1 \in 1 .. Len(s) /\ Head(s) = s[1]
         /\ \A i \in 1 .. Len(Tail(s)) : i + 1 \in 1 .. Len(s) /\ Tail(s)[i] = s[i + 1]
  OBVIOUS

LEMMA AppendOf ==
  ASSUME NEW S, NEW s \in Seq(S), NEW e \in S
  PROVE  /\ Append(s, e) \in Seq(S) /\ Len(Append(s, e)) = Len(s) + 1
         /\ \A i \in 1 .. Len(s) : Append(s, e)[i] = s[i]
         /\ Append(s, e)[Len(s) + 1] = e
  OBVIOUS

(* Events of a scenario are events.                                        *)
LEMMA EventKinds == ASSUME scenario \in Scenarios, NEW e \in Event PROVE e \in AnyEvent
<1>1. scenario.tenants \subseteq Tenants /\ scenario.nodes \subseteq Nodes
  BY HVBenchConstants
<1>2. CASE e \in [type : {"tenant", "delete"}, of : scenario.tenants]
  BY <1>1, <1>2 DEF AnyEvent
<1>3. CASE e \in [type : {"node"}, of : scenario.nodes]
  BY <1>1, <1>3 DEF AnyEvent
<1>4. CASE e \in [type : {"shutdown"}, of : {0}]
  BY <1>4 DEF AnyEvent
<1> QED
  BY <1>2, <1>3, <1>4 DEF Event

(* The process that ends on a connection changes nothing else.             *)
LEMMA RaceStep ==
  ASSUME NEW t \in Tenants, NEW l \in Loops, AdoptConnRaces(t, l)
  PROVE  UNCHANGED <<etcdVars, benchVars, tenantVars, before, removed>>
  BY DEF AdoptConnRaces

-----------------------------------------------------------------------------
(* The variables keep their types.                                         *)
LEMMA TypesInit == Init => Types
<1> SUFFICES ASSUME Init PROVE Types
  OBVIOUS
<1>1. /\ scenario \in Scenarios /\ events \in Seq(AnyEvent)
      /\ watch \in [pc : {"idle", "insert", "notify"}, of : Tenants \cup {0}] /\ watch.pc = "idle"
  BY DEF Init, IdleWatch
<1>2. /\ ten \in [Tenants -> TenantPlaces] /\ running \in [Tenants -> BOOLEAN]
      /\ server \in [Tenants -> {"off", "listening", "stopped"}]
      /\ switch_up \in [Tenants -> BOOLEAN] /\ conn \in [Tenants -> Loops \cup {None}]
  BY DEF Init, TenantPlaces
<1>3. cb \in [Tenants -> [Loops -> CallbackPlaces]]
  BY DEF Init, CallbackPlaces
<1>4. /\ main \in MainPlaces /\ main = "lock" /\ cursor \in Nat
      /\ shutdown_ \in BOOLEAN /\ tenants_ \subseteq Tenants
  BY DEF Init, MainPlaces
<1> QED
  BY <1>1, <1>2, <1>3, <1>4 DEF Types

(* What the queue holds are events, whatever is added or taken.            *)
LEMMA HeadIsEvent ==
  ASSUME Types, events # <<>> PROVE Tail(events) \in Seq(AnyEvent) /\ Head(events) \in AnyEvent
  BY DEF Types

LEMMA TypesKept == ASSUME Types, [Next]_vars PROVE Types'
<1>1. CASE UNCHANGED vars
  BY <1>1 DEF Types, vars, etcdVars, benchVars, tenantVars, history
<1>2. ASSUME NEW e \in Event, Announce(e) PROVE Types'
  BY <1>2, EventKinds DEF Types, Announce, benchVars, tenantVars, history
<1>3. CASE NewTenant
  BY <1>3, HeadIsEvent DEF Types, NewTenant, AnyEvent, IdleWatch, TenantPlaces
<1>4. CASE InsertTenant
  BY <1>4 DEF Types, InsertTenant, IdleWatch, etcdVars, tenantVars, history
<1>5. CASE NewNode
  BY <1>5, HeadIsEvent DEF Types, NewNode, tenantVars
<1>6. CASE IgnoreOther
  BY <1>6, HeadIsEvent DEF Types, IgnoreOther, benchVars, tenantVars
<1>7. CASE Shutdown
  BY <1>7, HeadIsEvent DEF Types, Shutdown, IdleWatch, tenantVars
<1>8. CASE NotifyShutdown
  BY <1>8 DEF Types, NotifyShutdown, IdleWatch, MainPlaces, etcdVars, benchVars, tenantVars, history
<1>9. CASE MainLock \/ MainCheck \/ MainWait \/ JoinLoops \/ JoinThread
  BY <1>9 DEF Types, MainLock, MainCheck, MainWait, JoinLoops, JoinThread, MainPlaces, etcdVars,
       benchVars, tenantVars, history
<1>10. CASE StopNext
  <2>1. CASE {t \in tenants_ : t > cursor} = {}
    BY <1>10, <2>1 DEF Types, StopNext, MainPlaces, etcdVars, tenantVars, history
  <2>2. CASE {t \in tenants_ : t > cursor} # {}
    <3>1. cursor' \in tenants_ /\ main' = "signal"
      BY <1>10, <2>2, NextTenant
    <3>2. cursor' \in Tenants /\ cursor' \in Nat /\ main' = "signal"
      BY <3>1 DEF Types, Tenants
    <3> QED
      BY <1>10, <3>2 DEF Types, StopNext, MainPlaces, etcdVars, tenantVars, history
  <2> QED
    BY <2>1, <2>2
<1>11. CASE Signal
  BY <1>11 DEF Types, Signal, MainPlaces, etcdVars, benchVars, tenantVars, history
<1>12. ASSUME NEW t \in Tenants, Run(t) \/ SpuriousWakeup(t) PROVE Types'
  BY <1>12 DEF Types, Run, CreateController, StartController, CreateGenerator, LockSwitchUp, CheckSwitchUp,
       WaitSwitchUp, SetupSwitch, Finish, SpuriousWakeup, Moves, TenantPlaces, etcdVars, benchVars,
       tenantVars, history
<1>13. ASSUME NEW t \in Tenants, ChangeTenantConf(t) PROVE Types'
  BY <1>13 DEF Types, ChangeTenantConf, etcdVars, benchVars, tenantVars, history
<1>14. ASSUME NEW t \in Tenants, NEW l \in Loops, Establish(t, l) \/ Loop(t, l) PROVE Types'
  <2>1. \E from, to \in CallbackPlaces : Callback(t, l, from, to)
    <3>1. CASE Establish(t, l)
      <4>1. Callback(t, l, "none", "served") \/ Callback(t, l, "none", "up")
        BY <3>1 DEF Establish
      <4> QED
        BY <4>1 DEF CallbackPlaces
    <3>2. CASE RaiseFlag(t, l)
      BY <3>2 DEF RaiseFlag, CallbackPlaces
    <3>3. CASE AdoptConn(t, l)
      BY <3>3 DEF AdoptConn, CallbackPlaces
    <3>4. CASE LockedFlag(t, l)
      BY <3>4 DEF LockedFlag, CallbackPlaces
    <3>5. CASE NotifySwitchUp(t, l)
      BY <3>5 DEF NotifySwitchUp, CallbackPlaces
    <3> QED
      BY <1>14, <3>1, <3>2, <3>3, <3>4, <3>5 DEF Loop
  <2>2. PICK from \in CallbackPlaces, to \in CallbackPlaces : Callback(t, l, from, to)
    BY <2>1
  <2>3. cb' \in [Tenants -> [Loops -> CallbackPlaces]]
    BY <2>2 DEF Types, Callback
  <2>4. /\ ten' \in [Tenants -> TenantPlaces] /\ switch_up' \in [Tenants -> BOOLEAN]
        /\ conn' \in [Tenants -> Loops \cup {None}]
    <3>1. CASE Establish(t, l) \/ RaiseFlag(t, l)
      BY <3>1 DEF Types, Establish, RaiseFlag
    <3>2. CASE AdoptConn(t, l)
      BY <3>2 DEF Types, AdoptConn
    <3>4. CASE LockedFlag(t, l)
      BY <3>4 DEF Types, LockedFlag
    <3>3. CASE NotifySwitchUp(t, l)
      <4>1. ten' = [ten EXCEPT ![t] = "lock"] \/ ten' = ten
        BY <3>3 DEF NotifySwitchUp
      <4>2. switch_up' = switch_up /\ conn' = conn
        BY <3>3 DEF NotifySwitchUp
      <4>3. "lock" \in TenantPlaces
        BY DEF TenantPlaces
      <4> QED
        BY <4>1, <4>2, <4>3, SMTT(20) DEF Types
    <3> QED
      BY <1>14, <3>1, <3>2, <3>3, <3>4 DEF Loop
  <2> QED
    BY <2>2, <2>3, <2>4 DEF Types, Callback, etcdVars, benchVars, history
<1>15. CASE \E t \in Tenants, l \in Loops : AdoptConnRaces(t, l)
  BY <1>15, RaceStep DEF Types, etcdVars, benchVars, tenantVars
<1> QED
  BY <1>1, <1>2, <1>3, <1>4, <1>5, <1>6, <1>7, <1>8, <1>9, <1>10, <1>11, <1>12, <1>13,
     <1>14, <1>15 DEF Next, Operator, Watch, Main

-----------------------------------------------------------------------------
(* Nothing but the connection callbacks and its own thread touches what a  *)
(* tenant has adopted.                                                     *)
LEMMA AdoptInit == Types /\ Init => AdoptInv
  BY DEF Types, Init, AdoptInv, Adopted

LEMMA AdoptSame ==
  ASSUME AdoptInv, UNCHANGED <<switch_up, conn, cb>>,
         \A t \in Tenants : ten'[t] \in {"settle", "send", "done"} =>
           \/ ten'[t] = ten[t]
           \/ ten[t] = "send" /\ ten'[t] = "done"
  PROVE  AdoptInv'
  BY DEF AdoptInv, Adopted

LEMMA AdoptRun ==
  ASSUME Types, AdoptInv, NEW t \in Tenants, Run(t) \/ SpuriousWakeup(t)
  PROVE  AdoptInv'
<1>1. CASE CreateController(t) \/ StartController(t) \/ CreateGenerator(t) \/ LockSwitchUp(t)
           \/ WaitSwitchUp(t) \/ SpuriousWakeup(t) \/ Finish(t)
  <2>1. UNCHANGED <<switch_up, conn, cb>>
    BY <1>1 DEF CreateController, StartController, CreateGenerator, LockSwitchUp, WaitSwitchUp,
         SpuriousWakeup, Finish
  <2>2. \A u \in Tenants : ten'[u] \in {"settle", "send", "done"} =>
           \/ ten'[u] = ten[u]
           \/ ten[u] = "send" /\ ten'[u] = "done"
    BY <1>1 DEF Types, Moves, CreateController, StartController, CreateGenerator, LockSwitchUp,
         WaitSwitchUp, SpuriousWakeup, Finish
  <2> QED
    BY <2>1, <2>2, AdoptSame
<1>2. CASE CheckSwitchUp(t)
  BY <1>2 DEF Types, Moves, CheckSwitchUp, AdoptInv, Adopted
<1>3. CASE SetupSwitch(t)
  <2>1. /\ UNCHANGED <<switch_up, conn, cb>> /\ ten[t] = "settle"
        /\ ten' = [ten EXCEPT ![t] = "send"]
    BY <1>3 DEF SetupSwitch, Moves
  <2> QED
    BY <2>1 DEF Types, AdoptInv, Adopted
<1> QED
  BY <1>1, <1>2, <1>3 DEF Run

(* A callback of one tenant leaves the others alone.                       *)
LEMMA AdoptCallback ==
  ASSUME Types, AdoptInv, NEW t \in Tenants, NEW l \in Loops, Establish(t, l) \/ Loop(t, l)
  PROVE  AdoptInv'
<1>1. CASE Establish(t, l)
  <2>1. PICK to \in {"served", "up"} : cb' = [cb EXCEPT ![t][l] = to] /\ (to = "up" => ~switch_up[t])
    BY <1>1 DEF Establish, Callback
  <2>2. UNCHANGED <<switch_up, conn, ten>> /\ cb[t][l] = "none"
    BY <1>1 DEF Establish, Callback
  <2> QED
    BY <2>1, <2>2 DEF Types, AdoptInv, Adopted
<1>2. CASE RaiseFlag(t, l)
  <2>1. /\ cb[t][l] = "up" /\ cb' = [cb EXCEPT ![t][l] = "conn"]
        /\ switch_up' = [switch_up EXCEPT ![t] = TRUE] /\ UNCHANGED <<ten, conn>>
    BY <1>2 DEF RaiseFlag, Callback
  <2> QED
    BY <2>1 DEF Types, AdoptInv, Adopted
<1>3. CASE AdoptConn(t, l)
  <2>1. /\ cb[t][l] = "conn" /\ cb' = [cb EXCEPT ![t][l] = "mutex"]
        /\ conn' = [conn EXCEPT ![t] = l] /\ UNCHANGED <<ten, switch_up>>
    BY <1>3 DEF AdoptConn, Callback
  <2>2. l # None
    BY HVBenchConstants DEF None
  <2> QED
    BY <2>1, <2>2 DEF Types, AdoptInv, Adopted
<1>4. CASE LockedFlag(t, l)
  <2>1. /\ cb[t][l] = "mutex" /\ cb' = [cb EXCEPT ![t][l] = "notify"]
        /\ switch_up' = [switch_up EXCEPT ![t] = TRUE] /\ UNCHANGED <<ten, conn>>
    BY <1>4 DEF LockedFlag, Callback
  <2> QED
    BY <2>1 DEF Types, AdoptInv, Adopted
<1>5. CASE NotifySwitchUp(t, l)
  <2>1. /\ cb[t][l] = "notify" /\ cb' = [cb EXCEPT ![t][l] = "served"]
        /\ ten' = IF ten[t] = "waiting" THEN [ten EXCEPT ![t] = "lock"] ELSE ten
        /\ UNCHANGED <<switch_up, conn>>
    BY <1>5 DEF NotifySwitchUp, Callback
  <2> QED
    BY <2>1 DEF Types, AdoptInv, Adopted
<1> QED
  BY <1>1, <1>2, <1>3, <1>4, <1>5 DEF Loop

LEMMA AdoptKept == ASSUME Types, AdoptInv, [Next]_vars PROVE AdoptInv'
<1>1. CASE UNCHANGED vars
  BY <1>1, AdoptSame DEF vars, tenantVars
<1>2. CASE Operator \/ Watch \/ Main \/ \E t \in Tenants : ChangeTenantConf(t)
  <2>1. UNCHANGED <<switch_up, conn, cb>>
    BY <1>2 DEF Operator, Announce, Watch, NewTenant, InsertTenant, NewNode, IgnoreOther, Shutdown,
         NotifyShutdown, Main, MainLock, MainCheck, MainWait, StopNext, Signal, JoinLoops, JoinThread,
         ChangeTenantConf, tenantVars
  <2>2. ten' = ten \/ \E t \in Tenants : ten' = [ten EXCEPT ![t] = "setup"]
    <3>1. CASE NewTenant
      <4>1. ten' = ten \/ ten' = [ten EXCEPT ![Head(events).of] = "setup"]
        BY <3>1 DEF NewTenant
      <4>2. Head(events).type = "tenant" /\ Head(events) \in AnyEvent
        BY <3>1, HeadIsEvent DEF NewTenant
      <4>3. Head(events).of \in Tenants
        BY <4>2 DEF AnyEvent
      <4> QED
        BY <4>1, <4>3
    <3> QED
      BY <1>2, <3>1 DEF Operator, Announce, Watch, InsertTenant, NewNode, IgnoreOther, Shutdown,
         NotifyShutdown, Main, MainLock, MainCheck, MainWait, StopNext, Signal, JoinLoops, JoinThread,
         ChangeTenantConf, tenantVars
  <2>3. \A t \in Tenants : ten'[t] \in {"settle", "send", "done"} => ten'[t] = ten[t]
    BY <2>2 DEF Types
  <2> QED
    BY <2>1, <2>3, AdoptSame
<1>3. CASE \E t \in Tenants : Run(t) \/ SpuriousWakeup(t)
  BY <1>3, AdoptRun
<1>4. CASE \E t \in Tenants, l \in Loops : Establish(t, l) \/ Loop(t, l)
  BY <1>4, AdoptCallback
<1>5. CASE \E t \in Tenants, l \in Loops : AdoptConnRaces(t, l)
  BY <1>5, RaceStep, AdoptSame DEF tenantVars
<1> QED
  BY <1>1, <1>2, <1>3, <1>4, <1>5 DEF Next

-----------------------------------------------------------------------------
(* A tenant is done for good once it has been added.                       *)
LEMMA DoneStays ==
  ASSUME Types, [Next]_vars, NEW t \in tenants_, ten[t] = "done" PROVE ten'[t] = "done"
<1>0. t \in Tenants
  BY DEF Types
<1>1. CASE UNCHANGED vars
  BY <1>1 DEF vars, tenantVars
<1>2. CASE Operator \/ Watch \/ Main \/ \E u \in Tenants : ChangeTenantConf(u)
  <2>1. ten' = ten \/ \E u : u \notin tenants_ /\ ten' = [ten EXCEPT ![u] = "setup"]
    <3>1. CASE NewTenant
      BY <3>1 DEF NewTenant
    <3>2. ASSUME Operator \/ InsertTenant \/ NewNode \/ IgnoreOther \/ Shutdown \/ NotifyShutdown
          PROVE  ten' = ten
      <4>1. ASSUME Operator PROVE ten' = ten
        BY <4>1 DEF Operator, Announce, tenantVars
      <4>2. ASSUME InsertTenant \/ NewNode \/ IgnoreOther PROVE ten' = ten
        BY <4>2 DEF InsertTenant, NewNode, IgnoreOther, tenantVars
      <4>3. ASSUME Shutdown \/ NotifyShutdown PROVE ten' = ten
        BY <4>3 DEF Shutdown, NotifyShutdown, tenantVars
      <4> QED
        BY <3>2, <4>1, <4>2, <4>3
    <3>3. ASSUME Main \/ \E u \in Tenants : ChangeTenantConf(u) PROVE ten' = ten
      <4>1. ASSUME MainLock \/ MainCheck \/ MainWait \/ JoinLoops \/ JoinThread PROVE ten' = ten
        BY <4>1 DEF MainLock, MainCheck, MainWait, JoinLoops, JoinThread, tenantVars
      <4>2. ASSUME StopNext \/ Signal PROVE ten' = ten
        BY <4>2 DEF StopNext, Signal, tenantVars
      <4>3. ASSUME NEW u \in Tenants, ChangeTenantConf(u) PROVE ten' = ten
        BY <4>3 DEF ChangeTenantConf, tenantVars
      <4> QED
        BY <3>3, <4>1, <4>2, <4>3 DEF Main
    <3> QED
      <4>1. CASE Watch
        BY <3>1, <3>2, <4>1 DEF Watch
      <4> QED
        BY <1>2, <3>2, <3>3, <4>1
  <2> QED
    BY <1>0, <2>1 DEF Types
<1>3. ASSUME NEW u \in Tenants, Run(u) \/ SpuriousWakeup(u) PROVE ten'[t] = "done"
  <2>1. ten[u] # "done" /\ \A v \in Tenants : v # u => ten'[v] = ten[v]
    BY <1>3 DEF Types, Moves, Run, CreateController, StartController, CreateGenerator, LockSwitchUp, CheckSwitchUp,
         WaitSwitchUp, SetupSwitch, Finish, SpuriousWakeup
  <2> QED
    BY <1>0, <2>1
<1>4. ASSUME NEW u \in Tenants, NEW l \in Loops, Establish(u, l) \/ Loop(u, l) PROVE ten'[t] = "done"
  BY <1>0, <1>4 DEF Types, Establish, Loop, RaiseFlag, AdoptConn, LockedFlag, NotifySwitchUp
<1>5. ASSUME \E u \in Tenants, l \in Loops : AdoptConnRaces(u, l) PROVE ten'[t] = "done"
  BY <1>5, RaceStep DEF tenantVars
<1> QED
  BY <1>1, <1>2, <1>3, <1>4, <1>5 DEF Next

LEMMA OrderInit == Types /\ Init => OrderInv
  BY DEF Types, Init, OrderInv, Stopping, Stopped

(* A step that leaves the main thread and the shutdown alone.              *)
LEMMA OrderSame ==
  ASSUME Types, OrderInv, [Next]_vars, UNCHANGED <<main, cursor, shutdown_, before>>,
         tenants_ \subseteq tenants_'
  PROVE  OrderInv'
<1>1. \A t \in before : ten[t] = "done" => ten'[t] = "done"
  BY DoneStays DEF OrderInv
<1> QED
  BY <1>1 DEF OrderInv, Stopping, Stopped

LEMMA OrderMain == ASSUME Types, OrderInv, Main PROVE OrderInv'
<1>1. CASE MainLock \/ MainWait
  BY <1>1 DEF MainLock, MainWait, OrderInv, Stopping, Stopped, tenantVars, history
<1>2. CASE MainCheck
  BY <1>2 DEF Types, MainCheck, OrderInv, Stopping, Stopped, Tenants, tenantVars, history
<1>3. CASE StopNext
  <2>1. /\ main = "stop" /\ UNCHANGED <<shutdown_, before, tenants_, ten>>
    BY <1>3 DEF StopNext, tenantVars, history
  <2>2. Stopping' /\ \A t \in before : Stopped(t)' => Stopped(t)
    <3>1. CASE {t \in tenants_ : t > cursor} = {}
      <4>1. main' = "quit" /\ \A t \in tenants_ : ~(t > cursor)
        BY <1>3, <3>1 DEF StopNext
      <4>2. \A t \in before : t \in Nat /\ t =< cursor
        BY <4>1 DEF OrderInv, Types, Tenants
      <4> QED
        BY <2>1, <4>1, <4>2 DEF Types, Stopping, Stopped
    <3>2. CASE {t \in tenants_ : t > cursor} # {}
      <4>1. /\ cursor' \in tenants_ /\ main' = "signal"
            /\ \A u \in tenants_ : u > cursor => cursor' =< u
        BY <1>3, <3>2, NextTenant
      <4>2. tenants_ \subseteq Int /\ cursor \in Int /\ before \subseteq tenants_
        BY DEF Types, Tenants, OrderInv
      <4> QED
        BY <2>1, <4>1, <4>2 DEF Stopping, Stopped
    <3> QED
      BY <3>1, <3>2
  <2> QED
    BY <2>1, <2>2 DEF OrderInv, Stopping
<1>4. CASE Signal \/ JoinLoops
  BY <1>4 DEF Signal, JoinLoops, OrderInv, Stopping, Stopped, tenantVars, history
<1>5. CASE JoinThread
  BY <1>5 DEF JoinThread, OrderInv, Stopping, Stopped, tenantVars, history
<1> QED
  BY <1>1, <1>2, <1>3, <1>4, <1>5 DEF Main

LEMMA OrderKept == ASSUME Types, OrderInv, [Next]_vars PROVE OrderInv'
<1>1. CASE Main
  BY <1>1, OrderMain
<1>2. CASE Shutdown
  <2>1. /\ shutdown_' /\ UNCHANGED <<main, cursor, tenants_, ten>>
        /\ before' = IF shutdown_ THEN before ELSE tenants_
    BY <1>2 DEF Shutdown, tenantVars
  <2>2. CASE shutdown_
    BY <2>1, <2>2 DEF OrderInv, Stopping, Stopped
  <2>3. CASE ~shutdown_
    BY <2>1, <2>3 DEF Types, Tenants, OrderInv, Stopping, Stopped
  <2> QED
    BY <2>2, <2>3
<1>3. CASE NotifyShutdown
  BY <1>3 DEF NotifyShutdown, OrderInv, Stopping, Stopped, etcdVars, tenantVars, history
<1>4. CASE \/ UNCHANGED vars \/ Operator \/ NewTenant \/ InsertTenant \/ NewNode \/ IgnoreOther
           \/ \E t \in Tenants : \/ Run(t) \/ SpuriousWakeup(t) \/ ChangeTenantConf(t)
                                 \/ \E l \in Loops : Establish(t, l) \/ Loop(t, l) \/ AdoptConnRaces(t, l)
  <2>1. UNCHANGED <<main, cursor, shutdown_, before>> /\ tenants_ \subseteq tenants_'
    <3>1. CASE UNCHANGED vars \/ Operator \/ NewTenant \/ InsertTenant \/ NewNode \/ IgnoreOther
      BY <3>1 DEF vars, Operator, Announce, NewTenant, InsertTenant, NewNode, IgnoreOther, benchVars, history
    <3>2. ASSUME NEW t \in Tenants, Run(t) \/ SpuriousWakeup(t) PROVE UNCHANGED <<benchVars, before>>
      BY <3>2 DEF Run, CreateController, StartController, CreateGenerator, LockSwitchUp, CheckSwitchUp,
         WaitSwitchUp, SetupSwitch, Finish, SpuriousWakeup, Moves, history
    <3>3. ASSUME NEW t \in Tenants, ChangeTenantConf(t) PROVE UNCHANGED <<benchVars, before>>
      BY <3>3 DEF ChangeTenantConf
    <3>4. ASSUME NEW t \in Tenants, NEW l \in Loops, Establish(t, l) \/ Loop(t, l)
          PROVE UNCHANGED <<benchVars, before>>
      BY <3>4 DEF Establish, Loop, RaiseFlag, AdoptConn, LockedFlag, NotifySwitchUp, Callback, history
    <3>5. ASSUME NEW t \in Tenants, NEW l \in Loops, AdoptConnRaces(t, l) PROVE UNCHANGED <<benchVars, before>>
      BY <3>5, RaceStep
    <3> QED
      BY <1>4, <3>1, <3>2, <3>3, <3>4, <3>5 DEF benchVars
  <2> QED
    BY <2>1, OrderSame
<1> QED
  BY <1>1, <1>2, <1>3, <1>4 DEF Next, Watch

-----------------------------------------------------------------------------
(* The patient operator.                                                   *)
CleanVars == <<scenario, events, watch, shutdown_, tenants_, nodes_, ten, generator, crashed>>

LEMMA CleanInit == Types /\ Init => CleanInv
  BY DEF Types, Init, IdleWatch, CleanInv, Fresh, Calm, Closing, Configured, Queued

LEMMA CleanSame == CleanInv /\ UNCHANGED CleanVars => CleanInv'
  BY DEF CleanVars, CleanInv, Patient, Fresh, Calm, Closing, Configured, Queued

LEMMA CleanAnnounce == ASSUME Types, CleanInv, Patient, NEW e \in Event, Announce(e) PROVE CleanInv'
<1>1. /\ events' = Append(events, e) /\ e \in AnyEvent
      /\ UNCHANGED <<scenario, watch, shutdown_, tenants_, nodes_, ten, generator, crashed>>
  BY EventKinds DEF Types, Announce, benchVars, tenantVars, history
<1>2. /\ ~Closing
      /\ e.type \in {"shutdown", "delete"} => events = <<>> /\ watch = IdleWatch /\ Settled
      /\ e.type \in {"tenant", "node"} => \A i \in Queued : events[i] # e
      /\ e.type = "tenant" => ten[e.of] = "absent"
      /\ e.type = "node" => e.of \notin nodes_
  BY DEF Announce, Closing, Queued
<1>3. /\ Len(events) \in Nat /\ Len(events') = Len(events) + 1
      /\ \A i \in Queued : events'[i] = events[i]
      /\ events'[Len(events) + 1] = e
  BY <1>1, AppendOf DEF Types, Queued
<1>4. \A i \in Queued' : i \in Queued \/ i = Len(events) + 1
  BY <1>3 DEF Queued
<1>5. Fresh
  BY DEF CleanInv
<1>6. Fresh'
  <2>1. \A i \in Queued' : /\ events'[i].type = "tenant" => ten[events'[i].of] = "absent"
                           /\ events'[i].type = "node" => events'[i].of \notin nodes_
    BY <1>2, <1>3, <1>4, <1>5 DEF Fresh
  <2>2. \A i, j \in Queued' : events'[i].type \in {"tenant", "node"} /\ i # j =>
          events'[i] # events'[j]
    BY <1>2, <1>3, <1>4, <1>5 DEF Fresh
  <2> QED
    BY <1>1, <1>5, <2>1, <2>2 DEF Fresh
<1>7. Calm'
  <2> SUFFICES ASSUME Closing' PROVE Calm'
    BY DEF Calm
  <2>1. e.type = "shutdown"
    BY <1>1, <1>2, <1>3, <1>4 DEF Closing
  <2>2. events = <<>> /\ watch = IdleWatch /\ Settled
    BY <1>2, <2>1
  <2>3. Queued = {}
    BY <2>2 DEF Queued
  <2>4. \A i \in Queued' : events'[i].type = "shutdown"
    BY <1>3, <1>4, <2>1, <2>3
  <2> QED
    BY <1>1, <2>2, <2>4 DEF Calm, Settled, IdleWatch
<1> QED
  BY <1>1, <1>6, <1>7 DEF CleanInv, Configured, Patient

LEMMA SameEvent == \A e, f \in AnyEvent : e.type = f.type /\ e.of = f.of => e = f
  BY DEF AnyEvent

(* What is left of the queue when its head is taken.                       *)
LEMMA QueueLeft ==
  ASSUME Types, Fresh, events # <<>>, events' = Tail(events)
  PROVE  /\ 1 \in Queued /\ Head(events) = events[1] /\ Head(events) \in AnyEvent
         /\ \A i \in Queued' : i + 1 \in Queued /\ i + 1 # 1 /\ events'[i] = events[i + 1]
                               /\ events[i + 1] \in AnyEvent
         /\ \A i, j \in Queued' : i # j => i + 1 # j + 1
<1>1. /\ 1 \in Queued /\ Head(events) = events[1]
      /\ \A i \in Queued' : i + 1 \in Queued /\ events'[i] = events[i + 1]
  BY TailOf DEF Types, Queued
<1>2. \A i \in Queued : events[i] \in AnyEvent
  BY DEF Types, Queued
<1>3. Queued' \subseteq Nat \ {0}
  BY DEF Queued
<1>4. \A i \in Queued' : i + 1 # 1
  BY <1>3
<1>5. \A i, j \in Queued' : i # j => i + 1 # j + 1
  BY <1>3
<1> QED
  BY <1>1, <1>2, <1>4, <1>5

LEMMA CleanNewTenant == ASSUME Types, CleanInv, Patient, NewTenant PROVE CleanInv'
<1> DEFINE t == Head(events).of
<1>1. /\ watch = IdleWatch /\ events # <<>> /\ Head(events).type = "tenant" /\ events' = Tail(events)
      /\ UNCHANGED <<scenario, shutdown_, tenants_, nodes_, generator>>
  BY DEF NewTenant
<1>2. Fresh /\ Calm /\ Configured /\ crashed \in {None, "connection"}
  BY DEF CleanInv
<1>3. /\ 1 \in Queued /\ Head(events) = events[1] /\ Head(events) \in AnyEvent
      /\ \A i \in Queued' : i + 1 \in Queued /\ i + 1 # 1 /\ events'[i] = events[i + 1]
                            /\ events[i + 1] \in AnyEvent
      /\ \A i, j \in Queued' : i # j => i + 1 # j + 1
  BY <1>1, <1>2, QueueLeft
<1>4. t \in Tenants /\ ten[t] = "absent" /\ t \notin tenants_
  BY <1>1, <1>2, <1>3 DEF AnyEvent, Fresh
<1>5. /\ watch' = [pc |-> "insert", of |-> t] /\ ten' = [ten EXCEPT ![t] = "setup"]
      /\ crashed' = crashed
  BY <1>4 DEF NewTenant
<1>6. ~Closing /\ ~Closing'
  BY <1>1, <1>2, <1>3 DEF Closing, Calm
<1>7. \A i \in Queued' : events'[i].type = "tenant" => events'[i].of # t
  <2> SUFFICES ASSUME NEW i \in Queued', events[i + 1].type = "tenant", events[i + 1].of = t PROVE FALSE
    BY <1>3
  <2>1. events[i + 1] = events[1]
    BY <1>1, <1>3, SameEvent
  <2> QED
    BY <1>1, <1>2, <1>3, <2>1 DEF Fresh
<1>8. Fresh'
  <2>1. \A i \in Queued' : events'[i].type = "tenant" =>
          events'[i].of \in Tenants /\ ten[events'[i].of] = "absent"
    BY <1>2, <1>3 DEF AnyEvent, Fresh
  <2>2. \A i \in Queued' : events'[i].type = "tenant" => ten'[events'[i].of] = "absent"
    BY <1>5, <1>7, <2>1 DEF Types
  <2>3. \A i \in Queued' : events'[i].type = "node" => events'[i].of \notin nodes_'
    BY <1>1, <1>2, <1>3 DEF Fresh
  <2>4. \A i, j \in Queued' : events'[i].type \in {"tenant", "node"} /\ i # j =>
          events'[i] # events'[j]
    BY <1>2, <1>3 DEF Fresh
  <2>5. (\A u \in tenants_' : ten'[u] # "absent") /\ ten'[watch'.of] # "absent"
    BY <1>1, <1>2, <1>4, <1>5 DEF Types, Fresh
  <2> QED
    BY <2>2, <2>3, <2>4, <2>5 DEF Fresh
<1>9. Configured'
  BY <1>1, <1>2, <1>4, <1>5 DEF Types, Configured
<1> QED
  BY <1>2, <1>5, <1>6, <1>8, <1>9 DEF CleanInv, Calm

LEMMA CleanQueue ==
  ASSUME Types, CleanInv, Patient, NewNode \/ IgnoreOther \/ Shutdown PROVE CleanInv'
<1>1. /\ watch = IdleWatch /\ events # <<>> /\ events' = Tail(events)
      /\ UNCHANGED <<scenario, tenants_, generator, ten>>
  BY DEF NewNode, IgnoreOther, Shutdown, benchVars, tenantVars
<1>2. Fresh /\ Calm /\ Configured /\ crashed \in {None, "connection"}
  BY DEF CleanInv
<1>3. /\ 1 \in Queued /\ Head(events) = events[1] /\ Head(events) \in AnyEvent
      /\ \A i \in Queued' : i + 1 \in Queued /\ i + 1 # 1 /\ events'[i] = events[i + 1]
                            /\ events[i + 1] \in AnyEvent
      /\ \A i, j \in Queued' : i # j => i + 1 # j + 1
  BY <1>1, <1>2, QueueLeft
<1>4. watch'.pc # "insert" /\ (Closing' => Closing)
  <2>1. CASE NewNode \/ IgnoreOther
    <3>1. UNCHANGED <<watch, shutdown_>>
      BY <2>1 DEF NewNode, IgnoreOther, benchVars
    <3> QED
      BY <1>1, <1>3, <3>1 DEF Closing, IdleWatch
  <2>2. CASE Shutdown
    BY <1>3, <2>2 DEF Shutdown, Closing, IdleWatch
  <2> QED
    BY <2>1, <2>2
<1>5. crashed' \in {None, "connection"} /\ nodes_' \subseteq nodes_ \cup (IF NewNode THEN {Head(events).of} ELSE {})
  <2>1. CASE NewNode
    BY <1>2, <1>3, <2>1 DEF NewNode, Fresh
  <2>2. CASE IgnoreOther
    BY <1>2, <2>2 DEF IgnoreOther, benchVars
  <2>3. CASE Shutdown
    BY <1>2, <2>3 DEF Shutdown
  <2> QED
    BY <2>1, <2>2, <2>3
<1>6. \A i \in Queued' : events'[i].type = "node" => events'[i].of \notin nodes_'
  <2>1. CASE NewNode
    <3>1. Head(events).type = "node"
      BY <2>1 DEF NewNode
    <3> QED
      BY <1>2, <1>3, <1>5, <2>1, <3>1 DEF AnyEvent, Fresh
  <2>2. CASE ~NewNode
    BY <1>2, <1>3, <1>5, <2>2 DEF Fresh
  <2> QED
    BY <2>1, <2>2
<1>7. Fresh'
  <2>1. \A i \in Queued' : events'[i].type = "tenant" => ten'[events'[i].of] = "absent"
    <3>1. \A i \in Queued' : events'[i].type = "tenant" => ten[events'[i].of] = "absent"
      BY <1>2, <1>3 DEF Fresh
    <3>2. ten' = ten
      BY <1>1
    <3> QED
      BY <3>1, <3>2
  <2>2. \A i, j \in Queued' : events'[i].type \in {"tenant", "node"} /\ i # j =>
          events'[i] # events'[j]
    BY <1>2, <1>3 DEF Fresh
  <2> QED
    BY <1>1, <1>2, <1>4, <1>6, <2>1, <2>2 DEF Fresh
<1>8. Calm'
  BY <1>1, <1>2, <1>3, <1>4 DEF Calm
<1> QED
  BY <1>1, <1>2, <1>5, <1>7, <1>8 DEF CleanInv, Configured

LEMMA CleanWatch ==
  ASSUME Types, CleanInv, Patient, InsertTenant \/ NotifyShutdown PROVE CleanInv'
<1>1. CASE InsertTenant
  <2>1. /\ watch.pc = "insert" /\ watch' = IdleWatch /\ tenants_' = tenants_ \cup {watch.of}
        /\ UNCHANGED <<scenario, events, shutdown_, nodes_, ten, generator, crashed>>
    BY <1>1 DEF InsertTenant, etcdVars, tenantVars, history
  <2> QED
    BY <2>1 DEF CleanInv, Patient, Fresh, Calm, Closing, Configured, Queued, IdleWatch
<1>2. CASE NotifyShutdown
  <2>1. /\ watch' = IdleWatch
        /\ UNCHANGED <<scenario, events, shutdown_, tenants_, nodes_, ten, generator, crashed>>
    BY <1>2 DEF NotifyShutdown, etcdVars, tenantVars, history
  <2> QED
    BY <2>1 DEF CleanInv, Patient, Fresh, Calm, Closing, Configured, Queued, IdleWatch
<1> QED
  BY <1>1, <1>2

LEMMA CleanMain == ASSUME Types, OrderInv, CleanInv, Patient, Main PROVE CleanInv'
<1>1. CASE MainLock \/ MainCheck \/ MainWait \/ JoinLoops \/ JoinThread
  <2>1. UNCHANGED CleanVars
    BY <1>1 DEF MainLock, MainCheck, MainWait, JoinLoops, JoinThread, CleanVars, etcdVars, tenantVars, history
  <2> QED
    BY <2>1, CleanSame
<1>2. CASE StopNext
  <2>1. /\ nodes_' \subseteq nodes_
        /\ UNCHANGED <<scenario, events, watch, shutdown_, tenants_, ten, generator, crashed>>
    BY <1>2 DEF StopNext, etcdVars, tenantVars, history
  <2> QED
    BY <2>1 DEF CleanInv, Patient, Fresh, Calm, Closing, Configured, Queued
<1>3. CASE Signal
  <2>1. ten[cursor] # "setup"
    <3>1. cursor \in Tenants /\ shutdown_
      BY <1>3 DEF Signal, Types, OrderInv, Stopping
    <3> QED
      BY <3>1 DEF CleanInv, Calm, Closing
  <2>2. UNCHANGED CleanVars
    BY <1>3, <2>1 DEF Signal, CleanVars, etcdVars
  <2> QED
    BY <2>2, CleanSame
<1> QED
  BY <1>1, <1>2, <1>3 DEF Main

(* A tenant that moves on was not absent, and is not afterwards; once the  *)
(* operator has asked for the shutdown it can only finish.                 *)
LEMMA CleanMoves ==
  ASSUME Types, CleanInv, Patient, NEW t \in Tenants,
         \A u \in Tenants : u # t => ten'[u] = ten[u],
         ten[t] # "absent" /\ ten'[t] \in TenantPlaces \ {"absent"},
         ten[t] \in {"send", "done"} => ten'[t] \in {"send", "done"},
         ten'[t] \notin {"created", "configure"} => t \in generator',
         generator \subseteq generator', crashed' \in {crashed, "connection"},
         UNCHANGED <<scenario, events, watch, shutdown_, tenants_, nodes_>>
  PROVE  CleanInv'
<1>1. Fresh /\ Calm /\ Configured /\ crashed \in {None, "connection"}
  BY DEF CleanInv
<1>2. \A u \in Tenants : (ten'[u] = "absent") <=> (ten[u] = "absent")
  OBVIOUS
<1>3. /\ \A i \in Queued : events[i].type = "tenant" => events[i].of \in Tenants
      /\ tenants_ \subseteq Tenants /\ (watch.pc = "insert" => watch.of \in Tenants)
  BY SMTT(20) DEF Types, Queued, AnyEvent
<1>4. Fresh'
  BY <1>1, <1>2, <1>3 DEF Fresh, Queued
<1>5. Calm'
  BY <1>1 DEF Calm, Closing, Queued
<1>6. Configured'
  BY <1>1 DEF Configured
<1> QED
  BY <1>1, <1>4, <1>5, <1>6 DEF CleanInv

LEMMA CleanRun ==
  ASSUME Types, AdoptInv, CleanInv, Patient, NEW t \in Tenants, Run(t) \/ SpuriousWakeup(t)
  PROVE  CleanInv'
<1>1. UNCHANGED <<scenario, events, watch, shutdown_, tenants_, nodes_>>
  BY DEF Run, CreateController, StartController, CreateGenerator, LockSwitchUp, CheckSwitchUp,
         WaitSwitchUp, SetupSwitch, Finish, SpuriousWakeup, Moves, etcdVars, benchVars
<1>2. \A u \in Tenants : u # t => ten'[u] = ten[u]
  BY DEF Types, Moves, Run, CreateController, StartController, CreateGenerator, LockSwitchUp,
         CheckSwitchUp, WaitSwitchUp, SetupSwitch, Finish, SpuriousWakeup
<1>3. /\ ten[t] # "absent" /\ ten'[t] \in TenantPlaces \ {"absent"}
      /\ ten[t] \in {"send", "done"} => ten'[t] \in {"send", "done"}
  BY DEF Types, TenantPlaces, Moves, Run, CreateController, StartController, CreateGenerator,
         LockSwitchUp, CheckSwitchUp, WaitSwitchUp, SetupSwitch, Finish, SpuriousWakeup
<1>4. generator \subseteq generator' /\ (ten'[t] \notin {"created", "configure"} => t \in generator')
  <2>1. CASE CreateController(t) \/ StartController(t)
    BY <2>1 DEF Types, CreateController, StartController, Moves
  <2>2. CASE CreateGenerator(t)
    BY <2>2 DEF CreateGenerator
  <2>3. CASE LockSwitchUp(t) \/ CheckSwitchUp(t) \/ WaitSwitchUp(t) \/ SetupSwitch(t) \/ Finish(t)
             \/ SpuriousWakeup(t)
    <3>1. generator' = generator /\ ten[t] \in {"lock", "check", "wait", "waiting", "settle", "send"}
      BY <2>3 DEF LockSwitchUp, CheckSwitchUp, WaitSwitchUp, SetupSwitch, Finish, SpuriousWakeup, Moves
    <3> QED
      BY <3>1 DEF CleanInv, Configured
  <2> QED
    BY <2>1, <2>2, <2>3 DEF Run
<1>5. crashed' \in {crashed, "connection"}
  <2>1. CASE SetupSwitch(t)
    BY <2>1 DEF SetupSwitch
  <2>2. CASE ~SetupSwitch(t)
    BY <2>2 DEF Run, CreateController, StartController, CreateGenerator, LockSwitchUp, CheckSwitchUp,
         WaitSwitchUp, Finish, SpuriousWakeup, history
  <2> QED
    BY <2>1, <2>2
<1> QED
  BY <1>1, <1>2, <1>3, <1>4, <1>5, CleanMoves

LEMMA CleanCallback ==
  ASSUME Types, CleanInv, Patient, NEW t \in Tenants, NEW l \in Loops, Establish(t, l) \/ Loop(t, l)
  PROVE  CleanInv'
<1>1. CASE Establish(t, l) \/ RaiseFlag(t, l) \/ AdoptConn(t, l) \/ LockedFlag(t, l)
  <2>1. UNCHANGED CleanVars
    BY <1>1 DEF Establish, RaiseFlag, AdoptConn, LockedFlag, Callback, CleanVars, etcdVars, benchVars, history
  <2> QED
    BY <2>1, CleanSame
<1>2. CASE NotifySwitchUp(t, l)
  <2>1. /\ UNCHANGED <<scenario, events, watch, shutdown_, tenants_, nodes_, generator, crashed>>
        /\ ten' = IF ten[t] = "waiting" THEN [ten EXCEPT ![t] = "lock"] ELSE ten
    BY <1>2 DEF NotifySwitchUp, Callback, etcdVars, benchVars, history
  <2>2. CASE ten[t] = "waiting"
    <3>1. ten'[t] = "lock" /\ \A u \in Tenants : u # t => ten'[u] = ten[u]
      BY <2>1, <2>2 DEF Types
    <3>2. t \in generator
      BY <2>2 DEF CleanInv, Configured
    <3>3. "lock" \in TenantPlaces \ {"absent"}
      BY DEF TenantPlaces
    <3> QED
      BY <2>1, <2>2, <3>1, <3>2, <3>3, CleanMoves
  <2>3. CASE ten[t] # "waiting"
    BY <2>1, <2>3, CleanSame DEF CleanVars
  <2> QED
    BY <2>2, <2>3
<1> QED
  BY <1>1, <1>2 DEF Loop

LEMMA ScenarioStays == [Next]_vars => UNCHANGED scenario
<1>1. CASE UNCHANGED vars \/ Operator
  BY <1>1 DEF vars, etcdVars, Operator, Announce
<1>2. CASE Watch
  BY <1>2 DEF Watch, NewTenant, InsertTenant, NewNode, IgnoreOther, Shutdown, NotifyShutdown, etcdVars
<1>3. CASE Main
  BY <1>3 DEF Main, MainLock, MainCheck, MainWait, StopNext, Signal, JoinLoops, JoinThread, etcdVars
<1>4. ASSUME NEW t \in Tenants, Run(t) \/ SpuriousWakeup(t) \/ ChangeTenantConf(t)
      PROVE  UNCHANGED scenario
  BY <1>4 DEF Run, CreateController, StartController, CreateGenerator, LockSwitchUp, CheckSwitchUp,
         WaitSwitchUp, SetupSwitch, Finish, SpuriousWakeup, Moves, ChangeTenantConf, etcdVars
<1>5. ASSUME NEW t \in Tenants, NEW l \in Loops, Establish(t, l) \/ Loop(t, l) PROVE UNCHANGED scenario
  BY <1>5 DEF Establish, Loop, RaiseFlag, AdoptConn, LockedFlag, NotifySwitchUp, Callback, etcdVars
<1>6. CASE \E t \in Tenants, l \in Loops : AdoptConnRaces(t, l)
  BY <1>6, RaceStep DEF etcdVars
<1> QED
  BY <1>1, <1>2, <1>3, <1>4, <1>5, <1>6 DEF Next

LEMMA CleanKept == ASSUME Types, AdoptInv, OrderInv, CleanInv, [Next]_vars PROVE CleanInv'
<1> SUFFICES ASSUME Patient PROVE CleanInv'
  BY ScenarioStays DEF CleanInv, Patient
<1>1. CASE UNCHANGED vars
  BY <1>1, CleanSame DEF vars, etcdVars, benchVars, tenantVars, history, CleanVars
<1>2. CASE Operator
  BY <1>2, CleanAnnounce DEF Operator
<1>3. CASE Watch
  BY <1>3, CleanNewTenant, CleanQueue, CleanWatch DEF Watch
<1>4. CASE Main
  BY <1>4, CleanMain
<1>5. ASSUME NEW t \in Tenants, ChangeTenantConf(t) PROVE CleanInv'
  BY <1>5 DEF ChangeTenantConf, CleanInv, Configured
<1>6. CASE \E t \in Tenants : Run(t) \/ SpuriousWakeup(t)
  BY <1>6, CleanRun
<1>7. CASE \E t \in Tenants, l \in Loops : Establish(t, l) \/ Loop(t, l)
  BY <1>7, CleanCallback
<1>8. CASE \E t \in Tenants, l \in Loops : AdoptConnRaces(t, l)
  <2>1. UNCHANGED <<etcdVars, benchVars, tenantVars>> /\ crashed' = "connection"
    BY <1>8 DEF AdoptConnRaces
  <2> QED
    BY <2>1 DEF etcdVars, benchVars, tenantVars, CleanInv, Patient, Fresh, Calm, Closing, Configured, Queued
<1> QED
  BY <1>1, <1>2, <1>3, <1>4, <1>5, <1>6, <1>7, <1>8 DEF Next

-----------------------------------------------------------------------------
(* A step ends the process on a connection only from a race.               *)
LEMMA RaceKept == ASSUME Types, AdoptInv, RaceInv, [Next]_vars PROVE RaceInv'
<1>1. CASE UNCHANGED vars \/ ~Alive
  <2>1. CASE UNCHANGED vars
    BY <2>1 DEF vars, tenantVars, history, RaceInv, Races
  <2>2. ASSUME Next PROVE Alive
    BY <2>2 DEF Next, Operator, Announce, Watch, NewTenant, InsertTenant, NewNode, IgnoreOther, Shutdown,
       NotifyShutdown, Main, MainLock, MainCheck, MainWait, StopNext, Signal, JoinLoops, JoinThread, Run,
       CreateController, StartController, CreateGenerator, LockSwitchUp, CheckSwitchUp, WaitSwitchUp,
       SetupSwitch, Finish, SpuriousWakeup, ChangeTenantConf, Moves, Establish, Loop, RaiseFlag, AdoptConn,
       LockedFlag, NotifySwitchUp, Callback, AdoptConnRaces
  <2> QED
    BY <1>1, <2>1, <2>2
<1> SUFFICES ASSUME crashed = None, crashed' = "connection", Next
             PROVE  \E t \in Tenants, l \in Loops : Races(t, l)'
  BY <1>1 DEF Alive, RaceInv
<1>0. crashed' # crashed
  BY DEF None
<1>2. CASE \E t \in Tenants : Run(t) \/ SpuriousWakeup(t)
  <2>1. PICK t \in Tenants : SetupSwitch(t)
    BY <1>0, <1>2 DEF Run, CreateController, StartController, CreateGenerator, LockSwitchUp, CheckSwitchUp,
       WaitSwitchUp, Finish, SpuriousWakeup, history
  <2>2. /\ ten[t] = "settle" /\ ten' = [ten EXCEPT ![t] = "send"] /\ cb' = cb
        /\ conn[t] = None
    BY <1>0, <2>1 DEF SetupSwitch, Moves
  <2>3. PICK l \in Loops : cb[t][l] = "conn"
    BY <2>2 DEF AdoptInv, Adopted
  <2> QED
    BY <2>2, <2>3 DEF Types, Races
<1>3. CASE \E t \in Tenants, l \in Loops : AdoptConnRaces(t, l)
  BY <1>3 DEF AdoptConnRaces, Races, tenantVars
<1>4. CASE Watch \/ \E t \in Tenants : ChangeTenantConf(t)
  BY <1>0, <1>4 DEF Watch, NewTenant, InsertTenant, NewNode, IgnoreOther, Shutdown, NotifyShutdown,
     ChangeTenantConf, history
<1>5. CASE Operator \/ Main
  BY <1>0, <1>5 DEF Operator, Announce, Main, MainLock, MainCheck, MainWait, StopNext, Signal, JoinLoops,
     JoinThread, history
<1>6. CASE \E t \in Tenants, l \in Loops : Establish(t, l) \/ Loop(t, l)
  BY <1>0, <1>6 DEF Establish, Loop, RaiseFlag, AdoptConn, LockedFlag, NotifySwitchUp, Callback, history
<1> QED
  BY <1>2, <1>3, <1>4, <1>5, <1>6 DEF Next

HVBenchInv == Types /\ AdoptInv /\ RaceInv /\ OrderInv /\ CleanInv

LEMMA Inductive == Spec => []HVBenchInv
<1>1. Init => RaceInv
  BY DEF Init, RaceInv, None
<1>2. Init => HVBenchInv
  BY <1>1, TypesInit, AdoptInit, OrderInit, CleanInit DEF HVBenchInv
<1>3. HVBenchInv /\ [Next]_vars => HVBenchInv'
  BY TypesKept, AdoptKept, RaceKept, OrderKept, CleanKept DEF HVBenchInv
<1> QED
  BY <1>2, <1>3, PTL DEF Spec

(* Whatever the operator does and however many switches connect: when the  *)
(* flag that connection_callback reads without the mutex is up and the     *)
(* callbacks that had found it down are through, the tenant's connection   *)
(* is there, and neither it nor that ever changes again.                   *)
THEOREM ConnectionStays == Spec => ConnStable
<1> DEFINE Stays == \A t \in Tenants : Through(t) => conn[t] # None /\ Through(t)' /\ conn'[t] = conn[t]
<1>1. HVBenchInv /\ [Next]_vars => [Stays]_vars
  <2> SUFFICES ASSUME HVBenchInv, Next, NEW t \in Tenants, Through(t)
               PROVE  conn[t] # None /\ Through(t)' /\ conn'[t] = conn[t]
    OBVIOUS
  <2>1. conn[t] # None /\ switch_up[t] /\ \A l \in Loops : cb[t][l] \notin {"up", "conn"}
    BY DEF HVBenchInv, AdoptInv, Adopted, Through
  <2>2. CASE Operator \/ Watch \/ Main \/ \E u \in Tenants : ChangeTenantConf(u)
    <3>1. UNCHANGED <<switch_up, conn, cb>>
      BY <2>2 DEF Operator, Announce, Watch, NewTenant, InsertTenant, NewNode, IgnoreOther, Shutdown,
         NotifyShutdown, Main, MainLock, MainCheck, MainWait, StopNext, Signal, JoinLoops, JoinThread,
         ChangeTenantConf, tenantVars
    <3> QED
      BY <2>1, <3>1 DEF Through
  <2>3. CASE \E u \in Tenants : Run(u) \/ SpuriousWakeup(u)
    <3>1. UNCHANGED <<switch_up, conn, cb>>
      BY <2>3 DEF Run, CreateController, StartController, CreateGenerator, LockSwitchUp, CheckSwitchUp,
         WaitSwitchUp, SetupSwitch, Finish, SpuriousWakeup
    <3> QED
      BY <2>1, <3>1 DEF Through
  <2>4. ASSUME NEW u \in Tenants, NEW l \in Loops, AdoptConnRaces(u, l) PROVE UNCHANGED <<switch_up, conn, cb>>
    BY <2>4, RaceStep DEF tenantVars
  <2>5. ASSUME NEW u \in Tenants, NEW l \in Loops, Establish(u, l) \/ Loop(u, l)
        PROVE  Through(t)' /\ conn'[t] = conn[t]
    <3>0. t \in Tenants /\ conn \in [Tenants -> Loops \cup {None}]
          /\ cb \in [Tenants -> [Loops -> CallbackPlaces]] /\ switch_up \in [Tenants -> BOOLEAN]
      BY DEF HVBenchInv, Types
    <3>1. CASE Establish(u, l)
      <4>1. /\ cb' = [cb EXCEPT ![u][l] = IF switch_up[u] THEN "served" ELSE "up"]
            /\ UNCHANGED <<switch_up, conn>>
        BY <3>1 DEF Establish, Callback
      <4> QED
        BY <2>1, <3>0, <4>1 DEF Through
    <3>2. CASE RaiseFlag(u, l)
      <4>1. /\ cb[u][l] = "up" /\ cb' = [cb EXCEPT ![u][l] = "conn"]
            /\ switch_up' = [switch_up EXCEPT ![u] = TRUE] /\ UNCHANGED conn
        BY <3>2 DEF RaiseFlag, Callback
      <4>2. u # t
        BY <2>1, <4>1
      <4> QED
        BY <2>1, <3>0, <4>1, <4>2 DEF Through
    <3>3. CASE AdoptConn(u, l)
      <4>1. /\ cb[u][l] = "conn" /\ cb' = [cb EXCEPT ![u][l] = "mutex"]
            /\ conn' = [conn EXCEPT ![u] = l] /\ UNCHANGED switch_up
        BY <3>3 DEF AdoptConn, Callback
      <4>2. u # t
        BY <2>1, <4>1
      <4> QED
        BY <2>1, <3>0, <4>1, <4>2 DEF Through
    <3>4. CASE LockedFlag(u, l)
      <4>1. /\ cb' = [cb EXCEPT ![u][l] = "notify"] /\ switch_up' = [switch_up EXCEPT ![u] = TRUE]
            /\ UNCHANGED conn
        BY <3>4 DEF LockedFlag, Callback
      <4> QED
        BY <2>1, <3>0, <4>1 DEF Through
    <3>5. CASE NotifySwitchUp(u, l)
      <4>1. cb' = [cb EXCEPT ![u][l] = "served"] /\ UNCHANGED <<switch_up, conn>>
        BY <3>5 DEF NotifySwitchUp, Callback
      <4> QED
        BY <2>1, <3>0, <4>1 DEF Through
    <3> QED
      BY <2>5, <3>1, <3>2, <3>3, <3>4, <3>5 DEF Loop
  <2>6. CASE \E u \in Tenants, l \in Loops : AdoptConnRaces(u, l)
    BY <2>1, <2>4, <2>6 DEF Through
  <2> QED
    BY <2>1, <2>2, <2>3, <2>5, <2>6 DEF Next
<1>2. Spec => [][Stays]_vars
  BY <1>1, Inductive, PTL DEF Spec
<1> QED
  BY <1>2 DEF ConnStable

(* A patient operator ends the process by nothing but the connection that  *)
(* is not stored yet or stored twice; whoever the operator is, it ends on  *)
(* the connection only while a callback has yet to store one; and          *)
(* HVBench::run returns only after the thread of every tenant that was     *)
(* added before the shutdown: stop() joins them one after the other, in    *)
(* the order of the map.                                                   *)
THEOREM EndsWell == Spec => []EndsCleanly
<1>1. HVBenchInv => EndsCleanly
  BY DEF HVBenchInv, OrderInv, Stopped, CleanInv, RaceInv, EndsCleanly
<1> QED
  BY <1>1, Inductive, PTL

=============================================================================

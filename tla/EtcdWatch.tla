----------------------------- MODULE EtcdWatch -----------------------------
(* A watch on a directory of etcd: Watch::Run, as HVBench calls it for the  *)
(* instance, the tenants' configuration and the globals (recursive, from no *)
(* particular index).  etcd numbers all changes of its store and remembers  *)
(* the last of them; a request names the first change it wants, and etcd    *)
(* answers with one change, at once or when it happens.                     *)
EXTENDS Naturals, Sequences, FiniteSets

CONSTANTS
  MaxChanges,     \* bound: changes of the store
  Window,         \* changes etcd remembers
  MAX_FAILURES    \* failures in a row that end the watch

ASSUME EtcdConstants ==
  /\ MaxChanges \in Nat /\ Window \in Nat \ {0} /\ MAX_FAILURES \in Nat \ {0}

(* A change is below the watched key, and its callback returns or throws,   *)
(* or it is elsewhere in the store.                                         *)
Kinds == {"below", "throws", "elsewhere"}

Url == [waitIndex : 0 .. MaxChanges + 1, recursive : BOOLEAN]

VARIABLES
  log,            \* the changes of the store, by their index
  pc,             \* get, waiting, callback, recover, dead or aborted
  watch_url,      \* waitIndex 0: none given
  since,          \* what the pending request has been answered up to
  reply,          \* the index of the change answered
  prev_index_, max_failures,
  \* history
  called,         \* the changes whose callback returned, in order
  covered,        \* the changes shown by the last recovery's GET
  row             \* failures since the last change handled

vars == <<log, pc, watch_url, since, reply, prev_index_, max_failures, called,
          covered, row>>

FirstUrl == [waitIndex |-> 0, recursive |-> TRUE]

Init ==
  /\ log = <<>> /\ pc = "get"
  /\ watch_url = FirstUrl
  /\ since = 0 /\ reply = 0 /\ prev_index_ = 0
  /\ max_failures = MAX_FAILURES
  /\ called = <<>> /\ covered = 0 /\ row = 0

-----------------------------------------------------------------------------
(* The store.                                                               *)

Change(k) ==
  /\ Len(log) < MaxChanges
  /\ log' = Append(log, k)
  /\ UNCHANGED <<pc, watch_url, since, reply, prev_index_, max_failures, called,
                 covered, row>>

(* The watched key is a directory: it never changes itself.                 *)
Matches(i) == watch_url.recursive /\ log[i] \in {"below", "throws"}

(* Error 401: the change asked for is older than what etcd remembers.       *)
Outdated == watch_url.waitIndex # 0 /\ watch_url.waitIndex + Window =< Len(log)

-----------------------------------------------------------------------------
(* Watch::Run.                                                              *)

(* Another failure; the last one in a row ends Run, and with its exception  *)
(* the thread and the process.                                              *)
Failure ==
  /\ max_failures' = max_failures - 1
  /\ row' = row + 1
  /\ pc' = IF max_failures = 1 THEN "dead" ELSE "get"

Get ==
  /\ pc = "get" /\ ~Outdated
  /\ pc' = "waiting"
  /\ since' = IF watch_url.waitIndex = 0 THEN Len(log)
                                         ELSE watch_url.waitIndex - 1
  /\ UNCHANGED <<log, watch_url, reply, prev_index_, max_failures, called,
                 covered, row>>

GetOutdated ==
  /\ pc = "get" /\ Outdated
  /\ pc' = "recover"
  /\ UNCHANGED <<log, watch_url, since, reply, prev_index_, max_failures,
                 called, covered, row>>

Answer ==
  /\ pc = "waiting"
  /\ \E i \in since + 1 .. Len(log) :
       /\ Matches(i) /\ \A j \in since + 1 .. i - 1 : ~Matches(j)
       /\ reply' = i
  /\ pc' = "callback"
  /\ UNCHANGED <<log, watch_url, since, prev_index_, max_failures, called,
                 covered, row>>

(* There is no connection, or it is closed without an answer.               *)
GetFails ==
  /\ pc \in {"get", "waiting"}
  /\ Failure
  /\ UNCHANGED <<log, watch_url, since, reply, prev_index_, called, covered>>

(* An answer without a body is no failure to Get: HasMember asserts on the  *)
(* null document that it is parsed into, and the process ends.              *)
EmptyAnswer ==
  /\ pc \in {"get", "waiting", "recover"}
  /\ pc' = "aborted"
  /\ UNCHANGED <<log, watch_url, since, reply, prev_index_, max_failures, called,
                 covered, row>>

NextUrl_SameIndex(i) == [waitIndex |-> i, recursive |-> TRUE]

NextUrl_NotRecursive(i) == [waitIndex |-> i + 1, recursive |-> FALSE]

NextUrl(i) == [waitIndex |-> i + 1, recursive |-> TRUE]

Callback_NoReset ==
  /\ pc = "callback" /\ log[reply] = "below"
  /\ called' = Append(called, reply)
  /\ prev_index_' = reply
  /\ watch_url' = NextUrl(reply)
  /\ row' = 0
  /\ pc' = "get"
  /\ UNCHANGED <<log, since, reply, covered, max_failures>>

Callback ==
  /\ pc = "callback" /\ log[reply] = "below"
  /\ called' = Append(called, reply)
  /\ prev_index_' = reply
  /\ watch_url' = NextUrl(reply)
  /\ max_failures' = MAX_FAILURES /\ row' = 0
  /\ pc' = "get"
  /\ UNCHANGED <<log, since, reply, covered>>

(* What the callback throws is caught here, and the request is repeated.    *)
CallbackThrows ==
  /\ pc = "callback" /\ log[reply] = "throws"
  /\ Failure
  /\ UNCHANGED <<log, watch_url, since, reply, prev_index_, called, covered>>

(* The current state is fetched and shown to the callback, and the index    *)
(* after it is watched; the new URL lacks "&recursive=true".                *)
Recover ==
  /\ pc = "recover"
  /\ covered' = Len(log)
  /\ prev_index_' = Len(log)
  /\ watch_url' = [waitIndex |-> Len(log) + 1, recursive |-> FALSE]
  /\ Failure
  /\ UNCHANGED <<log, since, reply, called>>

(* The GET or its callback throws: everything stays as it was.              *)
RecoverFails ==
  /\ pc = "recover"
  /\ Failure
  /\ UNCHANGED <<log, watch_url, since, reply, prev_index_, called, covered>>

Next ==
  \/ \E k \in Kinds : Change(k)
  \/ Get \/ GetOutdated \/ Answer \/ GetFails \/ EmptyAnswer
  \/ Callback \/ CallbackThrows \/ Recover \/ RecoverFails

Spec == Init /\ [][Next]_vars

(* The watch's thread runs and etcd answers.                                *)
FairSpec ==
  Spec /\ WF_vars(Get \/ GetOutdated \/ Answer \/ Callback \/ CallbackThrows
                  \/ Recover)

-----------------------------------------------------------------------------
(* Properties.                                                              *)

IsCalled(i) == \E n \in 1 .. Len(called) : called[n] = i

Happened(i) == i =< Len(log) /\ log[i] = "below"

(* Type correctness of Watch::Run's variables.                              *)
TypeOK ==
  /\ log \in Seq(Kinds)
  /\ pc \in {"get", "waiting", "callback", "recover", "dead", "aborted"}
  /\ watch_url \in Url
  /\ since \in 0 .. MaxChanges /\ reply \in 0 .. Len(log)
  /\ prev_index_ \in 0 .. Len(log) /\ covered \in 0 .. Len(log)
  /\ max_failures \in 0 .. MAX_FAILURES /\ row \in 0 .. MAX_FAILURES
  /\ called \in Seq(1 .. MaxChanges)

(* Once the first change has been handled, no change up to prev_index_ is   *)
(* passed over: each was handled, or shown by a recovery, and none twice.   *)
(* A change whose callback throws is not passed over either.                *)
NoneSkipped ==
  /\ \A m, n \in 1 .. Len(called) : m < n => called[m] < called[n]
  /\ called # <<>> =>
       \A i \in called[1] .. prev_index_ :
         log[i] # "elsewhere" => i =< covered \/ IsCalled(i)

(* Run gives up only after MAX_FAILURES failures in a row (etcd.hpp, 474),  *)
(* whatever mixture of failing requests, recoveries and exceptions of the   *)
(* callback they are.  An answer without a body is none of them: it ends    *)
(* the process at once (pc is then "aborted"), without a further try.       *)
GivesUpInARow == (pc = "dead") = (row = MAX_FAILURES)

(* A change after the first one handled is handled in turn, unless the      *)
(* watch had to be recovered, gives up or ends with the process.            *)
EventuallyHandled ==
  \A i \in 1 .. MaxChanges :
    (called # <<>> /\ Happened(i) /\ i > called[1]) ~>
      (IsCalled(i) \/ covered > 0 \/ pc \in {"dead", "aborted"})

(* etcd.hpp, 470: "It handles index out of date by performing a GET and     *)
(* using X-Etcd-Index filed from the header to start a new watch."  A       *)
(* change after the recovery is handled like any other.                     *)
WatchedAfterRecovery ==
  \A i \in 1 .. MaxChanges :
    (Happened(i) /\ covered \in 1 .. i - 1) ~>
      (IsCalled(i) \/ i =< covered \/ pc \in {"dead", "aborted"})

=============================================================================

-------------------------- MODULE EtcdWatchProofs --------------------------
(* Proofs about EtcdWatch: a watch neither skips nor repeats a change, and  *)
(* gives up exactly after MAX_FAILURES failures in a row.                   *)
EXTENDS EtcdWatch, TLAPS

(* The store's changes are bounded, and Run counts down what `row` counts   *)
(* up.                                                                      *)
CountInv ==
  /\ Len(log) =< MaxChanges
  /\ max_failures + row = MAX_FAILURES
  /\ pc = "dead" <=> max_failures = 0

(* The request names the change after prev_index_, once one was handled.    *)
UrlInv ==
  /\ watch_url.waitIndex = 0 => called = <<>> /\ prev_index_ = 0
  /\ watch_url.waitIndex # 0 =>
       /\ watch_url.waitIndex = prev_index_ + 1
       /\ pc \in {"waiting", "callback"} => since = prev_index_

(* The change answered is the first match after what was asked for.         *)
ReplyInv ==
  pc = "callback" =>
    /\ reply \in since + 1 .. Len(log) /\ Matches(reply)
    /\ \A j \in since + 1 .. reply - 1 : ~Matches(j)

(* What has been handled is not after prev_index_.                          *)
CalledInv == \A n \in 1 .. Len(called) : called[n] =< prev_index_

IInv == TypeOK /\ CountInv /\ UrlInv /\ ReplyInv /\ CalledInv /\ NoneSkipped

(* The invariant holds before the first request of Watch::Run.              *)
LEMMA InitInv == Init => IInv
<1> SUFFICES ASSUME Init PROVE IInv
  OBVIOUS
<1>1. TypeOK
  BY EtcdConstants DEF EtcdConstants, Init, TypeOK, FirstUrl, Url
<1>2. CountInv /\ UrlInv /\ ReplyInv
  BY EtcdConstants DEF EtcdConstants, Init, CountInv, UrlInv, ReplyInv, FirstUrl
<1>3. CalledInv /\ NoneSkipped
  BY DEF Init, CalledInv, NoneSkipped
<1> QED
  BY <1>1, <1>2, <1>3 DEF IInv

(* What the callback has handled are indices of changes up to prev_index_.  *)
LEMMA CalledFacts ==
  ASSUME IInv
  PROVE  /\ called \in Seq(1 .. MaxChanges) /\ Len(called) \in Nat
         /\ called # <<>> => 1 \in 1 .. Len(called)
         /\ \A n \in 1 .. Len(called) :
              called[n] \in 1 .. MaxChanges /\ called[n] =< prev_index_
<1>1. called \in Seq(1 .. MaxChanges)
  BY DEF IInv, TypeOK
<1>2. Len(called) \in Nat /\ (called # <<>> => 1 \in 1 .. Len(called))
  BY <1>1
<1>3. ASSUME NEW n \in 1 .. Len(called) PROVE called[n] \in 1 .. MaxChanges
  <2>1. \A T : \A f \in Seq(T) : \A j \in 1 .. Len(f) : f[j] \in T
    OBVIOUS
  <2> QED
    BY <1>1, <2>1
<1>4. \A n \in 1 .. Len(called) : called[n] =< prev_index_
  BY DEF IInv, CalledInv
<1> QED
  BY <1>1, <1>2, <1>3, <1>4

(* A change of the store leaves the changes before it as they were.         *)
LEMMA ChangeInv == ASSUME IInv, NEW k \in Kinds, Change(k) PROVE IInv'
<1>1. /\ UNCHANGED <<pc, watch_url, since, reply, prev_index_, max_failures,
                     called, covered, row>>
      /\ log' = Append(log, k) /\ log \in Seq(Kinds)
      /\ Len(log) \in Nat /\ Len(log) < MaxChanges
  BY DEF Change, IInv, TypeOK
<1>2. /\ log' \in Seq(Kinds) /\ Len(log') = Len(log) + 1
      /\ \A i \in 1 .. Len(log) : log'[i] = log[i]
  BY <1>1
<1>3. TypeOK'
  BY <1>1, <1>2, EtcdConstants DEF EtcdConstants, IInv, TypeOK, Url
<1>4. CountInv' /\ UrlInv'
  BY <1>1, <1>2, EtcdConstants DEF EtcdConstants, IInv, CountInv, UrlInv
<1>5. ReplyInv'
  <2> SUFFICES ASSUME pc = "callback"
               PROVE  /\ reply \in since + 1 .. Len(log') /\ Matches(reply)'
                      /\ \A j \in since + 1 .. reply - 1 : ~Matches(j)'
    BY <1>1 DEF ReplyInv
  <2>1. /\ since \in Nat /\ reply \in since + 1 .. Len(log)
        /\ watch_url.recursive /\ log[reply] \in {"below", "throws"}
        /\ \A j \in since + 1 .. reply - 1 : ~Matches(j)
    BY EtcdConstants DEF EtcdConstants, IInv, TypeOK, ReplyInv, Matches
  <2>2. Matches(reply)'
    BY <1>1, <1>2, <2>1 DEF Matches
  <2>3. ASSUME NEW j \in since + 1 .. reply - 1 PROVE ~Matches(j)'
    BY <1>1, <1>2, <2>1 DEF Matches
  <2> QED
    BY <1>2, <2>1, <2>2, <2>3
<1>6. CalledInv'
  BY <1>1 DEF IInv, CalledInv
<1>7. NoneSkipped'
  <2>1. /\ prev_index_ =< Len(log) /\ prev_index_ \in Nat
    BY <1>1 DEF IInv, TypeOK
  <2>2. ASSUME called # <<>>, NEW i \in called[1] .. prev_index_,
               log'[i] # "elsewhere"
        PROVE  i =< covered \/ IsCalled(i)
    <3>1. called[1] \in 1 .. MaxChanges
      BY <2>2, CalledFacts
    <3>2. log'[i] = log[i]
      BY <1>2, <2>1, <2>2, <3>1, EtcdConstants DEF EtcdConstants
    <3> QED
      BY <2>2, <3>2 DEF IInv, NoneSkipped
  <2> QED
    BY <1>1, <2>2 DEF IInv, NoneSkipped, IsCalled
<1> QED
  BY <1>3, <1>4, <1>5, <1>6, <1>7 DEF IInv

(* Asking, answering and failing do not touch what has been handled.        *)
LEMMA RequestInv ==
  ASSUME IInv, Get \/ GetOutdated \/ Answer \/ GetFails \/ EmptyAnswer
               \/ CallbackThrows \/ RecoverFails
  PROVE  IInv'
<1>1. UNCHANGED <<log, watch_url, prev_index_, called, covered>>
  BY DEF Get, GetOutdated, Answer, GetFails, EmptyAnswer, CallbackThrows, RecoverFails
<1>2. CalledInv' /\ NoneSkipped'
  BY <1>1 DEF IInv, CalledInv, NoneSkipped, IsCalled
<1>3. CASE Get
  <2>1. since' \in 0 .. MaxChanges
    BY <1>3, EtcdConstants
    DEF EtcdConstants, Get, IInv, TypeOK, Url, CountInv, UrlInv
  <2>2. TypeOK'
    BY <1>1, <1>3, <2>1 DEF Get, IInv, TypeOK
  <2>3. CountInv' /\ ReplyInv'
    BY <1>3 DEF Get, IInv, CountInv, ReplyInv
  <2>4. UrlInv'
    BY <1>1, <1>3 DEF Get, IInv, TypeOK, UrlInv
  <2> QED
    BY <1>2, <2>2, <2>3, <2>4 DEF IInv
<1>4. CASE GetOutdated
  <2>1. TypeOK'
    BY <1>4 DEF GetOutdated, IInv, TypeOK
  <2>2. CountInv' /\ ReplyInv' /\ UrlInv'
    BY <1>4 DEF GetOutdated, IInv, CountInv, ReplyInv, UrlInv
  <2> QED
    BY <1>2, <2>1, <2>2 DEF IInv
<1>5. CASE Answer
  <2> PICK i \in since + 1 .. Len(log) :
        /\ Matches(i) /\ \A j \in since + 1 .. i - 1 : ~Matches(j)
        /\ reply' = i
    BY <1>5 DEF Answer
  <2>1. UNCHANGED <<since, max_failures, row>> /\ pc' = "callback"
        /\ pc = "waiting"
    BY <1>5 DEF Answer
  <2>2. reply' \in 0 .. Len(log)
    BY EtcdConstants DEF EtcdConstants, IInv, TypeOK
  <2>3. TypeOK'
    BY <1>1, <2>1, <2>2 DEF IInv, TypeOK
  <2>4. CountInv' /\ UrlInv'
    BY <1>1, <2>1 DEF IInv, CountInv, UrlInv
  <2>5. ReplyInv'
    BY <1>1, <2>1 DEF ReplyInv, Matches
  <2> QED
    BY <1>2, <2>3, <2>4, <2>5 DEF IInv
<1>6. CASE GetFails \/ CallbackThrows \/ RecoverFails
  <2>1. /\ UNCHANGED <<since, reply>> /\ pc # "dead"
        /\ max_failures' = max_failures - 1 /\ row' = row + 1
        /\ pc' = IF max_failures = 1 THEN "dead" ELSE "get"
    BY <1>6 DEF GetFails, CallbackThrows, RecoverFails, Failure
  <2>2. /\ max_failures \in 1 .. MAX_FAILURES /\ row \in Nat
        /\ max_failures + row = MAX_FAILURES
    BY <2>1, EtcdConstants DEF EtcdConstants, IInv, TypeOK, CountInv
  <2>3. max_failures' \in 0 .. MAX_FAILURES /\ row' \in 0 .. MAX_FAILURES
    BY <2>1, <2>2, EtcdConstants DEF EtcdConstants
  <2>4. TypeOK'
    BY <1>1, <2>1, <2>3 DEF IInv, TypeOK
  <2>5. CountInv'
    BY <1>1, <2>1, <2>2, EtcdConstants DEF EtcdConstants, IInv, CountInv
  <2>6. UrlInv' /\ ReplyInv'
    BY <1>1, <2>1 DEF IInv, UrlInv, ReplyInv
  <2> QED
    BY <1>2, <2>4, <2>5, <2>6 DEF IInv
<1>7. CASE EmptyAnswer
  <2>1. TypeOK'
    BY <1>7 DEF EmptyAnswer, IInv, TypeOK
  <2>2. CountInv' /\ ReplyInv' /\ UrlInv'
    BY <1>7 DEF EmptyAnswer, IInv, CountInv, ReplyInv, UrlInv
  <2> QED
    BY <1>2, <2>1, <2>2 DEF IInv
<1> QED
  BY <1>3, <1>4, <1>5, <1>6, <1>7

(* The change handled is the first one after the last: nothing lies between.*)
LEMMA CallbackInv == ASSUME IInv, Callback PROVE IInv'
<1>1. /\ UNCHANGED <<log, since, reply, covered>> /\ pc' = "get"
      /\ called' = Append(called, reply) /\ prev_index_' = reply
      /\ watch_url' = [waitIndex |-> reply + 1, recursive |-> TRUE]
      /\ max_failures' = MAX_FAILURES /\ row' = 0
  BY DEF Callback, NextUrl
<1>2. /\ since \in Nat /\ reply \in since + 1 .. Len(log)
      /\ Len(log) \in Nat /\ Len(log) =< MaxChanges
      /\ watch_url.recursive
      /\ \A j \in since + 1 .. reply - 1 : ~Matches(j)
  BY EtcdConstants DEF EtcdConstants, Callback, IInv, TypeOK, CountInv, ReplyInv,
                       Matches
<1>3. /\ called \in Seq(1 .. MaxChanges) /\ prev_index_ \in Nat
      /\ reply \in 1 .. MaxChanges
  BY <1>2, EtcdConstants DEF EtcdConstants, IInv, TypeOK
<1>4. /\ called' \in Seq(1 .. MaxChanges) /\ Len(called') = Len(called) + 1
      /\ \A n \in 1 .. Len(called) : called'[n] = called[n]
      /\ called'[Len(called) + 1] = reply
  BY <1>1, <1>3
<1>5. TypeOK'
  <2>1. watch_url' \in Url
    BY <1>1, <1>3, EtcdConstants DEF EtcdConstants, Url
  <2> QED
    BY <1>1, <1>2, <1>4, <2>1, EtcdConstants DEF EtcdConstants, IInv, TypeOK
<1>6. CountInv' /\ ReplyInv'
  BY <1>1, EtcdConstants DEF EtcdConstants, IInv, CountInv, ReplyInv
<1>7. UrlInv'
  BY <1>1, <1>2 DEF UrlInv
<1>8. called # <<>> => since = prev_index_
  BY DEF Callback, IInv, UrlInv
<1>9. CalledInv'
  <2> SUFFICES ASSUME NEW n \in 1 .. Len(called) + 1 PROVE called'[n] =< reply
    BY <1>1, <1>4 DEF CalledInv
  <2>1. CASE n = Len(called) + 1
    BY <1>3, <1>4, <2>1
  <2>2. CASE n \in 1 .. Len(called)
    <3>1. called[n] =< prev_index_ /\ called[n] \in Nat
      BY <2>2, CalledFacts, EtcdConstants DEF EtcdConstants
    <3>2. called # <<>>
      BY <2>2
    <3> QED
      BY <1>2, <1>3, <1>4, <1>8, <2>2, <3>1, <3>2
  <2> QED
    BY <1>3, <2>1, <2>2
<1>10. ASSUME NEW m \in 1 .. Len(called'), NEW n \in 1 .. Len(called'), m < n
       PROVE  called'[m] < called'[n]
  <2>0. Len(called) \in Nat /\ m \in 1 .. Len(called)
    BY <1>3, <1>4, <1>10
  <2>1. CASE n = Len(called) + 1
    <3>1. called[m] =< prev_index_ /\ called[m] \in Nat
      BY <2>0, CalledFacts, EtcdConstants DEF EtcdConstants
    <3>2. called # <<>>
      BY <2>0
    <3> QED
      BY <1>2, <1>3, <1>4, <1>8, <2>0, <2>1, <3>1, <3>2
  <2>2. CASE n \in 1 .. Len(called)
    BY <1>4, <1>10, <2>0, <2>2 DEF IInv, NoneSkipped
  <2> QED
    BY <1>4, <2>0, <2>1, <2>2
<1>11. ASSUME NEW i \in called'[1] .. reply, log[i] # "elsewhere"
       PROVE  i =< covered \/ IsCalled(i)'
  <2>1. Len(called) \in Nat /\ (called # <<>> => 1 \in 1 .. Len(called))
    BY <1>3
  <2>2. CASE i = reply
    <3>1. Len(called) + 1 \in 1 .. Len(called')
      BY <1>4, <2>1
    <3> QED
      BY <1>4, <2>2, <3>1 DEF IsCalled
  <2>3. CASE i # reply /\ called = <<>>
    <3>1. called'[1] = reply
      BY <1>3, <1>4, <2>3
    <3> QED
      BY <1>3, <1>11, <2>3, <3>1
  <2>4. CASE i # reply /\ called # <<>>
    <3>1. called'[1] = called[1] /\ called[1] \in 1 .. MaxChanges
      BY <1>4, <2>1, <2>4, CalledFacts
    <3>2. i \in Nat /\ i < reply /\ i >= called[1]
      BY <1>3, <1>11, <2>4, <3>1
    <3>3. CASE i =< prev_index_
      <4>1. i =< covered \/ IsCalled(i)
        BY <1>3, <1>11, <2>4, <3>1, <3>2, <3>3 DEF IInv, NoneSkipped
      <4>2. IsCalled(i) => IsCalled(i)'
        BY <1>4, <2>1 DEF IsCalled
      <4> QED
        BY <4>1, <4>2
    <3>4. CASE i > prev_index_
      <4>1. i \in since + 1 .. reply - 1
        BY <1>2, <1>3, <1>8, <2>4, <3>2, <3>4
      <4>2. log[i] \notin {"below", "throws"}
        BY <1>2, <4>1 DEF Matches
      <4>3. i \in 1 .. Len(log) /\ log \in Seq(Kinds)
        BY <1>2, <4>1 DEF IInv, TypeOK
      <4>4. log[i] \in Kinds
        BY <4>3
      <4> QED
        BY <1>11, <4>2, <4>4 DEF Kinds
    <3> QED
      BY <1>3, <3>2, <3>3, <3>4
  <2> QED
    BY <2>2, <2>3, <2>4
<1>12. NoneSkipped'
  BY <1>1, <1>10, <1>11 DEF NoneSkipped
<1> QED
  BY <1>5, <1>6, <1>7, <1>9, <1>12 DEF IInv

(* A recovery shows the store up to the index from which it watches again.  *)
LEMMA RecoverInv == ASSUME IInv, Recover PROVE IInv'
<1>1. /\ UNCHANGED <<log, since, reply, called>> /\ pc = "recover"
      /\ covered' = Len(log) /\ prev_index_' = Len(log)
      /\ watch_url' = [waitIndex |-> Len(log) + 1, recursive |-> FALSE]
      /\ max_failures' = max_failures - 1 /\ row' = row + 1
      /\ pc' = IF max_failures = 1 THEN "dead" ELSE "get"
  BY DEF Recover, Failure
<1>2. /\ max_failures \in 1 .. MAX_FAILURES /\ row \in Nat
      /\ max_failures + row = MAX_FAILURES
  BY <1>1, EtcdConstants DEF EtcdConstants, IInv, TypeOK, CountInv
<1>3. /\ log \in Seq(Kinds) /\ Len(log) \in Nat /\ Len(log) =< MaxChanges
      /\ called \in Seq(1 .. MaxChanges)
      /\ prev_index_ \in 0 .. Len(log)
  BY DEF IInv, TypeOK, CountInv
<1>4. TypeOK'
  <2>1. watch_url' \in Url
    BY <1>1, <1>3, EtcdConstants DEF EtcdConstants, Url
  <2>2. max_failures' \in 0 .. MAX_FAILURES /\ row' \in 0 .. MAX_FAILURES
    BY <1>1, <1>2, EtcdConstants DEF EtcdConstants
  <2> QED
    BY <1>1, <1>3, <2>1, <2>2 DEF IInv, TypeOK
<1>5. CountInv'
  BY <1>1, <1>2, <1>3, EtcdConstants DEF EtcdConstants, CountInv
<1>6. UrlInv' /\ ReplyInv'
  BY <1>1, <1>3 DEF UrlInv, ReplyInv
<1>7. CalledInv'
  <2> SUFFICES ASSUME NEW n \in 1 .. Len(called) PROVE called[n] =< Len(log)
    BY <1>1 DEF CalledInv
  <2>1. called[n] =< prev_index_ /\ called[n] \in Nat
    BY CalledFacts, EtcdConstants DEF EtcdConstants
  <2> QED
    BY <1>3, <2>1
<1>8. NoneSkipped'
  <2>1. ASSUME called # <<>>, NEW i \in called[1] .. Len(log) PROVE i =< Len(log)
    <3>1. called[1] \in Nat
      BY <2>1, CalledFacts, EtcdConstants DEF EtcdConstants
    <3> QED
      BY <1>3, <2>1, <3>1
  <2> QED
    BY <1>1, <2>1 DEF IInv, NoneSkipped
<1> QED
  BY <1>4, <1>5, <1>6, <1>7, <1>8 DEF IInv

(* The inductive invariant.                                                 *)
LEMMA Inductive == Spec => []IInv
<1>1. IInv /\ [Next]_vars => IInv'
  <2> SUFFICES ASSUME IInv, [Next]_vars PROVE IInv'
    OBVIOUS
  <2>1. CASE UNCHANGED vars
    BY <2>1 DEF vars, IInv, TypeOK, CountInv, UrlInv, ReplyInv, CalledInv,
                NoneSkipped, IsCalled, Matches
  <2>2. CASE \E k \in Kinds : Change(k)
    BY <2>2, ChangeInv
  <2>3. CASE Get \/ GetOutdated \/ Answer \/ GetFails \/ EmptyAnswer
             \/ CallbackThrows \/ RecoverFails
    BY <2>3, RequestInv
  <2>4. CASE Callback
    BY <2>4, CallbackInv
  <2>5. CASE Recover
    BY <2>5, RecoverInv
  <2> QED
    BY <2>1, <2>2, <2>3, <2>4, <2>5 DEF Next
<1> QED
  BY <1>1, InitInv, PTL DEF Spec

(* The variables of Watch::Run keep their types.                            *)
THEOREM TypeCorrect == Spec => []TypeOK
<1>1. IInv => TypeOK
  BY DEF IInv
<1> QED
  BY <1>1, Inductive, PTL

(* However requests fail, callbacks throw and etcd forgets, the callback of *)
(* Watch::Run is called once per change, in order and without a gap, except *)
(* for what a recovery's GET has shown instead.                             *)
THEOREM NothingSkipped == Spec => []NoneSkipped
<1>1. IInv => NoneSkipped
  BY DEF IInv
<1> QED
  BY <1>1, Inductive, PTL

(* Watch::Run throws exactly after MAX_FAILURES failures in a row: requests *)
(* that fail, callbacks that throw and recoveries, in any mixture.  Answers *)
(* without a body are not among them: they end the process.                 *)
THEOREM GivesUp == Spec => []GivesUpInARow
<1>1. IInv => GivesUpInARow
  BY EtcdConstants DEF EtcdConstants, IInv, TypeOK, CountInv, GivesUpInARow
<1> QED
  BY <1>1, Inductive, PTL

=============================================================================

------------------------- MODULE LatencyStatsProofs -------------------------
(***************************************************************************)
(* Proofs about LatencyStats, for every number of requests, every queue    *)
(* size, every set of event loop threads and all faults.                   *)
(***************************************************************************)
EXTENDS LatencyStats, SequenceTheorems, TLAPS

-----------------------------------------------------------------------------
(* Taking an element out of a sequence leaves elements of that sequence.   *)
LEMMA RemoveAtElements ==
  ASSUME NEW S, NEW s \in Seq(S), NEW i \in 1 .. Len(s)
  PROVE  /\ RemoveAt(s, i) \in Seq(S)
         /\ \A j \in 1 .. Len(RemoveAt(s, i)) :
              \E k \in 1 .. Len(s) : RemoveAt(s, i)[j] = s[k]
<1> DEFINE a == SubSeq(s, 1, i - 1)
           b == SubSeq(s, i + 1, Len(s))
<1>1. /\ a \in Seq(S) /\ Len(a) = i - 1
      /\ \A j \in 1 .. i - 1 : a[j] = s[j]
  BY SubSeqProperties
<1>2. /\ b \in Seq(S) /\ Len(b) = Len(s) - i
      /\ \A j \in 1 .. Len(s) - i : b[j] = s[i + j]
  BY SubSeqProperties
<1>3. RemoveAt(s, i) = a \o b
  BY DEF RemoveAt
<1> HIDE DEF a, b
<1>4. /\ a \o b \in Seq(S) /\ Len(a \o b) = Len(a) + Len(b)
      /\ \A j \in 1 .. Len(a) + Len(b) :
           (a \o b)[j] = IF j <= Len(a) THEN a[j] ELSE b[j - Len(a)]
  BY <1>1, <1>2, ConcatProperties
<1>5. ASSUME NEW j \in 1 .. Len(RemoveAt(s, i))
      PROVE  \E k \in 1 .. Len(s) : RemoveAt(s, i)[j] = s[k]
  <2>1. j \in 1 .. Len(s) - 1
    BY <1>1, <1>2, <1>3, <1>4
  <2>2. CASE j =< i - 1
    <3>1. RemoveAt(s, i)[j] = s[j]
      BY <1>1, <1>2, <1>3, <1>4, <2>1, <2>2
    <3> QED
      BY <3>1, <2>1
  <2>3. CASE ~(j =< i - 1)
    <3>1. RemoveAt(s, i)[j] = b[j - (i - 1)]
      BY <1>1, <1>2, <1>3, <1>4, <2>1, <2>3
    <3>2. j - (i - 1) \in 1 .. Len(s) - i /\ i + (j - (i - 1)) = j + 1
      BY <2>1, <2>3
    <3>3. b[j - (i - 1)] = s[j + 1]
      BY <1>2, <3>2
    <3> QED
      BY <3>1, <3>3, <2>1
  <2> QED
    BY <2>2, <2>3
<1> QED
  BY <1>3, <1>4, <1>5

(* A program counter of a thread that handles a reply says what it holds.   *)
LEMMA RecvShapes ==
  ASSUME NEW r \in RecvState
  PROVE  /\ r.pc = "dequeue" => /\ r.xid \in Xids
                                /\ r.at \in Times
         /\ r.pc = "account" => r.at \in Times /\ r.entry \in Request
  BY DEF RecvState, Idle

(* The initial state has its types.                                        *)
LEMMA InitTypeOK == Init => TypeOK
<1> SUFFICES ASSUME Init PROVE TypeOK
  OBVIOUS
<1>1. <<>> \in Seq(Request) /\ <<>> \in Seq(Xids)
  OBVIOUS
<1>2. now \in Times /\ idx \in 0 .. MaxXid
  BY LatencyConstants DEF LatencyConstants, Init, Times
<1>3. counters_ \in [Types -> Nat] /\ recv \in [Workers -> RecvState]
  BY DEF Init, RecvState
<1> QED
  BY <1>1, <1>2, <1>3 DEF Init, TypeOK

-----------------------------------------------------------------------------
(* Every step keeps the types.                                             *)
LEMMA NextTypeOK == TypeOK /\ [Next]_vars => TypeOK'
<1> SUFFICES ASSUME TypeOK, [Next]_vars PROVE TypeOK'
  OBVIOUS
<1>1. CASE NextRequest
  BY <1>1, LatencyConstants DEF LatencyConstants, NextRequest, Xids, TypeOK,
         queueVars, netVars, statVars, history
<1>2. CASE Visit
  BY <1>2 DEF Visit, TypeOK, queueVars, netVars, history
<1>3. CASE Reset
  BY <1>3 DEF Reset, TypeOK, queueVars, netVars, history
<1>4. CASE Stamp
  BY <1>4 DEF Stamp, TypeOK, Request, queueVars, netVars, statVars, history
<1>5. CASE Send
  <2>1. msg.type \in Types /\ msg.xid \in Xids
    BY <1>5 DEF Send, TypeOK, Request
  <2>2. to_switch' \in Seq(Xids)
    BY <1>5, <2>1 DEF Send, TypeOK
  <2>3. counters_' \in [Types -> Nat]
    BY <1>5, <2>1 DEF Send, TypeOK
  <2> QED
    BY <1>5, <2>2, <2>3 DEF Send, TypeOK, queueVars, statVars
<1>6. CASE Record
  <2>1. msg \in Request /\ msg.xid \in Xids
    BY <1>6 DEF Record, TypeOK, Request
  <2>2. Append(reply_waiting_list, msg) \in Seq(Request)
    BY <2>1 DEF TypeOK
  <2>3. CASE CanEnqueue
    <3>1. /\ reply_waiting_list' = Append(reply_waiting_list, msg)
          /\ enqueued' = enqueued + 1
          /\ dequeued' = dequeued /\ overflowed' = overflowed
      BY <1>6, <2>3 DEF Record, sent
    <3>2. reply_waiting_list' \in Seq(Request) /\ enqueued' \in Nat
      BY <2>2, <3>1 DEF TypeOK
    <3> QED
      BY <1>6, <3>1, <3>2 DEF Record, TypeOK, netVars, statVars
  <2>4. CASE ~CanEnqueue
    BY <1>6, <2>1, <2>4
    DEF Record, sent, TypeOK, queueVars, netVars, statVars
  <2> QED
    BY <2>3, <2>4
<1>7. CASE SwitchReplies
  <2> PICK i \in 1 .. Len(to_switch) :
        /\ replies' = Append(replies, to_switch[i])
        /\ to_switch' = RemoveAt(to_switch, i)
        /\ UNCHANGED <<now, runVars, queueVars, alive, recv, statVars, history>>
    BY <1>7 DEF SwitchReplies
  <2>1. to_switch' \in Seq(Xids)
    BY RemoveAtElements DEF TypeOK
  <2> QED
    BY <2>1 DEF TypeOK, runVars, queueVars, statVars, history
<1>8. CASE SwitchLoses
  BY <1>8 DEF SwitchLoses, TypeOK, runVars, queueVars, statVars, history
<1>9. CASE Close
  <2>1. <<>> \in Seq(Xids)
    OBVIOUS
  <2> QED
    BY <1>9, <2>1 DEF Close, TypeOK, runVars, queueVars, statVars, history
<1>10. CASE Tick
  BY <1>10, LatencyConstants DEF LatencyConstants, Tick, Times, TypeOK,
         runVars, queueVars, netVars, statVars, history
<1>11. CASE ReplyArrives
  BY <1>11 DEF ReplyArrives, TypeOK, RecvState, Workers, runVars, queueVars,
         statVars
<1>12. ASSUME NEW w \in Workers, UnaskedReply(w) PROVE TypeOK'
  <2> PICK x \in Xids :
        /\ recv' = [recv EXCEPT ![w] = [pc |-> "dequeue", xid |-> x, at |-> now]]
        /\ unasked' = unasked \cup {x}
    BY <1>12 DEF UnaskedReply
  <2> QED
    BY <1>12 DEF UnaskedReply, TypeOK, RecvState, runVars, queueVars, netVars,
           statVars
<1>13. ASSUME NEW w \in Workers, Exhausted(w) PROVE TypeOK'
  <2>1. recv[w].xid \in Xids
    BY <1>13, RecvShapes DEF Exhausted, TypeOK
  <2> QED
    BY <1>13, <2>1 DEF Exhausted, TypeOK, RecvState, runVars, queueVars,
           netVars, statVars
<1>14. ASSUME NEW w \in Workers, Discard(w) PROVE TypeOK'
  <2>1. Head(reply_waiting_list) \in Request
    BY <1>14, HeadTailProperties DEF Discard, TypeOK
  <2>2. Tail(reply_waiting_list) \in Seq(Request)
    BY <1>14, HeadTailProperties DEF Discard, TypeOK
  <2>3. Head(reply_waiting_list).xid \in Xids
    BY <2>1 DEF Request
  <2> QED
    BY <1>14, <2>2, <2>3
    DEF Discard, dequeue, TypeOK, runVars, netVars, statVars
<1>15. ASSUME NEW w \in Workers, Match(w) PROVE TypeOK'
  <2>1. recv[w].at \in Times
    BY <1>15, RecvShapes DEF Match, TypeOK
  <2> QED
    BY <1>15, <2>1 DEF Match, dequeue, TypeOK, RecvState, runVars, netVars,
           statVars, history
<1>16. ASSUME NEW w \in Workers, Account(w) PROVE TypeOK'
  <2>1. recv[w].at \in Times /\ recv[w].entry \in Request
    BY <1>16, RecvShapes DEF Account, TypeOK
  <2>2. SampleOf(recv[w].entry, recv[w].at) \in Sample
    BY <2>1 DEF SampleOf, Sample, Request
  <2> QED
    BY <1>16, <2>2 DEF Account, TypeOK, RecvState, runVars, queueVars, netVars,
           history
<1>17. CASE UNCHANGED vars
  BY <1>17 DEF vars, TypeOK, runVars, queueVars, netVars, statVars, history
<1> QED
  BY <1>1, <1>2, <1>3, <1>4, <1>5, <1>6, <1>7, <1>8, <1>9, <1>10, <1>11,
     <1>12, <1>13, <1>14, <1>15, <1>16, <1>17
  DEF Next, Run, Received

(* The variables of a tenant's measurement always hold values the program  *)
(* can give them: in particular a request is stamped when it is sent and   *)
(* when it is recorded.                                                    *)
THEOREM TypeCorrect == Spec => []TypeOK
<1>1. Init => TypeOK
  BY InitTypeOK
<1>2. TypeOK /\ [Next]_vars => TypeOK'
  BY NextTypeOK
<1> QED
  BY <1>1, <1>2, PTL DEF Spec

-----------------------------------------------------------------------------
(***************************************************************************)
(* The inductive invariant behind SampleGenuine and SampledOnce.                  *)
(***************************************************************************)

(* Requests are issued under increasing identifiers, stamped in the past;   *)
(* the request in hand is the newest and issued once it awaits recording.  *)
IssueInv ==
  /\ \A r \in issued : r.xid =< idx /\ r.at =< now
  /\ \A r1, r2 \in issued : r1.xid = r2.xid => r1 = r2
  /\ pc \in {"loop", "reset", "send"} =>
       msg.xid = idx /\ \A r \in issued : r.xid < idx
  /\ pc = "send" => msg.at =< now
  /\ pc = "record" => msg \in issued /\ msg.xid = idx

(* Nothing travels but identifiers of issued requests. *)
WireInv ==
  /\ \A i \in 1 .. Len(to_switch) : to_switch[i] \in XidsOf(issued)
  /\ \A i \in 1 .. Len(replies) : replies[i] \in XidsOf(issued)
  /\ answered \subseteq XidsOf(issued)

(* The list holds issued requests in the order of their identifiers, all   *)
(* older than one about to be recorded.                                    *)
QueueInv ==
  /\ \A i \in 1 .. Len(reply_waiting_list) :
       /\ reply_waiting_list[i] \in issued
       /\ pc = "record" => reply_waiting_list[i].xid < idx
  /\ \A i, j \in 1 .. Len(reply_waiting_list) :
       i < j => reply_waiting_list[i].xid < reply_waiting_list[j].xid

(* A thread looks for an answered request that was stamped before the      *)
(* reply arrived, and holds the entry of one; unless nobody had asked for  *)
(* the reply.                                                              *)
RecvInv ==
  \A w \in Workers :
    /\ recv[w].pc = "dequeue" =>
         \/ recv[w].xid \in unasked
         \/ /\ recv[w].xid \in answered
            /\ \A r \in issued : r.xid = recv[w].xid => r.at =< recv[w].at
    /\ recv[w].pc = "account" =>
         /\ recv[w].entry \in issued
         /\ \/ recv[w].entry.xid \in unasked
            \/ /\ recv[w].entry.xid \in answered
               /\ recv[w].entry.at =< recv[w].at

(* x left the list before anything that is still in it or is to enter it.  *)
Left(x) ==
  /\ \A i \in 1 .. Len(reply_waiting_list) : x < reply_waiting_list[i].xid
  /\ pc = "record" => x < idx
  /\ x \in XidsOf(issued)

(* Whatever a thread holds or has measured left the list, each only once.  *)
LeftInv ==
  /\ \A w \in InHand : Left(recv[w].entry.xid)
  /\ \A s \in Measured : Left(s.xid)
  /\ \A w1, w2 \in InHand :
       recv[w1].entry.xid = recv[w2].entry.xid => w1 = w2

(* Such replies come only where they are among the faults.                 *)
UnaskedInv == "unasked" \notin Faults => unasked = {}

IInv ==
  /\ TypeOK /\ UnaskedInv /\ IssueInv /\ WireInv /\ QueueInv /\ RecvInv /\ LeftInv
  /\ SampleGenuine /\ MeasuredAtMostOnce

(* What the invariant says is about these variables only.                  *)
invVars == <<now, pc, idx, msg, reply_waiting_list, to_switch, replies, recv,
             Measured, issued, answered, unasked>>

LEMMA InvStutters ==
  ASSUME IInv, TypeOK', UNCHANGED invVars
  PROVE  IInv'
<1>1. IssueInv' /\ WireInv'
  BY DEF IInv, IssueInv, WireInv, XidsOf, invVars
<1>2. QueueInv' /\ RecvInv'
  BY DEF IInv, QueueInv, RecvInv, invVars
<1>3. InHand' = InHand
  BY DEF InHand, invVars
<1>4. ASSUME NEW x PROVE Left(x)' = Left(x)
  BY DEF Left, XidsOf, invVars
<1>5. LeftInv'
  BY <1>3, <1>4 DEF IInv, LeftInv, invVars
<1>6. SampleGenuine' /\ MeasuredAtMostOnce'
  BY <1>3 DEF IInv, SampleGenuine, MeasuredAtMostOnce, XidsOf, invVars
<1> QED
  BY <1>1, <1>2, <1>5, <1>6 DEF IInv, UnaskedInv, invVars

LEMMA InitInv == Init => IInv
<1> SUFFICES ASSUME Init PROVE IInv
  OBVIOUS
<1>1. TypeOK
  BY InitTypeOK
<1>2. InHand = {} /\ Measured = {}
  BY DEF Init, InHand, Measured, Idle
<1>3. IssueInv /\ WireInv /\ QueueInv
  BY DEF Init, IssueInv, WireInv, QueueInv
<1>4. RecvInv
  BY DEF Init, RecvInv, Idle
<1>5. LeftInv /\ SampleGenuine /\ MeasuredAtMostOnce
  BY <1>2 DEF LeftInv, SampleGenuine, MeasuredAtMostOnce
<1> QED
  BY <1>1, <1>3, <1>4, <1>5 DEF IInv, Init, UnaskedInv

(* Steps of the tenant's thread before it sends.                           *)
LEMMA RunBeforeSend ==
  ASSUME IInv, TypeOK', NextRequest \/ Stamp \/ Tick
  PROVE  IInv'
<1> USE DEF queueVars, netVars, statVars, history, runVars
<1>1. UNCHANGED <<reply_waiting_list, to_switch, replies, recv, stats_latency_,
                  published, lost, issued, answered, unasked>>
  BY DEF NextRequest, Stamp, Tick
<1>2. pc' # "record" \/ UNCHANGED <<pc, idx>>
  BY DEF NextRequest, Stamp, Tick
<1>a. /\ idx \in Nat /\ now \in Nat
      /\ \A r \in issued : r.xid \in Nat /\ r.at \in Nat
  <2>1. idx \in 0 .. MaxXid /\ now \in 0 .. MaxTime /\ issued \subseteq Request
    BY DEF IInv, TypeOK, Times
  <2>2. ASSUME NEW r \in Request PROVE r.xid \in Nat /\ r.at \in Nat
    BY LatencyConstants DEF LatencyConstants, Request, Times, Xids
  <2> QED
    BY <2>1, <2>2, LatencyConstants DEF LatencyConstants
<1>3. IssueInv'
  <2>1. CASE NextRequest
    BY <1>1, <1>a, <2>1 DEF IInv, IssueInv, NextRequest
  <2>2. CASE Stamp
    BY <1>1, <1>a, <2>2 DEF IInv, IssueInv, Stamp
  <2>3. CASE Tick
    BY <1>1, <1>a, <2>3 DEF IInv, TypeOK, IssueInv, Tick, Request, Times
  <2> QED
    BY <2>1, <2>2, <2>3
<1>4. WireInv'
  BY <1>1 DEF IInv, WireInv, XidsOf
<1>5. QueueInv' /\ RecvInv'
  BY <1>1, <1>2 DEF IInv, QueueInv, RecvInv
<1>6. InHand' = InHand /\ Measured' = Measured
  BY <1>1 DEF InHand, Measured
<1>7. ASSUME NEW x, Left(x) PROVE Left(x)'
  BY <1>1, <1>2, <1>7 DEF Left, XidsOf
<1>8. LeftInv'
  BY <1>1, <1>6, <1>7 DEF IInv, LeftInv
<1>9. SampleGenuine' /\ MeasuredAtMostOnce'
  BY <1>1, <1>6 DEF IInv, SampleGenuine, MeasuredAtMostOnce, XidsOf
<1> QED
  BY <1>1, <1>3, <1>4, <1>5, <1>8, <1>9 DEF IInv, UnaskedInv

(* The request is issued: everything issued, answered or measured before   *)
(* has a smaller identifier.                                               *)
LEMMA SendInv ==
  ASSUME IInv, TypeOK', Send
  PROVE  IInv'
<1> USE DEF queueVars, statVars
<1>1. UNCHANGED <<now, idx, msg, reply_waiting_list, replies, recv,
                  stats_latency_, published, lost, answered, unasked>>
  BY DEF Send
<1>2. /\ issued' = issued \cup {msg} /\ pc = "send"
      /\ pc' \in {"record", "next"}
      /\ msg.xid = idx /\ msg.at =< now
      /\ \A r \in issued : r.xid < idx
  BY DEF Send, IInv, IssueInv
<1>3. idx \in Nat /\ \A r \in issued : r.xid \in Nat
  BY LatencyConstants DEF LatencyConstants, IInv, TypeOK, Request, Xids
<1>4. IssueInv'
  BY <1>1, <1>2, <1>3 DEF IInv, IssueInv
<1>5. WireInv'
  <2>1. XidsOf(issued') = XidsOf(issued) \cup {msg.xid}
    BY <1>2 DEF XidsOf
  <2>2. \A i \in 1 .. Len(to_switch') : to_switch'[i] \in XidsOf(issued')
    <3>1. CASE to_switch' = to_switch
      BY <2>1, <3>1 DEF IInv, WireInv
    <3>2. CASE to_switch' = Append(to_switch, msg.xid)
      <4>1. \A i \in 1 .. Len(to_switch') :
              to_switch'[i] = msg.xid \/
              \E k \in 1 .. Len(to_switch) : to_switch'[i] = to_switch[k]
        <5>1. to_switch \in Seq(Xids)
          BY DEF IInv, TypeOK
        <5>2. msg.xid \in Xids
          BY <1>2 DEF IInv, TypeOK, Request
        <5> QED
          BY <3>2, <5>1, <5>2
      <4> QED
        BY <2>1, <4>1 DEF IInv, WireInv
    <3> QED
      BY <3>1, <3>2 DEF Send
  <2> QED
    BY <1>1, <2>1, <2>2 DEF IInv, WireInv, XidsOf
<1>6. QueueInv'
  BY <1>1, <1>2 DEF IInv, QueueInv
<1>7. RecvInv'
  <2>1. answered \subseteq XidsOf(issued)
    BY DEF IInv, WireInv
  <2>2. ASSUME NEW x \in answered PROVE x # msg.xid
    BY <1>2, <1>3, <2>1 DEF XidsOf
  <2> QED
    BY <1>1, <1>2, <2>2 DEF IInv, RecvInv
<1>8. InHand' = InHand /\ Measured' = Measured
  BY <1>1 DEF InHand, Measured
<1>9. ASSUME NEW x, Left(x) PROVE Left(x)'
  BY <1>1, <1>2, <1>9 DEF Left, XidsOf
<1>10. LeftInv'
  BY <1>1, <1>8, <1>9 DEF IInv, LeftInv
<1>11. SampleGenuine' /\ MeasuredAtMostOnce'
  BY <1>1, <1>2, <1>8 DEF IInv, SampleGenuine, MeasuredAtMostOnce, XidsOf
<1> QED
  BY <1>1, <1>4, <1>5, <1>6, <1>7, <1>10, <1>11 DEF IInv, UnaskedInv

(* The request enters the list behind all older ones.                      *)
LEMMA RecordInv ==
  ASSUME IInv, TypeOK', Record
  PROVE  IInv'
<1> USE DEF netVars, statVars
<1>1. UNCHANGED <<now, idx, msg, to_switch, replies, recv, stats_latency_,
                  published, lost, issued, answered, unasked>>
  BY DEF Record
<1>2. pc = "record" /\ pc' = "next" /\ msg \in issued /\ msg.xid = idx
  BY DEF Record, IInv, IssueInv
<1>3. \/ reply_waiting_list' = reply_waiting_list
      \/ reply_waiting_list' = Append(reply_waiting_list, msg)
  BY DEF Record, sent, queueVars
<1>4. /\ reply_waiting_list \in Seq(Request)
      /\ \A i \in 1 .. Len(reply_waiting_list) :
           reply_waiting_list[i] \in issued /\ reply_waiting_list[i].xid < idx
  BY <1>2 DEF IInv, TypeOK, QueueInv
<1>5. IssueInv' /\ WireInv' /\ RecvInv'
  BY <1>1, <1>2 DEF IInv, IssueInv, WireInv, RecvInv, XidsOf
<1>6. QueueInv'
  <2>1. CASE reply_waiting_list' = reply_waiting_list
    BY <1>1, <1>2, <2>1 DEF IInv, QueueInv
  <2>2. CASE reply_waiting_list' = Append(reply_waiting_list, msg)
    <3>1. /\ Len(reply_waiting_list') = Len(reply_waiting_list) + 1
          /\ \A i \in 1 .. Len(reply_waiting_list) :
               reply_waiting_list'[i] = reply_waiting_list[i]
          /\ reply_waiting_list'[Len(reply_waiting_list) + 1] = msg
          /\ Len(reply_waiting_list) \in Nat
      BY <1>4, <2>2, <1>2 DEF IInv, TypeOK
    <3> QED
      BY <1>1, <1>2, <1>4, <3>1 DEF IInv, QueueInv
  <2> QED
    BY <1>3, <2>1, <2>2
<1>7. ASSUME NEW x, Left(x) PROVE Left(x)'
  <2>1. CASE reply_waiting_list' = reply_waiting_list
    BY <1>1, <1>2, <1>7, <2>1 DEF Left, XidsOf
  <2>2. CASE reply_waiting_list' = Append(reply_waiting_list, msg)
    <3>1. msg \in Request
      BY <1>2 DEF IInv, TypeOK
    <3> QED
      BY <1>1, <1>2, <1>4, <1>7, <2>2, <3>1 DEF Left, XidsOf
  <2> QED
    BY <1>3, <2>1, <2>2
<1>8. InHand' = InHand /\ Measured' = Measured
  BY <1>1 DEF InHand, Measured
<1>9. LeftInv' /\ SampleGenuine' /\ MeasuredAtMostOnce'
  BY <1>1, <1>7, <1>8 DEF IInv, LeftInv, SampleGenuine, MeasuredAtMostOnce, XidsOf
<1> QED
  BY <1>1, <1>5, <1>6, <1>9 DEF IInv, UnaskedInv

(* Steps of the connection and of the switch.                              *)
LEMMA WireSteps ==
  ASSUME IInv, TypeOK', SwitchReplies \/ SwitchLoses \/ Close
  PROVE  IInv'
<1> USE DEF runVars, queueVars, statVars, history
<1>1. UNCHANGED <<now, pc, idx, msg, reply_waiting_list, recv, stats_latency_,
                  published, lost, issued, answered, unasked>>
  BY DEF SwitchReplies, SwitchLoses, Close
<1>2. WireInv'
  <2>1. CASE SwitchReplies
    <3> PICK i \in 1 .. Len(to_switch) :
          /\ replies' = Append(replies, to_switch[i])
          /\ to_switch' = RemoveAt(to_switch, i)
      BY <2>1 DEF SwitchReplies
    <3>1. \A j \in 1 .. Len(to_switch') :
            \E k \in 1 .. Len(to_switch) : to_switch'[j] = to_switch[k]
      <4>1. to_switch \in Seq(Xids)
        BY DEF IInv, TypeOK
      <4>2. \A j \in 1 .. Len(RemoveAt(to_switch, i)) :
              \E k \in 1 .. Len(to_switch) : RemoveAt(to_switch, i)[j] = to_switch[k]
        BY <4>1, RemoveAtElements
      <4> QED
        BY <4>2
    <3>2. \A j \in 1 .. Len(replies') :
            replies'[j] = to_switch[i] \/
            \E k \in 1 .. Len(replies) : replies'[j] = replies[k]
      <4>1. replies \in Seq(Xids) /\ to_switch \in Seq(Xids)
        BY DEF IInv, TypeOK
      <4>2. to_switch[i] \in Xids
        BY <4>1
      <4> QED
        BY <4>1, <4>2
    <3> QED
      BY <1>1, <3>1, <3>2 DEF IInv, WireInv, XidsOf
  <2>2. CASE SwitchLoses
    <3>1. \A j \in 1 .. Len(to_switch') :
            \E k \in 1 .. Len(to_switch) : to_switch'[j] = to_switch[k]
      BY <2>2, HeadTailProperties DEF SwitchLoses, IInv, TypeOK
    <3> QED
      BY <1>1, <2>2, <3>1 DEF SwitchLoses, IInv, WireInv, XidsOf
  <2>3. CASE Close
    BY <1>1, <2>3 DEF Close, IInv, WireInv, XidsOf
  <2> QED
    BY <2>1, <2>2, <2>3
<1>3. IssueInv' /\ QueueInv' /\ RecvInv'
  BY <1>1 DEF IInv, IssueInv, QueueInv, RecvInv
<1>4. InHand' = InHand /\ Measured' = Measured
  BY <1>1 DEF InHand, Measured
<1>5. ASSUME NEW x PROVE Left(x)' = Left(x)
  BY <1>1 DEF Left, XidsOf
<1>6. LeftInv' /\ SampleGenuine' /\ MeasuredAtMostOnce'
  BY <1>1, <1>4, <1>5 DEF IInv, LeftInv, SampleGenuine, MeasuredAtMostOnce, XidsOf
<1> QED
  BY <1>1, <1>2, <1>3, <1>6 DEF IInv, UnaskedInv

(* A reply reaches message_callback: it is stamped after its request was.  *)
LEMMA ReplyInv ==
  ASSUME IInv, TypeOK', NEW w \in Workers, ReplyArrives \/ UnaskedReply(w)
  PROVE  IInv'
<1> USE DEF runVars, queueVars, netVars, statVars, history
<1>1. UNCHANGED <<now, pc, idx, msg, reply_waiting_list, to_switch,
                  stats_latency_, published, lost, issued>>
  BY DEF ReplyArrives, UnaskedReply
<1>2. PICK v \in Workers, x \in Xids :
        /\ recv[v] = Idle
        /\ recv' = [recv EXCEPT ![v] = [pc |-> "dequeue", xid |-> x, at |-> now]]
        /\ x \in unasked' \/ (x \in answered' /\ x \in XidsOf(issued))
  <2>1. CASE ReplyArrives
    <3>1. replies \in Seq(Xids) /\ replies # << >>
      BY <2>1 DEF ReplyArrives, IInv, TypeOK
    <3>2. Head(replies) \in Xids /\ Head(replies) = replies[1]
          /\ 1 \in 1 .. Len(replies)
      BY <3>1, HeadTailProperties
    <3>3. Head(replies) \in XidsOf(issued)
      BY <3>2 DEF IInv, WireInv
    <3>4. /\ recv[Own] = Idle /\ Own \in Workers
          /\ recv' = [recv EXCEPT ![Own] =
                        [pc |-> "dequeue", xid |-> Head(replies), at |-> now]]
          /\ Head(replies) \in answered'
      BY <2>1 DEF ReplyArrives, Workers
    <3> QED
      BY <3>2, <3>3, <3>4
  <2>2. CASE UnaskedReply(w)
    BY <2>2 DEF UnaskedReply
  <2> QED
    BY <2>1, <2>2
<1>3. WireInv'
  <2>1. CASE ReplyArrives
    <3>1. \A j \in 1 .. Len(replies') :
            \E k \in 1 .. Len(replies) : replies'[j] = replies[k]
      BY <2>1, HeadTailProperties DEF ReplyArrives, IInv, TypeOK
    <3>2. Head(replies) \in XidsOf(issued)
      BY <2>1 DEF ReplyArrives, IInv, TypeOK, WireInv
    <3>3. \A j \in 1 .. Len(replies') : replies'[j] \in XidsOf(issued)
      BY <3>1 DEF IInv, WireInv
    <3>4. answered' \subseteq XidsOf(issued)
      BY <2>1, <3>2 DEF ReplyArrives, IInv, WireInv
    <3>5. \A j \in 1 .. Len(to_switch) : to_switch[j] \in XidsOf(issued)
      BY DEF IInv, WireInv
    <3>6. XidsOf(issued)' = XidsOf(issued)
      BY <1>1 DEF XidsOf
    <3> QED
      BY <1>1, <3>3, <3>4, <3>5, <3>6 DEF WireInv
  <2>2. CASE UnaskedReply(w)
    BY <1>1, <2>2 DEF UnaskedReply, IInv, WireInv, XidsOf
  <2> QED
    BY <2>1, <2>2
<1>4. answered \subseteq answered' /\ unasked \subseteq unasked' /\ UnaskedInv'
  BY DEF ReplyArrives, UnaskedReply, IInv, UnaskedInv
<1>5. IssueInv' /\ QueueInv'
  BY <1>1 DEF IInv, IssueInv, QueueInv
<1>6. recv \in [Workers -> RecvState]
  BY DEF IInv, TypeOK
<1>7. /\ recv'[v].pc = "dequeue" /\ recv'[v].xid = x /\ recv'[v].at = now
      /\ \A u \in Workers : u # v => recv'[u] = recv[u]
  BY <1>2, <1>6
<1>8. RecvInv'
  <2>1. ASSUME NEW u \in Workers, u # v
        PROVE /\ recv'[u].pc = "dequeue" =>
                    \/ recv'[u].xid \in unasked'
                    \/ /\ recv'[u].xid \in answered'
                       /\ \A r \in issued : r.xid = recv'[u].xid =>
                                              r.at =< recv'[u].at
              /\ recv'[u].pc = "account" =>
                    /\ recv'[u].entry \in issued
                    /\ \/ recv'[u].entry.xid \in unasked'
                       \/ /\ recv'[u].entry.xid \in answered'
                          /\ recv'[u].entry.at =< recv'[u].at
    BY <1>4, <1>7, <2>1 DEF IInv, RecvInv
  <2>2. \A r \in issued : r.at =< now
    BY DEF IInv, IssueInv
  <2> QED
    BY <1>1, <1>2, <1>7, <2>1, <2>2 DEF RecvInv
<1>9. InHand' = InHand
  BY <1>2, <1>7 DEF InHand, Idle
<1>10. \A u \in InHand : recv'[u] = recv[u]
  BY <1>2, <1>7 DEF InHand, Idle
<1>11. Measured' = Measured /\ \A y : Left(y)' = Left(y)
  BY <1>1 DEF Measured, Left, XidsOf
<1>12. LeftInv'
  BY <1>9, <1>10, <1>11 DEF IInv, LeftInv
<1>13. SampleGenuine' /\ MeasuredAtMostOnce'
  BY <1>1, <1>4, <1>9, <1>10, <1>11 DEF IInv, SampleGenuine, MeasuredAtMostOnce, XidsOf
<1> QED
  BY <1>3, <1>4, <1>5, <1>8, <1>12, <1>13 DEF IInv

(* An entry leaves the list: it is older than all that stay.                *)
LEMMA DequeueOrder ==
  ASSUME IInv, reply_waiting_list # <<>>,
         reply_waiting_list' = Tail(reply_waiting_list),
         UNCHANGED <<pc, idx, issued>>,
         NEW CONSTANT h, h = Head(reply_waiting_list)
  PROVE  /\ QueueInv'
         /\ h \in issued
         /\ Left(h.xid)'
         /\ \A x : Left(x) => Left(x)' /\ x # h.xid
<1> DEFINE q == reply_waiting_list
<1>1. /\ q \in Seq(Request) /\ Len(q) \in Nat \ {0} /\ h = q[1]
      /\ Len(q') = Len(q) - 1
      /\ \A i \in 1 .. Len(q') : i + 1 \in 1 .. Len(q) /\ q'[i] = q[i + 1]
  BY HeadTailProperties DEF IInv, TypeOK
<1>2. \A i \in 1 .. Len(q) : q[i].xid \in Nat
  <2>1. \A i \in 1 .. Len(q) : q[i] \in Request
    BY <1>1
  <2> QED
    BY <2>1 DEF Request, Xids
<1> HIDE DEF q
<1>3. /\ \A i \in 1 .. Len(q) : q[i] \in issued /\ (pc = "record" => q[i].xid < idx)
      /\ \A i, j \in 1 .. Len(q) : i < j => q[i].xid < q[j].xid
  BY DEF IInv, QueueInv, q
<1>4. \A i \in 1 .. Len(q') : q'[i] \in issued /\ (pc = "record" => q'[i].xid < idx)
  BY <1>1, <1>3
<1>5. \A i, j \in 1 .. Len(q') : i < j => q'[i].xid < q'[j].xid
  <2>1. ASSUME NEW i \in 1 .. Len(q'), NEW j \in 1 .. Len(q'), i < j
        PROVE  q'[i].xid < q'[j].xid
    <3>1. /\ i + 1 \in 1 .. Len(q) /\ j + 1 \in 1 .. Len(q)
          /\ q'[i] = q[i + 1] /\ q'[j] = q[j + 1]
      BY <1>1
    <3>2. i + 1 < j + 1
      BY <1>1, <2>1
    <3> QED
      BY <1>3, <3>1, <3>2
  <2> QED
    BY <2>1
<1>6. QueueInv'
  BY <1>4, <1>5 DEF QueueInv, q
<1>7. 1 \in 1 .. Len(q)
  BY <1>1
<1>8. \A i \in 1 .. Len(q') : h.xid < q'[i].xid
  BY <1>1, <1>3, <1>7
<1>9. Left(h.xid)'
  <2>1. h \in issued /\ (pc = "record" => h.xid < idx)
    BY <1>1, <1>3, <1>7
  <2>2. h.xid \in XidsOf(issued)
    BY <2>1 DEF XidsOf
  <2>3. XidsOf(issued)' = XidsOf(issued)
    BY DEF XidsOf
  <2> QED
    BY <1>8, <2>1, <2>2, <2>3 DEF Left, q
<1>10. ASSUME NEW x, Left(x) PROVE Left(x)' /\ x # h.xid
  <2>1. /\ \A i \in 1 .. Len(q) : x < q[i].xid
        /\ pc = "record" => x < idx
        /\ x \in XidsOf(issued)
    BY <1>10 DEF Left, q
  <2>2. x \in Nat
    BY <2>1 DEF XidsOf, IInv, TypeOK, Request, Xids
  <2>3. x # h.xid
    BY <1>1, <1>2, <1>7, <2>1, <2>2
  <2>4. \A i \in 1 .. Len(q') : x < q'[i].xid
    BY <1>1, <2>1
  <2> QED
    BY <2>1, <2>3, <2>4 DEF Left, XidsOf, q
<1> QED
  BY <1>1, <1>3, <1>6, <1>7, <1>9, <1>10 DEF q

(* received() gives up or throws an entry away: nothing is measured.       *)
LEMMA NoMatchInv ==
  ASSUME IInv, TypeOK', NEW w \in Workers, Exhausted(w) \/ Discard(w)
  PROVE  IInv'
<1> USE DEF runVars, netVars, statVars, history, queueVars
<1>1. UNCHANGED <<now, pc, idx, msg, to_switch, replies,
                  stats_latency_, published, lost, issued, answered, unasked>>
  BY DEF Exhausted, Discard
<1>2. /\ recv \in [Workers -> RecvState]
      /\ \A u \in Workers : recv'[u] = recv[u] \/ recv'[u] = Idle
      /\ recv[w].pc = "dequeue"
      /\ \A u \in Workers : u # w => recv'[u] = recv[u]
  BY DEF Exhausted, Discard, IInv, TypeOK
<1>3. InHand' = InHand /\ \A u \in InHand : recv'[u] = recv[u]
  BY <1>2 DEF InHand, Idle
<1>4. QueueInv' /\ \A x : Left(x) => Left(x)'
  <2>1. CASE Exhausted(w)
    BY <1>1, <2>1 DEF Exhausted, IInv, QueueInv, Left, XidsOf
  <2>2. CASE Discard(w)
    <3> PICK h : h = Head(reply_waiting_list)
      OBVIOUS
    <3> QED
      BY <1>1, <2>2, DequeueOrder DEF Discard, dequeue
  <2> QED
    BY <2>1, <2>2
<1>5. IssueInv' /\ WireInv'
  BY <1>1 DEF IInv, IssueInv, WireInv, XidsOf
<1>6. RecvInv'
  BY <1>1, <1>2 DEF IInv, RecvInv, Idle
<1>7. Measured' = Measured
  BY <1>1 DEF Measured
<1>8. LeftInv'
  BY <1>3, <1>4, <1>7 DEF IInv, LeftInv
<1>9. SampleGenuine' /\ MeasuredAtMostOnce'
  BY <1>1, <1>3, <1>7 DEF IInv, SampleGenuine, MeasuredAtMostOnce, XidsOf
<1> QED
  BY <1>1, <1>4, <1>5, <1>6, <1>8, <1>9 DEF IInv, UnaskedInv

(* The entry of an answered request is found: nobody has had it before.    *)
LEMMA MatchInv ==
  ASSUME IInv, TypeOK', NEW w \in Workers, Match(w)
  PROVE  IInv'
<1> USE DEF runVars, netVars, statVars, history
<1>1. UNCHANGED <<now, pc, idx, msg, to_switch, replies,
                  stats_latency_, published, lost, issued, answered, unasked>>
  BY DEF Match
<1>2. PICK h : h = Head(reply_waiting_list)
  OBVIOUS
<1>3. /\ reply_waiting_list # <<>>
      /\ reply_waiting_list' = Tail(reply_waiting_list)
      /\ recv[w].pc = "dequeue" /\ h.xid = recv[w].xid
      /\ recv' = [recv EXCEPT ![w] =
                    [pc |-> "account", at |-> recv[w].at, entry |-> h]]
  BY <1>2 DEF Match, dequeue
<1>4. /\ QueueInv' /\ h \in issued /\ Left(h.xid)'
      /\ \A x : Left(x) => Left(x)' /\ x # h.xid
  BY <1>1, <1>2, <1>3, DequeueOrder
<1>5. recv \in [Workers -> RecvState]
  BY DEF IInv, TypeOK
<1>6. /\ recv'[w].pc = "account" /\ recv'[w].entry = h
      /\ recv'[w].at = recv[w].at
      /\ \A u \in Workers : u # w => recv'[u] = recv[u]
  BY <1>3, <1>5
<1>7. h.xid \in unasked \/ (h.xid \in answered /\ h.at =< recv[w].at)
  BY <1>3, <1>4 DEF IInv, RecvInv
<1>8. IssueInv' /\ WireInv'
  BY <1>1 DEF IInv, IssueInv, WireInv, XidsOf
<1>9. RecvInv'
  BY <1>1, <1>4, <1>6, <1>7 DEF IInv, RecvInv
<1>10. InHand' = InHand \cup {w} /\ w \notin InHand
  BY <1>3, <1>6 DEF InHand
<1>11. \A u \in InHand : recv'[u] = recv[u]
  BY <1>3, <1>6 DEF InHand
<1>12. Measured' = Measured
  BY <1>1 DEF Measured
<1>13. LeftInv'
  <2>1. \A u \in InHand : Left(recv[u].entry.xid)
    BY DEF IInv, LeftInv
  <2>2. \A u \in InHand : recv[u].entry.xid # h.xid
    BY <1>4, <2>1
  <2>3. ASSUME NEW u \in InHand' PROVE Left(recv[u].entry.xid)'
    <3>1. PICK x : x = recv'[u].entry.xid
      OBVIOUS
    <3>2. CASE u = w
      <4>1. x = h.xid
        BY <1>6, <3>1, <3>2
      <4> QED
        BY <1>4, <3>1, <4>1
    <3>3. CASE u # w
      <4>1. u \in InHand
        BY <1>10, <3>3
      <4>2. x = recv[u].entry.xid
        BY <1>11, <3>1, <4>1
      <4>3. Left(x)
        BY <2>1, <4>1, <4>2
      <4> QED
        BY <1>4, <3>1, <4>3
    <3> QED
      BY <3>2, <3>3
  <2>4. \A s \in Measured' : Left(s.xid)'
    BY <1>4, <1>12 DEF IInv, LeftInv
  <2>5. \A u1, u2 \in InHand' :
          recv'[u1].entry.xid = recv'[u2].entry.xid => u1 = u2
    BY <1>6, <1>10, <1>11, <2>2 DEF IInv, LeftInv
  <2> QED
    BY <2>3, <2>4, <2>5 DEF LeftInv
<1>14. SampleGenuine'
  BY <1>1, <1>12 DEF IInv, SampleGenuine
<1>15. MeasuredAtMostOnce'
  <2>1. h.xid \notin XidsOf(Measured)
    BY <1>4 DEF IInv, LeftInv, XidsOf
  <2> QED
    BY <1>6, <1>10, <1>11, <1>12, <2>1 DEF IInv, MeasuredAtMostOnce, XidsOf
<1> QED
  BY <1>1, <1>4, <1>8, <1>9, <1>13, <1>14, <1>15 DEF IInv, UnaskedInv

(* The sample is taken: it is the first of its request.                    *)
LEMMA AccountInv ==
  ASSUME IInv, TypeOK', NEW w \in Workers, Account(w)
  PROVE  IInv'
<1> USE DEF runVars, queueVars, netVars, history
<1>1. UNCHANGED <<now, pc, idx, msg, reply_waiting_list, to_switch, replies,
                  published, lost, issued, answered, unasked>>
  BY DEF Account
<1>2. PICK e, at : e = recv[w].entry /\ at = recv[w].at
  OBVIOUS
<1>3. /\ recv[w].pc = "account" /\ recv' = [recv EXCEPT ![w] = Idle]
      /\ stats_latency_' = stats_latency_ \cup {SampleOf(e, at)}
  BY <1>2 DEF Account
<1>4. recv \in [Workers -> RecvState]
  BY DEF IInv, TypeOK
<1>5. recv'[w] = Idle /\ \A u \in Workers : u # w => recv'[u] = recv[u]
  BY <1>3, <1>4
<1>6. w \in InHand /\ InHand' = InHand \ {w}
  BY <1>3, <1>5 DEF InHand, Idle
<1>7. \A u \in InHand' : u # w /\ u \in InHand /\ recv'[u] = recv[u]
  BY <1>5, <1>6 DEF InHand
<1>8. Measured' = Measured \cup {SampleOf(e, at)}
  BY <1>1, <1>3 DEF Measured
<1>9. /\ e \in issued
      /\ e.xid \in unasked \/ (e.xid \in answered /\ e.at =< at)
      /\ Left(e.xid) /\ e.xid \notin XidsOf(Measured)
      /\ \A u \in InHand : recv[u].entry.xid = e.xid => u = w
  BY <1>2, <1>3, <1>6 DEF IInv, RecvInv, LeftInv, MeasuredAtMostOnce
<1>10. /\ SampleOf(e, at).xid = e.xid /\ SampleOf(e, at).type = e.type
       /\ SampleOf(e, at).sent = e.at /\ SampleOf(e, at).recv = at
  BY DEF SampleOf
<1>11. IssueInv' /\ WireInv' /\ QueueInv'
  BY <1>1 DEF IInv, IssueInv, WireInv, QueueInv, XidsOf
<1>12. RecvInv'
  BY <1>1, <1>5 DEF IInv, RecvInv, Idle
<1>13. ASSUME NEW x PROVE Left(x)' = Left(x)
  BY <1>1 DEF Left, XidsOf
<1>14. LeftInv'
  <2>1. \A u \in InHand' : Left(recv'[u].entry.xid)
    BY <1>7 DEF IInv, LeftInv
  <2>2. \A s \in Measured' : Left(s.xid)
    BY <1>8, <1>9, <1>10 DEF IInv, LeftInv
  <2>3. \A u1, u2 \in InHand' :
          recv'[u1].entry.xid = recv'[u2].entry.xid => u1 = u2
    BY <1>7 DEF IInv, LeftInv
  <2> QED
    BY <1>13, <2>1, <2>2, <2>3 DEF LeftInv
<1>15. SampleGenuine'
  BY <1>1, <1>8, <1>9, <1>10 DEF IInv, SampleGenuine
<1>16. MeasuredAtMostOnce'
  <2>1. \A s \in Measured : s.xid # e.xid
    BY <1>9 DEF XidsOf
  <2>2. \A u \in InHand' : recv'[u].entry.xid \notin XidsOf(Measured')
    BY <1>7, <1>8, <1>9, <1>10 DEF IInv, MeasuredAtMostOnce, XidsOf
  <2>3. \A s1, s2 \in Measured' : s1.xid = s2.xid => s1 = s2
    BY <1>8, <1>10, <2>1 DEF IInv, MeasuredAtMostOnce
  <2> QED
    BY <2>2, <2>3 DEF MeasuredAtMostOnce
<1> QED
  BY <1>1, <1>11, <1>12, <1>14, <1>15, <1>16 DEF IInv, UnaskedInv

(* Every step keeps the invariant.                                         *)
LEMMA NextInv == IInv /\ [Next]_vars => IInv'
<1> SUFFICES ASSUME IInv, [Next]_vars PROVE IInv'
  OBVIOUS
<1>1. TypeOK'
  BY NextTypeOK DEF IInv
<1>2. CASE NextRequest \/ Stamp \/ Tick
  BY <1>1, <1>2, RunBeforeSend
<1>3. CASE Visit \/ Reset
  <2>1. Measured' = Measured
    BY <1>3 DEF Visit, Reset, Measured
  <2>2. UNCHANGED <<now, idx, msg, reply_waiting_list, to_switch, replies,
                    recv, issued, answered, unasked>>
    BY <1>3 DEF Visit, Reset, queueVars, netVars, history
  <2>3. pc \in {"loop", "reset"} /\ pc' \in {"loop", "reset"}
    BY <1>3 DEF Visit, Reset
  <2>4. IssueInv' /\ WireInv'
    BY <2>2, <2>3 DEF IInv, IssueInv, WireInv, XidsOf
  <2>5. QueueInv' /\ RecvInv'
    BY <2>2, <2>3 DEF IInv, QueueInv, RecvInv
  <2>6. InHand' = InHand
    BY <2>2 DEF InHand
  <2>7. ASSUME NEW x, Left(x) PROVE Left(x)'
    BY <2>2, <2>3, <2>7 DEF Left, XidsOf
  <2>8. LeftInv'
    BY <2>1, <2>2, <2>6, <2>7 DEF IInv, LeftInv
  <2>9. SampleGenuine' /\ MeasuredAtMostOnce'
    BY <2>1, <2>2, <2>6 DEF IInv, SampleGenuine, MeasuredAtMostOnce, XidsOf
  <2> QED
    BY <1>1, <2>2, <2>4, <2>5, <2>8, <2>9 DEF IInv, UnaskedInv
<1>4. CASE Send
  BY <1>1, <1>4, SendInv
<1>5. CASE Record
  BY <1>1, <1>5, RecordInv
<1>6. CASE SwitchReplies \/ SwitchLoses \/ Close
  BY <1>1, <1>6, WireSteps
<1>7. CASE ReplyArrives
  BY <1>1, <1>7, ReplyInv DEF Workers
<1>8. ASSUME NEW w \in Workers, UnaskedReply(w) PROVE IInv'
  BY <1>1, <1>8, ReplyInv
<1>9. ASSUME NEW w \in Workers, Received(w) PROVE IInv'
  BY <1>1, <1>9, NoMatchInv, MatchInv, AccountInv DEF Received
<1>10. CASE UNCHANGED vars
  BY <1>1, <1>10, InvStutters
  DEF vars, invVars, Measured, runVars, queueVars, netVars, statVars, history
<1> QED
  BY <1>2, <1>3, <1>4, <1>5, <1>6, <1>7, <1>8, <1>9, <1>10 DEF Next, Run

LEMMA InvHolds == Spec => []IInv
<1>1. Init => IInv
  BY InitInv
<1>2. IInv /\ [Next]_vars => IInv'
  BY NextInv
<1> QED
  BY <1>1, <1>2, PTL DEF Spec

(* received() credits every sample to the type and the time stamp of the   *)
(* request with the identifier of the reply, whatever the order and number *)
(* of the replies, the number of threads that drain the list and the       *)
(* refusals of a full queue; and the reply was that request's own unless   *)
(* one nobody asked for came with the same identifier.                     *)
THEOREM GenuineSamples == Spec => []SampleGenuine
<1>1. IInv => SampleGenuine
  BY DEF IInv
<1> QED
  BY <1>1, InvHolds, PTL

(* A report has what was credited since the one before: the sample that is *)
(* credited next is of a request without one.                              *)
LEMMA NextReported == IInv /\ ReportedAtMostOnce /\ [Next]_vars => ReportedAtMostOnce'
<1> SUFFICES ASSUME IInv, ReportedAtMostOnce, [Next]_vars PROVE ReportedAtMostOnce'
  OBVIOUS
<1> USE DEF ReportedAtMostOnce
<1>1. CASE Visit
  BY <1>1 DEF Visit
<1>2. CASE Reset
  BY <1>2 DEF Reset
<1>3. CASE \/ NextRequest \/ Stamp \/ Send \/ Record \/ SwitchReplies \/ SwitchLoses
           \/ Close \/ Tick \/ ReplyArrives \/ UNCHANGED vars
  <2>1. stats_latency_' = stats_latency_ /\ published' = published
    BY <1>3 DEF NextRequest, Stamp, Send, Record, SwitchReplies, SwitchLoses, Close, Tick,
           ReplyArrives, vars, statVars
  <2>2. pc' # "reset" => pc # "reset"
    BY <1>3 DEF NextRequest, Stamp, Send, Record, SwitchReplies, SwitchLoses, Close, Tick,
           ReplyArrives, vars, runVars
  <2> QED
    BY <2>1, <2>2
<1>4. ASSUME NEW w \in Workers, UnaskedReply(w) \/ Exhausted(w) \/ Discard(w) \/ Match(w)
      PROVE  ReportedAtMostOnce'
  BY <1>4 DEF UnaskedReply, Exhausted, Discard, Match, statVars, runVars
<1>5. ASSUME NEW w \in Workers, Account(w)
      PROVE  ReportedAtMostOnce'
  <2>1. PICK x : x = SampleOf(recv[w].entry, recv[w].at)
    OBVIOUS
  <2>2. /\ stats_latency_' = stats_latency_ \cup {x}
        /\ published' = published /\ pc' = pc /\ recv[w].pc = "account"
    BY <1>5, <2>1 DEF Account, runVars
  <2>3. x.xid = recv[w].entry.xid
    BY <2>1 DEF SampleOf
  <2>4. x.xid \notin XidsOf(Measured)
    BY <2>2, <2>3 DEF IInv, MeasuredAtMostOnce, InHand
  <2>5. x \notin published
    BY <2>4 DEF XidsOf, Measured
  <2> QED
    BY <2>2, <2>5
<1> QED
  BY <1>1, <1>2, <1>3, <1>4, <1>5 DEF Next, Run, Received

(* No request is measured or reported twice, though it may be answered any *)
(* number of times.                                                        *)
THEOREM MeasuredOnce == Spec => []SampledOnce
<1>1. Init => IInv /\ ReportedAtMostOnce
  BY InitInv DEF Init, ReportedAtMostOnce
<1>2. (IInv /\ ReportedAtMostOnce) /\ [Next]_vars => (IInv /\ ReportedAtMostOnce)'
  BY NextInv, NextReported
<1>3. IInv /\ ReportedAtMostOnce => SampledOnce
  BY DEF IInv, SampledOnce
<1> QED
  BY <1>1, <1>2, <1>3, PTL DEF Spec

(* The list is ordered by identifier, so a reply whose request is in the   *)
(* list throws away older requests only; one whose request is not there    *)
(* empties it.                                                             *)
THEOREM OnlyOlderDiscarded == Spec => DiscardsOnlyOlder
<1>1. ASSUME IInv, NEW w \in Workers, Discard(w)
      PROVE \/ Head(reply_waiting_list).xid < recv[w].xid
            \/ recv[w].xid \notin XidsOf(Waiting)
  <2> DEFINE q == reply_waiting_list
  <2>1. /\ q \in Seq(Request) /\ q # <<>> /\ Head(q) = q[1]
        /\ Len(q) \in Nat \ {0} /\ q[1].xid # recv[w].xid
    BY <1>1, HeadTailProperties DEF Discard, IInv, TypeOK
  <2>2. ASSUME NEW i \in 1 .. Len(q), recv[w].xid = q[i].xid
        PROVE q[1].xid < recv[w].xid
    BY <1>1, <2>1, <2>2 DEF IInv, QueueInv
  <2>3. Waiting = {q[i] : i \in 1 .. Len(q)}
    BY <2>1 DEF Waiting, ToSet
  <2> QED
    BY <2>1, <2>2, <2>3 DEF XidsOf
<1>2. IInv /\ [Next]_vars =>
        [\A w \in Workers :
           Discard(w) =>
             \/ Head(reply_waiting_list).xid < recv[w].xid
             \/ recv[w].xid \notin XidsOf(Waiting)]_vars
  BY <1>1
<1> QED
  BY <1>2, InvHolds, PTL DEF Spec, DiscardsOnlyOlder

-----------------------------------------------------------------------------
(* The measurement keeps the promise of ResponseDelay: sending issues a    *)
(* request, a reply that reaches message_callback answers it, the sample   *)
(* measures it; every other step leaves the promise where it is.  It is    *)
(* kept where every reply was asked for: one with the identifier of a      *)
(* request it does not answer breaks it.                                   *)
THEOREM KeepsPromise ==
  ASSUME "unasked" \notin Faults
  PROVE  Spec => ImplementsPromise
<1>1. Init => Promise!RDInit
  BY DEF Init, Promise!RDInit, Measured
<1>2. ASSUME IInv, Next
      PROVE  Promise!RDNext \/ UNCHANGED Promise!rdVars
  <2> USE DEF runVars, queueVars, netVars, history
  <2>1. CASE Send
    <3>1. /\ issued' = issued \cup {msg}
          /\ UNCHANGED <<answered, stats_latency_, published, lost>>
      BY <2>1 DEF Send, statVars
    <3>2. /\ msg \in Request /\ msg.xid = idx
          /\ \A r \in issued : r.xid < idx /\ r.xid \in Nat
      BY <1>2, <2>1 DEF Send, IInv, TypeOK, IssueInv, Request, Xids
    <3>3. /\ msg.xid \in Xids /\ msg.type \in Types /\ msg.at \in Times
          /\ msg = [xid |-> msg.xid, type |-> msg.type, at |-> msg.at]
      BY <3>2 DEF Request
    <3>4. \A r \in issued : r.xid # msg.xid
      BY <3>2
    <3>5. Promise!Issue
      BY <3>1, <3>3, <3>4 DEF Promise!Issue, Measured
    <3> QED
      BY <3>5 DEF Promise!RDNext
  <2>2. CASE ReplyArrives
    <3>1. Head(replies) \in XidsOf(issued)
      BY <1>2, <2>2 DEF ReplyArrives, IInv, TypeOK, WireInv
    <3>2. Promise!Answer
      BY <2>2, <3>1 DEF ReplyArrives, Promise!Answer, XidsOf, Measured, statVars
    <3> QED
      BY <3>2 DEF Promise!RDNext
  <2>3. ASSUME NEW w \in Workers, Account(w) PROVE Promise!RDNext
    <3>1. PICK e, at : e = recv[w].entry /\ at = recv[w].at
      OBVIOUS
    <3>2. recv[w].pc = "account" /\ recv[w] \in RecvState
      BY <1>2, <2>3 DEF Account, IInv, TypeOK
    <3>3. /\ e \in issued /\ e.xid \in answered /\ e.at =< at
          /\ at \in Times
      BY <1>2, <3>1, <3>2, RecvShapes DEF IInv, RecvInv, UnaskedInv
    <3>4. \A s \in Measured : s.xid # e.xid
      BY <1>2, <3>1, <3>2 DEF IInv, MeasuredAtMostOnce, InHand, XidsOf
    <3>5. /\ Measured' = Measured \cup {[xid |-> e.xid, type |-> e.type,
                                         sent |-> e.at, recv |-> at]}
          /\ UNCHANGED <<issued, answered>>
      BY <2>3, <3>1 DEF Account, Measured, SampleOf
    <3>6. Promise!Measure
      BY <3>3, <3>4, <3>5 DEF Promise!Measure
    <3> QED
      BY <3>6 DEF Promise!RDNext
  <2>4. CASE Visit \/ Reset
    BY <2>4 DEF Visit, Reset, Measured, Promise!rdVars
  <2>5. CASE \/ NextRequest \/ Stamp \/ Record
             \/ SwitchReplies \/ SwitchLoses \/ Close \/ Tick
    BY <2>5 DEF NextRequest, Stamp, Record, SwitchReplies, SwitchLoses, Close,
           Tick, Measured, Promise!rdVars, statVars
  <2>6. ASSUME NEW w \in Workers,
               UnaskedReply(w) \/ Exhausted(w) \/ Discard(w) \/ Match(w)
        PROVE UNCHANGED Promise!rdVars
    BY <2>6 DEF UnaskedReply, Exhausted, Discard, Match, Measured,
           Promise!rdVars, statVars
  <2> QED
    BY <1>2, <2>1, <2>2, <2>3, <2>4, <2>5, <2>6 DEF Next, Run, Received
<1>3. IInv /\ UNCHANGED vars => UNCHANGED Promise!rdVars
  BY DEF vars, Measured, statVars, history, Promise!rdVars
<1>4. IInv /\ [Next]_vars => [Promise!RDNext]_(Promise!rdVars)
  BY <1>2, <1>3
<1> QED
  BY <1>1, <1>4, InvHolds, PTL DEF Spec, ImplementsPromise, Promise!RDSpec

-----------------------------------------------------------------------------
(* No recorded request is lost track of: Conservation holds for every      *)
(* number of requests, queue size, set of event loop threads and all       *)
(* faults, by the invariant above and a stronger one.                      *)

(* Requests that await a reply, those in the hands of an event loop, and   *)
(* the one that was sent and is about to be recorded.                      *)
Awaiting == {r.xid : r \in {q \in issued : q.type \in ReplyTypes}}
Held     == {recv[w].entry.xid : w \in InHand}
Pending  == IF pc = "record" THEN {msg.xid} ELSE {}

(* Every element of S is in exactly one of six sets.                       *)
Split(S, a, b, c, d, e, f) ==
  /\ S = a \cup b \cup c \cup d \cup e \cup f
  /\ a \cap (b \cup c \cup d \cup e \cup f) = {}
  /\ b \cap (c \cup d \cup e \cup f) = {}
  /\ c \cap (d \cup e \cup f) = {}
  /\ d \cap (e \cup f) = {}
  /\ e \cap f = {}

Kept ==
  Split(Awaiting, XidsOf(Waiting), Held, XidsOf(Measured), discarded, overflowed, Pending)

(* The split of what awaits a reply says what Conservation says of its     *)
(* places.                                                                 *)
LEMMA KeptConserves == Kept => Conservation
<1> SUFFICES ASSUME Kept PROVE Conservation
  OBVIOUS
<1> DEFINE P == Places
<1>1. /\ DOMAIN P = 1 .. 5
      /\ P[1] = XidsOf(Waiting) /\ P[2] = Held /\ P[3] = XidsOf(Measured)
      /\ P[4] = discarded /\ P[5] = overflowed
  BY DEF Places, Held
<1> HIDE DEF P
<1>2. \A i \in DOMAIN P : i = 1 \/ i = 2 \/ i = 3 \/ i = 4 \/ i = 5
  BY <1>1
<1>3. Range(P) = {P[1], P[2], P[3], P[4], P[5]}
  BY <1>1, <1>2 DEF Range
<1>4. UNION Range(P) = P[1] \cup P[2] \cup P[3] \cup P[4] \cup P[5]
  BY <1>3
<1>5. Awaiting = (UNION Range(P)) \cup Pending
  BY <1>1, <1>4 DEF Kept, Split
<1>6. \A i, j \in DOMAIN P : i # j => P[i] \cap P[j] = {}
  <2>1. /\ P[1] \cap P[2] = {} /\ P[1] \cap P[3] = {} /\ P[1] \cap P[4] = {}
        /\ P[1] \cap P[5] = {} /\ P[2] \cap P[3] = {} /\ P[2] \cap P[4] = {}
        /\ P[2] \cap P[5] = {} /\ P[3] \cap P[4] = {} /\ P[3] \cap P[5] = {}
        /\ P[4] \cap P[5] = {}
    BY <1>1 DEF Kept, Split
  <2> QED
    BY <1>2, <2>1
<1> QED
  BY <1>5, <1>6 DEF Conservation, Awaiting, Pending, P

-----------------------------------------------------------------------------
(* What the list holds: the identifiers of its entries.                    *)
LEMMA WaitingXids ==
  ASSUME TypeOK
  PROVE  XidsOf(Waiting) = {reply_waiting_list[i].xid : i \in 1 .. Len(reply_waiting_list)}
<1>1. DOMAIN reply_waiting_list = 1 .. Len(reply_waiting_list)
  BY DEF TypeOK
<1>2. Waiting = {reply_waiting_list[i] : i \in 1 .. Len(reply_waiting_list)}
  BY <1>1 DEF Waiting, ToSet
<1> QED
  BY <1>2 DEF XidsOf

(* A recorded request joins those that wait.                               *)
LEMMA Recorded ==
  ASSUME TypeOK, TypeOK', NEW m \in Request,
         reply_waiting_list' = Append(reply_waiting_list, m)
  PROVE  XidsOf(Waiting)' = XidsOf(Waiting) \cup {m.xid}
<1> DEFINE q == reply_waiting_list
<1>1. q \in Seq(Request)
  BY DEF TypeOK
<1>2. /\ Len(q') = Len(q) + 1 /\ Len(q) \in Nat
      /\ \A i \in 1 .. Len(q) : q'[i] = q[i]
      /\ q'[Len(q) + 1] = m
  BY <1>1
<1>3. XidsOf(Waiting) = {q[i].xid : i \in 1 .. Len(q)}
  BY WaitingXids
<1>4. XidsOf(Waiting)' = {q'[i].xid : i \in 1 .. Len(q')}
  <2>1. q' \in Seq(Request)
    BY DEF TypeOK
  <2>2. DOMAIN q' = 1 .. Len(q')
    BY <2>1
  <2>3. Waiting' = {q'[i] : i \in 1 .. Len(q')}
    BY <2>2 DEF Waiting, ToSet
  <2> QED
    BY <2>3 DEF XidsOf
<1> HIDE DEF q
<1>5. \A i \in 1 .. Len(q') : i \in 1 .. Len(q) \/ i = Len(q) + 1
  BY <1>2
<1>6. Len(q) + 1 \in 1 .. Len(q') /\ \A i \in 1 .. Len(q) : i \in 1 .. Len(q')
  BY <1>2
<1>7. {q'[i].xid : i \in 1 .. Len(q')} = {q[i].xid : i \in 1 .. Len(q)} \cup {m.xid}
  BY <1>2, <1>5, <1>6
<1> QED
  BY <1>3, <1>4, <1>7

(* The oldest entry leaves, and no other has its identifier.               *)
LEMMA Dequeued ==
  ASSUME IInv, TypeOK', reply_waiting_list # <<>>,
         reply_waiting_list' = Tail(reply_waiting_list)
  PROVE  /\ Head(reply_waiting_list).xid \in XidsOf(Waiting)
         /\ XidsOf(Waiting)' = XidsOf(Waiting) \ {Head(reply_waiting_list).xid}
<1> DEFINE q == reply_waiting_list
<1>1. /\ q \in Seq(Request) /\ Len(q) \in Nat \ {0} /\ Head(q) = q[1]
      /\ Len(q') = Len(q) - 1
      /\ \A i \in 1 .. Len(q') : i + 1 \in 1 .. Len(q) /\ q'[i] = q[i + 1]
  BY HeadTailProperties DEF IInv, TypeOK
<1>2. XidsOf(Waiting) = {q[i].xid : i \in 1 .. Len(q)}
  BY WaitingXids DEF IInv
<1>3. XidsOf(Waiting)' = {q'[i].xid : i \in 1 .. Len(q')}
  <2>1. q' \in Seq(Request)
    BY DEF TypeOK
  <2>2. DOMAIN q' = 1 .. Len(q')
    BY <2>1
  <2>3. Waiting' = {q'[i] : i \in 1 .. Len(q')}
    BY <2>2 DEF Waiting, ToSet
  <2> QED
    BY <2>3 DEF XidsOf
<1>4. \A i, j \in 1 .. Len(q) : i < j => q[i].xid < q[j].xid
  BY DEF IInv, QueueInv
<1>5. \A i \in 1 .. Len(q) : q[i].xid \in Nat
  <2>1. \A i \in 1 .. Len(q) : q[i] \in Request
    BY <1>1
  <2> QED
    BY <2>1 DEF Request, Xids
<1> HIDE DEF q
<1>6. 1 \in 1 .. Len(q)
  BY <1>1
<1>7. \A i \in 1 .. Len(q') : q'[i].xid # q[1].xid
  <2> TAKE i \in 1 .. Len(q')
  <2>1. i + 1 \in 1 .. Len(q) /\ 1 < i + 1 /\ q'[i] = q[i + 1]
    BY <1>1
  <2>2. q[1].xid < q[i + 1].xid /\ q[1].xid \in Nat /\ q[i + 1].xid \in Nat
    BY <1>4, <1>5, <1>6, <2>1
  <2> QED
    BY <2>1, <2>2
<1>8. \A i \in 1 .. Len(q) :
        i = 1 \/ \E j \in 1 .. Len(q') : q'[j] = q[i]
  <2> TAKE i \in 1 .. Len(q)
  <2>1. i = 1 \/ (i - 1 \in 1 .. Len(q') /\ (i - 1) + 1 = i)
    BY <1>1
  <2> QED
    BY <1>1, <2>1
<1>9. {q'[i].xid : i \in 1 .. Len(q')} = {q[i].xid : i \in 1 .. Len(q)} \ {q[1].xid}
  <2> DEFINE Before == {q[i].xid : i \in 1 .. Len(q)}
             After  == {q'[i].xid : i \in 1 .. Len(q')}
  <2>1. ASSUME NEW x \in After PROVE x \in Before /\ x # q[1].xid
    <3>1. PICK i \in 1 .. Len(q') : x = q'[i].xid
      OBVIOUS
    <3>2. i + 1 \in 1 .. Len(q) /\ x = q[i + 1].xid
      BY <1>1, <3>1
    <3> QED
      BY <1>7, <3>1, <3>2
  <2>2. ASSUME NEW x \in Before, x # q[1].xid PROVE x \in After
    <3>1. PICK i \in 1 .. Len(q) : x = q[i].xid
      OBVIOUS
    <3>2. PICK j \in 1 .. Len(q') : q'[j] = q[i]
      BY <1>8, <2>2, <3>1
    <3> QED
      BY <3>1, <3>2
  <2> HIDE DEF Before, After
  <2>3. After = Before \ {q[1].xid}
    BY <2>1, <2>2
  <2> QED
    BY <2>3 DEF Before, After
<1>10. Head(reply_waiting_list).xid = q[1].xid
  BY <1>1 DEF q
<1> QED
  BY <1>2, <1>3, <1>6, <1>9, <1>10

(* Steps that move no request.                                             *)
LEMMA NothingMoves ==
  ASSUME Kept, Held' = Held, Measured' = Measured, Pending' = Pending,
         UNCHANGED <<issued, reply_waiting_list, discarded, overflowed>>
  PROVE  Kept'
BY DEF Kept, Awaiting, Waiting, XidsOf

(* Threads that hold no entry before a step and after it do not matter.     *)
LEMMA HeldStays ==
  ASSUME InHand' = InHand, \A u \in InHand : recv'[u] = recv[u]
  PROVE  Held' = Held
BY DEF Held

LEMMA InitKept == Init => Kept
<1> SUFFICES ASSUME Init PROVE Kept
  OBVIOUS
<1>1. Awaiting = {} /\ Measured = {} /\ InHand = {} /\ Pending = {}
  BY DEF Init, Awaiting, Measured, InHand, Pending, Idle
<1>2. Waiting = {}
  BY DEF Init, Waiting, ToSet
<1>3. Held = {} /\ XidsOf(Waiting) = {} /\ XidsOf(Measured) = {}
  BY <1>1, <1>2 DEF Held, XidsOf
<1> QED
  BY <1>1, <1>3 DEF Init, Kept, Split

-----------------------------------------------------------------------------
(* A request that awaits a reply is new when it is sent.                   *)
LEMMA SendKept ==
  ASSUME IInv, Kept, Send
  PROVE  Kept'
<1> USE DEF queueVars, statVars
<1>1. /\ issued' = issued \cup {msg} /\ msg' = msg
      /\ pc = "send"
      /\ pc' = IF msg.type \in ReplyTypes THEN "record" ELSE "next"
      /\ UNCHANGED <<reply_waiting_list, recv, stats_latency_, published, lost,
                     discarded, overflowed>>
  BY DEF Send
<1>2. Held' = Held /\ Measured' = Measured /\ Waiting' = Waiting
  BY <1>1 DEF Held, InHand, Measured, Waiting
<1>3. Pending = {}
  BY <1>1 DEF Pending
<1>4. msg.xid \notin Awaiting
  <2>1. msg.xid = idx /\ idx \in Nat /\ \A r \in issued : r.xid < idx /\ r.xid \in Nat
    BY <1>1, LatencyConstants DEF IInv, IssueInv, TypeOK, LatencyConstants, Request, Xids
  <2> QED
    BY <2>1 DEF Awaiting
<1>5. CASE msg.type \in ReplyTypes
  <2>1. Awaiting' = Awaiting \cup {msg.xid}
    BY <1>1, <1>5 DEF Awaiting
  <2>2. Pending' = {msg.xid}
    BY <1>1, <1>5 DEF Pending
  <2> QED
    BY <1>1, <1>2, <1>3, <1>4, <2>1, <2>2 DEF Kept, Split, XidsOf
<1>6. CASE msg.type \notin ReplyTypes
  <2>1. Awaiting' = Awaiting
    BY <1>1, <1>6 DEF Awaiting
  <2>2. Pending' = {}
    BY <1>1, <1>6 DEF Pending
  <2> QED
    BY <1>1, <1>2, <1>3, <2>1, <2>2 DEF Kept, XidsOf
<1> QED
  BY <1>5, <1>6

(* It is recorded or, if the queue is full, refused.                       *)
LEMMA RecordKept ==
  ASSUME IInv, TypeOK', Kept, Record
  PROVE  Kept'
<1> USE DEF queueVars, statVars
<1>1. /\ pc = "record" /\ pc' = "next" /\ msg \in Request
      /\ UNCHANGED <<issued, recv, stats_latency_, published, lost, discarded>>
  BY DEF Record, IInv, TypeOK
<1>2. Held' = Held /\ Measured' = Measured /\ Awaiting' = Awaiting
  BY <1>1 DEF Held, InHand, Measured, Awaiting
<1>3. Pending = {msg.xid} /\ Pending' = {}
  BY <1>1 DEF Pending
<1>4. XidsOf(Measured)' = XidsOf(Measured)
  BY <1>2 DEF XidsOf
<1>5. CASE CanEnqueue
  <2>1. reply_waiting_list' = Append(reply_waiting_list, msg) /\ overflowed' = overflowed
    BY <1>5 DEF Record, sent
  <2>2. XidsOf(Waiting)' = XidsOf(Waiting) \cup {msg.xid}
    BY <1>1, <2>1, Recorded DEF IInv
  <2> QED
    BY <1>1, <1>2, <1>3, <1>4, <2>1, <2>2 DEF Kept, Split
<1>6. CASE ~CanEnqueue
  <2>1. reply_waiting_list' = reply_waiting_list /\ overflowed' = overflowed \cup {msg.xid}
    BY <1>6 DEF Record, sent
  <2>2. XidsOf(Waiting)' = XidsOf(Waiting)
    BY <2>1 DEF XidsOf, Waiting
  <2> QED
    BY <1>1, <1>2, <1>3, <1>4, <2>1, <2>2 DEF Kept, Split
<1> QED
  BY <1>5, <1>6

(* received() throws the oldest entry away, or takes it for the reply's.   *)
LEMMA DequeueKept ==
  ASSUME IInv, TypeOK', Kept, NEW w \in Workers, Discard(w) \/ Match(w)
  PROVE  Kept'
<1> USE DEF runVars, netVars, statVars, history, dequeue
<1>1. /\ UNCHANGED <<pc, msg, issued, stats_latency_, published, lost, overflowed>>
      /\ reply_waiting_list # <<>>
      /\ reply_waiting_list' = Tail(reply_waiting_list)
      /\ recv \in [Workers -> RecvState] /\ recv[w].pc = "dequeue"
  BY DEF Discard, Match, IInv, TypeOK
<1>2. PICK h : h = Head(reply_waiting_list)
  OBVIOUS
<1>3. h.xid \in XidsOf(Waiting) /\ XidsOf(Waiting)' = XidsOf(Waiting) \ {h.xid}
  BY <1>1, <1>2, Dequeued
<1>4. Awaiting' = Awaiting /\ Pending' = Pending /\ XidsOf(Measured)' = XidsOf(Measured)
  BY <1>1 DEF Awaiting, Pending, Measured, XidsOf
<1>5. CASE Discard(w)
  <2>1. discarded' = discarded \cup {h.xid} /\ recv' = recv
    BY <1>2, <1>5 DEF Discard
  <2>2. Held' = Held
    BY <2>1 DEF Held, InHand
  <2> QED
    BY <1>1, <1>3, <1>4, <2>1, <2>2 DEF Kept, Split
<1>6. CASE Match(w)
  <2>1. /\ discarded' = discarded
        /\ recv' = [recv EXCEPT ![w] = [pc |-> "account", at |-> recv[w].at, entry |-> h]]
    BY <1>2, <1>6 DEF Match
  <2>2. /\ recv'[w].pc = "account" /\ recv'[w].entry = h
        /\ \A u \in Workers : u # w => recv'[u] = recv[u]
    BY <1>1, <2>1
  <2>3. InHand' = InHand \cup {w} /\ \A u \in InHand : recv'[u] = recv[u]
    BY <1>1, <2>2 DEF InHand
  <2>4. Held' = Held \cup {h.xid}
    BY <2>2, <2>3 DEF Held
  <2> QED
    BY <1>1, <1>3, <1>4, <2>1, <2>4 DEF Kept, Split
<1> QED
  BY <1>5, <1>6

(* What a thread held is measured; no other thread held the same.          *)
LEMMA AccountKept ==
  ASSUME IInv, Kept, NEW w \in Workers, Account(w)
  PROVE  Kept'
<1> USE DEF runVars, queueVars, netVars, history
<1>1. UNCHANGED <<pc, msg, issued, reply_waiting_list, published, lost,
                  discarded, overflowed>>
  BY DEF Account
<1>2. PICK e, at : e = recv[w].entry /\ at = recv[w].at
  OBVIOUS
<1>3. /\ recv \in [Workers -> RecvState] /\ recv[w].pc = "account"
      /\ recv' = [recv EXCEPT ![w] = Idle]
      /\ stats_latency_' = stats_latency_ \cup {SampleOf(e, at)}
  BY <1>2 DEF Account, IInv, TypeOK
<1>4. recv'[w] = Idle /\ \A u \in Workers : u # w => recv'[u] = recv[u]
  BY <1>3
<1>5. /\ w \in InHand /\ InHand' = InHand \ {w}
      /\ \A u \in InHand' : recv'[u] = recv[u]
  BY <1>3, <1>4 DEF InHand, Idle
<1>6. \A u \in InHand' : recv[u].entry.xid # e.xid
  BY <1>2, <1>5 DEF IInv, LeftInv
<1>7. Held' = Held \ {e.xid} /\ e.xid \in Held
  BY <1>2, <1>5, <1>6 DEF Held
<1>8. XidsOf(Measured)' = XidsOf(Measured) \cup {e.xid}
  <2>1. Measured' = Measured \cup {SampleOf(e, at)}
    BY <1>1, <1>3 DEF Measured
  <2>2. SampleOf(e, at).xid = e.xid
    BY DEF SampleOf
  <2> QED
    BY <2>1, <2>2 DEF XidsOf
<1>9. Awaiting' = Awaiting /\ Pending' = Pending /\ XidsOf(Waiting)' = XidsOf(Waiting)
  BY <1>1 DEF Awaiting, Pending, Waiting, XidsOf
<1> QED
  BY <1>1, <1>7, <1>8, <1>9 DEF Kept, Split

-----------------------------------------------------------------------------
(* Every step keeps each request in one place.                             *)
LEMMA NextKept == IInv /\ Kept /\ [Next]_vars => Kept'
<1> SUFFICES ASSUME IInv, Kept, [Next]_vars PROVE Kept'
  OBVIOUS
<1>1. TypeOK' /\ recv \in [Workers -> RecvState]
  BY NextTypeOK DEF IInv, TypeOK
<1> USE DEF runVars, queueVars, netVars, statVars, history
<1>2. CASE NextRequest \/ Visit \/ Reset \/ Stamp
  <2>1. /\ UNCHANGED <<issued, reply_waiting_list, discarded, overflowed, recv>>
        /\ pc # "record" /\ pc' # "record"
    BY <1>2 DEF NextRequest, Visit, Reset, Stamp
  <2>2. Measured' = Measured
    BY <1>2 DEF NextRequest, Visit, Reset, Stamp, Measured
  <2>3. Held' = Held /\ Pending' = Pending
    BY <2>1 DEF Held, InHand, Pending
  <2> QED
    BY <2>1, <2>2, <2>3, NothingMoves
<1>3. CASE Send
  BY <1>3, SendKept
<1>4. CASE Record
  BY <1>1, <1>4, RecordKept
<1>5. CASE SwitchReplies \/ SwitchLoses \/ Close \/ Tick \/ UNCHANGED vars
  <2>1. UNCHANGED <<pc, msg, issued, reply_waiting_list, discarded, overflowed, recv,
                    stats_latency_, published, lost>>
    BY <1>5 DEF SwitchReplies, SwitchLoses, Close, Tick, vars
  <2>2. Held' = Held /\ Pending' = Pending /\ Measured' = Measured
    BY <2>1 DEF Held, InHand, Pending, Measured
  <2> QED
    BY <2>1, <2>2, NothingMoves
<1>6. ASSUME NEW w \in Workers,
             (ReplyArrives /\ w = Own) \/ UnaskedReply(w) \/ Exhausted(w)
      PROVE  Kept'
  <2>1. UNCHANGED <<pc, msg, issued, reply_waiting_list, discarded, overflowed,
                    stats_latency_, published, lost>>
    BY <1>6 DEF ReplyArrives, UnaskedReply, Exhausted
  <2>2. /\ recv[w].pc # "account" /\ recv'[w].pc # "account"
        /\ \A u \in Workers : u # w => recv'[u] = recv[u]
    <3>1. CASE (ReplyArrives /\ w = Own) \/ Exhausted(w)
      BY <1>1, <3>1 DEF ReplyArrives, Exhausted, Idle
    <3>2. CASE UnaskedReply(w)
      <4>1. PICK x : /\ recv[w] = Idle
                     /\ recv' = [recv EXCEPT ![w] = [pc |-> "dequeue", xid |-> x, at |-> now]]
        BY <3>2 DEF UnaskedReply
      <4> QED
        BY <1>1, <4>1 DEF Idle
    <3> QED
      BY <1>6, <3>1, <3>2
  <2>3. InHand' = InHand /\ \A u \in InHand : recv'[u] = recv[u]
    BY <2>2 DEF InHand
  <2>4. Held' = Held /\ Pending' = Pending /\ Measured' = Measured
    BY <2>1, <2>3, HeldStays DEF Pending, Measured
  <2> QED
    BY <2>1, <2>4, NothingMoves
<1>7. ASSUME NEW w \in Workers, Discard(w) \/ Match(w) PROVE Kept'
  BY <1>1, <1>7, DequeueKept
<1>8. ASSUME NEW w \in Workers, Account(w) PROVE Kept'
  BY <1>8, AccountKept
<1> QED
  BY <1>2, <1>3, <1>4, <1>5, <1>6, <1>7, <1>8 DEF Next, Run, Received, Workers

(* A request that awaits a reply is, at any time, in exactly one place: the *)
(* list, the hands of an event loop, the samples, among those received()    *)
(* threw away or those the full queue refused, or about to be recorded.     *)
THEOREM EveryRequestKept == Spec => []Conservation
<1>1. Init => IInv /\ Kept
  BY InitInv, InitKept
<1>2. (IInv /\ Kept) /\ [Next]_vars => (IInv /\ Kept)'
  BY NextInv, NextKept
<1>3. IInv /\ Kept => Conservation
  BY KeptConserves
<1> QED
  BY <1>1, <1>2, <1>3, PTL DEF Spec
=============================================================================

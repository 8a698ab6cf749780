-------------------------- MODULE ComponentProofs --------------------------
(* What components of hvbench that share no state promise, for every value  *)
(* of their bounds: a node of the data plane (OFNode), the study and the    *)
(* run of the reports (Reports), the schedule of requests (Generators), the *)
(* calls of the client of etcd (EtcdClient) and the two parsers of rapidjson*)
(* (JsonReader).                                                            *)
EXTENDS OFNode, Reports, Generators, EtcdClient, JsonReader, NumberProofs, SequenceTheorems,
        WellFoundedInduction

-----------------------------------------------------------------------------
(* OFNode.                                                                  *)

(* The replies to echo requests that the event loop has not handled.        *)
Replies(q) == Occurrences(q, {"echo_reply"})

(* The inductive invariant: before the connection is made there is nothing  *)
(* to answer and nothing to handle, so that a new one starts without an     *)
(* echo outstanding.                                                        *)
NodeInv ==
  /\ inbox \in Seq(Message) /\ echoes \in Nat /\ alive \in BOOLEAN
  /\ connector \in {"socket", "connect", "sleep", "new", "libevent"} => base = "none"
  /\ base = "none" => inbox = <<>> /\ echoes = 0
  /\ OneEchoOutstanding

(* The node before it has connected.                                        *)
LEMMA NodeInitInv == NodeInit => NodeInv
BY DEF NodeInit, NodeInv, OneEchoOutstanding

(* Every step of the hypervisor, the connecting thread, the event loop and  *)
(* stop() keeps the invariant.                                              *)
LEMMA NodeNextInv ==
  ASSUME NodeInv, [NodeNext]_nodeVars
  PROVE  NodeInv'
<1> DEFINE n == Replies(inbox)
<1>1. n \in Nat
  BY PlacesFinite DEF NodeInv, Replies
<1>2. base = "up" => echoes + n = IF alive THEN 0 ELSE 1
  BY DEF NodeInv, OneEchoOutstanding, Replies
<1>3. OneEchoOutstanding' <=> (base' = "up" => echoes' + Replies(inbox') = IF alive' THEN 0 ELSE 1)
  BY DEF OneEchoOutstanding, Replies
<1>4. ASSUME NEW m \in Message
      PROVE  /\ Append(inbox, m) \in Seq(Message)
             /\ Replies(Append(inbox, m)) = IF m = "echo_reply" THEN n + 1 ELSE n
  <2>1. inbox \in Seq(Message)
    BY DEF NodeInv
  <2> QED  BY <2>1, OccAppend DEF Replies
<1>5. ASSUME inbox # <<>>
      PROVE  /\ Tail(inbox) \in Seq(Message) /\ Replies(Tail(inbox)) \in Nat
             /\ n = Replies(Tail(inbox)) + IF Head(inbox) = "echo_reply" THEN 1 ELSE 0
  <2>1. inbox \in Seq(Message) /\ Tail(inbox) \in Seq(Message)
    BY <1>5 DEF NodeInv
  <2>2. Replies(Tail(inbox)) \in Nat
    BY <2>1, PlacesFinite DEF Replies
  <2>3. /\ Head(inbox) = "echo_reply" => n = Replies(Tail(inbox)) + 1
        /\ Head(inbox) # "echo_reply" => n = Replies(Tail(inbox))
    BY <1>5, <2>1, OccHead DEF Replies
  <2> QED  BY <2>1, <2>2, <2>3
<1> HIDE DEF n
<1>6. CASE Flip
  BY <1>6 DEF Flip, NodeInv, OneEchoOutstanding
<1>7. CASE \E m \in PeerKinds : PeerSends(m)
  <2>1. PICK m \in PeerKinds : PeerSends(m)
    BY <1>7
  <2>2. m \in Message /\ m # "echo_reply"
    BY DEF PeerKinds, Message
  <2> QED  BY <1>1, <1>2, <1>3, <1>4, <2>1, <2>2 DEF PeerSends, NodeInv
<1>8. CASE PeerAnswersEcho
  <2>1. "echo_reply" \in Message
    BY DEF Message
  <2> QED  BY <1>1, <1>2, <1>3, <1>4, <1>8, <2>1 DEF PeerAnswersEcho, NodeInv
<1>9. CASE Connector
  <2>1. CASE MakeSocket \/ ConnectFails \/ Retry \/ ConnectSucceeds \/ EnterLibevent
    BY <2>1 DEF MakeSocket, ConnectFails, Retry, ConnectSucceeds, EnterLibevent, NodeInv, OneEchoOutstanding
  <2>2. CASE ConnectionUp
    <3>1. inbox' = <<>> /\ echoes' = 0 /\ alive' = TRUE
      BY <2>2 DEF ConnectionUp, NodeInv
    <3>2. Replies(inbox') = 0
      BY <3>1, OccEmpty DEF Replies
    <3> QED  BY <1>3, <2>2, <3>1, <3>2 DEF ConnectionUp, NodeInv
  <2> QED  BY <1>9, <2>1, <2>2 DEF Connector
<1>10. CASE EventLoop
  <2>1. CASE HandleMessage
    <3>1. /\ inbox # <<>> /\ inbox' = Tail(inbox) /\ base = "up" /\ base' = base
          /\ echoes' = echoes /\ connector' = connector
          /\ alive' = (alive \/ Head(inbox) = "echo_reply")
      BY <2>1 DEF HandleMessage
    <3>2. /\ echoes \in Nat /\ alive \in BOOLEAN /\ Replies(Tail(inbox)) \in Nat
          /\ n = Replies(Tail(inbox)) + IF Head(inbox) = "echo_reply" THEN 1 ELSE 0
          /\ echoes + n = IF alive THEN 0 ELSE 1
      BY <1>2, <1>5, <3>1 DEF NodeInv
    <3>3. echoes + Replies(Tail(inbox)) = IF alive' THEN 0 ELSE 1
      <4>1. CASE Head(inbox) = "echo_reply"
        <5>1. alive' = TRUE
          BY <3>1, <4>1
        <5> QED  BY <3>2, <4>1, <5>1
      <4>2. CASE Head(inbox) # "echo_reply"
        <5>1. alive' = alive
          BY <3>1, <3>2, <4>2
        <5> QED  BY <3>2, <4>2, <5>1
      <4> QED  BY <4>1, <4>2
    <3>4. inbox' \in Seq(Message) /\ alive' \in BOOLEAN
      BY <1>5, <3>1, <3>2
    <3> QED  BY <1>3, <3>1, <3>2, <3>3, <3>4 DEF NodeInv
  <2>2. CASE ConnectionClosed
    BY <2>2 DEF ConnectionClosed, NodeInv, OneEchoOutstanding
  <2>3. CASE LoopEnds
    BY <2>3 DEF LoopEnds, NodeInv, OneEchoOutstanding
  <2> QED  BY <1>10, <2>1, <2>2, <2>3 DEF EventLoop
<1>11. CASE SendEcho
  <2>1. inbox' = inbox /\ connector' = connector /\ base = "up"
    BY <1>11 DEF SendEcho
  <2>2. Replies(inbox') = n
    BY <2>1 DEF n
  <2>3. CASE alive
    <3>1. base' = base /\ alive' = FALSE /\ echoes' = echoes + 1
      BY <1>11, <2>3 DEF SendEcho
    <3>2. echoes + n = 0 /\ echoes \in Nat
      BY <1>2, <2>1, <2>3 DEF NodeInv
    <3>3. echoes' \in Nat /\ echoes' + n = 1
      BY <1>1, <3>1, <3>2
    <3>4. OneEchoOutstanding'
      BY <1>3, <2>2, <3>1, <3>3
    <3> QED  BY <2>1, <3>1, <3>3, <3>4 DEF NodeInv
  <2>4. CASE ~alive
    <3>1. base' = "closing" /\ alive' = alive /\ echoes' = echoes
      BY <1>11, <2>4 DEF SendEcho
    <3> QED  BY <1>3, <2>1, <3>1 DEF NodeInv
  <2> QED  BY <2>3, <2>4
<1>12. CASE ConnectionDown
  BY <1>12 DEF ConnectionDown, NodeInv, OneEchoOutstanding
<1>13. CASE StopConn
  BY <1>13 DEF StopConn, NodeInv, OneEchoOutstanding
<1>14. CASE StopRest
  BY <1>14 DEF StopRest, CancelConnector, StopLoop, JoinLoop, NodeInv, OneEchoOutstanding
<1>15. CASE UNCHANGED nodeVars
  BY <1>15 DEF nodeVars, NodeInv, OneEchoOutstanding
<1>16. CASE DiesInLibevent
  BY <1>16 DEF DiesInLibevent, NodeInv, OneEchoOutstanding
<1> QED  BY <1>6, <1>7, <1>8, <1>9, <1>10, <1>11, <1>12, <1>13, <1>14, <1>15, <1>16 DEF NodeNext

(* However many timers features requests have started, a connection of a    *)
(* node has one echo outstanding at most, and is taken for dead only while  *)
(* it has (send_echo, base_message_callback).                               *)
THEOREM NodesOneEcho == NodeSpec => []OneEchoOutstanding
<1>1. NodeInit => NodeInv
  BY NodeInitInv
<1>2. NodeInv /\ [NodeNext]_nodeVars => NodeInv'
  BY NodeNextInv
<1>3. NodeInv => OneEchoOutstanding
  BY DEF NodeInv
<1> QED  BY <1>1, <1>2, <1>3, PTL DEF NodeSpec

-----------------------------------------------------------------------------
(* Reports.                                                                 *)

(* The values GETs return, and what update_study was given.                 *)
AnyPair == [GlobalKeys -> Int]
GivenPairs == [pair : AnyPair, mixed : BOOLEAN]

(* A report being written.                                                  *)
Writing == [pc : {"study_id", "run_id", "send"}, study : Int, run : Int, alone : BOOLEAN]

(* What the variables of the reports hold; `Torn` is a number too.          *)
ReportTypes ==
  /\ globals \in AnyPair /\ got \in AnyPair /\ changes \in Nat
  /\ study_id_ \in Int /\ run_id_ \in Int /\ mixed \in BOOLEAN /\ booting \in BOOLEAN
  /\ reporting \in [Writers -> {Resting} \cup Writing]

(* The thread of the global configuration is between the first write of     *)
(* study_id_ and the last write of run_id_.                                 *)
Assigning == pglobal \in {"assigning", "half"}

(* What the GETs have returned, and what the output was given, is of etcd   *)
(* unless a key changed in between; between two updates the output has it.  *)
UpdateInv ==
  /\ globals \in held
  /\ pglobal = "run_id" /\ ~mixed => got["study_id"] = globals["study_id"]
  /\ pglobal \in {"assign", "assigning", "half"} /\ ~mixed => got \in held
  /\ pglobal = "half" => study_id_ = got["study_id"]
  /\ ~booting \/ pglobal = "register" => given \in GivenPairs
  /\ given \in GivenPairs =>
       /\ given.mixed \/ given.pair \in held
       /\ Assigning \/ (study_id_ = given.pair["study_id"] /\ run_id_ = given.pair["run_id"])

(* A report that no update has met has what the output has.                 *)
ReadingInv ==
  \A t \in Writers : reporting[t] # Resting =>
    /\ ~booting
    /\ reporting[t].alone =>
         /\ ~Assigning
         /\ reporting[t].pc \in {"run_id", "send"} => reporting[t].study = study_id_
         /\ reporting[t].pc = "send" => reporting[t].run = run_id_

(* The inductive invariant of Reports.                                      *)
ReportInv == ReportTypes /\ UpdateInv /\ ReadingInv /\ ReportsOnePair

(* A pair is its two fields.                                                *)
LEMMA PairOf ==
  ASSUME NEW f \in AnyPair
  PROVE  [study_id |-> f["study_id"], run_id |-> f["run_id"]] = f
BY DEF AnyPair, GlobalKeys

(* The output starts with the ids it was built with, and no report is being *)
(* written.                                                                 *)
LEMMA ReportsInitInv == ReportsInit => ReportInv
<1> SUFFICES ASSUME ReportsInit PROVE ReportInv
  OBVIOUS
<1>1. ReportTypes
  <2>1. Unset \in Int
    BY DEF Unset
  <2>2. globals \in AnyPair /\ got \in AnyPair
    BY DEF ReportsInit, AnyPair
  <2> QED  BY <2>1, <2>2 DEF ReportsInit, ReportTypes
<1>2. UpdateInv
  BY DEF ReportsInit, UpdateInv, GivenPairs, Assigning
<1>3. ReadingInv
  BY DEF ReportsInit, ReadingInv
<1>4. ReportsOnePair
  BY DEF ReportsInit, ReportsOnePair
<1> QED  BY <1>1, <1>2, <1>3, <1>4 DEF ReportInv

(* What neither writes a report nor assigns an id leaves the reports alone. *)
LEMMA ReadingUntouched ==
  ASSUME ReportInv, UNCHANGED writeSide, UNCHANGED <<study_id_, run_id_>>,
         ~booting => ~booting', Assigning' <=> Assigning, held \subseteq held'
  PROVE  ReadingInv' /\ ReportsOnePair'
<1>1. ReadingInv'
  BY DEF ReportInv, ReadingInv, writeSide, Assigning
<1>2. ReportsOnePair'
  BY DEF ReportInv, ReportsOnePair, writeSide
<1> QED  BY <1>1, <1>2

(* A change of a key in etcd: if it comes between the two GETs, what they   *)
(* return is mixed.                                                         *)
LEMMA ChangeKeyStep ==
  ASSUME ReportInv, NEW k \in GlobalKeys, NEW a, ChangeKey(k, a)
  PROVE  ReportInv'
<1>1. /\ globals' = [globals EXCEPT ![k] = changes + 1] /\ held' = held \cup {globals'}
      /\ changes' = changes + 1 /\ mixed' = (mixed \/ pglobal = "run_id")
      /\ pglobal' = pglobal /\ got' = got /\ booting' = booting /\ given' = given
      /\ study_id_' = study_id_ /\ run_id_' = run_id_ /\ UNCHANGED writeSide
  BY DEF ChangeKey
<1>2. ReportTypes'
  BY <1>1 DEF ReportInv, ReportTypes, AnyPair, writeSide
<1>3. UpdateInv'
  BY <1>1 DEF ReportInv, ReportTypes, UpdateInv, Assigning
<1>4. ReadingInv' /\ ReportsOnePair'
  BY <1>1, ReadingUntouched DEF Assigning
<1> QED  BY <1>2, <1>3, <1>4 DEF ReportInv

(* The watch's recovery, its registration, _onChange and the GET of the     *)
(* study id touch no report.                                                *)
LEMMA GlobalStep ==
  ASSUME ReportInv,
         GetFails \/ RecoverGlobals \/ Create \/ OnChangeGlobal \/ GetStudy
  PROVE  ReportInv'
<1>1. /\ globals' = globals /\ held' = held /\ changes' = changes /\ given' = given
      /\ study_id_' = study_id_ /\ run_id_' = run_id_ /\ UNCHANGED writeSide
  BY DEF GetFails, RecoverGlobals, Create, CheckDirectory, CheckVersion, Register,
         OnChangeGlobal, GetStudy, etcdSide, updateSide
<1>2. /\ pglobal' = pglobal \/ pglobal' \notin {"assign", "assigning", "half"}
      /\ Assigning' <=> Assigning
      /\ booting' = booting \/ (booting' = FALSE /\ pglobal = "register")
      /\ pglobal' = "register" => pglobal = "register"
      /\ mixed' = mixed \/ mixed' = FALSE
  BY DEF GetFails, RecoverGlobals, Create, CheckDirectory, CheckVersion, Register,
         OnChangeGlobal, GetStudy, etcdSide, updateSide, Assigning, GlobalKeys
<1>3. /\ got' = got \/ (got' = [got EXCEPT !["study_id"] = globals["study_id"]] /\ pglobal' = "run_id")
      /\ pglobal' = "run_id" => (pglobal = "run_id" /\ got' = got /\ mixed' = mixed)
                                \/ got' = [got EXCEPT !["study_id"] = globals["study_id"]]
      /\ pglobal' \in {"assign", "assigning", "half"} => mixed' = mixed /\ got' = got /\ pglobal' = pglobal
  BY DEF GetFails, RecoverGlobals, Create, CheckDirectory, CheckVersion, Register,
         OnChangeGlobal, GetStudy, etcdSide, updateSide, GlobalKeys
<1>4. ReportTypes'
  BY <1>1, <1>2, <1>3 DEF ReportInv, ReportTypes, AnyPair, GlobalKeys, writeSide
<1>5. got' = [got EXCEPT !["study_id"] = globals["study_id"]] => got'["study_id"] = globals["study_id"]
  BY DEF ReportInv, ReportTypes, AnyPair, GlobalKeys
<1>6. UpdateInv'
  BY <1>1, <1>2, <1>3, <1>5 DEF ReportInv, UpdateInv, Assigning
<1>7. ReadingInv' /\ ReportsOnePair'
  BY <1>1, <1>2, ReadingUntouched
<1> QED  BY <1>4, <1>6, <1>7 DEF ReportInv

(* The GET of the run id completes a pair etcd has held, unless a key       *)
(* changed since the GET of the study id.                                   *)
LEMMA GetRunStep ==
  ASSUME ReportInv, GetRun
  PROVE  ReportInv'
<1>1. /\ globals' = globals /\ held' = held /\ changes' = changes /\ given' = given
      /\ study_id_' = study_id_ /\ run_id_' = run_id_ /\ UNCHANGED writeSide
      /\ booting' = booting /\ mixed' = mixed /\ pglobal = "run_id" /\ pglobal' = "assign"
      /\ got' = [got EXCEPT !["run_id"] = globals["run_id"]]
  BY DEF GetRun, etcdSide
<1>2. ReportTypes'
  BY <1>1 DEF ReportInv, ReportTypes, AnyPair, GlobalKeys, writeSide
<1>3. ASSUME ~mixed PROVE got' \in held
  <2>1. got["study_id"] = globals["study_id"] /\ globals \in held
    BY <1>1, <1>3 DEF ReportInv, UpdateInv
  <2>2. got' = globals
    BY <1>1, <2>1 DEF ReportInv, ReportTypes, AnyPair, GlobalKeys
  <2> QED  BY <2>1, <2>2
<1>4. UpdateInv'
  BY <1>1, <1>3 DEF ReportInv, UpdateInv, Assigning
<1>5. ReadingInv' /\ ReportsOnePair'
  BY <1>1, ReadingUntouched DEF Assigning
<1> QED  BY <1>2, <1>4, <1>5 DEF ReportInv

(* update_study begins to write study_id_: every report under way has met   *)
(* an update, and what is read of it is torn.                               *)
LEMMA AssignStudyStep ==
  ASSUME ReportInv, AssignStudy
  PROVE  ReportInv'
<1>1. /\ globals' = globals /\ held' = held /\ changes' = changes /\ given' = given
      /\ study_id_' = Torn /\ run_id_' = run_id_ /\ report' = report
      /\ booting' = booting /\ mixed' = mixed /\ pglobal = "assign" /\ pglobal' = "assigning"
      /\ got' = got /\ reporting' = Overlapped
  BY DEF AssignStudy, etcdSide
<1>2. /\ reporting' \in [Writers -> {Resting} \cup Writing]
      /\ \A t \in Writers : reporting'[t] # Resting => reporting[t] # Resting /\ ~reporting'[t].alone
  BY <1>1 DEF ReportInv, ReportTypes, Overlapped, Writing, Resting
<1>3. ReportTypes'
  BY <1>1, <1>2 DEF ReportInv, ReportTypes, Torn
<1>4. UpdateInv'
  BY <1>1 DEF ReportInv, UpdateInv, Assigning
<1>5. ReadingInv'
  BY <1>1, <1>2 DEF ReportInv, ReadingInv
<1>6. ReportsOnePair'
  BY <1>1 DEF ReportInv, ReportsOnePair
<1> QED  BY <1>3, <1>4, <1>5, <1>6 DEF ReportInv

(* The ends of the two assignments: the output has what update_study was    *)
(* given.                                                                   *)
LEMMA AssignedStep ==
  ASSUME ReportInv, StudyAssigned \/ AssignRun
  PROVE  ReportInv'
<1>1. /\ globals' = globals /\ held' = held /\ changes' = changes /\ UNCHANGED writeSide
      /\ booting' = booting /\ mixed' = mixed /\ got' = got /\ Assigning
      /\ study_id_' \in {study_id_, got["study_id"]} /\ run_id_' \in {run_id_, got["run_id"]}
  BY DEF StudyAssigned, AssignRun, etcdSide, Assigning
<1>2. ReportTypes'
  BY <1>1 DEF ReportInv, ReportTypes, AnyPair, GlobalKeys, writeSide
<1>3. UpdateInv'
  <2>1. CASE StudyAssigned
    BY <1>1, <2>1 DEF StudyAssigned, ReportInv, UpdateInv, Assigning
  <2>2. CASE AssignRun
    <3>1. /\ given' = [pair |-> got, mixed |-> mixed] /\ pglobal = "half"
          /\ study_id_' = study_id_ /\ run_id_' = got["run_id"]
          /\ pglobal' \in {"register", "idle"}
      BY <2>2 DEF AssignRun
    <3>2. given' \in GivenPairs /\ given'.pair = got /\ given'.mixed = mixed
      BY <3>1 DEF GivenPairs, ReportInv, ReportTypes
    <3>3. study_id_ = got["study_id"] /\ (mixed \/ got \in held) /\ globals \in held
      BY <3>1 DEF ReportInv, UpdateInv
    <3> QED  BY <1>1, <3>1, <3>2, <3>3 DEF UpdateInv, Assigning
  <2> QED  BY <2>1, <2>2
<1>4. ReadingInv'
  BY <1>1 DEF ReportInv, ReadingInv, writeSide
<1>5. ReportsOnePair'
  BY <1>1 DEF ReportInv, ReportsOnePair, writeSide
<1> QED  BY <1>2, <1>3, <1>4, <1>5 DEF ReportInv

(* A thread collects or writes its report: the ids it reads one after the   *)
(* other are those of one update, if none came in between.                  *)
LEMMA WriterStep ==
  ASSUME ReportInv, NEW t \in Writers, Collect(t) \/ Write(t)
  PROVE  ReportInv'
<1>1. /\ UNCHANGED etcdSide /\ UNCHANGED updateSide
  BY DEF Collect, Write, ReadStudyId, ReadRunId, SendReport
<1>2. UpdateInv'
  BY <1>1 DEF ReportInv, UpdateInv, etcdSide, updateSide, Assigning
<1>3. ASSUME NEW w \in {Resting} \cup Writing, reporting' = [reporting EXCEPT ![t] = w],
             w # Resting =>
               /\ ~booting
               /\ w.alone =>
                    /\ ~Assigning
                    /\ w.pc \in {"run_id", "send"} => w.study = study_id_
                    /\ w.pc = "send" => w.run = run_id_
      PROVE  ReportTypes' /\ ReadingInv'
  <2>1. /\ reporting' \in [Writers -> {Resting} \cup Writing]
        /\ \A u \in Writers : reporting'[u] = IF u = t THEN w ELSE reporting[u]
    BY <1>3 DEF ReportInv, ReportTypes
  <2>2. ReportTypes'
    BY <1>1, <2>1 DEF ReportInv, ReportTypes, etcdSide, updateSide
  <2>3. ReadingInv'
    BY <1>1, <1>3, <2>1 DEF ReportInv, ReadingInv, Assigning, etcdSide, updateSide
  <2> QED  BY <2>2, <2>3
<1>4. reporting[t] \in {Resting} \cup Writing /\ reporting \in [Writers -> {Resting} \cup Writing]
  BY DEF ReportInv, ReportTypes
<1>5. study_id_ \in Int /\ run_id_ \in Int
  BY DEF ReportInv, ReportTypes
<1>6. CASE Collect(t)
  <2> DEFINE w == [pc |-> "study_id", study |-> Torn, run |-> Torn,
                   alone |-> pglobal \notin {"assigning", "half"}]
  <2>1. w \in Writing /\ (w.alone => ~Assigning) /\ w.pc = "study_id"
    <3>1. Torn \in Int /\ (pglobal \notin {"assigning", "half"}) \in BOOLEAN
      BY DEF Torn
    <3> QED  BY <3>1 DEF Writing, Assigning
  <2>2. reporting' = [reporting EXCEPT ![t] = w] /\ ~booting /\ report' = report
    BY <1>6 DEF Collect, Watching
  <2> HIDE DEF w
  <2>3. ReportTypes' /\ ReadingInv'
    BY <1>3, <2>1, <2>2
  <2>4. ReportsOnePair'
    BY <1>1, <2>2 DEF ReportInv, ReportsOnePair, etcdSide
  <2> QED  BY <1>2, <2>3, <2>4 DEF ReportInv
<1>7. CASE ReadStudyId(t)
  <2> DEFINE w == [reporting[t] EXCEPT !.pc = "run_id", !.study = study_id_]
  <2>1. reporting[t] \in Writing /\ reporting[t] # Resting
    BY <1>4, <1>7 DEF ReadStudyId, Resting
  <2>2. w \in Writing /\ w.pc = "run_id" /\ w.study = study_id_ /\ w.alone = reporting[t].alone
    BY <1>5, <2>1 DEF Writing
  <2>3. reporting' = [reporting EXCEPT ![t] = w] /\ report' = report
    BY <1>4, <1>7 DEF ReadStudyId
  <2> HIDE DEF w
  <2>4. ~booting /\ (reporting[t].alone => ~Assigning)
    BY <2>1 DEF ReportInv, ReadingInv
  <2>5. ReportTypes' /\ ReadingInv'
    BY <1>3, <2>2, <2>3, <2>4
  <2>6. ReportsOnePair'
    BY <1>1, <2>3 DEF ReportInv, ReportsOnePair, etcdSide
  <2> QED  BY <1>2, <2>5, <2>6 DEF ReportInv
<1>8. CASE ReadRunId(t)
  <2> DEFINE w == [reporting[t] EXCEPT !.pc = "send", !.run = run_id_]
  <2>1. reporting[t] \in Writing /\ reporting[t] # Resting /\ reporting[t].pc = "run_id"
    BY <1>4, <1>8 DEF ReadRunId, Resting
  <2>2. /\ w \in Writing /\ w.pc = "send" /\ w.study = reporting[t].study /\ w.run = run_id_
        /\ w.alone = reporting[t].alone
    BY <1>5, <2>1 DEF Writing
  <2>3. reporting' = [reporting EXCEPT ![t] = w] /\ report' = report
    BY <1>4, <1>8 DEF ReadRunId
  <2> HIDE DEF w
  <2>4. ~booting /\ (reporting[t].alone => ~Assigning /\ reporting[t].study = study_id_)
    BY <2>1 DEF ReportInv, ReadingInv
  <2>5. ReportTypes' /\ ReadingInv'
    BY <1>3, <2>2, <2>3, <2>4
  <2>6. ReportsOnePair'
    BY <1>1, <2>3 DEF ReportInv, ReportsOnePair, etcdSide
  <2> QED  BY <1>2, <2>5, <2>6 DEF ReportInv
<1>9. CASE SendReport(t)
  <2>1. reporting[t] \in Writing /\ reporting[t] # Resting /\ reporting[t].pc = "send"
    BY <1>4, <1>9 DEF SendReport, Resting
  <2>2. /\ reporting' = [reporting EXCEPT ![t] = Resting]
        /\ report' = [tenant |-> t, alone |-> reporting[t].alone, given |-> given,
                      pair |-> [study_id |-> reporting[t].study, run_id |-> reporting[t].run]]
    BY <1>9 DEF SendReport
  <2>3. ReportTypes' /\ ReadingInv'
    BY <1>3, <2>2
  <2>4. ReportsOnePair'
    <3> SUFFICES ASSUME reporting[t].alone
                 PROVE  /\ report'.pair = given.pair
                        /\ given.mixed \/ report'.pair \in held
      BY <1>1, <2>2 DEF ReportsOnePair, etcdSide
    <3>1. ~booting /\ ~Assigning /\ reporting[t].study = study_id_ /\ reporting[t].run = run_id_
      BY <2>1 DEF ReportInv, ReadingInv
    <3>2. given \in GivenPairs
      BY <3>1 DEF ReportInv, UpdateInv
    <3>3. /\ given.mixed \/ given.pair \in held
          /\ study_id_ = given.pair["study_id"] /\ run_id_ = given.pair["run_id"]
      BY <3>1, <3>2 DEF ReportInv, UpdateInv
    <3>4. given.pair \in AnyPair
      BY <3>2 DEF GivenPairs
    <3>5. report'.pair = [study_id |-> given.pair["study_id"], run_id |-> given.pair["run_id"]]
      BY <2>2, <3>1, <3>3
    <3>6. report'.pair = given.pair
      BY <3>4, <3>5, PairOf
    <3> QED  BY <3>3, <3>6
  <2> QED  BY <1>2, <2>3, <2>4 DEF ReportInv
<1> QED  BY <1>6, <1>7, <1>8, <1>9 DEF Write

(* Every step keeps the invariant of Reports.                               *)
LEMMA ReportsNextInv ==
  ASSUME ReportInv, [ReportsNext]_reportVars
  PROVE  ReportInv'
<1>1. CASE \E k \in GlobalKeys, a \in {"update", "set"} : ChangeKey(k, a)
  BY <1>1, ChangeKeyStep
<1>2. CASE GetFails \/ RecoverGlobals \/ Create \/ OnChangeGlobal \/ GetStudy
  BY <1>2, GlobalStep
<1>3. CASE GetRun
  BY <1>3, GetRunStep
<1>4. CASE UpdateStudy
  BY <1>4, AssignStudyStep, AssignedStep DEF UpdateStudy
<1>5. CASE \E t \in Writers : Collect(t) \/ Write(t)
  BY <1>5, WriterStep
<1>6. CASE UNCHANGED reportVars
  BY <1>6 DEF reportVars, ReportInv, ReportTypes, UpdateInv, Assigning, ReadingInv, ReportsOnePair
<1> QED  BY <1>1, <1>2, <1>3, <1>4, <1>5, <1>6 DEF ReportsNext, GlobalThread

(* However the thread of the global configuration and the threads that      *)
(* write reports interleave, a report written while no update_study ran     *)
(* names the study and the run of one update_study, and, if no key changed  *)
(* between the two GETs of that update, a pair that etcd held; of a pair    *)
(* that a change did come between, nothing more is said (OutputBase, whose  *)
(* study_id_ and run_id_ are read without a lock; HVBench::_onChangeGlobal).*)
THEOREM OnePairReported == ReportsSpec => []ReportsOnePair
<1>1. ReportsInit => ReportInv
  BY ReportsInitInv
<1>2. ReportInv /\ [ReportsNext]_reportVars => ReportInv'
  BY ReportsNextInv
<1>3. ReportInv => ReportsOnePair
  BY DEF ReportInv
<1> QED  BY <1>1, <1>2, <1>3, PTL DEF ReportsSpec

-----------------------------------------------------------------------------
(* Generators.                                                              *)

(* A distribution: the types it draws, and which one of a generator's it    *)
(* is.                                                                      *)
Distribution == [types : SUBSET RequestTypes, nr : Nat]

(* A generator: GenConstant or GenTenant.                                   *)
Generator ==
  [kind : {"constant", "tenant"}, inter : Nat, local : Nat,
   weights : SUBSET RequestTypes, disc : Distribution]

(* The caller of next(), or of an update, is elsewhere.                     *)
Idle == [pc |-> "idle"]

(* An update of the weights of generator g is between the change of the     *)
(* weights and the new distribution.                                        *)
Swapping(g) == [pc |-> "swap", g |-> g]

(* What the variables of the generators hold.                               *)
GenTypes ==
  /\ gen \in [Gens -> Generator]
  /\ nexting \in {Idle} \cup [pc : {"chosen"}, g : Gens, calm : BOOLEAN]
                 \cup [pc : {"drawing"}, g : Gens, calm : BOOLEAN, disc : Distribution,
                       alone : BOOLEAN]
  /\ updating \in {Idle} \cup [pc : {"swap"}, g : Gens]
  /\ calm \in BOOLEAN /\ handed.time \in Nat

(* When the next message of a generator is due.                             *)
Due(f, g) == IF f[g].kind = "constant" THEN f[g].local + f[g].inter ELSE f[g].local

(* Nothing is due before the message handed out last, and nothing before    *)
(* the one chosen, as long as no rate is changed.                           *)
ScheduleInv ==
  /\ calm => \A h \in Gens : handed.time =< Due(gen, h)
  /\ nexting.pc # "idle" /\ nexting.calm =>
       \A h \in Gens : Due(gen, nexting.g) =< Due(gen, h)

(* A distribution draws the types of positive weight, except between the    *)
(* two halves of an update.  The one next() draws from is the current one   *)
(* if it has met no update.                                                 *)
WeightsInv ==
  /\ \A g \in Gens : gen[g].kind = "tenant" /\ updating # Swapping(g) =>
       gen[g].disc.types = gen[g].weights
  /\ nexting.pc = "drawing" =>
       /\ gen[nexting.g].kind = "tenant"
       /\ nexting.alone => updating # Swapping(nexting.g) /\ nexting.disc = gen[nexting.g].disc

(* The inductive invariant of Generators.                                   *)
GeneratorInv == GenTypes /\ ScheduleInv /\ WeightsInv /\ HandedAsConfigured

(* A set of natural numbers that is not empty has a least one.              *)
LEMMA SmallestOf ==
  ASSUME NEW S \in SUBSET Nat, S # {}
  PROVE  \E t \in S : \A u \in S : t =< u
<1>1. PICK R : R = {ss \in Nat \X Nat : ss[1] < ss[2]}
  OBVIOUS
<1>2. IsWellFoundedOn(R, Nat)
  BY <1>1, NatLessThanWellFounded DEF OpToRel
<1>3. PICK t \in S : \A u \in S : ~(<<u, t>> \in R)
  BY <1>2, WFMin
<1>4. ASSUME NEW u \in S PROVE t =< u
  <2>1. <<u, t>> \in Nat \X Nat /\ <<u, t>>[1] = u /\ <<u, t>>[2] = t
    OBVIOUS
  <2>2. ~(u < t)
    BY <1>1, <1>3, <2>1
  <2> QED  BY <2>2
<1> QED  BY <1>4

(* A generator is due at a natural number of microseconds.                  *)
LEMMA DueType ==
  ASSUME NEW f \in [Gens -> Generator], NEW g \in Gens
  PROVE  Due(f, g) \in Nat /\ f[g] \in Generator
BY DEF Due, Generator

(* The generator the collection chooses is one that is due first            *)
(* (std::min_element over peek).                                            *)
LEMMA EarliestFirst ==
  ASSUME gen \in [Gens -> Generator]
  PROVE  Earliest \in Gens /\ \A h \in Gens : Due(gen, Earliest) =< Due(gen, h)
<1> DEFINE times == {Due(gen, h) : h \in Gens}
           first == {g \in Gens : \A h \in Gens : Peek(g) <= Peek(h)}
<1>1. Gens \subseteq Nat /\ Gens # {}
  BY GeneratorConstants DEF Gens
<1>2. \A g \in Gens : Peek(g) = Due(gen, g) /\ Due(gen, g) \in Nat
  BY DueType DEF Peek, Due
<1>3. PICK t \in times : \A u \in times : t =< u
  <2>1. times \in SUBSET Nat /\ times # {}
    BY <1>1, <1>2
  <2> HIDE DEF times
  <2> QED  BY <2>1, SmallestOf
<1>4. first \in SUBSET Nat /\ first # {}
  <2>1. PICK g \in Gens : t = Due(gen, g)
    OBVIOUS
  <2>2. ASSUME NEW h \in Gens PROVE Peek(g) <= Peek(h)
    <3>1. Due(gen, h) \in times
      OBVIOUS
    <3> HIDE DEF times
    <3>2. Due(gen, g) =< Due(gen, h)
      BY <1>3, <2>1, <3>1
    <3> QED  BY <1>2, <3>2
  <2>3. g \in first
    BY <2>2
  <2> QED  BY <1>1, <2>3
<1>5. first \subseteq Gens /\ \A g \in first : \A h \in Gens : Due(gen, g) =< Due(gen, h)
  BY <1>2
<1> HIDE DEF first
<1>6. \E x \in first : \A y \in first : x =< y
  BY <1>4, SmallestOf
<1>7. Min(first) \in first
  BY <1>6 DEF Min
<1>8. Earliest = Min(first)
  BY DEF Earliest, first
<1> QED  BY <1>5, <1>7, <1>8

(* The factories build a distribution of the types of positive weight.      *)
LEMMA GenInitInv == GenInit => GeneratorInv
<1> SUFFICES ASSUME GenInit PROVE GeneratorInv
  OBVIOUS
<1>1. \A g \in Gens : GeneratorKinds[g] \in {"constant", "tenant"}
  BY GeneratorConstants DEF Gens
<1>2. ASSUME NEW k \in {"constant", "tenant"}
      PROVE  \A x \in Constructed(k) :
               /\ x \in Generator /\ x.kind = k
               /\ k = "tenant" => x.disc.types = x.weights
  BY GeneratorConstants DEF Constructed, Generator, Distribution, Factories
<1>3. /\ \A g \in Gens : gen[g] \in Constructed(GeneratorKinds[g])
      /\ gen \in [Gens -> UNION {Constructed(k) : k \in ToSet(GeneratorKinds)}]
  BY DEF GenInit
<1>4. /\ \A g \in Gens : /\ gen[g] \in Generator
                         /\ gen[g].kind = "tenant" => gen[g].disc.types = gen[g].weights
  BY <1>1, <1>2, <1>3
<1>5. gen \in [Gens -> Generator]
  BY <1>3, <1>4
<1>6. nexting = Idle /\ updating = Idle /\ handed = NoMsg /\ calm = TRUE
  BY DEF GenInit, Idle
<1>7. handed.time = 0 /\ handed.ordered = FALSE /\ handed.certain = FALSE
  BY <1>6 DEF NoMsg
<1>8. \A h \in Gens : Due(gen, h) \in Nat
  BY <1>5, DueType
<1>9. GenTypes
  BY <1>5, <1>6, <1>7 DEF GenTypes
<1>10. ScheduleInv
  BY <1>6, <1>7, <1>8 DEF ScheduleInv, Idle
<1>11. WeightsInv
  BY <1>4, <1>6 DEF WeightsInv, Idle
<1>12. HandedAsConfigured
  BY <1>7 DEF HandedAsConfigured
<1> QED  BY <1>9, <1>10, <1>11, <1>12 DEF GeneratorInv

(* next() chooses a generator: nothing is due before it.                    *)
LEMMA ChooseStep ==
  ASSUME GeneratorInv, ChooseGenerator
  PROVE  GeneratorInv'
<1>1. /\ nexting' = [pc |-> "chosen", g |-> Earliest, calm |-> TRUE]
      /\ UNCHANGED <<gen, updating, handed, calm>>
  BY DEF ChooseGenerator
<1>2. Earliest \in Gens /\ \A h \in Gens : Due(gen, Earliest) =< Due(gen, h)
  BY EarliestFirst DEF GeneratorInv, GenTypes
<1>3. nexting'.pc = "chosen" /\ nexting'.g = Earliest
  BY <1>1
<1>4. GenTypes'
  BY <1>1, <1>2 DEF GeneratorInv, GenTypes
<1>5. ScheduleInv'
  BY <1>1, <1>2, <1>3 DEF GeneratorInv, ScheduleInv, Due
<1>6. WeightsInv'
  BY <1>1, <1>3 DEF GeneratorInv, WeightsInv
<1>7. HandedAsConfigured'
  BY <1>1 DEF GeneratorInv, HandedAsConfigured
<1> QED  BY <1>4, <1>5, <1>6, <1>7 DEF GeneratorInv

(* A message handed out by the generator chosen: it is due no earlier than  *)
(* the last one, and what is left is due no earlier than it.                *)
LEMMA HandOutStep ==
  ASSUME GeneratorInv, NEW g \in Gens, nexting.pc # "idle", nexting.g = g,
         NEW types, NEW certain \in BOOLEAN, HandOut(g, Due(gen, g), types, certain),
         certain => types \subseteq gen[g].weights,
         NEW gap \in Nat, gen' = [gen EXCEPT ![g].local = @ + gap],
         gen[g].kind = "constant" => gap = gen[g].inter, updating' = updating
  PROVE  GeneratorInv'
<1>1. PICK t \in types :
        handed' = [time |-> Due(gen, g), before |-> handed.time, type |-> t,
                   reply |-> HasReply(t), ordered |-> calm /\ nexting.calm,
                   weights |-> gen[g].weights, certain |-> certain]
  BY DEF HandOut
<1>2. /\ handed'.time = Due(gen, g) /\ handed'.before = handed.time /\ handed'.type = t
      /\ handed'.ordered = (calm /\ nexting.calm) /\ handed'.weights = gen[g].weights
      /\ handed'.certain = certain
  BY <1>1
<1>3. calm' = nexting.calm /\ nexting' = Idle /\ nexting'.pc = "idle" /\ calm' \in BOOLEAN
  BY DEF HandOut, Idle, GeneratorInv, GenTypes
<1>4. /\ gen \in [Gens -> Generator] /\ gen[g] \in Generator
      /\ gen' \in [Gens -> Generator]
      /\ \A h \in Gens : /\ gen'[h].kind = gen[h].kind /\ gen'[h].weights = gen[h].weights
                         /\ gen'[h].disc = gen[h].disc /\ gen'[h].inter = gen[h].inter
                         /\ gen'[h].local = IF h = g THEN gen[g].local + gap ELSE gen[h].local
  BY DEF GeneratorInv, GenTypes, Generator
<1>5. \A h \in Gens : Due(gen, h) \in Nat /\ Due(gen, h) =< Due(gen', h)
  <2> SUFFICES ASSUME NEW h \in Gens PROVE Due(gen, h) \in Nat /\ Due(gen, h) =< Due(gen', h)
    OBVIOUS
  <2>1. gen[h].local \in Nat /\ gen[h].inter \in Nat
    BY <1>4 DEF Generator
  <2> QED  BY <1>4, <2>1 DEF Due
<1>6. GenTypes'
  BY <1>2, <1>3, <1>4, <1>5 DEF GeneratorInv, GenTypes
<1>7. ScheduleInv'
  <2> SUFFICES ASSUME nexting.calm, NEW h \in Gens PROVE Due(gen, g) =< Due(gen', h)
    BY <1>2, <1>3 DEF ScheduleInv
  <2>1. Due(gen, g) =< Due(gen, h)
    BY DEF GeneratorInv, ScheduleInv
  <2>2. Due(gen', h) \in Nat
    BY <1>4, DueType
  <2>3. /\ Due(gen, g) \in Nat /\ Due(gen, h) \in Nat
        /\ Due(gen, h) =< Due(gen', h)
    BY <1>5
  <2> QED  BY <2>1, <2>2, <2>3
<1>8. WeightsInv'
  BY <1>3, <1>4 DEF GeneratorInv, WeightsInv
<1>9. HandedAsConfigured'
  <2>1. calm => handed.time =< Due(gen, g)
    BY DEF GeneratorInv, ScheduleInv
  <2> QED  BY <1>1, <1>2, <2>1 DEF HandedAsConfigured
<1> QED  BY <1>6, <1>7, <1>8, <1>9 DEF GeneratorInv

(* GenConstant::next hands out its one type, and is due one inter-arrival   *)
(* time later.                                                              *)
LEMMA ConstantStep ==
  ASSUME GeneratorInv, NextConstant
  PROVE  GeneratorInv'
<1> DEFINE g == nexting.g
<1>1. /\ nexting.pc = "chosen" /\ gen[g].kind = "constant"
      /\ gen' = [gen EXCEPT ![g].local = @ + gen[g].inter]
      /\ HandOut(g, gen'[g].local, gen[g].weights, TRUE)
      /\ updating' = updating
  BY DEF NextConstant
<1>2. g \in Gens
  BY <1>1 DEF GeneratorInv, GenTypes, Idle
<1>3. gen[g].inter \in Nat /\ gen'[g].local = Due(gen, g)
  BY <1>1, <1>2 DEF GeneratorInv, GenTypes, Generator, Due
<1> HIDE DEF g
<1>4. nexting.g = g
  BY DEF g
<1> QED  BY <1>1, <1>2, <1>3, <1>4, HandOutStep

(* GenTenant::next takes the distribution it draws from.                    *)
LEMMA TakeStep ==
  ASSUME GeneratorInv, TakeDistribution
  PROVE  GeneratorInv'
<1> DEFINE g == nexting.g
<1>1. /\ nexting.pc = "chosen" /\ gen[g].kind = "tenant"
      /\ nexting' = [pc |-> "drawing", g |-> g, calm |-> nexting.calm, disc |-> gen[g].disc,
                     alone |-> updating # Swapping(g)]
      /\ UNCHANGED <<gen, updating, handed, calm>>
  BY DEF TakeDistribution, Swapping
<1>2. g \in Gens /\ nexting.calm \in BOOLEAN /\ gen[g].disc \in Distribution
  BY <1>1 DEF GeneratorInv, GenTypes, Idle, Generator
<1>3. /\ nexting'.pc = "drawing" /\ nexting'.g = g /\ nexting'.calm = nexting.calm
      /\ nexting'.disc = gen[g].disc /\ nexting'.alone = (updating # Swapping(g))
  BY <1>1
<1>4. GenTypes'
  BY <1>1, <1>2 DEF GeneratorInv, GenTypes
<1>5. ScheduleInv'
  BY <1>1, <1>3 DEF GeneratorInv, ScheduleInv, Due
<1>6. WeightsInv'
  BY <1>1, <1>3 DEF GeneratorInv, WeightsInv
<1>7. HandedAsConfigured'
  BY <1>1 DEF GeneratorInv, HandedAsConfigured
<1> QED  BY <1>4, <1>5, <1>6, <1>7 DEF GeneratorInv

(* GenTenant::next draws: from the weights configured, unless an update of  *)
(* them met it or none is positive.                                         *)
LEMMA TenantStep ==
  ASSUME GeneratorInv, NextTenant
  PROVE  GeneratorInv'
<1> DEFINE g == nexting.g
           freed == nexting.disc.nr # gen[g].disc.nr
           types == IF freed \/ nexting.disc.types = {} THEN RequestTypes ELSE nexting.disc.types
           certain == nexting.alone /\ nexting.disc.types # {}
<1>1. /\ nexting.pc = "drawing"
      /\ \E gap \in Gaps : gen' = [gen EXCEPT ![g].local = @ + gap]
      /\ HandOut(g, gen[g].local, types, certain)
      /\ updating' = updating
  BY DEF NextTenant
<1>2. g \in Gens /\ gen[g].kind = "tenant" /\ certain \in BOOLEAN
  BY <1>1 DEF GeneratorInv, GenTypes, Idle, WeightsInv
<1>3. certain => types = gen[g].weights
  <2> SUFFICES ASSUME certain PROVE types = gen[g].weights
    OBVIOUS
  <2>1. updating # Swapping(g) /\ nexting.disc = gen[g].disc
    BY <1>1 DEF GeneratorInv, WeightsInv
  <2>2. gen[g].disc.types = gen[g].weights
    BY <1>2, <2>1 DEF GeneratorInv, WeightsInv
  <2> QED  BY <2>1, <2>2
<1>4. gen[g].local = Due(gen, g)
  BY <1>2 DEF Due
<1>5. PICK gap \in Nat : gen' = [gen EXCEPT ![g].local = @ + gap]
  BY <1>1, GeneratorConstants
<1> HIDE DEF types, certain, g
<1>6. nexting.g = g
  BY DEF g
<1>7. certain => types \subseteq gen[g].weights
  BY <1>3
<1>8. gen[g].kind = "constant" => gap = gen[g].inter
  BY <1>2
<1>9. HandOut(g, Due(gen, g), types, certain)
  BY <1>1, <1>4
<1>10. nexting.pc # "idle" /\ updating' = updating
  BY <1>1
<1> QED  BY <1>2, <1>5, <1>6, <1>7, <1>8, <1>9, <1>10, HandOutStep

(* The second half of an update: the distribution of the new weights. A     *)
(* draw from the old one is no longer alone.                                *)
LEMMA SwapStep ==
  ASSUME GeneratorInv, SwapDistribution
  PROVE  GeneratorInv'
<1> DEFINE u == updating.g
<1>1. /\ updating.pc = "swap" /\ updating' = Idle
      /\ gen' = [gen EXCEPT ![u].disc = [types |-> gen[u].weights, nr |-> @.nr + 1]]
      /\ UNCHANGED <<nexting, handed, calm>>
  BY DEF SwapDistribution, Idle
<1>2. u \in Gens /\ updating = Swapping(u)
  BY <1>1 DEF GeneratorInv, GenTypes, Idle, Swapping
<1> HIDE DEF u
<1>3. /\ gen \in [Gens -> Generator] /\ gen[u] \in Generator
      /\ gen[u].weights \in SUBSET RequestTypes /\ gen[u].disc.nr \in Nat
  BY <1>2 DEF GeneratorInv, GenTypes, Generator, Distribution
<1>4. [types |-> gen[u].weights, nr |-> gen[u].disc.nr + 1] \in Distribution
  BY <1>3 DEF Distribution
<1>5. /\ gen' \in [Gens -> Generator]
      /\ \A h \in Gens : /\ gen'[h].kind = gen[h].kind /\ gen'[h].weights = gen[h].weights
                         /\ gen'[h].inter = gen[h].inter /\ gen'[h].local = gen[h].local
                         /\ h # u => gen'[h].disc = gen[h].disc
                         /\ h = u => gen'[h].disc.types = gen[h].weights
  BY <1>1, <1>2, <1>3, <1>4 DEF Generator
<1>6. GenTypes'
  BY <1>1, <1>5 DEF GeneratorInv, GenTypes
<1>7. ScheduleInv'
  BY <1>1, <1>5 DEF GeneratorInv, ScheduleInv, Due, GenTypes, Idle
<1>8. WeightsInv'
  <2>1. \A g \in Gens : Swapping(g) # Idle /\ (g # u => updating # Swapping(g))
    BY <1>2 DEF Swapping, Idle
  <2>2. nexting.pc = "drawing" => nexting.g \in Gens
    BY DEF GeneratorInv, GenTypes, Idle
  <2> QED  BY <1>1, <1>2, <1>5, <2>1, <2>2 DEF GeneratorInv, WeightsInv
<1>9. HandedAsConfigured'
  BY <1>1 DEF GeneratorInv, HandedAsConfigured
<1> QED  BY <1>6, <1>7, <1>8, <1>9 DEF GeneratorInv

(* A change of the rate moves the time a constant generator is due: the     *)
(* order promised to the messages under way is off.                         *)
LEMMA RateStep ==
  ASSUME GeneratorInv, NEW g \in Gens, NEW gap \in Gaps, UpdateRate(g, gap)
  PROVE  GeneratorInv'
<1>1. /\ gen' = [gen EXCEPT ![g].inter = gap] /\ calm' = FALSE
      /\ nexting' = IF nexting.pc = "idle" THEN nexting ELSE [nexting EXCEPT !.calm = FALSE]
      /\ updating' = updating /\ handed' = handed
  BY DEF UpdateRate
<1>2. gap \in Nat
  BY GeneratorConstants
<1>3. /\ gen' \in [Gens -> Generator]
      /\ \A h \in Gens : /\ gen'[h].kind = gen[h].kind /\ gen'[h].weights = gen[h].weights
                         /\ gen'[h].disc = gen[h].disc
  BY <1>1, <1>2 DEF GeneratorInv, GenTypes, Generator
<1>4. /\ nexting' \in {Idle} \cup [pc : {"chosen"}, g : Gens, calm : BOOLEAN]
                 \cup [pc : {"drawing"}, g : Gens, calm : BOOLEAN, disc : Distribution,
                       alone : BOOLEAN]
      /\ nexting'.pc = nexting.pc
      /\ nexting.pc # "idle" => nexting'.calm = FALSE
      /\ nexting.pc = "drawing" => nexting'.g = nexting.g /\ nexting'.disc = nexting.disc
                                   /\ nexting'.alone = nexting.alone
  <2>1. CASE nexting.pc = "idle"
    BY <1>1, <2>1 DEF GeneratorInv, GenTypes, Idle
  <2>2. CASE nexting.pc = "chosen"
    <3>1. nexting \in [pc : {"chosen"}, g : Gens, calm : BOOLEAN]
      BY <2>2 DEF GeneratorInv, GenTypes, Idle
    <3> QED  BY <1>1, <2>2, <3>1
  <2>3. CASE nexting.pc = "drawing"
    <3>1. nexting \in [pc : {"drawing"}, g : Gens, calm : BOOLEAN, disc : Distribution,
                       alone : BOOLEAN]
      BY <2>3 DEF GeneratorInv, GenTypes, Idle
    <3> QED  BY <1>1, <2>3, <3>1
  <2>4. nexting.pc \in {"idle", "chosen", "drawing"}
    BY DEF GeneratorInv, GenTypes, Idle
  <2> QED  BY <2>1, <2>2, <2>3, <2>4
<1>5. GenTypes'
  BY <1>1, <1>3, <1>4 DEF GeneratorInv, GenTypes
<1>6. ScheduleInv'
  BY <1>1, <1>4 DEF ScheduleInv
<1>7. WeightsInv'
  <2>1. nexting.pc = "drawing" => nexting.g \in Gens
    BY DEF GeneratorInv, GenTypes, Idle
  <2> QED  BY <1>1, <1>3, <1>4, <2>1 DEF GeneratorInv, WeightsInv
<1>8. HandedAsConfigured'
  BY <1>1 DEF GeneratorInv, HandedAsConfigured
<1> QED  BY <1>5, <1>6, <1>7, <1>8 DEF GeneratorInv

(* The first half of an update of the weights, which a generator that is    *)
(* not a tenant's ignores.                                                  *)
LEMMA WeightStep ==
  ASSUME GeneratorInv, NEW g \in Gens, NEW t \in RequestTypes, NEW b \in BOOLEAN,
         UpdateWeight(g, t, b)
  PROVE  GeneratorInv'
<1>1. updating.pc = "idle" /\ handed' = handed /\ calm' = calm
  BY DEF UpdateWeight
<1>2. HandedAsConfigured'
  BY <1>1 DEF GeneratorInv, HandedAsConfigured
<1>3. CASE gen[g].kind # "tenant"
  <2>1. UNCHANGED <<updating, gen, nexting>>
    BY <1>3 DEF UpdateWeight
  <2> QED  BY <1>1, <1>2, <2>1 DEF GeneratorInv, GenTypes, ScheduleInv, WeightsInv, Due
<1>4. CASE gen[g].kind = "tenant"
  <2> DEFINE w == IF b THEN gen[g].weights \cup {t} ELSE gen[g].weights \ {t}
  <2>1. /\ updating' = Swapping(g) /\ gen' = [gen EXCEPT ![g].weights = w]
        /\ nexting' = IF nexting.pc = "drawing" /\ nexting.g = g
                      THEN [nexting EXCEPT !.alone = FALSE] ELSE nexting
    BY <1>4 DEF UpdateWeight, Swapping
  <2>2. w \in SUBSET RequestTypes
    BY DEF GeneratorInv, GenTypes, Generator
  <2> HIDE DEF w
  <2>3. /\ gen' \in [Gens -> Generator]
        /\ \A h \in Gens : /\ gen'[h].kind = gen[h].kind /\ gen'[h].disc = gen[h].disc
                           /\ gen'[h].inter = gen[h].inter /\ gen'[h].local = gen[h].local
                           /\ h # g => gen'[h].weights = gen[h].weights
    BY <2>1, <2>2 DEF GeneratorInv, GenTypes, Generator
  <2>4. /\ nexting' \in {Idle} \cup [pc : {"chosen"}, g : Gens, calm : BOOLEAN]
                   \cup [pc : {"drawing"}, g : Gens, calm : BOOLEAN, disc : Distribution,
                         alone : BOOLEAN]
        /\ nexting'.pc = nexting.pc
        /\ nexting.pc # "idle" => nexting'.calm = nexting.calm /\ nexting'.g = nexting.g
                                  /\ nexting.g \in Gens
        /\ nexting.pc = "drawing" => nexting'.disc = nexting.disc
                                     /\ (nexting'.alone => nexting.alone /\ nexting.g # g)
    <3>1. CASE nexting.pc = "drawing"
      <4>1. nexting \in [pc : {"drawing"}, g : Gens, calm : BOOLEAN, disc : Distribution,
                         alone : BOOLEAN]
        BY <3>1 DEF GeneratorInv, GenTypes, Idle
      <4> QED  BY <2>1, <3>1, <4>1
    <3>2. CASE nexting.pc # "drawing"
      <4>1. nexting' = nexting
        BY <2>1, <3>2
      <4> QED  BY <3>2, <4>1 DEF GeneratorInv, GenTypes, Idle
    <3> QED  BY <3>1, <3>2
  <2>5. GenTypes'
    <3>1. Swapping(g) \in [pc : {"swap"}, g : Gens]
      BY DEF Swapping
    <3> QED  BY <1>1, <2>1, <2>3, <2>4, <3>1 DEF GeneratorInv, GenTypes
  <2>6. ScheduleInv'
    BY <1>1, <2>3, <2>4 DEF GeneratorInv, ScheduleInv, Due
  <2>7. WeightsInv'
    <3>1. \A h \in Gens : (h # g => Swapping(g) # Swapping(h)) /\ updating # Swapping(h)
      BY <1>1 DEF Swapping
    <3> QED  BY <2>1, <2>3, <2>4, <3>1 DEF GeneratorInv, WeightsInv
  <2> QED  BY <1>2, <2>5, <2>6, <2>7 DEF GeneratorInv
<1> QED  BY <1>3, <1>4

(* Every step keeps the invariant of Generators.                            *)
LEMMA GenNextInv ==
  ASSUME GeneratorInv, [GenNext]_genVars
  PROVE  GeneratorInv'
<1>1. CASE GenNext
  BY <1>1, ChooseStep, ConstantStep, TakeStep, TenantStep, SwapStep, RateStep, WeightStep
  DEF GenNext
<1>2. CASE UNCHANGED genVars
  BY <1>2 DEF genVars, GeneratorInv, GenTypes, ScheduleInv, WeightsInv, Due, HandedAsConfigured
<1> QED  BY <1>1, <1>2

(* For any generators, gaps and start of their schedules: a message is not  *)
(* due before the one handed out before it, if no rate was changed since    *)
(* that one was chosen; and it has a type of positive weight, if no update  *)
(* of the weights touched its draw and some weight was positive.  Of the    *)
(* messages that an update does touch, nothing is said                      *)
(* (GeneratorContainer::next, ConstantGenerator and TenantGenerator::next). *)
THEOREM ScheduleAsConfigured == GenSpec => []HandedAsConfigured
<1>1. GenInit => GeneratorInv
  BY GenInitInv
<1>2. GeneratorInv /\ [GenNext]_genVars => GeneratorInv'
  BY GenNextInv
<1>3. GeneratorInv => HandedAsConfigured
  BY DEF GeneratorInv
<1> QED  BY <1>1, <1>2, <1>3, PTL DEF GenSpec

-----------------------------------------------------------------------------
(* EtcdClient.                                                              *)

(* The calls of Client.                                                     *)
Ops == {"Set", "ClearTtl", "SetOrdered", "Get", "GetAll", "GetOrdered", "Delete",
        "AddDirectory", "UpdateDirectoryTtl", "DeleteDirectory", "CompareAndSwapIf",
        "CompareAndDeleteIf"}

(* What the calls of each kind are about.                                   *)
CallShape(c) ==
  /\ c.op \in Ops /\ c.path \in {Dir, Key} /\ c.flag \in BOOLEAN
  /\ c.op \in {"Set", "ClearTtl", "CompareAndSwapIf"} => c.path = Key /\ c.value \in EtcdValues
  /\ c.op = "SetOrdered" => c.path = Dir /\ c.value \in EtcdValues
  /\ c.op = "CompareAndDeleteIf" => c.path = Key /\ c.exist = None
  /\ c.op \in {"GetAll", "GetOrdered", "AddDirectory", "UpdateDirectoryTtl", "DeleteDirectory"} =>
       c.path = Dir
  /\ c.op \notin {"CompareAndSwapIf", "CompareAndDeleteIf"} =>
       c.old = NoValue /\ c.index = 0 /\ c.exist = None

(* What the fields of a call are taken from.                                *)
CallRecord ==
  [op : {"none"} \cup Ops, path : {Dir, Key}, value : EtcdValues \cup {NoValue},
   old : EtcdValues \cup {NoValue}, index : {0, 1, 2}, exist : {None, "true", "false"},
   flag : BOOLEAN]

(* Every call the model makes is of that kind.                              *)
LEMMA CallsShaped == \A c \in Calls : CallShape(c)
<1> DEFINE keys == {[Blank EXCEPT !.path = p] : p \in {Dir, Key}}
           set == {[Blank EXCEPT !.path = Key, !.value = v] : v \in EtcdValues}
           flagged(S) == S \union {[c EXCEPT !.flag = TRUE] : c \in S}
           dirs == {Blank}
           swapValue == UNION {{[c EXCEPT !.old = v] : v \in EtcdValues} : c \in set}
           swapIndex == UNION {{[c EXCEPT !.index = i] : i \in {1, 2}} : c \in set}
           swap == (UNION {{[c EXCEPT !.old = v] : v \in EtcdValues} : c \in set})
                   \union (UNION {{[c EXCEPT !.index = i] : i \in {1, 2}} : c \in set})
           drop == {[Blank EXCEPT !.path = Key, !.old = v] : v \in EtcdValues}
                   \union {[Blank EXCEPT !.path = Key, !.index = i] : i \in {1, 2}}
           ordered == {[c EXCEPT !.path = Dir] : c \in set}
           exists == UNION {{[c EXCEPT !.exist = e] : e \in {"true", "false"}} : c \in set}
           With(r) == {[c EXCEPT !.op = r.op] : c \in r.of}
           groups ==
             {[op |-> "Set", of |-> flagged(set)], [op |-> "ClearTtl", of |-> set],
              [op |-> "SetOrdered", of |-> ordered],
              [op |-> "Get", of |-> keys], [op |-> "GetAll", of |-> dirs],
              [op |-> "GetOrdered", of |-> dirs], [op |-> "Delete", of |-> keys],
              [op |-> "AddDirectory", of |-> flagged(dirs)], [op |-> "UpdateDirectoryTtl", of |-> dirs],
              [op |-> "DeleteDirectory", of |-> flagged(dirs)],
              [op |-> "CompareAndSwapIf", of |-> swap \union exists],
              [op |-> "CompareAndDeleteIf", of |-> drop]}
<1>1. /\ Blank \in CallRecord /\ Blank.path = Dir /\ Blank.old = NoValue /\ Blank.index = 0
      /\ Blank.exist = None
  BY DEF Blank, CallRecord
<1>2. \A b \in set : /\ b \in CallRecord /\ b.path = Key /\ b.value \in EtcdValues
                     /\ b.old = NoValue /\ b.index = 0 /\ b.exist = None
  <2> SUFFICES ASSUME NEW v \in EtcdValues,
                      NEW b, b = [Blank EXCEPT !.path = Key, !.value = v]
               PROVE  /\ b \in CallRecord /\ b.path = Key /\ b.value \in EtcdValues
                      /\ b.old = NoValue /\ b.index = 0 /\ b.exist = None
    OBVIOUS
  <2>1. b \in CallRecord
    BY <1>1 DEF CallRecord
  <2>2. b.path = Key /\ b.value = v /\ b.old = NoValue /\ b.index = 0 /\ b.exist = None
    BY <1>1 DEF CallRecord
  <2> QED  BY <2>1, <2>2
<1>3. \A b \in keys : b \in CallRecord /\ b.old = NoValue /\ b.index = 0 /\ b.exist = None
  <2> SUFFICES ASSUME NEW p \in {Dir, Key}, NEW b, b = [Blank EXCEPT !.path = p]
               PROVE  b \in CallRecord /\ b.old = NoValue /\ b.index = 0 /\ b.exist = None
    OBVIOUS
  <2> QED  BY <1>1 DEF CallRecord
<1>4. \A b \in flagged(dirs) : /\ b \in CallRecord /\ b.path = Dir
                              /\ b.old = NoValue /\ b.index = 0 /\ b.exist = None
  <2> DEFINE u == [Blank EXCEPT !.flag = TRUE]
  <2>1. /\ u \in CallRecord /\ u.path = Dir /\ u.old = NoValue /\ u.index = 0 /\ u.exist = None
    BY <1>1 DEF CallRecord
  <2>2. flagged(dirs) = {Blank, u}
    OBVIOUS
  <2> QED  BY <1>1, <2>1, <2>2
<1>5. \A b \in drop : b \in CallRecord /\ b.path = Key /\ b.exist = None
  <2>1. ASSUME NEW v \in EtcdValues
        PROVE  LET b == [Blank EXCEPT !.path = Key, !.old = v] IN
               b \in CallRecord /\ b.path = Key /\ b.exist = None
    BY <1>1 DEF CallRecord
  <2>2. ASSUME NEW i \in {1, 2}
        PROVE  LET b == [Blank EXCEPT !.path = Key, !.index = i] IN
               b \in CallRecord /\ b.path = Key /\ b.exist = None
    BY <1>1 DEF CallRecord
  <2> QED  BY <2>1, <2>2
<1> HIDE DEF set
<1>6. \A b \in flagged(set) : /\ b \in CallRecord /\ b.path = Key /\ b.value \in EtcdValues
                             /\ b.old = NoValue /\ b.index = 0 /\ b.exist = None
  BY <1>2 DEF CallRecord
<1>7. \A b \in ordered : /\ b \in CallRecord /\ b.path = Dir /\ b.value \in EtcdValues
                         /\ b.old = NoValue /\ b.index = 0 /\ b.exist = None
  BY <1>2 DEF CallRecord
<1>8. \A b \in swap \union exists : b \in CallRecord /\ b.path = Key /\ b.value \in EtcdValues
  <2>1. \A b \in swap : b \in CallRecord /\ b.path = Key /\ b.value \in EtcdValues
    <3>1. ASSUME NEW a \in set, NEW v \in EtcdValues
          PROVE  LET b == [a EXCEPT !.old = v] IN
                 b \in CallRecord /\ b.path = Key /\ b.value \in EtcdValues
      BY <1>2 DEF CallRecord
    <3>2. ASSUME NEW a \in set, NEW i \in {1, 2}
          PROVE  LET b == [a EXCEPT !.index = i] IN
                 b \in CallRecord /\ b.path = Key /\ b.value \in EtcdValues
      BY <1>2 DEF CallRecord
    <3>3. ASSUME NEW b \in swapValue
          PROVE  b \in CallRecord /\ b.path = Key /\ b.value \in EtcdValues
      <4>1. PICK a \in set : b \in {[a EXCEPT !.old = v] : v \in EtcdValues}
        BY <3>3
      <4>2. PICK v \in EtcdValues : b = [a EXCEPT !.old = v]
        BY <4>1
      <4> QED  BY <3>1, <4>2
    <3>4. ASSUME NEW b \in swapIndex
          PROVE  b \in CallRecord /\ b.path = Key /\ b.value \in EtcdValues
      <4>1. PICK a \in set : b \in {[a EXCEPT !.index = i] : i \in {1, 2}}
        BY <3>4
      <4>2. PICK i \in {1, 2} : b = [a EXCEPT !.index = i]
        BY <4>1
      <4> QED  BY <3>2, <4>2
    <3> HIDE DEF swapValue, swapIndex
    <3>5. swap = swapValue \union swapIndex
      BY Zenon DEF swapValue, swapIndex
    <3> HIDE DEF swap
    <3> QED  BY <3>3, <3>4, <3>5
  <2>2. \A b \in exists : b \in CallRecord /\ b.path = Key /\ b.value \in EtcdValues
    BY <1>2 DEF CallRecord
  <2> QED  BY <2>1, <2>2
<1>9. dirs \subseteq flagged(dirs) /\ \A b \in set : b \in flagged(set)
  OBVIOUS
<1> HIDE DEF keys, flagged, dirs, swap, swapValue, swapIndex, drop, ordered, exists
<1>10. Calls = UNION {With(r) : r \in groups}
  BY DEF Calls, keys, set, flagged, dirs, swap, drop, ordered, exists
<1>11. SUFFICES ASSUME NEW r \in groups, NEW b \in r.of, NEW c, c = [b EXCEPT !.op = r.op]
                PROVE  CallShape(c)
  BY <1>10
<1>12. ASSUME b \in CallRecord, r.op \in Ops
       PROVE  /\ c.op = r.op /\ c.path = b.path /\ c.value = b.value /\ c.old = b.old
              /\ c.index = b.index /\ c.exist = b.exist /\ c.flag \in BOOLEAN
              /\ c.path \in {Dir, Key} /\ c.op \in Ops
  BY <1>11, <1>12 DEF CallRecord
<1> HIDE DEF groups
<1>13. CASE r.op = "Set" /\ r.of = flagged(set)
  BY <1>6, <1>12, <1>13 DEF CallShape, Ops
<1>14. CASE r.op = "ClearTtl" /\ r.of = set
  BY <1>2, <1>12, <1>14 DEF CallShape, Ops
<1>15. CASE r.op = "SetOrdered" /\ r.of = ordered
  BY <1>7, <1>12, <1>15 DEF CallShape, Ops
<1>16. CASE r.op \in {"Get", "Delete"} /\ r.of = keys
  BY <1>3, <1>12, <1>16 DEF CallShape, Ops
<1>17. CASE r.op \in {"GetAll", "GetOrdered", "UpdateDirectoryTtl"} /\ r.of = dirs
  BY <1>4, <1>9, <1>12, <1>17 DEF CallShape, Ops
<1>18. CASE r.op \in {"AddDirectory", "DeleteDirectory"} /\ r.of = flagged(dirs)
  BY <1>4, <1>12, <1>18 DEF CallShape, Ops
<1>19. CASE r.op = "CompareAndSwapIf" /\ r.of = swap \union exists
  BY <1>8, <1>12, <1>19 DEF CallShape, Ops
<1>20. CASE r.op = "CompareAndDeleteIf" /\ r.of = drop
  BY <1>5, <1>12, <1>20 DEF CallShape, Ops
<1> QED  BY <1>13, <1>14, <1>15, <1>16, <1>17, <1>18, <1>19, <1>20 DEF groups

(* Changed, of a call that finds the store b and leaves a.                  *)
ChangedIn(b, a, p, kind, value, ttl) ==
  /\ a[p].kind = kind /\ a[p].value = value /\ a[p].ttl = ttl
  /\ \A q \in Paths \ {p, Dir} : a[q] = b[q]

(* Gone, of such a call.                                                    *)
GoneIn(b, a, ps) == \A q \in Paths : a[q] = IF q \in ps THEN Absent ELSE b[q]

(* Documented, of such a call.                                              *)
DocumentedOf(c, b, a) ==
  CASE c.op \in Reads -> a = b
    [] c.op = "Set" -> ChangedIn(b, a, c.path, "value", c.value, c.flag)
    [] c.op = "ClearTtl" ->
         b[c.path].kind = "value" /\ ChangedIn(b, a, c.path, "value", c.value, FALSE)
    [] c.op = "SetOrdered" ->
         \E i \in DOMAIN Ordered : /\ b[Ordered[i]] = Absent
                                   /\ ChangedIn(b, a, Ordered[i], "value", c.value, FALSE)
    [] c.op = "Delete" -> b[c.path].kind = "value" /\ GoneIn(b, a, {c.path})
    [] c.op = "AddDirectory" ->
         b[c.path] = Absent /\ ChangedIn(b, a, c.path, "dir", NoValue, c.flag)
    [] c.op = "UpdateDirectoryTtl" ->
         b[c.path].kind = "dir" /\ ChangedIn(b, a, c.path, "dir", NoValue, TRUE)
    [] c.op = "DeleteDirectory" ->
         /\ b[c.path] # Absent /\ GoneIn(b, a, {Dir} \union Below(Dir))
         /\ c.flag \/ \A q \in Below(Dir) : b[q] = Absent
    [] c.op = "CompareAndSwapIf" ->
         /\ c.old # NoValue => b[c.path].value = c.old
         /\ c.index # 0 => b[c.path].index = c.index
         /\ c.exist # None => (c.exist = "true") = (b[c.path] # Absent)
         /\ ChangedIn(b, a, c.path, "value", c.value, FALSE)
    [] c.op = "CompareAndDeleteIf" ->
         /\ c.old # NoValue => b[c.path].value = c.old
         /\ c.index # 0 => b[c.path].index = c.index
         /\ GoneIn(b, a, {c.path})

(* What Set is documented to do: DocumentedOf, one call at a time.          *)
LEMMA DocumentedSet ==
  ASSUME NEW c, c.op = "Set", NEW b, NEW a
  PROVE  DocumentedOf(c, b, a) <=>
         (ChangedIn(b, a, c.path, "value", c.value, c.flag))
BY DEF DocumentedOf, Reads

(* What SetOrdered is documented to do.                                     *)
LEMMA DocumentedSetOrdered ==
  ASSUME NEW c, c.op = "SetOrdered", NEW b, NEW a
  PROVE  DocumentedOf(c, b, a) <=>
         (\E i \in DOMAIN Ordered : /\ b[Ordered[i]] = Absent
                                   /\ ChangedIn(b, a, Ordered[i], "value", c.value, FALSE))
BY DEF DocumentedOf, Reads

(* What CompareAndSwapIf is documented to do.                               *)
LEMMA DocumentedCompareAndSwapIf ==
  ASSUME NEW c, c.op = "CompareAndSwapIf", NEW b, NEW a
  PROVE  DocumentedOf(c, b, a) <=>
         (/\ c.old # NoValue => b[c.path].value = c.old
          /\ c.index # 0 => b[c.path].index = c.index
          /\ c.exist # None => (c.exist = "true") = (b[c.path] # Absent)
          /\ ChangedIn(b, a, c.path, "value", c.value, FALSE))
BY DEF DocumentedOf, Reads

(* What DeleteDirectory is documented to do.                                *)
LEMMA DocumentedDeleteDirectory ==
  ASSUME NEW c, c.op = "DeleteDirectory", NEW b, NEW a
  PROVE  DocumentedOf(c, b, a) <=>
         (/\ b[c.path] # Absent /\ GoneIn(b, a, {Dir} \union Below(Dir))
          /\ c.flag \/ \A q \in Below(Dir) : b[q] = Absent)
BY DEF DocumentedOf, Reads

(* Documented is about the call and the two stores alone.                   *)
LEMMA DocumentedIs ==
  /\ Documented <=> DocumentedOf(call, witness.before, witness.after)
  /\ Documented' <=> DocumentedOf(call', witness'.before, witness'.after)
BY DEF Documented, DocumentedOf, Changed, ChangedIn, Gone, GoneIn

(* What a store has under a path: an entry that is absent, a value or a     *)
(* directory, and under a key no directory and nothing without the          *)
(* directory above it.                                                      *)
LEMMA EntryKinds ==
  ASSUME NEW s \in Stores, NEW p \in Paths
  PROVE  /\ s[p] \in Entries
         /\ s[p].kind = "absent" <=> s[p] = Absent
         /\ p # Dir => s[p].kind # "dir"
         /\ s[p] # Absent /\ p # Dir => s[Dir].kind = "dir"
         /\ s[p].kind \in {"absent", "value", "dir"}
BY DEF Stores, Entries, Absent

(* The directory and the key are paths of the store.                        *)
LEMMA SomePaths == Dir \in Paths /\ Key \in Paths /\ Key # Dir
BY EtcdClientConstants DEF Paths

(* A write leaves a store, with the entry written and the other keys as     *)
(* they were.                                                               *)
LEMMA PutStore ==
  ASSUME etcd \in Stores, NEW p \in Paths, NEW e \in Entries,
         p = Dir => e.kind = "dir", p # Dir => e.kind = "value" /\ etcd[Dir].kind # "value",
         e.index \in Nat
  PROVE  /\ Put(p, e) \in Stores /\ Put(p, e)[p] = e
         /\ \A q \in Paths \ {p, Dir} : Put(p, e)[q] = etcd[q]
<1> DEFINE s == Put(p, e)
<1>1. /\ Entry("dir", NoValue, FALSE, e.index) \in Entries
      /\ Entry("dir", NoValue, FALSE, e.index).kind = "dir"
  BY DEF Entry, Entries
<1>2. \A q \in Paths : etcd[q] \in Entries
  BY EntryKinds
<1>3. s = [q \in Paths |-> IF q = p THEN e
                          ELSE IF q = Dir /\ p # Dir /\ ~Present(Dir)
                               THEN Entry("dir", NoValue, FALSE, e.index) ELSE etcd[q]]
  BY DEF Put
<1> HIDE DEF s
<1>4. s \in [Paths -> Entries] /\ s[p] = e /\ \A q \in Paths \ {p, Dir} : s[q] = etcd[q]
  BY <1>1, <1>2, <1>3
<1>5. s[Dir].kind = "dir"
  <2>1. CASE p = Dir
    BY <1>4, <2>1
  <2>2. CASE p # Dir /\ ~Present(Dir)
    BY <1>1, <1>3, <2>2, SomePaths
  <2>3. CASE p # Dir /\ Present(Dir)
    <3>1. s[Dir] = etcd[Dir]
      BY <1>3, <2>3, SomePaths
    <3>2. etcd[Dir].kind = "dir"
      BY <2>3, EntryKinds, SomePaths DEF Present
    <3> QED  BY <3>1, <3>2
  <2> QED  BY <2>1, <2>2, <2>3
<1>6. \A q \in Paths \ {Dir} : s[q] # Absent => s[q].kind = "value"
  <2> SUFFICES ASSUME NEW q \in Paths \ {Dir}, s[q] # Absent PROVE s[q].kind = "value"
    OBVIOUS
  <2>1. CASE q = p
    BY <1>4, <2>1
  <2>2. CASE q # p
    <3>1. s[q] = etcd[q]
      BY <1>4, <2>2
    <3> QED  BY <3>1, EntryKinds
  <2> QED  BY <2>1, <2>2
<1>7. s \in Stores
  BY <1>4, <1>5, <1>6 DEF Stores
<1> QED  BY <1>4, <1>7 DEF s

(* A removal leaves a store, if a directory is removed with all that is in  *)
(* it.                                                                      *)
LEMMA RemoveStore ==
  ASSUME etcd \in Stores, NEW ps \in SUBSET Paths,
         Dir \in ps => \A q \in Paths : q \in ps \/ etcd[q] = Absent
  PROVE  RemoveAll(ps) \in Stores /\ GoneIn(etcd, RemoveAll(ps), ps)
<1> DEFINE s == RemoveAll(ps)
<1>1. s = [q \in Paths |-> IF q \in ps THEN Absent ELSE etcd[q]]
  BY DEF RemoveAll
<1>2. Absent \in Entries /\ \A q \in Paths : etcd[q] \in Entries
  BY EntryKinds DEF Entries
<1> HIDE DEF s
<1>3. s \in [Paths -> Entries] /\ \A q \in Paths : s[q] = IF q \in ps THEN Absent ELSE etcd[q]
  BY <1>1, <1>2
<1>4. ASSUME NEW q \in Paths \ {Dir}, s[q] # Absent
      PROVE  s[q].kind = "value" /\ s[Dir].kind = "dir"
  <2>1. q \notin ps /\ s[q] = etcd[q] /\ etcd[q] # Absent
    BY <1>3, <1>4
  <2>2. Dir \notin ps
    BY <2>1
  <2>3. s[Dir] = etcd[Dir]
    BY <1>3, <2>2, SomePaths
  <2>4. etcd[q].kind = "value" /\ etcd[Dir].kind = "dir"
    BY <2>1 DEF Stores
  <2> QED  BY <2>1, <2>3, <2>4
<1> QED  BY <1>3, <1>4 DEF Stores, GoneIn, s

(* What the server is sent for call c, when nothing of an earlier request   *)
(* is left on the handle.                                                   *)
RequestIs(c) ==
  /\ Method \in {"GET", "PUT", "POST", "DELETE"} /\ curl.fields.dir \in BOOLEAN
  /\ curl.url.path = c.path /\ curl.url.prevValue = c.old /\ curl.url.prevIndex = c.index
  /\ curl.url.prevExist = c.exist
  /\ curl.url.dir <=> c.op = "DeleteDirectory"
  /\ curl.url.recursive <=> c.op \in {"GetAll", "GetOrdered"} \/ (c.op = "DeleteDirectory" /\ c.flag)
  /\ c.op \in Reads => Method = "GET"
  /\ c.op = "SetOrdered" => Method = "POST"
  /\ c.op \in {"Delete", "DeleteDirectory", "CompareAndDeleteIf"} =>
       Method = "DELETE" /\ curl.fields.prevExist = None
  /\ c.op \in {"Set", "ClearTtl", "AddDirectory", "UpdateDirectoryTtl", "CompareAndSwapIf"} =>
       Method = "PUT"
  /\ Method \in {"POST", "PUT"} =>
       /\ curl.fields.value = c.value
       /\ curl.fields.ttl = "set" <=>
            c.op = "UpdateDirectoryTtl" \/ (c.op \in {"Set", "AddDirectory"} /\ c.flag)
       /\ curl.fields.dir <=> c.op \in {"AddDirectory", "UpdateDirectoryTtl"}
       /\ curl.fields.prevExist = IF c.op \in {"ClearTtl", "UpdateDirectoryTtl"} THEN "true" ELSE None

(* The options of a call, set on a handle that was reset, make that request *)
(* (internal::Curl).                                                        *)
LEMMA RequestOf ==
  ASSUME NEW c, CallShape(c), curl = SetOptions(NoOptions, c)
  PROVE  RequestIs(c)
<1>1. curl.url = UrlOf(c)
  BY DEF SetOptions
<1>2. /\ curl.url.path = c.path /\ curl.url.prevValue = c.old /\ curl.url.prevIndex = c.index
      /\ curl.url.prevExist = c.exist
      /\ curl.url.dir <=> c.op = "DeleteDirectory"
      /\ curl.url.recursive <=> c.op \in {"GetAll", "GetOrdered"} \/ (c.op = "DeleteDirectory" /\ c.flag)
  <2>1. /\ curl.url.path = c.path /\ curl.url.prevValue = c.old /\ curl.url.prevIndex = c.index
        /\ curl.url.prevExist = c.exist
    BY <1>1 DEF UrlOf
  <2>2. /\ curl.url.dir = (c.op = "DeleteDirectory")
        /\ curl.url.recursive =
             (c.op \in {"GetAll", "GetOrdered"} \/ (c.op = "DeleteDirectory" /\ c.flag))
    BY <1>1 DEF UrlOf
  <2> QED  BY <2>1, <2>2
<1>3. CASE c.op \in Reads
  <2>1. TypeOf(c) = None
    BY <1>3 DEF TypeOf, Reads
  <2>2. curl.custom = None /\ curl.fields = NoFields
    BY <1>3, <2>1 DEF SetOptions, NoOptions
  <2>3. Method = "GET"
    BY <2>2 DEF Method
  <2>4. curl.fields.dir \in BOOLEAN
    BY <2>2 DEF NoFields
  <2> QED  BY <1>2, <1>3, <2>3, <2>4 DEF RequestIs, Reads
<1>4. CASE c.op \in {"Delete", "DeleteDirectory", "CompareAndDeleteIf"}
  <2>1. TypeOf(c) = "DELETE" /\ c.op \notin Reads
    BY <1>4 DEF TypeOf, Reads
  <2>2. curl.custom = "DELETE" /\ curl.fields = NoFields
    BY <2>1 DEF SetOptions, NoOptions
  <2>3. Method = "DELETE" /\ curl.fields.prevExist = None
    BY <2>2 DEF Method, None, NoFields
  <2>4. curl.fields.dir \in BOOLEAN
    BY <2>2 DEF NoFields
  <2> QED  BY <1>2, <1>4, <2>1, <2>3, <2>4 DEF RequestIs
<1>5. CASE c.op \in {"Set", "ClearTtl", "SetOrdered", "AddDirectory", "UpdateDirectoryTtl",
                    "CompareAndSwapIf"}
  <2>1. /\ TypeOf(c) = (IF c.op = "SetOrdered" THEN "POST" ELSE "PUT")
        /\ c.op \notin Reads
    BY <1>5 DEF TypeOf, Reads
  <2>2. curl.custom = TypeOf(c) /\ curl.fields = FieldsOf(c)
    BY <2>1 DEF SetOptions, None
  <2>3. Method = TypeOf(c)
    BY <2>1, <2>2 DEF Method, None
  <2>4. /\ curl.fields.value = c.value
        /\ curl.fields.dir <=> c.op \in {"AddDirectory", "UpdateDirectoryTtl"}
        /\ curl.fields.prevExist = IF c.op \in {"ClearTtl", "UpdateDirectoryTtl"} THEN "true" ELSE None
    <3>1. /\ curl.fields.value = c.value /\ curl.fields.ttl = TtlOf(c)
          /\ curl.fields.prevExist = IF c.op \in {"ClearTtl", "UpdateDirectoryTtl"} THEN "true" ELSE None
      BY <2>2 DEF FieldsOf
    <3>2. curl.fields.dir = (c.op \in {"AddDirectory", "UpdateDirectoryTtl"})
      BY <2>2 DEF FieldsOf
    <3> QED  BY <3>1, <3>2
  <2>5. curl.fields.ttl = "set" <=>
          c.op = "UpdateDirectoryTtl" \/ (c.op \in {"Set", "AddDirectory"} /\ c.flag)
    <3>1. curl.fields.ttl = TtlOf(c)
      BY <2>2 DEF FieldsOf
    <3> QED  BY <3>1 DEF TtlOf, None
  <2>6. curl.fields.dir \in BOOLEAN
    <3>1. curl.fields.dir = (c.op \in {"AddDirectory", "UpdateDirectoryTtl"})
      BY <2>2 DEF FieldsOf
    <3> QED  BY <3>1
  <2> QED  BY <1>2, <1>5, <2>1, <2>3, <2>4, <2>5, <2>6 DEF RequestIs
<1> QED  BY <1>3, <1>4, <1>5 DEF CallShape, Ops, Reads

(* The ways a request is served.                                            *)
ServedIs ==
  \/ Served = etcd
  \/ /\ Method = "PUT" /\ Holds(curl.url, curl.fields) /\ curl.fields.dir
     /\ etcd[curl.url.path].kind = "absent"
          \/ (etcd[curl.url.path].kind = "dir" /\ curl.fields.prevExist = "true")
     /\ Served = Put(curl.url.path, Entry("dir", NoValue, curl.fields.ttl = "set", etcdIndex + 1))
  \/ /\ Method = "PUT" /\ Holds(curl.url, curl.fields) /\ ~curl.fields.dir
     /\ etcd[curl.url.path].kind # "dir" /\ (curl.url.path = Dir \/ etcd[Dir].kind # "value")
     /\ Served = Put(curl.url.path,
                     Entry("value", curl.fields.value, curl.fields.ttl = "set", etcdIndex + 1))
  \/ /\ Method = "POST" /\ FreeNames # {} /\ etcd[Dir].kind # "value"
     /\ Served = Put(Ordered[Min(FreeNames)],
                     Entry("value", curl.fields.value, curl.fields.ttl = "set", etcdIndex + 1))
  \/ /\ Method = "DELETE" /\ Holds(curl.url, curl.fields)
     /\ etcd[curl.url.path].kind = "value" /\ Served = RemoveAll({curl.url.path})
  \/ /\ Method = "DELETE" /\ Holds(curl.url, curl.fields)
     /\ etcd[curl.url.path].kind = "dir"
     /\ curl.url.recursive \/ (curl.url.dir /\ \A q \in Below(curl.url.path) : ~Present(q))
     /\ Served = RemoveAll({curl.url.path} \union Below(curl.url.path))

(* The server serves a request in one of them.                              *)
LEMMA ServedCases ==
  ASSUME Method \in {"GET", "PUT", "POST", "DELETE"}, curl.fields.dir \in BOOLEAN
  PROVE  ServedIs /\ (Method = "GET" => Served = etcd)
<1>1. CASE Method = "GET"
  BY <1>1 DEF Served, ServedIs
<1>2. CASE Method = "PUT"
  BY <1>2 DEF Served, ServedIs
<1>3. CASE Method = "POST"
  BY <1>3 DEF Served, ServedIs
<1>4. CASE Method = "DELETE"
  BY <1>4 DEF Served, ServedIs
<1> QED  BY <1>1, <1>2, <1>3, <1>4

(* Keys created in order get a name that is free.                           *)
LEMMA SmallestFree ==
  ASSUME FreeNames # {}
  PROVE  Min(FreeNames) \in FreeNames
<1>1. FreeNames \in SUBSET Nat
  BY EtcdClientConstants DEF FreeNames
<1>2. \E t \in FreeNames : \A u \in FreeNames : t =< u
  BY <1>1, SmallestOf
<1> QED  BY <1>2 DEF Min

(* A request whose conditions hold meets the condition of its call, and has *)
(* found the key if it asks for one.                                        *)
LEMMA HoldsIs ==
  ASSUME NEW c, RequestIs(c), Holds(curl.url, curl.fields), etcd \in Stores, c.path \in Paths
  PROVE  /\ c.old # NoValue => etcd[c.path].value = c.old
         /\ c.index # 0 => etcd[c.path].index = c.index
         /\ c.exist # None => ((c.exist = "true") <=> (etcd[c.path] # Absent))
         /\ curl.fields.prevExist = "true" => etcd[c.path] # Absent
<1>1. Present(c.path) <=> etcd[c.path] # Absent
  BY EntryKinds DEF Present
<1>2. /\ c.old = NoValue \/ etcd[c.path].value = c.old
      /\ c.index = 0 \/ etcd[c.path].index = c.index
      /\ \A e \in {c.exist, curl.fields.prevExist} : e = None \/ (e = "true") = Present(c.path)
  BY DEF Holds, RequestIs
<1> QED  BY <1>1, <1>2 DEF None

(* A value written under a key is documented to be all that changes.        *)
LEMMA PutValue ==
  ASSUME etcd \in Stores, etcdIndex \in Nat,
         NEW p \in Paths \ {Dir}, NEW v \in EtcdValues, NEW t \in BOOLEAN,
         etcd[Dir].kind # "value"
  PROVE  LET s == Put(p, Entry("value", v, t, etcdIndex + 1)) IN
         s \in Stores /\ ChangedIn(etcd, s, p, "value", v, t)
<1> DEFINE e == Entry("value", v, t, etcdIndex + 1)
<1>1. /\ e \in Entries /\ e.kind = "value" /\ e.value = v /\ e.ttl = t /\ e.index \in Nat
  BY DEF Entry, Entries
<1> HIDE DEF e
<1>2. Put(p, e) \in Stores /\ Put(p, e)[p] = e /\ \A q \in Paths \ {p, Dir} : Put(p, e)[q] = etcd[q]
  BY <1>1, PutStore
<1>3. ChangedIn(etcd, Put(p, e), p, "value", v, t)
  BY <1>1, <1>2 DEF ChangedIn
<1> QED  BY <1>2, <1>3 DEF e

(* So is a directory.                                                       *)
LEMMA PutDir ==
  ASSUME etcd \in Stores, etcdIndex \in Nat, NEW t \in BOOLEAN
  PROVE  LET s == Put(Dir, Entry("dir", NoValue, t, etcdIndex + 1)) IN
         s \in Stores /\ ChangedIn(etcd, s, Dir, "dir", NoValue, t)
<1> DEFINE e == Entry("dir", NoValue, t, etcdIndex + 1)
<1>1. /\ e \in Entries /\ e.kind = "dir" /\ e.value = NoValue /\ e.ttl = t /\ e.index \in Nat
  BY DEF Entry, Entries
<1> HIDE DEF e
<1>2. Dir \in Paths
  BY SomePaths
<1>3. /\ Put(Dir, e) \in Stores /\ Put(Dir, e)[Dir] = e
      /\ \A q \in Paths \ {Dir, Dir} : Put(Dir, e)[q] = etcd[q]
  BY <1>1, <1>2, PutStore
<1>4. ChangedIn(etcd, Put(Dir, e), Dir, "dir", NoValue, t)
  BY <1>1, <1>3 DEF ChangedIn
<1> QED  BY <1>3, <1>4 DEF e

(* A directory removed is documented to be gone with all that is in it.     *)
LEMMA RemoveDir ==
  ASSUME etcd \in Stores
  PROVE  LET s == RemoveAll({Dir} \union Below(Dir)) IN
         s \in Stores /\ GoneIn(etcd, s, {Dir} \union Below(Dir))
<1> DEFINE ps == {Dir} \union Below(Dir)
<1>1. ps = Paths
  BY SomePaths DEF Below
<1> HIDE DEF ps
<1>2. RemoveAll(ps) \in Stores /\ GoneIn(etcd, RemoveAll(ps), ps)
  BY <1>1, RemoveStore
<1> QED  BY <1>2 DEF ps

(* A key removed is documented to be all that is gone.                      *)
LEMMA RemoveKey ==
  ASSUME etcd \in Stores, NEW p \in Paths \ {Dir}
  PROVE  RemoveAll({p}) \in Stores /\ GoneIn(etcd, RemoveAll({p}), {p})
BY RemoveStore

(* Call c has been refused, or has done what its comment says.              *)
Effected(c) == Served = etcd \/ (Served \in Stores /\ DocumentedOf(c, etcd, Served))

(* The request of a call, sent on a handle that was reset, is refused or    *)
(* does what the comment of the call says, for every store: one case per    *)
(* call of Client.                                                          *)
LEMMA ServedDone ==
  ASSUME NEW c, CallShape(c), curl = SetOptions(NoOptions, c), etcd \in Stores, etcdIndex \in Nat
  PROVE  Effected(c) /\ (c.op \in Reads => Method = "GET" /\ Served = etcd)
                 /\ (c.op \notin Reads => Method # "GET")
<1>1. RequestIs(c)
  BY RequestOf
<1>2. ServedIs /\ (Method = "GET" => Served = etcd)
  BY <1>1, ServedCases DEF RequestIs
<1>3. c.path \in Paths /\ c.path \in {Dir, Key} /\ Key # Dir /\ Key \in Paths \ {Dir} /\ Dir \in Paths
  BY SomePaths DEF CallShape
<1>4. CASE c.op \in Reads
  BY <1>1, <1>2, <1>4 DEF RequestIs, Effected
<1>5. CASE c.op \in {"Set", "ClearTtl", "CompareAndSwapIf"}
  <2> DEFINE t == curl.fields.ttl = "set"
  <2>1. /\ Method = "PUT" /\ c.path = Key /\ c.value \in EtcdValues /\ c.flag \in BOOLEAN
        /\ curl.url.path = Key /\ curl.fields.value = c.value /\ ~curl.fields.dir
        /\ t <=> c.op = "Set" /\ c.flag
        /\ c.op = "ClearTtl" => curl.fields.prevExist = "true"
    BY <1>1, <1>5 DEF RequestIs, CallShape
  <2>2. CASE Served # etcd
    <3>1. /\ Holds(curl.url, curl.fields) /\ etcd[Key].kind # "dir" /\ etcd[Dir].kind # "value"
          /\ Served = Put(Key, Entry("value", c.value, t, etcdIndex + 1))
      BY <1>2, <1>3, <2>1, <2>2 DEF ServedIs
    <3>2. t \in BOOLEAN
      OBVIOUS
    <3> HIDE DEF t
    <3>3. Served \in Stores /\ ChangedIn(etcd, Served, Key, "value", c.value, t)
      BY <1>3, <2>1, <3>1, <3>2, PutValue
    <3>4. /\ c.old # NoValue => etcd[c.path].value = c.old
          /\ c.index # 0 => etcd[c.path].index = c.index
          /\ c.exist # None => ((c.exist = "true") <=> (etcd[c.path] # Absent))
          /\ c.op = "ClearTtl" => etcd[Key] # Absent
      BY <1>1, <1>3, <2>1, <3>1, HoldsIs
    <3>5. c.op = "ClearTtl" => etcd[Key].kind = "value"
      BY <1>3, <3>1, <3>4, EntryKinds
    <3>6. CASE c.op = "Set"
      <4>1. t = c.flag
        BY <2>1, <3>2, <3>6
      <4>2. ChangedIn(etcd, Served, c.path, "value", c.value, c.flag)
        BY <2>1, <3>3, <4>1
      <4> QED  BY <2>1, <3>3, <3>6, <4>2, DocumentedSet DEF Effected, Reads
    <3>7. CASE c.op = "ClearTtl"
      <4>1. t = FALSE
        BY <2>1, <3>2, <3>7
      <4>2. ChangedIn(etcd, Served, c.path, "value", c.value, FALSE)
        BY <2>1, <3>3, <4>1
      <4> QED  BY <2>1, <3>3, <3>5, <3>7, <4>2 DEF Effected, DocumentedOf, Reads
    <3>8. CASE c.op = "CompareAndSwapIf"
      <4>1. t = FALSE
        BY <2>1, <3>2, <3>8
      <4>2. ChangedIn(etcd, Served, c.path, "value", c.value, FALSE)
        BY <2>1, <3>3, <4>1
      <4>3. c.exist # None => (c.exist = "true") = (etcd[c.path] # Absent)
        BY <3>4
      <4> QED  BY <2>1, <3>3, <3>4, <3>8, <4>2, <4>3, DocumentedCompareAndSwapIf DEF Effected, Reads
    <3> QED  BY <1>5, <2>1, <3>6, <3>7, <3>8 DEF Reads
  <2> QED  BY <1>5, <2>1, <2>2 DEF Effected, Reads
<1>6. CASE c.op = "SetOrdered"
  <2> DEFINE i == Min(FreeNames)
  <2>1. /\ Method = "POST" /\ c.value \in EtcdValues /\ curl.fields.value = c.value
        /\ (curl.fields.ttl = "set") = FALSE
    BY <1>1, <1>6 DEF RequestIs, CallShape
  <2>2. CASE Served # etcd
    <3>1. /\ FreeNames # {} /\ etcd[Dir].kind # "value"
          /\ Served = Put(Ordered[i], Entry("value", c.value, FALSE, etcdIndex + 1))
      BY <1>2, <2>1, <2>2 DEF ServedIs
    <3>2. i \in FreeNames
      BY <3>1, SmallestFree
    <3> HIDE DEF i
    <3>3. i \in DOMAIN Ordered /\ Ordered[i] \in Paths \ {Dir} /\ etcd[Ordered[i]].kind = "absent"
      BY <3>2, EtcdClientConstants DEF FreeNames, Present, Paths
    <3>4. etcd[Ordered[i]] = Absent
      BY <3>3, EntryKinds
    <3>5. Served \in Stores /\ ChangedIn(etcd, Served, Ordered[i], "value", c.value, FALSE)
      BY <2>1, <3>1, <3>3, PutValue
    <3> QED  BY <1>6, <2>1, <3>3, <3>4, <3>5, DocumentedSetOrdered DEF Effected, Reads
  <2> QED  BY <1>6, <2>1, <2>2 DEF Effected, Reads
<1>7. CASE c.op \in {"AddDirectory", "UpdateDirectoryTtl"}
  <2> DEFINE t == curl.fields.ttl = "set"
  <2>1. /\ Method = "PUT" /\ c.path = Dir /\ c.flag \in BOOLEAN
        /\ curl.url.path = Dir /\ curl.fields.dir
        /\ t <=> c.op = "UpdateDirectoryTtl" \/ c.flag
        /\ c.op = "AddDirectory" => curl.fields.prevExist # "true"
        /\ c.op = "UpdateDirectoryTtl" => curl.fields.prevExist = "true"
    BY <1>1, <1>7 DEF RequestIs, CallShape, None
  <2>2. CASE Served # etcd
    <3>1. /\ Holds(curl.url, curl.fields)
          /\ etcd[Dir].kind = "absent" \/ (etcd[Dir].kind = "dir" /\ curl.fields.prevExist = "true")
          /\ Served = Put(Dir, Entry("dir", NoValue, t, etcdIndex + 1))
      BY <1>2, <2>1, <2>2 DEF ServedIs
    <3>2. t \in BOOLEAN
      OBVIOUS
    <3> HIDE DEF t
    <3>3. Served \in Stores /\ ChangedIn(etcd, Served, Dir, "dir", NoValue, t)
      BY <3>1, <3>2, PutDir
    <3>4. c.op = "UpdateDirectoryTtl" => etcd[Dir] # Absent
      BY <1>1, <1>3, <2>1, <3>1, HoldsIs
    <3>5. CASE c.op = "AddDirectory"
      <4>1. t = c.flag /\ etcd[Dir] = Absent
        BY <1>3, <2>1, <3>1, <3>2, <3>5, EntryKinds
      <4> QED  BY <2>1, <3>3, <3>5, <4>1 DEF Effected, DocumentedOf, Reads
    <3>6. CASE c.op = "UpdateDirectoryTtl"
      <4>1. t = TRUE /\ etcd[Dir].kind = "dir"
        BY <1>3, <2>1, <3>1, <3>2, <3>4, <3>6, EntryKinds
      <4> QED  BY <2>1, <3>3, <3>6, <4>1 DEF Effected, DocumentedOf, Reads
    <3> QED  BY <1>7, <2>1, <3>5, <3>6 DEF Reads
  <2> QED  BY <1>7, <2>1, <2>2 DEF Effected, Reads
<1>8. CASE c.op \in {"Delete", "CompareAndDeleteIf"}
  <2>1. /\ Method = "DELETE" /\ curl.url.path = c.path
        /\ ~curl.url.dir /\ ~curl.url.recursive
    BY <1>1, <1>8 DEF RequestIs
  <2>2. CASE Served # etcd
    <3>1. /\ Holds(curl.url, curl.fields) /\ etcd[c.path].kind = "value"
          /\ Served = RemoveAll({c.path})
      BY <1>2, <2>1, <2>2 DEF ServedIs
    <3>2. Served \in Stores /\ GoneIn(etcd, Served, {c.path})
      BY <1>3, <3>1, RemoveKey, EntryKinds, RemoveStore
    <3>3. /\ c.old # NoValue => etcd[c.path].value = c.old
          /\ c.index # 0 => etcd[c.path].index = c.index
      BY <1>1, <1>3, <3>1, HoldsIs
    <3> QED  BY <1>8, <2>1, <3>1, <3>2, <3>3 DEF Effected, DocumentedOf, Reads
  <2> QED  BY <1>8, <2>1, <2>2 DEF Effected, Reads
<1>9. CASE c.op = "DeleteDirectory"
  <2>1. /\ Method = "DELETE" /\ c.path = Dir /\ curl.url.path = Dir /\ c.flag \in BOOLEAN
        /\ curl.url.recursive <=> c.flag
        /\ c.old = NoValue /\ c.index = 0
    BY <1>1, <1>9 DEF RequestIs, CallShape
  <2>2. CASE Served # etcd
    <3>1. \/ etcd[Dir].kind = "value" /\ Served = RemoveAll({Dir})
          \/ /\ etcd[Dir].kind = "dir" /\ (c.flag \/ \A q \in Below(Dir) : ~Present(q))
             /\ Served = RemoveAll({Dir} \union Below(Dir))
      BY <1>2, <2>1, <2>2 DEF ServedIs
    <3>2. Below(Dir) = Paths \ {Dir}
      BY DEF Below
    <3>3. CASE etcd[Dir].kind = "value" /\ Served = RemoveAll({Dir})
      <4>1. \A q \in Below(Dir) : etcd[q] = Absent
        BY <3>2, <3>3, EntryKinds
      <4>2. Served \in Stores /\ GoneIn(etcd, Served, {Dir})
        BY <1>3, <3>2, <3>3, <4>1, RemoveStore
      <4>3. GoneIn(etcd, Served, {Dir} \union Below(Dir))
        BY <3>2, <4>1, <4>2 DEF GoneIn
      <4>4. etcd[Dir] # Absent
        BY <3>3 DEF Absent
      <4> QED  BY <1>9, <2>1, <4>1, <4>2, <4>3, <4>4, DocumentedDeleteDirectory DEF Effected, Reads
    <3>4. CASE /\ etcd[Dir].kind = "dir" /\ (c.flag \/ \A q \in Below(Dir) : ~Present(q))
               /\ Served = RemoveAll({Dir} \union Below(Dir))
      <4>1. c.flag \/ \A q \in Below(Dir) : etcd[q] = Absent
        BY <3>2, <3>4, EntryKinds DEF Present
      <4>2. Served \in Stores /\ GoneIn(etcd, Served, {Dir} \union Below(Dir))
        BY <3>4, RemoveDir
      <4>3. etcd[Dir] # Absent
        BY <3>4 DEF Absent
      <4> QED  BY <1>9, <2>1, <4>1, <4>2, <4>3, DocumentedDeleteDirectory DEF Effected, Reads
    <3> QED  BY <3>1, <3>3, <3>4
  <2> QED  BY <1>9, <2>1, <2>2 DEF Effected, Reads
<1> QED  BY <1>4, <1>5, <1>6, <1>7, <1>8, <1>9 DEF CallShape, Ops, Reads

(* No entry is newer than the last change.                                  *)
Dated == \A q \in Paths : etcd[q].index =< etcdIndex

(* The store stays dated by a write and by a removal.                       *)
LEMMA PutDated ==
  ASSUME etcd \in Stores, etcdIndex \in Nat, Dated, NEW p \in Paths, NEW k, NEW v, NEW t
  PROVE  \A q \in Paths : Put(p, Entry(k, v, t, etcdIndex + 1))[q].index =< etcdIndex + 1
<1> DEFINE e == Entry(k, v, t, etcdIndex + 1)
           s == Put(p, e)
<1>1. e.index = etcdIndex + 1 /\ Entry("dir", NoValue, FALSE, e.index).index = etcdIndex + 1
  BY DEF Entry
<1>2. s = [q \in Paths |-> IF q = p THEN e
                          ELSE IF q = Dir /\ p # Dir /\ ~Present(Dir)
                               THEN Entry("dir", NoValue, FALSE, e.index) ELSE etcd[q]]
  BY DEF Put
<1> HIDE DEF e, s
<1>3. ASSUME NEW q \in Paths PROVE s[q].index =< etcdIndex + 1
  <2>1. etcd[q].index =< etcdIndex /\ etcd[q].index \in Nat
    BY EntryKinds DEF Dated, Entries, Absent
  <2>2. s[q].index = e.index \/ s[q].index = Entry("dir", NoValue, FALSE, e.index).index
          \/ s[q].index = etcd[q].index
    BY <1>2
  <2>3. s[q].index = etcdIndex + 1 \/ s[q].index = etcd[q].index
    BY <1>1, <2>2
  <2> QED  BY <2>1, <2>3
<1> QED  BY <1>3 DEF s, e

LEMMA RemoveDated ==
  ASSUME etcd \in Stores, etcdIndex \in Nat, Dated, NEW ps \in SUBSET Paths
  PROVE  \A q \in Paths : RemoveAll(ps)[q].index =< etcdIndex + 1
<1> SUFFICES ASSUME NEW q \in Paths PROVE RemoveAll(ps)[q].index =< etcdIndex + 1
  OBVIOUS
<1>1. etcd[q].index =< etcdIndex /\ etcd[q].index \in Nat
  BY EntryKinds DEF Dated, Entries, Absent
<1>2. RemoveAll(ps)[q] = Absent \/ RemoveAll(ps)[q] = etcd[q]
  BY DEF RemoveAll
<1> QED  BY <1>1, <1>2 DEF Absent

(* What the server serves is dated by the change it makes.                  *)
LEMMA ServedDated ==
  ASSUME ServedIs, etcd \in Stores, etcdIndex \in Nat, Dated, curl.url.path \in Paths
  PROVE  \A q \in Paths : Served[q].index =< etcdIndex + 1
<1>1. CASE Served = etcd
  <2> SUFFICES ASSUME NEW q \in Paths PROVE Served[q].index =< etcdIndex + 1
    OBVIOUS
  <2>1. etcd[q].index =< etcdIndex /\ etcd[q].index \in Nat
    BY EntryKinds DEF Dated, Entries, Absent
  <2> QED  BY <1>1, <2>1
<1>2. CASE \E k, v : Served = Put(curl.url.path, Entry(k, v, curl.fields.ttl = "set", etcdIndex + 1))
  BY <1>2, PutDated
<1>3. CASE /\ Method = "POST" /\ FreeNames # {}
           /\ Served = Put(Ordered[Min(FreeNames)],
                           Entry("value", curl.fields.value, curl.fields.ttl = "set", etcdIndex + 1))
  <2>1. Ordered[Min(FreeNames)] \in Paths
    BY <1>3, SmallestFree DEF FreeNames, Paths
  <2> QED  BY <1>3, <2>1, PutDated
<1>4. CASE \E ps \in SUBSET Paths : Served = RemoveAll(ps)
  BY <1>4, RemoveDated
<1>5. {curl.url.path} \in SUBSET Paths /\ {curl.url.path} \union Below(curl.url.path) \in SUBSET Paths
  BY DEF Below
<1> QED  BY <1>1, <1>2, <1>3, <1>4, <1>5 DEF ServedIs

(* Why the server leaves the store as it is.                                *)
RefusedIs ==
  \/ Method = "GET"
  \/ Method \in {"PUT", "DELETE"} /\ ~Holds(curl.url, curl.fields)
  \/ /\ Method = "PUT" /\ curl.fields.dir /\ etcd[curl.url.path].kind # "absent"
     /\ etcd[curl.url.path].kind # "dir" \/ curl.fields.prevExist # "true"
  \/ /\ Method = "PUT" /\ ~curl.fields.dir
     /\ etcd[curl.url.path].kind = "dir" \/ (curl.url.path # Dir /\ etcd[Dir].kind = "value")
  \/ Method = "POST" /\ (FreeNames = {} \/ etcd[Dir].kind = "value")
  \/ /\ Method = "DELETE" /\ etcd[curl.url.path].kind # "value"
     /\ \/ etcd[curl.url.path].kind # "dir"
        \/ /\ ~curl.url.recursive
           /\ ~curl.url.dir \/ \E q \in Below(curl.url.path) : Present(q)

(* A request that changes nothing was refused for one of these.             *)
LEMMA RefusedCases ==
  ASSUME Method \in {"GET", "PUT", "POST", "DELETE"}, curl.fields.dir \in BOOLEAN,
         etcd \in Stores, etcdIndex \in Nat, Dated, curl.url.path \in Paths, Served = etcd
  PROVE  RefusedIs
<1> DEFINE p == curl.url.path
           i == etcdIndex + 1
<1>1. ASSUME NEW q \in Paths, NEW k, NEW v, NEW t, etcd = Put(q, Entry(k, v, t, i))
      PROVE  FALSE
  <2>1. etcd[q] = Entry(k, v, t, i)
    BY <1>1 DEF Put
  <2>2. etcd[q].index = etcdIndex + 1
    BY <2>1 DEF Entry
  <2>3. etcd[q].index =< etcdIndex
    BY DEF Dated
  <2> QED  BY <2>2, <2>3
<1>2. ASSUME NEW ps, p \in ps, etcd = RemoveAll(ps) PROVE etcd[p].kind = "absent"
  BY <1>2 DEF RemoveAll, Absent
<1>3. CASE Method = "PUT"
  <2>1. CASE Holds(curl.url, curl.fields) /\ curl.fields.dir
    <3> SUFFICES ASSUME etcd[p].kind = "absent" \/ (etcd[p].kind = "dir" /\ curl.fields.prevExist = "true")
                 PROVE  FALSE
      BY <1>3, <2>1 DEF RefusedIs
    <3>1. etcd = Put(p, Entry("dir", NoValue, curl.fields.ttl = "set", i))
      BY <1>3, <2>1 DEF Served
    <3> QED  BY <1>1, <3>1
  <2>2. CASE Holds(curl.url, curl.fields) /\ ~curl.fields.dir
    <3> SUFFICES ASSUME ~(etcd[p].kind = "dir" \/ (p # Dir /\ etcd[Dir].kind = "value")) PROVE FALSE
      BY <1>3, <2>2 DEF RefusedIs
    <3>1. etcd = Put(p, Entry("value", curl.fields.value, curl.fields.ttl = "set", i))
      BY <1>3, <2>2 DEF Served
    <3> QED  BY <1>1, <3>1
  <2> QED  BY <1>3, <2>1, <2>2 DEF RefusedIs
<1>4. CASE Method = "POST"
  <2> SUFFICES ASSUME ~(FreeNames = {} \/ etcd[Dir].kind = "value") PROVE FALSE
    BY <1>4 DEF RefusedIs
  <2>1. etcd = Put(Ordered[Min(FreeNames)], Entry("value", curl.fields.value, curl.fields.ttl = "set", i))
    BY <1>4 DEF Served
  <2>2. Ordered[Min(FreeNames)] \in Paths
    BY SmallestFree DEF FreeNames, Paths
  <2> QED  BY <1>1, <2>1, <2>2
<1>5. CASE Method = "DELETE"
  <2>1. CASE Holds(curl.url, curl.fields) /\ etcd[p].kind = "value"
    <3>1. etcd = RemoveAll({p})
      BY <1>5, <2>1 DEF Served
    <3> QED  BY <1>2, <2>1, <3>1
  <2>2. CASE /\ Holds(curl.url, curl.fields) /\ etcd[p].kind = "dir"
             /\ curl.url.recursive \/ (curl.url.dir /\ \A q \in Below(p) : ~Present(q))
    <3>1. etcd = RemoveAll({p} \union Below(p))
      BY <1>5, <2>2 DEF Served
    <3> QED  BY <1>2, <2>2, <3>1
  <2> QED  BY <1>5, <2>1, <2>2 DEF RefusedIs
<1> QED  BY <1>3, <1>4, <1>5 DEF RefusedIs

(* Refusable, of a call that finds the store b.                             *)
RefusableOf(c, b) ==
  LET noPlace == b[c.path].kind = "dir" \/ (c.path # Dir /\ b[Dir].kind = "value")
      unmet == \/ c.old # NoValue /\ b[c.path].value # c.old
               \/ c.index # 0 /\ b[c.path].index # c.index
               \/ c.exist # None /\ (c.exist = "true") # (b[c.path] # Absent)
  IN  CASE c.op \in Reads -> b[c.path] = Absent
        [] c.op = "Set" -> noPlace
        [] c.op = "ClearTtl" -> b[c.path].kind # "value"
        [] c.op = "SetOrdered" ->
             b[c.path].kind = "value" \/ \A i \in DOMAIN Ordered : b[Ordered[i]] # Absent
        [] c.op = "Delete" -> b[c.path].kind # "value"
        [] c.op = "AddDirectory" -> b[c.path] # Absent
        [] c.op = "UpdateDirectoryTtl" -> b[c.path].kind # "dir"
        [] c.op = "DeleteDirectory" ->
             b[c.path] = Absent \/ (~c.flag /\ \E q \in Below(Dir) : b[q] # Absent)
        [] c.op = "CompareAndSwapIf" -> unmet \/ noPlace
        [] c.op = "CompareAndDeleteIf" -> unmet \/ b[c.path] = Absent

(* Refusable is about the call and the store it finds alone.                *)
LEMMA RefusableIs ==
  /\ Refusable <=> RefusableOf(call, witness.before)
  /\ Refusable' <=> RefusableOf(call', witness'.before)
BY DEF Refusable, RefusableOf

(* A request whose conditions do not hold asks for a key that is not there, *)
(* or does not meet the condition of its call.                              *)
LEMMA UnmetIs ==
  ASSUME NEW c, RequestIs(c), ~Holds(curl.url, curl.fields), etcd \in Stores, c.path \in Paths
  PROVE  \/ c.old # NoValue /\ etcd[c.path].value # c.old
         \/ c.index # 0 /\ etcd[c.path].index # c.index
         \/ c.exist # None /\ ~((c.exist = "true") <=> (etcd[c.path] # Absent))
         \/ curl.fields.prevExist # None
              /\ ~((curl.fields.prevExist = "true") <=> (etcd[c.path] # Absent))
<1>1. Present(c.path) <=> etcd[c.path] # Absent
  BY EntryKinds DEF Present
<1>2. \/ c.old # NoValue /\ etcd[c.path].value # c.old
      \/ c.index # 0 /\ (~Present(c.path) \/ etcd[c.path].index # c.index)
      \/ \E e \in {c.exist, curl.fields.prevExist} : e # None /\ (e = "true") # Present(c.path)
  BY DEF Holds, RequestIs
<1>3. c.index # 0 /\ ~Present(c.path) => etcd[c.path].index # c.index
  BY <1>1 DEF Absent
<1>4. ASSUME NEW e, (e = "true") # Present(c.path)
      PROVE  ~((e = "true") <=> (etcd[c.path] # Absent))
  <2>1. Present(c.path) \in BOOLEAN
    BY DEF Present
  <2> QED  BY <1>1, <1>4, <2>1
<1> QED  BY <1>2, <1>3, <1>4

(* A call that changes nothing but a read had a reason, one case per call.  *)
LEMMA RefusedFor ==
  ASSUME NEW c, CallShape(c), curl = SetOptions(NoOptions, c),
         etcd \in Stores, etcdIndex \in Nat, Dated, Served = etcd, c.op \notin Reads
  PROVE  RefusableOf(c, etcd)
<1>1. RequestIs(c)
  BY RequestOf
<1>2. c.path \in Paths /\ c.path \in {Dir, Key} /\ Key # Dir /\ Key \in Paths \ {Dir} /\ Dir \in Paths
  BY SomePaths DEF CallShape
<1>3. RefusedIs /\ curl.url.path = c.path
  BY <1>1, <1>2, RefusedCases DEF RequestIs
<1>4. ~Holds(curl.url, curl.fields) =>
         \/ c.old # NoValue /\ etcd[c.path].value # c.old
         \/ c.index # 0 /\ etcd[c.path].index # c.index
         \/ c.exist # None /\ ~((c.exist = "true") <=> (etcd[c.path] # Absent))
         \/ curl.fields.prevExist # None
              /\ ~((curl.fields.prevExist = "true") <=> (etcd[c.path] # Absent))
  BY <1>1, <1>2, UnmetIs
<1>5. /\ etcd[c.path].kind = "absent" <=> etcd[c.path] = Absent
      /\ etcd[c.path].kind \in {"absent", "value", "dir"}
      /\ etcd[Key].kind # "dir" /\ (etcd[Dir].kind = "value" => etcd[Key] = Absent)
      /\ Absent.kind = "absent"
  BY <1>2, EntryKinds DEF Absent
<1>6. CASE c.op \in {"Set", "ClearTtl", "CompareAndSwapIf"}
  <2>1. /\ Method = "PUT" /\ ~curl.fields.dir /\ c.path = Key
        /\ curl.fields.prevExist = IF c.op = "ClearTtl" THEN "true" ELSE None
        /\ c.op # "CompareAndSwapIf" => c.old = NoValue /\ c.index = 0 /\ c.exist = None
    BY <1>1, <1>6 DEF RequestIs, CallShape
  <2>2. ~Holds(curl.url, curl.fields) \/ etcd[Dir].kind = "value"
    BY <1>2, <1>3, <1>5, <2>1 DEF RefusedIs
  <2>3. CASE c.op = "Set"
    BY <1>2, <1>4, <2>1, <2>2, <2>3 DEF RefusableOf, Reads
  <2>4. CASE c.op = "ClearTtl"
    <3>1. etcd[Key] = Absent
      BY <1>4, <1>5, <2>1, <2>2, <2>4
    <3> QED  BY <1>5, <2>1, <2>4, <3>1 DEF RefusableOf, Reads
  <2>5. CASE c.op = "CompareAndSwapIf"
    <3>1. \/ c.old # NoValue /\ etcd[c.path].value # c.old
          \/ c.index # 0 /\ etcd[c.path].index # c.index
          \/ c.exist # None /\ (c.exist = "true") # (etcd[c.path] # Absent)
          \/ c.path # Dir /\ etcd[Dir].kind = "value"
      BY <1>2, <1>4, <2>1, <2>2, <2>5
    <3> QED  BY <2>5, <3>1 DEF RefusableOf, Reads
  <2> QED  BY <1>6, <2>3, <2>4, <2>5
<1>7. CASE c.op = "SetOrdered"
  <2>1. Method = "POST" /\ c.path = Dir
    BY <1>1, <1>7 DEF RequestIs, CallShape
  <2>2. FreeNames = {} \/ etcd[Dir].kind = "value"
    BY <1>3, <2>1 DEF RefusedIs
  <2>3. FreeNames = {} => \A i \in DOMAIN Ordered : etcd[Ordered[i]] # Absent
    BY DEF FreeNames, Present, Absent
  <2> QED  BY <1>7, <2>1, <2>2, <2>3 DEF RefusableOf, Reads
<1>8. CASE c.op \in {"AddDirectory", "UpdateDirectoryTtl"}
  <2>1. /\ Method = "PUT" /\ curl.fields.dir /\ c.path = Dir
        /\ curl.fields.prevExist = IF c.op = "UpdateDirectoryTtl" THEN "true" ELSE None
        /\ c.old = NoValue /\ c.index = 0 /\ c.exist = None
    BY <1>1, <1>8 DEF RequestIs, CallShape
  <2>2. \/ ~Holds(curl.url, curl.fields)
        \/ /\ etcd[Dir].kind # "absent"
           /\ etcd[Dir].kind # "dir" \/ curl.fields.prevExist # "true"
    BY <1>3, <2>1 DEF RefusedIs
  <2>3. CASE c.op = "AddDirectory"
    <3>1. etcd[Dir] # Absent
      BY <1>4, <1>5, <2>1, <2>2, <2>3
    <3> QED  BY <2>1, <2>3, <3>1 DEF RefusableOf, Reads
  <2>4. CASE c.op = "UpdateDirectoryTtl"
    <3>1. etcd[Dir].kind # "dir"
      BY <1>4, <1>5, <2>1, <2>2, <2>4
    <3> QED  BY <2>1, <2>4, <3>1 DEF RefusableOf, Reads
  <2> QED  BY <1>8, <2>3, <2>4
<1>9. CASE c.op \in {"Delete", "CompareAndDeleteIf", "DeleteDirectory"}
  <2>1. /\ Method = "DELETE" /\ curl.fields.prevExist = None
        /\ curl.url.dir <=> c.op = "DeleteDirectory"
        /\ curl.url.recursive <=> c.op = "DeleteDirectory" /\ c.flag
    BY <1>1, <1>9 DEF RequestIs
  <2>2. \/ ~Holds(curl.url, curl.fields)
        \/ /\ etcd[c.path].kind # "value"
           /\ \/ etcd[c.path].kind # "dir"
              \/ ~curl.url.recursive /\ (~curl.url.dir \/ \E q \in Below(c.path) : Present(q))
    BY <1>3, <2>1 DEF RefusedIs
  <2>3. CASE c.op = "Delete"
    <3>1. c.old = NoValue /\ c.index = 0 /\ c.exist = None
      BY <2>3 DEF CallShape
    <3>2. etcd[c.path].kind # "value"
      BY <1>4, <2>1, <2>2, <3>1
    <3> QED  BY <2>3, <3>2 DEF RefusableOf, Reads
  <2>4. CASE c.op = "CompareAndDeleteIf"
    <3>1. c.path = Key /\ c.exist = None
      BY <2>4 DEF CallShape
    <3>2. \/ c.old # NoValue /\ etcd[c.path].value # c.old
          \/ c.index # 0 /\ etcd[c.path].index # c.index
          \/ etcd[c.path] = Absent
      BY <1>4, <1>5, <2>1, <2>2, <3>1
    <3> QED  BY <2>4, <3>2 DEF RefusableOf, Reads
  <2>5. CASE c.op = "DeleteDirectory"
    <3>1. c.path = Dir /\ c.old = NoValue /\ c.index = 0 /\ c.exist = None
      BY <2>5 DEF CallShape
    <3>2. etcd[Dir] = Absent \/ (~c.flag /\ \E q \in Below(Dir) : Present(q))
      BY <1>4, <1>5, <2>1, <2>2, <2>5, <3>1
    <3>3. \A q \in Below(Dir) : Present(q) => etcd[q] # Absent
      BY DEF Present, Absent
    <3> QED  BY <2>5, <3>1, <3>2, <3>3 DEF RefusableOf, Reads
  <2> QED  BY <1>9, <2>3, <2>4, <2>5
<1> QED  BY <1>6, <1>7, <1>8, <1>9 DEF CallShape, Ops, Reads

(* What the transfer has written: nothing, or the answer to this call.      *)
Answered ==
  writeStream # <<>> =>
    LET a == writeStream[1]
    IN     /\ writeStream = <<a>> /\ a.error \in BOOLEAN
           /\ a.error => witness.after = witness.before /\ Refusable
           /\ ~a.error =>
                /\ Documented /\ a.of = calls
                /\ call.op = "Get" /\ witness.after[call.path].kind = "value" => call.path \in a.shown

(* The inductive invariant: until the transfer begins the handle has the    *)
(* options of this call and of no other, and its stream is empty; after it  *)
(* the stream has the answer to this call.                                  *)
ClientInv ==
  /\ etcd \in Stores /\ etcdIndex \in Nat /\ Dated
  /\ callAt = "perform" =>
       /\ CallShape(call) /\ curl = SetOptions(NoOptions, call) /\ writeStream = <<>>
       /\ witness.after = witness.before
  /\ callAt = "reply" => Answered
  /\ OutcomeIsTrue

(* The handle starts without a call.                                        *)
LEMMA ClientInitInv == ClientInit => ClientInv
BY EtcdClientConstants DEF ClientInit, ClientInv, OutcomeIsTrue, None, Dated

(* _ResetHandle and the setters leave the options of this call alone,       *)
(* whatever the last one left, and _SetOptions clears the stream.           *)
LEMMA StartCallInv == ASSUME ClientInv, NEW c \in Calls, StartCall(c) PROVE ClientInv'
<1>1. CallShape(c)
  BY CallsShaped
<1> QED  BY <1>1 DEF StartCall, ClientInv, OutcomeIsTrue, ResetHandle, Dated

(* The answer tells whether the call was done, and shows what a Get asks    *)
(* for.                                                                     *)
LEMMA AnswerIs ==
  ASSUME NEW c, CallShape(c), curl = SetOptions(NoOptions, c), etcd \in Stores, etcdIndex \in Nat, Dated
  PROVE  /\ Answer.error \in BOOLEAN /\ Answer.of = calls
         /\ Answer.error => Served = etcd /\ RefusableOf(c, etcd)
         /\ ~Answer.error => DocumentedOf(c, etcd, Served)
         /\ c.op = "Get" /\ Served[c.path].kind = "value" /\ ~Answer.error => c.path \in Answer.shown
<1> DEFINE refused == (Method = "GET" /\ ~Present(curl.url.path)) \/ (Method # "GET" /\ Served = etcd)
           shown == {p \in {curl.url.path} \union Below(curl.url.path) : Served[p].kind = "value"}
<1>1. Answer = IF refused THEN [of |-> calls, error |-> TRUE, shown |-> {}]
               ELSE [of |-> calls, error |-> FALSE, shown |-> shown]
  BY Zenon DEF Answer
<1>2. Effected(c) /\ (c.op \in Reads => Method = "GET" /\ Served = etcd) /\ (c.op \notin Reads => Method # "GET")
  BY ServedDone
<1>3. RequestIs(c)
  BY RequestOf
<1>4. c.op \in Reads => DocumentedOf(c, etcd, Served)
  BY <1>2 DEF DocumentedOf, Reads
<1>5. refused => Served = etcd /\ RefusableOf(c, etcd)
  <2>1. CASE c.op \in Reads /\ refused
    <3>1. ~Present(c.path) /\ Served = etcd
      BY <1>2, <1>3, <2>1 DEF RequestIs
    <3>2. etcd[c.path] = Absent
      BY <3>1, EntryKinds, SomePaths DEF Present, CallShape
    <3> QED  BY <2>1, <3>1, <3>2 DEF RefusableOf, Reads
  <2>2. CASE c.op \notin Reads /\ refused
    <3>1. Served = etcd
      BY <1>2, <2>2
    <3> QED  BY <2>2, <3>1, RefusedFor
  <2> QED  BY <2>1, <2>2
<1>6. ~refused => DocumentedOf(c, etcd, Served)
  BY <1>2, <1>4 DEF Effected
<1>7. c.path \in {curl.url.path} \union Below(curl.url.path)
  BY <1>3 DEF RequestIs
<1>8. Served[c.path].kind = "value" => c.path \in shown
  BY <1>7
<1> HIDE DEF refused, shown
<1> QED  BY <1>1, <1>5, <1>6, <1>8

(* The transfer, complete, broken off or without a body.                    *)
LEMMA PerformInv == ASSUME ClientInv, Perform PROVE ClientInv'
<1>1. /\ callAt = "perform" /\ CallShape(call) /\ curl = SetOptions(NoOptions, call)
      /\ writeStream = <<>> /\ etcd \in Stores /\ etcdIndex \in Nat /\ Dated
  BY DEF ClientInv, Perform
<1>2. Effected(call)
  BY <1>1, ServedDone
<1>3. /\ etcd' = Served /\ witness' = [before |-> etcd, after |-> Served] /\ call' = call /\ calls' = calls
      /\ etcdIndex' = IF Served = etcd THEN etcdIndex ELSE etcdIndex + 1
  BY DEF Perform
<1>4. etcd' \in Stores /\ etcdIndex' \in Nat /\ Dated'
  <2>1. etcd' \in Stores /\ etcdIndex' \in Nat
    BY <1>1, <1>2, <1>3 DEF Effected
  <2>2. RequestIs(call) /\ call.path \in Paths
    BY <1>1, RequestOf, SomePaths DEF CallShape
  <2>3. ServedIs /\ curl.url.path \in Paths
    BY <2>2, ServedCases DEF RequestIs
  <2>4. \A q \in Paths : Served[q].index =< etcdIndex + 1
    BY <1>1, <2>3, ServedDated
  <2>5. Dated'
    BY <1>1, <1>3, <2>4 DEF Dated
  <2> QED  BY <2>1, <2>5
<1>5. /\ Documented' <=> DocumentedOf(call, etcd, Served)
      /\ Refusable' <=> RefusableOf(call, etcd)
  BY <1>3, DocumentedIs, RefusableIs
<1>6. CASE writeStream' = Append(writeStream, Answer) /\ callAt' = "reply"
  <2>1. writeStream' = <<Answer>>
    BY <1>1, <1>6
  <2>2. /\ Answer.error \in BOOLEAN /\ Answer.of = calls
        /\ Answer.error => Served = etcd /\ RefusableOf(call, etcd)
        /\ ~Answer.error => DocumentedOf(call, etcd, Served)
        /\ call.op = "Get" /\ Served[call.path].kind = "value" /\ ~Answer.error => call.path \in Answer.shown
    BY <1>1, AnswerIs
  <2>3. witness'.after = Served /\ witness'.before = etcd
    BY <1>3
  <2>4. Answered'
    BY <1>3, <1>5, <2>1, <2>2, <2>3 DEF Answered
  <2> QED  BY <1>4, <1>6, <2>4 DEF ClientInv, OutcomeIsTrue
<1>7. CASE callAt' = "reply" /\ writeStream' = writeStream
  <2>1. Answered'
    BY <1>1, <1>7 DEF Answered
  <2> QED  BY <1>4, <1>7, <2>1 DEF ClientInv, OutcomeIsTrue
<1>8. CASE callAt' = "idle" /\ outcome' = "ClientException"
  <2>1. witness'.after = witness'.before \/ Documented'
    BY <1>2, <1>3, <1>5 DEF Effected
  <2>2. OutcomeIsTrue'
    BY <1>8, <2>1 DEF OutcomeIsTrue
  <2> QED  BY <1>4, <1>8, <2>2 DEF ClientInv
<1> QED  BY <1>6, <1>7, <1>8 DEF Perform

(* A transfer that does not get to the server changes nothing.              *)
LEMMA PerformFailsInv == ASSUME ClientInv, PerformFails PROVE ClientInv'
<1>1. witness'.after = witness'.before
  BY DEF ClientInv, PerformFails
<1>2. OutcomeIsTrue'
  BY <1>1 DEF OutcomeIsTrue, PerformFails
<1> QED  BY <1>2 DEF ClientInv, PerformFails, Dated

(* RapidReply: the reply is made of the answer to this call.                *)
LEMMA GetReplyInv == ASSUME ClientInv, GetReply PROVE ClientInv'
<1>1. /\ Answered /\ etcd' = etcd /\ etcdIndex' = etcdIndex /\ callAt' = "idle"
      /\ writeStream' = writeStream /\ witness' = witness /\ call' = call /\ calls' = calls
      /\ etcd \in Stores /\ etcdIndex \in Nat /\ Dated'
  BY DEF ClientInv, GetReply, Dated
<1>2. (Documented' <=> Documented) /\ (Refusable' <=> Refusable)
  BY <1>1, DocumentedIs, RefusableIs
<1>3. CASE writeStream = <<>>
  <2>1. outcome' = "abort"
    BY <1>3 DEF GetReply
  <2>2. OutcomeIsTrue'
    BY <2>1 DEF OutcomeIsTrue
  <2> QED  BY <1>1, <2>2 DEF ClientInv
<1>4. CASE writeStream # <<>>
  <2>1. PICK a : /\ writeStream = <<a>> /\ a.error \in BOOLEAN
                 /\ a.error => witness.after = witness.before /\ Refusable
                 /\ ~a.error =>
                      /\ Documented /\ a.of = calls
                      /\ call.op = "Get" /\ witness.after[call.path].kind = "value" =>
                          call.path \in a.shown
    BY <1>1, <1>4 DEF Answered
  <2>2. Len(writeStream) = 1 /\ writeStream[1] = a
    BY <2>1
  <2>3. CASE a.error
    <3>1. outcome' = "ReplyException"
      BY <2>2, <2>3 DEF GetReply
    <3>2. OutcomeIsTrue'
      BY <1>1, <1>2, <2>1, <2>3, <3>1 DEF OutcomeIsTrue
    <3> QED  BY <1>1, <3>2 DEF ClientInv
  <2>4. CASE ~a.error
    <3>1. outcome' = "reply"
      BY <2>2, <2>4 DEF GetReply
    <3>2. ASSUME call.op = "Get", witness.after[call.path].kind = "value"
          PROVE  EtcdGet(call.path)' = witness.after[call.path].value
      <4> DEFINE pairs == {<<p, witness.after[p].value>> : p \in a.shown}
      <4>1. Pairs' = pairs
        BY <1>1, <2>2 DEF Pairs
      <4>2. <<call.path, witness.after[call.path].value>> \in pairs
        BY <2>1, <2>4, <3>2
      <4>3. \A pair \in pairs : pair[1] = call.path => pair[2] = witness.after[call.path].value
        OBVIOUS
      <4> HIDE DEF pairs
      <4>4. <<call.path, witness.after[call.path].value>>[1] = call.path
        OBVIOUS
      <4>5. \E pair \in pairs : pair[1] = call.path
        BY <4>2, <4>4
      <4>6. EtcdGet(call.path)' = (CHOOSE pair \in pairs : pair[1] = call.path)[2]
        BY <1>1, <4>1, <4>5 DEF EtcdGet
      <4> QED  BY <4>3, <4>5, <4>6
    <3>3. OutcomeIsTrue'
      BY <1>1, <1>2, <2>1, <2>2, <2>4, <3>1, <3>2 DEF OutcomeIsTrue
    <3> QED  BY <1>1, <3>3 DEF ClientInv
  <2> QED  BY <2>1, <2>3, <2>4
<1> QED  BY <1>3, <1>4

(* What other clients do before the request arrives is no concern of the    *)
(* handle.                                                                  *)
LEMMA OtherClientInv == ASSUME ClientInv, OtherClient PROVE ClientInv'
<1>1. /\ callAt' = "perform" /\ callAt = "perform" /\ CallShape(call) /\ curl = SetOptions(NoOptions, call)
      /\ writeStream = <<>> /\ etcd \in Stores /\ etcdIndex \in Nat /\ etcdIndex' = etcdIndex + 1
      /\ Dated
  BY DEF ClientInv, OtherClient
<1>2. ASSUME NEW v \in EtcdValues, etcd[Dir].kind # "value",
             etcd' = Put(Key, Entry("value", v, FALSE, etcdIndex + 1))
      PROVE  etcd' \in Stores /\ Dated'
  <2>1. etcd' \in Stores
    BY <1>1, <1>2, SomePaths, PutValue
  <2>2. \A q \in Paths : etcd'[q].index =< etcdIndex + 1
    BY <1>1, <1>2, SomePaths, PutDated
  <2> QED  BY <1>1, <2>1, <2>2 DEF Dated
<1>3. ASSUME NEW p \in Paths, etcd' = RemoveAll({p} \union Below(p))
      PROVE  etcd' \in Stores /\ Dated'
  <2>1. p = Dir => etcd' \in Stores
    BY <1>1, <1>3, RemoveDir
  <2>2. ASSUME p # Dir PROVE etcd' \in Stores
    <3>1. {p} \union Below(p) = {p}
      BY <2>2 DEF Below
    <3> QED  BY <1>1, <1>3, <2>2, <3>1, RemoveKey
  <2>3. {p} \union Below(p) \in SUBSET Paths
    BY DEF Below
  <2>4. \A q \in Paths : etcd'[q].index =< etcdIndex + 1
    BY <1>1, <1>3, <2>3, RemoveDated
  <2> QED  BY <1>1, <2>1, <2>2, <2>4 DEF Dated
<1>4. etcd' \in Stores /\ Dated'
  BY <1>2, <1>3 DEF OtherClient
<1> QED  BY <1>1, <1>4 DEF ClientInv, OtherClient, OutcomeIsTrue

(* Every step keeps the invariant of EtcdClient.                            *)
LEMMA ClientStepInv == ClientInv /\ [ClientNext]_clientVars => ClientInv'
<1> SUFFICES ASSUME ClientInv, [ClientNext]_clientVars PROVE ClientInv'
  OBVIOUS
<1>1. CASE UNCHANGED clientVars
  <2>1. Documented' <=> Documented
    BY <1>1, DocumentedIs DEF clientVars
  <2>2. Refusable' <=> Refusable
    BY <1>1, RefusableIs DEF clientVars
  <2> QED  BY <1>1, <2>1, <2>2 DEF ClientInv, clientVars, OutcomeIsTrue, Answered, EtcdGet, Pairs, Dated
<1> QED  BY <1>1, StartCallInv, PerformInv, PerformFailsInv, GetReplyInv, OtherClientInv DEF ClientNext

(* Whatever the handle was used for before, however earlier transfers broke *)
(* off and whatever other clients do, a call that returns a reply has done  *)
(* what its comment says and the reply is the answer to it, one that throws *)
(* a ReplyException has changed nothing and had a reason, and after a       *)
(* ClientException it has been done or not.  Delete is the exception to its *)
(* comment: it removes values and throws for every directory, empty or not  *)
(* (Client, internal::Curl, RapidReply; any number of calls, any values and *)
(* any stores).                                                             *)
THEOREM CallsAsDocumented == ClientSpec => []OutcomeIsTrue
<1>1. ClientInv => OutcomeIsTrue
  BY DEF ClientInv
<1> QED  BY <1>1, ClientInitInv, ClientStepInv, PTL DEF ClientSpec

-----------------------------------------------------------------------------
(* The two parsers of rapidjson (JsonReader).                               *)

(* Where the state machine is after a value of an object or an array.       *)
AfterValue(kind) == IF kind = "array" THEN "Element" ELSE "MemberValue"

(* The state of IterativeParse for a place of Parse.                        *)
StateOf(r) ==
  LET kind == r.stack[Len(r.stack)].kind
  IN  CASE r.at = "root" -> "Finish"
        [] r.at = "first" -> IF kind = "array" THEN "ArrayInitial" ELSE "ObjectInitial"
        [] r.at = "key" -> "MemberDelimiter"
        [] r.at = "colon" -> "MemberKey"
        [] r.at = "next" -> AfterValue(kind)
        [] r.at = "value" ->
             IF r.stack = <<>> THEN "Start"
             ELSE IF kind = "array" THEN "ElementDelimiter" ELSE "KeyValueDelimiter"

(* The call stack of Parse and the stack of IterativeParse, which has below *)
(* each object or array the state to go back to, and has not counted yet    *)
(* the last d members or elements of the innermost.                         *)
Kinds == {"array", "object"}
Frame == [kind : Kinds, count : Nat]
CallStack == Seq(Frame)
States == {"Start", "Finish", "ObjectInitial", "MemberKey", "KeyValueDelimiter", "MemberValue",
           "MemberDelimiter", "ArrayInitial", "Element", "ElementDelimiter"}
Level == [state : States, count : Nat]
Stacks == Seq(Level)
Match(frames, stack, d) ==
  /\ Len(frames) = Len(stack)
  /\ \A k \in 1 .. Len(frames) :
       /\ stack[k].state = IF k = 1 THEN "Start" ELSE AfterValue(frames[k - 1].kind)
       /\ frames[k].count = stack[k].count + IF k = Len(frames) THEN d ELSE 0

Event == ({"start"} \X Kinds) \cup ({"end"} \X Kinds \X Nat) \cup (Tokens \X {"key", "value"})
Events == Seq(Event)
Errors ==
  {NoError, "Termination", "StringMissQuotationMark", "ValueInvalid", "ObjectMissName",
   "ObjectMissColon", "ArrayMissCommaOrSquareBracket", "ObjectMissCommaOrCurlyBracket",
   "UnspecificSyntaxError", "DocumentRootNotSingular", "DocumentEmpty"}
RecParser ==
  [at : {"value", "first", "key", "colon", "next", "root", "done"}, stack : CallStack,
   events : Events, error : Errors]
ItrParser ==
  [at : {"loop", "done"}, state : States, stack : Stacks, events : Events, error : Errors]

SameError(r, i) ==
  \/ r.error = i.error
  \/ /\ r.error = "ValueInvalid"
     /\ i.error = IF i.state = "Start" THEN "DocumentEmpty" ELSE "UnspecificSyntaxError"

(* Both parsers go on, from corresponding places.                           *)
SamePlace(r, i) ==
  /\ r.at # "done" /\ i.at # "done" /\ r.error = NoError /\ i.error = NoError
  /\ r.at \in {"first", "key", "colon", "next"} => r.stack # <<>>
  /\ r.at = "root" => r.stack = <<>>
  /\ r.at \in {"key", "colon"} => r.stack[Len(r.stack)].kind = "object"
  /\ i.state = StateOf(r)
  /\ Match(r.stack, i.stack, IF r.at = "next" THEN 1 ELSE 0)

Together(r, i) ==
  /\ r \in RecParser /\ i \in ItrParser /\ r.events = i.events
  /\ \/ SamePlace(r, i)
     \/ Finished(r) /\ Finished(i) /\ SameError(r, i)

ReaderInv == Together(rec, itr)

-----------------------------------------------------------------------------
(* The handler has been told the same by both, and answered the same.       *)
Told(r, i) ==
  /\ r \in RecParser /\ i \in ItrParser /\ r.events = i.events /\ r.error = i.error

(* Only what the handler was told and its answer differ.                    *)
OnlyTold(r, i, p, q) ==
  /\ p.at = r.at /\ p.stack = r.stack
  /\ q.at = i.at /\ q.stack = i.stack /\ q.state = i.state

(* An event is told by both.                                                *)
LEMMA EmitBoth ==
  ASSUME NEW r, NEW i, Told(r, i), NEW e \in Event
  PROVE  Told(Emit(r, e), Emit(i, e)) /\ OnlyTold(r, i, Emit(r, e), Emit(i, e))
<1> DEFINE events == Append(r.events, e)
           error == IF Len(r.events) + 1 = refusal THEN "Termination" ELSE r.error
<1>1. r \in RecParser /\ i \in ItrParser /\ r.events = i.events /\ r.error = i.error
  BY DEF Told
<1>2. r.events \in Seq(Event) /\ r.error \in Errors
  BY <1>1 DEF RecParser, Events
<1>3. events \in Events /\ error \in Errors
  <2>1. Append(r.events, e) \in Seq(Event)
    BY <1>2, AppendProperties
  <2>2. events \in Events
    BY <2>1 DEF Events
  <2>3. "Termination" \in Errors
    BY DEF Errors
  <2>4. error \in Errors
    BY <1>2, <2>3
  <2> QED  BY <2>2, <2>4
<1>4. /\ Emit(r, e) = [r EXCEPT !.events = events, !.error = error]
      /\ Emit(i, e) = [i EXCEPT !.events = events, !.error = error]
  BY <1>1 DEF Emit, RecParser, ItrParser
<1> HIDE DEF events, error
<1>5. /\ Emit(r, e) \in RecParser /\ Emit(r, e).events = events /\ Emit(r, e).error = error
      /\ Emit(r, e).at = r.at /\ Emit(r, e).stack = r.stack
  BY <1>1, <1>3, <1>4 DEF RecParser
<1>6. /\ Emit(i, e) \in ItrParser /\ Emit(i, e).events = events /\ Emit(i, e).error = error
      /\ Emit(i, e).at = i.at /\ Emit(i, e).stack = i.stack /\ Emit(i, e).state = i.state
  BY <1>1, <1>3, <1>4 DEF ItrParser
<1> QED  BY <1>5, <1>6 DEF Told, OnlyTold

(* Both fail, with the same error or with two.                              *)
LEMMA FailedBoth ==
  ASSUME NEW r, NEW i, Told(r, i), NEW c \in Errors, NEW d \in Errors
  PROVE  /\ Failed(r, c) \in RecParser /\ Failed(i, d) \in ItrParser
         /\ Failed(r, c).events = Failed(i, d).events
         /\ Failed(r, c).error = c /\ Failed(i, d).error = d
         /\ OnlyTold(r, i, Failed(r, c), Failed(i, d))
BY DEF Told, Failed, RecParser, ItrParser, OnlyTold

(* Both fail alike.                                                         *)
LEMMA SameFailed ==
  ASSUME NEW r, NEW i, Told(r, i), NEW c \in Errors
  PROVE  Told(Failed(r, c), Failed(i, c)) /\ OnlyTold(r, i, Failed(r, c), Failed(i, c))
<1>1. /\ Failed(r, c) \in RecParser /\ Failed(i, c) \in ItrParser
      /\ Failed(r, c).events = Failed(i, c).events
      /\ Failed(r, c).error = c /\ Failed(i, c).error = c
      /\ OnlyTold(r, i, Failed(r, c), Failed(i, c))
  BY FailedBoth
<1> QED  BY <1>1 DEF Told

(* A string, a literal or a number is told by both, or both fail alike.     *)
LEMMA ScalarBoth ==
  ASSUME NEW r, NEW i, Told(r, i), NEW t \in Tokens
  PROVE  Told(Scalar(r, t), Scalar(i, t)) /\ OnlyTold(r, i, Scalar(r, t), Scalar(i, t))
<1>1. CASE t \in Scalars
  <2>1. <<t, "value">> \in Event
    BY DEF Event
  <2>2. Scalar(r, t) = Emit(r, <<t, "value">>) /\ Scalar(i, t) = Emit(i, <<t, "value">>)
    BY <1>1 DEF Scalar, Scalars
  <2> QED  BY <2>1, <2>2, EmitBoth
<1>2. CASE t = "broken string"
  <2>1. /\ Scalar(r, t) = Failed(r, "StringMissQuotationMark")
        /\ Scalar(i, t) = Failed(i, "StringMissQuotationMark")
    BY <1>2 DEF Scalar, Scalars
  <2>2. "StringMissQuotationMark" \in Errors
    BY DEF Errors
  <2> QED  BY <2>1, <2>2, SameFailed
<1>3. CASE t \notin Scalars /\ t # "broken string"
  <2>1. Scalar(r, t) = Failed(r, "ValueInvalid") /\ Scalar(i, t) = Failed(i, "ValueInvalid")
    BY <1>3 DEF Scalar
  <2>2. "ValueInvalid" \in Errors
    BY DEF Errors
  <2> QED  BY <2>1, <2>2, SameFailed
<1> QED  BY <1>1, <1>2, <1>3

(* So is the name of a member.                                              *)
LEMMA NameBoth ==
  ASSUME NEW r, NEW i, Told(r, i), NEW t \in Tokens
  PROVE  Told(Name(r, t), Name(i, t)) /\ OnlyTold(r, i, Name(r, t), Name(i, t))
<1>1. CASE t = "string"
  <2>1. <<t, "key">> \in Event
    BY DEF Event
  <2>2. Name(r, t) = Emit(r, <<t, "key">>) /\ Name(i, t) = Emit(i, <<t, "key">>)
    BY <1>1 DEF Name
  <2> QED  BY <2>1, <2>2, EmitBoth
<1>2. CASE t # "string"
  BY <1>2, ScalarBoth DEF Name
<1> QED  BY <1>1, <1>2

-----------------------------------------------------------------------------
(* The stacks.                                                              *)

(* An array or object entered is pushed on both stacks.                     *)
LEMMA PushMatch ==
  ASSUME NEW frames \in CallStack, NEW stack \in Stacks, Match(frames, stack, 0),
         NEW f \in Frame, f.count = 0, NEW s \in Level, s.count = 0,
         s.state = IF frames = <<>> THEN "Start" ELSE AfterValue(frames[Len(frames)].kind)
  PROVE  /\ Append(frames, f) \in CallStack /\ Append(stack, s) \in Stacks
         /\ Match(Append(frames, f), Append(stack, s), 0)
         /\ Append(frames, f) # <<>> /\ Append(frames, f)[Len(Append(frames, f))] = f
<1> DEFINE c2 == Append(frames, f)
           s2 == Append(stack, s)
<1>3. /\ c2 \in CallStack /\ Len(c2) = Len(frames) + 1 /\ c2[Len(frames) + 1] = f
      /\ \A k \in 1 .. Len(frames) : c2[k] = frames[k]
  BY AppendProperties DEF CallStack
<1>4. /\ s2 \in Stacks /\ Len(s2) = Len(stack) + 1 /\ s2[Len(stack) + 1] = s
      /\ \A k \in 1 .. Len(stack) : s2[k] = stack[k]
  BY AppendProperties DEF Stacks
<1> HIDE DEF c2, s2
<1>5. Len(frames) = Len(stack) /\ Len(frames) \in Nat
  BY DEF Match, CallStack
<1>6. ASSUME NEW k \in 1 .. Len(c2)
      PROVE  /\ s2[k].state = IF k = 1 THEN "Start" ELSE AfterValue(c2[k - 1].kind)
             /\ c2[k].count = s2[k].count + 0
  <2>1. CASE k =< Len(frames)
    <3>1. /\ k \in 1 .. Len(frames) /\ k \in 1 .. Len(stack)
          /\ k # 1 => k - 1 \in 1 .. Len(frames)
      BY <1>3, <1>5, <2>1
    <3>2. stack[k].state = IF k = 1 THEN "Start" ELSE AfterValue(frames[k - 1].kind)
      BY <3>1 DEF Match
    <3>3. frames[k].count = stack[k].count + 0
      BY <3>1 DEF Match
    <3> QED  BY <1>3, <1>4, <3>1, <3>2, <3>3
  <2>2. CASE k = Len(frames) + 1
    <3>1. frames = <<>> <=> k = 1
      BY <1>5, <2>2, EmptySeq DEF CallStack
    <3>2. k # 1 => k - 1 \in 1 .. Len(frames) /\ k - 1 = Len(frames)
      BY <1>5, <2>2
    <3>3. s2[k] = s /\ c2[k] = f
      BY <1>3, <1>4, <1>5, <2>2
    <3>4. s2[k].state = IF k = 1 THEN "Start" ELSE AfterValue(c2[k - 1].kind)
      BY <1>3, <3>1, <3>2, <3>3
    <3>5. c2[k].count = 0 /\ s2[k].count = 0
      BY <3>3
    <3>6. c2[k].count = s2[k].count + 0
      BY <3>5, 0 = 0 + 0
    <3> QED  BY <3>4, <3>6
  <2> QED  BY <1>3, <1>5, <1>6, <2>1, <2>2
<1>7. Match(c2, s2, 0)
  BY <1>3, <1>4, <1>5, <1>6 DEF Match
<1>8. c2 # <<>> /\ c2[Len(c2)] = f
  BY <1>3, <1>5, EmptySeq
<1> QED  BY <1>3, <1>4, <1>7, <1>8 DEF c2, s2

(* One left is popped from both: IterativeParse has counted d members or    *)
(* elements less.                                                           *)
LEMMA PopMatch ==
  ASSUME NEW frames \in CallStack, NEW stack \in Stacks, NEW d \in Nat, Match(frames, stack, d), frames # <<>>
  PROVE  /\ Front(frames) \in CallStack /\ Front(stack) \in Stacks
         /\ Match(Front(frames), Front(stack), 0)
         /\ Last(frames) \in Frame /\ Last(stack) \in Level
         /\ Last(frames).count = Last(stack).count + d
         /\ Last(stack).state =
              IF Front(frames) = <<>> THEN "Start" ELSE AfterValue(Front(frames)[Len(Front(frames))].kind)
<1>1. Len(frames) = Len(stack) /\ Len(frames) \in Nat /\ Len(frames) > 0
  BY EmptySeq DEF Match, CallStack
<1> DEFINE m == Len(frames) - 1
           c2 == Front(frames)
           s2 == Front(stack)
<1>2. c2 \in CallStack /\ Len(c2) = m /\ \A k \in 1 .. m : c2[k] = frames[k]
  <2>1. \A k \in 1 .. m : frames[k] \in Frame
    BY <1>1, ElementOfSeq DEF CallStack
  <2>2. /\ SubSeq(frames, 1, m) \in Seq(Frame)
        /\ Len(SubSeq(frames, 1, m)) = IF 1 =< m THEN m - 1 + 1 ELSE 0
        /\ \A k \in 1 .. m - 1 + 1 : SubSeq(frames, 1, m)[k] = frames[1 + k - 1]
    BY <1>1, <2>1, SubSeqProperties
  <2>3. \A k \in 1 .. m : k \in 1 .. m - 1 + 1 /\ 1 + k - 1 = k
    BY <1>1
  <2> QED  BY <1>1, <2>2, <2>3 DEF CallStack, Front
<1>3. s2 \in Stacks /\ Len(s2) = m /\ \A k \in 1 .. m : s2[k] = stack[k]
  <2>1. \A k \in 1 .. m : stack[k] \in Level
    BY <1>1, ElementOfSeq DEF Stacks
  <2>2. /\ SubSeq(stack, 1, m) \in Seq(Level)
        /\ Len(SubSeq(stack, 1, m)) = IF 1 =< m THEN m - 1 + 1 ELSE 0
        /\ \A k \in 1 .. m - 1 + 1 : SubSeq(stack, 1, m)[k] = stack[1 + k - 1]
    BY <1>1, <2>1, SubSeqProperties
  <2>3. \A k \in 1 .. m : k \in 1 .. m - 1 + 1 /\ 1 + k - 1 = k
    BY <1>1
  <2> QED  BY <1>1, <2>2, <2>3 DEF Stacks, Front
<1>4. Last(frames) = frames[Len(frames)] /\ Last(stack) = stack[Len(frames)] /\ Len(frames) \in 1 .. Len(frames)
  BY <1>1 DEF Last
<1> HIDE DEF c2, s2
<1>5. Last(frames) \in Frame /\ Last(stack) \in Level
  BY <1>1, <1>4, ElementOfSeq DEF CallStack, Stacks
<1>6. Last(frames).count = Last(stack).count + d
  BY <1>4 DEF Match
<1>7. Last(stack).state = IF Len(frames) = 1 THEN "Start" ELSE AfterValue(frames[m].kind)
  BY <1>4 DEF Match
<1>8. (c2 = <<>> <=> Len(frames) = 1) /\ (Len(frames) # 1 => c2[Len(c2)] = frames[m])
  BY <1>1, <1>2, EmptySeq DEF CallStack
<1>9. Match(c2, s2, 0)
  <2> SUFFICES ASSUME NEW k \in 1 .. m
               PROVE  /\ s2[k].state = IF k = 1 THEN "Start" ELSE AfterValue(c2[k - 1].kind)
                      /\ c2[k].count = s2[k].count + 0
    BY <1>2, <1>3 DEF Match
  <2>1. k \in 1 .. Len(frames) /\ k # Len(frames) /\ (k # 1 => k - 1 \in 1 .. m)
    BY <1>1
  <2>2. stack[k].state = IF k = 1 THEN "Start" ELSE AfterValue(frames[k - 1].kind)
    BY <2>1 DEF Match
  <2>3. frames[k].count = stack[k].count + 0
    BY <2>1 DEF Match
  <2> QED  BY <1>2, <1>3, <2>1, <2>2, <2>3
<1> QED  BY <1>2, <1>3, <1>5, <1>6, <1>7, <1>8, <1>9 DEF c2, s2

(* Parse counts a member or element as soon as it has read it,              *)
LEMMA CountMatch ==
  ASSUME NEW frames \in CallStack, NEW stack \in Stacks, Match(frames, stack, 0), frames # <<>>,
         NEW c2, c2 = [frames EXCEPT ![Len(frames)].count = @ + 1]
  PROVE  /\ c2 \in CallStack /\ Match(c2, stack, 1) /\ c2 # <<>>
         /\ Len(c2) = Len(frames) /\ c2[Len(c2)].kind = frames[Len(frames)].kind
<1>1. Len(frames) = Len(stack) /\ Len(frames) \in Nat /\ Len(frames) \in 1 .. Len(frames)
  BY EmptySeq DEF Match, CallStack
<1> DEFINE f == [frames[Len(frames)] EXCEPT !.count = @ + 1]
<1>2. c2 = [frames EXCEPT ![Len(frames)] = f]
  OBVIOUS
<1>3. frames[Len(frames)] \in Frame
  BY <1>1, ElementOfSeq DEF CallStack
<1>4. /\ f \in Frame /\ f.kind = frames[Len(frames)].kind
      /\ f.count = frames[Len(frames)].count + 1
  BY <1>3 DEF Frame
<1> HIDE DEF f
<1>5. /\ c2 \in CallStack /\ Len(c2) = Len(frames) /\ c2[Len(frames)] = f
      /\ \A k \in 1 .. Len(frames) : k # Len(frames) => c2[k] = frames[k]
  BY <1>1, <1>2, <1>4, ExceptSeq DEF CallStack
<1>6. ASSUME NEW k \in 1 .. Len(frames)
      PROVE  /\ stack[k].state = IF k = 1 THEN "Start" ELSE AfterValue(c2[k - 1].kind)
             /\ c2[k].count = stack[k].count + IF k = Len(frames) THEN 1 ELSE 0
  <2>1. k # 1 => k - 1 \in 1 .. Len(frames) /\ k - 1 # Len(frames)
    BY <1>1
  <2>2. stack[k].state = IF k = 1 THEN "Start" ELSE AfterValue(frames[k - 1].kind)
    BY DEF Match
  <2>3. frames[k].count = stack[k].count + 0 /\ stack[k].count \in Nat
    <3>1. frames[k].count = stack[k].count + IF k = Len(frames) THEN 0 ELSE 0
      BY DEF Match
    <3>2. stack[k] \in Level
      BY <1>1, ElementOfSeq DEF Stacks
    <3> QED  BY <3>1, <3>2 DEF Level
  <2>4. CASE k = Len(frames)
    <3>1. c2[k].count = frames[k].count + 1
      BY <1>4, <1>5, <2>4
    <3>2. c2[k].count = stack[k].count + 1
      BY <2>3, <3>1
    <3>3. stack[k].state = IF k = 1 THEN "Start" ELSE AfterValue(c2[k - 1].kind)
      BY <1>5, <2>1, <2>2
    <3> QED  BY <2>4, <3>2, <3>3
  <2>5. CASE k # Len(frames)
    BY <1>5, <2>1, <2>2, <2>3, <2>5
  <2> QED  BY <2>4, <2>5
<1>7. Match(c2, stack, 1)
  BY <1>1, <1>5, <1>6 DEF Match
<1>8. c2 # <<>>
  BY <1>1, <1>5, EmptySeq
<1> QED  BY <1>4, <1>5, <1>7, <1>8

(* IterativeParse when it meets the delimiter after it.                     *)
LEMMA DelimitMatch ==
  ASSUME NEW frames \in CallStack, NEW stack \in Stacks, Match(frames, stack, 1), frames # <<>>,
         NEW s2, s2 = [stack EXCEPT ![Len(stack)].count = @ + 1]
  PROVE  s2 \in Stacks /\ Match(frames, s2, 0)
<1>1. Len(frames) = Len(stack) /\ Len(frames) \in Nat /\ Len(frames) \in 1 .. Len(frames)
  BY EmptySeq DEF Match, CallStack
<1> DEFINE f == [stack[Len(stack)] EXCEPT !.count = @ + 1]
<1>2. s2 = [stack EXCEPT ![Len(stack)] = f]
  OBVIOUS
<1>3. stack[Len(stack)] \in Level
  BY <1>1, ElementOfSeq DEF Stacks
<1>4. /\ f \in Level /\ f.state = stack[Len(stack)].state
      /\ f.count = stack[Len(stack)].count + 1
  BY <1>3 DEF Level
<1> HIDE DEF f
<1>5. /\ s2 \in Stacks /\ Len(s2) = Len(stack) /\ s2[Len(stack)] = f
      /\ \A k \in 1 .. Len(stack) : k # Len(stack) => s2[k] = stack[k]
  BY <1>1, <1>2, <1>4, ExceptSeq DEF Stacks
<1>6. ASSUME NEW k \in 1 .. Len(frames)
      PROVE  /\ s2[k].state = IF k = 1 THEN "Start" ELSE AfterValue(frames[k - 1].kind)
             /\ frames[k].count = s2[k].count + 0
  <2>1. stack[k].state = IF k = 1 THEN "Start" ELSE AfterValue(frames[k - 1].kind)
    BY DEF Match
  <2>2. frames[k].count = stack[k].count + IF k = Len(frames) THEN 1 ELSE 0
    BY DEF Match
  <2>3. stack[k].count \in Nat
    <3>2. stack[k] \in Level
      BY <1>1, ElementOfSeq DEF Stacks
    <3> QED  BY <3>2 DEF Level
  <2>4. CASE k = Len(frames)
    BY <1>1, <1>4, <1>5, <2>1, <2>2, <2>3, <2>4
  <2>5. CASE k # Len(frames)
    BY <1>1, <1>5, <2>1, <2>2, <2>3, <2>5
  <2> QED  BY <2>4, <2>5
<1>7. Match(frames, s2, 0)
  BY <1>1, <1>5, <1>6 DEF Match
<1> QED  BY <1>5, <1>7

-----------------------------------------------------------------------------
(* The two parsers go on together, or end with the same.                    *)

(* Parsers that were told the same answers go on from corresponding places, *)
(* or were refused.                                                         *)
LEMMA GoOn ==
  ASSUME NEW r, NEW i, Told(r, i), r.error = NoError => SamePlace(r, i)
  PROVE  Together(r, i)
BY DEF Told, Together, Finished, SameError

(* Parsers that fail end together, with one error or with the two that      *)
(* differ.                                                                  *)
LEMMA FailTogether ==
  ASSUME NEW r, NEW i, Told(r, i), NEW c \in Errors \ {NoError}, NEW d \in Errors \ {NoError},
         \/ c = d
         \/ /\ c = "ValueInvalid"
            /\ d = IF i.state = "Start" THEN "DocumentEmpty" ELSE "UnspecificSyntaxError"
  PROVE  Together(Failed(r, c), Failed(i, d))
<1>1. /\ Failed(r, c) \in RecParser /\ Failed(i, d) \in ItrParser
      /\ Failed(r, c).events = Failed(i, d).events
      /\ Failed(r, c).error = c /\ Failed(i, d).error = d
      /\ OnlyTold(r, i, Failed(r, c), Failed(i, d))
  BY FailedBoth
<1> QED  BY <1>1 DEF Together, Finished, SameError, OnlyTold

(* The innermost array or object; Parse is about to read a value; the state *)
(* of IterativeParse after it.                                              *)
KindOf(r) == r.stack[Len(r.stack)].kind
ValueNext(r) == r.at = "value" \/ (r.at = "first" /\ KindOf(r) = "array")
Valued(r) == IF r.stack = <<>> THEN "Finish" ELSE AfterValue(KindOf(r))

(* What is known of parsers in corresponding places.                        *)
LEMMA PlaceFacts ==
  ASSUME NEW r, NEW i, Told(r, i), SamePlace(r, i)
  PROVE  /\ r \in RecParser /\ r.stack \in CallStack /\ i \in ItrParser /\ i.stack \in Stacks
         /\ i.at = "loop" /\ i.error = NoError /\ (r.stack # <<>> => KindOf(r) \in Kinds)
<1>1. r \in RecParser /\ r.stack \in CallStack /\ i \in ItrParser /\ i.stack \in Stacks
  BY DEF Told, RecParser, ItrParser
<1>2. i.at = "loop" /\ i.error = NoError
  BY <1>1 DEF SamePlace, ItrParser
<1>3. ASSUME r.stack # <<>> PROVE KindOf(r) \in Kinds
  <2>1. Len(r.stack) \in 1 .. Len(r.stack)
    BY <1>1, <1>3, EmptySeq DEF CallStack
  <2>2. r.stack[Len(r.stack)] \in Frame
    BY <1>1, <2>1, ElementOfSeq DEF CallStack
  <2> QED  BY <2>2 DEF Frame, KindOf
<1> QED  BY <1>1, <1>2, <1>3

(* A value is read: Parse counts it now, IterativeParse with the delimiter. *)
LEMMA CountedBoth ==
  ASSUME NEW r, NEW i, Told(r, i), i.at = "loop", Match(r.stack, i.stack, 0)
  PROVE  Together(Counted(r), [i EXCEPT !.state = Valued(r)])
<1> DEFINE i2 == [i EXCEPT !.state = Valued(r)]
<1>1. r \in RecParser /\ r.stack \in CallStack /\ i \in ItrParser /\ i.stack \in Stacks
      /\ r.events = i.events /\ r.error = i.error
  BY DEF Told, RecParser, ItrParser
<1>2. /\ i2 \in ItrParser /\ i2.at = i.at /\ i2.state = Valued(r) /\ i2.stack = i.stack
      /\ i2.events = i.events /\ i2.error = i.error
  <2>1. Valued(r) \in States
    BY DEF Valued, AfterValue, States
  <2> QED  BY <1>1, <2>1 DEF ItrParser
<1> HIDE DEF i2
<1>3. CASE r.stack = <<>>
  <2>1. Counted(r) = [r EXCEPT !.at = "root"]
    BY <1>3 DEF Counted
  <2>2. /\ Counted(r) \in RecParser /\ Counted(r).at = "root" /\ Counted(r).stack = r.stack
        /\ Counted(r).events = r.events /\ Counted(r).error = r.error
    BY <1>1, <2>1 DEF RecParser
  <2>3. Told(Counted(r), i2)
    BY <1>1, <1>2, <2>2 DEF Told
  <2>4. Counted(r).error = NoError => SamePlace(Counted(r), i2)
    BY <1>1, <1>2, <1>3, <2>2 DEF SamePlace, StateOf, Valued
  <2> QED  BY <2>3, <2>4, GoOn DEF i2
<1>4. CASE r.stack # <<>>
  <2> DEFINE c2 == [r.stack EXCEPT ![Len(r.stack)].count = @ + 1]
  <2>1. Counted(r) = [r EXCEPT !.at = "next", !.stack = c2]
    BY <1>1, <1>4 DEF Counted, RecParser
  <2>2. c2 = [r.stack EXCEPT ![Len(r.stack)].count = @ + 1]
    OBVIOUS
  <2> HIDE DEF c2
  <2>3. /\ c2 \in CallStack /\ Match(c2, i.stack, 1) /\ c2 # <<>>
        /\ Len(c2) = Len(r.stack) /\ c2[Len(c2)].kind = r.stack[Len(r.stack)].kind
    BY <1>1, <1>4, <2>2, CountMatch
  <2>4. /\ Counted(r) \in RecParser /\ Counted(r).at = "next" /\ Counted(r).stack = c2
        /\ Counted(r).events = r.events /\ Counted(r).error = r.error
    BY <1>1, <2>1, <2>3 DEF RecParser
  <2>5. Told(Counted(r), i2)
    BY <1>1, <1>2, <2>4 DEF Told
  <2>6. StateOf(Counted(r)) = Valued(r)
    BY <1>4, <2>3, <2>4 DEF StateOf, Valued, KindOf
  <2>7. Counted(r).error = NoError => SamePlace(Counted(r), i2)
    BY <1>1, <1>2, <2>3, <2>4, <2>6 DEF SamePlace
  <2> QED  BY <2>5, <2>7, GoOn DEF i2
<1> QED  BY <1>3, <1>4

(* Before a value everything is counted by both.                            *)
LEMMA ValueCounted ==
  ASSUME NEW r, NEW i, SamePlace(r, i), ValueNext(r)
  PROVE  Match(r.stack, i.stack, 0)
<1>1. r.at # "next"
  BY DEF ValueNext
<1>2. Match(r.stack, i.stack, IF r.at = "next" THEN 1 ELSE 0)
  BY DEF SamePlace
<1> QED  BY <1>1, <1>2

(* A string, a literal or a number, or what should have been one.           *)
LEMMA ScalarTogether ==
  ASSUME NEW r, NEW i, Told(r, i), SamePlace(r, i), ValueNext(r), NEW t \in Tokens
  PROVE  Together(Counted(Scalar(r, t)), [Scalar(i, t) EXCEPT !.state = Valued(r)])
<1> DEFINE r2 == Scalar(r, t)
           i2 == Scalar(i, t)
<1>1. Told(r2, i2) /\ OnlyTold(r, i, r2, i2)
  BY ScalarBoth
<1> HIDE DEF r2, i2
<1>2. i.at = "loop" /\ Match(r.stack, i.stack, 0)
  BY PlaceFacts, ValueCounted
<1>3. Valued(r2) = Valued(r) /\ i2.at = "loop" /\ Match(r2.stack, i2.stack, 0)
  BY <1>1, <1>2 DEF OnlyTold, Valued, KindOf
<1>4. Together(Counted(r2), [i2 EXCEPT !.state = Valued(r2)])
  BY <1>1, <1>3, CountedBoth
<1> QED  BY <1>3, <1>4 DEF r2, i2

(* An array or an object is entered.                                        *)
LEMMA EnterTogether ==
  ASSUME NEW r, NEW i, Told(r, i), SamePlace(r, i), ValueNext(r), NEW t, NEW kind \in Kinds,
         NEW dst, dst = IF kind = "array" THEN "ArrayInitial" ELSE "ObjectInitial"
  PROVE  Together(Enter(r, kind), Transit(i, dst, t))
<1> DEFINE e == <<"start", kind>>
           n == IF r.stack = <<>> THEN "Start" ELSE AfterValue(KindOf(r))
           r1 == Emit(r, e)
           i1 == Emit(i, e)
           f == [kind |-> kind, count |-> 0]
           s == [state |-> n, count |-> 0]
           c2 == Append(r.stack, f)
           s2 == Append(i.stack, s)
           r2 == [r1 EXCEPT !.stack = c2, !.at = "first"]
           i2 == [i1 EXCEPT !.stack = s2, !.state = dst]
<1>1. /\ r \in RecParser /\ r.stack \in CallStack /\ i \in ItrParser /\ i.stack \in Stacks
      /\ i.at = "loop" /\ Match(r.stack, i.stack, 0) /\ (r.stack # <<>> => KindOf(r) \in Kinds)
  BY PlaceFacts, ValueCounted
<1>2. /\ c2 \in CallStack /\ s2 \in Stacks /\ Match(c2, s2, 0)
      /\ c2 # <<>> /\ c2[Len(c2)].kind = kind
  <2>1. n = IF r.stack = <<>> THEN "Start" ELSE AfterValue(r.stack[Len(r.stack)].kind)
    BY DEF KindOf
  <2> HIDE DEF n
  <2>2. n \in States
    BY <2>1 DEF AfterValue, States
  <2>3. f \in Frame /\ f.count = 0 /\ f.kind = kind
    BY DEF Frame
  <2>4. s \in Level /\ s.count = 0 /\ s.state = n
    BY <2>2 DEF Level
  <2> HIDE DEF f, s
  <2>5. /\ Append(r.stack, f) \in CallStack /\ Append(i.stack, s) \in Stacks
        /\ Match(Append(r.stack, f), Append(i.stack, s), 0)
        /\ Append(r.stack, f) # <<>> /\ Append(r.stack, f)[Len(Append(r.stack, f))] = f
    BY <1>1, <2>1, <2>3, <2>4, PushMatch
  <2> QED  BY <2>3, <2>5
<1>3. Told(r1, i1) /\ OnlyTold(r, i, r1, i1)
  <2>1. e \in Event
    BY DEF Event
  <2> QED  BY <2>1, EmitBoth
<1>4. Enter(r, kind) = r2
  <2>1. r1.stack = r.stack
    BY <1>3 DEF OnlyTold
  <2> QED  BY <2>1 DEF Enter
<1>5. Transit(i, dst, t) = i2
  <2>1. i1.stack = i.stack
    BY <1>3 DEF OnlyTold
  <2>2. n = CASE i.state \in {"ArrayInitial", "ElementDelimiter"} -> "Element"
              [] i.state = "KeyValueDelimiter" -> "MemberValue" [] OTHER -> i.state
    BY <1>1 DEF SamePlace, StateOf, ValueNext, KindOf, AfterValue, Kinds
  <2>3. kind = IF dst \in {"ObjectInitial", "ObjectFinish"} THEN "object" ELSE "array"
    BY DEF Kinds
  <2> HIDE DEF n
  <2>4. dst \in {"ObjectInitial", "ArrayInitial"}
    OBVIOUS
  <2> QED  BY <2>1, <2>2, <2>3, <2>4 DEF Transit
<1> HIDE DEF c2, s2, r1, i1, n, f, s
<1>6. /\ r1 \in RecParser /\ i1 \in ItrParser /\ r1.events = i1.events /\ r1.error = i1.error
      /\ i1.at = "loop"
  BY <1>1, <1>3 DEF Told, OnlyTold
<1>7. /\ r2 \in RecParser /\ r2.at = "first" /\ r2.stack = c2
      /\ r2.events = r1.events /\ r2.error = r1.error
  BY <1>2, <1>6 DEF RecParser
<1>8. /\ i2 \in ItrParser /\ i2.at = "loop" /\ i2.stack = s2 /\ i2.state = dst
      /\ i2.events = i1.events /\ i2.error = i1.error
  BY <1>2, <1>6 DEF ItrParser, States
<1> HIDE DEF r2, i2
<1>9. Told(r2, i2)
  BY <1>6, <1>7, <1>8 DEF Told
<1>10. r2.error = NoError => SamePlace(r2, i2)
  BY <1>2, <1>6, <1>7, <1>8 DEF SamePlace, StateOf, Kinds
<1> QED  BY <1>4, <1>5, <1>9, <1>10, GoOn

(* The array or object is left: it is a value of the one around it.         *)
LEMMA LeaveTogether ==
  ASSUME NEW r, NEW i, Told(r, i), SamePlace(r, i), r.at \in {"first", "next"}, NEW t,
         NEW dst, dst = IF KindOf(r) = "array" THEN "ArrayFinish" ELSE "ObjectFinish"
  PROVE  Together(Leave(r), Transit(i, dst, t))
<1> DEFINE d == IF r.at = "next" THEN 1 ELSE 0
           c2 == Front(r.stack)
           s2 == Front(i.stack)
           top == Last(r.stack)
           low == Last(i.stack)
           e == <<"end", top.kind, top.count>>
           r1 == Emit(r, e)
           i1 == Emit(i, e)
           r2 == [r1 EXCEPT !.stack = c2]
           i2 == [i1 EXCEPT !.stack = s2]
<1>1. /\ r \in RecParser /\ r.stack \in CallStack /\ i \in ItrParser /\ i.stack \in Stacks
      /\ i.at = "loop" /\ r.stack # <<>> /\ KindOf(r) \in Kinds
  BY PlaceFacts DEF SamePlace
<1>2. Match(r.stack, i.stack, d) /\ d \in Nat
  BY DEF SamePlace
<1>3. LastCounted(i.state) = d
  BY <1>1 DEF SamePlace, StateOf, LastCounted, AfterValue, KindOf, Kinds
<1> HIDE DEF d
<1>4. /\ c2 \in CallStack /\ s2 \in Stacks /\ Match(c2, s2, 0)
      /\ top \in Frame /\ low \in Level /\ top.count = low.count + d
      /\ low.state = IF c2 = <<>> THEN "Start" ELSE AfterValue(c2[Len(c2)].kind)
  BY <1>1, <1>2, PopMatch
<1>5. top.kind = KindOf(r) /\ top.kind \in Kinds /\ top.count \in Nat
  BY <1>4 DEF KindOf, Last, Frame
<1>6. Told(r1, i1) /\ OnlyTold(r, i, r1, i1)
  <2>1. e \in Event
    BY <1>5 DEF Event
  <2> QED  BY <2>1, EmitBoth
<1>7. Leave(r) = Counted(r2)
  <2>1. r1.stack = r.stack
    BY <1>6 DEF OnlyTold
  <2> QED  BY <2>1 DEF Leave
<1>8. Transit(i, dst, t) = [i1 EXCEPT !.stack = s2,
                                      !.state = IF low.state = "Start" THEN "Finish" ELSE low.state]
  <2>1. i1.stack = i.stack
    BY <1>6 DEF OnlyTold
  <2>2. dst \in {"ObjectFinish", "ArrayFinish"}
    OBVIOUS
  <2>3. e = <<"end", IF dst \in {"ObjectInitial", "ObjectFinish"} THEN "object" ELSE "array",
              low.count + LastCounted(i.state)>>
    <3>1. top.kind = IF dst \in {"ObjectInitial", "ObjectFinish"} THEN "object" ELSE "array"
      BY <1>5 DEF Kinds
    <3>2. top.count = low.count + LastCounted(i.state)
      BY <1>3, <1>4
    <3> QED  BY <3>1, <3>2
  <2> HIDE DEF e, c2, s2, low, top
  <2>4. low = Last(i.stack) /\ s2 = Front(i.stack)
    BY DEF low, s2
  <2> QED  BY <2>1, <2>2, <2>3, <2>4 DEF Transit
<1>9. (IF low.state = "Start" THEN "Finish" ELSE low.state) =
        IF c2 = <<>> THEN "Finish" ELSE AfterValue(c2[Len(c2)].kind)
  BY <1>4 DEF AfterValue
<1> HIDE DEF c2, s2, r1, i1, e, top, low
<1>10. /\ r1 \in RecParser /\ i1 \in ItrParser /\ r1.events = i1.events /\ r1.error = i1.error
       /\ i1.at = "loop"
  BY <1>1, <1>6 DEF Told, OnlyTold
<1>11. /\ r2 \in RecParser /\ r2.stack = c2 /\ r2.events = r1.events /\ r2.error = r1.error
  BY <1>4, <1>10 DEF RecParser
<1>12. /\ i2 \in ItrParser /\ i2.at = "loop" /\ i2.stack = s2
       /\ i2.events = i1.events /\ i2.error = i1.error
  BY <1>4, <1>10 DEF ItrParser
<1>13. [i2 EXCEPT !.state = Valued(r2)] =
         [i1 EXCEPT !.stack = s2, !.state = IF low.state = "Start" THEN "Finish" ELSE low.state]
  <2>1. Valued(r2) = IF low.state = "Start" THEN "Finish" ELSE low.state
    BY <1>9, <1>11 DEF Valued, KindOf
  <2> QED  BY <2>1
<1> HIDE DEF r2, i2
<1>14. Together(Counted(r2), [i2 EXCEPT !.state = Valued(r2)])
  <2>1. Told(r2, i2)
    BY <1>10, <1>11, <1>12 DEF Told
  <2> QED  BY <1>4, <1>11, <1>12, <2>1, CountedBoth
<1> QED  BY <1>7, <1>8, <1>13, <1>14

(* The name of a member.                                                    *)
LEMMA NameTogether ==
  ASSUME NEW r, NEW i, Told(r, i), SamePlace(r, i), r.at \in {"first", "key"}, KindOf(r) = "object",
         NEW t \in {"string", "broken string"}
  PROVE  Together(ParseKey(r, t), Transit(i, "MemberKey", t))
<1> DEFINE r1 == Name(r, t)
           i1 == Name(i, t)
           r2 == [r1 EXCEPT !.at = "colon"]
           i2 == [i1 EXCEPT !.state = "MemberKey"]
<1>1. /\ r.stack # <<>> /\ i.at = "loop" /\ Match(r.stack, i.stack, 0)
  <2>1. Match(r.stack, i.stack, IF r.at = "next" THEN 1 ELSE 0) /\ r.at # "next"
    BY DEF SamePlace
  <2> QED  BY <2>1, PlaceFacts DEF SamePlace
<1>2. Told(r1, i1) /\ OnlyTold(r, i, r1, i1)
  BY NameBoth DEF Tokens, Scalars, Broken
<1>3. ParseKey(r, t) = r2 /\ Transit(i, "MemberKey", t) = i2
  BY DEF ParseKey, Transit
<1> HIDE DEF r1, i1
<1>4. /\ r1 \in RecParser /\ i1 \in ItrParser /\ r1.events = i1.events /\ r1.error = i1.error
      /\ i1.at = "loop" /\ r1.stack = r.stack /\ i1.stack = i.stack
  BY <1>1, <1>2 DEF Told, OnlyTold
<1>5. /\ r2 \in RecParser /\ r2.at = "colon" /\ r2.stack = r.stack
      /\ r2.events = r1.events /\ r2.error = r1.error
  BY <1>4 DEF RecParser
<1>6. /\ i2 \in ItrParser /\ i2.at = "loop" /\ i2.state = "MemberKey" /\ i2.stack = i.stack
      /\ i2.events = i1.events /\ i2.error = i1.error
  BY <1>4 DEF ItrParser, States
<1> HIDE DEF r2, i2
<1>7. Told(r2, i2)
  BY <1>4, <1>5, <1>6 DEF Told
<1>8. r2.error = NoError => SamePlace(r2, i2)
  BY <1>1, <1>4, <1>5, <1>6 DEF SamePlace, StateOf, KindOf
<1> QED  BY <1>3, <1>7, <1>8, GoOn

(* A colon.                                                                 *)
LEMMA ColonTogether ==
  ASSUME NEW r, NEW i, Told(r, i), SamePlace(r, i), r.at = "colon", NEW t
  PROVE  Together([r EXCEPT !.at = "value"], Transit(i, "KeyValueDelimiter", t))
<1> DEFINE r2 == [r EXCEPT !.at = "value"]
           i2 == [i EXCEPT !.state = "KeyValueDelimiter"]
<1>1. /\ r \in RecParser /\ i \in ItrParser /\ r.stack # <<>> /\ i.at = "loop"
      /\ KindOf(r) = "object" /\ r.error = NoError /\ i.error = NoError
  BY PlaceFacts DEF SamePlace, KindOf
<1>2. Match(r.stack, i.stack, 0)
  <2>1. Match(r.stack, i.stack, IF r.at = "next" THEN 1 ELSE 0) /\ r.at # "next"
    BY DEF SamePlace
  <2> QED  BY <2>1
<1>3. Transit(i, "KeyValueDelimiter", t) = i2
  BY DEF Transit
<1>4. /\ r2 \in RecParser /\ r2.at = "value" /\ r2.stack = r.stack
      /\ r2.events = r.events /\ r2.error = r.error
  BY <1>1 DEF RecParser
<1>5. /\ i2 \in ItrParser /\ i2.at = "loop" /\ i2.state = "KeyValueDelimiter" /\ i2.stack = i.stack
      /\ i2.events = i.events /\ i2.error = i.error
  BY <1>1 DEF ItrParser, States
<1> HIDE DEF r2, i2
<1>6. Told(r2, i2)
  BY <1>4, <1>5 DEF Told
<1>7. SamePlace(r2, i2)
  BY <1>1, <1>2, <1>4, <1>5 DEF SamePlace, StateOf, KindOf
<1> QED  BY <1>3, <1>6, <1>7, GoOn DEF r2

(* A comma: now IterativeParse counts what is before it.                    *)
LEMMA CommaTogether ==
  ASSUME NEW r, NEW i, Told(r, i), SamePlace(r, i), r.at = "next", NEW t,
         NEW dst, dst = IF KindOf(r) = "array" THEN "ElementDelimiter" ELSE "MemberDelimiter"
  PROVE  Together([r EXCEPT !.at = IF KindOf(r) = "array" THEN "value" ELSE "key"],
                  Transit(i, dst, t))
<1> DEFINE at == IF KindOf(r) = "array" THEN "value" ELSE "key"
           s2 == [i.stack EXCEPT ![Len(i.stack)].count = @ + 1]
           r2 == [r EXCEPT !.at = at]
           i2 == [i EXCEPT !.stack = s2, !.state = dst]
<1>1. /\ r \in RecParser /\ r.stack \in CallStack /\ i \in ItrParser /\ i.stack \in Stacks
      /\ r.stack # <<>> /\ i.at = "loop" /\ KindOf(r) \in Kinds
      /\ r.error = NoError /\ i.error = NoError
  BY PlaceFacts DEF SamePlace
<1>2. Match(r.stack, i.stack, 1)
  <2>1. Match(r.stack, i.stack, IF r.at = "next" THEN 1 ELSE 0)
    BY DEF SamePlace
  <2> QED  BY <2>1
<1>3. Transit(i, dst, t) = i2
  <2>1. dst \in {"MemberDelimiter", "ElementDelimiter"}
    OBVIOUS
  <2> QED  BY <1>1, <2>1 DEF Transit, ItrParser
<1>4. s2 \in Stacks /\ Match(r.stack, s2, 0)
  <2>1. s2 = [i.stack EXCEPT ![Len(i.stack)].count = @ + 1]
    OBVIOUS
  <2> HIDE DEF s2
  <2> QED  BY <1>1, <1>2, <2>1, DelimitMatch
<1> HIDE DEF s2
<1>5. /\ r2 \in RecParser /\ r2.at = at /\ r2.stack = r.stack
      /\ r2.events = r.events /\ r2.error = r.error
  BY <1>1 DEF RecParser
<1>6. /\ i2 \in ItrParser /\ i2.at = "loop" /\ i2.state = dst /\ i2.stack = s2
      /\ i2.events = i.events /\ i2.error = i.error
  BY <1>1, <1>4 DEF ItrParser, States
<1> HIDE DEF r2, i2
<1>7. Told(r2, i2)
  BY <1>5, <1>6 DEF Told
<1>8. SamePlace(r2, i2)
  BY <1>1, <1>4, <1>5, <1>6 DEF SamePlace, StateOf, KindOf, Kinds
<1> QED  BY <1>3, <1>7, <1>8, GoOn DEF r2

-----------------------------------------------------------------------------
(* The next token is read by both.                                          *)

(* Inside the text, IterativeParse does as the table says.                  *)
LEMMA TableRead ==
  ASSUME NEW i \in ItrParser, NEW t \in Tokens, i.error = NoError, i.state # "Finish",
         t # "broken comment",
         NEW n, n = IF t = "end" THEN "Error" ELSE Predict(i.state, Tokenize(t))
  PROVE  /\ n # "Error" => ItrStep(i, t) = Transit(i, n, t)
         /\ n = "Error" =>
              ItrStep(i, t) =
                Failed(i, CASE i.state = "Start" -> "DocumentEmpty"
                            [] i.state \in {"ObjectInitial", "MemberDelimiter"} -> "ObjectMissName"
                            [] i.state = "MemberKey" -> "ObjectMissColon"
                            [] i.state = "MemberValue" -> "ObjectMissCommaOrCurlyBracket"
                            [] i.state = "Element" -> "ArrayMissCommaOrSquareBracket"
                            [] OTHER -> "UnspecificSyntaxError")
<1>1. CASE t = "end"
  BY <1>1 DEF ItrStep, HandleError
<1>2. CASE t # "end" /\ n # "Error"
  BY <1>2 DEF ItrStep
<1>3. CASE t # "end" /\ n = "Error"
  BY <1>3 DEF ItrStep, HandleError
<1> QED  BY <1>1, <1>2, <1>3

(* The states in which a value is expected, and the one that a scalar leads *)
(* to from each.                                                            *)
Opening == {"Start", "KeyValueDelimiter", "ElementDelimiter", "ArrayInitial"}
ScalarState(from) ==
  IF from = "Start" THEN "Value" ELSE IF from = "KeyValueDelimiter" THEN "MemberValue" ELSE "Element"

(* What the table has for a value: an array, an object, a scalar, or an     *)
(* error for what cannot begin one.                                         *)
LEMMA TableValue ==
  ASSUME NEW from \in Opening, NEW t \in Tokens, ~(from = "ArrayInitial" /\ t = "]")
  PROVE  Predict(from, Tokenize(t)) =
           IF t = "[" THEN "ArrayInitial" ELSE IF t = "{" THEN "ObjectInitial"
           ELSE IF t \in Scalars \cup {"broken string", "broken literal", "bad"} THEN ScalarState(from)
           ELSE "Error"
<1>1. CASE from = "Start"
  BY <1>1 DEF Opening, Tokens, Scalars, Broken, Tokenize, Predict, ScalarState
<1>2. CASE from = "KeyValueDelimiter"
  BY <1>2 DEF Opening, Tokens, Scalars, Broken, Tokenize, Predict, ScalarState
<1>3. CASE from = "ElementDelimiter"
  BY <1>3 DEF Opening, Tokens, Scalars, Broken, Tokenize, Predict, ScalarState
<1>4. CASE from = "ArrayInitial"
  BY <1>4 DEF Opening, Tokens, Scalars, Broken, Tokenize, Predict, ScalarState
<1> QED  BY <1>1, <1>2, <1>3, <1>4 DEF Opening

(* What counting changes.                                                   *)
LEMMA CountedFields ==
  ASSUME NEW r \in RecParser
  PROVE  Counted(r) \in RecParser /\ Counted(r).events = r.events /\ Counted(r).error = r.error
<1>1. r.stack \in CallStack
  BY DEF RecParser
<1>2. CASE r.stack = <<>>
  BY <1>2 DEF Counted, RecParser
<1>3. CASE r.stack # <<>>
  <2> DEFINE f == [r.stack[Len(r.stack)] EXCEPT !.count = @ + 1]
             c2 == [r.stack EXCEPT ![Len(r.stack)] = f]
  <2>1. Len(r.stack) \in 1 .. Len(r.stack)
    BY <1>1, <1>3, EmptySeq DEF CallStack
  <2>2. r.stack[Len(r.stack)] \in Frame
    BY <1>1, <2>1, ElementOfSeq DEF CallStack
  <2>3. f \in Frame
    BY <2>2 DEF Frame
  <2> HIDE DEF f
  <2>4. c2 \in CallStack
    BY <1>1, <2>1, <2>3, ExceptSeq DEF CallStack
  <2>5. Counted(r) = [r EXCEPT !.at = "next", !.stack = c2]
    BY <1>3 DEF Counted, f, RecParser
  <2> HIDE DEF c2
  <2> QED  BY <2>4, <2>5 DEF RecParser
<1> QED  BY <1>2, <1>3

(* A value, or what should have been one.                                   *)
LEMMA ValueTogether ==
  ASSUME NEW r, NEW i, Told(r, i), SamePlace(r, i), ValueNext(r), NEW t \in Tokens,
         t # "broken comment", ~(r.at = "first" /\ t = "]"), ~(r.stack = <<>> /\ t = "end")
  PROVE  Together(ParseValue(r, t), ItrStep(i, t))
<1>1. /\ i \in ItrParser /\ i.error = NoError /\ r \in RecParser
      /\ r.stack # <<>> => KindOf(r) \in Kinds
  BY PlaceFacts
<1>2. /\ i.state \in Opening /\ i.state # "Finish" /\ ~(i.state = "ArrayInitial" /\ t = "]")
      /\ (i.state = "Start" <=> r.stack = <<>>)
      /\ r.stack # <<>> => ScalarState(i.state) = AfterValue(KindOf(r))
  BY <1>1 DEF SamePlace, StateOf, ValueNext, Opening, Kinds, KindOf, ScalarState, AfterValue
<1> DEFINE n == IF t = "end" THEN "Error" ELSE Predict(i.state, Tokenize(t))
<1>3. n = IF t = "[" THEN "ArrayInitial" ELSE IF t = "{" THEN "ObjectInitial"
          ELSE IF t \in Scalars \cup {"broken string", "broken literal", "bad"}
          THEN ScalarState(i.state) ELSE "Error"
  BY <1>2, TableValue DEF Scalars
<1>4. /\ n # "Error" => ItrStep(i, t) = Transit(i, n, t)
      /\ n = "Error" => ItrStep(i, t) =
           Failed(i, IF i.state = "Start" THEN "DocumentEmpty" ELSE "UnspecificSyntaxError")
  BY <1>1, <1>2, TableRead DEF Opening
<1> HIDE DEF n
<1>5. CASE t = "["
  <2>1. ItrStep(i, t) = Transit(i, "ArrayInitial", t) /\ ParseValue(r, t) = Enter(r, "array")
    BY <1>3, <1>4, <1>5 DEF ParseValue
  <2> QED  BY <2>1, EnterTogether DEF Kinds
<1>6. CASE t = "{"
  <2>1. ItrStep(i, t) = Transit(i, "ObjectInitial", t) /\ ParseValue(r, t) = Enter(r, "object")
    BY <1>3, <1>4, <1>6 DEF ParseValue
  <2> QED  BY <2>1, EnterTogether DEF Kinds
<1>7. CASE t \in Scalars \cup {"broken string", "broken literal", "bad"}
  <2>1. ItrStep(i, t) = Transit(i, ScalarState(i.state), t) /\ ParseValue(r, t) = Counted(Scalar(r, t))
    BY <1>3, <1>4, <1>7 DEF ParseValue, Scalars, ScalarState
  <2>2. Transit(i, ScalarState(i.state), t) = [Scalar(i, t) EXCEPT !.state = Valued(r)]
    BY <1>2 DEF Transit, Valued, ScalarState
  <2>3. Together(Counted(Scalar(r, t)), [Scalar(i, t) EXCEPT !.state = Valued(r)])
    BY ScalarTogether
  <2> QED  BY <2>1, <2>2, <2>3
<1>8. CASE t \notin Scalars \cup {"broken string", "broken literal", "bad", "[", "{"}
  <2> DEFINE d == IF i.state = "Start" THEN "DocumentEmpty" ELSE "UnspecificSyntaxError"
             r2 == Failed(r, "ValueInvalid")
  <2>1. ItrStep(i, t) = Failed(i, d)
    BY <1>3, <1>4, <1>8
  <2>2. ParseValue(r, t) = Counted(r2)
    BY <1>8 DEF ParseValue, Scalar
  <2>3. /\ "ValueInvalid" \in Errors \ {NoError} /\ d \in Errors \ {NoError}
    BY DEF Errors, NoError
  <2> HIDE DEF d
  <2>4. /\ r2 \in RecParser /\ Failed(i, d) \in ItrParser /\ r2.events = Failed(i, d).events
        /\ r2.error = "ValueInvalid" /\ Failed(i, d).error = d /\ OnlyTold(r, i, r2, Failed(i, d))
    <3> DEFINE c == "ValueInvalid"
    <3>1. c \in Errors /\ d \in Errors
      BY <2>3
    <3> HIDE DEF c
    <3>2. /\ Failed(r, c) \in RecParser /\ Failed(i, d) \in ItrParser
          /\ Failed(r, c).events = Failed(i, d).events
          /\ Failed(r, c).error = c /\ Failed(i, d).error = d
          /\ OnlyTold(r, i, Failed(r, c), Failed(i, d))
      BY <3>1, FailedBoth
    <3> QED  BY <3>2 DEF c
  <2>5. /\ Counted(r2) \in RecParser /\ Counted(r2).events = r2.events
        /\ Counted(r2).error = r2.error
    <3> HIDE DEF r2
    <3> QED  BY <2>4, CountedFields
  <2>6. Finished(Counted(r2)) /\ Finished(Failed(i, d)) /\ SameError(Counted(r2), Failed(i, d))
    BY <2>3, <2>4, <2>5 DEF Finished, SameError, OnlyTold, d
  <2>7. Together(Counted(r2), Failed(i, d))
    BY <2>4, <2>5, <2>6 DEF Together
  <2> QED  BY <2>1, <2>2, <2>7
<1> QED  BY <1>5, <1>6, <1>7, <1>8

(* The name of a member, or what should have been one.                      *)
LEMMA KeyTogether ==
  ASSUME NEW r, NEW i, Told(r, i), SamePlace(r, i), r.at \in {"first", "key"}, KindOf(r) = "object",
         NEW t \in Tokens, t # "broken comment", ~(r.at = "first" /\ t = "}")
  PROVE  Together(ParseKey(r, t), ItrStep(i, t))
<1>1. /\ i \in ItrParser /\ i.error = NoError
      /\ i.state = IF r.at = "first" THEN "ObjectInitial" ELSE "MemberDelimiter"
  BY PlaceFacts DEF SamePlace, StateOf, KindOf
<1> DEFINE n == IF t = "end" THEN "Error" ELSE Predict(i.state, Tokenize(t))
<1>2. n = IF t \in {"string", "broken string"} THEN "MemberKey" ELSE "Error"
  BY <1>1 DEF Tokens, Scalars, Broken, Tokenize, Predict
<1>3. /\ n # "Error" => ItrStep(i, t) = Transit(i, n, t)
      /\ n = "Error" => ItrStep(i, t) = Failed(i, "ObjectMissName")
  BY <1>1, TableRead
<1> HIDE DEF n
<1>4. CASE t \in {"string", "broken string"}
  <2>1. Together(ParseKey(r, t), Transit(i, "MemberKey", t))
    BY <1>4, NameTogether
  <2> QED  BY <1>2, <1>3, <1>4, <2>1
<1>5. CASE t \notin {"string", "broken string"}
  <2>1. "ObjectMissName" \in Errors \ {NoError}
    BY DEF Errors, NoError
  <2>2. Together(Failed(r, "ObjectMissName"), Failed(i, "ObjectMissName"))
    BY <2>1, FailTogether
  <2>3. ParseKey(r, t) = Failed(r, "ObjectMissName")
    BY <1>5 DEF ParseKey
  <2> QED  BY <1>2, <1>3, <1>5, <2>2, <2>3
<1> QED  BY <1>4, <1>5

(* What follows an opening bracket.                                         *)
LEMMA FirstTogether ==
  ASSUME NEW r, NEW i, Told(r, i), SamePlace(r, i), r.at = "first",
         NEW t \in Tokens, t # "broken comment"
  PROVE  Together(ParseObjectOrArray(r, t), ItrStep(i, t))
<1>1. /\ i \in ItrParser /\ i.error = NoError /\ KindOf(r) \in Kinds /\ r.stack # <<>>
      /\ i.state = IF KindOf(r) = "array" THEN "ArrayInitial" ELSE "ObjectInitial"
      /\ Last(r.stack).kind = KindOf(r)
  BY PlaceFacts DEF SamePlace, StateOf, KindOf, Last
<1>2. CASE Closes(KindOf(r), t)
  <2> DEFINE n == Predict(i.state, Tokenize(t))
             dst == IF KindOf(r) = "array" THEN "ArrayFinish" ELSE "ObjectFinish"
  <2>1. n = dst /\ t # "end" /\ dst # "Error"
    BY <1>1, <1>2 DEF Closes, Tokenize, Predict, Kinds
  <2>2. ItrStep(i, t) = Transit(i, n, t)
    BY <1>1, <2>1, TableRead
  <2> HIDE DEF n
  <2>3. Together(Leave(r), Transit(i, dst, t))
    BY LeaveTogether
  <2>4. ParseObjectOrArray(r, t) = Leave(r)
    BY <1>1, <1>2 DEF ParseObjectOrArray
  <2> QED  BY <2>1, <2>2, <2>3, <2>4
<1>3. CASE ~Closes(KindOf(r), t) /\ KindOf(r) = "array"
  <2>1. ParseObjectOrArray(r, t) = ParseValue(r, t)
    BY <1>1, <1>3 DEF ParseObjectOrArray
  <2>2. t # "]" /\ ValueNext(r)
    BY <1>3 DEF Closes, ValueNext
  <2>3. Together(ParseValue(r, t), ItrStep(i, t))
    BY <1>1, <2>2, ValueTogether
  <2> QED  BY <2>1, <2>3
<1>4. CASE ~Closes(KindOf(r), t) /\ KindOf(r) = "object"
  <2>1. ParseObjectOrArray(r, t) = ParseKey(r, t)
    BY <1>1, <1>4 DEF ParseObjectOrArray
  <2>2. t # "}"
    BY <1>4 DEF Closes
  <2>3. Together(ParseKey(r, t), ItrStep(i, t))
    BY <1>4, <2>2, KeyTogether
  <2> QED  BY <2>1, <2>3
<1> QED  BY <1>1, <1>2, <1>3, <1>4 DEF Kinds

(* What follows the name of a member.                                       *)
LEMMA MemberTogether ==
  ASSUME NEW r, NEW i, Told(r, i), SamePlace(r, i), r.at = "colon",
         NEW t \in Tokens, t # "broken comment"
  PROVE  Together(ParseObjectOrArray(r, t), ItrStep(i, t))
<1>1. i \in ItrParser /\ i.error = NoError /\ i.state = "MemberKey"
  BY PlaceFacts DEF SamePlace, StateOf
<1> DEFINE n == IF t = "end" THEN "Error" ELSE Predict(i.state, Tokenize(t))
<1>2. n = IF t = ":" THEN "KeyValueDelimiter" ELSE "Error"
  BY <1>1 DEF Tokens, Scalars, Broken, Tokenize, Predict
<1>3. /\ n # "Error" => ItrStep(i, t) = Transit(i, n, t)
      /\ n = "Error" => ItrStep(i, t) = Failed(i, "ObjectMissColon")
  BY <1>1, TableRead
<1> HIDE DEF n
<1>4. CASE t = ":"
  <2>1. Together([r EXCEPT !.at = "value"], Transit(i, "KeyValueDelimiter", t))
    BY ColonTogether
  <2>2. ParseObjectOrArray(r, t) = [r EXCEPT !.at = "value"]
    BY <1>4 DEF ParseObjectOrArray
  <2> QED  BY <1>2, <1>3, <1>4, <2>1, <2>2
<1>5. CASE t # ":"
  <2>1. "ObjectMissColon" \in Errors \ {NoError}
    BY DEF Errors, NoError
  <2>2. Together(Failed(r, "ObjectMissColon"), Failed(i, "ObjectMissColon"))
    BY <2>1, FailTogether
  <2>3. ParseObjectOrArray(r, t) = Failed(r, "ObjectMissColon")
    BY <1>5 DEF ParseObjectOrArray
  <2> QED  BY <1>2, <1>3, <1>5, <2>2, <2>3
<1> QED  BY <1>4, <1>5

(* What follows a member or an element.                                     *)
LEMMA NextTogether ==
  ASSUME NEW r, NEW i, Told(r, i), SamePlace(r, i), r.at = "next",
         NEW t \in Tokens, t # "broken comment"
  PROVE  Together(ParseObjectOrArray(r, t), ItrStep(i, t))
<1>1. /\ i \in ItrParser /\ i.error = NoError /\ KindOf(r) \in Kinds /\ r.stack # <<>>
      /\ i.state = IF KindOf(r) = "array" THEN "Element" ELSE "MemberValue"
      /\ Last(r.stack).kind = KindOf(r)
  BY PlaceFacts DEF SamePlace, StateOf, KindOf, Last, AfterValue
<1> DEFINE n == IF t = "end" THEN "Error" ELSE Predict(i.state, Tokenize(t))
           comma == IF KindOf(r) = "array" THEN "ElementDelimiter" ELSE "MemberDelimiter"
           close == IF KindOf(r) = "array" THEN "ArrayFinish" ELSE "ObjectFinish"
           miss == IF KindOf(r) = "array" THEN "ArrayMissCommaOrSquareBracket"
                   ELSE "ObjectMissCommaOrCurlyBracket"
<1>2. n = IF t = "," THEN comma ELSE IF Closes(KindOf(r), t) THEN close ELSE "Error"
  <2>1. CASE KindOf(r) = "array"
    BY <1>1, <2>1 DEF Tokens, Scalars, Broken, Tokenize, Predict, Closes
  <2>2. CASE KindOf(r) = "object"
    BY <1>1, <2>2 DEF Tokens, Scalars, Broken, Tokenize, Predict, Closes
  <2> QED  BY <1>1, <2>1, <2>2 DEF Kinds
<1>3. /\ n # "Error" => ItrStep(i, t) = Transit(i, n, t)
      /\ n = "Error" => ItrStep(i, t) = Failed(i, miss)
  BY <1>1, TableRead
<1> HIDE DEF n
<1>4. CASE t = ","
  <2>1. Together([r EXCEPT !.at = IF KindOf(r) = "array" THEN "value" ELSE "key"],
                 Transit(i, comma, t))
    BY CommaTogether
  <2>2. ParseObjectOrArray(r, t) = [r EXCEPT !.at = IF KindOf(r) = "array" THEN "value" ELSE "key"]
    BY <1>1, <1>4 DEF ParseObjectOrArray, Closes
  <2> QED  BY <1>2, <1>3, <1>4, <2>1, <2>2
<1>5. CASE t # "," /\ Closes(KindOf(r), t)
  <2>1. Together(Leave(r), Transit(i, close, t))
    BY LeaveTogether
  <2>2. ParseObjectOrArray(r, t) = Leave(r)
    BY <1>1, <1>5 DEF ParseObjectOrArray
  <2> QED  BY <1>2, <1>3, <1>5, <2>1, <2>2
<1>6. CASE t # "," /\ ~Closes(KindOf(r), t)
  <2>1. miss \in Errors \ {NoError}
    BY DEF Errors, NoError
  <2>2. ParseObjectOrArray(r, t) = Failed(r, miss)
    BY <1>1, <1>6 DEF ParseObjectOrArray
  <2>3. ItrStep(i, t) = Failed(i, miss)
    BY <1>2, <1>3, <1>6
  <2> HIDE DEF miss
  <2>4. Together(Failed(r, miss), Failed(i, miss))
    BY <2>1, FailTogether
  <2> QED  BY <2>2, <2>3, <2>4
<1> QED  BY <1>4, <1>5, <1>6

(* The end of the text.                                                     *)
LEMMA RootTogether ==
  ASSUME NEW r, NEW i, Told(r, i), SamePlace(r, i), r.at = "root", NEW t \in Tokens
  PROVE  Together(RecStep(r, t), ItrStep(i, t))
<1>1. i \in ItrParser /\ r \in RecParser /\ i.error = NoError /\ i.state = "Finish"
  BY PlaceFacts DEF SamePlace, StateOf
<1>2. CASE stopWhenDone \/ t = "end"
  <2>1. RecStep(r, t) = Done(r) /\ ItrStep(i, t) = Done(i)
    BY <1>1, <1>2 DEF RecStep, ItrStep
  <2>2. /\ Done(r) \in RecParser /\ Done(r).at = "done" /\ Done(r).events = r.events
        /\ Done(r).error = r.error
    BY <1>1 DEF Done, RecParser
  <2>3. /\ Done(i) \in ItrParser /\ Done(i).at = "done" /\ Done(i).events = i.events
        /\ Done(i).error = i.error
    BY <1>1 DEF Done, ItrParser
  <2> QED  BY <2>1, <2>2, <2>3 DEF Told, Together, Finished, SameError
<1>3. CASE ~stopWhenDone /\ t # "end"
  <2> DEFINE c == IF t = "broken comment" THEN "UnspecificSyntaxError" ELSE "DocumentRootNotSingular"
  <2>1. c \in Errors \ {NoError}
    BY DEF Errors, NoError
  <2>2. RecStep(r, t) = Failed(r, c)
    BY <1>3 DEF RecStep
  <2>3. ItrStep(i, t) = Failed(i, c)
    <3>1. Predict(i.state, Tokenize(t)) = "Error"
      BY <1>1 DEF Predict
    <3> QED  BY <1>1, <1>3, <3>1 DEF ItrStep, HandleError
  <2> HIDE DEF c
  <2>4. Together(Failed(r, c), Failed(i, c))
    BY <2>1, FailTogether
  <2> QED  BY <2>2, <2>3, <2>4
<1> QED  BY <1>2, <1>3

(* Every token is read by both alike.                                       *)
LEMMA ReadTogether ==
  ASSUME NEW r, NEW i, Together(r, i), ~(Finished(r) /\ Finished(i)), NEW t \in Tokens
  PROVE  ~Finished(r) /\ ~Finished(i) /\ Together(RecStep(r, t), ItrStep(i, t))
<1>1. SamePlace(r, i) /\ Told(r, i) /\ ~Finished(r) /\ ~Finished(i)
  BY DEF Together, Told, SamePlace, Finished
<1>2. /\ r \in RecParser /\ i \in ItrParser /\ r.at # "done"
      /\ r.at \in {"value", "first", "key", "colon", "next", "root"}
  BY <1>1 DEF Told, SamePlace, RecParser
<1>3. CASE r.at = "root"
  BY <1>1, <1>3, RootTogether
<1>4. CASE r.at # "root" /\ t = "broken comment"
  <2>1. i.state # "Finish"
    BY <1>1, <1>2, <1>4 DEF SamePlace, StateOf, AfterValue
  <2>2. /\ RecStep(r, t) = Failed(r, "UnspecificSyntaxError")
        /\ ItrStep(i, t) = Failed(i, "UnspecificSyntaxError")
    BY <1>4, <2>1 DEF RecStep, ItrStep
  <2>3. "UnspecificSyntaxError" \in Errors \ {NoError}
    BY DEF Errors, NoError
  <2>4. Together(Failed(r, "UnspecificSyntaxError"), Failed(i, "UnspecificSyntaxError"))
    BY <1>1, <2>3, FailTogether
  <2> QED  BY <1>1, <2>2, <2>4
<1>5. CASE r.at = "value" /\ r.stack = <<>> /\ t = "end"
  <2>1. i.state = "Start" /\ i.error = NoError
    BY <1>1, <1>5 DEF SamePlace, StateOf
  <2>2. RecStep(r, t) = Failed(r, "DocumentEmpty") /\ ItrStep(i, t) = Failed(i, "DocumentEmpty")
    BY <1>5, <2>1 DEF RecStep, ItrStep, HandleError
  <2>3. "DocumentEmpty" \in Errors \ {NoError}
    BY DEF Errors, NoError
  <2>4. Together(Failed(r, "DocumentEmpty"), Failed(i, "DocumentEmpty"))
    BY <1>1, <2>3, FailTogether
  <2> QED  BY <1>1, <2>2, <2>4
<1>6. CASE r.at = "value" /\ (r.stack # <<>> \/ t # "end") /\ t # "broken comment"
  <2>1. RecStep(r, t) = ParseValue(r, t)
    BY <1>6 DEF RecStep
  <2>2. Together(ParseValue(r, t), ItrStep(i, t))
    <3>1. ValueNext(r) /\ ~(r.at = "first" /\ t = "]")
      BY <1>6 DEF ValueNext
    <3>2. ~(r.stack = <<>> /\ t = "end") /\ t # "broken comment"
      BY <1>6
    <3> QED  BY <1>1, <3>1, <3>2, ValueTogether
  <2> QED  BY <1>1, <2>1, <2>2
<1>7. CASE r.at \in {"first", "key", "colon", "next"} /\ t # "broken comment"
  <2>1. RecStep(r, t) = ParseObjectOrArray(r, t)
    BY <1>7 DEF RecStep
  <2>2. CASE r.at = "first"
    BY <1>1, <1>7, <2>1, <2>2, FirstTogether
  <2>3. CASE r.at = "key"
    <3>1. KindOf(r) = "object"
      BY <1>1, <2>3 DEF SamePlace, KindOf
    <3>2. ParseObjectOrArray(r, t) = ParseKey(r, t)
      BY <2>3 DEF ParseObjectOrArray
    <3>3. Together(ParseKey(r, t), ItrStep(i, t))
      BY <1>1, <1>7, <2>3, <3>1, KeyTogether
    <3> QED  BY <1>1, <2>1, <3>2, <3>3
  <2>4. CASE r.at = "colon"
    BY <1>1, <1>7, <2>1, <2>4, MemberTogether
  <2>5. CASE r.at = "next"
    BY <1>1, <1>7, <2>1, <2>5, NextTogether
  <2> QED  BY <1>7, <2>2, <2>3, <2>4, <2>5
<1> QED  BY <1>2, <1>3, <1>4, <1>5, <1>6, <1>7

-----------------------------------------------------------------------------
(* Both start where a value is expected.                                    *)
LEMMA ReaderStarts == ReaderInit => ReaderInv
<1> SUFFICES ASSUME ReaderInit PROVE ReaderInv
  OBVIOUS
<1>1. <<>> \in CallStack /\ <<>> \in Stacks /\ <<>> \in Events /\ NoError \in Errors
  BY EmptySeq DEF CallStack, Stacks, Events, Errors
<1>2. rec \in RecParser /\ itr \in ItrParser
  BY <1>1 DEF ReaderInit, RecParser, ItrParser, States
<1>3. Match(<<>>, <<>>, 0)
  <2>1. Len(<<>>) = 0
    BY EmptySeq
  <2> QED  BY <2>1 DEF Match
<1>4. SamePlace(rec, itr)
  BY <1>3 DEF ReaderInit, SamePlace, StateOf
<1> QED  BY <1>2, <1>4 DEF ReaderInv, Together, ReaderInit

(* Every token keeps them together.                                         *)
LEMMA ReaderSteps == ReaderInv /\ [ReaderNext]_readerVars => ReaderInv'
<1> SUFFICES ASSUME ReaderInv, [ReaderNext]_readerVars PROVE ReaderInv'
  OBVIOUS
<1>1. CASE UNCHANGED readerVars
  BY <1>1 DEF readerVars, ReaderInv, Together, SamePlace, Finished, SameError
<1>2. ASSUME NEW t \in Tokens, Read(t) PROVE ReaderInv'
  <2>1. Together(rec, itr) /\ ~(Finished(rec) /\ Finished(itr))
    BY <1>2 DEF ReaderInv, Read
  <2>2. ~Finished(rec) /\ ~Finished(itr) /\ Together(RecStep(rec, t), ItrStep(itr, t))
    BY <2>1, ReadTogether
  <2>3. rec' = RecStep(rec, t) /\ itr' = ItrStep(itr, t)
    BY <1>2, <2>2 DEF Read
  <2>4. ReaderInv' <=> Together(rec', itr')
    BY DEF ReaderInv, Together, SamePlace, Finished, SameError
  <2> QED  BY <2>2, <2>3, <2>4
<1> QED  BY <1>1, <1>2 DEF ReaderNext

(* Parse and IterativeParse tell the handler the same, refuse the same      *)
(* texts at the same token and name the same error but for one, for texts   *)
(* of any length and depth and whatever the handler answers.                *)
THEOREM ParsersStayTogether == ReaderSpec => []ParsersAgree
<1>1. ReaderInv => ParsersAgree
  BY DEF ReaderInv, Together, ParsersAgree, SamePlace, Finished, SameError
<1>2. ReaderInit => ReaderInv
  BY ReaderStarts
<1>3. ReaderInv /\ [ReaderNext]_readerVars => ReaderInv'
  BY ReaderSteps
<1> QED  BY <1>1, <1>2, <1>3, PTL DEF ReaderSpec

=============================================================================

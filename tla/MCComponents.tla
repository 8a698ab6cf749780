---------------------------- MODULE MCComponents ----------------------------
(* Components of hvbench that share no state, model-checked one at a time:  *)
(* `part` says which one runs, the others stay where they started.          *)
EXTENDS OFNode, Reports, Generators, EtcdClient, JsonHandlers, JsonString, JsonValue,
        KafkaRequests, KafkaResponses

MCKinds == <<"constant", "tenant">>

MCOrdered == <<"1", "2">>

(* Nothing; a directory with a key that expires; a value where the client   *)
(* looks for a directory.                                                   *)
MCStores ==
  {[p \in Paths |-> CASE p = Dir -> s.dir [] p = Key -> s.key [] OTHER -> Absent] :
     s \in {[dir |-> Absent, key |-> Absent],
           [dir |-> Entry("dir", NoValue, FALSE, 1), key |-> Entry("value", "a", TRUE, 2)],
           [dir |-> Entry("value", "a", FALSE, 1), key |-> Absent]}}

MCTopics == {<<97>>, <<98, 99>>}
Plain(offset, data) == Msg(offset, 0, <<>>, <<data>>, <<>>)
KeyOnly == Msg(3, 0, <<<<2, 2>>>>, <<>>, <<>>)
Pair == <<Plain(1, <<1>>), Plain(2, <<2>>)>>
PackedSet(set, compression) == [CompressMessageSet(set, compression)[1] EXCEPT !.nested = set]
Corrupt == Msg(5, GZIP, <<>>, <<<<9>>>>, <<>>)

(* What other clients of Kafka send: a snappy stream of two chunks.         *)
Chunked ==
  LET bytes == WriteMessageSet(Pair)
  IN  Msg(4, Snappy, <<>>,
          <<SnappyStreamMagic \o IntBytes(4, 1) \o IntBytes(4, 1)
            \o WriteBytes(<<Packed(Snappy, SubSeq(bytes, 1, 10))>>)
            \o WriteBytes(<<Packed(Snappy, SubSeq(bytes, 11, Len(bytes)))>>)>>, Pair)

MCMessages == {Plain(3, <<1>>), KeyOnly, PackedSet(<<Plain(1, <<1>>)>>, GZIP), PackedSet(<<Plain(1, <<1>>)>>, Snappy)}
MCSets == {<<>>, <<Corrupt, PackedSet(Pair, GZIP), KeyOnly>>, <<Plain(1, <<7>>), Chunked>>, <<Corrupt>>}

VARIABLE part

PartVars ==
  <<part, nodeVars, reportVars, genVars, clientVars, readerVars, stringVars, valueVars,
    requestVars, responseVars>>

(* A part that does not run starts in one state, in which what it must      *)
(* eventually do is done.                                                   *)
NodeOff == ~reachable
ClientOff == ~Present(Dir)
ReaderOff == ~stopWhenDone /\ refusal = 0
GenOff == gen = CHOOSE f \in [Gens -> UNION {Constructed(k) : k \in ToSet(GeneratorKinds)}] :
                  \A g \in Gens : f[g] \in Constructed(GeneratorKinds[g])

RequestOff == request.kind = "metadata"
ResponseOff == response.kind = "offset commit"

Init ==
  /\ part \in {"node", "reports", "generators", "etcd client",
              "json reader", "json string", "json value",
              "kafka requests", "kafka responses"}
  /\ NodeInit /\ (part = "node" \/ NodeOff)
  /\ ReportsInit
  /\ GenInit /\ (part = "generators" \/ GenOff)
  /\ ClientInit /\ (part = "etcd client" \/ ClientOff)
  /\ ReaderInit /\ (part = "json reader" \/ ReaderOff)
  /\ StringInit
  /\ ValueInit
  /\ RequestInit /\ (part = "kafka requests" \/ RequestOff)
  /\ ResponseInit /\ (part = "kafka responses" \/ ResponseOff)

Runs(p) == part = p /\ UNCHANGED part

NodePart(A) ==
  /\ Runs("node") /\ A
  /\ UNCHANGED <<reportVars, genVars, clientVars, readerVars, stringVars, valueVars, requestVars, responseVars>>
ReportsPart(A) ==
  /\ Runs("reports") /\ A
  /\ UNCHANGED <<nodeVars, genVars, clientVars, readerVars, stringVars, valueVars, requestVars, responseVars>>
GeneratorsPart(A) ==
  /\ Runs("generators") /\ A
  /\ UNCHANGED <<nodeVars, reportVars, clientVars, readerVars, stringVars, valueVars, requestVars, responseVars>>
ClientPart(A) ==
  /\ Runs("etcd client") /\ A
  /\ UNCHANGED <<nodeVars, reportVars, genVars, readerVars, stringVars, valueVars, requestVars, responseVars>>
ReaderPart(A) ==
  /\ Runs("json reader") /\ A
  /\ UNCHANGED <<nodeVars, reportVars, genVars, clientVars, stringVars, valueVars, requestVars, responseVars>>
StringPart(A) ==
  /\ Runs("json string") /\ A
  /\ UNCHANGED <<nodeVars, reportVars, genVars, clientVars, readerVars, valueVars, requestVars, responseVars>>
ValuePart(A) ==
  /\ Runs("json value") /\ A
  /\ UNCHANGED <<nodeVars, reportVars, genVars, clientVars, readerVars, stringVars, requestVars, responseVars>>
RequestPart(A) ==
  /\ Runs("kafka requests") /\ A
  /\ UNCHANGED <<nodeVars, reportVars, genVars, clientVars, readerVars, stringVars, valueVars, responseVars>>
ResponsePart(A) ==
  /\ Runs("kafka responses") /\ A
  /\ UNCHANGED <<nodeVars, reportVars, genVars, clientVars, readerVars, stringVars, valueVars, requestVars>>

Next == NodePart(NodeNext) \/ ReportsPart(ReportsNext) \/ GeneratorsPart(GenNext)
        \/ ClientPart(ClientNext)
        \/ ReaderPart(ReaderNext) \/ StringPart(StringNext) \/ ValuePart(ValueNext)
        \/ RequestPart(RequestNext) \/ ResponsePart(ResponseNext)

(* The parts exclude each other, so that fairness of a disjunction of their *)
(* threads is fairness of each: the connecting thread of a node, its event  *)
(* loop, the rest of it, and the thread of the global configuration.        *)
Fair ==
  /\ WF_PartVars(NodePart(Connector) \/ ReportsPart(GlobalThread))
  /\ WF_PartVars(NodePart(EventLoop)) /\ WF_PartVars(NodePart(StopRest))

Spec == Init /\ [][Next]_PartVars /\ Fair
=============================================================================

---------------------------- MODULE KafkaRequests ----------------------------
(* The requests of libkafka_asio: how the caller puts one together, how long*)
(* it says it is, and the bytes it is.                                      *)
EXTENDS KafkaWire

CONSTANTS
  KafkaTopics,   \* names of topics, sequences of bytes
  KafkaMessages, \* messages a caller adds
  MaxRequestOps  \* bound: calls on a request

Partitions == {0, 1}
RequestKinds == {"produce", "fetch", "offset", "metadata",
                 "offset commit", "offset fetch", "consumer metadata"}

VARIABLES request, requestOps

requestVars == <<request, requestOps>>

ApiKey(kind) ==
  CASE kind = "produce" -> 0 [] kind = "fetch" -> 1 [] kind = "offset" -> 2 [] kind = "metadata" -> 3
    [] kind = "offset commit" -> 8 [] kind = "offset fetch" -> 9 [] kind = "consumer metadata" -> 10

ClientId == <<104, 118>>
NewRequest(kind) == [kind |-> kind, group |-> <<>>, topics |-> <<>>]

-----------------------------------------------------------------------------
(* Topics of a request are in the order in which they were first named, and *)
(* so are the partitions of a topic.                                        *)
Topic(name, partitions) == [name |-> name, partitions |-> partitions]

(* FindTopicByName and FindTopicPartitionByNumber, which create what they do*)
(* not find; PutBlock is where the caller then changes it.                  *)
Matching(blocks, key, new) == SelectInSeq(blocks, LAMBDA b : b[key] = new[key])

FindOrCreate(blocks, key, new) ==
  IF Matching(blocks, key, new) = 0 THEN new ELSE blocks[Matching(blocks, key, new)]

PutBlock(blocks, key, block) ==
  IF Matching(blocks, key, block) = 0 THEN Append(blocks, block)
  ELSE [blocks EXCEPT ![Matching(blocks, key, block)] = block]

FindTopic(name) == FindOrCreate(request.topics, "name", Topic(name, <<>>))

PutPartition(name, p) ==
  LET t == FindTopic(name)
  IN  /\ requestOps < MaxRequestOps /\ requestOps' = requestOps + 1
      /\ request' = [request EXCEPT !.topics =
                       PutBlock(@, "name", Topic(name, PutBlock(t.partitions, "partition", p)))]

(* A message gets offset 0: AddMessage copies its Message part only.        *)
AddMessage(name, n, m) ==
  LET p == FindOrCreate(FindTopic(name).partitions, "partition", [partition |-> n, messages |-> <<>>])
  IN  /\ request.kind = "produce"
      /\ PutPartition(name, [p EXCEPT !.messages = Append(@, [m EXCEPT !.offset = 0])])

FetchTopic(name, n, offset, maxBytes) ==
  LET p == [partition |-> n, fields |-> <<n, offset, maxBytes>>]
  IN  request.kind = "fetch" /\ PutPartition(name, p)

FetchTopicOffset(name, n, time, maxOffsets) ==
  LET p == [partition |-> n, fields |-> <<n, time, maxOffsets>>]
  IN  request.kind = "offset" /\ PutPartition(name, p)

CommitOffset(name, n, offset, timestamp, metadata) ==
  LET p == [partition |-> n, fields |-> <<n, offset, timestamp, metadata>>]
  IN  request.kind = "offset commit" /\ PutPartition(name, p)

FetchOffset(name, n) ==
  LET p == [partition |-> n, fields |-> <<n>>]
  IN  request.kind = "offset fetch" /\ PutPartition(name, p)

Change(topics, group) ==
  /\ requestOps < MaxRequestOps /\ requestOps' = requestOps + 1
  /\ request' = [request EXCEPT !.topics = topics, !.group = group]

AddTopicName(name) ==
  request.kind = "metadata" /\ Change(Append(request.topics, Topic(name, <<>>)), request.group)

SetGroup(name) ==
  /\ request.kind \in {"offset commit", "offset fetch", "consumer metadata"}
  /\ Change(request.topics, name)

Clear ==
  /\ request.kind \in {"produce", "fetch", "offset", "metadata", "offset commit"}
  /\ Change(<<>>, request.group)

ClearTopic(name) ==
  /\ request.kind = "produce"
  /\ Change(SelectSeq(request.topics, LAMBDA t : t.name # name), request.group)

ClearTopicPartition(name, n) ==
  /\ request.kind = "produce"
  /\ Change([i \in DOMAIN request.topics |->
               LET t == request.topics[i]
               IN  IF t.name # name THEN t
                   ELSE Topic(name, SelectSeq(t.partitions, LAMBDA p : p.partition # n))], request.group)

RequestInit == request \in {NewRequest(kind) : kind \in RequestKinds} /\ requestOps = 0

RequestNext ==
  \/ Clear
  \/ \E name \in KafkaTopics :
       \/ AddTopicName(name) \/ SetGroup(name) \/ ClearTopic(name)
       \/ \E n \in Partitions :
            \/ \E m \in KafkaMessages : AddMessage(name, n, m)
            \/ \E k \in {0, 300} : FetchTopic(name, n, k, 32768) \/ FetchTopicOffset(name, n, -1 - k, 1)
            \/ CommitOffset(name, n, 300, -1, <<>>) \/ CommitOffset(name, n, 5, 7, <<109>>)
            \/ FetchOffset(name, n) \/ ClearTopicPartition(name, n)

-----------------------------------------------------------------------------
(* RequestMessageWireSize of each kind.                                     *)
ProduceSize(r) ==
  2 + 4 + 4 + Total(r.topics, LAMBDA t : StringWireSize(t.name) + 4
    + Total(t.partitions, LAMBDA p : 4 + 4 + MessageSetWireSize(p.messages)))
FetchSize(r) ==
  4 + 4 + 4 + 4 + Total(r.topics, LAMBDA t : StringWireSize(t.name) + 4 + (Len(t.partitions) * (4 + 8 + 4)))
OffsetSize(r) ==
  4 + 4 + Total(r.topics, LAMBDA t : StringWireSize(t.name) + 4 + (Len(t.partitions) * (4 + 8 + 4)))
MetadataSize(r) == 4 + Total(r.topics, LAMBDA t : StringWireSize(t.name))
ConsumerMetadataSize(r) == StringWireSize(r.group)
(* Variant: the names of the topics are forgotten.                          *)
OffsetFetchSize_NoNames(r) ==
  StringWireSize(r.group) + 4 + Total(r.topics, LAMBDA t : 4 + (Len(t.partitions) * 4))

OffsetFetchSize(r) ==
  StringWireSize(r.group) + 4
  + Total(r.topics, LAMBDA t : StringWireSize(t.name) + 4 + (Len(t.partitions) * 4))

(* The names of the topics are not counted.                                 *)
OffsetCommitSize(r) ==
  StringWireSize(r.group) + 4
  + Total(r.topics, LAMBDA t : 4 + Total(t.partitions, LAMBDA p : 4 + 8 + 8 + StringWireSize(p.fields[4])))

MessageSize(r) ==
  CASE r.kind = "produce" -> ProduceSize(r) [] r.kind = "fetch" -> FetchSize(r)
    [] r.kind = "offset" -> OffsetSize(r) [] r.kind = "metadata" -> MetadataSize(r)
    [] r.kind = "offset commit" -> OffsetCommitSize(r) [] r.kind = "offset fetch" -> OffsetFetchSize(r)
    [] r.kind = "consumer metadata" -> ConsumerMetadataSize(r)

RequestWireSize(r) == 2 + 2 + 4 + StringWireSize(ClientId) + MessageSize(r)

(* WriteRequestMessage of each kind.                                        *)
WriteTopics(r, types) ==
  WriteArray(r.topics, LAMBDA t :
    WriteText(t.name) \o WriteArray(t.partitions, LAMBDA p : WriteFields(types, p.fields)))

WriteProduce(r) ==
  WriteFields(<<"Int16", "Int32">>, <<1, 10000>>)
  \o WriteArray(r.topics, LAMBDA t :
       WriteText(t.name) \o WriteArray(t.partitions, LAMBDA p :
         WriteFields(<<"Int32", "Int32">>, <<p.partition, MessageSetWireSize(p.messages)>>)
         \o WriteMessageSet(p.messages)))
FetchTypes == <<"Int32", "Int64", "Int32">>
WriteFetch(r) ==
  WriteFields(<<"Int32", "Int32", "Int32">>, <<-1, 0, 0>>) \o WriteTopics(r, FetchTypes)
WriteOffset(r) == IntBytes(4, -1) \o WriteTopics(r, FetchTypes)
WriteMetadata(r) == WriteArray(r.topics, LAMBDA t : WriteText(t.name))
CommitTypes == <<"Int32", "Int64", "Int64", "String">>
WriteOffsetCommit(r) == WriteText(r.group) \o WriteTopics(r, CommitTypes)
WriteOffsetFetch(r) == WriteText(r.group) \o WriteTopics(r, <<"Int32">>)
WriteConsumerMetadata(r) == WriteText(r.group)

WriteMessageOf(r) ==
  CASE r.kind = "produce" -> WriteProduce(r) [] r.kind = "fetch" -> WriteFetch(r)
    [] r.kind = "offset" -> WriteOffset(r) [] r.kind = "metadata" -> WriteMetadata(r)
    [] r.kind = "offset commit" -> WriteOffsetCommit(r) [] r.kind = "offset fetch" -> WriteOffsetFetch(r)
    [] r.kind = "consumer metadata" -> WriteConsumerMetadata(r)

WriteRequest(r) ==
  WriteFields(<<"Int32", "Int16", "Int16", "Int32", "String">>,
              <<RequestWireSize(r), ApiKey(r.kind), 0, 0, ClientId>>)
  \o WriteMessageOf(r)

-----------------------------------------------------------------------------
(* A broker that reads the request after its header.                        *)
BrokerTopic(st, Item(_)) ==
  After(ReadText(st), LAMBDA name, behind :
    After(ReadArray(behind, Item), LAMBDA partitions, rest : Got(<<name, partitions>>, rest)))

BrokerTopics(st, types) ==
  ReadArray(st, LAMBDA t : BrokerTopic(t, LAMBDA p : ReadFields(types, p)))

BrokerPartition(st) ==
  After(ReadFields(<<"Int32", "Int32">>, st), LAMBDA header, sized :
    After(ReadMessageSet(sized, header[2], <<>>), LAMBDA set, rest : Got(<<header[1], set>>, rest)))

BrokerReadsTopics(kind, st) ==
  CASE kind = "produce" -> After(ReadFields(<<"Int16", "Int32">>, st), LAMBDA head, rest :
                             ReadArray(rest, LAMBDA t : BrokerTopic(t, BrokerPartition)))
    [] kind = "fetch" -> After(ReadFields(<<"Int32", "Int32", "Int32">>, st), LAMBDA head, rest :
                           BrokerTopics(rest, FetchTypes))
    [] kind = "offset" -> After(ReadInt(st, 4), LAMBDA replica, rest : BrokerTopics(rest, FetchTypes))
    [] kind = "metadata" -> ReadArray(st, LAMBDA t : After(ReadText(t), LAMBDA name, rest : Got(<<name, <<>>>>, rest)))
    [] kind = "offset commit" -> BrokerTopics(st, CommitTypes)
    [] kind = "offset fetch" -> BrokerTopics(st, <<"Int32">>)
    [] kind = "consumer metadata" -> Got(<<>>, st)

Grouped(group, r) == Got([group |-> group, topics |-> r.value], r.st)
BrokerReads(kind, st) ==
  IF kind \in {"produce", "fetch", "offset", "metadata"} THEN Grouped(<<>>, BrokerReadsTopics(kind, st))
  ELSE After(ReadText(st), LAMBDA group, rest : Grouped(group, BrokerReadsTopics(kind, rest)))

Asked(r) ==
  [group |-> r.group,
   topics |-> [i \in DOMAIN r.topics |->
     <<r.topics[i].name,
       [j \in DOMAIN r.topics[i].partitions |->
          LET p == r.topics[i].partitions[j]
          IN  IF r.kind = "produce" THEN <<p.partition, p.messages>> ELSE p.fields]>>]]

Uncounted ==
  IF request.kind = "offset commit" THEN Total(request.topics, LAMBDA t : StringWireSize(t.name)) ELSE 0

Understood(read, rest) == read = Asked(request) /\ Left(rest) = 0 /\ ~rest.failed

(* A request is as long as it says, so that the next one begins where this  *)
(* one ends, and the broker reads in it what the caller put there, with no  *)
(* topic and no partition of a topic named twice.  The requests that commit *)
(* offsets say less than they are, by the names of their topics             *)
(* (RequestWireSize, WriteRequest, FindTopicByName).                        *)
RequestsUnderstood ==
  requestOps > 0 =>
    /\ After(ReadInt(Stream(WriteRequest(request)), 4), LAMBDA said, rest :
         /\ said + Uncounted = Left(rest)
         /\ After(ReadFields(<<"Int16", "Int16", "Int32", "String">>, rest), LAMBDA header, message :
              After(BrokerReads(request.kind, message), Understood)))
    /\ request.kind # "metadata" =>
         \A i, j \in DOMAIN request.topics : i # j => request.topics[i].name # request.topics[j].name
    /\ \A i \in DOMAIN request.topics :
         LET parts == request.topics[i].partitions
         IN  \A j, k \in DOMAIN parts : j # k => parts[j].partition # parts[k].partition
=============================================================================

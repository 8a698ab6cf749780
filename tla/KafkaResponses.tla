---------------------------- MODULE KafkaResponses ----------------------------
(* A response of libkafka_asio: the bytes a broker sends, what is read from *)
(* them, and how a caller walks through the messages of a fetch.            *)
EXTENDS KafkaWire, TLC

CONSTANTS
  FetchedSets,   \* sets of messages that a partition holds
  KafkaCuts,     \* of how many of its last bytes a broker leaves such a set short
  MaxSent        \* bound: partitions in a response, one more behind an empty one

TopicNames == {<<97>>, <<98, 99>>}
ResponseKinds == {"produce", "fetch", "offset", "metadata",
                  "offset commit", "offset fetch", "consumer metadata"}

VARIABLES
  response, \* what the broker puts into the response
  received, \* what is read from it, as <<result>>, or <<>>
  cursor,   \* the iterator over the messages, [place |-> 0] when it is at the end
  visited   \* the messages the caller has been given

responseVars == <<response, received, cursor, visited>>

-----------------------------------------------------------------------------
(* ReadResponseMessage of each kind: the fields of a partition, where its   *)
(* number is, and where the error code that ends the reading is.            *)
KafkaError(code) ==
  CASE code = 3 -> "unknown topic or partition" [] code = 6 -> "not leader for partition" [] OTHER -> "other"
Checked(code, st) == IF code = 0 THEN st ELSE [st EXCEPT !.ec = KafkaError(code)]

Partition(key, fields, messages) == [key |-> key, fields |-> fields, messages |-> messages]

ProduceTypes == <<"Int32", "Int16", "Int64">>
ReadProduced(st) ==
  After(ReadFields(ProduceTypes, st), LAMBDA p, rest : Got(Partition(p[1], p, <<>>), Checked(p[2], rest)))

ReadSet(p, st) ==
  After(ReadInt(st, 4), LAMBDA size, sized :
    After(ReadMessageSet(sized, size, <<>>), LAMBDA set, rest : Got(Partition(p[1], p, set), rest)))

ReadFetched(st) ==
  After(ReadFields(ProduceTypes, st), LAMBDA p, rest :
    IF p[2] # 0 THEN Got(Partition(p[1], p, <<>>), Checked(p[2], rest)) ELSE ReadSet(p, rest))

ReadOffsets(st) ==
  After(ReadFields(<<"Int32", "Int16">>, st), LAMBDA p, rest :
    IF p[2] # 0 THEN Got(Partition(p[1], p, <<>>), Checked(p[2], rest))
    ELSE After(ReadField("Int64s", rest), LAMBDA offsets, behind :
           Got(Partition(p[1], Append(p, offsets), <<>>), behind)))

(* The errors of these are left to the caller.                              *)
MetadataTypes == <<"Int16", "Int32", "Int32", "Int32s", "Int32s">>
ReadPartitionMetadata(st) ==
  After(ReadFields(MetadataTypes, st), LAMBDA p, rest : Got(Partition(p[2], p, <<>>), rest))

ReadCommitted(st) ==
  After(ReadFields(<<"Int32", "Int16">>, st), LAMBDA p, rest : Got(Partition(p[1], p, <<>>), rest))

OffsetFetchTypes == <<"Int32", "Int64", "String", "Int16">>
ReadOffsetFetched(st) ==
  After(ReadFields(OffsetFetchTypes, st), LAMBDA p, rest : Got(Partition(p[1], p, <<>>), rest))

ReadPartition(kind, st) ==
  CASE kind = "produce" -> ReadProduced(st) [] kind = "fetch" -> ReadFetched(st)
    [] kind = "offset" -> ReadOffsets(st) [] kind = "metadata" -> ReadPartitionMetadata(st)
    [] kind = "offset commit" -> ReadCommitted(st) [] kind = "offset fetch" -> ReadOffsetFetched(st)

(* std::map: of two entries with one key the first is kept, and the order   *)
(* is that of the keys.                                                     *)
MapOf(entries, key) ==
  FoldLeft(LAMBDA map, e : map @@ (e[key] :> e), [k \in {} |-> k], entries)

ReadTopic(kind, st) ==
  After(ReadFields(IF kind = "metadata" THEN <<"Int16", "String">> ELSE <<"String">>, st), LAMBDA head, behind :
    After(ReadArray(behind, LAMBDA p : ReadPartition(kind, p)), LAMBDA partitions, rest :
      Got([name |-> Last(head), head |-> head, partitions |-> MapOf(partitions, "key")], rest)))

BrokerTypes == <<"Int32", "String", "Int32">>
CoordinatorTypes == <<"Int16", "Int32", "String", "Int32">>
ReadBrokers(st) == ReadArray(st, LAMBDA b : ReadFields(BrokerTypes, b))
ReadCoordinator(st) ==
  After(ReadFields(CoordinatorTypes, st), LAMBDA fields, rest : Got(fields, Checked(fields[1], rest)))
ReadHead(kind, st) ==
  CASE kind = "metadata" -> ReadBrokers(st) [] kind = "consumer metadata" -> ReadCoordinator(st)
    [] OTHER -> Got(<<>>, st)

ReadTopics(kind, st) ==
  IF kind = "consumer metadata" THEN Got(<<>>, st) ELSE ReadArray(st, LAMBDA t : ReadTopic(kind, t))

ReadResponse(kind, st) ==
  After(ReadInt(st, 4), LAMBDA correlation, headed :
    After(ReadHead(kind, headed), LAMBDA head, behind :
      After(ReadTopics(kind, behind), LAMBDA topics, rest :
        [ec |-> rest.ec, correlation |-> correlation, head |-> head,
         topics |-> MapOf(topics, "name"), left |-> Left(rest)])))

(* FindTopicPartition, TopicPartitionOffset; PartitionLeader.               *)
FindPartition(r, name, n) ==
  IF name \in DOMAIN r.topics /\ n \in DOMAIN r.topics[name].partitions
  THEN <<r.topics[name].partitions[n]>> ELSE <<>>

LeaderUndecided == -1
PartitionLeader(r, name, n) ==
  LET p == FindPartition(r, name, n)
  IN  IF p = <<>> \/ p[1].fields[3] = LeaderUndecided THEN <<>>
      ELSE LET i == SelectInSeq(r.head, LAMBDA b : b[1] = p[1].fields[3])
           IN  IF i = 0 THEN <<>> ELSE <<r.head[i]>>

-----------------------------------------------------------------------------
(* RecursiveMessageSetIterator: at a message of a set and, if that message  *)
(* has a nested set, with an iterator inside it.                            *)
SetEnd == [set |-> <<>>, at |-> 0, inner |-> <<>>]

RECURSIVE SetBegin(_)
SetBegin(set) ==
  IF set = <<>> THEN SetEnd
  ELSE [set |-> set, at |-> 1,
        inner |-> IF set[1].nested = <<>> THEN <<>> ELSE <<SetBegin(set[1].nested)>>]

IsInnerDone(it) == it.inner = <<>> \/ it.inner[1].at = 0

(* Variant: the next message's nested set gets no iterator.                 *)
Outwards_NoInner(it) ==
  IF it.at = Len(it.set) THEN SetEnd ELSE [it EXCEPT !.at = @ + 1]

Outwards(it) ==
  LET nested == it.set[it.at + 1].nested
  IN  IF it.at = Len(it.set) THEN SetEnd
      ELSE [it EXCEPT !.at = @ + 1, !.inner = IF nested = <<>> THEN @ ELSE <<SetBegin(nested)>>]

RECURSIVE Increment(_)
Increment(it) ==
  LET inwards == IF IsInnerDone(it) THEN it ELSE [it EXCEPT !.inner = <<Increment(@[1])>>]
  IN  IF it.at = 0 THEN it ELSE IF IsInnerDone(inwards) THEN Outwards(inwards) ELSE inwards

RECURSIVE Dereference(_)
Dereference(it) == IF IsInnerDone(it) THEN it.set[it.at] ELSE Dereference(it.inner[1])

(* FetchResponseIterator: at a partition, in the order of the topics' names *)
(* and the partitions' numbers, and at one of its messages.                 *)
LexBefore(s, t) ==
  \/ IsStrictPrefix(s, t)
  \/ \E i \in 1..Len(s) : i <= Len(t) /\ SubSeq(s, 1, i - 1) = SubSeq(t, 1, i - 1) /\ s[i] < t[i]

Places(topics) ==
  FlattenSeq([i \in 1..Cardinality(DOMAIN topics) |->
    LET partitions == topics[SetToSortSeq(DOMAIN topics, LexBefore)[i]].partitions
        keys == SetToSortSeq(DOMAIN partitions, LAMBDA m, n : m < n)
    IN  [j \in DOMAIN keys |-> partitions[keys[j]].messages]])

(* From a place on, passing over partitions without messages.               *)
AtOrAfter(places, from) ==
  LET some == {i \in from..Len(places) : places[i] # <<>>}
      next == CHOOSE i \in some : \A j \in some : i <= j
  IN  IF some = {} THEN [place |-> 0, message |-> SetEnd]
      ELSE [place |-> next, message |-> SetBegin(places[next])]

-----------------------------------------------------------------------------
(* The broker.  A set of messages may lack its last bytes, its size tells   *)
(* so.  What follows a message that is cut into is not followed up.         *)
PossibleParts(kind) ==
  CASE kind = "produce" -> {Partition(n, <<n, e, 300>>, <<>>) : n \in {0, 1}, e \in {0, 6}}
    [] kind = "fetch" ->
         {Partition(n, <<n, 0, 300>>, set) : n \in {0, 1}, set \in FetchedSets}
         \union {Partition(n, <<n, 3, 0>>, <<>>) : n \in {0, 1}}
    [] kind = "offset" ->
         {Partition(n, <<n, 0, offsets>>, <<>>) : n \in {0, 1}, offsets \in {<<>>, <<5>>, <<300, 5>>}}
         \union {Partition(n, <<n, 3, <<>>>>, <<>>) : n \in {0, 1}}
    [] kind = "metadata" ->
         {Partition(n, <<e, n, l, <<2, 7>>, <<7>>>>, <<>>) : n \in {0, 1}, e \in {0, 6}, l \in {-1, 2, 7}}
    [] kind = "offset commit" -> {Partition(n, <<n, e>>, <<>>) : n \in {0, 1}, e \in {0, 6}}
    [] kind = "offset fetch" ->
         {Partition(n, <<n, o, metadata, e>>, <<>>) :
            n \in {0, 1}, o \in {-1, 300}, metadata \in {<<>>, <<109>>}, e \in {0, 3}}
    [] kind = "consumer metadata" -> {}

Cut(p, k) == [key |-> p.key, fields |-> p.fields, messages |-> p.messages, cut |-> k]

(* A cut leaves a header of 12 bytes and more than 12 bytes fewer than the  *)
(* message behind it.                                                       *)
Clean(p) == p.cut > 12 /\ p.cut <= MessageWireSize(Last(p.messages))

SentParts == FlattenSeq([i \in DOMAIN response.topics |-> response.topics[i].partitions])
BrokerAdds(name, p, k) ==
  LET topics == response.topics
      Added == Cut(p, k)
      Parts == Len(SentParts)
  IN  /\ received = <<>>
      /\ Parts < MaxSent \/ (response.kind = "fetch" /\ Parts = MaxSent /\ SentParts[Parts].messages = <<>>)
      /\ \A i \in DOMAIN SentParts : SentParts[i].cut = 0 \/ Clean(SentParts[i])
      /\ k > 0 => response.kind = "fetch" /\ p.messages # <<>> /\ k < MessageWireSize(Last(p.messages)) + 12
      /\ IF topics # <<>> /\ Last(topics).name = name
         THEN /\ \A i \in DOMAIN Last(topics).partitions : Last(topics).partitions[i].key # p.key
              /\ response' = [response EXCEPT !.topics[Len(topics)].partitions = Append(@, Added)]
         ELSE /\ \A i \in DOMAIN topics : topics[i].name # name
              /\ response' = [response EXCEPT !.topics =
                   Append(@, [name |-> name, error |-> 0, partitions |-> <<Added>>])]
      /\ UNCHANGED <<received, cursor, visited>>

BrokerWritesPartition(kind, p) ==
  LET bytes == WriteMessageSet(p.messages)
      kept == SubSeq(bytes, 1, Len(bytes) - p.cut)
  IN  CASE kind = "produce" -> WriteFields(ProduceTypes, p.fields)
        [] kind = "fetch" -> WriteFields(ProduceTypes, p.fields) \o WriteBytes(<<kept>>)
        [] kind = "offset" -> WriteFields(<<"Int32", "Int16", "Int64s">>, p.fields)
        [] kind = "metadata" -> WriteFields(MetadataTypes, p.fields)
        [] kind = "offset commit" -> WriteFields(<<"Int32", "Int16">>, p.fields)
        [] kind = "offset fetch" -> WriteFields(OffsetFetchTypes, p.fields)

BrokerWrites(r) ==
  IntBytes(4, 9)
  \o (CASE r.kind = "metadata" -> WriteArray(r.head, LAMBDA b : WriteFields(BrokerTypes, b))
        [] r.kind = "consumer metadata" -> WriteFields(CoordinatorTypes, r.head)
        [] OTHER -> <<>>)
  \o (IF r.kind = "consumer metadata" THEN <<>>
      ELSE WriteArray(r.topics, LAMBDA t :
             (IF r.kind = "metadata" THEN IntBytes(2, t.error) ELSE <<>>)
             \o WriteText(t.name)
             \o WriteArray(t.partitions, LAMBDA p : BrokerWritesPartition(r.kind, p))))

-----------------------------------------------------------------------------
HeadsOf(kind) ==
  CASE kind = "metadata" -> {<<>>, <<<<7, <<104>>, 300>>, <<2, <<>>, 5>>>>}
    [] kind = "consumer metadata" -> {<<0, 7, <<104>>, 300>>, <<6, -1, <<>>, -1>>}
    [] OTHER -> {<<>>}

ResponseInit ==
  /\ response \in UNION {{[kind |-> kind, head |-> head, topics |-> <<>>] : head \in HeadsOf(kind)} :
                          kind \in ResponseKinds}
  /\ received = <<>> /\ cursor = [place |-> 0, message |-> SetEnd] /\ visited = <<>>

(* Of a fetch the caller takes begin().                                     *)
Receive ==
  /\ received = <<>>
  /\ \E result \in {ReadResponse(response.kind, Stream(BrokerWrites(response)))} :
       /\ received' = <<result>>
       /\ cursor' = IF response.kind = "fetch" THEN AtOrAfter(Places(result.topics), 1) ELSE cursor
  /\ UNCHANGED <<response, visited>>

(* Dereferencing the iterator and incrementing it.                          *)
VisitMessage ==
  LET message == Increment(cursor.message)
      places == Places(received[1].topics)
  IN  /\ received # <<>> /\ cursor.place > 0
      /\ visited' = Append(visited, Dereference(cursor.message))
      /\ cursor' = IF message.at > 0 THEN [cursor EXCEPT !.message = message]
                   ELSE AtOrAfter(places, cursor.place + 1)
      /\ UNCHANGED <<response, received>>

ResponseNext ==
  \/ \E name \in TopicNames, p \in PossibleParts(response.kind), k \in KafkaCuts \union {0} : BrokerAdds(name, p, k)
  \/ Receive \/ VisitMessage

-----------------------------------------------------------------------------
Whole(p) == IF p.cut = 0 THEN p.messages ELSE Front(p.messages)
SetError(set) ==
  IF set = <<>> THEN Success ELSE Decompress(Last(set).value, Last(set).attributes % 4).ec
ErrorOf(p) ==
  CASE response.kind \in {"produce", "offset", "fetch"} /\ p.fields[2] # 0 -> KafkaError(p.fields[2])
    [] response.kind = "fetch" /\ p.fields[2] = 0 -> SetError(Whole(p))
    [] OTHER -> Success

(* The partitions before topic i of the response.                           *)
PartsBefore(i) == Total(SubSeq(response.topics, 1, i - 1), LAMBDA t : Len(t.partitions))

PlaceOf(i, p) ==
  PartsBefore(i) + CHOOSE j \in DOMAIN response.topics[i].partitions : response.topics[i].partitions[j] = p

AsSent(r, name, p) == FindPartition(r, name, p.key) = <<Partition(p.key, p.fields, Whole(p))>>

(* Of a response without an error the caller has all that was sent, and the *)
(* leader of each partition that has one; with an error, that of the first  *)
(* bad partition, it has the topics before it.  Of a set of messages that   *)
(* was cut short it has everything before, and, when more than 12 bytes are *)
(* missing and a header is left, the whole messages.  The comment "Ignore   *)
(* partial messages" (ReadMessageSet) is not true of the others:            *)
(* message_size is compared with bytes that still count the 12 of the       *)
(* header, so that a message that lacks no more is given to the caller; and *)
(* the seekg past a partial message fails, so that the messages of the      *)
(* partitions behind it are lost.                                           *)
ResponsesRead ==
  (received # <<>> /\ visited = <<>>) =>
    LET r == received[1]
        stops == {i \in DOMAIN SentParts : SentParts[i].cut > 0 \/ ErrorOf(SentParts[i]) # Success}
        stop == CHOOSE i \in stops : \A j \in stops : i <= j
        IsRead(i) == stops = {} \/ PartsBefore(i + 1) < stop
        Names(wanted(_)) == {response.topics[i].name : i \in {j \in DOMAIN response.topics : wanted(j)}}
    IN  /\ r.correlation = 9 /\ r.head = response.head
        /\ \A i \in DOMAIN response.topics : IsRead(i) =>
             LET t == response.topics[i]
             IN  /\ t.name \in DOMAIN r.topics
                 /\ DOMAIN r.topics[t.name].partitions = {t.partitions[j].key : j \in DOMAIN t.partitions}
                 /\ \A j \in DOMAIN t.partitions : AsSent(r, t.name, t.partitions[j])
                 /\ response.kind = "metadata" => \A j \in DOMAIN t.partitions :
                      LET leader == t.partitions[j].fields[3]
                      IN  ToSet(PartitionLeader(r, t.name, t.partitions[j].key))
                            = {b \in ToSet(response.head) : b[1] = leader}
        /\ stops = {} => /\ DOMAIN r.topics = Names(IsRead) /\ r.left = 0
                         /\ r.ec = IF response.kind = "consumer metadata" /\ response.head[1] # 0
                                   THEN KafkaError(response.head[1]) ELSE Success
        /\ stops # {} /\ SentParts[stop].cut = 0 =>
             r.ec = ErrorOf(SentParts[stop]) /\ DOMAIN r.topics = Names(IsRead)
        /\ stops # {} /\ Clean(SentParts[stop]) =>
             LET i == CHOOSE k \in DOMAIN response.topics : PartsBefore(k) < stop /\ stop <= PartsBefore(k + 1)
             IN  ErrorOf(SentParts[stop]) = Success =>
                   /\ r.ec = Success
                   /\ \A j \in 1..(stop - PartsBefore(i)) : AsSent(r, response.topics[i].name, response.topics[i].partitions[j])
                   /\ \A k \in i..Len(response.topics) : \A p \in ToSet(response.topics[k].partitions) :
                        PlaceOf(k, p) > stop /\ p.messages # <<>> => ~AsSent(r, response.topics[k].name, p)
        /\ stops # {} /\ SentParts[stop].cut \in 1..12 =>
             LET i == CHOOSE k \in DOMAIN response.topics : PartsBefore(k) < stop /\ stop <= PartsBefore(k + 1)
                 found == FindPartition(r, response.topics[i].name, SentParts[stop].key)
             IN  IF found = <<>> THEN r.ec # Success
                 ELSE Len(found[1].messages) = Len(SentParts[stop].messages)

RECURSIVE Leaves(_)
Leaves(set) ==
  FlattenSeq([i \in DOMAIN set |-> IF set[i].nested = <<>> THEN <<set[i]>> ELSE Leaves(set[i].nested)])

(* From begin() to end() the caller is given every message of the response  *)
(* once, those in a compressed one instead of it, however the topics,       *)
(* partitions and sets without messages lie (FetchResponseIterator,         *)
(* RecursiveMessageSetIterator).                                            *)
MessagesVisited ==
  (received # <<>> /\ response.kind = "fetch") =>
    LET all == Leaves(FlattenSeq(Places(received[1].topics)))
    IN  IsPrefix(visited, all) /\ (cursor.place = 0 => visited = all)
=============================================================================

------------------------------ MODULE KafkaWire ------------------------------
(* What libkafka_asio writes to and reads from a stream, byte by byte:      *)
(* numbers, strings, byte arrays, messages and sets of messages, which may  *)
(* be compressed into the value of one message.  A pointer to bytes is <<>> *)
(* or <<data>>.                                                             *)
EXTENDS Integers, Sequences, SequencesExt

-----------------------------------------------------------------------------
(* Writing.  A number is written big-endian; those here fit in two bytes.   *)
IntBytes(width, n) ==
  [i \in 1..width |-> IF i + 1 < width THEN (IF n < 0 THEN 255 ELSE 0)
                      ELSE (n \div 256 ^ (width - i)) % 256]

WriteText(s) == IntBytes(2, Len(s)) \o s
WriteBytes(b) == IF b = <<>> THEN IntBytes(4, -1) ELSE IntBytes(4, Len(b[1])) \o b[1]

WidthOf(type) == CASE type = "Int8" -> 1 [] type = "Int16" -> 2 [] type = "Int32" -> 4 [] type = "Int64" -> 8

WriteField(type, v) ==
  CASE type = "String" -> WriteText(v)
    [] type = "Bytes" -> WriteBytes(v)
    [] type = "Int32s" -> IntBytes(4, Len(v)) \o FlattenSeq([i \in DOMAIN v |-> IntBytes(4, v[i])])
    [] type = "Int64s" -> IntBytes(4, Len(v)) \o FlattenSeq([i \in DOMAIN v |-> IntBytes(8, v[i])])
    [] OTHER -> IntBytes(WidthOf(type), v)

WriteFields(types, values) == FlattenSeq([i \in DOMAIN types |-> WriteField(types[i], values[i])])

(* An array: how many, and then each of them.                               *)
WriteArray(items, W(_)) == IntBytes(4, Len(items)) \o FlattenSeq([i \in DOMAIN items |-> W(items[i])])

StringWireSize(s) == 2 + Len(s)
BytesWireSize(b) == 4 + (IF b = <<>> THEN 0 ELSE Len(b[1]))
Total(items, SizeOf(_)) == FoldLeft(LAMBDA n, item : n + SizeOf(item), 0, items)

-----------------------------------------------------------------------------
(* Messages.  The low bits of the attributes are the compression.           *)
Msg(offset, attributes, key, value, nested) ==
  [offset |-> offset, attributes |-> attributes, key |-> key, value |-> value, nested |-> nested]

MessageWireSize(m) == 4 + 1 + 1 + BytesWireSize(m.key) + BytesWireSize(m.value)
MessageSetWireSize(set) == Total(set, LAMBDA m : 8 + 4 + MessageWireSize(m))

(* crc_32_type: four bytes, which nobody compares.                          *)
Crc(bytes) == IntBytes(4, Len(bytes))

WriteMessage(m) ==
  LET rest == WriteFields(<<"Int8", "Int8", "Bytes", "Bytes">>, <<0, m.attributes, m.key, m.value>>)
  IN  Crc(rest) \o rest

WriteMessageSet(set) ==
  FlattenSeq([i \in DOMAIN set |->
    IntBytes(8, set[i].offset) \o IntBytes(4, MessageWireSize(set[i])) \o WriteMessage(set[i])])

-----------------------------------------------------------------------------
(* Compression.  What zlib and snappy make of data is it behind a mark.     *)
Success == "success"
Uncompressed == 0
GZIP == 1
Snappy == 2
Lz4 == 3

Packed(mark, data) == <<mark>> \o data
SnappyStreamMagic == <<130, 83, 78, 65, 80, 80, 89, 0>>

Outcome(ec, data) == [ec |-> ec, data |-> data]

NoBytes(b) == b = <<>> \/ b = <<<<>>>>
NotAvailable == Outcome("compression not available", <<>>)
CompressionFailed == Outcome("compression failed", <<>>)

GZIPCompress(b) ==
  IF NoBytes(b) THEN CompressionFailed ELSE Outcome(Success, <<Packed(GZIP, b[1])>>)
SnappyCompress(b) ==
  IF NoBytes(b) THEN CompressionFailed ELSE Outcome(Success, <<Packed(Snappy, b[1])>>)

Compress(b, compression) ==
  CASE compression = Uncompressed -> Outcome(Success, <<>>) [] compression = Lz4 -> NotAvailable
    [] compression = GZIP -> GZIPCompress(b) [] compression = Snappy -> SnappyCompress(b)

-----------------------------------------------------------------------------
(* Reading.  A stream is its bytes, how many have been taken, whether a     *)
(* read has failed, after which every read gives zeros, and the error code  *)
(* that the functions hand on.                                              *)
Stream(bytes) == [bytes |-> bytes, at |-> 0, failed |-> FALSE, ec |-> Success]
Left(st) == Len(st.bytes) - st.at
Taken(st, n) == SubSeq(st.bytes, st.at + 1, st.at + n)
Moved(st, n) == IF Left(st) < n THEN [st EXCEPT !.at = Len(st.bytes), !.failed = TRUE] ELSE [st EXCEPT !.at = @ + n]

(* What has been read, the stream after it, and what is then read from it.  *)
Got(value, st) == [value |-> value, st |-> st]
After(r, Then(_, _)) == Then(r.value, r.st)

(* A number that is cut short has zeros for the rest; of the eight bytes of *)
(* an Int64 the last four are kept.                                         *)
Available(st, n) == IF Left(st) < n THEN Left(st) ELSE n
Padded(st, n) == Taken(st, Available(st, n)) \o [i \in 1..(n - Available(st, n)) |-> 0]
Top(byte) == IF byte > 127 THEN byte - 256 ELSE byte
Signed(b) ==
  CASE Len(b) = 1 -> Top(b[1]) [] Len(b) = 2 -> 256 * Top(b[1]) + b[2]
    [] OTHER -> 16777216 * Top(b[1]) + 65536 * b[2] + 256 * b[3] + b[4]

ReadInt(st, width) ==
  IF st.failed THEN Got(0, st)
  ELSE Got(Signed(IF width = 8 THEN SubSeq(Padded(st, 8), 5, 8) ELSE Padded(st, width)), Moved(st, width))

(* What is missing of bytes that are cut short is not kept here.            *)
ReadData(st, length) ==
  IF length <= 0 \/ st.failed THEN Got(<<>>, st)
  ELSE Got(Taken(st, Available(st, length)), Moved(st, length))

ReadText(st) == After(ReadInt(st, 2), LAMBDA length, rest : ReadData(rest, length))

(* Bytes of length 0 are read as none.                                      *)
ReadBytes(st) ==
  After(ReadInt(st, 4), LAMBDA length, data :
    After(ReadData(data, length), LAMBDA bytes, rest : Got(IF length > 0 THEN <<bytes>> ELSE <<>>, rest)))

(* An array.  A function that reports an error ends it, without the item.   *)
AndItem(r, item) ==
  IF r.st.ec # Success THEN r
  ELSE Got(IF item.st.ec = Success THEN Append(r.value, item.value) ELSE r.value, item.st)

ReadArray(st, Item(_)) ==
  After(ReadInt(st, 4), LAMBDA count, rest :
    LET Another(r) == AndItem(r, Item(r.st))
        items[i \in Nat] == IF i = 0 THEN Got(<<>>, rest) ELSE Another(items[i - 1])
    IN  items[CASE count < 0 -> 0 [] count > Left(rest) -> Left(rest) + 1 \* more read nothing new
                [] OTHER -> count])

ReadField(type, st) ==
  CASE type = "String" -> ReadText(st)
    [] type = "Bytes" -> ReadBytes(st)
    [] type = "Int32s" -> ReadArray(st, LAMBDA rest : ReadInt(rest, 4))
    [] type = "Int64s" -> ReadArray(st, LAMBDA rest : ReadInt(rest, 8))
    [] OTHER -> ReadInt(st, WidthOf(type))

AndField(r, type) == After(ReadField(type, r.st), LAMBDA field, rest : Got(Append(r.value, field), rest))
ReadFields(types, st) ==
  LET fields[i \in 0..Len(types)] ==
        IF i = 0 THEN Got(<<>>, st) ELSE AndField(fields[i - 1], types[i])
  IN  fields[Len(types)]

-----------------------------------------------------------------------------
(* What is not behind its mark, or is nothing, cannot be unpacked.          *)
Unpacked(mark, data) ==
  IF data # <<>> /\ data[1] = mark THEN Outcome(Success, <<Tail(data)>>) ELSE CompressionFailed

GZIPDecompress(b) == IF NoBytes(b) THEN CompressionFailed ELSE Unpacked(GZIP, b[1])
DecompressChunk(data) == Unpacked(Snappy, data)

(* A stream of snappy chunks, after its header of 16 bytes.  It ends where  *)
(* a chunk ends, and a header cut short is a stream of none.                *)
RECURSIVE DecompressStream(_, _)
AndChunks(st, chunk, out) ==
  IF chunk.ec # Success THEN Outcome(chunk.ec, <<>>)
  ELSE IF st.failed \/ Left(st) = 0 THEN Outcome(Success, <<out \o chunk.data[1]>>)
       ELSE DecompressStream(st, out \o chunk.data[1])

DecompressStream(st, out) ==
  After(ReadBytes(st), LAMBDA bytes, rest :
    IF bytes = <<>> THEN CompressionFailed ELSE AndChunks(rest, DecompressChunk(bytes[1]), out))

SnappyDecompress(b) ==
  CASE NoBytes(b) -> CompressionFailed
    [] ~NoBytes(b) /\ ~IsPrefix(SnappyStreamMagic, b[1]) -> DecompressChunk(b[1])
    [] ~NoBytes(b) /\ IsPrefix(SnappyStreamMagic, b[1]) ->
         IF Len(b[1]) < 16 THEN Outcome(Success, <<<<>>>>)
         ELSE DecompressStream(Moved(Stream(b[1]), 16), <<>>)

Decompress(b, compression) ==
  CASE compression = Uncompressed -> Outcome(Success, <<>>) [] compression = Lz4 -> NotAvailable
    [] compression = GZIP -> GZIPDecompress(b) [] compression = Snappy -> SnappyDecompress(b)

(* ReadMessageSet, which reads nested sets through ReadMessage.  The stream *)
(* of a response cannot seek (neither boost::asio::streambuf nor            *)
(* BytesStreambuf has seekoff): passing over a partial message fails it.    *)
Fails(st) == [st EXCEPT !.failed = TRUE]

RECURSIVE ReadMessageSet(_, _, _)
AndNested(m, plain, st) ==
  IF plain.ec # Success \/ NoBytes(plain.data) THEN Got(m, [st EXCEPT !.ec = plain.ec])
  ELSE After(ReadMessageSet(Stream(plain.data[1]), Len(plain.data[1]), <<>>), LAMBDA nested, inner :
         Got([m EXCEPT !.nested = nested], [st EXCEPT !.ec = inner.ec]))

ReadMessage(st, offset) ==
  After(ReadFields(<<"Int32", "Int8", "Int8", "Bytes", "Bytes">>, st), LAMBDA m, rest :
    AndNested(Msg(offset, m[3], m[4], m[5], <<>>), Decompress(m[5], m[3] % 4), rest))

(* Variant: a message that ends where the set ends counts as partial.       *)
AndMessages_Last(offset, length, st, size, set) ==
  IF size - (12 + length) <= 0 THEN Got(set, Fails(st))
  ELSE After(ReadMessage(st, offset), LAMBDA m, rest :
         ReadMessageSet(rest, size - (12 + length), Append(set, m)))

AndMessages(offset, length, st, size, set) ==
  IF size < length THEN Got(set, Fails(st))
  ELSE After(ReadMessage(st, offset), LAMBDA m, rest :
         ReadMessageSet(rest, size - (12 + length), Append(set, m)))

ReadMessageSet(st, size, set) ==
  IF size <= 0 THEN Got(set, st)
  ELSE After(ReadFields(<<"Int64", "Int32">>, st), LAMBDA header, rest :
         AndMessages(header[1], header[2], rest, size, set))

(* CompressMessageSet.                                                      *)
CompressMessageSet(set, compression) ==
  LET bytes == WriteMessageSet(set)
      packed == Compress(IF bytes = <<>> THEN <<>> ELSE <<bytes>>, compression)
  IN  IF compression = Uncompressed \/ packed.ec # Success THEN <<>>
      ELSE <<Msg(0, compression, <<>>, packed.data, <<>>)>>
=============================================================================

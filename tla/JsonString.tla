----------------------------- MODULE JsonString -----------------------------
(* Strings of rapidjson, code unit by code unit: the encodings, how a reader*)
(* takes a string with its escapes from one encoding into another, how a    *)
(* writer puts it back, and the byte streams a text may come from.          *)
EXTENDS Integers, Sequences, SequencesExt

CONSTANT
  Points,    \* code points of a string
  MaxPieces  \* bound: pieces a string is made of

(* A piece is a code point as it is, or escaped with a letter, or with four *)
(* hexadecimal digits, twice if need be; half a surrogate pair escaped; or  *)
(* units that are no UTF-8.                                                 *)
EscapeLetter == [p \in {8, 9, 10, 12, 13, 34, 47, 92} |->
  CASE p = 8 -> 98 [] p = 9 -> 116 [] p = 10 -> 110 [] p = 12 -> 102 [] p = 13 -> 114 [] OTHER -> p]

MustEscape(p) == p < 32 \/ p \in {34, 92}

Pieces ==
  {[how |-> "raw", point |-> p] : p \in {q \in Points : ~MustEscape(q)}}
  \union {[how |-> "letter", point |-> p] : p \in Points \cap DOMAIN EscapeLetter}
  \union {[how |-> h, point |-> p] : h \in {"upper", "lower"}, p \in Points}
  \union {[how |-> "half", point |-> p] : p \in {55296, 57343}}
  \union {[how |-> "wrong", point |-> 0]}

-----------------------------------------------------------------------------
(* The encodings.  Reading past the end gives 0.                            *)
Encodings == {"UTF8", "UTF16", "UTF32", "ASCII"}

UnitAt(u, i) == IF i <= Len(u) THEN u[i] ELSE 0

Following == 128..191

(* Variant: any unit that may follow another may be the second of three.    *)
Tails_Loose(c) ==
  CASE c \in 194..223 -> <<Following>>
    [] c \in 224..239 -> <<Following, Following>>
    [] c \in 240..244 -> <<Following, Following, Following>>
    [] OTHER -> <<>>

(* What may follow the first unit of UTF-8 (GetRange and the masks).        *)
Tails(c) ==
  CASE c \in 194..223 -> <<Following>>
    [] c = 224 -> <<160..191, Following>>
    [] c \in (225..239) \ {237} -> <<Following, Following>>
    [] c = 237 -> <<128..159, Following>>
    [] c = 240 -> <<144..191, Following, Following>>
    [] c \in 241..243 -> <<Following, Following, Following>>
    [] c = 244 -> <<128..143, Following, Following>>
    [] OTHER -> <<>>

Six(p, shift) == 128 + ((p \div shift) % 64)

Encode(enc, p) ==
  CASE enc = "UTF8" ->
         (CASE p <= 127 -> <<p>>
            [] p \in 128..2047 -> <<192 + (p \div 64), Six(p, 1)>>
            [] p \in 2048..65535 -> <<224 + (p \div 4096), Six(p, 64), Six(p, 1)>>
            [] p > 65535 -> <<240 + (p \div 262144), Six(p, 4096), Six(p, 64), Six(p, 1)>>)
    [] enc = "UTF16" ->
         IF p <= 65535 THEN <<p>> ELSE <<55296 + ((p - 65536) \div 1024), 56320 + ((p - 65536) % 1024)>>
    [] enc \in {"UTF32", "ASCII"} -> <<p>>

(* Encode asserts that a code point can be written in the encoding.         *)
Encodable(enc, p) ==
  CASE enc = "UTF16" -> p \notin 55296..57343 [] enc = "ASCII" -> p <= 127 [] OTHER -> TRUE

Decoded(ok, point, next) == [ok |-> ok, point |-> point, next |-> next]

DecodeUTF8(c, follow, tails, i) ==
  IF c <= 127 \/ tails = <<>> THEN Decoded(c <= 127, c, i + 1)
  ELSE Decoded(\A k \in DOMAIN tails : follow[k] \in tails[k],
               FoldLeft(LAMBDA p, b : (p * 64) + (b % 64), c % 2 ^ (6 - Len(tails)), SubSeq(follow, 1, Len(tails))),
               i + 1 + Len(tails))

DecodeUTF16(c, d, i) ==
  IF c \notin 55296..56319 THEN Decoded(c \notin 56320..57343, c, i + 1)
  ELSE Decoded(d \in 56320..57343, ((c % 1024) * 1024) + (d % 1024) + 65536, i + 2)

Decode(enc, u, i) ==
  CASE enc = "UTF8" -> DecodeUTF8(UnitAt(u, i), [k \in 1..3 |-> UnitAt(u, i + k)], Tails(UnitAt(u, i)), i)
    [] enc = "UTF16" -> DecodeUTF16(UnitAt(u, i), UnitAt(u, i + 1), i)
    [] enc = "UTF32" -> Decoded(UnitAt(u, i) <= 1114111, UnitAt(u, i), i + 1)
    [] enc = "ASCII" -> Decoded(UnitAt(u, i) <= 127, UnitAt(u, i), i + 1)

(* What a reader or a writer makes of the next units: those it puts, and    *)
(* where it goes on, or why it does not.                                    *)
Step(units, next) == [error |-> "none", units |-> units, next |-> next]
Stop(error) == [error |-> error, units |-> <<>>, next |-> 0]
PutPoint(to, p, next) == IF Encodable(to, p) THEN Step(Encode(to, p), next) ELSE Stop("assertion")

(* Transcoder: one unit is copied if nothing has to be converted, and       *)
(* looked at only if the text is to be validated.                           *)
Transcoded(from, to, u, i, d) ==
  CASE ~d.ok -> Stop("StringInvalidEncoding")
    [] d.ok /\ from = to -> Step(SubSeq(u, i, d.next - 1), d.next)
    [] d.ok /\ from # to -> PutPoint(to, d.point, d.next)

Transcode(from, to, validate, u, i) ==
  IF from = to /\ ~validate THEN Step(<<UnitAt(u, i)>>, i + 1)
  ELSE Transcoded(from, to, u, i, Decode(from, u, i))

-----------------------------------------------------------------------------
(* Hexadecimal digits, as ParseHex4 reads and WriteString writes them.      *)
HexDigits(p, letters) ==
  LET digit(n) == IF n < 10 THEN 48 + n ELSE letters + n - 10
  IN  [k \in 1..4 |-> digit((p \div 16 ^ (4 - k)) % 16)]

HexValue(c) ==
  CASE c \in 48..57 -> c - 48 [] c \in 65..70 -> c - 55 [] c \in 97..102 -> c - 87 [] OTHER -> -1

ParseHex4(u, i) ==
  LET digits == [k \in 1..4 |-> HexValue(UnitAt(u, i + k - 1))]
  IN  IF -1 \in Range(digits) THEN -1 ELSE FoldLeft(LAMBDA n, d : (16 * n) + d, 0, digits)

High == 55296..56319
Low == 56320..57343
SecondHalf(to, u, i, first, second) ==
  CASE UnitAt(u, i + 6) # 92 \/ UnitAt(u, i + 7) # 117 -> Stop("StringUnicodeSurrogateInvalid")
    [] second = -1 /\ UnitAt(u, i + 6) = 92 /\ UnitAt(u, i + 7) = 117 -> Stop("StringUnicodeEscapeInvalidHex")
    [] OTHER -> IF second \notin Low THEN Stop("StringUnicodeSurrogateInvalid")
                ELSE PutPoint(to, ((first - 55296) * 1024) + (second - 56320) + 65536, i + 12)

ParseUnicode(to, u, i, first) ==
  CASE first = -1 -> Stop("StringUnicodeEscapeInvalidHex")
    [] first \in High -> SecondHalf(to, u, i, first, ParseHex4(u, i + 8))
    [] OTHER -> PutPoint(to, first, i + 6)

ParseEscape(to, u, i, e) ==
  IF e = 117 THEN ParseUnicode(to, u, i, ParseHex4(u, i + 2))
  ELSE IF e \in Range(EscapeLetter)
  THEN PutPoint(to, CHOOSE l \in DOMAIN EscapeLetter : EscapeLetter[l] = e, i + 2)
  ELSE Stop("StringEscapeInvalid")

ParseUnit(from, to, validate, u, i, c) ==
  CASE c = 0 -> Stop("StringMissQuotationMark")
    [] c \in 1..31 -> Stop("StringEscapeInvalid")
    [] c = 92 -> ParseEscape(to, u, i, UnitAt(u, i + 1))
    [] OTHER -> Transcode(from, to, validate, u, i)

Parsed(error, units) == [error |-> error, units |-> units]

(* ParseStringToStream after the opening quotation mark.                    *)
RECURSIVE ParseFrom(_, _, _, _, _, _)
ParseOn(from, to, validate, u, out, step) ==
  IF step.error # "none" THEN Parsed(step.error, <<>>)
  ELSE ParseFrom(from, to, validate, u, step.next, out \o step.units)

ParseFrom(from, to, validate, u, i, out) ==
  IF UnitAt(u, i) = 34 THEN Parsed("none", out)
  ELSE ParseOn(from, to, validate, u, out, ParseUnit(from, to, validate, u, i, UnitAt(u, i)))

ParseString(from, to, validate, u) == ParseFrom(from, to, validate, u, 2, <<>>)

(* Writer::WriteString.  An encoding without Unicode gets escapes instead.  *)
Escaped(p, letters) ==
  IF p <= 65535 THEN <<92, 117>> \o HexDigits(p, letters)
  ELSE LET s == p - 65536
       IN  <<92, 117>> \o HexDigits(55296 + (s \div 1024), letters)
           \o <<92, 117>> \o HexDigits(56320 + (s % 1024), letters)

EscapedPoint(d) == IF d.ok THEN Step(Escaped(d.point, 65), d.next) ELSE Stop("StringInvalidEncoding")

WriteUnit(from, to, u, i, c) ==
  CASE to = "ASCII" /\ c >= 128 -> EscapedPoint(Decode(from, u, i))
    [] (to # "ASCII" \/ c < 128) /\ MustEscape(c) ->
         Step(IF c \in DOMAIN EscapeLetter THEN <<92, EscapeLetter[c]>> ELSE Escaped(c, 65), i + 1)
    [] OTHER -> Transcode(from, to, FALSE, u, i)

RECURSIVE WriteFrom(_, _, _, _, _)
WriteOn(from, to, u, out, step) ==
  IF step.error # "none" THEN [ok |-> FALSE, units |-> out]
  ELSE WriteFrom(from, to, u, step.next, out \o step.units)

WriteFrom(from, to, u, i, out) ==
  IF i > Len(u) THEN [ok |-> TRUE, units |-> Append(out, 34)]
  ELSE WriteOn(from, to, u, out, WriteUnit(from, to, u, i, UnitAt(u, i)))

WriteString(from, to, u) == WriteFrom(from, to, u, 1, <<34>>)

-----------------------------------------------------------------------------
(* Byte streams.                                                            *)
StreamTypes == {"UTF8", "UTF16LE", "UTF16BE", "UTF32LE", "UTF32BE"}

Width(type) == CASE type = "UTF8" -> 1 [] type \in {"UTF16LE", "UTF16BE"} -> 2 [] OTHER -> 4
EncodingOf(type) == CASE type = "UTF8" -> "UTF8" [] Width(type) = 2 -> "UTF16" [] OTHER -> "UTF32"

PutUnit(type, c) ==
  LET little == [k \in 1..Width(type) |-> (c \div 256 ^ (k - 1)) % 256]
  IN  IF type \in {"UTF16BE", "UTF32BE"} THEN Reverse(little) ELSE little

TakeUnit(type, bytes) ==
  FoldRight(LAMBDA b, n : b + (256 * n),
            IF type \in {"UTF16BE", "UTF32BE"} THEN Reverse(bytes) ELSE bytes, 0)

PutBOM(type) == IF type = "UTF8" THEN <<239, 187, 191>> ELSE PutUnit(type, 65279)

PutStream(type, bom, u) ==
  (IF bom THEN PutBOM(type) ELSE <<>>) \o FlattenSeq([i \in DOMAIN u |-> PutUnit(type, u[i])])

TakeStream(type, bytes) ==
  [i \in 1..(Len(bytes) \div Width(type)) |->
     TakeUnit(type, SubSeq(bytes, (Width(type) * (i - 1)) + 1, Width(type) * i))]

(* The mark a stream begins with; that of UTF-32 begins with that of UTF-16.*)
Mark(bytes) ==
  CASE IsPrefix(PutBOM("UTF32BE"), bytes) -> "UTF32BE"
    [] IsPrefix(PutBOM("UTF32LE"), bytes) -> "UTF32LE"
    [] IsPrefix(PutBOM("UTF16BE"), bytes) -> "UTF16BE"
    [] IsPrefix(PutBOM("UTF16LE"), bytes) /\ ~IsPrefix(PutBOM("UTF32LE"), bytes) -> "UTF16LE"
    [] IsPrefix(PutBOM("UTF8"), bytes) -> "UTF8"
    [] OTHER -> "none"

(* AutoUTFInputStream::DetectType, told `otherwise`: which encoding it is,  *)
(* and what is left without the mark.                                       *)
DetectType(bytes, otherwise) ==
  LET marked == Mark(bytes)
      zeros == {k \in 1..4 : bytes[k] = 0}
  IN  IF Len(bytes) < 4 THEN [type |-> otherwise, rest |-> bytes]
      ELSE IF marked # "none"
      THEN [type |-> marked, rest |-> SubSeq(bytes, Len(PutBOM(marked)) + 1, Len(bytes))]
      ELSE [type |-> CASE zeros = {1, 2, 3} -> "UTF32BE" [] zeros = {1, 3} -> "UTF16BE"
                       [] zeros = {2, 3, 4} -> "UTF32LE" [] zeros = {2, 4} -> "UTF16LE"
                       [] zeros = {} -> "UTF8" [] OTHER -> otherwise,
            rest |-> bytes]

-----------------------------------------------------------------------------
VARIABLES
  pieces, \* the string
  closed  \* whether its closing quotation mark has been put

stringVars == <<pieces, closed>>

StringInit == pieces = <<>> /\ closed = FALSE
StringNext ==
  /\ closed = FALSE
  /\ \/ UNCHANGED pieces /\ closed' = TRUE
     \/ \E p \in Pieces : Len(pieces) < MaxPieces /\ pieces' = Append(pieces, p) /\ UNCHANGED closed

(* The text of the string in an encoding.                                   *)
Spelled(enc, p) ==
  CASE p.how = "raw" -> IF Encodable(enc, p.point) THEN Encode(enc, p.point) ELSE Escaped(p.point, 65)
    [] p.how = "letter" -> <<92, EscapeLetter[p.point]>>
    [] p.how \in {"upper", "half"} -> Escaped(p.point, 65)
    [] p.how = "lower" -> Escaped(p.point, 97)
    [] p.how = "wrong" ->
         (CASE enc = "UTF8" -> <<237, 160, 128>> [] enc = "UTF16" -> <<56320, 65>>
            [] enc = "UTF32" -> <<1114112>> [] enc = "ASCII" -> <<128>>)

Source(enc) == <<34>> \o FlattenSeq([i \in DOMAIN pieces |-> Spelled(enc, pieces[i])]) \o <<34>>

Sound(p) == p.how \notin {"half", "wrong"}
Meant(enc) == FlattenSeq([i \in DOMAIN pieces |-> Encode(enc, pieces[i].point)])

WrittenAndRead(to, other, read, written) ==
  written.ok /\ ParseString(other, to, TRUE, written.units) = read

ReadWell(from, to, validate, read) ==
  /\ (\A p \in Range(pieces) : Sound(p)) =>
       /\ read.error = "none" /\ read.units = Meant(to)
       /\ \A other \in Encodings : WrittenAndRead(to, other, read, WriteString(to, other, read.units))
  /\ ((validate \/ from # to) /\ \E p \in Range(pieces) : p.how = "wrong") => read.error # "none"
  /\ (\E i \in DOMAIN pieces : /\ pieces[i] = [how |-> "half", point |-> 55296]
                               /\ i < Len(pieces) => pieces[i + 1].how # "half") => read.error # "none"

(* A string all of whose pieces are sound is read as what it means, from    *)
(* any encoding into any that has Unicode, validated or not; written in any *)
(* encoding and read again it is the same.  One that is validated or        *)
(* converted is refused if some units are no text, and so is one with a     *)
(* high surrogate that no low one follows.  A low surrogate alone is let    *)
(* through (ParseStringToStream, ParseHex4, Transcoder, WriteString).       *)
StringsRead ==
  \A from \in Encodings, to \in Encodings \ {"ASCII"}, validate \in BOOLEAN :
    ReadWell(from, to, validate, ParseString(from, to, validate, Source(from)))

(* A text in bytes is taken as it was put, with a mark or without; its      *)
(* encoding is found from the mark, or from where the zeros are if it is    *)
(* four bytes long and its first two characters are ASCII, as those of an   *)
(* object or an array are (AutoUTFInputStream, EncodedOutputStream).        *)
StreamsRead ==
  \A type \in StreamTypes, bom \in BOOLEAN, otherwise \in StreamTypes :
    LET units == Source(EncodingOf(type))
        bytes == PutStream(type, bom, units)
        found == DetectType(bytes, otherwise)
    IN  (Len(bytes) >= 4 /\ (bom \/ units[2] \in 1..127)) =>
          found.type = type /\ TakeStream(type, found.rest) = units

(* Strings and the texts they are in come back as they were.                *)
StringsComeBack == closed => StringsRead /\ StreamsRead
=============================================================================

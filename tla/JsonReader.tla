----------------------------- MODULE JsonReader -----------------------------
(* rapidjson on whole texts: GenericReader parses a text by recursive       *)
(* descent (Parse) or with a table (IterativeParse), and tells a handler    *)
(* what it finds; GenericDocument is a handler that builds a tree of values *)
(* and tells it to another handler (Accept); Writer and PrettyWriter are    *)
(* handlers that write a text.  A text is a sequence of tokens, chosen one  *)
(* by one, and both parsers read it side by side.  Strings, literals and    *)
(* numbers are tokens: what a string holds is the matter of JsonString.     *)
EXTENDS Integers, Sequences, SequencesExt

CONSTANT MaxTokens \* bound: tokens of a text

Scalars == {"string", "literal", "number"}

(* A string without its end, a literal that is none, a comment without its  *)
(* end, a character no value starts with, and the end of the text.          *)
Broken == {"broken string", "broken literal", "broken comment", "bad"}
Tokens == {"[", "]", "{", "}", ",", ":", "end"} \union Scalars \union Broken

NoError == "no error"

VARIABLES
  text,         \* the tokens so far
  stopWhenDone, \* kParseStopWhenDoneFlag
  refusal,      \* the event the handler answers with false, 0 for none
  rec, itr      \* the two parsers

readerVars == <<text, stopWhenDone, refusal, rec, itr>>

-----------------------------------------------------------------------------
(* A parser tells the handler of an event; false ends the parse.            *)
Emit(p, event) ==
  [p EXCEPT !.events = Append(@, event),
            !.error = IF Len(p.events) + 1 = refusal THEN "Termination" ELSE @]
Failed(p, code) == [p EXCEPT !.error = code]

(* ParseString, ParseNull, ParseTrue, ParseFalse and ParseNumber, which is  *)
(* tried on every other character.                                          *)
Scalar(p, t) ==
  CASE t \in Scalars -> Emit(p, <<t, "value">>)
    [] t = "broken string" -> Failed(p, "StringMissQuotationMark")
    [] OTHER -> Failed(p, "ValueInvalid")

(* ParseString for the name of a member.                                    *)
Name(p, t) == IF t = "string" THEN Emit(p, <<t, "key">>) ELSE Scalar(p, t)

-----------------------------------------------------------------------------
(* Parse.  The call stack is a sequence of the objects and arrays entered,  *)
(* with the members or elements counted.                                    *)
Counted(p) ==
  IF p.stack = <<>> THEN [p EXCEPT !.at = "root"]
  ELSE [p EXCEPT !.at = "next", !.stack[Len(p.stack)].count = @ + 1]

Enter(p, kind) ==
  [Emit(p, <<"start", kind>>) EXCEPT
     !.stack = Append(@, [kind |-> kind, count |-> 0]), !.at = "first"]

Leave(p) ==
  LET top == Last(p.stack)
  IN  Counted([Emit(p, <<"end", top.kind, top.count>>) EXCEPT !.stack = Front(@)])

ParseValue(p, t) ==
  CASE t = "[" -> Enter(p, "array")
    [] t = "{" -> Enter(p, "object")
    [] OTHER -> Counted(Scalar(p, t))

ParseKey(p, t) ==
  IF t \in {"string", "broken string"}
  THEN [Name(p, t) EXCEPT !.at = "colon"] ELSE Failed(p, "ObjectMissName")

Closes(kind, t) == t = (IF kind = "array" THEN "]" ELSE "}")

ParseObjectOrArray(p, t) ==
  LET kind == Last(p.stack).kind
  IN  CASE p.at = "first" /\ Closes(kind, t) -> Leave(p)
        [] p.at = "first" /\ ~Closes(kind, t) -> IF kind = "array" THEN ParseValue(p, t) ELSE ParseKey(p, t)
        [] p.at = "key" -> ParseKey(p, t)
        [] p.at = "colon" ->
             IF t = ":" THEN [p EXCEPT !.at = "value"] ELSE Failed(p, "ObjectMissColon")
        [] p.at = "next" ->
             CASE t = "," -> [p EXCEPT !.at = IF kind = "array" THEN "value" ELSE "key"]
               [] Closes(kind, t) -> Leave(p)
               [] OTHER -> Failed(p, IF kind = "array" THEN "ArrayMissCommaOrSquareBracket"
                                     ELSE "ObjectMissCommaOrCurlyBracket")

Done(p) == [p EXCEPT !.at = "done"]

RecStep(p, t) ==
  IF p.at = "root" /\ stopWhenDone THEN Done(p)
  ELSE IF t = "broken comment" THEN Failed(p, "UnspecificSyntaxError")
  ELSE   CASE p.at = "root" -> IF t = "end" THEN Done(p) ELSE Failed(p, "DocumentRootNotSingular")
           [] p.at = "value" /\ p.stack = <<>> /\ t = "end" -> Failed(p, "DocumentEmpty")
           [] p.at = "value" /\ (p.stack # <<>> \/ t # "end") -> ParseValue(p, t)
           [] OTHER -> ParseObjectOrArray(p, t)

-----------------------------------------------------------------------------
(* IterativeParse.                                                          *)

(* A character is mapped to the token it may begin.                         *)
Tokenize(t) ==
  CASE t = "broken string" -> "string"
    [] t \in {"literal", "broken literal"} -> "literal"
    [] t = "bad" -> "number"
    [] OTHER -> t

Predict(state, token) ==
  LET value(scalar) ==
        CASE token = "[" -> "ArrayInitial" [] token = "{" -> "ObjectInitial"
          [] token \in Scalars -> scalar [] OTHER -> "Error"
  IN  CASE state = "Start" -> value("Value")
        [] state = "ObjectInitial" ->
             CASE token = "}" -> "ObjectFinish" [] token = "string" -> "MemberKey" [] OTHER -> "Error"
        [] state = "MemberKey" -> IF token = ":" THEN "KeyValueDelimiter" ELSE "Error"
        [] state = "KeyValueDelimiter" -> value("MemberValue")
        [] state = "MemberValue" ->
             CASE token = "}" -> "ObjectFinish" [] token = "," -> "MemberDelimiter" [] OTHER -> "Error"
        [] state = "MemberDelimiter" -> IF token = "string" THEN "MemberKey" ELSE "Error"
        [] state = "ArrayInitial" -> IF token = "]" THEN "ArrayFinish" ELSE value("Element")
        [] state = "Element" ->
             CASE token = "]" -> "ArrayFinish" [] token = "," -> "ElementDelimiter" [] OTHER -> "Error"
        [] state = "ElementDelimiter" -> value("Element")
        [] OTHER -> "Error"

(* Variant: the last member or element is not counted.                      *)
LastCounted_Never(src) == 0

(* A delimiter counts the one before it, the end of the object the last one.*)
LastCounted(src) == IF src \in {"MemberValue", "Element"} THEN 1 ELSE 0

Transit(p, dst, t) ==
  LET src == p.state
      top == Last(p.stack)
      kind == IF dst \in {"ObjectInitial", "ObjectFinish"} THEN "object" ELSE "array"
  IN  CASE dst \in {"ObjectInitial", "ArrayInitial"} ->
             LET n == CASE src \in {"ArrayInitial", "ElementDelimiter"} -> "Element"
                        [] src = "KeyValueDelimiter" -> "MemberValue" [] OTHER -> src
             IN  [Emit(p, <<"start", kind>>) EXCEPT
                    !.stack = Append(@, [state |-> n, count |-> 0]), !.state = dst]
        [] dst = "MemberKey" -> [Name(p, t) EXCEPT !.state = dst]
        [] dst \in {"MemberValue", "Element"} -> [Scalar(p, t) EXCEPT !.state = dst]
        [] dst = "KeyValueDelimiter" -> [p EXCEPT !.state = dst]
        [] dst \in {"MemberDelimiter", "ElementDelimiter"} ->
             [p EXCEPT !.stack[Len(p.stack)].count = @ + 1, !.state = dst]
        [] dst \in {"ObjectFinish", "ArrayFinish"} ->
             [Emit(p, <<"end", kind, top.count + LastCounted(src)>>) EXCEPT
                !.stack = Front(@),
                !.state = IF top.state = "Start" THEN "Finish" ELSE top.state]
        [] dst = "Value" -> [Scalar(p, t) EXCEPT !.state = "Finish"]

HandleError(p) ==
  IF p.error # NoError THEN p
  ELSE Failed(p, CASE p.state = "Start" -> "DocumentEmpty"
                   [] p.state = "Finish" -> "DocumentRootNotSingular"
                   [] p.state \in {"ObjectInitial", "MemberDelimiter"} -> "ObjectMissName"
                   [] p.state = "MemberKey" -> "ObjectMissColon"
                   [] p.state = "MemberValue" -> "ObjectMissCommaOrCurlyBracket"
                   [] p.state = "Element" -> "ArrayMissCommaOrSquareBracket"
                   [] OTHER -> "UnspecificSyntaxError")

ItrStep(p, t) ==
  IF stopWhenDone /\ p.state = "Finish" THEN Done(p)
  ELSE IF t = "broken comment" THEN Failed(p, "UnspecificSyntaxError")
  ELSE IF t = "end" THEN (IF p.state = "Finish" THEN Done(p) ELSE HandleError(p))
  ELSE LET n == Predict(p.state, Tokenize(t))
       IN  IF n = "Error" THEN HandleError(p) ELSE Transit(p, n, t)

-----------------------------------------------------------------------------
ReaderInit ==
  /\ text = <<>> /\ stopWhenDone \in BOOLEAN /\ refusal \in 0..3
  /\ rec = [at |-> "value", stack |-> <<>>, events |-> <<>>, error |-> NoError]
  /\ itr = [at |-> "loop", state |-> "Start", stack |-> <<>>, events |-> <<>>, error |-> NoError]

Finished(p) == p.at = "done" \/ p.error # NoError

Read(t) ==
  /\ ~Finished(rec) \/ ~Finished(itr)
  /\ Len(text) < MaxTokens \/ t = "end"
  /\ text' = Append(text, t)
  /\ rec' = IF Finished(rec) THEN rec ELSE RecStep(rec, t)
  /\ itr' = IF Finished(itr) THEN itr ELSE ItrStep(itr, t)
  /\ UNCHANGED <<stopWhenDone, refusal>>

ReaderNext == \E t \in Tokens : Read(t)

ReaderSpec == ReaderInit /\ [][ReaderNext]_readerVars

-----------------------------------------------------------------------------
(* The two parsers tell the handler the same, after the same tokens, with   *)
(* the same counts, and accept and refuse the same texts at the same token, *)
(* whatever the handler answers.  They name the same error, except that the *)
(* table has no entry for what starts no value: where Parse tries a number  *)
(* and says ValueInvalid, IterativeParse says DocumentEmpty at the root and *)
(* UnspecificSyntaxError elsewhere (Parse, IterativeParse, Predict,         *)
(* Transit, HandleError).                                                   *)
ParsersAgree ==
  /\ rec.events = itr.events
  /\ Finished(rec) = Finished(itr)
  /\ \/ rec.error = itr.error
     \/ /\ rec.error = "ValueInvalid"
        /\ itr.error = IF itr.state = "Start" THEN "DocumentEmpty" ELSE "UnspecificSyntaxError"
=============================================================================

---------------------------- MODULE JsonHandlers ----------------------------
(* What the handlers make of the events of a parse: GenericDocument builds  *)
(* a tree on its stack, GenericValue::Accept turns a tree into events again,*)
(* Writer and PrettyWriter turn events into a text.                         *)
EXTENDS JsonReader

(* The handler of GenericDocument.  A value lies on the stack until the     *)
(* array or object around it ends and takes as many values as were counted; *)
(* a member is two values, its name and its value.                          *)
Tree(type, items) == [type |-> type, items |-> items]

EndTree(stack, kind, count) ==
  LET n == IF kind = "object" THEN 2 * count ELSE count
      top == Len(stack) - n
  IN  Append(SubSeq(stack, 1, top - 1), Tree(kind, SubSeq(stack, top + 1, Len(stack))))

OnEvent(stack, event) ==
  CASE event[1] = "start" -> Append(stack, Tree(event[2], <<>>))
    [] event[1] = "end" -> EndTree(stack, event[2], event[3])
    [] OTHER -> Append(stack, Tree(event[1], <<>>))

DocumentStack(events) == FoldLeft(OnEvent, <<>>, events)

(* GenericValue::Accept.                                                    *)
RECURSIVE Accept(_)
Accept(v) ==
  CASE v.type = "array" ->
         <<<<"start", "array">>>> \o FlattenSeq([i \in DOMAIN v.items |-> Accept(v.items[i])])
         \o <<<<"end", "array", Len(v.items)>>>>
    [] v.type = "object" ->
         <<<<"start", "object">>>>
         \o FlattenSeq([i \in DOMAIN v.items |->
              IF i % 2 = 1 THEN <<<<"string", "key">>>> ELSE Accept(v.items[i])])
         \o <<<<"end", "object", Len(v.items) \div 2>>>>
    [] OTHER -> <<<<v.type, "value">>>>

-----------------------------------------------------------------------------
(* Writer: what was put, and the levels entered with the number of values   *)
(* in each, names included.                                                 *)
EmptyWriter == [out |-> <<>>, levels |-> <<>>]

PutOut(w, tokens) == [w EXCEPT !.out = @ \o tokens]

(* Variant: every second value of an array would be a member's value.       *)
Prefix_NoArray(w) ==
  IF w.levels = <<>> THEN w
  ELSE LET level == Last(w.levels)
       IN  [PutOut(w, CASE level.values = 0 -> <<>> [] level.values > 0 /\ level.values % 2 = 0 -> <<",">> [] OTHER -> <<":">>)
              EXCEPT !.levels[Len(w.levels)].values = @ + 1]

Prefix(w) ==
  IF w.levels = <<>> THEN w
  ELSE LET level == Last(w.levels)
       IN  [PutOut(w, CASE level.values = 0 -> <<>>
                     [] level.values > 0 /\ (level.inArray \/ level.values % 2 = 0) -> <<",">>
                     [] OTHER -> <<":">>)
              EXCEPT !.levels[Len(w.levels)].values = @ + 1]

(* PrettyWriter puts blanks between them: a new line and its indentation,   *)
(* as deep as there are levels, or the space before a member's value.       *)
NewLine(depth) == <<"new line">> \o [i \in 1..depth |-> "indent"]
Blanks == {"new line", "indent", "space"}

PrettyPrefix(w) ==
  IF w.levels = <<>> THEN w
  ELSE LET level == Last(w.levels)
           line == NewLine(Len(w.levels))
       IN  [PutOut(w, CASE level.values = 0 -> line
                     [] level.values > 0 /\ (level.inArray \/ level.values % 2 = 0) -> <<",">> \o line
                     [] OTHER -> <<":", "space">>)
              EXCEPT !.levels[Len(w.levels)].values = @ + 1]

Opening(kind) == IF kind = "array" THEN "[" ELSE "{"
Closing(kind) == IF kind = "array" THEN "]" ELSE "}"

(* What an event adds after its prefix.                                    *)
WriteEvent(w, event) ==
  CASE event[1] = "start" ->
         [PutOut(w, <<Opening(event[2])>>) EXCEPT
            !.levels = Append(@, [inArray |-> event[2] = "array", values |-> 0])]
    [] OTHER -> PutOut(w, <<event[1]>>)

Written(events) ==
  FoldLeft(LAMBDA w, event :
    IF event[1] = "end" THEN PutOut([w EXCEPT !.levels = Front(@)], <<Closing(event[2])>>)
    ELSE WriteEvent(Prefix(w), event), EmptyWriter, events)

(* A line of its own for the end of what is not empty.                      *)
PrettyWritten(events) ==
  FoldLeft(LAMBDA w, event :
    IF event[1] = "end"
    THEN PutOut([w EXCEPT !.levels = Front(@)],
             (IF Last(w.levels).values = 0 THEN <<>> ELSE NewLine(Len(w.levels) - 1))
             \o <<Closing(event[2])>>)
    ELSE WriteEvent(PrettyPrefix(w), event), EmptyWriter, events)

-----------------------------------------------------------------------------
(* A writer that handles the events of a parse has written, at any time, a  *)
(* beginning of the text; a document that handles them is left with one     *)
(* value, and tells it to a writer as the same text.  Without its blanks,   *)
(* what PrettyWriter writes is the same (GenericDocument, Accept, Writer,   *)
(* PrettyWriter).                                                           *)
TextComesBack ==
  LET direct == Written(rec.events).out
      stack == DocumentStack(rec.events)
  IN  rec.error = NoError =>
        /\ IsPrefix(direct, text)
        /\ SelectSeq(PrettyWritten(rec.events).out, LAMBDA t : t \notin Blanks) = direct
        /\ rec.at = "done" =>
             /\ Len(stack) = 1
             /\ Written(Accept(stack[1])).out = Front(text)
=============================================================================

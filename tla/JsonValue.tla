------------------------------ MODULE JsonValue ------------------------------
(* GenericValue of rapidjson with an allocator that frees: which memory the *)
(* values own, and what the operations on objects, arrays and strings do to *)
(* it.  A value is moved by copying its bits and making a null of it.       *)
EXTENDS Integers, Sequences, FiniteSets, SequencesExt

CONSTANTS
  MemberNames, \* names of members
  MaxDepth,    \* bound: values in values, 2 or 3
  MaxLive,     \* bound: blocks of memory
  MaxItems     \* bound: members or elements of a value

DefaultCapacity == 1 \* of an object or an array, 16 in the code

VARIABLES
  vals, \* two values, "x" and "y"
  live  \* how many blocks have been allocated and not freed

valueVars == <<vals, live>>

(* A string is a copy in a block of its own, or held without one: it is a   *)
(* reference to what is kept elsewhere, or fits in the value itself.        *)
(* Members are their names and values one after the other.                  *)
Value(kind, text, block, capacity, items) ==
  [kind |-> kind, text |-> text, block |-> block, capacity |-> capacity, items |-> items]
Null == Value("null", "", FALSE, 0, <<>>)
Strings == {"held", "copy"}
StringOf(kind, s) == Value(kind, s, kind = "copy", 0, <<>>)
EmptyOf(kind) == Value(kind, "", FALSE, 0, <<>>)

RECURSIVE Blocks(_), BlocksOf(_)
Blocks(v) == (IF v.block THEN 1 ELSE 0) + BlocksOf(v.items)
BlocksOf(items) == IF items = <<>> THEN 0 ELSE Blocks(items[1]) + BlocksOf(SubSeq(items, 2, Len(items)))

(* The names are at the odd places.                                         *)
PerItem(v) == IF v.kind = "object" THEN 2 ELSE 1
Size(v) == Len(v.items) \div PerItem(v)
NameAt(v, i) == v.items[2 * i - 1]
Part(v, first, last) == SubSeq(v.items, (PerItem(v) * first) + 1, PerItem(v) * last)

(* FindMember: the first one of the name, or the end.                       *)
FindMember(v, name) ==
  IF \E i \in 1..Size(v) : NameAt(v, i).text = name
  THEN (CHOOSE i \in 1..Size(v) : /\ NameAt(v, i).text = name
                                  /\ \A j \in 1..(i - 1) : NameAt(v, j).text # name) - 1
  ELSE Size(v)

(* operator==.                                                              *)
RECURSIVE Equal(_, _)
Equal(l, r) ==
  CASE l.kind \in Strings -> r.kind \in Strings /\ l.text = r.text
    [] l.kind = "object" ->
         /\ r.kind = "object" /\ Size(l) = Size(r)
         /\ \A i \in 1..Size(l) :
              LET j == FindMember(r, NameAt(l, i).text) + 1
              IN  j <= Size(r) /\ Equal(l.items[2 * i], r.items[2 * j])
    [] l.kind = "array" ->
         r.kind = "array" /\ Size(l) = Size(r) /\ \A i \in 1..Size(l) : Equal(l.items[i], r.items[i])
    [] l.kind = "null" -> r.kind = "null"

(* The copying constructor: an object or array is told to a new document,   *)
(* with just the capacity it needs; a string that is a reference stays one. *)
RECURSIVE CopyOf(_)
CopyOf(v) ==
  [v EXCEPT !.block = v.kind = "copy" \/ v.items # <<>>,
            !.capacity = Size(v),
            !.items = [i \in DOMAIN v.items |-> CopyOf(v.items[i])]]

-----------------------------------------------------------------------------
ValueInit == vals = [n \in {"x", "y"} |-> Null] /\ live = 0

(* A value gets another content: the destructor frees what it had.          *)
Become(n, new, allocated) ==
  /\ vals' = [vals EXCEPT ![n] = new]
  /\ live' = live + allocated - Blocks(vals[n])

SetString(n) == \E kind \in Strings : Become(n, StringOf(kind, "text"), IF kind = "copy" THEN 1 ELSE 0)
SetEmpty(n) == \E kind \in {"null", "object", "array"} : Become(n, EmptyOf(kind), 0)

(* Room for one more: the block is allocated, or replaced by a larger one.  *)
Grown(v) ==
  IF Size(v) < v.capacity THEN v
  ELSE [v EXCEPT !.block = TRUE,
                 !.capacity = IF @ = 0 THEN DefaultCapacity ELSE @ + ((@ + 1) \div 2)]

(* AddMember and PushBack: what is added is moved.                          *)
Add(n, m, name) ==
  LET v == Grown(vals[n])
  IN  /\ Size(v) < MaxItems
      /\ vals' = [vals EXCEPT ![n] = [v EXCEPT !.items = (@ \o name) \o <<vals[m]>>], ![m] = Null]
      /\ live' = live + (Blocks(v) - Blocks(vals[n])) + BlocksOf(name)
AddMember(n, m) ==
  /\ vals[n].kind = "object" /\ n # m
  /\ \E kind \in Strings, s \in MemberNames : Add(n, m, <<StringOf(kind, s)>>)
PushBack(n, m) == vals[n].kind = "array" /\ n # m /\ Add(n, m, <<>>)

(* Variant: the last member is copied over the one to be removed.           *)
Removed_Copied(v, i) ==
  [value |-> [v EXCEPT !.items = IF i = Size(v) THEN Part(v, 0, i - 1)
                                 ELSE (Part(v, 0, i - 1) \o Part(v, Size(v) - 1, Size(v))) \o Part(v, i, Size(v) - 1)],
   freed |-> IF i = Size(v) THEN BlocksOf(Part(v, i - 1, i)) ELSE 0]

(* RemoveMember: the last member is moved into the place of the one that is *)
(* removed, whose content the assignment frees, or is destroyed itself.     *)
Removed(v, i) ==
  [value |-> [v EXCEPT !.items = IF i = Size(v) THEN Part(v, 0, i - 1)
                                 ELSE (Part(v, 0, i - 1) \o Part(v, Size(v) - 1, Size(v))) \o Part(v, i, Size(v) - 1)],
   freed |-> BlocksOf(Part(v, i - 1, i))]

RemoveMember(n) ==
  /\ vals[n].kind = "object"
  /\ \E name \in MemberNames :
       LET i == FindMember(vals[n], name) + 1
       IN  /\ i <= Size(vals[n])
           /\ vals' = [vals EXCEPT ![n] = Removed(vals[n], i).value]
           /\ live' = live - Removed(vals[n], i).freed

(* EraseMember and Erase of a range, and with the whole of it what          *)
(* RemoveAllMembers and Clear do: the order and the block are kept.         *)
Erase(n) ==
  /\ vals[n].kind \in {"object", "array"}
  /\ \E first \in 0..Size(vals[n]) : \E last \in first..Size(vals[n]) :
       LET v == vals[n]
       IN  /\ vals' = [vals EXCEPT ![n].items = Part(v, 0, first) \o Part(v, last, Size(v))]
           /\ live' = live - BlocksOf(Part(v, first, last))

PopBack(n) ==
  /\ vals[n].kind = "array" /\ Size(vals[n]) > 0
  /\ vals' = [vals EXCEPT ![n].items = Front(@)]
  /\ live' = live - Blocks(Last(vals[n].items))

(* Assignment from another value, or from an element or a member's value of *)
(* it, which is left null in its place.                                     *)
Assign(n, m) ==
  /\ n # m
  /\ \/ /\ vals' = [vals EXCEPT ![n] = vals[m], ![m] = Null]
        /\ live' = live - Blocks(vals[n])
     \/ \E i \in DOMAIN vals[m].items :
          /\ i % PerItem(vals[m]) = 0
          /\ vals' = [vals EXCEPT ![n] = vals[m].items[i], ![m].items[i] = Null]
          /\ live' = live - Blocks(vals[n])

CopyFrom(n, m) == n # m /\ Become(n, CopyOf(vals[m]), Blocks(CopyOf(vals[m])))

Exchange == vals' = [vals EXCEPT !["x"] = vals["y"], !["y"] = vals["x"]] /\ UNCHANGED live

RECURSIVE Depth(_)
Depth(v) == IF \E i \in DOMAIN v.items : Depth(v.items[i]) = 2 THEN 3
            ELSE IF v.items = <<>> THEN 1 ELSE 2

ValueNext ==
  /\ \/ Exchange
     \/ \E n \in {"x", "y"} : SetString(n) \/ SetEmpty(n) \/ RemoveMember(n) \/ Erase(n) \/ PopBack(n)
     \/ \E n, m \in {"x", "y"} : AddMember(n, m) \/ PushBack(n, m) \/ Assign(n, m) \/ CopyFrom(n, m)
  /\ live' <= MaxLive
  /\ \A n \in {"x", "y"} : Depth(vals'[n]) <= MaxDepth

-----------------------------------------------------------------------------
RECURSIVE NamesDiffer(_)
NamesDiffer(v) ==
  /\ \A i, j \in 1..Size(v) : v.kind = "object" /\ i # j => NameAt(v, i).text # NameAt(v, j).text
  /\ \A i \in DOMAIN v.items : NamesDiffer(v.items[i])

(* Every block that is not freed belongs to exactly one value, after any    *)
(* sequence of calls; what has members or elements has the capacity for     *)
(* them; and on values in which no object has a name twice, equality is an  *)
(* equivalence that a copy does not disturb (GenericValue).                 *)
ValuesOwnTheirMemory ==
  /\ live = Blocks(vals["x"]) + Blocks(vals["y"])
  /\ \A n \in {"x", "y"} : Size(vals[n]) <= vals[n].capacity
  /\ (NamesDiffer(vals["x"]) /\ NamesDiffer(vals["y"])) =>
       /\ Equal(vals["x"], vals["y"]) = Equal(vals["y"], vals["x"])
       /\ Equal(CopyOf(vals["x"]), vals["y"]) = Equal(vals["x"], vals["y"])
       /\ Equal(CopyOf(vals["x"]), vals["x"])
=============================================================================

----------------------------- MODULE EtcdClient -----------------------------
(* A client of etcd: every call of Client makes one HTTP request with the   *)
(* one handle the client keeps (internal::Curl), and makes a reply of what  *)
(* the transfer has written into the one stream of the handle (RapidReply). *)
(* The options of the handle outlive a request unless it is reset, and so   *)
(* does what a transfer that broke off has written.  etcd is external: its  *)
(* store, and what a request does to it.                                    *)
EXTENDS Integers, Sequences, FiniteSets, FiniteSetsExt

CONSTANTS
  Dir,         \* a directory,
  Key,         \* a key in it,
  Ordered,     \* and the names etcd gives to keys created in order in it
  EtcdValues,  \* values of a key
  EtcdStores,  \* what other clients left in the store before the first call
  MaxCalls,    \* bound: calls of the client
  MaxBroken    \* bound: transfers that break off

Paths == {Dir, Key} \union {Ordered[i] : i \in DOMAIN Ordered}
NoValue == "no value"
None == "none"

(* What etcd keeps under a path: nothing, a directory or a value, with the  *)
(* index of its last change and whether it expires.                         *)
Absent == [kind |-> "absent", value |-> NoValue, ttl |-> FALSE, index |-> 0]
Entry(kind, value, ttl, index) == [kind |-> kind, value |-> value, ttl |-> ttl, index |-> index]

Entries ==
  {Absent} \union [kind : {"value"}, value : EtcdValues, ttl : BOOLEAN, index : Nat]
           \union [kind : {"dir"}, value : {NoValue}, ttl : BOOLEAN, index : Nat]

(* A store: what is in a directory is there only as long as it is.          *)
Stores ==
  {s \in [Paths -> Entries] :
     \A p \in Paths \ {Dir} : s[p] # Absent => s[p].kind = "value" /\ s[Dir].kind = "dir"}

ASSUME EtcdClientConstants ==
  /\ EtcdValues # {} /\ NoValue \notin EtcdValues
  /\ MaxCalls \in Nat /\ MaxBroken \in Nat
  /\ Len(Ordered) \in Nat /\ DOMAIN Ordered = 1 .. Len(Ordered)
  /\ Key # Dir /\ \A i \in DOMAIN Ordered : Ordered[i] # Dir
  /\ EtcdStores \subseteq Stores /\ \A s \in EtcdStores : \A p \in Paths : s[p].index =< 2

VARIABLES
  etcd,        \* the store of the server
  etcdIndex,   \* the number of changes there have been
  curl,        \* the options set on the handle
  writeStream, \* write_stream_: what the callback was given since it was cleared
  call,        \* the call under way, or the last one
  callAt,      \* where it is: "idle", "perform" or "reply"
  outcome,     \* what it came back with
  calls, brokenOff,
  witness      \* the store at the moment of the last request, before and after

clientVars == <<etcd, etcdIndex, curl, writeStream, call, callAt, outcome, calls, brokenOff, witness>>

-----------------------------------------------------------------------------
(* The calls.  `old`, `index`, `exist` are what the last argument of the    *)
(* conditional ones is compared with; `flag` asks for a time to live or for *)
(* a recursive deletion.                                                    *)
Blank == [op |-> "none", path |-> Dir, value |-> NoValue, old |-> NoValue, index |-> 0,
          exist |-> None, flag |-> FALSE]

Calls ==
  LET With(r) == {[c EXCEPT !.op = r.op] : c \in r.of}
      keys == {[Blank EXCEPT !.path = p] : p \in {Dir, Key}}
      set == {[Blank EXCEPT !.path = Key, !.value = v] : v \in EtcdValues}
      flagged(S) == S \union {[c EXCEPT !.flag = TRUE] : c \in S}
      dirs == {Blank}
      swap == (UNION {{[c EXCEPT !.old = v] : v \in EtcdValues} : c \in set})
              \union (UNION {{[c EXCEPT !.index = i] : i \in {1, 2}} : c \in set})
      drop == {[Blank EXCEPT !.path = Key, !.old = v] : v \in EtcdValues}
              \union {[Blank EXCEPT !.path = Key, !.index = i] : i \in {1, 2}}
  IN  UNION {With(r) : r \in
        {[op |-> "Set", of |-> flagged(set)], [op |-> "ClearTtl", of |-> set],
         [op |-> "SetOrdered", of |-> {[c EXCEPT !.path = Dir] : c \in set}],
         [op |-> "Get", of |-> keys], [op |-> "GetAll", of |-> dirs],
         [op |-> "GetOrdered", of |-> dirs], [op |-> "Delete", of |-> keys],
         [op |-> "AddDirectory", of |-> flagged(dirs)], [op |-> "UpdateDirectoryTtl", of |-> dirs],
         [op |-> "DeleteDirectory", of |-> flagged(dirs)],
         [op |-> "CompareAndSwapIf",
          of |-> swap \union (UNION {{[c EXCEPT !.exist = e] : e \in {"true", "false"}} : c \in set})],
         [op |-> "CompareAndDeleteIf", of |-> drop]}}

Reads == {"Get", "GetAll", "GetOrdered"}

(* The request type given to Curl::Set; a read uses Curl::Get.              *)
TypeOf(c) ==
  CASE c.op \in Reads -> None
    [] c.op = "SetOrdered" -> "POST"
    [] c.op \in {"Delete", "DeleteDirectory", "CompareAndDeleteIf"} -> "DELETE"
    [] OTHER -> "PUT"

(* The path and the query of the URL.                                       *)
UrlOf(c) ==
  [path |-> c.path,
   dir |-> c.op = "DeleteDirectory",
   recursive |-> c.op \in {"GetAll", "GetOrdered"} \/ (c.op = "DeleteDirectory" /\ c.flag),
   prevValue |-> c.old, prevIndex |-> c.index, prevExist |-> c.exist]

NoFields == [value |-> NoValue, ttl |-> None, dir |-> FALSE, prevExist |-> None]

(* The fields that are posted; an empty time to live clears the one there.  *)
TtlOf(c) ==
  IF c.op = "ClearTtl" THEN ""
  ELSE IF c.op = "UpdateDirectoryTtl" \/ (c.op \in {"Set", "AddDirectory"} /\ c.flag) THEN "set"
  ELSE None
FieldsOf(c) ==
  [value |-> c.value, ttl |-> TtlOf(c),
   dir |-> c.op \in {"AddDirectory", "UpdateDirectoryTtl"},
   prevExist |-> IF c.op \in {"ClearTtl", "UpdateDirectoryTtl"} THEN "true" ELSE None]

-----------------------------------------------------------------------------
(* internal::Curl.                                                          *)

NoOptions == [custom |-> None, url |-> UrlOf(Blank), fields |-> NoFields]

(* Variant: the options of the previous request stay.                       *)
ResetHandle_None == curl

(* _ResetHandle.                                                            *)
ResetHandle == NoOptions

(* _SetGetOptions and _SetPostOptions: nothing is posted if there is none.  *)
SetOptions(options, c) ==
  [custom |-> IF c.op \in Reads THEN options.custom ELSE TypeOf(c),
   url |-> UrlOf(c),
   fields |-> IF TypeOf(c) \in {None, "DELETE"} THEN options.fields ELSE FieldsOf(c)]

(* What goes over the wire.                                                 *)
Method == IF curl.custom # None THEN curl.custom
          ELSE IF curl.fields # NoFields THEN "POST" ELSE "GET"

-----------------------------------------------------------------------------
(* etcd.                                                                    *)

Below(p) == IF p = Dir THEN Paths \ {Dir} ELSE {}
Present(p) == etcd[p].kind # "absent"

(* A key is created with the directory it is in.                            *)
Put(p, e) ==
  [q \in Paths |-> CASE q = p -> e
                     [] q = Dir /\ p # Dir /\ ~Present(Dir) -> Entry("dir", NoValue, FALSE, e.index)
                     [] OTHER -> etcd[q]]
RemoveAll(ps) == [q \in Paths |-> IF q \in ps THEN Absent ELSE etcd[q]]

(* The conditions of the request, in its query or its fields.               *)
Holds(url, fields) ==
  /\ url.prevValue = NoValue \/ etcd[url.path].value = url.prevValue
  /\ url.prevIndex = 0 \/ (Present(url.path) /\ etcd[url.path].index = url.prevIndex)
  /\ \A e \in {url.prevExist, fields.prevExist} :
       e = None \/ (e = "true") = Present(url.path)

FreeNames == {i \in DOMAIN Ordered : ~Present(Ordered[i])}

(* The stores the request may lead to, `etcd` itself if it is refused.      *)
Served ==
  LET url == curl.url
      f == curl.fields
      p == url.path
      i == etcdIndex + 1
      value == Entry("value", f.value, f.ttl = "set", i)
  IN  CASE Method = "GET" -> etcd
        [] Method = "PUT" /\ ~Holds(url, f) -> etcd
        [] Method = "PUT" /\ Holds(url, f) /\ f.dir ->
             IF etcd[p].kind = "absent" \/ (etcd[p].kind = "dir" /\ f.prevExist = "true")
             THEN Put(p, Entry("dir", NoValue, f.ttl = "set", i)) ELSE etcd
        [] Method = "PUT" /\ Holds(url, f) /\ ~f.dir ->
             IF etcd[p].kind = "dir" \/ (p # Dir /\ etcd[Dir].kind = "value") THEN etcd ELSE Put(p, value)
        [] Method = "POST" ->
             IF FreeNames = {} \/ etcd[Dir].kind = "value" THEN etcd ELSE Put(Ordered[Min(FreeNames)], value)
        [] Method = "DELETE" ->
             IF Holds(url, f) /\ etcd[p].kind = "value" THEN RemoveAll({p})
             ELSE IF /\ Holds(url, f) /\ etcd[p].kind = "dir"
                     /\ url.recursive \/ (url.dir /\ \A q \in Below(p) : ~Present(q))
             THEN RemoveAll({p} \union Below(p)) ELSE etcd

(* A refused request, or a read of what is not there, is answered with an   *)
(* error; the others with the entries it is about.                          *)
Answer ==
  IF (Method = "GET" /\ ~Present(curl.url.path)) \/ (Method # "GET" /\ Served = etcd)
  THEN [of |-> calls, error |-> TRUE, shown |-> {}]
  ELSE [of |-> calls, error |-> FALSE,
        shown |-> {p \in {curl.url.path} \union Below(curl.url.path) : Served[p].kind = "value"}]

-----------------------------------------------------------------------------
ClientInit ==
  /\ etcd \in EtcdStores /\ etcdIndex = 2
  /\ curl = NoOptions /\ writeStream = <<>>
  /\ call = Blank /\ callAt = "idle" /\ outcome = None
  /\ calls = 0 /\ brokenOff = 0
  /\ witness = [before |-> etcd, after |-> etcd]

(* The handle is reset, its options set and its stream cleared.             *)
StartCall(c) ==
  /\ callAt = "idle" /\ calls < MaxCalls /\ outcome # "abort"
  /\ call' = c /\ calls' = calls + 1
  /\ curl' = SetOptions(ResetHandle, c)
  /\ writeStream' = <<>>
  /\ callAt' = "perform" /\ outcome' = None
  /\ witness' = [before |-> etcd, after |-> etcd]
  /\ UNCHANGED <<etcd, etcdIndex, brokenOff>>

(* curl_easy_perform gets to the server.                                    *)
Perform ==
  /\ callAt = "perform"
  /\ etcd' = Served /\ etcdIndex' = IF Served = etcd THEN etcdIndex ELSE etcdIndex + 1
  /\ witness' = [before |-> etcd, after |-> Served]
  /\ \/ /\ writeStream' = Append(writeStream, Answer) /\ callAt' = "reply"
        /\ UNCHANGED <<outcome, brokenOff>>
     \* The transfer breaks off after a part of the answer.
     \/ /\ brokenOff < MaxBroken /\ brokenOff' = brokenOff + 1
        /\ writeStream' \in {writeStream, Append(writeStream, [Answer EXCEPT !.error = FALSE, !.shown = {}])}
        /\ callAt' = "idle" /\ outcome' = "ClientException"
     \* An answer without a body, which a server that is stopped may give.
     \/ /\ brokenOff < MaxBroken /\ brokenOff' = brokenOff + 1
        /\ callAt' = "reply"
        /\ UNCHANGED <<writeStream, outcome>>
  /\ UNCHANGED <<curl, call, calls>>

(* No connection to the server.                                             *)
PerformFails ==
  /\ callAt = "perform" /\ brokenOff < MaxBroken /\ brokenOff' = brokenOff + 1
  /\ callAt' = "idle" /\ outcome' = "ClientException"
  /\ UNCHANGED <<etcd, etcdIndex, curl, writeStream, call, calls, witness>>

(* _GetReply parses the stream.  What is not one JSON text leaves a null    *)
(* document, and HasMember asserts that it is an object; an error is thrown.*)
GetReply ==
  /\ callAt = "reply" /\ callAt' = "idle"
  /\ outcome' = CASE Len(writeStream) # 1 -> "abort"
                  [] Len(writeStream) = 1 /\ writeStream[1].error -> "ReplyException"
                  [] OTHER -> "reply"
  /\ UNCHANGED <<etcd, etcdIndex, curl, writeStream, call, calls, brokenOff, witness>>

(* Another client sets the key, or a time to live passes.                   *)
OtherClient ==
  /\ callAt = "perform" /\ etcdIndex < 4
  /\ \/ /\ etcd[Dir].kind # "value"
        /\ \E v \in EtcdValues : etcd' = Put(Key, Entry("value", v, FALSE, etcdIndex + 1))
     \/ \E p \in Paths : etcd[p].ttl /\ etcd' = RemoveAll({p} \union Below(p))
  /\ etcdIndex' = etcdIndex + 1
  /\ UNCHANGED <<curl, writeStream, call, callAt, outcome, calls, brokenOff, witness>>

ClientNext ==
  \/ \E c \in Calls : StartCall(c)
  \/ Perform \/ PerformFails \/ GetReply \/ OtherClient

ClientSpec == ClientInit /\ [][ClientNext]_clientVars

(* GetAll of the reply, and what etcd_helper::get makes of it: the value of *)
(* the path among the pairs, "" for everything else.                        *)
Pairs == {<<p, witness.after[p].value>> : p \in writeStream[1].shown}
EtcdGet(path) ==
  IF \E pair \in Pairs : pair[1] = path
  THEN (CHOOSE pair \in Pairs : pair[1] = path)[2] ELSE ""

-----------------------------------------------------------------------------
(* What a successful call does to the store: what the comments of Client    *)
(* say, but for Delete.                                                     *)
Changed(p, kind, value, ttl) ==
  /\ witness.after[p].kind = kind /\ witness.after[p].value = value
  /\ witness.after[p].ttl = ttl
  /\ \A q \in Paths \ {p, Dir} : witness.after[q] = witness.before[q]
Gone(ps) ==
  \A q \in Paths : witness.after[q] = IF q \in ps THEN Absent ELSE witness.before[q]

Documented ==
  LET c == call
      before == witness.before[c.path]
  IN  CASE c.op \in Reads -> witness.after = witness.before
        [] c.op = "Set" -> Changed(c.path, "value", c.value, c.flag)
        [] c.op = "ClearTtl" -> before.kind = "value" /\ Changed(c.path, "value", c.value, FALSE)
        [] c.op = "SetOrdered" ->
             \E i \in DOMAIN Ordered : /\ witness.before[Ordered[i]] = Absent
                                       /\ Changed(Ordered[i], "value", c.value, FALSE)
        [] c.op = "Delete" -> before.kind = "value" /\ Gone({c.path})
        [] c.op = "AddDirectory" -> before = Absent /\ Changed(c.path, "dir", NoValue, c.flag)
        [] c.op = "UpdateDirectoryTtl" -> before.kind = "dir" /\ Changed(c.path, "dir", NoValue, TRUE)
        [] c.op = "DeleteDirectory" ->
             /\ before # Absent /\ Gone({Dir} \union Below(Dir))
             /\ c.flag \/ \A q \in Below(Dir) : witness.before[q] = Absent
        [] c.op = "CompareAndSwapIf" ->
             /\ c.old # NoValue => before.value = c.old
             /\ c.index # 0 => before.index = c.index
             /\ c.exist # None => (c.exist = "true") = (before # Absent)
             /\ Changed(c.path, "value", c.value, FALSE)
        [] c.op = "CompareAndDeleteIf" ->
             /\ c.old # NoValue => before.value = c.old
             /\ c.index # 0 => before.index = c.index
             /\ Gone({c.path})

(* Why a call may be refused.  The comment of Delete has "the key or empty  *)
(* directory to delete", but its request says neither dir nor recursive:    *)
(* etcd refuses it for every directory, and Delete removes values only.     *)
Refusable ==
  LET c == call
      before == witness.before[c.path]
      noPlace == before.kind = "dir" \/ (c.path # Dir /\ witness.before[Dir].kind = "value")
      unmet == \/ c.old # NoValue /\ before.value # c.old
               \/ c.index # 0 /\ before.index # c.index
               \/ c.exist # None /\ (c.exist = "true") # (before # Absent)
  IN  CASE c.op \in Reads -> before = Absent
        [] c.op = "Set" -> noPlace
        [] c.op = "ClearTtl" -> before.kind # "value"
        [] c.op = "SetOrdered" ->
             before.kind = "value" \/ \A i \in DOMAIN Ordered : witness.before[Ordered[i]] # Absent
        [] c.op = "Delete" -> before.kind # "value"
        [] c.op = "AddDirectory" -> before # Absent
        [] c.op = "UpdateDirectoryTtl" -> before.kind # "dir"
        [] c.op = "DeleteDirectory" -> 
             before = Absent \/ (~c.flag /\ \E q \in Below(Dir) : witness.before[q] # Absent)
        [] c.op = "CompareAndSwapIf" -> unmet \/ noPlace
        [] c.op = "CompareAndDeleteIf" -> unmet \/ before = Absent

(* A call that returns a reply has done what its comment says and nothing   *)
(* else, and the reply is the answer to it; one that throws a               *)
(* ReplyException has changed nothing and had a reason; after a             *)
(* ClientException it has been done or not.  Delete alone does less than    *)
(* its comment says: a directory makes it throw, empty or not.  This is so  *)
(* whatever the handle was used for before, and however earlier transfers   *)
(* broke off (Client, internal::Curl, RapidReply).                          *)
OutcomeIsTrue ==
  callAt = "idle" =>
    CASE outcome = "reply" -> /\ Documented /\ writeStream[1].of = calls
                              /\ call.op = "Get" /\ witness.after[call.path].kind = "value" =>
                                   EtcdGet(call.path) = witness.after[call.path].value
      [] outcome = "ReplyException" -> witness.after = witness.before /\ Refusable
      [] outcome = "ClientException" -> witness.after = witness.before \/ Documented
      [] OTHER -> TRUE
=============================================================================

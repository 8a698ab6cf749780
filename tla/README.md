# hvbench: specifications, model checks and proofs

## The system

hvbench drives OpenFlow requests of many tenants through an SDN hypervisor and
measures response delays. One process (`src/src`) has these parts.

| Part | State | Operations | Talks to |
|---|---|---|---|
| `HVBench` | `tenants_`, `nodes_`, `shutdown_` | `create`, `run`, `_onChange` (new tenant, new node, shutdown), `_onChangeTenantConf`, `_onChangeGlobal` | three etcd watch threads call it; it calls `Tenant`, `Node`, `OutputBase` |
| `Tenant` | `hvcontroller_`, `msg_generator_`, `thread_` | `start`, `_run`, `onChange`, `stop` | its own thread; etcd; its controller and generator |
| `HVBenchController` | `switch_up`, `conn`, `running`, `counters_` | `connection_callback`, `message_callback` (event loop threads), `run`, `setupSwitch`, `accept` (tenant thread), `stop` (main thread) | libfluid, generator, latency statistics, output |
| `OFLatencyStats` | `reply_waiting_list`, `stats_latency_` | `sent`, `received`, `reset`, visited by `Collector` | tenant thread and event loop threads |
| `ConcurrentQueue` (moodycamel) | producers, blocks, block indices, free list, hash of producers | `try_enqueue`, `try_dequeue`, tokens, bulk forms | storage of `reply_waiting_list` |
| Generators | schedule, identifier counter, weights | `next`, `peek`, `update` | tenant thread, watch thread |
| Output (`OutputBase`, `KafkaOutput`) | `study_id_`, `run_id_` | `update_study`, `write` | watch thread, every tenant thread, Kafka |
| Kafka connection (libkafka_asio) | connection, read and write state, two queues | `AsyncConnect`, `AsyncRequest`, `Close`, the completion handlers | one `io_service` thread |
| Kafka wire protocol | requests, responses, sets of messages | builders, sizes, reading, writing, iterators | the connection's streams |
| etcd client and `Watch` | the curl handle; watch URL, index, failures left | `Get`, `Set`, ..., `Watch::Run` | etcd server, callbacks of `HVBench` |
| rapidjson | parser, document, writer, values | parse, build, write | etcd client, output |
| `HVBenchNode` / `BaseOFClient` | connection, event loop, connecting thread | `start`, `stop`, `try_connect`, callbacks | libfluid, hypervisor |

Everything that is published goes the same way: the tenant's thread takes a
request from its generator, sends it to the hypervisor over the connection a
switch has opened, and records it; an event loop of libfluid gets the reply and
looks its request up; once per second the tenant's thread copies the figures
into a `Collector`, resets them, and `KafkaOutput` hands the text to the one
Kafka connection of the process. etcd tells the instance, through three
watches, which tenants and nodes to start, what to change at run time and when
to stop.

### What is hard about it, and what makes each part correct

| Part | Hard because | Correct when |
|---|---|---|
| `OFLatencyStats` and the sending loop | sent before it is recorded; several event loops drain one list; the list has a fixed pool and its refusals are ignored; replies come late, out of order, twice, or from a further connection under any identifier | a delay belongs to the request its reply answered, unless nobody had asked for the reply; nothing is measured or reported twice; every recorded request is in one place; a reply that finds its request throws away older ones only |
| `HVBench`, `Tenant`, `HVBenchController::connection_callback` | two condition variables, one of them with a flag also written without its mutex; tenants are started, configured and stopped by three threads; joins while mutexes are held | wake-ups are not missed; once stored, the connection is not replaced; a shutdown ends, and ends tenants; the event loop gets back to its replies |
| Kafka connection | handlers posted, not called; operations aborted by a close; deadlines that race with completions; two queues | a request is reported back once and is never lost; one read and one write at a time; the right response goes to the right handler |
| Kafka wire protocol | lengths computed apart from the bytes; messages in messages, compressed; sets that the broker cuts anywhere; errors per partition | the broker understands a request; the caller has what was sent and visits each message once |
| etcd `Watch` | polling one change at a time; failures, exceptions and a history that forgets | no change is skipped or seen twice; the watch gives up when it should |
| etcd client | one handle and one stream for all calls | a call does what it says or has a reason not to, whatever the handle did before |
| rapidjson | two parsers, a table and an explicit stack, four encodings, values moved by copying their bits | the parsers agree; texts and strings come back; each block of memory has one owner |
| Generators | `update` runs on another thread than `next` | the schedule and the weights are those configured |
| Output | `update_study` runs on another thread than `write` | a report names a study and a run that belong together |
| `ConcurrentQueue` | lock-free | nothing is lost, doubled or overlooked; blocks are in one place; the free list makes progress |
| Nodes | handshake, liveness timer, connecting thread, cancellation | a node that has a socket gets its connection and watches it; nothing but a lock lost with a cancelled thread keeps `stop` from ending |

## The modules

Modules for one component, each with its own `Init`, actions and properties:

| Module | Models | Checked by |
|---|---|---|
| `ResponseDelay` | the abstract promise of a response-delay measurement | property `ImplementsPromise` |
| `LatencyStats` | sending loop, `OFLatencyStats`, its queue, collection, event loop threads | `MCLatencyStats`: `LatencyInOrder.cfg`, `LatencyFaults.cfg` |
| `HVBench` | main, watch, configuration, tenant and event loop threads | `MCHVBench`: `HVBench.cfg`, `HVBenchReplies.cfg` |
| `KafkaConnection` | `ConnectionServiceImpl` on `io_service` | `MCKafkaConnection`: `Kafka.cfg`, `KafkaTwoWrites.cfg`, `KafkaHandlerNotCalled.cfg` |
| `EtcdWatch` | `Watch::Run` and etcd's numbered history | `MCEtcdWatch`: `EtcdWatch.cfg`, `EtcdRecovery.cfg` |
| `FreeList` | `struct FreeList` of the concurrent queue | `MCQueue`: `Queue.cfg` |
| `ProducerBase`, `ImplicitProducer`, `ExplicitProducer` | the two kinds of sub-queue, which share indices, blocks and the claim protocol | `MCQueue`: `Queue.cfg`, `QueueRoom.cfg` |
| `ProducerHash` | the list of producers, tokens, and the hash that gives a thread its producer | `MCQueue`: `Queue.cfg` |
| `Dequeue` | which producer `try_dequeue` chooses, with and without a token | `MCQueue`: `Queue.cfg` |
| `OFNode` | `BaseOFClient`, `HVBenchNode` | `MCComponents`: `Components.cfg` |
| `Reports` | `_onChangeGlobal`, `create`, `OutputBase`, `KafkaOutput::write` | `MCComponents` |
| `Generators` | `ConstantGenerator`, `TenantGenerator`, `GeneratorContainer` | `MCComponents` |
| `EtcdClient` | `Client` with the handle it keeps | `MCComponents` |
| `JsonReader`, `JsonHandlers` | both parsers; document, `Accept`, the two writers | `MCComponents` |
| `JsonString` | encodings, escapes, transcoding, byte streams | `MCComponents` |
| `JsonValue` | the memory that values own | `MCComponents` |
| `KafkaWire`, `KafkaRequests`, `KafkaResponses` | numbers, messages and their compression; requests; responses and the iterators over them | `MCComponents` |

`Counts` has the two operators with which `KafkaConnection` and `OFNode` count
what is in a queue: `Positions` and `Occurrences`.

Modules of proofs: `LatencyStatsProofs`, `EtcdWatchProofs`, `HVBenchProofs`,
`KafkaConnectionProofs`, `QueueProofs` (for `Dequeue`, `ProducerHash`,
`FreeList` and what is read from `ImplicitProducer`), `ImplicitProducerProofs`, `ComponentProofs` (for `OFNode`,
`Reports`, `Generators`, `EtcdClient` and `JsonReader`), and `NumberProofs`, lemmas
about `Counts` and about quotients and rests.

`MCQueue` and `MCComponents` explore several components in one run each: the
variable `part` says which one moves, and the others stay in one initial state,
so that the states of a run are the sum of the parts', not their product.

Definitions whose names end in `_Something` (`Callback_NoReset`,
`Match_AnyXid`, ...) are variants of the definition that follows them, each
with a mistake the code could have; no specification uses them. They serve to
show that a property can fail: `mutants` in `PROJECT.json` lists which.

### ResponseDelay

The promise, whatever data structure keeps it: requests are issued under fresh
identifiers, may be answered, and an answered request may be measured, once,
with its own type and time stamp and a later reception. Not measuring a request
is allowed. The library's statistics are best effort: a reply that overtakes
its record is not measured.

### LatencyStats

| State | Code |
|---|---|
| `pc`, `msg`, `idx`, `counters_` | where `HVBenchController::run` is (line 200-248), `next`, `TenantGenerator::_idx`, `counters_` |
| `reply_waiting_list`, `enqueued`, `dequeued` | the queue of `OFLatencyStats`; the two counters give the blocks in use |
| `alive`, `to_switch`, `replies` | `OFConnection::is_alive`, the two directions of the wire |
| `recv[w]` | a thread inside `OFLatencyStats::received`, with the entry it has dequeued |
| `stats_latency_`, `published`, `lost` | the accumulators since the last reset, what a `Collector` has copied, what a reset dropped in between |
| `issued`, `answered`, `overflowed`, `discarded`, `missed` | history |

`NextRequest`, `Stamp`, `Send` and `Record` are the sending loop in the order of
the code: the clock is read (line 230), the request is sent (235) and only then
recorded (243), so that a reply may be handled before its record exists.
`Visit` and `Reset` are the two critical sections of a collection (line 304,
305). `ReplyArrives`, `Discard`, `Match`, `Exhausted` and `Account` are
`received`, one step per `try_dequeue` and one for the critical section. A
request without a reply (flow modification, packet out) is not recorded.
The accumulators are sets of samples, since mean, minimum and maximum are
functions of them. `Faults` says what the environment does: reorder replies,
lose them, close the connection, or send replies nobody asked for.
`message_callback` does not look at the connection and `received` not at
whether a request was answered before, so such a reply (`UnaskedReply`), from a
further switch whose `FEATURES_REPLY` carries an identifier of its own choice,
or from the own one a second time, may carry any identifier, also one that is
outstanding: it is then credited to that request. `unasked` remembers the
identifiers; `SampleGenuine` says that no sample is wrong for another reason,
and the promise of `ResponseDelay` is kept where there are none.

The queue is a FIFO sequence that refuses when no block is free: one thread
produces, each thread that consumes takes the oldest element at one instant.
While another thread is dequeuing, `try_dequeue` may also fail with an entry
there (`Exhausted`). What moodycamel's queue does step by step is in the
modules below.

### HVBench

The threads of one instance. `watch` handles one event at a time (`NewTenant`
with `InsertTenant`, `NewNode`, `IgnoreOther`, `Shutdown` with
`NotifyShutdown`); `ChangeTenantConf` is the configuration thread; `main` goes
through the wait for the shutdown and the stopping of each tenant; `ten[t]` is
the place of a tenant's thread in `Tenant::_run` and `HVBenchController::run`;
`cb[t][l]` the place of an event loop in `connection_callback`.
`mut_switch_up` and `wait_shutdown` say who holds the mutex: `run` of the
controller keeps its one from its wait until it returns.

Nothing is assumed of how long a step takes: the second that `setupSwitch`
sleeps orders nothing, so `run` may use the connection before the callback that
found no switch has stored it. The process then ends on a null connection, or
on one that is replaced while it is used (`AdoptConnRaces`); both are the
outcome "connection". `ConnStable` is about a tenant whose callbacks are through
(`Through`), and `EndsCleanly` says that this outcome needs a callback that is
not.

Assumed: an insertion into `tenants_` and a look-up in it are atomic (the code
has no lock: see the hazards), and reads of etcd during a tenant's set-up
succeed. A scenario whose operator is `Patient` has one who adds each tenant and
node once, and changes or stops tenants once they send.

### KafkaConnection

Every member function of `ConnectionServiceImpl` is an operator on the record
`c` (its fields, the socket, the operations under way and the handlers that
`io_service` will call, in order); a step of the thread runs the first handler.
The operations that wait for the same thing are a queue, as in boost's reactor,
and complete in the order they began: `resolving`; `reading`; and `writing`,
which the write of a request shares with the connect, as both wait until the
socket can be written to. Operations complete, fail, or are aborted by a close;
a deadline that runs out posts its handler, which looks whether the deadline
still holds, and may have been set again. The configuration is `KafkaOutput`'s: `auto_connect`, one
broker, and acknowledged requests. `world` says how many requests there are and
which faults may happen.

Left out: handlers of cancelled timers, which return at once; a broker name
with several addresses; the bytes that are left in the stream after an
oversized response, since the connection is closed then.

### EtcdWatch

`log` is etcd's history of changes, `Window` how much of it etcd remembers.
`Get`, `Answer`, `Callback` are one turn of `Watch::Run`; `GetOutdated`,
`Recover` and `RecoverFails` the handling of error 401; `GetFails` and
`CallbackThrows` the other ways into the `catch`. An answer without a body is
not one of them (`EmptyAnswer`): it is parsed into a null document, whose
`HasMember` asserts, and the process ends. As in the code a recovery
counts as a failure, and the URL it builds lacks `&recursive=true`. The watched
key is a directory, as in all three uses in hvbench. `covered` counts a change
as shown when the recovery's GET came after it; whether the callback can use it
is another matter (`HVBench::_onChange` ignores the action `get`, and the GET
is not recursive).

### The concurrent queue

Every step is one access to shared memory, and memory is sequentially
consistent. Indices count modulo `IndexMod` and start close to their wrap.

- `FreeList`: `Push` and `Pop` are `add` and `try_get` with their loops; a node
  carries its count of readers and the mark `SHOULD_BE_ON_FREELIST`, at a width
  of four bits.
- `ProducerBase`: `dequeueOptimisticCount`, `dequeueOvercommit`, `headIndex`
  and `tailIndex`, and the consumers' steps from the first look at the tail to
  the claim (`dequeue` is `dequeue_bulk` with `max = 1`).
- `ImplicitProducer`: `enqueue` and `enqueue_bulk` with the way back when no
  block is left, the circular index that consumers search, its growth, and the
  return of a block whose elements are all gone.
- `ExplicitProducer`: the same for a producer token, whose ring keeps its blocks
  and uses empty ones again. `gaveUp` notes that an `enqueue_bulk` failed after
  it had taken blocks: from then on the ring has more blocks than the index
  counts, and nothing is claimed of it except by the run `queue_reused_slot`.
- `ProducerHash`: `get_or_add_implicit_producer` with tables that are put in
  front of each other, `recycle_or_create_producer`, and tokens that come and
  go. A new table is the smallest doubling of the current one that the count does
  not fill by half. `MOODYCAMEL_CPP11_THREAD_LOCAL_SUPPORTED` is not defined in
  this build, so the end of a thread is not noticed.
- `Dequeue`: the scan over at most three sizes, and the rotation of consumer
  tokens. A producer is its number of elements here, and whether other consumers
  have claims on it under way (`claimed`): while they do, a dequeue may come back
  with any part of what is there, or nothing. `size_approx` is its two loads
  (`ScoreTail`, `Score`), between which others enqueue and dequeue.
  `NothingOverlooked` is about producers that have elements all through a call
  and no other consumer's claim on them meanwhile (`findable`), since a claim
  that found nothing does hide an element enqueued after it until it has been
  given back. Two consumers that keep
  calling can hide the last element from each other by claims that fail, so
  `NoneStarved` is about a caller without competitors; two tokens may keep
  their place on different producers; and since the offset is compared once by
  `==` (line 1043) and once by `>=` (line 1102), a token used both ways can step
  over its quota.

### OFNode, Reports, Generators

`OFNode`: the connecting thread that tries again (`Retry`), the handshake, echo
requests with one outstanding, `stop` on another thread. Without a socket the
connecting thread ends and nothing starts another (`MakeSocket`, "failed"). The
constructor of the connection works inside libevent under the lock of the node's
`event_base` (`EnterLibevent`), which `stop` and the event loop need
(`BaseLocked`); a thread cancelled in there may die with the lock
(`DiesInLibevent`), and `stop` then hangs. The use of a deleted connection is the
outcome `broken`.

`Reports`: two GETs and two `update_study`, against `write` of a tenant's
thread. `boost::mutex::scoped_lock(this->class_lock_);` constructs a temporary
that is gone at the end of its statement, so the copy of each string is a step of its
own and a copy of a half-assigned string may be anything. Until the watch has
handled its first change its URL has no `waitIndex` (`indexed`): a change that
comes between two requests is missed, and one whose GET throws is not delivered
again.

`Generators`: `update` replaces the distribution on another thread than `next`;
`peek` and `next` of the container are two calls. The constructor of
`TenantGenerator` adds its first gap to a `_next_msg` that nothing has set, so a
schedule starts anywhere (`Leftovers`).

### EtcdClient

Every call of `Client` makes its request with the options that are still in the
one handle, and takes its answer from the one stream, which keeps what a
transfer that broke off has written. `ResetHandle` is where the code resets it.
`OutcomeIsTrue` says of every outcome what it tells: a reply, that the call has
done what its comment says (`Documented`); an error, that nothing changed and
why (`Refusable`). `Delete` is the exception to its comment: `etcd.hpp:299` has
"the key or empty directory to delete", but the request names neither `dir` nor
`recursive`, and etcd refuses it for every directory.
`CompareAndSwapIf` with a string literal picks the overload for `bool`;
`enable_header_` is never initialised, so it is either; an empty body ends in
`RAPIDJSON_ASSERT`. The server's side, from the documents of etcd, is external:
a store maps each path to what is under it, and nothing is under a key whose
directory is not there (`Stores`).

### rapidjson

`JsonReader` reads a text of tokens with both parsers side by side, the
recursive one with its stack of calls made explicit and the iterative one with
its table; `JsonHandlers` has the handlers behind them: the document's stack,
`Accept`, and both writers with their levels. `JsonString` is the same question
one level below: code units, escapes, four encodings and five byte streams. A
low surrogate alone is accepted by the reader; the detection of an encoding
needs four bytes and two ASCII characters in front. `JsonValue` has objects,
arrays and strings with the blocks they own, `AddMember`, `RemoveMember`,
`PushBack`, copies, moves and comparison; an object with a duplicate name can
equal itself (`document.h:699`), although the note at line 688 says that such
objects are never equal.

### Kafka wire protocol

`KafkaWire` writes and reads bytes. zlib and snappy put a mark in front of what
they pack. `KafkaRequests` puts requests together as the caller does, computes
their sizes and writes them; a broker reads them. `KafkaResponses` is the other
direction, with the iterators over nested sets and over the partitions of a
fetch. The modules keep what the code does against its comment "Ignore partial
messages" (`message_read.h:54`): `ReadMessageSet` compares a message's size with
what is left including its header, so that a message that lacks no more than 12
bytes is given to the caller, and passes over another with `seekg` on a stream
that cannot seek, after which the messages of all later partitions are lost;
`ResponsesRead` states both. And they keep what it does in cases its comments do
not speak of: the size of an `OffsetCommit` request leaves out the names of the
topics (`RequestsUnderstood` is about the others); a good message after
a corrupt one overwrites the error; checksums and magic bytes are not looked
at; bytes of length 0 are read as none; the first error of a partition drops the
partitions of the same topic that were read before it; a snappy stream whose
header is cut short is an empty success. Strings longer than 32767 and values
shorter than snappy's magic (which `std::equal` reads past) do not occur in the
bounds.


## The runs

| Run | Question | Bounds | States |
|---|---|---|---|
| `latency_in_order` | When the switch answers in order on one connection, is every request that awaits a reply settled? Does the measurement implement `ResponseDelay`? | 3 requests, 2 types (one without reply), 3 blocks of 2, 2 clock values | 5.7k |
| `latency_faults` | With replies reordered, lost, repeated or unasked for, a second event loop and a connection that closes: are samples genuine and single, is nothing lost track of? | 3 requests, 1 block of 2, so that the list is full, 2 clock values, unasked replies with 1 identifier | 1.7M |
| `hvbench` | Two switches that connect at once, with an operator who does anything: are wake-ups missed, is a stored connection replaced, on what can the process crash? A patient operator: does the process end, with controllers and generators there when they are used, after all tenants? | 1 tenant, 2 event loops, 1 node, 2 events; 2 tenants, 1 event loop, 3 events | 69k |
| `hvbench_replies` (violated) | Does the adopted connection's event loop always get back to its replies? | 1 tenant, 1 event loop | |
| `kafka` | With every operation failing at any time and deadlines racing: is each request in one place, is each read watched? Without failures: does each handler get its own response, is the write queue emptied? | 2 requests with all faults; 5 requests without | 32k |
| `kafka_two_writes` (violated) | Is there at most one write on the socket? | 2 requests | |
| `kafka_handler_not_called` (violated) | Is each handler called at last? | 2 requests | |
| `etcd_watch` | Is a change skipped or repeated, is it handled at last, when does the watch give up? | 5 changes, 2 remembered, 3 failures | 59k |
| `etcd_recovery` (violated) | Is a change after a recovery handled like any other? | the same | |
| `queue` | Is the free list lock-free, does it keep its nodes? Does each kind of producer deliver each element once and keep its blocks in one place, and does a consumer find the block of what it has claimed? Does a thread keep its producer? Does a consumer overlook a producer with elements that nobody else claims, or starve? | see below | 296k |
| `queue_reused_slot` (violated) | Is there room in the index for a block that is used again? | the same | |
| `components` | The questions of the modules under `MCComponents`, one property or two each | see below | 227k |

`queue`: blocks of 2, 4 blocks, indices modulo 16 that start 2 or 4 before
their wrap, block indices of 2 that may grow once; two consumers against 2 or 3
elements, and one against a producer that enqueues 7 in bulk and runs out of
blocks; two threads and two nodes on the free list; three threads and two
tokens on the list of producers, with a hash table of two, three resizes or a
failing allocation; up to four producers to choose from, one more than the scan
looks at, with a quota of 2 and offsets modulo 4.

`components`: nodes: 3 messages, 2 times unreachable, 2 timers; reports: 2
changes, 1 failure, 1 report; generators: gaps of 0 and 2, 2 updates, a horizon
of 4, schedules that start 0 or 1 after the earliest; etcd client: 2 calls, 1 of them broken off, on three stores; JSON texts
of 8 tokens; strings of 2 pieces of 10 code points on both sides of every
length of UTF-8 and of the surrogates; values nested twice, 4 blocks, 2 items;
Kafka requests of 3 calls; responses of 2 partitions (one more behind an empty
one), sets with corrupt, packed and snappy-streamed messages, cut by 5 bytes
(into a message) or by 15 (behind one).

Why the bounds are enough: the measurement's hazards need a request being
recorded, one before it and one after it, and a list that is full with two; the
proofs cover all larger values. A third tenant or event loop adds no pair of
threads that two do not have: a tenant's threads meet the main, watch and
configuration threads only,
and `HVBenchProofs` covers every number of them for the safety properties. Two Kafka requests are enough for both queues
to be in use while the other request is written, read or reported; without
failures five fill them (three requests with all failures, 2.4 million states,
keep the invariants too, but liveness over them takes longer than a regular run). Five changes with a memory of
two let etcd forget twice; three failures in a row mix the three kinds of
failure. In the queue every protocol is between a producer and a consumer or
two consumers of one block, and the bounds let each index wrap, each block be
used twice and each index be replaced once. A text of 8 tokens holds an object
in an array with a sibling; two pieces of a string are one beside another, which
is all that surrogates and escapes look at.
`CHECK_DEADLOCK FALSE` is in every configuration: a run out of its bounded
requests, events or changes stops, as does a process that has ended.

### Fairness

- `LatencyStats`: weak fairness of the tenant's thread, the switch and the
  event loops: they are threads, or processes elsewhere, that keep running.
  Strong fairness of `Stamp` alone: a collection can be due again and again in
  the model, but `accept` runs at most once per second in the code, so a
  request that is due is sent.
- `HVBench`: strong fairness of each tenant's thread, because it is enabled only
  while the mutex it wants is free; a mutex that is given back again and again
  is got. The watch and main threads and the callbacks take finitely many steps
  in every run, so that strong fairness of all of them together is fairness of
  each. Nothing is assumed of the operator, of switches or of spurious wake-ups.
- `KafkaConnection`: weak fairness of the `io_service` thread (`asio_work_`
  keeps it running) and of operations that can succeed. Failures are not fair.
- `EtcdWatch`: weak fairness of the watch's thread and of etcd's answers.
- `MCQueue`, `MCComponents`: weak fairness of threads that are inside a call of
  the queue, of a node's connecting thread and event loop, of its `stop`, and of
  the thread of the global settings. The parts exclude each other, so that
  fairness of a disjunction over parts is fairness of each. `FreeListLockFree`
  assumes of the threads together only that one of them moves.

### What the violated runs show

- `hvbench_replies`: `connection_callback` raises `switch_up` (line 72 of
  `HVBenchController.cpp`) before it takes the mutex (line 76), and `run` keeps
  that mutex from the moment it sees the flag until it returns. A tenant that
  first looks at the flag in between, or wakes up by itself, leaves the event
  loop of its own connection blocked: it sends, and no reply is handled until
  the tenant is stopped.
- `kafka_two_writes`: `HandleAsyncAutoConnect` is posted and does not look at
  `write_state_`. A request enqueued between the connection and that handler
  starts a write, and the handler starts another for the head of the queue;
  `connection_service.h:68` says there is one.
- `kafka_handler_not_called`: the end of a read calls `NextRequest`, never
  `NextResponse`. A response queued while another one is read waits for the end
  of a later write; `basic_connection.h:128` promises the call.
- `etcd_recovery`: the URL after error 401 lacks `&recursive=true`, so a watch
  on a directory sees nothing below it any more.
- `queue_reused_slot`: an explicit producer's `enqueue_bulk` that fails restores
  `pr_blockIndexSlotsUsed` (`concurrentqueue.h:1938`) but keeps the blocks it has
  put in the ring; a later call that uses a block again writes to a slot of the
  index that another block, with elements, still has, although line 1706 says
  there is room. hvbench uses neither tokens nor bulk operations.

What the models also show, where no document of the repository says otherwise:
a failed read leaves `read_state_` busy, and all responses after the
reconnection stay queued; a connection whose success is reported after `Close`
counts as connected without a socket until its next write fails; responses of a
lost connection that stay in `read_queue_` shift the answers after a
reconnection; a shutdown that comes while a tenant is set up finds a null
controller, a change of configuration at that time a null generator; a shutdown
never ends for a tenant to which no switch has connected (`run` does not look
at `running` while it waits); a node whose `socket()` fails never connects, and
one that is stopped while it makes its connection may hang.

What they show against a document, in the properties named above and without a
run that is expected to fail: `src/README.md:17` has "Add, reconfigure  and
remove tenants at run-time", but `_onChange` ignores the deletion of a tenant's
key (`IgnoreOther`) and nothing else removes one; `etcd.hpp:474` says of an empty
reply that the watch "tries to restart", but it ends the process (`EmptyAnswer`);
`etcd.hpp:299` lets `Delete` remove empty directories (`Refusable`); and
`message_read.h:54` ignores partial messages (`ResponsesRead`).

## The proofs

`tlapm` checks every step. The only assumptions are those on the constants
(`LatencyConstants`, `EtcdConstants`, `HVBenchConstants`, `KafkaConstants`,
`DequeueConstants`, `HashConstants`, `ProducerConstants`, `ImplicitConstants`,
`GeneratorConstants` and `EtcdClientConstants`), and all are evaluated in the
runs. Every theorem is about the safety part of a specification and uses no
fairness.

**LatencyStatsProofs**, for all numbers of requests,
clock values, blocks, block sizes, types, event loop threads and all sets of
faults:

| Theorem | States |
|---|---|
| `TypeCorrect` | `Spec => []TypeOK` |
| `GenuineSamples` | `Spec => []SampleGenuine`: wrong only by a reply nobody asked for |
| `MeasuredOnce` | `Spec => []SampledOnce` |
| `OnlyOlderDiscarded` | `Spec => DiscardsOnlyOlder` |
| `KeepsPromise` | `"unasked" \notin Faults` implies `Spec => ImplementsPromise`, the refinement of `ResponseDelay` |
| `EveryRequestKept` | `Spec => []Conservation` |

None of these properties is inductive. That a sample is genuine needs that the
entry in a thread's hands is an issued request and the reply it was found for
has arrived, or was not asked for; that it is single needs that what a thread holds or has measured
left the list before everything still in it (`LeftInv`); and that follows from
the list's order, strictly increasing and below the request about to be
recorded (`QueueInv`), which is the newest the counter has given out
(`IssueInv`). `WireInv` and `RecvInv` say where identifiers on the wire and in
the threads' hands come from, and that their time stamps lie in the past. One
lemma per group of actions shows that it is preserved; the refinement then has
one case per action, a stutter but for `Send` (`Issue`), `ReplyArrives`
(`Answer`) and `Account` (`Measure`).

`EveryRequestKept` adds that every request that awaits a reply is in exactly
one of six places (`Kept`): waiting, in a thread's hands, measured, discarded,
overflowed, or sent and about to be recorded, which no thread can hold or
discard yet since it is newer than everything that has been in the list. The
steps move one identifier from one of the six to the next, and lemmas about six
disjoint sets say what such a move leaves of the split.

**EtcdWatchProofs**, for all numbers of changes, sizes of etcd's memory and
numbers of failures:

| Theorem | States |
|---|---|
| `TypeCorrect` | `Spec => []TypeOK` |
| `NothingSkipped` | `Spec => []NoneSkipped` |
| `GivesUp` | `Spec => []GivesUpInARow` |

`NoneSkipped` speaks of indices up to `prev_index_`; it is preserved because
the request names the index after it (`UrlInv`), the answer is the first match
after what was asked for (`ReplyInv`), and nothing handled lies after
`prev_index_` (`CalledInv`). `GivesUpInARow` holds because `max_failures` and
the failures in a row always add up to `MAX_FAILURES` (`CountInv`).

**HVBenchProofs**, for all numbers of tenants, all sets of nodes and event loops
and all scenarios:

| Theorem | States |
|---|---|
| `ConnectionStays` | `Spec => ConnStable` |
| `EndsWell` | `Spec => []EndsCleanly` |

The inductive invariant has four parts. `Types` has the places of the threads.
`AdoptInv` follows the connection: `switch_up` is only raised by a callback that
stores the connection next, so once the callbacks that found the flag down are
through, there is a connection; later callbacks see the flag and stand aside. `OrderInv`
follows `main` through the map: the tenants of `before` that lie behind the
cursor are done, stay done, and the next to be stopped is the least that is
left (`NextTenant`). `CleanInv` is what an operator's patience leaves true: a
tenant or node that is announced is new and announced once (`Fresh`, about the
queue of changes), after the shutdown has been announced no tenant is being set
up (`Calm`), and a tenant past its set-up has its generator (`Configured`); so
no assertion fails and no null controller or generator is used. The connection is
another matter: it is the one thing the process can still end on, while a
callback is between the flag and the store. The proof also needs `OrderInv`
(`Signal` comes after a shutdown).
One lemma per group of actions, for each part.

**KafkaConnectionProofs**, for all numbers of requests, all faults and all times
at which deadlines run out:

| Theorem | States |
|---|---|
| `KafkaInvariant` | `Spec => []ConnInv` |
| `RequestsInOnePlace` | `Spec => []InOnePlace` |
| `ReadsWatched` | `Spec => []ReadWatched` |
| `AnswersMatch` | `Spec => []ResponsesMatch` |

A handler of the connection calls several member functions, which call each
other, so the proof follows the code: each operator has a lemma (`Keeps`,
`Serves`) that says what it does to the places of the requests, to the timers
and to the read that may be under way; a step of `io_service` takes a request
out of its place and the member functions put it into another (`Moved`).
`InOnePlace` is inductive on top of the types. `ReadWatched` is not: that no two
reads start needs that the handler of a read that has succeeded counts as a read
until it is called, and that `read_state_` is busy as long (`ReadBound`); that a
read is watched needs that its deadline is never off (`Watched`), and that the
handler of a deadline that has run out is in the queue until it is called
(`Rings`), across every cancel and every new start of the same timer.

`ResponsesMatch` says something of the answers only; that they are right needs
the whole course of the requests. Its invariant, `MatchInv`, holds while nothing
has failed. It names eight marks (`Marks`): how many requests have been enqueued,
sent and written, and of how many responses have been awaited, begun, sized, read
and given. Each mark is at most the one before it (`Order`); the two queues, the
operations of the socket and the responses the broker has still to give hold
exactly the requests between two marks, in their order (`Queues`); the handlers of
each kind wait in `io_service`'s queue in that order (`Lines`); and while the
connection is being made one thing is under way and nothing is sent
(`Connection`). So the response the broker gives next is that of the one request
being read, also when two writes are under way at once, which the code does not
prevent (`OneWritePending`, the run `kafka_two_writes`). The types and the
timers come from `ConnInv`.

**QueueProofs**, for all numbers of threads, producers, elements and tokens, all
hash values, capacities, quotas and widths of the offset, and all failures of
allocations:

| Theorem | States |
|---|---|
| `OneProducerEach` | `HashSpec => []OwnProducer` |
| `ConsumerOverlooksNothing` | `DequeueSpec => []NothingOverlooked` |
| `NodesStayKept` | `FreeListSpec => []NodesKept` |

`OneProducerEach` rests on there being a producer for each thread (`Owns`) that
every table and every local agrees with. An entry can be reached in each table
it is in, since no slot before it was free when it was written and none becomes
free again (`EntriesOf`); so a probing that meets a free slot has proved that
the table does not have the thread (`ProbingEnds`). What a thread has found out
about the tables stays true although others insert and resize meanwhile, because
they write free slots only, under their own keys, and a new table has none
(`Grown`, `OthersKeep`): this is why the look-up needs no lock. A thread that
has looked through all tables is in none of them, so the producer it creates is
its first. Producers that go back to the list belong to tokens (`TokensInv`).

`ConsumerOverlooksNothing` needs, for each place of the search, which producers
it has passed, and that none of them is findable any more (`SearchInv`): with a
token these are an interval of the circle that starts at the token's producer
(`Passed`). What a dequeue leaves of a findable producer is less than it wanted
only if nothing is left (`DequeuedIs`), and a size that is loaded in two steps is
not too small for one (`ScoreTailStep`).

`NodesStayKept` needs that the free list has no cycle (`Acyclic`; `Chain` is the
least set that has the head and is closed under `freeListNext`), and one place
for each node: on the list, with a thread, on its way to the list, or left with
a mark for the last thread that refers to it (`Placed`). The reference count of
a node is the number of threads inside `try_get` that have taken a reference,
plus one for the list, and the mark is only left while one of these threads is
still there to see it. This is why a thread that read a head which has since been taken and
put back (the ABA problem) cannot install a stale `next`: while it has its
reference the node cannot be put back on the list, so the compare-and-swap
fails (`Fetched`).

**ImplicitProducerProofs**, for all numbers of consumers, blocks, elements and
index entries, sizes of a block, ranges and first values of the indices, bulk
sizes, and all failures of allocations:

| Theorem | States |
|---|---|
| `EveryBlockInOnePlace` | `ImplicitSpec /\ []ClaimsCovered => []BlocksInOnePlace` |
| `EveryEntryFound` | `ImplicitSpec /\ []ClaimsCovered => []EntryFound` |
| `EveryElementRead` (in `QueueProofs`) | `ImplicitSpec /\ []ClaimsCovered => []ReadsWhatWasEnqueued` |

What they assume of the constants are powers of two: a block divides half the
range of an index, the first block index divides the number of blocks in the
range, and what divides that number still does when it is doubled; and that no
more elements are ever enqueued than an index has values, so that an index
stands for one element.

The hypothesis `ClaimsCovered` says that a consumer whose claim succeeded finds
its elements there: what it takes from `headIndex` does not pass `tailIndex`.
It is a conjunct of `ReadsWhatWasEnqueued`, so the run `queue` checks it in
every state. It is a hypothesis because it does not hold of every behaviour: a
claim compares counters that wrap, and a consumer that stops between reading
`dequeueOvercommit` and its claim, while others fail half a range of claims,
compares numbers that no longer belong together. With 64 bits that takes longer
than any computer runs, but no constant of the model says so.

Neither property is inductive. `ImplicitInv` numbers the blocks the producer
ever filled or prepared: block `n` has the elements from `n * BlockSize` on. It
says that there are offsets `d`, a window of numbers that ends before `a`, and a
function `holds` from numbers to blocks, such that

- block `n` has slot `n + d[h]` of each block index `h`, the current one and
  those a consumer may still be looking at (`Shape`); a key is either invalid or
  that of a block with this slot (`Keys`), and the keys in the window are those
  of the last blocks (`KeysUpTo`). So a consumer that subtracts the key at the
  tail from the one it wants and walks that far gets to its entry, in whichever
  index it began, and a tail that is moved or moved back meanwhile moves both;
- the values in the index are `holds`, one number for each block
  (`HoldsBlocks`);
- a block stays in `holds` until each of its elements is counted, and its count
  is the number of elements that are claimed and no longer pending (`Kept`);
  whoever counts the last one is alone in giving it back, and pending elements
  of two consumers are disjoint (`ClaimInv`). This is what makes the count, which
  several consumers increase, safe to act on;
- the producer's call in progress fits: where it is in the index (`Tails`) and
  which blocks it has taken (`Calls`), so that an enqueue that fails half way
  gives back what it took and nothing else;
- a block is on the free list or in one place of the sub-queue (`Places`);
- what a consumer has read of the index is still so when it uses it (`Looks`).

`EveryElementRead` adds what is in the blocks (`ReadingInv`): an element that is
constructed and that no consumer has moved out yet (`Unread`) is in every block
whose index entry has its number, at the offset of its index (`Contents`). An
enqueue keeps this because a block it constructs in was taken from the free list
or is the tail block, whose other elements it does not touch (`Fills`,
`FilledAt`), and a block is not reused before all its elements are counted. The
consumer that is about to move out has found the entry of its block, so what it
reads at each place is the element of the index it claimed, and no other
consumer has claimed the same.

The destructor is a case of its own (`Gone`). A lemma per action chooses the new
`d`, `a`, `f` and `holds`: growing the index adds an offset, an insertion or
its undoing moves the window by one, and giving a block back removes its number.

**ComponentProofs**, for all messages, numbers of reports and updates, kinds and
numbers of generators, calls, stores, broken transfers and texts:

| Theorem | States |
|---|---|
| `NodesOneEcho` | `NodeSpec => []OneEchoOutstanding` |
| `OnePairReported` | `ReportsSpec => []ReportsOnePair` |
| `ScheduleAsConfigured` | `GenSpec => []HandedAsConfigured` |
| `CallsAsDocumented` | `ClientSpec => []OutcomeIsTrue` |
| `ParsersStayTogether` | `ReaderSpec => []ParsersAgree` |

`NodeInv` counts: echo replies under way, requests on the wire and the flag
`alive` always add up to one. `ReportInv` says at each of the four writes of
`update_study`, and each of the reads of a report, which pairs the ids can be
of. `GeneratorInv` has a lower bound of everything that is due (`ScheduleInv`)
and the types a distribution can draw while its weights are replaced
(`WeightsInv`). `ClientInv` says that when a transfer starts the handle has the
options of this call and no others, and the stream is empty: this is what
`_ResetHandle` and the clearing of the stream are for; the rest is a case per
call about what the server does with its request (`ServedDone`) and why it
refuses one (`RefusedFor`, for which a change must be seen to change something:
no entry is newer than the last change, `Dated`).

`ReaderInv` compares the recursive parser with the table-driven one after each
token. They have sent the same events, and either both have ended, with errors
that belong together, or they are at the same place (`SamePlace`): the state of
`IterativeParse` is the one that stands for the place of `Parse`, the two stacks
have the same open objects and arrays, and their counts of members differ only
`Parse` has counted a member that has just ended and `IterativeParse`, which
counts it at the next comma or bracket, has not yet. The proof goes through the tokens and places one by one.

Only model-checked:

- every liveness property, since TLAPS has no rules for fairness that reach
  `ENABLED`;
- `ExplicitReadsWhatWasEnqueued`, which is about a producer of either kind, for
  the explicit ones; and for both that claims are covered (`ClaimsCovered`), the
  hypothesis of the theorems about `ImplicitProducer`. Without wrapping it is an argument about the order of all
  claims that ever failed or succeeded, and the sum of what consumers have
  claimed and not yet given back, which are sums over a set that these provers
  have no rules for;
- what `KafkaWire`, `KafkaRequests`, `KafkaResponses`, `JsonString`,
  `JsonHandlers` and `JsonValue` compute: they use recursive operators, as the
  code is recursive, and induction over texts and messages of every length is
  beyond the prover.

## Not modelled

- The command line, logging and the text of reports; libfluid, boost and
  libcurl beyond what the models use of them; the bytes of OpenFlow messages,
  which are libfluid's.
- Of the queue: memory orders weaker than sequential consistency, elements whose
  constructors or assignments throw, producers that cannot be allocated,
  `MAX_SUBQUEUE_SIZE`, moving and swapping a queue, and the notice of a thread's
  end, which this build does not have.
- Of the generators: counters that nothing reads.
- Of etcd: the `Server` struct; `RunOnce`, which calls a function
  `get_modified_index` that does not exist and is never instantiated; and
  `etcd_helper`'s write, whose condition is inverted and which nothing uses.
- Of rapidjson: numbers, whose conversion is arithmetic beyond bounded integers,
  `pointer.h`, the memory pool and parsing in place; a value that is added to
  itself.
- Of the Kafka protocol: sizes of sets below zero, and what is read behind a
  message that is cut into (the stream's failure after it is modelled).
- `HVBench`'s map of tenants while it is written and read at once: its outcome
  is undefined behaviour, which no state of the program bounds.

`PROJECT.json` lists every part with its status and every hazard with the
property that watches it, or the reason why none does.

## What could come next

1. A refinement of the queue: `ImplicitProducer` implementing a bounded FIFO
   queue under a mapping of its tail, head and claims, and `LatencyStats` over
   it instead of over a sequence.
2. The composition of `EtcdWatch` with `HVBench::_onChange`: a tenant added
   while a watch recovers.
3. The same invariant for `ExplicitProducer`, whose ring keeps its blocks.

# S-Net runtime: TLA+ specifications

S-Net is a coordination language: *boxes* (functions written in another
language) are connected by *streams* of typed *records*, and *combinators*
(serial, parallel, star, split, feedback) build networks out of networks. This
directory specifies the run-time systems of `src/`: what happens when a
compiled network is built and runs. All paths below are relative to `src/src/`,
where the repository keeps its sources.

## 1. Inventory of the system

### Threading layer (`threading/pthread`, `threading/lpel`)

| part | state | operations | hard behaviour |
|---|---|---|---|
| streams (`stream.c`) | ring buffer `buffer/head/tail/count/size`, `lock`, `notempty`, `notfull`, the two descriptors, `is_poll` | Create, Destroy, Open, Close, Replace, Read, Peek, Write, TryWrite, Poll | producer and consumer in two threads; signals only at the boundaries; Poll takes the lock of one stream after the other and its own thread's lock inside |
| stream sets (`streamset.c`) | circular list of descriptors | Put, Remove, iterator, rotation by Poll | removal during iteration |
| entities (`entity.c`) | `entity_count` with mutex and condition, one thread per entity | Create, Run, Stop, Exit | last thread against `SNetThreadingStop`; failing `pthread_create` |
| monitoring (`monitorer.c`) | circular queue of events, free list, thread | Queue, print, end | signal only when the queue was empty; shutdown with events queued |
| LPEL glue (`glue_decen.c`, `assign.c`) and monitoring (`mon_snet.c`) | counters per box name; monitors of tasks and streams, dirty lists, event buffers | placement; callbacks of the scheduler | buffers that grow, monitors that outlive their stream |

Correct means: streams are bounded FIFO channels, no wakeup is lost, a poll
returns a stream that can be read, a producer never follows a pointer to a
consumer that is gone; the network is not taken down under a running entity; every
event is reported once.

### Stream runtime (`runtime/stream`)

Every entity is a thread that loops: read a record, handle it by its kind
(data, sync, collect, sort, terminate, trigger), write records, perhaps create
or destroy streams.

| part | state | what it does |
|---|---|---|
| `entity/box.c` | instream | runs the box function, passes control records on |
| `entity/parallel.c` | instream, open branches, counter, match counters | routes records to the best matching branch; sort records around them; starts initialisers; removes branches and itself |
| `entity/collector.c` | ready set, waiting set, current stream, pending sort record, count of streams | merges branches; sort records are barriers; opens and drops streams at run time |
| `entity/split.c` | instream, table tag value -> replica | creates replicas on demand, multicast over a tag interval |
| `entity/star.c` | instream, next stream, `sync_cleanup`, counter | chain of dispatchers that grows on demand and garbage-collects itself |
| `entity/syncro.c` | storage per pattern, match count | joins records, then hands its instream on and ends |
| `entity/feedback.c` | collector, dispatcher and buffer around an operand | loops records back until they match the exit pattern |
| `entity/filter.c` | list of instructions | relabels records; identity filters create no entity |
| creation functions, `utils/locvec.c`, `netif/networkinterface.c` | location vector, info, destination counter | build the network, on several nodes alike |
| `netif/` | labels, interfaces, parser, printer | the tasks that feed and drain the network |
| `observer/` | connections, registered and waiting observers, dispatcher | report records to listeners and wait for their answers |
| `utils/` (`queue.c`, `hashtab.c`, ...), `../common/` (`record.c`, `variant.c`, `expression.c`), `include/*-template.c` | containers, records with references to data | |

Entities interact through streams only, but they pass *streams* to each other:
a synchrocell that has fired puts its instream into a sync record, and whoever
reads that record reads the passed stream from then on and destroys the old
one; a collect record announces a new stream to a collector. Around
this the networks that model state (a star of a synchrocell and a parallel
composition) dissolve behind the record that has passed through.

Correct means: a deterministic combinator keeps the order of the records; a
sort record of an enclosing combinator stays a barrier; nothing is lost or
duplicated; a stream has one reader; nothing touches a destroyed stream; after
the input's termination record everything ends.

### Front runtime (`runtime/front`)

A second implementation of the combinators, without a thread per entity. A fixed
graph of nodes and streams (`xnode.c` and the creation functions) is unfolded into
*landings* and *stream descriptors* on demand. Workers (`xworker.c`) hold *licences* to
records at a landing, lock it, process, and steal licences from each
other. Landings that have become the identity are dissolved by their writer.
Determinism is kept by *detrefs* (`xdet.c`): stacks of counted references that
a record carries and a collector waits on.

Correct means: licences and records match; reference counts are exact and everything is given back in
the end; order where it is promised; the workers end.

### Distribution layer (`distrib/`)

Every node builds the network on its own and keeps the part that is located
there. Input and output managers (`imanager.c`, `omanager.c`) move records between
nodes with flow control; `reference.c` counts references to data that stays on
its node until somebody needs it; `mpi/`, `scc/` and `nodist/` transport
messages. Correct means: the nodes number their streams alike; records keep
their order and their data; counts of owner and holders agree while fetches,
updates and answers cross; the two locks of the input manager do not block each other; all nodes stop.

### Others

Box language interfaces (`interfaces/`: `c4snet` and `sac4snet`, both modelled in part),
`util/` (memory, metadata), the SVP runtime (`runtime/svpgw`). `PROJECT.json`
lists all parts with their status, and every place where the code is hard to test ("hazards").

## 2. Modules

| module | models |
|---|---|
| `FifoChannels` | what streams promise: bounded FIFO channels (abstract specification) |
| `Stream` | `threading/pthread/stream.c`, the iteration of `streamset.c` |
| `StreamProofs` | theorems about `Stream`, with proofs |
| `Network` | what entities share: records, channels, blocking writes, life cycle of streams |
| `Box` (with filter and nameshift), `Parallel`, `Collector`, `Split`, `Star`, `SyncCell`, `Feedback` | the entity of that name |
| `StreamNet` | their composition between the input and the output task, and the properties of networks |
| `NetEnds`, `NetTasks`, `NetProofs` | theorems about `StreamNet`, with proofs: the reading ends of streams and what any entity does to them; the entities one by one; collector, input, output, and the theorems |
| `NetWriters` | the writing ends of streams and how they are closed, with the theorems about use after free |
| `FrontWorker` | scheduler of the Front runtime: licences, work items, stealing, dissolving landings |
| `FrontGraph` | the fixed graph: creation functions and `SNetNodeStop` |
| `FrontHeap` | descriptors, landings, detrefs; writing and dissolving |
| `FrontNodes` | what a landing of each kind does with a record; feedback and its deterministic form |
| `FrontNet` | a Front network at work, and its properties |
| `DistribNet`, `OManager`, `IManager` | references, messages and routing; the two managers |
| `Distrib` | a network through several nodes, and its properties |
| `DistribProofs`, `DistribOrder` | theorems about `Distrib`, with proofs: types and locks; the order of records |
| `Build`, `BuildNet` | creation functions, location vectors, routes; a distributed network that grows, against the same network on one node |
| `Library` | a behaviour is the life of one container: `con` as the code keeps it, `abs` what it stands for, `ret` the last results of both |
| `Lists`, `Tables` | queue and list templates, stream sets, lock-free Front queue; map template, hash tables, pointer table, page table, bitmap |
| `Records`, `Zipper` | records and their data, box output, filter instructions, the synchrocell's merge, guard and tag expressions; the Front zipper against the star it replaces |
| `NetIf`, `Codec` | documents, labels, interfaces, input and output tasks; text and base64 form of C data, arrays of the SAC interface |
| `Observers`, `Threads`, `Scc` | observers of both runtimes; entities, monitoring, placement, options, LPEL streams and monitoring; mailboxes and references of the SCC |
| `MCStream`, `MCNets`, `MCFront`, `MCFrontNet`, `MCDistrib`, `MCBuild`, `MCLibrary` | instances for TLC; `MCLibrary` also puts the services (observers, threads, mailboxes) together with the containers |

Operators whose comment says "Variant of the next operator" are not used by any
specification. Each is the following definition with a plausible mistake; with
it in place of the right one TLC finds the property violated that
`PROJECT.json` names under "mutants". That shows what each property depends on.

### Stream

One step is one critical section. `ppc` and `cpc` say where the producers and the
consumer are. The thread lock of the consumer protects sections that acquire no
other lock, so such a section is one step; a *stream* lock is held while that thread
lock is acquired in two places (the notification in `SNetStreamWrite`, the hit in
the registration loop of `SNetStreamPoll`), and there the section is two
steps and `lock` holds the owner in between. `WriteWait`, `ReadWait` and `PollSleep` are the
calls of `pthread_cond_wait`; a signal moves the sleeper back to the test of its
loop; `Spurious...` lets it wake for no reason. `set` is the last node of the
circular list, so that an iterator visits `set+1, set+2, ...` modulo `N`; the
rotation of the list at the end of a poll is the assignment to `set`.
Records are the numbers `1, 2, ...` in the order in which they are written, so
that `sent` and `got` suffice to say what was written and read.

The refinement mapping takes a ring buffer to the sequence of its contents
(`Contents`); `RefinesChannels` says that `Stream` implements `FifoChannels`.

### Network and the entities

Here a stream *is* a bounded FIFO channel, as proved for `Stream`. A handler is
one action that takes a record, updates the local state and leaves the stream
operations of the handler, in program order, in `todo`; `Flush` performs
them one by one, and an entity with pending operations reads nothing. So a
write to a full stream blocks its entity between two writes of one handler, as
in the code, and all interleavings of the writes of different entities occur.
What is local to a thread (its variables, creation and destruction of streams)
takes effect with the neighbouring stream operation.

- Streams: `stat` is *fresh* (not created, or nothing written yet), *used*,
  *freed*. Instances that a split or a star creates on demand are wired up from
  the start; an entity of an instance that does not exist yet takes no step, as
  nothing has been written to its streams (`PartOf` keeps the startup of a
  dispatcher from running before its instance is created). The number of
  instances that are wired up bounds their number in the model.
- Records: a data record is a set of labels and a number, the position of the
  input record it was computed from. Values, binding tags and record interfaces
  are abstracted away (`Records` has them); matching is the comparison of label
  sets, as in `variant.c`.
- `Parallel`: `StartBranch` is a turn of the loop over the branches at startup,
  `Started` what follows the loop; `CheckMatch`/`IsBestMatch` the choice of a branch (any of the best, as
  the code takes turns), `PutToBuffers` its bracketing with sort records,
  `ParSyncTyped` the removal of branches. No matching branch is a fatal
  error in the code, here the dispatcher takes no step. `Junk` is what memory from
  `SNetMemAlloc` holds: the code reads it for initialiser branches.
- `Collector`: a descriptor is named after the stream it was opened on, `at` is
  what it reads now. `CollPeek` and `CollReads` are `GetRecord`;
  the rotation of the ready set by the poll is any choice among its
  non-empty streams. `Settle` is the end of the loop body: restore
  the waiting set, leave when one stream is left, end. `CollScan` is the
  loop of `DestroyTermInWaitingSet`, one peek per step.
- `Star`: `StarLeave` and `StarLeaveLate` are the two ways an incarnate removes
  itself, at a sync record and, postponed, at the next data record.
  Location vectors are reduced to what the code asks of them on one node:
  whether a stream comes from a star dispatcher (`HasSource`).
- `SyncCell`: `Stored` keeps a record under its *first* free pattern only, and
  `Merged` takes from it the labels of that pattern, as `MergeFromStorage` does.
- `Split`: `tab` is the hash table in order of creation; `Replica` has the
  behaviour of `HashtabGet` for its mark of a free slot, -1. `SplitData` reads a record,
  `SplitTag` is a turn of the loop over its tag values and `SplitSortEnd` what follows the loop.
- `Feedback`: the collector's modes, the dispatcher's choice by the back
  pattern, and the buffer, whose thread alternates between reading into its
  internal queue and writing from it with a try-write. Its `out` is the outstream it has open; the streams
  it may move to are wired up in `BackOuts`, and `BackSize` is the capacity each is created with.

### Front runtime

`FrontWorker` has the workers' loop step by step: taking an item, locking a
landing by `trylock`, processing, the visit of a thief under the item's lock,
conversion of items whose landing has been dissolved. Its network is a pipeline
of landings, so that the interplay of workers is the whole state space.
`FrontNet` is the complement: all landings, but handling one record
is one step of an unnamed worker, split where other workers can look in
between (the decrements of a detref, the invocations of a concurrent box, the
queue of a deterministic feedback). A heap `H` is passed through the operators as the
code passes it through its calls; failed checks and assertions are collected in
`H.bad`. Garbage collection is on, the default (`xthread.c:185`).

### Distribution and construction

Messages between two nodes are one queue per pair, as MPI keeps them (external).
The managers are threads with one action per critical section or message.
`IManager` keeps `buf->mutex` and `unblockedMutex` as owners, since the readers'
callback and the manager take them in opposite orders.
`Build` runs the creation functions as operators on a builder record; `BuildNet` compares
the streams that the nodes have built, joined through the managers, with
those of the same network built on one node.

### Library

A state has one container. The operations are those the code's callers may
issue in that state; `ret` has the result of the code and the result the
abstract value calls for, and `con` maps to `abs`. Where parts are concurrent
(Front queue, observers, threads, mailboxes) the steps of the parties
interleave.

## 3. What is model-checked

| run | instance | shows |
|---|---|---|
| `stream` | two streams, capacities 1 and 2, three writes each, one consumer that reads or polls | no lost wakeup, no late notification, TryWrite does not block, polls return readable streams, refinement of FIFO channels; polls and writes return |
| `branches` | deterministic parallel composition, split, star, feedback with filter and nameshift | order, barriers, completeness, matching sort records, empty feedback buffer at the end, termination |
| `growth` | parallel composition behind a synchrocell or with an initialiser, state-modelling star with two and three instances, feedback | garbage collection in all orders: one reader, no use after free, the collector's accounting, the assertion of `star.c:158` |
| `front_worker` | two workers, pipelines with synchrocells that dissolve or a filter that doubles, with and without input throttle | licences match records, exact references, one item per stream, no reuse under a thief, order, the workers end |
| `front_net` | 19 networks, every combinator in both forms, a feedback whose loop is never entered, an initialiser before a deterministic concurrent box | no check of the code fails, order, exact detrefs, everything given back but what the code itself keeps in the last two |
| `distrib` | two nodes, five plans: static or unfolded at run time, blocking, copies and fetches, two readers that share a fetch | counts agree up to what a shared fetch leaves behind, lock order harmless, order, both nodes stop |
| `build` | six networks on two nodes, replicas of stars and splits in any order | the nodes build the same network as one node |
| `library` | every container and service with small contents | each agrees with what it stands for |

Every state of `branches`, `growth`, `front_net` and `build` belongs to one network; the network is
chosen initially. `Expected` (`MCNets`) and the `out` field of `Case` (`MCFrontNet`) say
independently of routing what has to come out: in the state network, for
instance, the k-th `a` and the k-th `b` meet.

Bounds. Stream capacity 1 makes every blocking happen (the code's default,
`SNET_STREAM_DEFAULT_CAPACITY` = 16, only lets more records pile up); larger
capacities are covered by `stream` and the theorems. Two to four records are what it takes to
have one before, one at and one after a sort record, or one more than the instances
that have dissolved. Two workers suffice for a thief and a victim, two nodes for
a record that crosses and comes back. `MaxDesc`, `MaxLand` and `MaxDet` of
`front_net` are slots of the heap; a network that needs more has no free slot to choose, an evaluation error
that fails the run. Containers are initialised with the
smallest capacities so that growing and wrapping around occur (`InitCap2`,
`NUM_INITIAL_ELEMENTS`, `ChainSize`), and `Keys` collide in every table.
`BuildNet` stops at `MaxDepth` replicas of a star. The values of `library` that
the code never compares (payloads, nodes of lists) are a symmetry set.

Deadlock. `CHECK_DEADLOCK FALSE` stands where behaviours may end: writes are
used up (`stream`), networks wind down and an input may pause (`branches`, `growth`), nodes stop (`distrib`),
replicas are all built (`build`), bounds of a container are reached (`library`). In
`branches` and `distrib` `Termination` and `AllStop` include the absence of
deadlock; in the Front runs an end is an explicit step, and a stuck state is an error.

Fairness.

- `Stream`: a thread inside an operation goes on when it can (weak fairness of its
  steps; mutexes are granted when they stay free); no thread has to call an
  operation, and no spurious wakeup has to come.
- `StreamNet`: weak fairness of `Work`, some entity other than a feedback buffer
  proceeds, and of `Buffering`. Every entity is a thread of its own. Two
  conjuncts are needed, as a buffer polls its full output and could
  otherwise be the only one that runs.
- `FrontWorker`: each worker that has not ended goes on, and a worker that
  tries its own items again and again gets one of them some time: a thief holds
  an item's lock only while it looks, and the workers are threads of their own.
- `Distrib`: some thread that can go on does.

### Disagreements between code and text

| run | property | what TLC shows |
|---|---|---|
| `state_init` | `NoWriteToRemovedBranch` | `parallel.c:359` treats an initialiser branch as affected by every sync record with a type and writes to its stream, which was removed at startup |
| `front_conc` | `NoCheckFails` | a concurrent box inside a deterministic network changes the order of sequence numbers, and the assertion of `xdet.c:149` fails in the composition behind it |
| `distrib_block` | `NoCheckFails` | a block and the unblock of the same destination arrive between the two `UpdateBlocked` calls of one round (`omanager.c:165`, `:166`): the first has found nothing to block, the second takes the unblock and looks for the stream in an empty set (`streamset.c:65`) |
| `build_star` | `NoCheckFails` | a star whose operand is a star fails the assertion of `locvec.c:223` when the outer one creates its first replica |

### Observations without a run

Met while reading and modelling; each is either in the model but not asked for by a property, or outside.

Stream runtime
- `parallel.c:285` sends the startup sort records of branches before and after an
  initialiser with different counters; `collector.c:143` warns on a correct program.
- `parallel.c:308`: the match counter of an initialiser branch is read uninitialised; the
  dispatcher may choose the closed branch and drop a record. Networks with an
  initialiser are therefore in `growth`, which does not claim completeness.
- `syncro.c:180`: a record that matches two free patterns loses what only the
  second asked for, while `syncro.c:222` announces the union.
- With tag value -1, against the precondition of `hashtab.c:164`, `split.c` creates a replica per record.
- `BoxTask` destroys the execution realm twice (`box.c:144`, `box.c:154`).
- The collector stays with a stream while that has records (`collector.c:110`): a branch that
  never runs dry starves the others; the inputs here are finite.

Records, containers, documents
- `SNetQueueCompact` (`queue.c:28`) moves entries wrongly when there are holes after the
  first; holes only arise through iterators, which no caller uses.
- `record.c:543` writes the deserialised interface into the mode; flow inheritance
  overwrites an entry that a filter has set, and leaves out binding tags.
- Renaming an entry of a map to a key that is there leaves two entries (`map-template.c`); the copy of a list
  is right only when it is full (`CopyFits`), as the lists of a variant are.
- `C4SNet.c`: `MPIUnpackFun` uses an uninitialised variable, `C4SNetDecode` reads four of eight
  bytes, `SCCFreeWrapper` frees twice without remap.
- A Front input ends at the first parse error that the grammar does not
  recover from; `GlobInputTask` (`input.c:60`) goes on, and at the end of the file loops
  for ever. A field without an interface is skipped silently; the short
  form of an unknown type destroys a NULL record; a printed record without
  fields is discarded when it is read back.
- `xzipper.c:175` and `:180` assert what a record that matches no pattern
  violates (`ZipperAssumption` excludes it).
- With three patterns or more `xzipper.c:138` can make the last matching of a chain its
  own tail, and `:137` or `:150` then fails (records a, a, b, b, c with the patterns
  a, b, c). `ZipperAgrees` allows these two assertions, and only on a matching
  that points to itself.
- `filter.c:236` (`xfilter.c:189`) ends the program when no guard of a filter holds; the model stops there too.
- A field set twice in a record drops the first reference without releasing it
  (a leak); the model counts these, and the counts of `library` are exact with them.
- `bitmap.c:181` and `:213` compare the number of a bit with the number of bytes, so that seven
  of eight bits are refused, against the text at `:165`; the search (`:251`) passes over
  bytes equal to 0x0f, against `:236`, "The first 0-bit from the start of the bitmap is
  selected". Nothing in the repository calls it. The model has a set of bits beside the bytes and checks that what an
  operation reports is what happened to the set: a bit set, cleared or found, or nothing.

Threads, observers
- A failing `pthread_create` leaves `entity_count` up (`entity.c:183`), and
  `SNetThreadingStop` then waits for ever.
- `networkinterface.c:264` and `:295` have the calls that start and end observers commented out;
  removing an observer does not notify the dispatcher; a closed
  connection makes the dispatcher spin.
- `xobserve.c`: an answer that was left over makes `GetConfirmation` block.
- LPEL monitoring of tasks without streams never frees the monitors of closed streams (`mon_snet.c`); `glue_decen.c` takes `location % num_workers` of -1.

Distribution
- Readers that share a fetch leave the owner's count too high by the readers beyond the first
  (`reference.c:165` tells the owner of one), and the assertion at `reference.c:83` fails
  when the owner's references are given up at the end. One plan of `distrib` has two readers; `CountsAgree`
  has this excess as a term (`untold`), and `NoCheckFails` allows that assertion and no
  other, and only when a fetch was shared. On the SCC the same leaves `sccref.c:88` to fail where
  memory is not remapped. With three nodes the
  increment of a copy may arrive after the decrement of the original
  (`reference.c:115`); the runs have two.
- `mpi/transmit.c:71` and `:81` probe and receive from any source, possibly two
  different messages. `SNetOutputManagerStop` frees what the manager still uses (`omanager.c:137`).
- `scc.h:97`: a writer that finds the ring full in the middle of a message lets other
  writers in; a message larger than the ring, or two cores that wait for each
  other's ring, never end.
- Nested replicators with remote operands may collide on a key (`distribcommon.h:43`); an
  operand over three nodes fails the assertion of `map-template.c:197`; remote replicas start from an
  empty location vector.

Front
- A split does not destroy a record with an empty interval of tags; a detref record at the output is fatal; two workers that try each other's locks may do so for ever without the
  scheduler's help (`xworker.c:411`), which the fairness of `FrontWorker` excludes.
- A deterministic feedback whose loop no record enters does not give up its second landing
  (`xdripback.c:162` does that only with `instdesc`), and the output is never told to end
  (network `DripPast`).
- A trigger record in a deterministic concurrent box is given a detref (`xbox.c:133`), but `SNetRecCreate`
  leaves its detref stack uninitialised (`record.c:129`). If that is not NULL the program ends; if it is, the detref is
  never given up (`xbox.c:77`), and the initialiser's record waits behind it for ever (network `InitConc`).
  `DetrefsExact` and `AllCollected` state these two cases and exclude every other.

## 4. What is proved

### Streams

`StreamProofs` proves, for every number of streams `N > 0`, every capacity
greater than 0 and every bound on the writes (`StreamAssumption`):

| theorem | statement |
|---|---|
| `TypeCorrect` | `Spec => []TypeOK` |
| `PollWakeupSafe` | `Spec => []NoLostPollWakeup` |
| `SignalSafe` | `Spec => []NoLostSignal` |
| `NotifySafe` | `Spec => []NotifyOnlyDuringPoll` |
| `TryWriteSafe` | `Spec => []TryWriteNeverBlocks` |
| `PollResultSafe` | `Spec => PollFindsRecord` |
| `StreamRefinesChannels` | `Spec => RefinesChannels` |

None of the properties is inductive. The inductive invariant `IInv` adds

- `LockInv`: who holds a stream's mutex between two steps;
- `RingInv`: tail = head + count modulo the capacity, and the slots from the head on hold the
  records after the last one read, in order. This is what makes the mapping
  commute with writes and reads;
- `RegisteredInv`: a stream through which a producer may reach the consumer lies
  at a position of the iteration that the poll has visited and not yet cleared (`Pending`). It is
  what makes the count `cnt` of `SNetStreamPoll` sufficient for
  deregistration although the loop does not look at which streams are registered;
- `CountInv`: registered streams are empty, notifying producers have filled
  theirs, a TryWrite that passed its test still has room (only the one producer adds);
- `WakeupInv`: as long as no wakeup has come, all visited streams are registered or
  their producer is on the way, so going to sleep is safe;
- `ResultInv`: what ends a poll has a record, because only the consumer, who is
  in the poll, could take it.

`InitIInv` and `NextIInv` (one lemma per group of actions, one step per action
and conjunct) give `SpecIInv`. The refinement shows that `WritePut` is `Send`,
`ReadTake` is `Receive` and every other step leaves the channels alone
(`MappedNumbered` replaces the mapped channel by the numbered records that
`RingInv` says it holds).

### Distribution

`DistribProofs` and `DistribOrder` prove, for every set of nodes and keys, every
network in `Plans` and every bound on the copies:

| theorem | statement |
|---|---|
| `DistribProofs!TypeCorrect` | `Spec => []TypeOK` |
| `LockOrder` | `Spec => []LockOrderSafe` |
| `Ordering` | `Spec => []InOrder` |

The only assumption on the networks (`PlansAssumption`) is that they are networks, with a
capacity greater than 0, and change their node at least once; how many nodes they pass, and
how often they come back to one, is free. `DistribAssumption` gives every datum an owner and the streams
to the output managers a capacity greater than 0.

*Types.* `TypeOK` of `DistribProofs` says more than the shape of the values: what
lies in a stream or a message is of a kind its reader handles. It needs `RouteInv`:
a message, an entry of a manager's list and the record in a manager's hand name a destination
that ends or begins on that node, hence one that the node has built. The
destinations are those of the changes of node along the path, numbered in order
(`RoutesAt`); that they are numbered without gaps is what lets `NextDest` be
the number plus one.

*Locks.* The reader's callback holds `buf->mutex` when it takes `unblockedMutex`; the input
manager holds `unblockedMutex` when it takes `buf->mutex` of every buffer on its list. `LockOrderSafe` is
not inductive. `LockInv` adds

- `AccountInv`: the counter of a buffer is the number of records in its stream, plus one
  that was read and not yet counted; a reader keeps the mutex only with the counter at 0 and
  records waiting;
- `UnblockedInv`: a buffer on the list is there once, its stream is empty and records wait
  for it. With an empty stream there is nothing to read, so no reader is between its two
  locks; and the manager appends to the list, never to the stream, while something waits.

*Order.* The records of a destination stand in one line of seven stages: read, in the
stream of the input manager, in the list of its buffer, in the manager's hand, under way between
the nodes, in the stream to the output manager, and in the stream that a sync record has handed over. `IInv` adds to `LockInv`

- `OrderInv`: the numbers along each line do not decrease;
- `PassInv`: what a box holds is the record it read last, and nothing on the
  next line has a larger number: whatever the box writes next goes behind all that;
- `ProducerInv`: the producer has given no number larger than `made`, and writes nothing behind its
  termination record;
- `MovedInv`: without a sync record ahead the second stream is empty.

A step of a manager moves records from the front of one stage to the end of an earlier one
with nothing in between (`ShiftOrdered`): that a buffer with waiting records gets new ones at the end of
its list, although its stream has become empty, is what the proof needs of
`HandleRecord`. A write adds a number that is not below any other (`WriteOrdered`). `StepIInv`
goes through all actions; `IInv` has also been checked by TLC on the networks of `distrib`.

### Networks of the stream runtime

`NetEnds`, `NetTasks`, `NetProofs` and `NetWriters` prove, for every network in `Nets`, of any size and wiring, with
any input and any capacities:

| theorem | statement |
|---|---|
| `Invariance` | `Spec => []IInv` |
| `OneReaderSafe` | `Spec => []OneReader` |
| `ReadSafe` | `Spec => []NoReadAfterFree`, the reading half of `NoUseAfterFree` |
| `AccountingSafe` | `Spec => []CollectorAccounting` |
| `WriterInvariance` | `Spec => [](IInv /\ WInv)` |
| `WriteSafe` | nothing is to be written to, or created as, a destroyed stream, and a destroyed stream is empty, the streams from a feedback buffer to its collector (`Loop`) apart |
| `UseSafe` | `Spec => [](DOMAIN fbbuf = {} => NoUseAfterFree)`: all of `NoUseAfterFree` for networks without feedback |

What is assumed is that the creation functions give every stream to one reader and one writer
(`WiringAssumption`, over the streams there are and those that may be created later), that
the input has no sync and collect records and a termination record only at its end (`InputAssumption`), that collectors start with
a finite set of at least one stream (`CollectorAssumption`), and that the lists of outputs,
replicas, instructions and buffers are lists (`ParallelAssumption`, `SplitAssumption`,
`FilterAssumption`, `FeedbackAssumption`; a feedback buffer has its first stream). TLC evaluates all of them on the networks of
`branches` and `growth`. A box takes a step for records on which its function returns (the guard of
`BoxData`); the values are free otherwise.

*Ends.* Every stream has one reading end, and it is in one place (`EndsInv`). It is

- *promised*: a replica, an instance of a star or a feedback buffer that is still to be created will have it;
- *held* by an entity that reads the stream, or by a collector that is about to open it;
- *handed over*: named in a sync or collect record in a stream, in the queue of a feedback
  buffer, or in a write that is still to be done;
- *about to be destroyed* by an operation in `todo`, or *destroyed*.

`OneReader` speaks only of the ends held and handed over and is not inductive: without the
promised ends a split could announce a stream that somebody reads, and without the destroyed
ones nothing says that an entity that closes its instream did not leave its end elsewhere. With all
of them every step is one of a few moves (lemmas of `NetEnds`): a read takes an end
out of a stream and puts it where the entity holds it or passes it on (`TakeOnce`, `InReplace`, `InPass`), an entity that
ends gives its own to a record or destroys it (`InLeave`, `InQuit`, `InGive`), a write moves an end from
`todo` to the stream (`FlushOnce`), a creation turns a promised end into one that is announced
(`ReplicaStep`, `InstanceStep`, `GrownStep`). The lemma of an entity (`BoxInv`, `FilterInv`,
`SyncInv`, `SplitInv`, `StarInv`, `ParInv`, `FbCollInv`, `FbDispInv`, `FbBufInv`, `CollTaskInv`)
says which move each of its actions is. An operation that puts an end down twice would break
`Carry`, the condition on what a handler leaves in `todo`; for the parallel dispatcher that is where
the number of remaining branches counts, as a sync record goes to one branch only.

*The collector* (`CollInv`). A descriptor keeps its name when its stream is replaced
(`SNetStreamReplace`), so a stream that the collector opens later must not bear the name of a
descriptor it has. It does not: a descriptor whose stream was replaced is named after a
destroyed stream, or one about to be destroyed (`Gone`), and that stream's end can be announced by nobody. Together with disjoint,
finite sets that gives the step of the count in `CollectorAccounting`. That `DestroyTermInWaitingSet`
looks at descriptors of the waiting set only, and that `Settle` leaves the ready set non-empty or ends the
collector, are the other parts.

`Shape` says that the variables are functions and records with their fields and
sequences where the code has lists; it says nothing about values, which the other parts do. `IInv` has also been checked
by TLC on the networks of `growth`.

*Writers* (`WInv`, in `NetWriters`). That a destroyed stream is not written to does not follow from where the
reading ends are: it needs that the reader destroys a stream only when the writer has finished with it. An
*open end* (`Outs`) is a stream that an entity may still write to: `out` of an entity that
has not ended, the remaining branches of a parallel dispatcher, the replicas of a split, the next instance of a star. A writer
closes an end with one *last record*, a termination record or a sync record (`IsLast`); a star without a
next instance drops that end unused. `WInv` says

- `Wired`: the open ends are among those of the wiring, so a stream has at most one;
- `Pending`: an operation in `todo` that uses a stream belongs to the entity that has it open, or the
  entity has closed it and the last record is still to be written behind that operation; there is one last record,
  and with it pending or written nobody has the stream open;
- `Chans`: in a stream the last record is the last, and behind it nothing is open or pending; a stream that is destroyed
  or about to be (`Gone`) is empty, not open, and has no last record to come;
- `LoopState`, `LoopChans`: the sync records of a feedback buffer, by which the collector moves to a
  larger stream, stay in the loop, and none is in the stream to the buffer;
- `Locals`: a split has no more replicas than wired up and no record in hand when it ends; the startup loop
  of a parallel dispatcher has not closed what it has not come to.

The argument per step: the operations of a handler are *orderly* (`Orderly(ops, K, C, F)`) when they use only the
ends the entity keeps (`K`) and those it closes (`C`), close each of `C` once and as the last thing they do with it, and destroy
at most `F`. `StepKeeps` says that a step which takes a record from `s`, leaves orderly operations and closes the ends of `C` keeps
`WInv`, if it destroys `s` only when the record was a last one. The lemma of each entity shows its handlers
orderly: for the synchrocell that it closes its outstream with the sync record; for the star that it closes both
ends, or one of them by the sync record and the other by the termination record; for the parallel dispatcher that each branch it
removes gets one termination record, and the remaining branch the sync record. `Flush` moves a record from `todo` to the stream
(`WroteFacts`); the last record can then only be written once. TLC has checked `WInv` on the networks of `growth` and
`branches`.

The streams from a feedback buffer to its collector are outside this argument because the code does
not follow it there: at a termination record the collector destroys the stream (`feedback.c:222`) while the buffer still has it
open. It writes nothing to it, since the collector reads the termination record only when the loop has run dry;
that is known from a sort record that has come round through an operand network of any shape, and so depends on
how the operand keeps sort records in place. TLC checks it (`NoUseAfterFree` in `growth`, `TerminateFindsEmptyBuffer` in `branches`).

### Only model-checked

- Liveness (`PollReturns`, `WriteReturns`, `Termination`, `AllEnd`, `AllStop`): it needs fairness and
  ENABLED, which the prover does not handle.
- `CountsAgree`: the counts of owner and holders are sums over messages, streams and boxes, and a step changes
  one summand; that a sum over a sequence or a set splits so is an induction over data, which is out of the prover's reach.
- `NoCheckFails` of `Distrib`: not true of all networks (run `distrib_block`), only
  of those that are built before the managers start or where no block and unblock arrive between two looks of the
  output manager, and whose readers share no fetch.
- What rests on RECURSIVE operators, as the code recurses over trees or loops
  over lists: the Front runtime (`FrontGraph`, `FrontHeap`, `FrontNodes`, `FrontWorker`), `Build`, `Codec`,
  `Records`, `Zipper`, `Scc`, and with them the `library` run.
- `NoUseAfterFree` for the streams from a feedback buffer to its collector: that no record lies in one that
  is destroyed (see above). The rest of `NoUseAfterFree` is proved, also for networks with feedback.
- `SortRecordsMatch`, `DetOrder`, `BarrierOrder`, `Complete`, `TerminateFindsEmptyBuffer` and
  `NoExitAfterCleanup` of `StreamNet`: they depend on how a network is put together (which collector belongs to which
  dispatcher, what is nested in what), which the wiring as such does not say, and order and completeness
  relate the output to an input of any length (an induction over data).

## 5. Not modelled, and the plan

Left out:

- language interface accessors and list constructors (`langif/`): no state of their own;
- the SAC runtime behind its interface, MPI, LPEL and its hierarchical scheduler (`glue_hrc.c`): external code
  and calls passed on to it;
- the SVP runtime (`runtime/svpgw`): a separate system that is not built with the others;
- the lexer, the wording of logs and reports, tables of names;
- floating point data, the pointer allocator of `distrib/scc/sccmalloc.c` and
  the set-up of the SCC hardware;
- `SNetListRemove`, which has no live caller.

What would come next: a description of networks by their construction (what is nested in what) instead of their
wiring, from which the sort records of a dispatcher and its collector, and with them order and the feedback barrier, could be
reasoned about; and an abstract specification of a deterministic combinator that both runtimes implement.

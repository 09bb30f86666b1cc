# Specifications of gossip-glomers-dist-sys

TLA+ models, model-checking configurations and machine-checked proofs for the
maelstrom-cpp library (`src/maelstrom-cpp`) and the tasks built on it
(`src/tasks`). Paths below are relative to the root of the repository; `NP` is
`maelstrom-cpp/src/detail/processors/network.cpp`, `workers.hpp`,
`handlers.hpp` and `network.hpp` are the headers next to each other in
`maelstrom-cpp/include/maelstrom/detail/processors/`.

## 1. Inventory

### The library

| Component | State | Operations | Threads |
|---|---|---|---|
| Network processor (`NP`, `network.hpp`) | `once_`, `at_least_once_` (promise, deadline, copy of the request), `mtx_`, `is_running_` | `SendDetached`, `Send`, `SendAtLeastOnce`, `Call`, `CallAtLeastOnce`; `Process` of a response; `UpdateOnce`, `UpdateAtLeastOnce`; `Start`, `Stop` | any caller, the Run thread, its own assistant |
| Workers processor (`workers.hpp`, `routines/worker.hpp`) | `next_deadline_`, `exec_state_` of each worker | scan, claim, submit; the job with its two stores; `Start`, `Stop` | its own assistant, the pool, whoever resumes a job |
| Handlers processor (`handlers.hpp`) | `handlers_`, fixed once started | `Process` makes a request a job of the pool | Run thread, the pool, whoever resumes a handler |
| Node (`node.hpp`) | `env_`, `state_`, the pool | `Start`, `LoadEnvironment`, `Run`, `Stop` | Run thread |
| Transports (`console_transport.cpp`, `in_memory_transport.cpp`, `sync/queue.hpp`) | `is_running_`, `end_of_stream_`, queues | `Start`, `Recieve`, `Send`, `IsStreaming`, `Push`, `StopStreaming`, `Stop` | all |
| Network, Session (`network/network.cpp`) | `previous_id_`, `jitter_` | `GenerateNextId`; forwarding to the network processor | all |
| Messages (`network/messages.cpp`) | none | conversions between JSON and structs | |
| Key-value client (`services/kv_storage.hpp`) | none | `Read`, `Write`, `CompareAndSwap` as calls to `seq-kv` and its kind | any handler |
| Timer (`sync/timer.cpp`) | ordered map of actions | `Set`, `Process`, `Start`, `Stop` | its own; used by nobody |

### The tasks

| Component | State of a node | Operations |
|---|---|---|
| Broadcast, parts 4 and 5 | `nums`, `unique_nums`, `maybe_unknown` (one offset for each target) | broadcast, bulk and read handlers; distributor worker |
| Broadcast, parts 2 and 3 | `nums`, `topology` | broadcast (stores and spreads), read and topology handlers |
| Broadcast, part 1 | `nums` | append, read |
| Grow-only counter | `local.value`, `cache` | add (a CAS loop), read (all cells, with a cache), orderer worker |
| Kafka, part 1 | `next_offset`, `logs`, `committed` | send, poll, commit, list |
| Kafka, part 2 | none; a cell of `seq-kv` for each log, one cell of `lin-kv` for the committed offsets | the same, send and commit as CAS loops; does not compile against this library |
| Unique ids, echo | a counter; nothing | generate; echo |

### How they interact

The Run thread takes messages from the transport. A request goes to the
handlers processor, which runs its handler on the pool (one thread). A response
goes to the network processor, which fulfils the promise of the call; whatever
waits for that future **goes on inside `Set`, on the Run thread**. A timeout
fulfils the promise on the assistant of the network processor, **under its
mutex**. The workers processor submits jobs to the same pool. Handlers and
workers share the `State` of the node and call other nodes, or key-value
services, through a `Session`.

### What is hard, and what makes each component correct

* **Network processor.** Three threads meet in two maps; a response races with
  the registration of its own waiter and with the timeout; a deadline is polled
  once a second against a time read before the lock. Correct: every future a
  caller holds has exactly one promise, which is in a map or in somebody's
  hands; a call is completed once, by an answer or, not before its deadline, by
  a timeout; how late a timeout or a resend is has a bound; `Stop` ends.
* **Workers processor.** Deadline check, claim and the two stores of a job are
  not atomic together. Correct: a worker never overlaps with itself, no claim
  is lost, a worker runs again and again, `Stop` joins once the pool has been
  idle.
* **Node.** Handlers are resumed by two other threads, and `Stop` takes the
  parts down one after the other. Correct: requests are answered in order and
  once, none is lost by stopping, `Run` returns at the end of the input.
* **Broadcast 4, 5.** Offsets are advanced before anything is acknowledged;
  batches are lost, repeated and reordered; the targets are batches of nodes
  cut with a rounded division. Correct: no value is lost, a vector has no
  duplicates, all nodes get all values, and traffic ends.
* **Broadcast 2, 3.** The list of visited nodes must neither cut anybody off
  nor let a number circle; a node may get a number before its topology.
  Correct: all connected nodes get it, and traffic ends.
* **Messages.** Which fields are present decides what a message is taken for.
  Correct: what is sent as a request arrives as one, and an answer or an error
  arrives at the call it belongs to.
* **Kafka.** An offset is allotted before its message is in the log; sends and
  commits of several nodes race. Correct: consumers that go on behind what they
  were given miss nothing, offsets are unique, sends are answered, an
  acknowledged commit holds.
* **Counter.** A guess that is wrong in either direction, a store that may show
  old values, a cache. Correct: acknowledged adds are counted once and for
  good, reads are never ahead, adds are answered.

Every such hazard is listed with its line in `PROJECT.json` ("hazards").

## 2. Modules

```
RpcCall   <--implements--  NetworkProcessor  <--EXTENDS--  NetworkProcessorProofs
MessageIds, Messages                         <--EXTENDS--  NetworkProcessorProofs

Gossip    <--implements--  BroadcastNode     <--EXTENDS--  BroadcastNodeProofs
   ^                          |--EXTENDS--> DistributorRing     |
   '--EXTENDS-- GossipProofs <---------- INSTANCE --------------'

KafkaLog  <--implements--  Kafka             <--EXTENDS--  KafkaProofs
                              '--INSTANCE--> KeyValueStorage <--INSTANCE-- GCounter
GCounter                                     <--EXTENDS--  GCounterProofs
WorkersProcessor                             <--EXTENDS--  WorkersProcessorProofs
Node                                         <--EXTENDS--  NodeProofs
Flood                                        <--EXTENDS--  FloodProofs
```

The inductive invariants stand in the modules they are about, behind the
properties, so that TLC can check them too; the `...Proofs` modules hold the
theorems and nothing else of importance. An `MC...` module of the same name holds the constants of an instance for TLC.
Where a module uses another component it keeps what that component shows:
`BroadcastNode` and `Flood` know of the network processor that an at-least-once
request is repeated until it is answered and that an answer may be thrown away;
`Node` knows that a waiter is taken once, by a response or by a timeout;
`GCounter` and `Kafka` share the client of the key-value store and the store.

### NetworkProcessor (the code: `NP` 17-206, `network/network.hpp`)

`Issue` is the operation of `Session` a caller chooses, with the type of a
handler or without: `PolicyOf` is what it ends in, and `HasTimeout` says which
operations lose the timeout of their caller (`network/network.hpp:116`).
`Begin` sends the request (103, 126), `Stamp` reads the clock and makes the
deadline (107-110, 130-135), `Register` takes the lock and stores the waiter
(112-117, 137-144). They are three steps: an answer can come in between.
`Receive` takes the waiter off its map under the lock (49-59), or throws the
response away; `Resolve` fulfils the promise without the lock (61). The
assistant wakes and reads the time of its first pass (`Wake`), then takes the
lock and expires (`UpdateOnce`, which also reads the time of the second pass),
then takes it again, expires and resends (`UpdateAtLeastOnce`).
`BlockInContinuation` is the assistant on its own mutex, when a promise it
fulfils is awaited by a caller in `Reentrant`. `Start`, `Stop`, `Join` and
`Destroy` (which breaks the promises left in the maps) are the life cycle.

*Time.* Instants are relative: 0 is now, `Tick` makes all of them one older,
and beyond `Horizon` they are not told apart. So there is no clock to bound.
`Slack` bounds how late a thread may be between reading the clock and taking
the lock, and how long it may oversleep; `Punctual` is the guard of `Tick` that
says so.

*Abstractions.* A call is its id. `served` counts up to "often". Each call has
a thread of its own, more concurrency than one pool thread gives. `is_running_`
is a plain `bool` read by another thread; its write is modelled as seen in the
end.

### WorkersProcessor (`workers.hpp` 64-136)

`Wake` reads the time of a scan; `Check` reads the deadline of one worker, and
`Submit` or `Skip` does the compare-and-exchange, as a step of its own.
`Enter`, `Suspend` and `FinishOnPool` / `ScheduleOnPool` are the job on the
pool: the store of `Idle` and the store of the deadline are two steps.
`FinishResumed` / `ScheduleResumed` are the same for a `Process` that was
resumed on another thread. The read of the clock for the new deadline is one
step with its store. `SoftStop` is `Node::Stop` up to its `Wait` (152-153): the
assistant still runs, and the pool takes its jobs until it is idle
(`PoolIdle`). Then it closes (`JobEnds`, or `SoftStop` itself), later jobs are
dropped, and `Stop` and `Join` follow (156). A suspended `Process` does not keep
the pool from being idle. So nothing makes the draining end: two workers that
take turns, or one that is claimed again between the two stores of its job, can
keep the pool busy for ever, and TLC finds `stopping ~> asst = "joined"` false.
`StopJoins` therefore excepts the runs in which, from some instant on, the pool
is never idle, and no others.

### Node (`node.hpp` 65-163, `handlers.hpp` 24-125, the transports)

The Run thread step by step, on either transport, chosen in `Init`; handlers
that were added before `Run` or not (`AddHandler`); jobs of the pool for
handlers that answer at once, that await a call, or that throw; resumption by a
response (`TakeReply`, `Resume`) or a timeout (`TimeOut`). The content of
messages is left out; a message is a request, an answer, an init request,
something nobody handles, and on stdin also an empty line, a line without the
fields of a message (`Fragment`), which is passed over, or one that is not JSON
(`Malformed`), at which the process ends with an exception (`Crash`). There are
no workers in it, and no handler comes after `SoftStop`, so that here `Wait`
always returns; what workers do to it is in `WorkersProcessor`.

### BroadcastNode, DistributorRing, Gossip (`broadcast/part4`, `part5`)

`DistributorRing` is the arithmetic of `DistributorWorker::Start`. In
`BroadcastNode` each handler and each pass of the worker is one step, since it
holds the storage mutex throughout. `Retransmit` is the network processor;
`Lose` the network. `Messages` is what a read is answered with. Parts 4 and 5
differ only in `kMaxPathLength` (3 and 6).
`Gossip` leaves out vectors and offsets: a node has a set, and for each target
the set it counts as told. `ImplementsGossip` is the refinement: `told` is the
prefix of the vector up to the offset.

### Flood (`broadcast/part2`, `part3`)

`part` is chosen in `Init`, and so is the topology. `Broadcast` and `Handle`
are the handler with `DoSpreading`, which throws when there is no topology yet;
`Read` is what a read is answered with.
In part 3, `waiting` is what the network processors repeat, and messages are
lost until `Heal`. It is assumed that Maelstrom hands out all topologies before
it sends a number in part 2; part 3 does not need that.

### KeyValueStorage (`services/kv_storage.hpp`)

`seq-kv`, which is external, as the code in `src/` uses it: a sequence of
versions; what changes a cell is served at the last one, what does not may be
served at an older one, but for one node never older than it has seen. A call
and its answer are one action, `CasSucceeds`, `CasFails`, `ServedAt` or, for a
swap of a value for itself, which changes nothing, `CasKeeps`. Calls are not
lost (they have no timeout in the code).

### GCounter (`gcounter/src/operations.cpp`)

A step is a request served and the handler going on to its next `co_await`.

### Kafka, KafkaLog (`kafka/part1`, `kafka/part2`)

`part` is chosen in `Init`. In part 1 a handler awaits only a mutex that nobody
holds, so it keeps the one thread of the pool: `PoolFree` is the guard of
everything that starts. A send is two steps all the same, `Allot` and `Insert`,
because `fetch_add` comes before the mutex; without `PoolFree` the run fails.
In part 2 a step is a request served, as in `GCounter`. A committed offset is
one that a client knows of, and commits come in any order. `lin-kv` is one
value, `committed`.

Part 2 uses names the library does not have (`handle`, `compareAndSwap`), and
does not compile; each is taken for its namesake. That the test in its poll is
the opposite of the one in part 1 is modelled as it is written (`Answered`).

`KafkaLog` is the promise to clients: logs that grow at their ends, consumers
that move along them and are given what they move past. `ImplementsLog` is the
refinement for both parts.

### Messages (`network/messages.cpp`)

The conversions, as operators on functions from field names. No state to check;
it is there for its theorems in `NetworkProcessorProofs`, on which `NetworkProcessor` and `Node` rely when
they take a message for a request or a response.

### MessageIds (`network/network.cpp` 7-22, `unique_id.hpp`)

How the ids of requests and the answers of the unique-id task (`Generate`) are
made. No state to check; it is there for its theorems in
`NetworkProcessorProofs`. `Fits`, that the counter does not overrun its word, is
an assumption of theirs: the code does not check it.

## 3. Runs

| Run | Instance | What it shows |
|---|---|---|
| `NetworkProcessor` | 2 calls of any kind, `c1` re-entrant, loss; timeout 1, period 1; 136 000 states | promises and futures match; latency bounds, no early timeout; nothing is resent after its call is done; `RpcCall` is implemented; calls and `Stop` end |
| `NetworkProcessor_fast_answer` | no loss | **violated**: an answer that is too fast is thrown away |
| `NetworkProcessor_reentrant` | `c1` re-entrant | **violated**: a continuation that calls again blocks the assistant |
| `BroadcastNode` | 3 nodes, 2 values; 99 000 states; rings of up to 25 nodes | vectors, offsets, batches; `Gossip` is implemented; every value is read everywhere, and then there is rest |
| `WorkersProcessor` | 2 workers, one suspends; 229 000 states | no overlap, no claim lost, runs again, stops unless its pool is never idle |
| `WorkersProcessor_period` | 1 period longer than a poll | **violated**: a worker starts twice within its period |
| `GCounter` | 2 nodes, any 3 of 4 adds, one of them of 0, and 2 reads; 83 000 states | adds are counted and answered, reads and the cache are not ahead |
| `GCounter_double` | 2 adds | **violated**: a delta is counted twice |
| `Node` | any 4 of 2 plain requests, 1 waiting, 1 throwing, 1 stray, answers, init, 3 sorts of bad lines; 992 000 states | answers in order, once, none lost by `Stop`; stdin is read to its end; `Run` returns |
| `Flood` | 4 nodes, all connected topologies of at most 4 edges; 485 000 states | everybody answers a read with the number, and then there is rest |
| `Kafka` | both parts, 2 nodes, 2 logs, 3 sends, 2 commits, 1 consumer, 1 message a poll; 41 000 states | `KafkaLog` is implemented; sends are answered; part 1 delivers; commits of part 2 hold |
| `Kafka_poll` | part 2 | **violated**: a poll that has messages to return returns none |

Why the bounds are enough. Two calls are what a race between calls needs: the
waiters of different ids meet only in the lock and in the pass of the
assistant. The run has no slack between reading the clock and taking the lock;
for any slack, period and timeout the latency bounds are proved. In
`BroadcastNode` the two values, sent to two nodes, give every split of a vector
into batches. Three nodes with path length 3 have batches of one node, so that
a value has to travel the whole ring; the shape of larger rings is checked by
`RingReachesAll`, as a formula, for both path lengths of the code.
`MaxInFlight` (2) bounds only repetition. Two workers share the pool's thread in
every order; the period and the poll are one unit, `Slack` one. In `GCounter`
adds of 1, 2 and 0 race on one node, a fourth adds to the other node's cell,
and both reads are on the first; `MaxRequests` (3) takes any three of these, two
to race and one to disturb: three adds to one cell, two reads and an add between
them, or a read with adds on both nodes. What is proved has no such bound.
In `Node`, offering a message once is no restriction of order, and `MaxOffered`
(4) is an init request with three others: two to race and one to disturb.
Trees, the cycle and the triangle with a tail are all the topologies of
`Flood`; the origin is one node, because the labellings are all there. `Copies`
(1) says how many equal calls may be out at once, so that in the run a repeated
number does not overlap with itself (`QuietMeansSpread` is proved for any value
of it), and `MaxInFlight` bounds repetition until the partition ends. In `Kafka` two sends race to one log from
two nodes and a third goes to another log; a poll returns one message, so that
a consumer stops in the middle of a log.

### Fairness

Threads that can run do (weak fairness for each thread: they hold no lock while
they wait, and the scheduler of the system is fair). Time passes. A message
that is sent again and again arrives at last: strong fairness for what the
network delivers, justified by the resending of the assistant, and by
partitions of Maelstrom that end. `BroadcastNode` needs it only for some batch
and some answer, of all that are on their way: what has arrived and is answered
is not sent again. In `Flood` the partition ends for good, and then an
answer is back before the next repetition (a second, against the latencies of
Maelstrom). Nothing makes clients send, nodes stop or input end:
`StopTerminates`, `StopJoins` and `RunReturns` start when somebody did. That a
malformed line ends the process counts as an end for `RunReturns`.
`AddsAnswered` and `SendsAnswered` assume that the key-value stores answer;
`DeliveredByPartOne` that a consumer goes on polling.

### Disagreements between code and documentation

1. **Fast answers** (`NP:103`; `README.md:82` of the library, "when the
   response arrives resolves future"): the request is out before its waiter is
   registered. A call without timeout then waits for ever; at-least-once calls
   recover (`CallsResolve`).
2. **Continuations under the lock** (`NP:192`; `network_test.cpp:295` expects
   `Ready` after the timeout): promises are fulfilled with `mtx_` held. A
   continuation that issues a call locks it again on the same thread. Nothing
   expires after that, and `Stop` hangs.
3. **Period of workers** (`workers.hpp:128`; `README.md:38`, once in the given
   time): `Idle` is stored before the new deadline.
4. **Counting twice** (`operations.cpp:29`; `gcounter/README.md:4`, an add
   increases the counter by its delta): the guess counts a concurrent add of
   the node that is not in the store; if its swap creates the cell first, the
   other adds its delta again.
5. **Polling of Kafka, part 2** (`kafka/part2/src/handlers.cpp:92`;
   `README.md:14` calls both parts a replicated log service): a log is skipped
   when `lower_bound` finds something. Part 1 skips it when it finds nothing
   (`kafka/part1/src/handlers.cpp:51`). No consumer of part 2 gets a message.

### Faulty variants

Some definitions have variants next to them that are wrong in the way a slip in
the code would be. They are used by nobody; each shows that a property notices
the slip.

| Variant of | Slip | Noticed by |
|---|---|---|
| `DeadlineOf`: `DeadlineAfterPass` | deadline counted from the next pass | `TypeOK` |
| `Erasable`: `ErasableEarly` / `ErasableNever` | erased one tick before it is expired / never | `WaitersBackFutures` / `SilentOnceDone`, `TimeoutLatency` |
| `Expired`: `ExpiredUntimed`, `ExpiredEarly`, `ExpiredOnlyAtLeastOnce` | calls without deadline expire; too early; one map forgotten | `ImplementsRpc`, `NeverEarly`, `CallsResolve` |
| `Stale`: `StaleTwice` | resends after two periods | `ResendLatency` |
| `LoopCondition`: `NeverLeaves` (two modules) | the loop does not look at `is_running_` | `StopTerminates`, `StopJoins` |
| `Insert`: `InsertAlways`, `InsertUnmarked` | duplicates are pushed; the set is not updated | `TypeOK`, `OffsetsCountValues` |
| `NewOffset`: `OffsetNotAdvanced` | the offset is not advanced | `BatchesDisjoint`, `ComesToRest` |
| `Bulk`: `BulkFromStart` | a batch starts at the start of the vector | `ImplementsGossip` |
| `NodeIdsForNotify`: `OwnBatch`, `NextBatchCut` | own batch instead of the next; last target missing | `Converges`, `RingReachesAll` |
| `Claimable`: `ClaimedBlindly` | a store instead of the compare-and-exchange | `NoOverlap` |
| `FinishOnPool`: `FinishLeavesInProgress` | `Idle` is not stored | `OneJobPerClaim`, `RunsAgain` |
| `NextPeriod`: `NextPeriodAndPoll` | a poll added to the period | `TypeOK` |
| `LocalPlus`: `LocalMinus`; `Swapped`: `DeltaOnly` | wrong sign; guess forgotten in the swap | `TypeOK`; `AckedAddsCounted` |
| `CasFails`: `CasFailsWithoutCreating` | no `create_if_not_exists` | `AddsAnswered` |
| `ServedAt`: `ServedAtAny` | a store without program order | `ReadsOwnAdds` |
| `SumOfCells`: `SumOnCache` | the sum starts at the cached value | `NeverAhead` |
| `HandlerWaits`: `AnyHandlerWaits` | every handler is taken to wait | `TypeOK` |
| `Queued`: `QueuedFirst` | the pool runs the newest job first | `AnsweredInOrder` |
| `Unregistered`: `StillRegistered` | the waiter stays in its map | `AnsweredOnce` |
| `PoolIdle`: `WithoutWaiting` | `Stop` does not wait for the pool | `StoppedMeansAnswered` |
| `EndOfStream`: `AnyNothingEnds` | a line without the fields of a message counts as the end | `ReadsToTheEnd` |
| `Notified`: `NotifyNobody` | no notify | `RunReturns` |
| `Neighbours`: `NeighboursAndMe` | a node sends to itself | `TypeOK` |
| `Answers`: `AnswersAlways` | an answer although the handler threw | `QuietMeansSpread` |
| `NextVisited`: `VisitedByMe` | the list of visited nodes is not passed on | `FloodEnds` |
| `FetchAdd`: `AllotTwo` | the counter of offsets is advanced by two | `TypeOK` |
| `PoolFree`: `AnyThread` | handlers of part 1 on several threads | `ImplementsLog` |
| `Merged`: `Overwritten` | a commit of part 2 overwrites, as in part 1 | `CommitsHold` |
| `NewGuess`: `OldGuess` | the log that was read is not the next guess | `SendsAnswered` |
| `AtOrAfter`: `StrictlyAfter` | `upper_bound` instead of `lower_bound` | `DeliveredByPartOne` |

## 4. Proofs

`tlapm` checks the eight `...Proofs` modules. Every invariant, every action
property and every refinement that a passing run checks is a theorem as well;
the run shows it on a small instance, the theorem for all values of the
constants that satisfy the module's named assumption. These assume what the
code gives (natural numbers, distinct markers, a period that is not zero) and
finite sets where something is counted or summed up: `Value` in
`BroadcastNode`, `Node` and `Add` in `GCounter`, `Send` in `Kafka`.

Most properties are not inductive as they stand. Each component therefore has
an invariant that is, checked by TLC first; the theorems then are: `Init`
implies it, every action keeps it (one step of the proof for each action), and
it implies the properties.

**NetworkProcessorProofs**, for any set of calls and any timeout, period, slack
and horizon (which must exceed the latest instant the bounds talk about):

* `WaitersCorrect`: `CallProgress` says where a call is before its waiter is
  registered, so that `Register` adds a waiter to a pending future and never a
  second one; `LifeCycle` says what state the processor is in when the
  assistant is blocked or gone. With `TypeOK` they are `OwnershipInv`.
* `LatenessBounded`: `[]Lateness`. Two instants grow old together, so their
  distance stays the same under `Tick`; the bound of a waiter's age is given
  relative to the assistant's own `wakeAt` or `asstNow` (`OldestUpdate` and its
  relatives), which `Punctual` bounds. `ResendLatencyCorrect` (`2 * Repeat + 4
  * Slack`) and `TimeoutLatencyCorrect` (`Repeat + 4 * Slack`) follow: with a
  period of one second, a timeout is up to a second late plus the delays of
  threads, which is close to the second that `network_test.cpp` allows for it.
* `NeverEarlyCorrect` and `SilentOnceDoneCorrect`: action properties, from the
  guards, the types and `OwnershipInv`.
* `ImplementsRpcCorrect`: the processor implements `RpcCall`. What it needs
  beside `OwnershipInv` is `AnswersEarned`: a response on its way is that to a
  request that was served, so that a call that succeeds has been executed.
* Of `Messages`, for any body, ids and names: a request arrives as a request,
  with its type, its id and its other fields (`RequestArrives`); a response
  arrives as one if and only if its body has no `msg_id` of its own, since
  `Node::Run` asks for a request first (`ResponseArrives`); so what a handler
  answers and an error it reports come back to the sender as responses to the
  id of its request (`AnswerReachesCaller`, `ErrorReachesCaller`).
* Of `MessageIds`: `IdsUnique` and `AnswersUnique`, for a word of any size that
  the counters do not overrun, and `BigNumbersCollide`, why its bound of 1000 is needed.

**WorkersProcessorProofs**, for any set of workers: `ClaimInv`. A claimed
worker is in exactly one place, in the queue once, on the thread of the pool,
suspended, or thrown away by the closed pool, which is closed just when it is to
stop and idle (`ClosedWhenIdle`). `NoOverlapCorrect` and
`OneJobPerClaimCorrect` are what that means for counts.

**NodeProofs**, for any requests: `NodeInv`. The jobs of the pool are the
requests that were taken last, in their order (`JobsAreLast`); each one before
them has been answered, awaits an answer, has thrown, or is in the hands of one
thread (`Accounted`); `InStep` says what the Run thread may conclude where it
stands. So requests of handlers that do not wait are answered in order
(`AnsweredInOrderCorrect`), none is answered twice (`AnsweredOnceCorrect`), none
is lost by `Stop` (`StoppedMeansAnsweredCorrect`), and stdin is read to its end
(`ReadsToTheEndCorrect`).

**GossipProofs**, for any nodes, values and targets: `GossipInv` strengthens
`NothingLost` by what acknowledgements and batches on their way say about their
ends. `NothingLostCorrect` and `QuietMeansSpreadCorrect` follow.

**BroadcastNodeProofs**, for any number of nodes, path length and finite set of
values:

* `BroadcastInv`: a vector has the values of the set, each once; a batch is the
  part of the vector it was cut from, in front of the offset; two batches
  between the same nodes are parts one behind the other.
* `ImplementsGossipCorrect`: what is told is the prefix up to the offset, and
  every handler, every pass of the worker and everything the network does is a
  step of `Gossip` or none. `NodesSpreadCorrect` carries the theorems of
  `GossipProofs` over.
* `EveryNodeReached`: along the ring of targets a value comes from any node to
  every node in as many hops as the path is long, for every number of nodes. A
  hop takes it from a batch to all of the next one. The last batch may be
  shorter, and then its targets, counted on past the last node, begin inside
  the first batch; the nodes before that are targets of the last batch but one.
  `RingReachesAllCorrect` is the formula of the run.
* `RestMeansReadCorrect`: when no call is open and no target is behind, every
  node reads exactly the values that clients handed to any of them. It is put
  together from all of the above: by `NodesSpread` a target has what its
  sources have, and the ring joins every two nodes. It is the safety half of
  `Converges`; TLC checks the other half, that this rest is reached.

**FloodProofs**, for any set of nodes and any connected topology: `FloodInv`.
Nodes that have the number or will get it include everybody that a list of
visited nodes leaves out (`ListInv`), and all neighbours of a node that has
passed the number on (`Served`). At rest nobody has it still to come, so the
nodes that have it are joined to no others, and a connected topology has no
others (`QuietMeansSpreadCorrect`).

**GCounterProofs**, for any nodes, reads and finitely many adds with any
deltas, 0 included: `CounterInv`. Cells only grow and never go away (`CellsGrow`), so what a
node has seen of a cell stays a lower bound of it; a node has seen its own
acknowledged adds (`OwnAddsSeen`); what a read has collected lies between what
its node had acknowledged and what is stored (`ResultsBetween`). `NeverAhead` is
only an upper bound: an old sum over a newer one in the cache, which a comment
accepts (`operations.cpp:50`), is no violation of it.
`AckedAddsCountedCorrect`, `ReadsOwnAddsCorrect`, `NeverAheadCorrect` and
`CellFoundCorrect` follow. The sums over cells and adds come first: that a sum
of natural numbers is monotone and takes one element at a time is proved by
induction over the subsets of a finite set.

**KafkaProofs**, for any nodes, keys, consumers and commits, and finitely many
sends, in both parts: `KafkaInv`. In part 1, an allotted offset is behind all
stored ones because one handler runs at a time (`OffsetsInTurn`). In part 2
logs only grow, no offset is left out, and a send's guess was the log once, so
that a swap that succeeds appends to it (`LogsGrow`, `LogsDense`,
`GuessBehind`); the guess of a commit is behind what is committed by now
(`OldBehind`). `CommitsHoldCorrect` and `ImplementsLogCorrect` follow.
`LogInvCorrect` is about `KafkaLog`, whose `NothingMissed` is not inductive
alone: `StandsBehindMessage` says that a consumer stands at 0 or right behind a
stored message, so that an offset behind all stored ones is not behind the
consumer. `MissNothingCorrect` is the two together: in both parts nothing is
stored behind the back of a consumer, and offsets are unique.

**Induction.** Where a proof needs induction (over hops, the elements of a
batch, the subsets of a finite set), it is a first-order lemma about the set of
counterexamples, from the least natural number of a set that is not empty
(`NumberInduction`, `SubsetInduction`). That the recursive functions the code's
loops are translated to exist is proved the same way.

**Only model-checked** are the liveness properties, which need fairness:
`CallsResolve`, `StopTerminates`, `Converges`, `ComesToRest`, `RunsAgain`,
`StopJoins`, `AddsAnswered`, `RunReturns`, `FloodEnds`, `SendsAnswered` and
`DeliveredByPartOne`. The five violations are behaviours found by TLC, and there
is nothing to prove about them.

## 5. Not modelled

* **Timer**: nothing uses it, and no test does. Its `Stop` notifies without the
  mutex its thread waits with (`sync/timer.cpp:21`), so that a join could wait
  for ever.
* **Broadcast 1**, **echo**: nothing concurrent, no state that could be wrong.
* **Texts**: JSON, names, logging. A body is a function from field names.
* **Broadcast 4, 5**: `TopologyHandler` stores what nobody reads. **Broadcast
  2, 3**: how often a number is stored.
* **`KeyValueStorage::Write`**: used by no task.
* **Destruction of a node** while a worker is suspended, where the broken
  promise resumes it after its worker is gone. `NetworkProcessor!Destroy` is
  the part of it that breaks promises.
* **The output of the in-memory transport**, which only a test reads.
* **The pool** is external: one thread, jobs in order, closed by `SoftStop`.

## 6. Plan

Done, in this order: network processor with its abstract specification and
proofs; broadcast 4 and 5 with theirs; workers; counter; node; flooding; ids;
the key-value client; Kafka, both parts, with its abstract specification and
proofs; messages with theirs; adding of handlers and bad lines in `Node`; then
the theorems about every safety property and refinement, component by component.

What is left, in the order of its worth:

1. Of `Flood`: a bound on the calls one number can cause, the step towards
   `FloodEnds` that needs no fairness.
2. Of `KeyValueStorage` in general, what the counter and Kafka each prove of
   their own cells: a client never goes back to before what it has seen.
3. The queue of the in-memory transport that a test reads, and the closing of
   this transport with messages still in it.

# TLA+ models of 0x-rs

0x-rs is an order book for 0x v4 limit orders. Clients submit orders over HTTP;
the **order watcher** checks them against the Ethereum chain, keeps those that
can be filled in PostgreSQL, and publishes every change to a Kafka topic. At
every block it checks all of them again. Block headers come from the **block
watcher**, another process, through another Kafka topic.

This directory holds TLA+ modules of both processes and of what connects them,
TLC configurations that check small instances, and TLAPS proofs, for instances
of any size, about every component that is modelled. Paths below are relative to
the repository.

    tlc -workers 2 -config OrderWatcher_safety.cfg MCOrderWatcher.tla
    for m in SequenceFacts.tla *Proofs.tla; do tlapm $m; done

`PROJECT.json` maps every definition to the lines it models, and lists the
components, the runs, the hazards, the findings and the theorems.

## 1. Inventory

    Ethereum node ──ws──▶ block watcher ──broadcast(20)──▶ producer ──Kafka/S3──▶ consumer
                                                                                     │
    HTTP clients ──▶ submission API ──▶ App::order ──┐          header handlers ◀────┘
                                                     ├─▶ batcher ──▶ node   (≤ 10 at once)
                                      table ◀────────┴────────────────────▶ order events (Kafka)

| Component | State it keeps | Operations | What is hard | What makes it correct |
|---|---|---|---|---|
| Block loop, `order-watcher/src/lib.rs` | none of its own but the handlers in progress; rows in the table | per header: delete old invalid rows, read all rows, revalidate each: fetch, publish, write | ten handlers interleave at every await; any error aborts the process; headers are redelivered or lost after a crash | rows converge to the chain; nothing is deleted that consumers were not told of; events follow the rows |
| Submission, `App::order` | none | validate, fetch with priority, insert, publish `Added` | runs beside the handlers; each step can fail after the ones before | no positive answer without an event; only orders that later pass the sanity check are stored |
| Order table, `database/` | `signed_orders_v4` | upsert, update, invalidate, delete, read with a sanity check | read and write are separate statements; the upsert keeps `invalid_since` | a stored row is read back as it was submitted and never makes a handler fail |
| Batcher, `ethereum/batcher.rs` | two lanes of jobs, a notification, a semaphore | `fetch_state`, cork timers, background task, one task per batch | lost wakeups, permits, jobs moved between lanes, dropped callers, answers by position | each call answered once, about its own order, not from the past |
| Contract encoding, `ethereum/abi_coding.rs` | none | encode a batch, decode statuses and amounts | arguments and results are told apart by position | the contract hashes and checks the order that was submitted; results in the order of jobs |
| Block watcher, `block-watcher/src/lib.rs` | last header sent, retry count | connect, first block, subscribe or poll, link a new head back to the last one, re-org events | the node re-organises, skips heads and fails at any moment | events rebuild a linked chain; it catches up |
| Block producer, `block-watcher/src/producer.rs` | a receiver, up to ten sends | send each header to Kafka | lag on a bounded channel, an error ends it for good and `main` ignores it, concurrent sends | no gap goes unnoticed; order is kept |
| Kafka and object storage, `types/src/kafka/` | offsets, objects | send (uploading large messages), stream (downloading them) | two writes per large message, offsets committed before handling, retries | a pointer has its object; only what was being fetched is missed |
| Block consumer, `block-watcher/src/consumer.rs` | – | stream of headers | panics on any error | – |
| Submission API, `order-watcher/src/api/` | – | `/order`, `/orders` | a bounded buffer of concurrent orders, one answer from many results, disconnects | the answer tells what became of each order |
| Order and signature validation, `orders/` | – | `LimitOrder::validate`, `SignedOrder::validate`, `SignedOrderState::validate` | three checks at three places that must agree | what is accepted passes the later checks |
| Conversions, `orders/*`, `utils/serde.rs`, `types/src/*_proto.rs` | none | JSON to order, order to row and back, order to event and back | seven addresses, eighteen columns and numbers of three widths that differ only by name or position | every form decodes to what was sent |
| Recovery, CLI, logging, metrics, shutdown, build scripts | – | – | – | not modelled, see section 7 |

`order-watcher/src/ethereum/connection.rs` and `types/src/maybe_large.rs` are
compiled by no crate.

## 2. Modules

| Module | Models | Beside it |
|---|---|---|
| `OrderWatcher` | block loop, `App::order`, table, topic of headers, crashes | `HeaderTopic`: how it is given headers; `OrderBook`: what it promises; `OrderWatcherRefinement`: that it does; `OrderWatcherProofs`, `OrderWatcherRefinementProofs`: theorems; `MCOrderWatcher`, `MCReaccepted`: instances |
| `Batcher` | the batcher | `FetchService`: what it promises; `BatcherRefinement`: that it does; `BatcherProofs`, `BatcherRefinementProofs`: theorems; `MCBatcherRefinement`: its instance |
| `BlockWatcher` | the block watcher and its node | `ChainFollower`: what a reader of its events sees; `BlockWatcherProofs`: theorems |
| `HeaderPipeline` | broadcast channel, producer, `KafkaProducer::send`, `KafkaConsumer::stream` | `HeaderTopic`: what its consumer's side shows; `HeaderPipelineProofs`: theorems |
| `OrderCodec` | an order as JSON, contract call, row and event, and the checks in between | operators only, used by `SubmitApi`; their lemmas are in `SubmitApiProofs` |
| `SubmitApi` | routing, `App::orders`, `App::order` on the forms of `OrderCodec`, responses | `SubmitApiProofs`: theorems; `MCSubmitApi`: orders and requests to try |
| `SequenceFacts` | – | lemmas about sequences and least numbers that the proofs share |

How they fit: `SubmitApi` follows single orders through `App::order` and looks
at what they are turned into on the way; `OrderWatcher` takes an order for its
hash, and follows its row and its events through blocks, overlapping handlers and
crashes. It sees a state fetch as "the chain at some moment during the call",
which is what `FetchService` says and `Batcher` is shown to implement. The topic
of headers is where two models meet: `HeaderTopic` is a queue that is read one
message at a time, acknowledged at any moment, and read again from the last
acknowledgement after a restart, or from its end if there was none.
`OrderWatcher` is built on it: its `TakeHeader`, `AutoCommit` and `Restart` take
the actions of an instance of `HeaderTopic` over its own variables.
`HeaderPipeline`, with uploads, pointers and offsets beneath, is shown to
implement it. The pipeline starts with the events `BlockWatcher` produces.

**OrderWatcher.** One action per stretch between two await points. `TakeHeader`,
`DeleteOrders`, `GetOrders`, `FetchState`, `EmitChange`, `UpdateOrder`,
`InvalidateOrder`, `FinishBlock` are a handler (`phase`, `block`, `task`);
`Submit`, `FetchSubmitted`, `InsertOrder`, `EmitAdded`, `RequestFails` are
`App::order` (`req`). `db` is the table, one row per order hash, each query
atomic as it is under the connection's mutex and in PostgreSQL. `view` is the
last event of each order, `told` a history of the blocks whose handlers
published it unfillable. A fetch reads `chain`, which `NewHead` may change
arbitrarily with each block, re-orgs included. `Crash` is both a kill and the
abort that follows any error in the block loop (`spawn_or_abort`, and `panic =
"abort"`): handlers and calls are gone, the table stays, and headers after the
committed offset come again; without an offset the consumer starts at the end
(`HeaderTopic`'s `Restart`). `Underflow` is the abort that needs no fault: at a
block below `max_reorg` the subtraction at `lib.rs:317` panics, and a release
build aborts on a panic (`Cargo.toml`; in a build without that setting the panic
would end the block loop's task only). Orders are identified by their hash: the
same order with two signatures is one order here.

**Batcher.** `priority` and `queue` are the lanes, sequences of jobs with a set
of senders (the callers). `FetchState` is `State::insert` with the notification
or the cork timer it leads to; `TimerFires` the timer; `Notified`,
`AcquirePermit`, `TakeBatch`, `FindEmpty` the loop of the background task;
`FetchBatch` and `SendResult` the spawned batch task; `DropCall` a caller whose
future is dropped.

**BlockWatcher.** Blocks are numbered in the order the node learns of them, and
that index stands for the hash. `Connect` … `HandleError` follow `run`,
`run_once`, `fetch_loop` and `send_with_reorgs`; `stack` is what a reader
builds out of the events.

**HeaderPipeline.** `sent` and `next` are the two ends of the broadcast
channel, `uploads` and `queued` the producer's sends, `pos`, `fetching` and
`committed` the consumer's place in the topic.

**OrderBook.** What readers of the table, of the stream and of answers can rely
on in spite of everything that overlaps: six kinds of step. `Store`, `Announce`,
`Report`, `Mark`, `Revive` and `Drop` have the guards that make them promises:
only acceptable orders are stored or spoken of, a mark names a block readers
were told of and only moves to an earlier one, a row ends `max_reorg` blocks
after its mark, a client has its answer after the event. It promises no
agreement between the last event and the row: that is false (section 5).

**OrderCodec.** Records and tuples of an order's fields, by name or by position
as the code has them. A hash is the tuple of what is hashed, in its order, so
two orders have one hash if and only if they agree on it. A signature's `r`
names its signer and the message, `s` is the parity that `v` must have;
`Ecrecover` stands for the curve. A number in a text has a radix; a limb has
`LimbBase` values, so that two, four and one of them overflow at different
sizes (`Values`). `Columns` is the schema's order of the columns and `Pattern` that of the
tuple in `queryable.rs`. The contract (`AbiDecode`, `RelevantState`) is external: it
takes the arguments apart by its own ABI, hashes what it gets and recovers with
`v` of 27 or 28 only, where the local check also takes the larger ones.

**SubmitApi.** `stage[r][i]` is how far order `i` of request `r` has come, or
the name of the `orders::Error` it ended with; `state[r][i]` what was fetched
for it; `answer[r]` the response with its codes; `stored` the rows by hash and
`announced` the events, in the forms of `OrderCodec`. After `Disconnect` a query
or message that was handed over may still take effect (`TakesEffect`):
`with_connection` runs the query in a thread of its own.

Each component's module also holds operators named `Mutant…`. Each is a
definition with one plausible mistake in it; putting it in the place of that
definition makes TLC report the property `PROJECT.json` names. No specification
uses them: they show that the property can fail.

## 3. Runs

Bounds are constants named `Max…`; each guards the action it bounds.

| Run | Shows | Instance |
|---|---|---|
| `ow_safety` | types; stored rows pass the sanity check; `invalid_since` is a block whose handler said so; silent rows belong to clients without a positive answer; rows are deleted only after the re-org window; every step is one of `OrderBook` | 2 orders (one refused by `LimitOrder::validate`), 2 handlers, 2 submissions, blocks 0 to 2, re-org of 1, 1 crash, underflow at block 0: 1.1 M states |
| `ow_sequential` | with one handler and no submissions the stream follows the table and the chain, and no unfillable status follows another | 1 order with 5 chain states, 4 blocks |
| `ow_liveness` | calls are answered; the table converges to the chain in spite of overlapping handlers and a crash | 1 order, 2 handlers, 1 submission, re-org of 2, 1 crash |
| `ow_late_added`, `ow_overlap`, `ow_reaccepted` | findings, section 5 | 1 order |
| `batcher` | senders, jobs and permits are neither lost nor duplicated; submissions are promoted; no lost wakeup; refinement of `FetchService`; every call answered | 2 callers, 2 orders, batches of 2, 2 at once: 220 k states |
| `block_watcher` | the sanity checks before each send hold; events build a linked chain; a re-org event takes back exactly what is stale; the watcher catches up | 7 blocks, re-org limit 3, 1 failure |
| `block_watcher_overflow` | finding, section 5 | 6 blocks, re-org limit 2 |
| `header_pipeline` | pointers have objects; no gap goes unnoticed; only uploaded or retried headers are overtaken; the consumer misses only what it was fetching; headers arrive while the producer lives; the consumer's side implements `HeaderTopic` | 5 events (2 large, 1 re-org), channel of 2, 2 sends at once, 2 failures or restarts, 1 retry |
| `header_order` | finding, section 5 | 3 events, 1 large, no failures, no retries |
| `submit_api` | answers fit what became of each order, error by error; the contract and the local check judge signatures alike, but for a `v` other than 27 and 28; rows read back and events decode to what was submitted, and rows pass the check of `get_orders`; every request is answered | 2 requests out of 11, batches of up to 3 in a buffer of 2; 9 documents: one order in both signature types and both radices, another, a forged one, one with a `v` of 38, one for another chain, one without an amount, one too large, one with an unknown signature type: 176 k states |

Why these bounds are enough to be interesting. In `ow_*`: two handlers and one
order are what a race on a row needs, a third block lets a row be invalidated,
revived and pass the re-org window, block 0 is below that window, and the second order in `ow_safety` is one
that is refused. A handler's tasks for different orders touch different rows,
so more orders add interleavings and no new conflict; for safety the proofs
lift the bound. In `batcher`: two callers on two orders give joined, promoted
and separate jobs, and batches that fill, are corked, or overlap under two
permits. Three callers are more states than liveness can be checked on; the
proofs of all its safety properties and of the refinement lift the bound. In `block_watcher`: seven
blocks make a branch of the limit's length beside the old one. In
`header_pipeline`: the channel is overrun with three unread events.
`header_order` has neither failures
nor retries, so that nothing but the code's own concurrency can change the order.
In `submit_api`: a remaining amount of more than one limb, a salt of more than
two and every address field different make a swapped column, a lost limb or a
wrong radix visible. `Chains` limits which states of all orders the chain may
have together; it is all of them except in `ow_safety`, where the order that is
refused at once has one state. `QUEUE_CAPACITY` 20, `MAX_CONCURRENT_BLOCKS` 10, `CONCURRENT` 32 appear scaled
down; `tokio` rounds the channel's 20 up to 32, which only moves the bound.

Deadlock is checked, except in `header_pipeline` and `header_order`, which may come
to rest with their events sent and delivered or the producer ended, and in `submit_api`, where
all requests are answered in the end. There the liveness properties say that
nothing waits for ever.

## 4. Fairness

- Tasks that are ready are polled by Tokio, and the database, Kafka, storage and
  the node answer or fail: weak fairness of the steps of handlers, calls, the
  batcher's loop and tasks, sends and fetches. A step and its failure are one
  disjunction where both are possible, so neither is promised.
- Cork timers fire: `TimerFires`.
- Headers keep coming (`NewHead`, `HeadAtBound`) and offsets are committed
  (`AutoCommit`): Ethereum produces blocks, librdkafka commits every five
  seconds. At the last block of the bound the header is repeated, which stands
  for further blocks that change nothing.
- The block watcher polls when its subscription is quiet: `NextFromPoll`, the
  `POLL_DELAY`.
- A block watcher that aborted is started again (`Restart`). Nothing in the
  repository does that; `CatchesUp` relies on whatever runs the process.
- Nothing is assumed of clients, re-orgs, failures, crashes, restarts of the
  producer, or clients that disconnect.

`RevalidationsAnswered` has the premise that submissions stop at some point.
Without it the property is false: `take_batch` fills a batch from the priority
lane first, so a steady stream of submissions starves revalidations.
`HeadersArrive` excuses headers sent after the producer has ended: `main`
ignores that it has, and only a restart brings it back.

## 5. Findings

Each is a run that TLC fails, with the quoted text in `PROJECT.json`.

- `ow_late_added`: a handler that runs between the insert and the `Added` event
  of `App::order` can publish "unfillable" first. `Added` is then the last event
  and stays so, for the row already says invalid.
- `ow_overlap`: two handlers that revalidate one order from different readings
  publish and write in different orders; the row ends up right and the last
  event wrong, and since events come from comparing with the row, no event
  corrects it. The `TODO` at `order-watcher/src/lib.rs:220` is about this.
- `ow_reaccepted`: `insert_order` leaves `invalid_since` alone on a conflict, so
  an order accepted again on an old invalid row is deleted by the next handler,
  before it is revalidated, while its client and the consumers believe it is in.
- `block_watcher_overflow`: the re-org limit counts missing blocks, not
  re-organised ones: after falling ten blocks behind, retries fail until the
  process aborts, without any re-org.
- `header_order`: `types/src/kafka/producer.rs:22-23` says that messages with the
  same key, which all records have, "are therefore guaranteed to be delivered in
  order". The block producer has up to ten headers in `KafkaProducer::send` at
  once, and `send` uploads a large one before it gives the record to the client:
  the headers after it go first. No failure is needed. A retry of the client
  does the same to small headers. What remains of the claim is
  `OnlyTheSlowAreOvertaken` in `header_pipeline`, proved in section 6.

Not counted as a finding, because no document of the repository speaks of it:
the index in a validation error's `field` (`api/error.rs:118`) counts the errors
rather than the orders of the batch. `AnswerFitsOutcomes` states what is so: the
field names the right order exactly when every order before it was refused too.

`StreamConverges`, which the first two violate, says that from some point on
the last event of every order is fillable if and only if its row is in the table
and the chain finds it fillable. It also covers an update that comes after the
row was deleted: the order is then announced as fillable and has no row.

## 6. Proofs

Every theorem below holds for any values of the constants that satisfy the named
assumptions, and all of its steps are checked by TLAPS. Most have the same form:
an inductive invariant `IInv`, one lemma per action or per conjunct, and a last
step that draws the property from `IInv`. TLC checked each `IInv` on the runs'
instances before it was proved.

### Order watcher

`OrderWatcherProofs` and `OrderWatcherRefinementProofs`, under
`SetsAssumption`, `SignatureAssumption`, `BlockAssumption`, `BoundAssumption`
and `NullAssumption`:

| Theorem | States |
|---|---|
| `TypeCorrect` | `TypeOK` |
| `RowsAreSane` | no row is stored that `get_orders` refuses |
| `ToldBeforeInvalid` | a row is dated invalid only by a block whose handler published it |
| `NoSilentAcceptance` | a row nobody was told of has no positively answered client |
| `DropOnlyAfterWindow` | the action property `DroppedAfterReorgWindow` |
| `Invariance` | `Spec => []IInv`, from which the others follow |
| `SequentialStreamMatches` | with one handler, no submission and no crash, the last event of a stored order agrees with its row |
| `SequentialNoRepeat` | and no unfillable status follows another |
| `ImplementsOrderBook` | `Spec => IsOrderBook`: the watcher implements the abstract order book |

`IInv` conjoins `TypeOK`, the two goals `InvalidRowsWereTold` and
`SilentRowsAreUnacknowledged`, and what they need to be inductive:

- `RowInv`: stored orders are well formed and were accepted by the contract.
  With `SignatureAssumption` (what the contract accepts, the local check
  accepts) that gives `RowsPassSanityCheck`. It needs `ReqInv`: a call past its
  fetch holds an accepted order.
- `PhaseInv` and `TaskInv`: tasks exist only while a handler revalidates, and
  hold the row they read and, after the fetch, a state the chain may report.
- `WriteAfterEvent`: a handler about to write an order it found unfillable has
  its block on record as one whose handler published that. Without it `InvalidateOrder` could date a row by a block nobody was told of.
- `OkInv`: a call answered positively has its event in the topic.

The proofs of these do not use that the topic of headers is a queue: any header
may come at any time. `DropOnlyAfterWindow` follows from `InvalidRowsWereTold` at
the step that deletes. `Crash` and `Underflow` share `Restart`, which keeps the
table and the stream and drops everything that would have to be re-established.

`Sequential`, the hypothesis of the two theorems about the stream, is what the
findings of section 5 leave: two handlers on one order (`ow_overlap`), or a
handler and a submission (`ow_late_added`), can cross, and a crash can fall between
an event and the write it announces. It is the instance of `ow_sequential` without
its bounds. The invariant is `StreamInv`: a task's row is still the row in the
table, the stream agrees with the row until the event is out (`RowAgrees`) and
with the state that will be written after it (`TaskFits`). The case that needs
thought is a state for which `revalidate_order` publishes nothing: lemma
`Decisions` shows that then nothing is written either and the row already agrees.

`OrderWatcherRefinementProofs` goes action by action: each is one action of the
abstract specification, or leaves its variables alone. `IInv` is what the guards
of `OrderBook` need: `TaskInv` and `ReqInv` that only acceptable orders are
reported, stored and announced, `WriteAfterEvent` that a mark is one readers were
told of. The set of positively answered orders is not a variable of the watcher;
`AgreedAfter` and its neighbours say how each step of a call changes it.

`SignatureAssumption` is an assumption about the contract and the recovery code
and not proved there. `SubmitApiProofs` proves the corresponding fact where the
contract is modelled (`ContractReads`, `VerdictsAgree`). `BlockAssumption` says no more than that
block numbers are naturals in order: a chain shorter than `max_reorg` is included.

### Batcher

`BatcherProofs` and `BatcherRefinementProofs`, for any callers, orders, batch size
and concurrency, under `SizeAssumption`, `BatcherBoundAssumption`,
`NoneAssumption` and `OpenAssumption` (the last two only say that `None` and
`Failed` are no calls and no states):

| Theorem | States |
|---|---|
| `BatcherTypes` | `TypeOK` |
| `EachHasOneSender` | `OneSenderPerCall`: exactly one sender per open call, none besides |
| `OrdersAreQueuedOnce` | `QueuedOnce` |
| `SubmissionsArePromoted` | `PriorityIsPromoted` |
| `NoPermitIsLost` | `PermitsAccountedFor` |
| `NoWakeupIsLost` | `NoLostWakeup` |
| `PriorityGoesFirst` | the action property `BatchesFavourPriority`: no batch takes a revalidation while a submission is left behind. It takes three jobs and more to go wrong, so no run of the size of `batcher` shows anything of it |
| `BatcherIsFetchService` | `AnswerSpec => IsFetchService` |

The invariant says where senders are. `Partition`: no caller is in two lanes,
batches or replies; `OwnJobs`: nor in two jobs of one, and a job is about the
order its callers asked for; `Accounted`: whoever waits is somewhere. The three
need each other: without `Partition` an insert could put a caller beside its own
sender, and without `OwnJobs` a merge could. `Lanes` has one job per order over both
lanes, which is what lets `State::insert` stop at the first match. `Batches` and
`Answers` carry this through the batch task, and `Fits` says that results are as
many as jobs, about their orders, and not older than any of the calls that wait
for them, which an insert into a job that is already being fetched would break.
`Calls` is what ties the age of a call to the chain. `Permits` adds that batches
in flight are finitely many, so that they can be counted.

In the refinement a call is `FetchService`'s request, a delivery its answer or
failure, a dropped future its giving up. `AnswerSpecSpec` shows that the history
variable of `BatcherRefinement` excludes no behaviour of the batcher.

### Block watcher

`BlockWatcherProofs`, for any tree of blocks, re-org limit and failures, under
`WatcherAssumption`:

| Theorem | States |
|---|---|
| `WatcherTypes` | `TypeOK`, with the limits on depth and retries |
| `SanityChecksNeverFail` | `SanityChecksHold`: `InsaneNumber` and `InsaneParentHash` are never raised |
| `ReadersKeepUp` | `ReaderIsInStep` |
| `ReorgsTakeBackTheStale` | the action property `RewindsExactly` |
| `EventsLinkChain` | `Spec => FollowsTheChain`: it implements `ChainFollower` |
| `WatcherInvariant` | `Spec => []IInv` |

`LinkedTree`, `LinkedStack` and `LinkedQueue` say that the node's blocks, the
reader's chain and the headers to be sent are linked by their parents; `Numbered`
that the reader's chain has no gaps, so that dropping everything above a number
drops as many as were counted. `LinkInv` relates the loop that looks for the
common ancestor to the reader: its base is `rewound` places below the reader's
last block. `SendInv` keeps base and reader together while headers are sent one by
one. `PcInv` says when a last block is known. `FreshInv` is there for
`ReorgsTakeBackTheStale` only: no header in the queue was sent before; once the
loop rewinds, queue and chain go down side by side and have not met. Ancestors are
a recursive function over the tree; that it is defined (`AncestorsExist`) and that
a linked queue leads down to the base (`QueueDescends`) are shown by the least
number for which they fail, since the induction theorems cannot be instantiated.

### Header pipeline

`HeaderPipelineProofs`, for any events, channel capacity, concurrency, retries and
failures, under `PipelineAssumption`:

| Theorem | States |
|---|---|
| `PipelineTypes` | `TypeOK` |
| `PointersResolve` | `PointerHasObject` |
| `ProducerNeverSkips` | `NoSilentGap` |
| `SmallHeadersKeepOrder` | `OnlyTheSlowAreOvertaken` |
| `ReaderMissesOnlyInterrupted` | `OnlyInterruptedAreMissed` |
| `LogIsHeaderTopic` | `Spec => IsHeaderTopic` |

`InOrder` strengthens `OnlyTheSlowAreOvertaken` to the messages that are still on
their way to the topic, and says that all of them came before the next one the
producer takes. `OffsetInv` says that the committed offset is not before the place
at which the reader last began, and that a message being fetched was taken since:
without it a restart could come back behind messages already counted as missed.

`HeaderTopic` is where the processes meet: `LogIsHeaderTopic` proves that the
pipeline's consumer side implements it, and `OrderWatcher` takes its actions, so
that what is proved of the order watcher assumes no more of the topic.

### Submission API and conversions

`SubmitApiProofs`, for any documents, batches, requests and buffer size, and any
reports of the contract that fit an unsigned integer of the width of an amount,
under `CodecAssumption` and `ApiAssumption`:

| Theorem | States |
|---|---|
| `SubmitTypes` | `TypeOK`: in particular at most `CONCURRENT` orders of a request in progress |
| `VerdictsAgree` | `SignaturesJudgedAlike`: an order the contract accepts passes `SignedOrder::validate`, and one it refuses for its signature does not, or has a `v` other than 27 and 28 |
| `StoredAndSentAlike` | `StoredAsSubmitted`: each row is read back as an order and a signature that were sent, under its hash, and passes the checks of `get_orders`; each event decodes to such an order, with the hash of a stored row and an amount the contract reported |
| `AnswersAreTrue` | `AnswerFitsOutcomes`: after `ok` every order is stored and published; after `OrderInvalid` there is one error for each invalid order, in their order and with their codes, the field is right exactly when all orders before were refused, and all others are stored and published |
| `ApiInvariant` | `Spec => []IInv` |

`IInv` follows each order: `OrderInv` says by its stage what has been checked,
stored and published, and that one refused for its signature gave the contract
reason to (`Dubious`); `RowsInv` that every row is, column by column, the row of an
order whose maker signed it, and `EventsInv` that every event is that of an order
that was read and of a state the contract reported; `AnswerInv` that an answer is
the one its orders' stages call for, which no later step changes. `BufferInv`
bounds an order in progress by the number of results the buffer has yielded, from
which the bound on their number follows. The lemmas about `OrderCodec` go through the conversions: `ContractReads` (each of the twelve arguments
is the field at its position, so the contract hashes the order that was sent, and
accepts a signature exactly if it is its maker's and has a `v` of 27 or 28), `RowColumns` and `NamedColumn` (the
tuple of `queryable.rs` names each column of the schema by its own name), and
`RowUpsert` (the conflict clause keeps every column but the remaining amount, so a
row written twice is still one order's row).

Two proofs deal with a recursion. A number sent in an event
is given back by its limbs (`LimbsGiveBack`): no number has more than four, so
`FoldOfLimbs` writes the fold out, and `NextLimb` takes a division apart one limb
at a time, for any `LimbBase`. The errors of a batch are gathered by a loop over
any number of results: `GathersExists` shows by a least counterexample that the
recursive function of `Refusals` exists, and `RefusalsInOrder` by another that
after each result it holds the errors so far at their places (`Places` counts
them).

### Only model-checked

- All liveness and the properties that rest on fairness, `StreamConverges`,
  `TableConverges`, `AnswersArrive` and their kind: out of the proof system's
  reach.

## 7. Not modelled

- Elliptic curves and Keccak: a hash is what was hashed, and recovery gives the
  signer that `r` names or nobody. Hexadecimal digits and the text around a number: a text is a radix
  and a value.
- The conversion of block headers to and from protobuf (headers are moved as they
  are), the JSON of responses, and the panics on contract results of another
  shape than the ABI's.
- A change of configuration between runs: rows are checked against the present
  chain id, exchange and flash wallet, and an old row that fails the check stops
  every handler. `ChainInfo` is fixed in the models.
- Command line, logging, metrics, allocator, shutdown, build scripts, database
  migrations, creation of topics: they do not touch the order book's state.
- A full queue in the Kafka client, and an S3 that loses what it stored.
- Large numbers: amounts are members of small sets, limbs have few values; block
  numbers do not overflow above.

## 8. Plan

Done: `OrderWatcher` with `OrderBook`, `Batcher` with `FetchService`,
`BlockWatcher` with `ChainFollower`, `HeaderPipeline` with `HeaderTopic`,
`SubmitApi` with `OrderCodec`. Proved: every refinement, every action property
that is not about liveness, and every safety invariant of the runs. What is left
to TLC are the liveness properties.

Next, modelling: the conversion of block headers, and the connections of the
Kafka clients and of Ethereum with their timeouts.

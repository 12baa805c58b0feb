# A verification of synapsePlatform

TLA+ models of the concurrent and failure-prone parts of synapsePlatform, the
TLC runs that check them on small instances, and the theorems TLAPS proves
about them for every instance.  Paths below are relative to the repository's
root; `ingestor.go` is `internal/ingestor/ingestor.go`, `ack.go` is
`internal/kafka/ack.go`.

## The system

synapsePlatform consumes device messages from Kafka, one pipeline per topic,
turns them into events and stores those in SQLite.  An HTTP API reads the
events and asks a language model for summaries of them.

| part | code | state | operations | interacts with |
| --- | --- | --- | --- | --- |
| consumer | `internal/kafka/poller.go` | the kafka-go reader, `lastPoll` | PollMessage, Check, Close | broker; hands deliveries with ack handlers to the pipeline |
| offset committer | `ack.go` | per partition `next` and `completed`, under a mutex | Ack (register), complete, commit | called by the poller at fetch time and by every goroutine of the pipeline |
| pipeline | `ingestor.go` | two channels, the batch, a ticker, three contexts | poll, transform, collect, flush, retry, dead-letter, ack, drain | consumer, transformer, store, failure storages |
| transformer | `transformer.go`, `normalized_message.go` | none | Transform, Normalize, Validate | called by the workers |
| failure storage | `fallback_failure_storer.go`, `internal/kafka/publisher.go` | table failed_messages, DLQ topic | StoreFailure | called by every goroutine |
| event store | `internal/sqllite/storer.go` | events, store_accounting, summaries, links | StoreData, StoreBatch, ListEvents, SaveSummary ... | pipeline, API, summary service |
| summary service | `internal/intelligence/summary` | none (the cache is in the store) | Summarize | event store, provider router |
| provider router | `internal/intelligence/provider` | none | Complete, Embed | language model endpoints |
| API | `internal/api`, `internal/auth` | rate limiter | handlers behind a chain of middleware | event store, summary service, health checker |
| health | `internal/health` | none | CheckAll, the three endpoints | store, consumers |
| statistics | `internal/ingestor/stats.go` | a ticker | Run, ReadStats | consumers, main's errgroup |
| main | `cmd/main.go`, `cmd/orchestrator.go` | one errgroup | start, signal, shutdown | everything |

The log and metrics packages wrap these parts and change nothing.

What is hard to test here, and where the properties aim, is listed line by line
under `hazards` in `PROJECT.json`.  In short: one committed offset stands for
all the offsets below it, while a poller, several workers and a batcher finish
deliveries in any order; a rebalance takes a partition away and gives it back
while deliveries and the watermark live on; commits are sent after the mutex is
released and never again when they fail; the store and both failure storages
fail at any point of a batch; a signal cancels a context under which some
goroutines are blocked on full channels, some in a retry, and the batcher drains
under deadlines of its own while main already closes the consumer; batchers of
several topics share one connection, repeat half-stored batches, and a client
pages through a table that grows meanwhile; two requests miss the summary cache
together, while events arrive between their queries and a restart changes the
model; the parts of main end in any order and share what one of them closes.

What makes each part correct:

- committer: no commit passes a message without an outcome, decided or sent; an
  advance has one sender; and, as its comment says but the code does not do, the
  cursor only advances and a gap closes when it is redelivered;
- pipeline: nothing is acked before it is stored or dead-lettered, nothing is held
  by two goroutines, acked twice, or written once it is acked, nothing is dropped
  while the pipeline lives, every goroutine returns after a cancellation;
- both together: at-least-once from the broker to the table, across restarts;
- event store: a call that returns nil has stored its whole batch, a row is never
  replaced, the accounting never claims more than the table has, the pages of a
  listing neither skip nor repeat, and the one connection is always given back;
- transformer: what is stored is a normal form that validates, two messages share
  a row only if they share device, type and timestamp, and a failure is final
  exactly when trying again cannot help;
- single and batch mode: the same contract of a delivery as the worker pool;
- summary service: a cached answer was made from the statistics and parameters of
  the request it answers, is found by whoever could use it, and is linked to the
  events its prompt listed;
- provider router: at most two calls, and an error tells which fallback may help;
- API and authentication: only a call with a valid token of the right scope
  reads, the limiter keeps its rate;
- health: ready means that every probe passed;
- main: once its context is cancelled everything stops, and the database is
  closed after all that uses it, except the handlers Shutdown gave up on.  The
  consumers are closed while their pipelines may still drain.

## Modules

| module | what it is |
| --- | --- |
| `CommitLedger` | abstract: what at-least-once delivery promises of a partition, seen from the broker |
| `OffsetCommitter` | `ack.go` and PollMessage for one partition, with the reader, the group and the process around it |
| `OffsetCommitterProofs` | the proofs about `OffsetCommitter` |
| `MCOffsetCommitter` | its instances for TLC |
| `DeliveryContract` | abstract: what the pipeline promises of a delivery |
| `IngestPipeline` | ingestWithWorkerPool |
| `IngestPipelineProofs` | the proofs about `IngestPipeline` |
| `MCIngestPipeline` | its instances for TLC |
| `EventStore` | the event table: StoreData and StoreBatch under the batchers' retries, ListEvents page by page |
| `EventStoreProofs` | the proofs about `EventStore` |
| `MCEventStore` | its instances for TLC |
| `Transformer` | from the value of a Kafka message to an event: decoding, registry, Normalize, Validate, the event id, Classify |
| `TransformerProofs` | the proofs about `Transformer` |
| `SequentialIngest` | ingestSingle and ingestBatch, on messages with contents; the batcher is `IngestPipeline`'s |
| `SequentialIngestProofs` | the proofs about `SequentialIngest` |
| `MCSequentialIngest` | its instance for TLC |
| `ModelProviders` | the language model clients and the router, as operators |
| `SummaryService` | a summary request, statement by statement, over the tables it reads and writes |
| `SummaryServiceProofs` | the proofs about `SummaryService` |
| `MCSummaryService` | its instance for TLC |
| `HttpApi` | the middleware chain, the token's validation and the statuses, as operators |
| `Platform` | main: the errgroup, the server with its requests, probes and limiter, the shutdown |
| `PlatformProofs` | the proofs about `Platform` |
| `MCPlatform` | its instance for TLC |
| `Ingestion` | one topic end to end: `IngestPipeline` and `OffsetCommitter` composed, with main's shutdown |
| `IngestionProofs` | the proofs about `Ingestion` |
| `MCIngestion` | its instances for TLC |

A definition named like `complete_naive` is a mutated form: the definition it is
named after as a plausible bug would have it.  No specification uses one; they
show that a property notices the bug.

### OffsetCommitter

The map `parts` is keyed by partition and no code relates two of its entries, so
the module has one: `registered`, `next`, `completed`.  `PollMessage(o)` is a
fetch with the registration inside it.  A completion handler is two steps, as in
the code: `complete(a, d)` is the part under the mutex and leaves in `call[a]`
the offset to commit, `CommitMessages(a)` or `CommitFails(a)` is the call made
after the unlock.  The recursion of the walk is one choice of the end `n` of the
contiguous run.  `settled` is a history variable: the offsets with a durable
outcome, which is what a handler is called for.

Around it, external: `Assign`, `Revoke` (deliveries in flight stay with their
handlers, parts keeps its entry), the other members of the group
(`ForeignSettle`, `ForeignCommit`), `Crash` (the broker alone remembers), and
`Drop`, by which the pipeline gives a delivery up.

### IngestPipeline

An action is what a goroutine does between two points where another can be
noticed: a channel operation, a store call, a write of a failure, a handler
call.  `pc[g]` says at which such point `g` stands, `hand[g]` which delivery it
holds.  The poller is `ProcessData`, `PollFails`, `PollCancelled`,
`SendDelivery`; a worker `Transform`, `SendEvent`, `WorkerReturns`; the batcher
`Collect`, `EventsClosed`, `Tick`, `StartDrain`, `DrainExpires` and, in a flush,
`StoreSucceeds`, `StoreFails...`, `Backoff...`.  `failTerminalAndAck` and `ack`
are shared by all of them: `StoreFailure`, `StoreFailureFails`, `Ack`, and
`HandoffCancelled` is the ctx.Done branch around a send.

The batcher's main loop, its drain loop and the last flush are one set of
actions with the context in `phase`: `ctx`, `drainCtx`, `flushCtx`.  `expired`
holds the contexts that are done.  A call made under such a context fails with a
transient error, which is why a flush entered through a closed channel in the
main loop lets its deliveries go.

A message is a model value and `Kind` says how the code classifies it: good,
undecodable or invalid (terminal at ProcessData), of an unknown type (terminal
at Transform), with a payload that fails to unmarshal or validate (transient
at Transform, because Classify does not list its error), or with metrics that
are null or absent.  Such metrics leave a nil payload, on which Normalize panics
in the worker: `Panic` sets `down`, and no goroutine takes a step any more.

`acked` and `stored` are sets, in which a second ack or a second row of a delivery
would not show.  `afterAck` is a history variable for just that: the deliveries
that were stored, recorded or acked again after their handler had been called.
`DeliveryContract` keeps it empty.

A store call that fails may have written its rows all the same: StoreData
accounts after it inserts.  So may a write to the SQLite failure storage, after
which the record goes to Kafka too.  StoreBatch is one call here, all of its rows or none.

### EventStore

`rows` is the events table, `acct` the row of store_accounting; `conn` is the one
connection of the pool, which a transaction holds from `BeginTx` to `Commit` or
`Rollback`, and a single statement only for its own duration.  A writer is the
batcher of one topic: `Flush` takes a batch and calls StoreData for one event or
StoreBatch for more, `Retry` and `GiveUp` are retryTransient's, `Acked` the end of
a flush that was stored.  StoreData is two statements with the connection free in
between; StoreBatch is a transaction per chunk with its accounting inside.
Every statement may fail, and a statement on its own and a commit may also fail
with their effect done; `WaitCancelled` is a context that ends while the call
waits for the connection; `Crash` loses an open transaction and nothing else.

An event is an id and the stamp `ingested_at` that the transformer put on it, so
that a redelivery is the same id with a new stamp.  Ids are numbers in the order
of their text.  ListEvents is `ListFirstPage` and `ListAfterCursor`, each with
any of the client's limits; `AfterCursor` is the query as the code calls it,
which compares event_id with the text of the zero time, at `ZeroTime` among the
ids.  `seen`, `repeated`, `start` and `counted` are history.

The module is not yet a part of `Ingestion`, where a store call is the one
action of `IngestPipeline` that `NilMeansStored` justifies.

### Ingestion

A delivery is an offset and the session it was fetched in, so to the pipeline a
redelivery is a message of its own, which is all it can tell.  `Poll` is
ProcessData of one component with PollMessage of the other, `Handle` is `Ack` of
one with `complete` of the other; while a goroutine is inside CommitMessages it
takes no other step.  Everything else is a step of one of them alone, except
`Panic`, which ends both, `Restart`, which empties the memory of both, and
`CloseConsumer`, by which main closes the reader as soon as the context is done: acks of the drain then fail.
The ack_failed rows of `IngestPipeline` are not part of it: they are written
after the commit has failed and no code reads them.

### Transformer and SequentialIngest

`Transformer` has no state.  A JSON object is a function from the names of the
fields it has to typed values, so that a missing, a null and a mistyped field
differ.  `Transform` follows MessageTransformer step by step and `KindOf` says
what `Classify` makes of the step that failed.  A number is an integer (power in
milliwatts); the rounding of floats is left out, and no name contains the "|" that
joins the three parts of a business key.  A text is a word with a case and
perhaps blanks around it, which is all that ToUpper, ToLower and TrimSpace see
and change; a text of blanks is empty once trimmed.  An event id is the triple it is
the hash of, with the timestamp as it was written, zone included.

`SequentialIngest` instantiates `IngestPipeline` without workers for what the
three modes share: the batcher's steps, retryTransient and failTerminalAndAck.
Its own are `SingleRead` and `ReadForBatch`, one turn of each loop up to its first
call, `GiveUp` and `Condemn`, what ingestSingle makes of an error of the store,
and `Panic`: `"metrics": null` leaves a nil payload, Normalize dereferences it,
and the process ends.  `table` holds the message whose contents each row has.

### ModelProviders and SummaryService

`ModelProviders` turns a request and an HTTP exchange into a response or an
error; what a caller sees of a provider is one call.  `SummaryService` is a
process per request with a step for each statement and each call: `Aggregate`,
`Lookup`, `LoadEvidence`, `CompletePrimary`, `CompleteFallback`, `SaveSummary`,
`SaveSummaryEvidenceLinks`, and `StatementFails`.  Around them `StoreEvent`, `Tick`
and `Restart`, which changes the configuration, keeps the tables and loses the
requests.  `occurred_at` is modelled as it compares, as text.  A row's `made` is
history: who wrote it, from which statistics, evidence and parameters.  main
configures one provider and no fallback; the module takes any table of
fallbacks that NewRouter accepts.

### HttpApi and Platform

`HttpApi` is what the chain and the handlers make of a call: `Handle` is the part
after the limiter up to the read, `httpStatus` the part after it.  `Platform` has
a variable for every goroutine of the errgroup, and `req` for the handlers,
which the group does not wait for.  The first goroutine that returns an error
cancels the context.  `Panic(t)` is a pipeline that meets a payload which decodes
to nothing: the process is gone at once (`main = "crashed"`), with the database
open and the handlers where they were.  `Arrive` is a call up to the first thing it waits
for, with the limiter in it; `Read` is the handler's read; `Probe` one Check,
`Readyz` the answer.  `BeginShutdown`, `StopServer`, `CloseConsumers`,
`CloseDatabase` and `Exit` are the sequence at the end of main; the deferred
Shutdown of the metrics providers has no deadline of its own and is taken to
return.  A pipeline is two
actions here, since the other modules have the rest of it.

## Runs

A run takes from a few seconds to three and a half minutes with two workers.  Deadlock is
checked for the pipelines, the three modes and the composition; the committer
alone stops when its log is exhausted, `EventStore` when its flushes are used up
and the listing has ended, `SummaryService` when every request has ended and
nothing more can arrive, `Platform` when the process has exited.

| run | shows |
| --- | --- |
| committer_safety | two goroutines, three offsets with a hole, every fault: the safety properties and the refinement of `CommitLedger` |
| committer_cursor | **violated**: two goroutines and no fault at all: the cursor goes back |
| committer_watermark | **violated**: one goroutine, a rebalance and another member: everything is settled, and the commits stop |
| pipeline_workers | two good messages and one that panics, two workers, batches of two, every fault, a cancellation at any point: the contract of a delivery, one holder each, and all goroutines return |
| pipeline_bad_payload | **violated**: a bad payload is silently dropped |
| sequential_modes | both modes, eight messages with contents of which any three are fetched, the faults of the store, the failure storages and the acks, cancellations and panics: the contract, the rows, the end |
| ingestion_safety | three offsets, the one in the middle a message that panics, two sessions, four goroutines, every fault but a store that refuses for good: nothing is committed that is not kept, and only bad messages are dead-lettered |
| ingestion_recovery | three offsets, a bad payload in front of a good and an undecodable message, one worker, the outage confined to the first session: the last one finishes the work |
| store_safety | two batchers, three batches with a duplicate, a redelivery and two chunks, failing statements, lost answers and a crash, under a client that pages: all of the table's and the listing's properties |
| store_pages | **violated**: an event that shares its stamp with the last row of a page is on no page |
| summary_cache | two requests, two events, two providers each the other's fallback, a restart with another temperature, an old table: cached answers fit and are found, links and evidence are whole, every request is answered |
| platform_life | two topics, two requests of several kinds, probes and limiter, and an end or a panic at any point |

The violated properties state what a comment or the Readme says; `findings` in
`PROJECT.json` quotes them.  The committer decides under its mutex and sends after
it, so the broker's position goes back when two goroutines overtake one another,
and a restart then delivers again what was committed.  Its watermark outlives an
assignment, so after another member has committed past it, it waits for an offset
that never comes.  A payload that can never be parsed is let go as if
trying again could help.  And the cursor of a listing loses its event_id on the
way to the query, so events with one stamp on both sides of a page boundary are
skipped (and an event whose id begins with 0000 is shown again, because it sorts
below the zero time).

### Observations

What the models show and no property states, since nothing in the repository
denies it:

- A message with `"metrics": null`, or without metrics, ends the process of every
  topic, from whichever worker meets it, and so does its redelivery: nothing
  records it and nothing commits past it.  What lies in front of it in the log may
  never get its outcome either, because the process may die before the batch is
  flushed.  EveryMessageGetsAnOutcome therefore speaks of a process that stays up.
- The watermark stops for good at an offset without a message, and a commit that
  fails is made up for only by a later advance.
- A delivery let go with a transient error is fetched again only after the next
  rebalance or restart; until then everything behind it stays uncommitted.
- A message whose payload does not validate gets no outcome however often it is
  fetched; those behind it in the log do, but none of them is committed.
- All probes of one health check share one context of two seconds, so a slow one
  leaves none for those after it; src/Readme.md:62 says that each runs with two
  seconds of its own.  ReadyIsEarned is about the code's one timeout: a probe that
  starts late fails, and the answer is not ready.
- Embeddings of the OpenAI client are placed in the order they arrive.  The comments
  (openai_compatible.go:186 and :225) say by index.  No caller asks for embeddings.
- "Round power to nearest watt" (normalized_message.go:201) keeps the fraction: on
  a float, `(p/10)*10` is p.
- src/Readme.md:194 asks for HS256; the validator takes any HMAC method, and so does
  `ValidationError`.
- Normalize clamps a negative reading to zero and Validate refuses zero, with an
  error that Classify takes for transient: such a message is neither stored nor
  dead-lettered.
- One instant written in two zones gives two event ids.  BaseEvent.Normalize, which
  would convert to UTC, has no caller, nor has BaseEvent.Validate or
  ValidateAgainstEvidence.  For the same reason `occurred_at` compares by wall
  clock.
- An answer of the fallback is saved under the fallback's name and never found
  again while the default stays configured.  Two requests that miss together
  both call the model.  An event dated in the future counts in the statistics and
  is not in the evidence.  ollama's client accepts a JSON body without an answer.
- The service returns the report also when saving it fails; its logging wrapper
  drops it.  The server's write timeout is shorter than the model client's.
- All consumers report under one name, so the body of a 503 may show every check
  as ok (the status is right, `ReadinessIsEarned`).  A topic without messages makes
  its consumer stale, although poller.go:105 speaks of the statistics.
- An OPTIONS call never reaches the CORS middleware's branch for it, because the
  multiplexer answers first; a cursor that does not decode is a 500.
- The dead-letter writer is not closed by main, and main exits with status 0
  whatever ended it.

### Bounds

- Committer: three offsets are the fewest with a completion out of order, one in
  order and one above both; two sessions give one redelivery, two goroutines one
  race.  `OutageSessions` bounds where deliveries may be given up.  The two violated
  runs have the fewest offsets, sessions and faults that show the case.
- Pipeline: capacity 1 makes both channels fill up; batches of two take a full
  batch, a rest and a ticker flush from two good messages, and a third one, that
  panics, is met at any point of the other two.  The other kinds of bad messages
  are in the runs of the composition.  maxStoreAttempts is the code's 3.
- Single and batch mode: `MaxFetched` is three of the eight messages, any three in
  any order: two of one business key and a third that fails, or a full batch and
  a rest.
- Composition: in ingestion_safety two workers, a good message, one that panics and
  one of an unknown type, so that a worker acks the third or dies of the second
  while the first is still in the batch; in ingestion_recovery one worker, so that
  the three kinds of goroutine race for the committer, a bad payload that gets no
  outcome, a good message behind it, and an undecodable one that the poller acks.
  A message that panics is not in the second, whose premise it would make false:
  what it does to the others is under Observations.
- Event store: chunks of two make a batch of three take two transactions, the
  second one short (the code's chunks have 90 events and main's batches 50, so
  a second chunk appears only with another configuration); two attempts are one
  repetition; two flushes are one per batcher, or one message and its
  redelivery; pages of one and two over at most three rows give a full, a short
  and a last page.  Two flushes also bound how long a call waits for the connection.
- Summaries: two requests are one race for the cache, or a miss and the hit
  after it; the clock goes from 4 to 5, which is one hour of two units, so two
  requests may arrive at different times of one hour; one evidence event for two
  stored ones makes the limit bite; one restart takes place at any point.
- Platform: a bucket of one and one token per unit show a refill that is capped
  and one that is not; two topics are the fewest whose probes overwrite each
  other; the clock has two values and stops with the cancellation, after which
  nothing reads it but probes in flight.

### Fairness

Only weak fairness, on what the Go scheduler and the calls' own timeouts give: a
goroutine that can take a step takes one, a started call ends, the goroutine
that waits for the workers closes the channel.  Nothing is assumed of which
branch a select takes, of a call's outcome or of the order of goroutines.  From
the environment: an unowned partition is handed out in the end, and in
`Ingestion` a process that has ended is started again.  In `EventStore` a
statement returns and the client asks for the next page while there is one;
that a context ends is never assumed, so EveryCallReturns does not hide behind
it.  In `SummaryService` each request goes on, because statements wait at most for
busy_timeout and calls for the client's timeout.  In `Platform` the goroutines of
the group are fair, and Shutdown returns at its deadline at the latest; the
handlers are not, which is what makes EverythingStops worth checking.  Crashes,
signals, deadlines, rebalances, traffic and faults are never fair.

## Theorems

`OffsetCommitterProofs`, from `CommitterAssumption` alone, for every log with
any holes, any set of goroutines, any number of sessions and any faults:
`CommitIsSafe`, `PendingCommitsAreSafe`, `OneSenderPerAdvance`, `NoNilProgress`,
`TypeCorrect`, and `ImplementsLedger`, the refinement of `CommitLedger`.  They
follow from one inductive invariant, `IInv`.  That the committed position passes
nothing unsettled is not inductive: a commit in flight must be known to be safe,
hence the watermark it was taken from, hence the offsets in `completed`; and a
process that has not fetched yet creates its watermark at the reader's position,
which therefore must be safe until then (`FirstFetchSettled`).  That the cursor
only advances is no theorem: committer_cursor refutes it.

`IngestPipelineProofs`, from `PipelineAssumption`, for every set of messages,
number of workers, batch size, capacity and combination of faults:
`AckIsSafe` (AckedIsDurable), `TypeCorrect`, `NoPanicOnSend`, `CustodyHolds`,
`NothingIsDoneTwice`, `ImplementsContract` and, for all faults but a terminal
error of the store, `OnlyBadIsCondemned`.  The invariant
`IInv` adds to AckedIsDurable what a goroutine knows at each point: at `ack` its
delivery has been recorded, at `ackStored` the whole rest of the batch has been
stored, in a flush the batch is not empty, while collecting it has room for one
more.  `Custody` says where deliveries are: no place holds one twice, no two
places hold the same one, and none holds one that is not fetched yet or acked
already.  It is what `NothingIsDoneTwice` (afterAck stays empty) and with it the
contract need: what is stored, recorded or acked is in hand or in the batch, and
so was not acked before.  `OnlyBadIsCondemned` needs `Sorted`: beyond the
transformer there are good messages only, and a goroutine that records one has
been told by ProcessData or Transform that it is bad.

`IngestionProofs`, from `IngestionAssumption`: `NothingIsLost` (CommittedIsDurable),
`HandlersAreLive` (HandledIsInflight), and the refinements of both abstract
specifications by the whole, `ImplementsLedger` and `ImplementsContract`, which a
panic and a restart leave intact, and `OnlyBadIsCondemned`
(OnlyBadMessagesAreDeadLettered), which needs no hypothesis here because the
composition has no terminal error of the store.  The
invariant `EndToEnd` is that of each component, which its own steps keep as they
were proved to, and two facts that relate them: the deliveries the pipeline holds
are those the committer has in flight, and an offset is settled only by the ack of
its delivery.  With AckedIsDurable of one component and NoCommitOverGap of the
other that is the end-to-end promise.

`SequentialIngestProofs`, from `SequentialAssumption`, for every topic, batch size,
capacity and combination of faults: `ModesImplementTheContract`,
`RowsAreInNormalForm` (RowsAreWellFormed) and `OnlyDuplicatesAreDropped`
(DuplicatesShareTheBusinessKey).  The steps that the modes share with the pool keep
`IInv` and `Custody` because they are the pool's; the others are shown to, one by
one.  `OnlyAccepted` says that only what Transform accepts is on its way to the
store, `Keyed` that the table has exactly one row for each business key stored:
the first message of a key in a batch, unless the table has one before, which is
a least index.  What such a row looks like comes from `TransformerProofs`.

`EventStoreProofs`, from `StoreAssumption`, for every set of writers, batches,
chunk size and combination of faults: `TypeCorrect`, `NilMeansStored` and
`AccountingIsConservative`, by the invariant `TableInv`.  It adds what a call has
done at each point of its code: a transaction holds the connection, so nothing is
inserted between its own insert and its commit and the rows it counted are new; the committed
chunks are in the table; the rows of an insert that is not accounted for yet are
in nobody else's count.  The accounting is the size of the set `counted`, which
the rows contain.  `ListingsDoNotRepeat` and `ListingsAreComplete` hold under a
condition on the data each: no id sorts below the zero time, no two events share
a stamp.  `RowsStay` (RowsAreFinal): no call changes or removes a row.  What a page has shown is not behind the cursor; what was in the table at the
start is shown or behind it; and rows only appear.  The run store_pages shows
that the second condition is needed.

`TransformerProofs`, for all readings and transactions and not the sampled ones
only: `NormalizeTwiceIsOnce`, and `AcceptanceIsExact`, which of them pass Normalize
and Validate, put in terms of what was sent.

`SummaryServiceProofs`, from `SummaryAssumption`, for every set of requests, events,
providers, fallbacks and configurations and any number of restarts:
`LinksAreWhole`, `CachedAnswersFit`, `EvidenceCovers` and `AnswersReused`.  The
first invariant says that the id a request has read back is its own
row's and no other request's, and that this row was made from the request's
evidence, so that two requests that save at the same time cannot link each
other's rows.  The proof sorts the eight actions into five kinds of steps
(`StepOf`) and shows each part of the invariant for the kinds.  A second invariant,
`KInv`, is about what is known of a row from its columns: `CachedAnswersFit` holds
because the key a request looks up has the hash of the statistics it has read and
of the parameters it runs under, and a row's columns tell what the row was made
from.  `EvidenceCovers` needs that events are only added between the two queries.
`AnswersReused` has a hypothesis, `SentAsConfigured`: the parameters that go into the
key are those the default provider is sent, as main configures it; otherwise a
saved row would name others than the request asks for.

`PlatformProofs`, from `PlatformAssumption`, for every number of topics and requests,
any calls and tokens, any limits: `TypeCorrect`, `ResourcesSafe`, `ReadsAreEntitled`,
 `ReadinessIsEarned` and `LimiterIsBounded`.  The invariant adds
the order of an end
(`EndsInOrder`), that a request which reads came through the chain when it
arrived, and that the verdict of a probe so far is about every probe asked so
far, which needs that no probe is asked twice.  For the limiter, `BucketPays`: what
was let through since any time, together with what is left in the bucket, is at
most what the bucket can hold and what has been filled in since.  The sum is a
recursive function; that it has a value at all, and what one more summand adds,
is proved by the least length for which it would fail.

Assumptions are of the kind that main or Go's types give: capacities and batch
sizes are positive, goroutines are different, messages are of the kinds there are,
fields of a decoded object are numbers or texts.  TLC evaluates them in every run.

`NoNilProgress` and `TypeCorrect` of `PlatformProofs` are parts of the inductive
invariants and are proved for every instance; no run repeats them.  Nor
does a run of the composition repeat its two refinements, which the runs check of
the components.

Checked by TLC only: liveness, which is EveryMessageGetsAnOutcome, ShutdownCompletes, EveryCallReturns,
EveryRequestIsAnswered and EverythingStops.  They rest on fairness and ENABLED,
which the provers do not handle.  Every safety property of a passing run is a
theorem.

## Not modelled

- The log and metrics decorators: they call what they wrap, once, with the same
  arguments, and the one deviation is listed above.
- Configuration and main's exits before anything runs; a value read from it is a
  CONSTANT.
- The queries as sqlc generates them, beyond what the store's functions make of
  them, and the mocks.
- The contents of a failure record, the texts of prompts, answers and log lines,
  the headers that decorate a response, the numbers the statistics report.
- BaseEvent.Normalize and BaseEvent.Validate, which nothing calls, and
  the JSON Web Token library, external, beyond the checks it is configured with.
- Deployment, CI and load tests.

In `PROJECT.json` every part is listed with its status.

## Plan

Done: the committer, the worker pool and their composition, because losing a
message is the worst this program can do; the event table; the transformer and
the other two modes; summaries and providers; the API, the probes and main.

Left, in this order:

1. `Ingestion` over `EventStore`: the store call as its statements, with an abstract
   table between the two, as `NilMeansStored` and `RowsStay` justify it.
2. That only bad messages are dead-lettered, for single and batch mode as well: the
   invariant `Sorted` of the pool, with `OnlyAccepted`.
3. A measure that every step of a store call lowers, as an action property of
   `EventStore`: the half of EveryCallReturns that is not about fairness and so can
   be proved.

-------------------------- MODULE SequentialIngest --------------------------
(***************************************************************************)
(* ingestSingle and ingestBatch of internal/ingestor/ingestor.go: the two  *)
(* modes Ingest selects when NumWorkers is 1.  Messages carry contents     *)
(* here, and Transformer computes what becomes of each.                    *)
(*                                                                         *)
(* In single mode one goroutine polls, transforms, stores and acks.  In    *)
(* batch mode a reader polls and transforms, and hands its events to the   *)
(* same batcher that ends the worker pool: its steps, those of the retry,  *)
(* and failTerminalAndAck are the actions of IngestPipeline, instantiated  *)
(* without workers.  The goroutine of single mode takes them too, with a   *)
(* batch of one.  A nil dereference in Transform takes the process down.   *)
(***************************************************************************)
EXTENDS Transformer, Sequences, FiniteSets

CONSTANTS
    Messages,     \* the messages of the topic
    Value,        \* the raw message of each, see Transformer
    Configs,      \* the Config values Ingest may be started with
    BatchSize,    \* the batch size of batch mode
    EventCap,     \* capacity of eventCh (BatchSize*2 in the code)
    Reader, Batcher, Nothing,
    MaxFetched,   \* bound: messages fetched in a behaviour
    Faults        \* as in IngestPipeline

VARIABLES
    mode,         \* what Ingest has selected
    down,         \* a panic has ended the process
    table,        \* the messages whose event is a row of events
    source, expired, pc, hand, deliveryCh, eventCh, eventClosed,
    batch, phase, last, attempt, stored, deadLetters, acked, ackFailed, afterAck

P == INSTANCE IngestPipeline WITH
        Workers <- {}, Poller <- Reader, DeliveryCap <- 1,
        Kind <- [m \in Messages |-> KindOf(Value[m])]

channels == <<deliveryCh, eventCh, eventClosed>>
batcher == <<batch, phase, last, attempt>>
durable == <<stored, deadLetters, acked, ackFailed, afterAck>>
vars == <<mode, down, table, source, expired, pc, hand, channels, batcher, durable>>

\* New replaces what is not positive by a default.
New(cfg) ==
    [BatchSize |-> IF cfg.BatchSize <= 0 THEN 1 ELSE cfg.BatchSize,
     NumWorkers |-> IF cfg.NumWorkers <= 0 THEN 1 ELSE cfg.NumWorkers]

\* Ingest selects a mode.
Ingest(cfg) ==
    IF cfg.NumWorkers # 1 THEN "pool" ELSE IF cfg.BatchSize = 1 THEN "single" ELSE "batch"

\* The fields of an object that decodes are numbers and texts.
ASSUME SequentialAssumption ==
    /\ \A c \in Configs :
        Ingest(New(c)) = "single" \/ (Ingest(New(c)) = "batch" /\ New(c).BatchSize = BatchSize)
    /\ BatchSize \in Nat \ {0} /\ EventCap \in Nat \ {0}
    /\ Reader # Batcher /\ Nothing \notin Messages
    /\ Faults \subseteq P!AllFaults
    /\ \A m \in Messages : Value[m].decodes =>
        LET object == Value[m].msg.metrics.object IN
        \A f \in DOMAIN object : object[f] \in Json

kind == [m \in Messages |-> KindOf(Value[m])]
Accepted == {m \in Messages : kind[m] = "good"}
eventID == [m \in Messages |-> IF Value[m].decodes THEN EventID(Value[m].msg) ELSE Nothing]
event == [m \in Accepted |-> Transform(Value[m].msg)]

\* Single mode has no reader and no channel: one goroutine, the batcher here.
Init ==
    /\ mode \in {Ingest(New(c)) : c \in Configs}
    /\ down = FALSE
    /\ table = {}
    /\ source = Messages
    /\ expired = {}
    /\ pc = (IF mode = "single" THEN [P!entry EXCEPT ![Reader] = "done"] ELSE P!entry)
    /\ hand = [g \in {Reader, Batcher} |-> Nothing]
    /\ deliveryCh = <<>>
    /\ eventCh = <<>>
    /\ eventClosed = (mode = "single")
    /\ batch = <<>>
    /\ phase = "ctx"
    /\ last = FALSE
    /\ attempt = 0
    /\ stored = {} /\ deadLetters = {} /\ acked = {} /\ ackFailed = {} /\ afterAck = {}

Cancelled == P!Cancelled

\* FetchMessage returns m.
Fetch(m) ==
    /\ m \in source
    /\ Cardinality(Messages \ source) < MaxFetched
    /\ source' = source \ {m}

-----------------------------------------------------------------------------
(* Polling and transforming.                                               *)

\* ProcessData and Transform refuse message m.  A terminal error is recorded by
\* the goroutine that has met it, a transient one lets the delivery go; a
\* cancelled goroutine returns.
Refuse(g, m) ==
    /\ kind[m] \notin {"good", "panics"}
    /\ IF Cancelled
       THEN P!Goto(g, "done") /\ UNCHANGED <<hand, batch>>
       ELSE IF kind[m] = "badPayload"
       THEN UNCHANGED <<pc, hand, batch>>
       ELSE /\ P!Goto(g, "record")
            /\ IF g = Reader
               THEN P!Hold(g, m) /\ UNCHANGED batch
               ELSE batch' = <<m>> /\ UNCHANGED hand

\* One turn of the loop of ingestSingle, up to its first call of the store.
SingleRead(m) ==
    /\ mode = "single"
    /\ pc[Batcher] = "collect"
    /\ Fetch(m)
    /\ \/ /\ kind[m] = "good"
          /\ P!Flush(<<m>>, FALSE)
          /\ UNCHANGED hand
       \/ /\ Refuse(Batcher, m)
          /\ UNCHANGED <<last, attempt>>
    /\ UNCHANGED <<down, expired, channels, phase, durable>>

\* One turn of the loop of handleBatch, up to the send.
ReadForBatch(m) ==
    /\ mode = "batch"
    /\ pc[Reader] = "fetch"
    /\ Fetch(m)
    /\ \/ /\ kind[m] = "good"
          /\ P!Goto(Reader, "handoff")
          /\ P!Hold(Reader, m)
          /\ UNCHANGED batch
       \/ Refuse(Reader, m)
    /\ UNCHANGED <<down, expired, channels, phase, last, attempt, durable>>

\* The payload of m is nil when Normalize is called.
Panic(m) ==
    /\ IF mode = "single" THEN pc[Batcher] = "collect" ELSE pc[Reader] = "fetch"
    /\ kind[m] = "panics"
    /\ Fetch(m)
    /\ down' = TRUE
    /\ UNCHANGED <<expired, pc, hand, channels, batcher, durable>>

\* Mutated form: ingestSingle goes on with its loop after every error.
SinglePollCancelled_goesOn ==
    /\ mode = "single"
    /\ pc[Batcher] = "collect"
    /\ Cancelled
    /\ UNCHANGED <<down, source, expired, pc, hand, channels, batcher, durable>>

\* FetchMessage returns the error of the context.
SinglePollCancelled ==
    /\ mode = "single"
    /\ pc[Batcher] = "collect"
    /\ Cancelled
    /\ P!Goto(Batcher, "done")
    /\ UNCHANGED <<down, source, expired, hand, channels, batcher, durable>>

\* handleBatch sends an event.
SendEvent ==
    /\ pc[Reader] = "handoff"
    /\ Len(eventCh) < EventCap
    /\ eventCh' = Append(eventCh, hand[Reader])
    /\ P!Continue(Reader)
    /\ UNCHANGED <<down, source, expired, deliveryCh, eventClosed, batcher, durable>>

\* The deferred close of handleBatch.
CloseEvents ==
    /\ pc[Reader] = "done"
    /\ ~eventClosed
    /\ eventClosed' = TRUE
    /\ UNCHANGED <<down, source, expired, pc, hand, deliveryCh, eventCh, batcher, durable>>

-----------------------------------------------------------------------------
(* Storing.                                                                *)

\* retryTransient gives up in ingestSingle, which returns if its context is done.
GiveUp ==
    /\ mode = "single"
    /\ pc[Batcher] = "backoff"
    /\ Cancelled \/ attempt + 1 >= P!maxStoreAttempts
    /\ batch' = <<>>
    /\ attempt' = 0
    /\ P!Goto(Batcher, IF Cancelled THEN "done" ELSE "collect")
    /\ UNCHANGED <<down, source, expired, hand, channels, phase, last, durable>>

\* The store refuses the event for good: ingestSingle records it, or returns if
\* the context has ended meanwhile.
Condemn ==
    /\ mode = "single"
    /\ "storeTerminal" \in Faults
    /\ pc[Batcher] = "store"
    /\ IF Cancelled
       THEN P!Goto(Batcher, "done") /\ batch' = <<>> /\ attempt' = 0
       ELSE P!Goto(Batcher, "record") /\ UNCHANGED <<batch, attempt>>
    /\ UNCHANGED <<down, source, expired, hand, channels, phase, last, durable>>

\* The steps of the retry loop that both modes share with the worker pool.
SharedStore ==
    /\ \/ P!StoreSucceeds
       \/ P!StoreFailsTransiently
       \/ (mode = "single" => attempt + 1 < P!maxStoreAttempts) /\ P!BackoffElapses
    /\ UNCHANGED down

BatchOnly ==
    /\ mode = "batch"
    /\ \/ P!Collect \/ P!EventsClosed \/ P!Tick \/ P!StartDrain \/ P!DrainExpires
       \/ P!StoreFailsTerminally \/ P!BackoffCancelled
    /\ UNCHANGED down

Shared(g) ==
    /\ \/ P!StoreFailure(g) \/ P!StoreFailureFails(g) \/ P!Ack(g)
       \/ P!HandoffCancelled(g)
    /\ UNCHANGED down

PollCancelled == mode = "batch" /\ P!PollCancelled /\ UNCHANGED down

\* What the table becomes when the batch ms is stored: INSERT OR IGNORE keeps the
\* first row of an event_id.
Rows(ms) ==
    table \cup
    {ms[i] : i \in {j \in DOMAIN ms :
        \A m \in table \cup {ms[k] : k \in 1 .. j - 1} : eventID[m] # eventID[ms[j]]}}

ReaderStep ==
    \/ \E m \in Messages : ReadForBatch(m)
    \/ PollCancelled \/ SendEvent \/ CloseEvents \/ Shared(Reader)

BatcherStep ==
    \/ \E m \in Messages : SingleRead(m)
    \/ SinglePollCancelled \/ GiveUp \/ Condemn \/ SharedStore \/ BatchOnly \/ Shared(Batcher)

ContextStep == (P!Cancel \/ P!Deadline) /\ UNCHANGED down

Work == ReaderStep \/ BatcherStep \/ ContextStep \/ \E m \in Messages : Panic(m)

Returned == eventClosed /\ pc[Reader] = "done" /\ pc[Batcher] = "done"

\* A step of the process, with what it makes of the table.
Live(A) ==
    /\ ~down
    /\ A
    /\ table' = (IF stored' = stored THEN table ELSE Rows(batch))
    /\ UNCHANGED mode

Next ==
    \/ Live(Work)
    \/ (Returned \/ down) /\ UNCHANGED vars

Spec == Init /\ [][Next]_vars

\* As in IngestPipeline: a goroutine waits for channels, calls and timers only.
FairSpec == Spec /\ WF_vars(Live(ReaderStep)) /\ WF_vars(Live(BatcherStep))

-----------------------------------------------------------------------------
(* Properties.                                                             *)

\* Both modes fulfil the contract the worker pool fulfils: whatever the store and
\* the contexts do, and whenever a panic ends the process, a delivery is acked at
\* most once, after it is stored or recorded, and left alone from then on
\* (ingestSingle, handleBatch, failTerminalAndAck).
ContractSpec == P!ContractSpec

\* Every row is the normal form of a payload that validates, under a domain the
\* transformer supports (Transform, StoreData).
RowsAreWellFormed ==
    \A r \in {event[m] : m \in table} :
        LET payload == registry[ParseDataType(r.event_type)].payload IN
        /\ Valid(payload, r.data)
        /\ Normalize(payload, r.data) = r.data
        /\ isDomainSupported(r.domain)

\* Deduplication only ever drops a message for one of the same device, type and
\* timestamp as written: a message whose store call has returned nil has its event
\* in the table or one that differs in its data alone, and no two rows agree in
\* all three (the business key of Transform, INSERT OR IGNORE).
DuplicatesShareTheBusinessKey ==
    LET same(x, y) == /\ x.entity_id = y.entity_id
                      /\ x.event_type = y.event_type
                      /\ x.occurred_at = y.occurred_at IN
    /\ \A m \in stored : \E r \in table : same(event[r], event[m])
    /\ \A r, s \in table : same(event[r], event[s]) => r = s

\* Once the context is cancelled the goroutines return, unless a panic has ended
\* the process: neither mode hangs the shutdown of main.
ShutdownCompletes == Cancelled ~> (Returned \/ down)

=============================================================================

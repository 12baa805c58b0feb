--------------------------- MODULE IngestPipeline ---------------------------
(***************************************************************************)
(* ingestWithWorkerPool of internal/ingestor/ingestor.go, the mode main.go *)
(* runs for every topic: a poller, a pool of transform workers and a       *)
(* batcher, joined by two bounded channels, all stopped by one context.    *)
(*                                                                         *)
(* An action is what a goroutine does between two points where another     *)
(* can be heard: a channel operation, a call of the store, of the failure  *)
(* storage or of a delivery's ack handler.  Calls that touch nothing       *)
(* shared (decode, validate, transform) belong to the step before them.    *)
(* A message is a model value; Kind says how the code classifies it.       *)
(* Nothing recovers a panic outside the HTTP chain, so one in a worker     *)
(* ends the process and every goroutine with it.                           *)
(***************************************************************************)
EXTENDS Integers, Sequences

CONSTANTS
    Messages,     \* the messages of the topic
    Kind,         \* how ProcessData and Transform classify each message
    Workers,      \* Config.NumWorkers goroutines
    Poller, Batcher,
    BatchSize,    \* Config.BatchSize
    DeliveryCap,  \* capacity of deliveryCh (NumWorkers*10 in the code)
    EventCap,     \* capacity of eventCh (NumWorkers*BatchSize in the code)
    Nothing,      \* the value of hand[g] when g holds no message
    Faults        \* which calls may fail, and whether the process is stopped

Kinds == {"good", "undecodable", "invalid", "unknownType", "badPayload", "panics"}
AllFaults == {"storeTransient", "storeTerminal", "sqliteFailures", "kafkaDLQ", "ack",
              "shutdown", "deadline"}
Goroutines == Workers \cup {Poller, Batcher}

\* Errors that Classify calls terminal: a value that does not decode and a raw
\* message without device, type or timestamp; a type without a domain.
TerminalAtPoll == {"undecodable", "invalid"}
TerminalAtTransform == {"unknownType"}

\* A payload that does not unmarshal or validate fails Transform with an error
\* that Classify does not list, hence a transient one.
TransientAtTransform == {"badPayload"}

\* Metrics that are absent or null leave the payload nil: Normalize panics.
PanicsAtTransform == {"panics"}

ASSUME PipelineAssumption ==
    /\ Kind \in [Messages -> Kinds]
    /\ Nothing \notin Messages
    /\ Poller \notin Workers /\ Batcher \notin Workers /\ Poller # Batcher
    /\ BatchSize \in Nat \ {0}
    /\ DeliveryCap \in Nat \ {0}
    /\ EventCap \in Nat \ {0}
    /\ Faults \subseteq AllFaults

VARIABLES
    source,       \* messages not yet fetched
    expired,      \* which of ctx, drainCtx and flushCtx are done
    pc,           \* where each goroutine is
    hand,         \* the message the poller or a worker holds
    deliveryCh,   \* poller -> workers
    eventCh,      \* workers -> batcher
    eventClosed,  \* the closer goroutine has closed eventCh
    batch,        \* the batcher's pending events; its unfinished rest in a flush
    phase,        \* the context the batcher's flushes run under
    last,         \* the batcher returns after the flush in progress
    attempt,      \* failed attempts of the flush in progress
    stored,       \* messages with a row in events
    deadLetters,  \* <<backend, message>> written by the failure storages
    acked,        \* messages whose ack handler has been called
    ackFailed,    \* messages with an ack_failed row
    afterAck,     \* messages stored, recorded or acked again after their handler
                  \* had been called (history variable)
    down          \* a panic has ended the process

channels == <<deliveryCh, eventCh, eventClosed>>
batcher == <<batch, phase, last, attempt>>
durable == <<stored, deadLetters, acked, ackFailed, afterAck>>
vars == <<source, expired, pc, hand, channels, batcher, durable, down>>

maxStoreAttempts == 3

PollerStates == {"fetch", "handoff", "record", "ack", "done"}
WorkerStates == {"receive", "panic", "handoff", "record", "ack", "done"}
BatcherStates == {"collect", "store", "backoff", "ackStored", "record", "ack", "done"}
Contexts == {"ctx", "drainCtx", "flushCtx"}

TypeOK ==
    /\ source \subseteq Messages
    /\ expired \subseteq Contexts
    /\ pc \in [Goroutines -> PollerStates \cup WorkerStates \cup BatcherStates]
    /\ pc[Poller] \in PollerStates
    /\ pc[Batcher] \in BatcherStates
    /\ \A w \in Workers : pc[w] \in WorkerStates
    /\ hand \in [Goroutines -> Messages \cup {Nothing}]
    /\ deliveryCh \in Seq(Messages) /\ Len(deliveryCh) <= DeliveryCap
    /\ eventCh \in Seq(Messages) /\ Len(eventCh) <= EventCap
    /\ eventClosed \in BOOLEAN
    /\ batch \in Seq(Messages) /\ Len(batch) <= BatchSize
    /\ phase \in Contexts
    /\ last \in BOOLEAN
    /\ attempt \in 0 .. maxStoreAttempts - 1
    /\ stored \subseteq Messages
    /\ deadLetters \subseteq {"sqlite", "kafka"} \X Messages
    /\ acked \subseteq Messages
    /\ ackFailed \subseteq Messages
    /\ afterAck \subseteq Messages
    /\ down \in BOOLEAN

\* Where the goroutines of a new process start.
entry == [g \in Goroutines |->
             IF g = Poller THEN "fetch" ELSE IF g = Batcher THEN "collect" ELSE "receive"]

Init ==
    /\ source = Messages
    /\ expired = {}
    /\ pc = entry
    /\ hand = [g \in Goroutines |-> Nothing]
    /\ deliveryCh = <<>>
    /\ eventCh = <<>>
    /\ eventClosed = FALSE
    /\ batch = <<>>
    /\ phase = "ctx"
    /\ last = FALSE
    /\ attempt = 0
    /\ stored = {}
    /\ deadLetters = {}
    /\ acked = {}
    /\ ackFailed = {}
    /\ afterAck = {}
    /\ down = FALSE

Cancelled == "ctx" \in expired
Elements(s) == {s[i] : i \in DOMAIN s}

\* processDeliveries closes deliveryCh when it returns.
deliveryClosed == pc[Poller] = "done"

\* Where a goroutine goes when it is through with the message it holds.  The
\* poller checks its context at the head of its loop.
LoopHead(g) ==
    IF g \in Workers THEN "receive" ELSE IF Cancelled THEN "done" ELSE "fetch"

Goto(g, state) == pc' = [pc EXCEPT ![g] = state]
Hold(g, m) == hand' = [hand EXCEPT ![g] = m]

\* Something is done for the deliveries ms: it is too late for those whose
\* handler has been called already.
Touch(ms) == afterAck' = afterAck \cup (ms \cap acked)

\* g is through with its message.
Continue(g) ==
    /\ Goto(g, LoopHead(g))
    /\ Hold(g, Nothing)

-----------------------------------------------------------------------------
(* The poller.                                                             *)

\* ProcessData returns message m.  An undecodable message and one that fails
\* ValidateRawMessage come with a terminal error; after an error a cancelled
\* poller returns without recording it.
ProcessData(m) ==
    /\ pc[Poller] = "fetch"
    /\ m \in source
    /\ source' = source \ {m}
    /\ IF Kind[m] \in TerminalAtPoll
       THEN IF Cancelled
            THEN Goto(Poller, "done") /\ UNCHANGED hand
            ELSE Goto(Poller, "record") /\ Hold(Poller, m)
       ELSE Goto(Poller, "handoff") /\ Hold(Poller, m)
    /\ UNCHANGED <<expired, channels, batcher, durable>>

\* FetchMessage fails, or its message is nil: the error is transient.
PollFails ==
    /\ pc[Poller] = "fetch"
    /\ ~Cancelled
    /\ UNCHANGED vars

\* FetchMessage fails because the context is done.
PollCancelled ==
    /\ pc[Poller] = "fetch"
    /\ Cancelled
    /\ Goto(Poller, "done")
    /\ UNCHANGED <<source, expired, hand, channels, batcher, durable>>

SendDelivery ==
    /\ pc[Poller] = "handoff"
    /\ Len(deliveryCh) < DeliveryCap
    /\ deliveryCh' = Append(deliveryCh, hand[Poller])
    /\ Continue(Poller)
    /\ UNCHANGED <<source, expired, eventCh, eventClosed, batcher, durable>>

-----------------------------------------------------------------------------
(* The workers.                                                            *)

\* Mutated form: Transform without the check of the supported domains.
Transform_anyDomain(w) ==
    /\ pc[w] = "receive"
    /\ deliveryCh # <<>>
    /\ deliveryCh' = Tail(deliveryCh)
    /\ Goto(w, "handoff")
    /\ Hold(w, Head(deliveryCh))
    /\ UNCHANGED <<source, expired, eventCh, eventClosed, batcher, durable>>

\* transformDeliveries receives a delivery and transforms it.  A terminal error
\* is recorded next; after a transient one the delivery is let go, and after any
\* error a cancelled worker returns.  A nil payload brings no error.
Transform(w) ==
    /\ pc[w] = "receive"
    /\ deliveryCh # <<>>
    /\ deliveryCh' = Tail(deliveryCh)
    /\ LET m == Head(deliveryCh) IN
        \/ /\ Kind[m] = "good"
           /\ Goto(w, "handoff")
           /\ Hold(w, m)
        \/ /\ Kind[m] \in TerminalAtTransform
           /\ ~Cancelled
           /\ Goto(w, "record")
           /\ Hold(w, m)
        \/ /\ Kind[m] \in TransientAtTransform
           /\ ~Cancelled
           /\ UNCHANGED <<pc, hand>>
        \/ /\ Kind[m] \in TerminalAtTransform \cup TransientAtTransform
           /\ Cancelled
           /\ Goto(w, "done")
           /\ UNCHANGED hand
        \/ /\ Kind[m] \in PanicsAtTransform
           /\ Goto(w, "panic")
           /\ Hold(w, m)
    /\ UNCHANGED <<source, expired, eventCh, eventClosed, batcher, durable>>

\* Normalize is called on a nil payload, cancelled or not: the process is gone,
\* with what its goroutines, channels and batch hold.
Panic(w) ==
    /\ ~down
    /\ pc[w] = "panic"
    /\ down' = TRUE
    /\ UNCHANGED <<source, expired, pc, hand, channels, batcher, durable>>

SendEvent(w) ==
    /\ pc[w] = "handoff"
    /\ Len(eventCh) < EventCap
    /\ eventCh' = Append(eventCh, hand[w])
    /\ Continue(w)
    /\ UNCHANGED <<source, expired, deliveryCh, eventClosed, batcher, durable>>

\* deliveryCh is closed and empty, or the context is done.
WorkerReturns(w) ==
    /\ pc[w] = "receive"
    /\ Cancelled \/ (deliveryClosed /\ deliveryCh = <<>>)
    /\ Goto(w, "done")
    /\ UNCHANGED <<source, expired, hand, channels, batcher, durable>>

\* Mutated form: the workers send without the select on ctx.Done.
HandoffCancelled_pollerOnly(g) ==
    /\ g = Poller
    /\ pc[g] = "handoff"
    /\ Cancelled
    /\ Goto(g, "done")
    /\ Hold(g, Nothing)
    /\ UNCHANGED <<source, expired, channels, batcher, durable>>

\* The select around a send takes ctx.Done: the message is abandoned unacked.
HandoffCancelled(g) ==
    /\ g # Batcher
    /\ pc[g] = "handoff"
    /\ Cancelled
    /\ Goto(g, "done")
    /\ Hold(g, Nothing)
    /\ UNCHANGED <<source, expired, channels, batcher, durable>>

\* Mutated form: the first worker to return closes eventCh.
CloseEvents_early ==
    /\ ~eventClosed
    /\ \E w \in Workers : pc[w] = "done"
    /\ eventClosed' = TRUE
    /\ UNCHANGED <<source, expired, pc, hand, deliveryCh, eventCh, batcher, durable>>

\* The goroutine that waits for the workers closes eventCh.
CloseEvents ==
    /\ ~eventClosed
    /\ \A w \in Workers : pc[w] = "done"
    /\ eventClosed' = TRUE
    /\ UNCHANGED <<source, expired, pc, hand, deliveryCh, eventCh, batcher, durable>>

-----------------------------------------------------------------------------
(* The batcher.                                                            *)

\* flushBatchWithDeliveries on batch b: nothing to do if it is empty.
Flush(b, isLast) ==
    /\ batch' = b
    /\ last' = isLast
    /\ attempt' = 0
    /\ Goto(Batcher, IF b # <<>> THEN "store" ELSE IF isLast THEN "done" ELSE "collect")

\* Mutated form: the caller of flushBatchWithDeliveries forgets batch = batch[:0].
FlushReturns_keepsBatch ==
    /\ attempt' = 0
    /\ Goto(Batcher, IF last THEN "done" ELSE "collect")
    /\ UNCHANGED <<batch, phase, last>>

\* The flush is over and the batch is reset.
FlushReturns ==
    /\ batch' = <<>>
    /\ attempt' = 0
    /\ Goto(Batcher, IF last THEN "done" ELSE "collect")
    /\ UNCHANGED <<phase, last>>

Collect ==
    /\ pc[Batcher] = "collect"
    /\ eventCh # <<>>
    /\ eventCh' = Tail(eventCh)
    /\ LET b == Append(batch, Head(eventCh)) IN
        IF Len(b) >= BatchSize
        THEN Flush(b, FALSE)
        ELSE batch' = b /\ UNCHANGED <<pc, last, attempt>>
    /\ UNCHANGED <<source, expired, hand, deliveryCh, eventClosed, phase, durable>>

\* eventCh is closed and empty: the batcher flushes and returns.  In its main
\* loop that flush runs under ctx, which is done by then.
EventsClosed ==
    /\ pc[Batcher] = "collect"
    /\ eventClosed /\ eventCh = <<>>
    /\ Flush(batch, TRUE)
    /\ UNCHANGED <<source, expired, hand, channels, phase, durable>>

\* Mutated form: the ticker flushes full batches only.
Tick_fullOnly ==
    /\ pc[Batcher] = "collect"
    /\ phase = "ctx"
    /\ Len(batch) >= BatchSize
    /\ Flush(batch, FALSE)
    /\ UNCHANGED <<source, expired, hand, channels, phase, durable>>

Tick ==
    /\ pc[Batcher] = "collect"
    /\ phase = "ctx"
    /\ batch # <<>>
    /\ Flush(batch, FALSE)
    /\ UNCHANGED <<source, expired, hand, channels, phase, durable>>

\* The main loop sees ctx.Done and enters drainAndFlushWithDeliveries.
StartDrain ==
    /\ pc[Batcher] = "collect"
    /\ phase = "ctx"
    /\ Cancelled
    /\ phase' = "drainCtx"
    /\ UNCHANGED <<source, expired, pc, hand, channels, batch, last, attempt, durable>>

\* The drain deadline passes: one more flush under a context of its own.
DrainExpires ==
    /\ pc[Batcher] = "collect"
    /\ phase = "drainCtx"
    /\ "drainCtx" \in expired
    /\ phase' = "flushCtx"
    /\ Flush(batch, TRUE)
    /\ UNCHANGED <<source, expired, hand, channels, durable>>

-----------------------------------------------------------------------------
(* storeBatchWithDeliveries and retryTransient.                            *)

\* The store call of the attempt succeeds (StoreData or StoreBatch).
StoreSucceeds ==
    /\ pc[Batcher] = "store"
    /\ phase \notin expired
    /\ stored' = stored \cup Elements(batch)
    /\ Touch(Elements(batch))
    /\ Goto(Batcher, "ackStored")
    /\ UNCHANGED <<source, expired, hand, channels, batcher, deadLetters, acked, ackFailed>>

\* It fails transiently, which a call under a context that is done always does.
\* The rows may be there all the same: StoreData inserts before it accounts,
\* and the answer to a COMMIT can be lost.
StoreFailsTransiently ==
    /\ pc[Batcher] = "store"
    /\ \/ /\ phase \in expired
          /\ UNCHANGED stored
       \/ /\ "storeTransient" \in Faults
          /\ phase \notin expired
          /\ stored' \in {stored, stored \cup Elements(batch)}
    /\ Touch(Elements(batch))
    /\ Goto(Batcher, "backoff")
    /\ UNCHANGED <<source, expired, hand, channels, batcher, deadLetters, acked, ackFailed>>

\* A terminal error of the store condemns every delivery of the batch, unless
\* the context has ended while the call was under way.
StoreFailsTerminally ==
    /\ "storeTerminal" \in Faults
    /\ pc[Batcher] = "store"
    /\ IF phase \in expired
       THEN FlushReturns
       ELSE Goto(Batcher, "record") /\ UNCHANGED batcher
    /\ UNCHANGED <<source, expired, hand, channels, durable>>

\* Mutated form: one attempt too many.
BackoffElapses_offByOne ==
    /\ pc[Batcher] = "backoff"
    /\ IF attempt < maxStoreAttempts
       THEN /\ attempt' = attempt + 1
            /\ Goto(Batcher, "store")
            /\ UNCHANGED <<batch, phase, last>>
       ELSE FlushReturns
    /\ UNCHANGED <<source, expired, hand, channels, durable>>

\* The backoff timer fires, also after the last attempt.
BackoffElapses ==
    /\ pc[Batcher] = "backoff"
    /\ IF attempt + 1 < maxStoreAttempts
       THEN /\ attempt' = attempt + 1
            /\ Goto(Batcher, "store")
            /\ UNCHANGED <<batch, phase, last>>
       ELSE FlushReturns
    /\ UNCHANGED <<source, expired, hand, channels, durable>>

BackoffCancelled ==
    /\ pc[Batcher] = "backoff"
    /\ phase \in expired
    /\ FlushReturns
    /\ UNCHANGED <<source, expired, hand, channels, durable>>

-----------------------------------------------------------------------------
(* failTerminalAndAck and ack, called by every goroutine.                  *)

\* The delivery g is dealing with: the batcher works through its batch.
Current(g) == IF g = Batcher THEN Head(batch) ELSE hand[g]

\* The context g's calls are made with has ended, perhaps during the call: one
\* made afterwards gets a fresh context from operationContext.
Interrupted(g) == (IF g = Batcher THEN phase ELSE "ctx") \in expired

\* g is through with its delivery; in a flush the loop over the batch goes on
\* at state again.
NextDelivery(g, again) ==
    IF g # Batcher
    THEN Continue(g) /\ UNCHANGED batcher
    ELSE /\ UNCHANGED hand
         /\ IF Len(batch) > 1
            THEN /\ batch' = Tail(batch)
                 /\ Goto(Batcher, again)
                 /\ UNCHANGED <<phase, last, attempt>>
            ELSE FlushReturns

\* FallbackFailureStorer writes the failure to SQLite or, failing that, to the
\* Kafka DLQ; a write of SQLite that fails may have left its row.
StoreFailure(g) ==
    /\ pc[g] = "record"
    /\ \/ deadLetters' = deadLetters \cup {<<"sqlite", Current(g)>>}
       \/ /\ "sqliteFailures" \in Faults
          /\ \E left \in SUBSET {"sqlite"} :
                deadLetters' = deadLetters \cup ((left \cup {"kafka"}) \X {Current(g)})
    /\ Touch({Current(g)})
    /\ Goto(g, "ack")
    /\ UNCHANGED <<source, expired, hand, channels, batcher, stored, acked, ackFailed>>

\* Mutated form: the error of StoreFailure is ignored.
StoreFailureFails_acksAnyway(g) ==
    /\ {"sqliteFailures", "kafkaDLQ"} \subseteq Faults \/ Interrupted(g)
    /\ pc[g] = "record"
    /\ Goto(g, "ack")
    /\ UNCHANGED <<source, expired, hand, channels, batcher, durable>>

\* Both refuse or are interrupted: the delivery is not acked, though the row of
\* SQLite may be there.
StoreFailureFails(g) ==
    /\ {"sqliteFailures", "kafkaDLQ"} \subseteq Faults \/ Interrupted(g)
    /\ pc[g] = "record"
    /\ \E left \in SUBSET {"sqlite"} :
          deadLetters' = deadLetters \cup (left \X {Current(g)})
    /\ Touch({Current(g)})
    /\ NextDelivery(g, "record")
    /\ UNCHANGED <<source, expired, channels, stored, acked, ackFailed>>

\* Mutated form: the return (the continue of ingestSingle) after
\* failTerminalAndAck is missing, and the delivery is acked as a stored one too.
Ack_fallsThrough(g) ==
    /\ pc[g] \in {"ack", "ackStored"}
    /\ acked' = acked \cup {Current(g)}
    /\ Touch({Current(g)})
    /\ IF g = Batcher /\ pc[g] = "ack" /\ Len(batch) = 1
       THEN Goto(g, "ackStored") /\ UNCHANGED <<hand, batcher>>
       ELSE NextDelivery(g, IF pc[g] = "ack" THEN "record" ELSE "ackStored")
    /\ UNCHANGED <<source, expired, channels, stored, deadLetters, ackFailed>>

\* The handler of the delivery is called.  If it returns an error, ack tries to
\* leave an ack_failed row and nothing else.
Ack(g) ==
    /\ pc[g] \in {"ack", "ackStored"}
    /\ acked' = acked \cup {Current(g)}
    /\ Touch({Current(g)})
    /\ \/ UNCHANGED ackFailed
       \/ /\ "ack" \in Faults
          /\ ackFailed' = ackFailed \cup {Current(g)}
    /\ NextDelivery(g, IF pc[g] = "ack" THEN "record" ELSE "ackStored")
    /\ UNCHANGED <<source, expired, channels, stored, deadLetters>>

-----------------------------------------------------------------------------
(* The contexts.                                                           *)

Cancel ==
    /\ "shutdown" \in Faults
    /\ ~Cancelled
    /\ expired' = expired \cup {"ctx"}
    /\ UNCHANGED <<source, pc, hand, channels, batcher, durable>>

\* The deadlines of the contexts made in drainAndFlushWithDeliveries.
Deadline ==
    /\ "deadline" \in Faults
    /\ phase \notin {"ctx"} \cup expired
    /\ pc[Batcher] # "done"
    /\ expired' = expired \cup {phase}
    /\ UNCHANGED <<source, pc, hand, channels, batcher, durable>>

\* g.Wait in ingestWithWorkerPool: every goroutine has returned.
Returned == eventClosed /\ \A g \in Goroutines : pc[g] = "done"

IngestReturns == (Returned \/ down) /\ UNCHANGED vars

-----------------------------------------------------------------------------
PollerStep ==
    \/ \E m \in Messages : ProcessData(m)
    \/ PollFails
    \/ PollCancelled
    \/ SendDelivery

WorkerStep(w) ==
    \/ Transform(w)
    \/ SendEvent(w)
    \/ WorkerReturns(w)

BatcherStep ==
    \/ Collect \/ EventsClosed \/ Tick \/ StartDrain \/ DrainExpires
    \/ StoreSucceeds \/ StoreFailsTransiently \/ StoreFailsTerminally
    \/ BackoffElapses \/ BackoffCancelled

SharedStep(g) ==
    \/ HandoffCancelled(g)
    \/ StoreFailure(g)
    \/ StoreFailureFails(g)
    \/ Ack(g)

Step ==
    \/ PollerStep
    \/ \E w \in Workers : WorkerStep(w)
    \/ CloseEvents
    \/ BatcherStep
    \/ \E g \in Goroutines : SharedStep(g)
    \/ Cancel
    \/ Deadline

\* A step of a process that lives on.
Live(A) == ~down /\ A /\ UNCHANGED down

Next ==
    \/ Live(Step)
    \/ \E w \in Workers : Panic(w)
    \/ IngestReturns

Spec == Init /\ [][Next]_vars

\* No goroutine waits for anything but a channel, a call that returns or a
\* timer, so each that can take a step eventually takes one.
Fairness ==
    /\ WF_vars(Live(PollerStep \/ SharedStep(Poller)))
    /\ \A w \in Workers : WF_vars(Live(WorkerStep(w) \/ SharedStep(w)) \/ Panic(w))
    /\ WF_vars(Live(CloseEvents))
    /\ WF_vars(Live(BatcherStep \/ SharedStep(Batcher)))

FairSpec == Spec /\ Fairness

-----------------------------------------------------------------------------
(* Safety.                                                                 *)

recorded == {d[2] : d \in deadLetters}

\* The places that hold message m: a goroutine, a slot of a channel, a slot of
\* the batch.
Holders(m) ==
    {<<"hand", g>> : g \in {h \in Goroutines : hand[h] = m}}
        \cup {<<"deliveryCh", i>> : i \in {j \in DOMAIN deliveryCh : deliveryCh[j] = m}}
        \cup {<<"eventCh", i>> : i \in {j \in DOMAIN eventCh : eventCh[j] = m}}
        \cup {<<"batch", i>> : i \in {j \in DOMAIN batch : batch[j] = m}}

Held == {m \in Messages : Holders(m) # {}}

\* failTerminalAndAck and storeBatchWithDeliveries ack a delivery only after its
\* message is in the event store or in a failure storage.
AckedIsDurable == acked \subseteq stored \cup recorded

\* A delivery has one holder at a time, and none before it is fetched or after
\* it is acked: channels, workers and the reused batch slice never duplicate it.
CustodyIsUnique ==
    \A m \in Messages :
        /\ \A x, y \in Holders(m) : x = y
        /\ m \in source \cup acked => Holders(m) = {}

\* ingestWithWorkerPool closes eventCh while a worker could still send on it:
\* Go would panic.
NoSendOnClosedChannel == eventClosed => \A w \in Workers : pc[w] = "done"

\* As long as ctx is live and the process is up, a fetched message is with a goroutine, in a channel
\* or in the batch until it is stored or dead-lettered (Readme: "messages are
\* never silently dropped").
NeverSilentlyDropped ==
    ~Cancelled /\ ~down => Messages \ source \subseteq Held \cup stored \cup recorded

\* Short of a terminal error of the store, no retry, full channel or drain makes
\* the code dead-letter a message that could have become an event, or store one
\* that Transform refuses.
OnlyBadMessagesAreDeadLettered ==
    /\ \A m \in recorded : Kind[m] \in TerminalAtPoll \cup TerminalAtTransform
    /\ \A m \in stored : Kind[m] = "good"

\* The inductive invariant behind AckedIsDurable: a goroutine about to call a
\* handler has seen the write succeed.
RecordedBeforeAck == \A g \in Goroutines : pc[g] = "ack" => Current(g) \in recorded
StoredBeforeAck == pc[Batcher] = "ackStored" => Elements(batch) \subseteq stored
FlushHasWork ==
    pc[Batcher] \in {"store", "backoff", "ackStored", "record", "ack"} => batch # <<>>
BatchHasRoom == pc[Batcher] = "collect" => Len(batch) < BatchSize
WorkInHand ==
    \A g \in Workers \cup {Poller} :
        pc[g] \in {"handoff", "record", "ack"} => hand[g] \in Messages

IInv ==
    /\ TypeOK
    /\ FlushHasWork
    /\ BatchHasRoom
    /\ WorkInHand
    /\ RecordedBeforeAck
    /\ StoredBeforeAck
    /\ AckedIsDurable

-----------------------------------------------------------------------------
(* Liveness.                                                               *)

\* Once the context is cancelled every goroutine returns, whatever is blocked on
\* a channel or in a retry, unless a panic ends the process first: Ingest does
\* not hang the shutdown of main.
ShutdownCompletes == Cancelled ~> (Returned \/ down)

-----------------------------------------------------------------------------
(* The pipeline fulfils the contract of a delivery.                        *)

\* The handler of no delivery is called twice, and nothing is written for one
\* whose handler has been called (failTerminalAndAck, ack).
NothingAfterAck == afterAck = {}

Contract == INSTANCE DeliveryContract WITH fetched <- Messages \ source

\* Every step of every goroutine is a step of the contract or invisible to it.
ContractSpec == Contract!Spec

=============================================================================

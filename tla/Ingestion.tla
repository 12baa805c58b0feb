------------------------------ MODULE Ingestion ------------------------------
(***************************************************************************)
(* One topic end to end: the pipeline of IngestPipeline fed by the Kafka   *)
(* consumer of OffsetCommitter, through rebalances, crashes and restarts   *)
(* of the process (newIngestionPipeline and the shutdown sequence of       *)
(* cmd/main.go).                                                           *)
(*                                                                         *)
(* A delivery is an offset fetched in a session: the pipeline cannot tell  *)
(* a redelivery from a new message, so each is a message of its own to it. *)
(* The two meet in PollMessage, which registers the offset before the      *)
(* pipeline sees the delivery, and in the handler, which the pipeline's    *)
(* goroutines call.  A goroutine inside CommitMessages does nothing else.  *)
(***************************************************************************)
EXTENDS Integers, Sequences

CONSTANTS
    LogEnd, Holes, MaxSessions, OutageSessions,      \* as in OffsetCommitter
    OffsetKind,                                      \* the kind of each offset
    Workers, Poller, Batcher,                        \* as in IngestPipeline
    BatchSize, DeliveryCap, EventCap, Nothing,
    Faults

IngestionFaults == {"store", "failureStores", "commitFail", "revoke", "crash", "shutdown"}

Log == (0 .. LogEnd - 1) \ Holes
Deliveries == Log \X (1 .. MaxSessions)

\* What may fail inside the two components.  The outcome of a handler, which
\* the pipeline alone leaves open, is the committer's here.
PipelineFaults ==
    (IF "store" \in Faults THEN {"storeTransient"} ELSE {})
        \cup (IF "failureStores" \in Faults THEN {"sqliteFailures", "kafkaDLQ"} ELSE {})
        \cup (IF "shutdown" \in Faults THEN {"shutdown", "deadline"} ELSE {})
CommitterFaults == {"commitFail", "crash"} \cup (Faults \cap {"revoke"})

ASSUME IngestionAssumption ==
    /\ LogEnd \in Nat
    /\ Holes \subseteq 0 .. LogEnd - 1
    /\ MaxSessions \in Nat
    /\ OutageSessions \subseteq 0 .. MaxSessions
    /\ OffsetKind \in [Log -> {"good", "undecodable", "invalid", "unknownType", "badPayload", "panics"}]
    /\ Nothing \notin Deliveries
    /\ Poller \notin Workers /\ Batcher \notin Workers /\ Poller # Batcher
    /\ BatchSize \in Nat \ {0}
    /\ DeliveryCap \in Nat \ {0}
    /\ EventCap \in Nat \ {0}
    /\ Faults \subseteq IngestionFaults

VARIABLES
    \* the pipeline
    source, expired, pc, hand, deliveryCh, eventCh, eventClosed,
    batch, phase, last, attempt, stored, deadLetters, acked, ackFailed, afterAck, down,
    \* the consumer and the broker
    assigned, session, fetchPos, registered, next, completed, inflight, call,
    committed, settled,
    \* main has closed the consumer
    readerClosed

P == INSTANCE IngestPipeline WITH
        Messages <- Deliveries,
        Kind <- [d \in Deliveries |-> OffsetKind[d[1]]],
        Faults <- PipelineFaults

C == INSTANCE OffsetCommitter WITH
        Ackers <- Workers \cup {Poller, Batcher},
        Faults <- CommitterFaults

pipelineVars == <<source, expired, pc, hand, deliveryCh, eventCh, eventClosed,
                  batch, phase, last, attempt, stored, deadLetters, acked, ackFailed, afterAck>>
consumerVars == <<assigned, session, fetchPos, registered, next, completed, inflight, call,
                  committed, settled>>
vars == <<pipelineVars, down, consumerVars, readerClosed>>

Init ==
    /\ P!Init
    /\ C!Init
    /\ readerClosed = FALSE

Outage == session \in OutageSessions
InCommit(g) == call[g] # C!NoCall

-----------------------------------------------------------------------------
(* Where the two components meet.                                          *)

\* KafkaConsumer.PollMessage under Processor.ProcessData.
Poll(o) ==
    /\ ~readerClosed
    /\ ~InCommit(Poller)
    /\ C!PollMessage(o)
    /\ P!ProcessData(<<o, session>>)
    /\ UNCHANGED readerClosed

\* ack: goroutine g calls the handler of its delivery.
Handle(g) ==
    /\ ~InCommit(g)
    /\ P!Ack(g)
    /\ C!complete(g, P!Current(g))
    /\ UNCHANGED readerClosed

CommitReturns(g) ==
    /\ ~readerClosed
    /\ C!CommitMessages(g)
    /\ UNCHANGED <<pipelineVars, readerClosed>>

\* CommitMessages fails, as it does on a closed reader and when its context ends.
CommitErrs(g) ==
    /\ readerClosed \/ P!Interrupted(g) \/ "commitFail" \in Faults
    /\ C!CommitFails(g)
    /\ UNCHANGED <<pipelineVars, readerClosed>>

-----------------------------------------------------------------------------
(* What each does alone.                                                   *)

\* The calls of the store that fail for a reason of its own, and those under a
\* context that is done.
StoreErrs ==
    /\ Outage \/ phase \in expired
    /\ P!StoreFailsTransiently

PipelineStep(g) ==
    \/ /\ g = Poller
       /\ P!PollFails \/ P!PollCancelled \/ P!SendDelivery
    \/ /\ g \in Workers
       /\ P!WorkerStep(g)
    \/ /\ g = Batcher
       /\ \/ P!Collect \/ P!EventsClosed \/ P!Tick \/ P!StartDrain \/ P!DrainExpires
          \/ P!StoreSucceeds \/ StoreErrs \/ P!BackoffElapses \/ P!BackoffCancelled
    \/ P!HandoffCancelled(g)
    \/ P!StoreFailure(g)
    \/ (Outage \/ P!Interrupted(g)) /\ P!StoreFailureFails(g)

Alone(g) ==
    /\ ~InCommit(g)
    /\ PipelineStep(g)
    /\ UNCHANGED <<consumerVars, readerClosed>>

CloseEvents ==
    /\ P!CloseEvents
    /\ UNCHANGED <<consumerVars, readerClosed>>

\* The group takes the partition away and hands it out again.
Rebalance ==
    /\ ~readerClosed
    /\ C!Assign \/ C!Revoke
    /\ UNCHANGED <<pipelineVars, readerClosed>>

-----------------------------------------------------------------------------
(* The process.                                                            *)

\* Transform panics in worker g: the process is gone, and the offset unacked.
Panic(g) ==
    /\ ~InCommit(g)
    /\ P!Panic(g)
    /\ UNCHANGED <<consumerVars, readerClosed>>

\* A signal ends ctx; the deadlines of the drain pass.
Stop ==
    /\ P!Cancel \/ P!Deadline
    /\ UNCHANGED <<consumerVars, readerClosed>>

\* The shutdown goroutine of main closes the consumers while the pipelines may
\* still be draining.
CloseConsumer ==
    /\ "ctx" \in expired
    /\ ~readerClosed
    /\ readerClosed' = TRUE
    /\ assigned' = FALSE
    /\ UNCHANGED <<pipelineVars, session, fetchPos, registered, next, completed, inflight, call,
                   committed, settled>>

\* The process dies, or returns from main, and is started again: it begins at the
\* committed position, with an offset that made it panic still in front of it.
Restart ==
    /\ "crash" \in Faults \/ down \/ (P!Returned /\ readerClosed)
    /\ C!Crash
    /\ expired' = {}
    /\ pc' = P!entry
    /\ hand' = [g \in P!Goroutines |-> Nothing]
    /\ deliveryCh' = <<>>
    /\ eventCh' = <<>>
    /\ eventClosed' = FALSE
    /\ batch' = <<>>
    /\ phase' = "ctx"
    /\ last' = FALSE
    /\ attempt' = 0
    /\ down' = FALSE
    /\ readerClosed' = FALSE
    /\ UNCHANGED <<source, stored, deadLetters, acked, ackFailed, afterAck>>

\* A process that is not started again.
Ended == (down \/ (P!Returned /\ readerClosed)) /\ UNCHANGED vars

-----------------------------------------------------------------------------
Step(g) == Handle(g) \/ CommitReturns(g) \/ CommitErrs(g) \/ Alone(g)

Work ==
    \/ \E o \in Log : Poll(o)
    \/ \E g \in P!Goroutines : Step(g)
    \/ CloseEvents
    \/ Rebalance
    \/ Stop
    \/ CloseConsumer

Next ==
    \/ P!Live(Work)
    \/ \E g \in Workers : Panic(g)
    \/ Restart
    \/ Ended

Spec == Init /\ [][Next]_vars

\* No goroutine stops for good while it can take a step, the group hands out an
\* unowned partition, and a process that has ended is started again.
Fairness ==
    /\ WF_vars(P!Live((\E o \in Log : Poll(o)) \/ Step(Poller)))
    /\ \A g \in Workers : WF_vars(P!Live(Step(g)) \/ Panic(g))
    /\ WF_vars(P!Live(Step(Batcher)))
    /\ WF_vars(P!Live(CloseEvents))
    /\ WF_vars(P!Live(C!Assign /\ Rebalance))
    /\ WF_vars(P!Live(CloseConsumer))
    /\ WF_vars((down \/ P!Returned) /\ Restart)

FairSpec == Spec /\ Fairness

-----------------------------------------------------------------------------
(* Safety.                                                                 *)

\* The offsets with a row in events or in a failure storage.
durableOffsets == {d[1] : d \in stored \cup P!recorded}

\* At-least-once, end to end: the position the group resumes from never passes
\* an offset whose message is not in the event store or dead-lettered, through
\* any order of batches, retries, rebalances, restarts and shutdowns.  What a
\* violation passes over is lost: it is neither kept nor delivered again.
CommittedIsDurable == C!Below(committed) \subseteq durableOffsets

\* A goroutine calls a handler only for a delivery of this process that the
\* committer has registered: complete would otherwise dereference a nil entry.
HandledIsInflight ==
    \A g \in P!Goroutines :
        pc[g] \in {"record", "ack", "ackStored"} => P!Current(g) \in inflight

\* Through retries, drains, panics and restarts, no message that could have
\* become an event is dead-lettered, and none that Transform refuses is stored:
\* the store refuses no batch for good here (the terminal error of a batch, which
\* condemns the good with the bad, is left to IngestPipeline).
OnlyBadMessagesAreDeadLettered == P!OnlyBadMessagesAreDeadLettered

-----------------------------------------------------------------------------
(* Liveness.                                                               *)

\* What an outage, a rebalance, a stop or a crash left undone is done by the last
\* process, once the store and the group are calm and no message makes it panic:
\* every message gets a durable outcome, also one behind a message that Transform
\* refuses with a transient error.  That one itself gets none
\* (NeverSilentlyDropped), and a message that panics keeps the premise from ever
\* holding: it ends every process that meets it.
EveryMessageGetsAnOutcome ==
    <>[](assigned /\ ~Outage /\ ~down /\ session = MaxSessions /\ "ctx" \notin expired)
        => <>({o \in Log : OffsetKind[o] # "badPayload"} \subseteq durableOffsets)

=============================================================================

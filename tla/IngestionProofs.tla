--------------------------- MODULE IngestionProofs ---------------------------
(***************************************************************************)
(* What holds of Ingestion, the pipeline and the consumer together, for    *)
(* every log, number of workers and sessions, batch size and channel       *)
(* capacity, and every combination of faults.  Each component keeps the    *)
(* invariant it was proved to have alone; what is added here is how they   *)
(* fit: the deliveries the pipeline holds are those the committer has in   *)
(* flight, and an offset is settled when the pipeline acks its delivery.   *)
(***************************************************************************)
EXTENDS Ingestion, TLAPS

PP == INSTANCE IngestPipelineProofs WITH
        Messages <- Deliveries,
        Kind <- [d \in Deliveries |-> OffsetKind[d[1]]],
        Faults <- PipelineFaults

CP == INSTANCE OffsetCommitterProofs WITH
        Ackers <- Workers \cup {Poller, Batcher},
        Faults <- CommitterFaults

HeldIsInflight == PP!InCustody \subseteq inflight \cup {Nothing}
SettledByAck == settled \subseteq {d[1] : d \in acked}

EndToEnd ==
    /\ PP!IInv
    /\ PP!Custody
    /\ CP!IInv
    /\ HeldIsInflight
    /\ SettledByAck

-----------------------------------------------------------------------------
(* The components as instances.                                            *)

\* Each component is given constants of the kind it was proved for.
LEMMA ComponentsAssumed == PP!PipelineAssumption /\ CP!CommitterAssumption
<1>1. \A d \in Deliveries : d[1] \in Log
  BY DEF Deliveries
<1>2. [d \in Deliveries |-> OffsetKind[d[1]]] \in [Deliveries -> PP!Kinds]
  BY <1>1, IngestionAssumption DEF PP!Kinds
<1>3. PipelineFaults \subseteq PP!AllFaults
  BY DEF PipelineFaults, PP!AllFaults
<1>4. PP!PipelineAssumption
  BY <1>2, <1>3, IngestionAssumption DEF PP!PipelineAssumption
<1>5. CommitterFaults \subseteq CP!AllFaults
  BY DEF CommitterFaults, CP!AllFaults
<1>6. CP!CommitterAssumption
  BY <1>5, IngestionAssumption DEF CP!CommitterAssumption
<1> QED
  BY <1>4, <1>6

\* The definitions of a component mean the same in the module that proves about
\* it.
LEMMA SamePipeline ==
    /\ P!Init <=> PP!Init
    /\ P!Goroutines = PP!Goroutines
    /\ P!entry = PP!entry
    /\ P!recorded = PP!recorded
    /\ \A g : P!Current(g) = PP!Current(g)
    /\ \A m : P!ProcessData(m) <=> PP!ProcessData(m)
    /\ \A g : P!Ack(g) <=> PP!Ack(g)
    /\ \A g : P!Panic(g) <=> PP!Panic(g)
<1>1. (P!Init <=> PP!Init) /\ P!entry = PP!entry /\ P!Goroutines = PP!Goroutines
  BY Zenon DEF P!Init, PP!Init, P!entry, PP!entry, P!Goroutines, PP!Goroutines
<1>2. P!recorded = PP!recorded /\ \A g : P!Current(g) = PP!Current(g)
  BY Zenon DEF P!recorded, PP!recorded, P!Current, PP!Current
<1>3. \A m : P!ProcessData(m) <=> PP!ProcessData(m)
  BY Zenon DEF P!ProcessData, PP!ProcessData, P!TerminalAtPoll, PP!TerminalAtPoll,
     P!Cancelled, PP!Cancelled, P!Goto, PP!Goto, P!Hold, PP!Hold,
     P!channels, PP!channels, P!batcher, PP!batcher, P!durable, PP!durable
<1>4. \A g, s : P!NextDelivery(g, s) <=> PP!NextDelivery(g, s)
  BY Zenon DEF P!NextDelivery, PP!NextDelivery, P!Continue, PP!Continue, P!Goto, PP!Goto,
     P!Hold, PP!Hold, P!LoopHead, PP!LoopHead, P!Cancelled, PP!Cancelled,
     P!FlushReturns, PP!FlushReturns, P!batcher, PP!batcher
<1>5. \A g : P!Ack(g) <=> PP!Ack(g)
  BY <1>2, <1>4, Zenon DEF P!Ack, PP!Ack, P!Touch, PP!Touch, P!channels, PP!channels
<1>6. \A g : P!Panic(g) <=> PP!Panic(g)
  BY Zenon DEF P!Panic, PP!Panic, P!channels, PP!channels, P!batcher, PP!batcher,
     P!durable, PP!durable
<1> QED
  BY <1>1, <1>2, <1>3, <1>5, <1>6, Zenon

\* The same of the consumer and the broker.
LEMMA SameConsumer ==
    /\ C!Init <=> CP!Init
    /\ C!NoCall = CP!NoCall
    /\ C!Below(committed) = CP!Below(committed)
    /\ Log = CP!Log
    /\ \A o : C!PollMessage(o) <=> CP!PollMessage(o)
    /\ \A g, d : C!complete(g, d) <=> CP!complete(g, d)
    /\ C!Crash <=> CP!Crash
<1>1. /\ C!Init <=> CP!Init
      /\ C!NoCall = CP!NoCall
      /\ C!Below(committed) = CP!Below(committed)
      /\ Log = CP!Log
  BY Zenon DEF C!Init, CP!Init, C!NoCall, CP!NoCall, C!Below, CP!Below, C!Log, CP!Log, Log
<1>2. \A o : C!PollMessage(o) <=> CP!PollMessage(o)
  BY Zenon DEF C!PollMessage, CP!PollMessage, C!Log, CP!Log, C!Below, CP!Below,
     C!register, CP!register, C!parts, CP!parts
<1>3. \A g, d : C!complete(g, d) <=> CP!complete(g, d)
  BY Zenon DEF C!complete, CP!complete, C!Settle, CP!Settle, C!NoCall, CP!NoCall,
     C!reader, CP!reader
<1>4. C!Crash <=> CP!Crash
  BY Zenon DEF C!Crash, CP!Crash, C!NoCall, CP!NoCall
<1> QED
  BY <1>1, <1>2, <1>3, <1>4, Zenon

\* A step of the pipeline's goroutines is one by either name.
LEMMA SameStep == P!Step <=> PP!Step
  BY Zenon DEF P!Step, PP!Step, P!PollerStep, PP!PollerStep, P!ProcessData,
     PP!ProcessData, P!PollFails, PP!PollFails, P!PollCancelled, PP!PollCancelled,
     P!SendDelivery, PP!SendDelivery, P!WorkerStep, PP!WorkerStep, P!Transform,
     PP!Transform, P!SendEvent, PP!SendEvent, P!WorkerReturns, PP!WorkerReturns,
     P!CloseEvents, PP!CloseEvents, P!BatcherStep, PP!BatcherStep, P!Collect,
     PP!Collect, P!EventsClosed, PP!EventsClosed, P!Tick, PP!Tick, P!StartDrain,
     PP!StartDrain, P!DrainExpires, PP!DrainExpires, P!StoreSucceeds, PP!StoreSucceeds,
     P!StoreFailsTransiently, PP!StoreFailsTransiently, P!StoreFailsTerminally,
     PP!StoreFailsTerminally, P!BackoffElapses, PP!BackoffElapses, P!BackoffCancelled,
     PP!BackoffCancelled, P!SharedStep, PP!SharedStep, P!HandoffCancelled,
     PP!HandoffCancelled, P!StoreFailure, PP!StoreFailure, P!StoreFailureFails,
     PP!StoreFailureFails, P!Ack, PP!Ack, P!Cancel, PP!Cancel, P!Deadline, PP!Deadline,
     P!Touch, PP!Touch, P!Cancelled, PP!Cancelled, P!Goto, PP!Goto,
     P!Hold, PP!Hold, P!Continue, PP!Continue, P!LoopHead, PP!LoopHead, P!Flush,
     PP!Flush, P!FlushReturns, PP!FlushReturns, P!NextDelivery, PP!NextDelivery,
     P!Current, PP!Current, P!Interrupted, PP!Interrupted,
     P!Goroutines, PP!Goroutines, P!Elements, PP!Elements, P!TerminalAtPoll,
     PP!TerminalAtPoll, P!TerminalAtTransform, PP!TerminalAtTransform,
     P!TransientAtTransform, PP!TransientAtTransform, P!PanicsAtTransform,
     PP!PanicsAtTransform, P!maxStoreAttempts,
     PP!maxStoreAttempts, P!deliveryClosed, PP!deliveryClosed, P!channels, PP!channels,
     P!batcher, PP!batcher, P!durable, PP!durable, P!vars, PP!vars

\* In a live process it is a step of the pipeline.
LEMMA LivePipeline ==
    ASSUME PP!Step, ~down, UNCHANGED down
    PROVE  PP!Next
  BY DEF PP!Next, PP!Live

\* What the pipeline does alone is a step of IngestPipeline that neither fetches
\* nor acks.
LEMMA AloneIsPipelineStep ==
    ASSUME \/ \E g \in P!Goroutines : Alone(g)
           \/ CloseEvents
           \/ Stop,
           ~down, UNCHANGED down
    PROVE  PP!Next /\ UNCHANGED <<source, acked, consumerVars>>
<1>1. ASSUME NEW g \in P!Goroutines, PipelineStep(g)
      PROVE  P!Step /\ UNCHANGED <<source, acked>>
  <2>1. P!Step
    BY <1>1, Zenon DEF PipelineStep, StoreErrs, P!Step, P!PollerStep, P!WorkerStep,
       P!BatcherStep, P!SharedStep
  <2>2. UNCHANGED <<source, acked>>
    BY <1>1 DEF PipelineStep, StoreErrs, P!PollFails, P!PollCancelled, P!SendDelivery,
       P!WorkerStep, P!Transform, P!SendEvent, P!WorkerReturns, P!Collect, P!EventsClosed,
       P!Tick, P!StartDrain, P!DrainExpires, P!StoreSucceeds, P!StoreFailsTransiently,
       P!BackoffElapses, P!BackoffCancelled, P!HandoffCancelled, P!StoreFailure,
       P!StoreFailureFails, P!vars, P!durable
  <2> QED
    BY <2>1, <2>2
<1>2. ASSUME P!CloseEvents \/ P!Cancel \/ P!Deadline
      PROVE  P!Step /\ UNCHANGED <<source, acked>>
  BY <1>2 DEF P!CloseEvents, P!Cancel, P!Deadline, P!Step, P!durable
<1>3. P!Step /\ UNCHANGED <<source, acked, consumerVars>>
  BY <1>1, <1>2 DEF Alone, CloseEvents, Stop
<1>4. PP!Next
  BY <1>3, SameStep, LivePipeline
<1> QED
  BY <1>3, <1>4

\* So is a panic, which takes nothing of the consumer's but its process.
LEMMA PanicIsPipelineStep ==
    ASSUME NEW g \in Workers, Panic(g)
    PROVE  PP!Next /\ UNCHANGED <<source, acked, consumerVars>>
<1>1. PP!Panic(g) /\ UNCHANGED consumerVars
  BY SamePipeline DEF Panic
<1> QED
  BY <1>1 DEF PP!Next, PP!Panic, PP!durable

\* So is a step of the consumer.
LEMMA SameConsumerNext == C!Next <=> CP!Next
  BY Zenon DEF C!Next, CP!Next, C!Assign, CP!Assign, C!PollMessage, CP!PollMessage,
     C!Revoke, CP!Revoke, C!complete, CP!complete, C!Settle, CP!Settle,
     C!CommitMessages, CP!CommitMessages, C!CommitFails, CP!CommitFails, C!Drop, CP!Drop,
     C!ForeignSettle, CP!ForeignSettle, C!ForeignCommit, CP!ForeignCommit, C!Crash, CP!Crash,
     C!register, CP!register, C!parts, CP!parts, C!reader, CP!reader, C!Log, CP!Log,
     C!Below, CP!Below, C!NoCall, CP!NoCall, C!Positions, CP!Positions

\* What the consumer and the group do alone is a step of OffsetCommitter that
\* neither fetches nor settles.
LEMMA AloneIsConsumerStep ==
    ASSUME \/ \E g \in P!Goroutines : CommitReturns(g) \/ CommitErrs(g)
           \/ Rebalance
    PROVE  CP!Next /\ UNCHANGED <<pipelineVars, inflight, settled>>
<1>1. ASSUME NEW g \in P!Goroutines, C!CommitMessages(g) \/ C!CommitFails(g)
      PROVE  C!Next /\ UNCHANGED <<inflight, settled>>
  BY <1>1 DEF P!Goroutines, C!Next, C!CommitMessages, C!CommitFails
<1>2. ASSUME C!Assign \/ C!Revoke
      PROVE  C!Next /\ UNCHANGED <<inflight, settled>>
  BY <1>2 DEF C!Next, C!Assign, C!Revoke
<1>3. C!Next /\ UNCHANGED <<pipelineVars, inflight, settled>>
  BY <1>1, <1>2 DEF CommitReturns, CommitErrs, Rebalance
<1> QED
  BY <1>3, SameConsumerNext

\* Whatever happens is a step of the consumer, or does not change what is
\* settled and committed.
LEMMA ConsumerStepOrQuiet ==
    ASSUME [Next]_vars
    PROVE  [CP!Next]_(CP!vars) \/ UNCHANGED <<settled, committed>>
<1>1. ASSUME NEW o \in Log, Poll(o) PROVE CP!Next
  BY <1>1, SameConsumer DEF Poll, CP!Next
<1>2. ASSUME NEW g \in P!Goroutines, Handle(g) PROVE CP!Next
  <2>1. CP!complete(g, P!Current(g)) /\ P!Current(g) \in inflight
    BY <1>2, SameConsumer DEF Handle, CP!complete, CP!Settle
  <2> QED
    BY <2>1 DEF CP!Next, P!Goroutines
<1>3. CASE (\E g \in P!Goroutines : Alone(g)) \/ CloseEvents \/ Stop
  BY <1>3 DEF Alone, CloseEvents, Stop, consumerVars
<1>4. CASE (\E g \in P!Goroutines : CommitReturns(g) \/ CommitErrs(g)) \/ Rebalance
  BY <1>4, AloneIsConsumerStep
<1>5. CASE CloseConsumer \/ Restart \/ Ended \/ UNCHANGED vars
  BY <1>5 DEF CloseConsumer, Restart, C!Crash, Ended, vars, consumerVars
<1>6. CASE \E g \in Workers : Panic(g)
  BY <1>6 DEF Panic, consumerVars
<1> QED
  BY <1>1, <1>2, <1>3, <1>4, <1>5, <1>6 DEF Next, P!Live, Work, Step

-----------------------------------------------------------------------------
(* The invariant of the whole.                                             *)

\* A component's own step keeps its invariant.
LEMMA PipelineKeeps ==
    ASSUME PP!IInv, PP!Custody, PP!Next \/ UNCHANGED <<pipelineVars, down>>
    PROVE  /\ PP!IInv' /\ PP!Custody'
           /\ PP!InCustody' \subseteq PP!InCustody \cup {Nothing} \cup (source \ source')
<1>1. PP!PipelineAssumption
  BY ComponentsAssumed
<1>2. [PP!Next]_(PP!vars)
  BY DEF pipelineVars, PP!vars, PP!channels, PP!batcher, PP!durable
<1>3. PP!IInv'
  BY <1>1, <1>2, PP!InductiveStep
<1>4. PP!Custody'
  BY <1>1, <1>2, PP!CustodyStep
<1> QED
  BY <1>1, <1>2, <1>3, <1>4, PP!OnlyFetchedComesIn

\* So does a step of the consumer's.
LEMMA ConsumerKeeps ==
    ASSUME CP!IInv, CP!Next \/ UNCHANGED consumerVars
    PROVE  CP!IInv'
<1>1. CP!CommitterAssumption
  BY ComponentsAssumed
<1>2. [CP!Next]_(CP!vars)
  BY DEF consumerVars, CP!vars, CP!reader, CP!parts
<1> QED
  BY <1>1, <1>2, CP!InvStep

\* Where they meet: a fetched delivery is put in flight and in custody.
LEMMA PollKeeps ==
    ASSUME EndToEnd, NEW o \in Log, Poll(o), ~down, UNCHANGED down
    PROVE  EndToEnd'
<1> DEFINE d == <<o, session>>
<1>1. PP!ProcessData(d) /\ CP!PollMessage(o)
  BY SamePipeline, SameConsumer DEF Poll
<1>2. /\ d \in Deliveries /\ source' = source \ {d} /\ UNCHANGED <<stored, acked>>
      /\ inflight' = inflight \cup {d} /\ settled' = settled
  BY <1>1 DEF EndToEnd, PP!IInv, PP!TypeOK, PP!ProcessData, PP!durable, CP!PollMessage
<1>3. PP!Next /\ CP!Next
  BY <1>1, <1>2, SameConsumer, LivePipeline DEF PP!Step, PP!PollerStep, CP!Next
<1>4. /\ PP!IInv' /\ PP!Custody' /\ CP!IInv'
      /\ PP!InCustody' \subseteq PP!InCustody \cup {Nothing} \cup (source \ source')
  BY <1>3, PipelineKeeps, ConsumerKeeps DEF EndToEnd
<1>5. HeldIsInflight'
  BY <1>2, <1>4 DEF EndToEnd, HeldIsInflight
<1>6. SettledByAck'
  BY <1>2 DEF EndToEnd, SettledByAck
<1> QED
  BY <1>4, <1>5, <1>6 DEF EndToEnd

\* A handler ends both: its delivery leaves flight and custody, and its offset
\* is settled because it was acked.
LEMMA HandleKeeps ==
    ASSUME EndToEnd, NEW g \in P!Goroutines, Handle(g), ~down, UNCHANGED down
    PROVE  EndToEnd'
<1> DEFINE d == PP!Current(g)
<1>1. PP!Ack(g) /\ CP!complete(g, d) /\ g \in PP!Goroutines
  BY SamePipeline, SameConsumer DEF Handle
<1>2. /\ source' = source /\ acked' = acked \cup {d}
      /\ d \in inflight /\ inflight' = inflight \ {d} /\ settled' = settled \cup {d[1]}
  BY <1>1 DEF PP!Ack, CP!complete, CP!Settle
<1>3. PP!Next /\ CP!Next
  BY <1>1, <1>2, LivePipeline DEF PP!Step, PP!SharedStep, CP!Next, PP!Goroutines
<1>4. /\ PP!IInv' /\ PP!Custody' /\ CP!IInv'
      /\ PP!InCustody' \subseteq PP!InCustody \cup {Nothing} \cup (source \ source')
  BY <1>3, PipelineKeeps, ConsumerKeeps DEF EndToEnd
<1>5. d \notin PP!InCustody'
  BY <1>1, ComponentsAssumed, PP!AckedLeavesCustody DEF EndToEnd
<1>6. HeldIsInflight'
  BY <1>2, <1>4, <1>5 DEF EndToEnd, HeldIsInflight
<1>7. SettledByAck'
  BY <1>2 DEF EndToEnd, SettledByAck
<1> QED
  BY <1>4, <1>6, <1>7 DEF EndToEnd

\* What each does alone takes nothing out of flight and puts nothing in custody.
LEMMA AloneKeeps ==
    ASSUME EndToEnd,
           \/ PP!Next /\ UNCHANGED <<source, acked, consumerVars>>
           \/ CP!Next /\ UNCHANGED <<pipelineVars, down, inflight, settled>>
           \/ UNCHANGED vars
    PROVE  EndToEnd'
<1>1. /\ PP!Next \/ UNCHANGED <<pipelineVars, down>>
      /\ CP!Next \/ UNCHANGED consumerVars
      /\ UNCHANGED <<source, acked, inflight, settled>>
  BY DEF vars, pipelineVars, consumerVars
<1>2. /\ PP!IInv' /\ PP!Custody' /\ CP!IInv'
      /\ PP!InCustody' \subseteq PP!InCustody \cup {Nothing} \cup (source \ source')
  BY <1>1, PipelineKeeps, ConsumerKeeps DEF EndToEnd
<1>3. HeldIsInflight' /\ SettledByAck'
  BY <1>1, <1>2 DEF EndToEnd, HeldIsInflight, SettledByAck
<1> QED
  BY <1>2, <1>3 DEF EndToEnd

\* main closes the consumer: the reader is gone, its deliveries stay.
LEMMA CloseKeeps == EndToEnd /\ CloseConsumer /\ UNCHANGED down => EndToEnd'
<1> SUFFICES ASSUME EndToEnd, CloseConsumer, UNCHANGED down PROVE EndToEnd'
  OBVIOUS
<1>1. /\ UNCHANGED pipelineVars /\ assigned' = FALSE
      /\ UNCHANGED <<session, fetchPos, registered, next, completed, inflight, call,
                     committed, settled>>
  BY DEF CloseConsumer
<1>2. CP!TypeOK'
  BY <1>1 DEF EndToEnd, CP!IInv, CP!TypeOK
<1>3. CP!IInv'
  BY <1>1, <1>2, ComponentsAssumed, CP!QuietStep DEF EndToEnd
<1>4. /\ PP!IInv' /\ PP!Custody'
      /\ PP!InCustody' \subseteq PP!InCustody \cup {Nothing} \cup (source \ source')
  BY <1>1, PipelineKeeps DEF EndToEnd
<1>5. HeldIsInflight' /\ SettledByAck'
  BY <1>1, <1>4 DEF EndToEnd, HeldIsInflight, SettledByAck, pipelineVars
<1> QED
  BY <1>3, <1>4, <1>5 DEF EndToEnd

\* A new process holds nothing and has nothing in flight.
LEMMA RestartKeeps == EndToEnd /\ Restart => EndToEnd'
<1> SUFFICES ASSUME EndToEnd, Restart PROVE EndToEnd'
  OBVIOUS
<1>1. CP!Crash /\ inflight' = {} /\ settled' = settled /\ acked' = acked
  BY SameConsumer DEF Restart, CP!Crash
<1>2. CP!Next
  BY <1>1 DEF CP!Next
<1>3. CP!IInv'
  BY <1>2, ConsumerKeeps DEF EndToEnd
<1>4. PP!IInv' /\ PP!Custody' /\ PP!InCustody' \subseteq {Nothing}
  BY ComponentsAssumed, SamePipeline, PP!FreshProcess DEF EndToEnd, Restart
<1>5. HeldIsInflight' /\ SettledByAck'
  BY <1>1, <1>4 DEF EndToEnd, HeldIsInflight, SettledByAck
<1> QED
  BY <1>3, <1>4, <1>5 DEF EndToEnd

\* Every step of the whole keeps its invariant.
LEMMA EndToEndStep == EndToEnd /\ [Next]_vars => EndToEnd'
<1> SUFFICES ASSUME EndToEnd, [Next]_vars PROVE EndToEnd'
  OBVIOUS
<1>1. ASSUME ~down, UNCHANGED down, Work PROVE EndToEnd'
  <2>1. ASSUME NEW o \in Log, Poll(o) PROVE EndToEnd'
    BY <1>1, <2>1, PollKeeps
  <2>2. ASSUME NEW g \in P!Goroutines, Handle(g) PROVE EndToEnd'
    BY <1>1, <2>2, HandleKeeps
  <2>3. CASE (\E g \in P!Goroutines : Alone(g)) \/ CloseEvents \/ Stop
    BY <1>1, <2>3, AloneIsPipelineStep, AloneKeeps
  <2>4. CASE (\E g \in P!Goroutines : CommitReturns(g) \/ CommitErrs(g)) \/ Rebalance
    BY <1>1, <2>4, AloneIsConsumerStep, AloneKeeps
  <2>5. CASE CloseConsumer
    BY <1>1, <2>5, CloseKeeps
  <2> QED
    BY <1>1, <2>1, <2>2, <2>3, <2>4, <2>5 DEF Work, Step
<1>2. ASSUME NEW g \in Workers, Panic(g) PROVE EndToEnd'
  BY <1>2, PanicIsPipelineStep, AloneKeeps
<1>3. CASE Restart
  BY <1>3, RestartKeeps
<1>4. CASE Ended \/ UNCHANGED vars
  BY <1>4, AloneKeeps DEF Ended
<1> QED
  BY <1>1, <1>2, <1>3, <1>4 DEF Next, P!Live

\* The first process has fetched nothing.
LEMMA EndToEndInit == Init => EndToEnd
<1> SUFFICES ASSUME Init PROVE EndToEnd
  OBVIOUS
<1>1. PP!Init /\ CP!Init
  BY SamePipeline, SameConsumer DEF Init
<1>2. PP!IInv /\ PP!Custody /\ CP!IInv
  BY <1>1, ComponentsAssumed, PP!InitialState, PP!CustodyInitially, CP!InvInit
<1>3. SettledByAck
  BY <1>1 DEF CP!Init, SettledByAck
<1>4. HeldIsInflight
  <2>1. PP!Elements(<<>>) = {}
    BY DEF PP!Elements
  <2>2. PP!InCustody \subseteq {Nothing}
    BY <1>1, <2>1 DEF PP!Init, PP!InCustody
  <2> QED
    BY <2>2 DEF HeldIsInflight
<1> QED
  BY <1>2, <1>3, <1>4 DEF EndToEnd

\* The invariant of the composition: each component keeps its own, the pipeline
\* holds nothing the committer does not have in flight, and an offset is settled
\* only by the ack of its delivery.
THEOREM Invariant == Spec => []EndToEnd
  BY EndToEndInit, EndToEndStep, PTL DEF Spec

-----------------------------------------------------------------------------
(* Theorems.                                                               *)

\* At-least-once, end to end: through any order of batches, retries, rebalances,
\* crashes and shutdowns, the committed position passes only offsets whose
\* messages are in the event store or in a failure storage.
THEOREM NothingIsLost == Spec => []CommittedIsDurable
<1>1. EndToEnd => CommittedIsDurable
  <2> SUFFICES ASSUME EndToEnd PROVE C!Below(committed) \subseteq durableOffsets
    BY DEF CommittedIsDurable
  <2>1. C!Below(committed) \subseteq settled
    BY SameConsumer DEF EndToEnd, CP!IInv, CP!NoCommitOverGap
  <2>2. acked \subseteq stored \cup P!recorded
    BY SamePipeline DEF EndToEnd, PP!IInv, PP!AckedIsDurable
  <2> QED
    BY <2>1, <2>2 DEF EndToEnd, SettledByAck, durableOffsets
<1> QED
  BY <1>1, Invariant, PTL

\* Through rebalances and restarts a goroutine only ever calls the handler of a
\* delivery that is in flight: complete finds the entry it dereferences.
THEOREM HandlersAreLive == Spec => []HandledIsInflight
<1>1. EndToEnd => HandledIsInflight
  <2> SUFFICES ASSUME EndToEnd, NEW g \in PP!Goroutines,
                      pc[g] \in {"record", "ack", "ackStored"}
               PROVE  PP!Current(g) \in inflight
    BY SamePipeline DEF HandledIsInflight
  <2>1. PP!Current(g) \in Deliveries
    BY ComponentsAssumed, PP!CurrentIsOpen DEF EndToEnd
  <2>2. PP!Current(g) \in PP!InCustody
    BY ComponentsAssumed, PP!CurrentIsHeld DEF EndToEnd
  <2>3. Nothing \notin Deliveries
    BY IngestionAssumption
  <2> QED
    BY <2>1, <2>2, <2>3 DEF EndToEnd, HeldIsInflight
<1> QED
  BY <1>1, Invariant, PTL

-----------------------------------------------------------------------------
(* The abstract specifications of the components, through crashes.         *)

\* The whole is a ledger of at-least-once delivery: closing the consumer and
\* restarting the process are invisible to it.
THEOREM ImplementsLedger == Spec => CP!LedgerSpec
<1>1. Init => CP!Ledger!Init
  BY SameConsumer DEF Init, CP!Init, CP!Ledger!Init
<1>2. EndToEnd /\ [Next]_vars => [CP!Ledger!Next]_(CP!Ledger!ledgerVars)
  <2> SUFFICES ASSUME EndToEnd, [Next]_vars
               PROVE  [CP!Ledger!Next]_(CP!Ledger!ledgerVars)
    OBVIOUS
  <2>1. CASE [CP!Next]_(CP!vars)
    BY <2>1, ComponentsAssumed, CP!LedgerStep DEF EndToEnd
  <2>2. CASE UNCHANGED <<settled, committed>>
    BY <2>2 DEF CP!Ledger!ledgerVars
  <2> QED
    BY <2>1, <2>2, ConsumerStepOrQuiet
<1> QED
  BY <1>1, <1>2, Invariant, PTL DEF Spec, CP!LedgerSpec, CP!Ledger!Spec

\* Whatever happens is a step of the pipeline or a restart of the process.
LEMMA PipelineStepOrRestart ==
    ASSUME PP!TypeOK, [Next]_vars
    PROVE  [PP!Next]_(PP!vars) \/ Restart
<1>0. UNCHANGED <<pipelineVars, down>> => UNCHANGED PP!vars
  BY DEF pipelineVars, PP!vars, PP!channels, PP!batcher, PP!durable
<1>1. ASSUME ~down, UNCHANGED down, Work
      PROVE  [PP!Next]_(PP!vars)
  <2>1. ASSUME NEW o \in Log, Poll(o) PROVE PP!Next
    <3>1. PP!ProcessData(<<o, session>>) /\ <<o, session>> \in Deliveries
      BY <2>1, SamePipeline DEF Poll, PP!ProcessData, PP!TypeOK
    <3> QED
      BY <1>1, <3>1, LivePipeline DEF PP!Step, PP!PollerStep
  <2>2. ASSUME NEW g \in P!Goroutines, Handle(g) PROVE PP!Next
    BY <1>1, <2>2, SamePipeline, LivePipeline DEF Handle, PP!Step, PP!SharedStep
  <2>3. CASE (\E g \in P!Goroutines : Alone(g)) \/ CloseEvents \/ Stop
    BY <1>1, <2>3, AloneIsPipelineStep
  <2>4. CASE (\E g \in P!Goroutines : CommitReturns(g) \/ CommitErrs(g)) \/ Rebalance
    BY <1>0, <1>1, <2>4, AloneIsConsumerStep
  <2>5. CASE CloseConsumer
    BY <1>0, <1>1, <2>5 DEF CloseConsumer
  <2> QED
    BY <1>1, <2>1, <2>2, <2>3, <2>4, <2>5 DEF Work, Step
<1>2. CASE \E g \in Workers : Panic(g)
  BY <1>2, PanicIsPipelineStep
<1>3. CASE Ended \/ UNCHANGED vars
  BY <1>0, <1>3 DEF Ended, vars
<1> QED
  BY <1>1, <1>2, <1>3 DEF Next, P!Live

\* The whole keeps the contract of every delivery: a process that dies and is
\* started again acks none a second time and writes nothing for an acked one.
THEOREM ImplementsContract == Spec => PP!ContractSpec
<1>1. Init => PP!Contract!Init
  BY SamePipeline DEF Init, PP!Init, PP!recorded, PP!Contract!Init
<1>2. EndToEnd /\ [Next]_vars => [PP!Contract!Next]_(PP!Contract!contractVars)
  <2> SUFFICES ASSUME EndToEnd, [Next]_vars
               PROVE  [PP!Contract!Next]_(PP!Contract!contractVars)
    OBVIOUS
  <2>1. CASE [PP!Next]_(PP!vars)
    BY <2>1, ComponentsAssumed, PP!ContractStep DEF EndToEnd, PP!Contract!contractVars
  <2>2. CASE Restart
    BY <2>2 DEF Restart, PP!recorded, PP!Contract!contractVars
  <2>3. PP!TypeOK
    BY DEF EndToEnd, PP!IInv
  <2> QED
    BY <2>1, <2>2, <2>3, PipelineStepOrRestart
<1> QED
  BY <1>1, <1>2, Invariant, PTL DEF Spec, PP!ContractSpec, PP!Contract!Spec

-----------------------------------------------------------------------------
(* What is condemned.                                                      *)

\* A new process condemns nothing of its own accord.
LEMMA RestartSorts == PP!Sorted /\ Restart => PP!Sorted'
<1> SUFFICES ASSUME PP!Sorted, Restart PROVE PP!Sorted'
  OBVIOUS
<1>1. /\ pc' = PP!entry /\ eventCh' = <<>> /\ batch' = <<>>
      /\ UNCHANGED <<stored, deadLetters>>
  BY SamePipeline DEF Restart
<1>2. PP!Elements(<<>>) = {}
  BY DEF PP!Elements
<1>3. PP!Elements(eventCh)' = {} /\ PP!Elements(batch)' = {}
  BY <1>1, <1>2 DEF PP!Elements
<1>4. PP!GoodsSorted' /\ PP!RecordsSorted'
  BY <1>1, <1>3 DEF PP!Sorted, PP!GoodsSorted, PP!RecordsSorted, PP!recorded
<1>5. \A g \in PP!Goroutines : pc'[g] \in {"fetch", "collect", "receive"}
  BY <1>1 DEF PP!entry
<1>6. PP!HandsSorted' /\ PP!BatchNotCondemned'
  BY <1>5 DEF PP!HandsSorted, PP!BatchNotCondemned, PP!Goroutines
<1> QED
  BY <1>4, <1>6 DEF PP!Sorted

\* failTerminalAndAck over the life of several processes: through retries,
\* drains, panics, rebalances and restarts it gets only what ProcessData or
\* Transform called terminal, and the store only what Transform accepted.
THEOREM OnlyBadIsCondemned == Spec => []OnlyBadMessagesAreDeadLettered
<1>1. "storeTerminal" \notin PipelineFaults
  BY DEF PipelineFaults
<1>2. Init => PP!Sorted
  <2>1. PP!Elements(<<>>) = {}
    BY DEF PP!Elements
  <2> QED
    BY <2>1, SamePipeline DEF Init, PP!Init, PP!Sorted, PP!GoodsSorted, PP!HandsSorted,
       PP!BatchNotCondemned, PP!RecordsSorted, PP!recorded, PP!entry, PP!Goroutines
<1>3. EndToEnd /\ PP!Sorted /\ [Next]_vars => PP!Sorted'
  <2> SUFFICES ASSUME EndToEnd, PP!Sorted, [Next]_vars PROVE PP!Sorted'
    OBVIOUS
  <2>1. PP!TypeOK
    BY DEF EndToEnd, PP!IInv
  <2>2. CASE [PP!Next]_(PP!vars)
    BY <1>1, <2>2, ComponentsAssumed, PP!SortedStep DEF EndToEnd
  <2>3. CASE Restart
    BY <2>3, RestartSorts
  <2> QED
    BY <2>1, <2>2, <2>3, PipelineStepOrRestart
<1>4. PP!Sorted => OnlyBadMessagesAreDeadLettered
  BY SamePipeline DEF PP!Sorted, PP!GoodsSorted, PP!RecordsSorted, PP!BadKinds,
     OnlyBadMessagesAreDeadLettered, P!OnlyBadMessagesAreDeadLettered, P!TerminalAtPoll,
     PP!TerminalAtPoll, P!TerminalAtTransform, PP!TerminalAtTransform
<1> QED
  BY <1>2, <1>3, <1>4, Invariant, PTL DEF Spec

=============================================================================

----------------------- MODULE SequentialIngestProofs -----------------------
(***************************************************************************)
(* What holds of SequentialIngest for every topic, batch size and channel  *)
(* capacity and every combination of faults.  The steps it shares with the *)
(* worker pool keep what they were proved to keep there; what is added is  *)
(* the other steps, and what the table of events holds, which comes from   *)
(* the contents of the messages.                                           *)
(***************************************************************************)
EXTENDS SequentialIngest, TransformerProofs, WellFoundedInduction, SequenceTheorems

\* The pool of the shared steps, none of which looks at what a message contains.
PP == INSTANCE IngestPipelineProofs WITH
        Workers <- {}, Poller <- Reader, DeliveryCap <- 1,
        Kind <- [m \in Messages |-> "good"]

-----------------------------------------------------------------------------
(* The shared steps by either name.                                        *)

LEMMA PoolAssumed == PP!PipelineAssumption
<1>1. [m \in Messages |-> "good"] \in [Messages -> PP!Kinds]
  BY DEF PP!Kinds
<1>2. Faults \subseteq PP!AllFaults
  BY SequentialAssumption DEF P!AllFaults, PP!AllFaults
<1> QED
  BY <1>1, <1>2, SequentialAssumption DEF PP!PipelineAssumption

LEMMA SameOperators ==
    /\ P!Goroutines = PP!Goroutines
    /\ P!entry = PP!entry
    /\ P!recorded = PP!recorded
    /\ \A s : P!Elements(s) = PP!Elements(s)
    /\ \A g : P!Continue(g) <=> PP!Continue(g)
    /\ \A g, s : P!Goto(g, s) <=> PP!Goto(g, s)
    /\ \A g, m : P!Hold(g, m) <=> PP!Hold(g, m)
    /\ \A b, l : P!Flush(b, l) <=> PP!Flush(b, l)
  BY Zenon DEF P!entry, PP!entry, P!Goroutines, PP!Goroutines, P!recorded, PP!recorded,
     P!Elements, PP!Elements, P!Continue, PP!Continue, P!LoopHead, PP!LoopHead,
     P!Cancelled, PP!Cancelled, P!Goto, PP!Goto, P!Hold, PP!Hold, P!Flush, PP!Flush

\* A step that SequentialIngest takes from the pool is a step of the pool.
LEMMA SharedSteps ==
    /\ P!PollCancelled => PP!PollCancelled
    /\ (P!StoreSucceeds \/ P!StoreFailsTransiently \/ P!BackoffElapses) => PP!BatcherStep
    /\ (P!Collect \/ P!EventsClosed \/ P!Tick \/ P!StartDrain \/ P!DrainExpires)
         => PP!BatcherStep
    /\ (P!StoreFailsTerminally \/ P!BackoffCancelled) => PP!BatcherStep
    /\ \A g : (P!StoreFailure(g) \/ P!StoreFailureFails(g) \/ P!Ack(g)
                \/ P!HandoffCancelled(g)) => PP!SharedStep(g)
    /\ P!Cancel => PP!Cancel
    /\ P!Deadline => PP!Deadline
<1>1. P!PollCancelled => PP!PollCancelled
  BY Zenon DEF P!PollCancelled, PP!PollCancelled, P!Cancelled, PP!Cancelled,
     P!Goto, PP!Goto, P!channels, PP!channels, P!batcher, PP!batcher, P!durable, PP!durable
<1>2. /\ P!StoreSucceeds <=> PP!StoreSucceeds
      /\ P!StoreFailsTransiently <=> PP!StoreFailsTransiently
      /\ P!StoreFailsTerminally <=> PP!StoreFailsTerminally
      /\ P!BackoffElapses <=> PP!BackoffElapses
      /\ P!BackoffCancelled <=> PP!BackoffCancelled
  BY Zenon DEF P!StoreSucceeds, PP!StoreSucceeds, P!StoreFailsTransiently,
     PP!StoreFailsTransiently, P!StoreFailsTerminally, PP!StoreFailsTerminally,
     P!BackoffElapses, PP!BackoffElapses, P!BackoffCancelled, PP!BackoffCancelled,
     P!FlushReturns, PP!FlushReturns, P!Goto, PP!Goto, P!Elements, PP!Elements,
     P!maxStoreAttempts, PP!maxStoreAttempts, P!channels, PP!channels, P!batcher,
     PP!batcher, P!durable, PP!durable, P!Touch, PP!Touch
<1>3. /\ P!Collect <=> PP!Collect
      /\ P!EventsClosed <=> PP!EventsClosed
      /\ P!Tick <=> PP!Tick
      /\ P!StartDrain <=> PP!StartDrain
      /\ P!DrainExpires <=> PP!DrainExpires
  BY Zenon DEF P!Collect, PP!Collect, P!EventsClosed, PP!EventsClosed, P!Tick, PP!Tick,
     P!StartDrain, PP!StartDrain, P!DrainExpires, PP!DrainExpires, P!Flush, PP!Flush,
     P!Goto, PP!Goto, P!Cancelled, PP!Cancelled, P!channels, PP!channels, P!durable,
     PP!durable
<1>4. \A g, s : P!NextDelivery(g, s) <=> PP!NextDelivery(g, s)
  BY Zenon DEF P!NextDelivery, PP!NextDelivery, P!Continue, PP!Continue, P!Goto, PP!Goto,
     P!Hold, PP!Hold, P!LoopHead, PP!LoopHead, P!Cancelled, PP!Cancelled,
     P!FlushReturns, PP!FlushReturns, P!batcher, PP!batcher
<1>5. \A g : /\ P!StoreFailure(g) <=> PP!StoreFailure(g)
             /\ P!StoreFailureFails(g) <=> PP!StoreFailureFails(g)
             /\ P!Ack(g) <=> PP!Ack(g)
             /\ P!HandoffCancelled(g) <=> PP!HandoffCancelled(g)
  BY <1>4, Zenon DEF P!StoreFailure, PP!StoreFailure, P!StoreFailureFails,
     PP!StoreFailureFails, P!Ack, PP!Ack, P!HandoffCancelled, PP!HandoffCancelled,
     P!Current, PP!Current, P!Interrupted, PP!Interrupted, P!Cancelled, PP!Cancelled,
     P!Goto, PP!Goto, P!Hold, PP!Hold, P!channels, PP!channels, P!batcher, PP!batcher,
     P!durable, PP!durable, P!Touch, PP!Touch
<1>6. (P!Cancel => PP!Cancel) /\ (P!Deadline => PP!Deadline)
  BY Zenon DEF P!Cancel, PP!Cancel, P!Deadline, PP!Deadline, P!Cancelled, PP!Cancelled,
     P!channels, PP!channels, P!batcher, PP!batcher, P!durable, PP!durable
<1> QED
  BY <1>1, <1>2, <1>3, <1>5, <1>6, Zenon DEF PP!BatcherStep, PP!SharedStep

-----------------------------------------------------------------------------
(* The invariant of the pool, IInv of IngestPipelineProofs, and Custody.   *)

LEMMA Names ==
    /\ PP!Goroutines = {Reader, Batcher} /\ Reader # Batcher /\ Nothing \notin Messages
    /\ PP!PcOK <=> /\ pc \in [{Reader, Batcher} ->
                                PP!PollerStates \cup PP!WorkerStates \cup PP!BatcherStates]
                   /\ pc[Reader] \in PP!PollerStates
                   /\ pc[Batcher] \in PP!BatcherStates
    /\ PP!PollerStates = {"fetch", "handoff", "record", "ack", "done"}
    /\ PP!BatcherStates = {"collect", "store", "backoff", "ackStored", "record", "ack", "done"}
<1>1. PP!Goroutines = {Reader, Batcher}
  BY DEF PP!Goroutines
<1> QED
  BY <1>1, SequentialAssumption DEF PP!PcOK, PP!PollerStates, PP!BatcherStates

\* The reader moves, into a state in which it has a message if it needs one.
LEMMA ReaderMoves ==
    ASSUME PP!IInv, NEW s \in PP!PollerStates \ {"ack"}, PP!Goto(Reader, s),
           hand' \in [PP!Goroutines -> Messages \cup {Nothing}], hand'[Batcher] = hand[Batcher],
           s \in {"handoff", "record"} => hand'[Reader] \in Messages,
           eventCh' \in Seq(Messages), Len(eventCh') <= EventCap,
           source' \subseteq source,
           down' \in BOOLEAN, UNCHANGED <<expired, deliveryCh, eventClosed, batcher, durable>>
    PROVE  PP!IInv'
<1> USE PoolAssumed
<1>1. PP!TypeOK /\ PP!PcOK /\ PP!BatcherOK /\ PP!RestOK /\ PP!Shape
  BY PP!TypeParts DEF PP!IInv, PP!Shape
<1>2. Reader \in PP!Goroutines /\ Batcher \in PP!Goroutines /\ Reader # Batcher
  BY Names
<1>3. PP!PcOK'
  BY <1>1, <1>2, PP!GotoTyped
<1>4. PP!BatcherOK' /\ PP!RestOK'
  BY <1>1 DEF PP!BatcherOK, PP!RestOK, batcher, durable
<1>5. PP!TypeOK'
  BY <1>3, <1>4, PP!TypeParts
<1>6. pc'[Reader] = s /\ pc'[Batcher] = pc[Batcher]
  BY <1>1, <1>2, PP!OthersStay
<1>7. PP!FlushHasWork' /\ PP!BatchHasRoom'
  BY <1>6 DEF PP!IInv, PP!FlushHasWork, PP!BatchHasRoom, batcher
<1>8. PP!WorkInHand'
  BY <1>2, <1>6 DEF PP!WorkInHand
<1>9. PP!RecordedBeforeAck' /\ PP!StoredBeforeAck'
  <2>1. UNCHANGED <<batch, stored, deadLetters>>
    BY DEF batcher, durable
  <2>2. PP!recorded' = PP!recorded
    BY <2>1 DEF PP!recorded
  <2>3. PP!Goroutines = {Reader, Batcher}
    BY Names
  <2>4. PP!Current(Batcher)' = PP!Current(Batcher)
    BY <2>1 DEF PP!Current
  <2> QED
    BY <1>6, <2>1, <2>2, <2>3, <2>4
       DEF PP!IInv, PP!RecordedBeforeAck, PP!StoredBeforeAck, PP!Elements
<1>10. PP!AckedIsDurable'
  BY DEF PP!IInv, PP!AckedIsDurable, PP!recorded, durable
<1> QED
  BY <1>5, <1>7, <1>8, <1>9, <1>10 DEF PP!IInv

\* The batcher moves, with a batch that fits the state it moves to.
LEMMA BatcherMoves ==
    ASSUME PP!IInv, NEW s \in PP!BatcherStates \ {"ack", "ackStored"}, PP!Goto(Batcher, s),
           batch' \in Seq(Messages), Len(batch') <= BatchSize,
           s \in {"store", "backoff", "record"} => batch' # <<>>,
           s = "collect" => Len(batch') < BatchSize,
           last' \in BOOLEAN, attempt' \in 0 .. PP!maxStoreAttempts - 1,
           source' \subseteq source,
           down' \in BOOLEAN, UNCHANGED <<expired, hand, channels, phase, durable>>
    PROVE  PP!IInv'
<1> USE PoolAssumed
<1>1. PP!TypeOK /\ PP!PcOK /\ PP!BatcherOK /\ PP!RestOK /\ PP!Shape
  BY PP!TypeParts DEF PP!IInv, PP!Shape
<1>2. Reader \in PP!Goroutines /\ Batcher \in PP!Goroutines /\ Reader # Batcher
  BY Names
<1>3. PP!PcOK'
  BY <1>1, <1>2, PP!GotoTyped
<1>4. PP!BatcherOK' /\ PP!RestOK'
  BY <1>1 DEF PP!BatcherOK, PP!RestOK, channels, durable
<1>5. PP!TypeOK'
  BY <1>3, <1>4, PP!TypeParts
<1>6. pc'[Batcher] = s /\ pc'[Reader] = pc[Reader]
  BY <1>1, <1>2, PP!OthersStay
<1>7. PP!FlushHasWork' /\ PP!BatchHasRoom'
  BY <1>6 DEF PP!FlushHasWork, PP!BatchHasRoom
<1>8. PP!WorkInHand'
  BY <1>2, <1>6 DEF PP!IInv, PP!WorkInHand
<1>9. PP!RecordedBeforeAck' /\ PP!StoredBeforeAck'
  <2>1. UNCHANGED <<hand, stored, deadLetters>>
    BY DEF durable
  <2>2. PP!recorded' = PP!recorded
    BY <2>1 DEF PP!recorded
  <2>3. PP!Goroutines = {Reader, Batcher} /\ Reader # Batcher
    BY Names
  <2>4. PP!Current(Reader)' = PP!Current(Reader)
    BY <2>1, <2>3 DEF PP!Current
  <2> QED
    BY <1>6, <2>1, <2>2, <2>3, <2>4
       DEF PP!IInv, PP!RecordedBeforeAck, PP!StoredBeforeAck
<1>10. PP!AckedIsDurable'
  BY DEF PP!IInv, PP!AckedIsDurable, PP!recorded, durable
<1> QED
  BY <1>5, <1>7, <1>8, <1>9, <1>10 DEF PP!IInv

\* Nobody moves.
LEMMA NobodyMoves ==
    ASSUME PP!IInv, source' \subseteq source, eventClosed' \in BOOLEAN, down' \in BOOLEAN,
           UNCHANGED <<expired, pc, hand, deliveryCh, eventCh, batcher, durable>>
    PROVE  PP!IInv'
<1>1. PP!TypeOK'
  BY DEF PP!IInv, PP!TypeOK, batcher, durable
<1>2. PP!FlushHasWork' /\ PP!BatchHasRoom' /\ PP!WorkInHand'
  BY DEF PP!IInv, PP!FlushHasWork, PP!BatchHasRoom, PP!WorkInHand, batcher
<1>3. PP!RecordedBeforeAck' /\ PP!StoredBeforeAck'
  BY PoolAssumed, PP!StillKeepsEvidence DEF batcher, durable
<1>4. PP!AckedIsDurable'
  BY DEF PP!IInv, PP!AckedIsDurable, PP!recorded, durable
<1> QED
  BY <1>1, <1>2, <1>3, <1>4 DEF PP!IInv

\* The steps of the two modes that are not the pool's.
OwnStep ==
    \/ \E m \in Messages : ReadForBatch(m) \/ SingleRead(m) \/ Panic(m)
    \/ SendEvent \/ CloseEvents \/ SinglePollCancelled \/ GiveUp \/ Condemn

\* The pool's steps that the modes take.
PoolStep ==
    \/ PP!PollCancelled \/ PP!BatcherStep \/ PP!Cancel \/ PP!Deadline
    \/ \E g \in PP!Goroutines : PP!SharedStep(g)

LEMMA PoolStepIsNext == PoolStep /\ ~down /\ UNCHANGED down => PP!Next
<1>1. PoolStep => PP!Step
  BY Zenon DEF PoolStep, PP!Step, PP!PollerStep
<1> QED
  BY <1>1 DEF PP!Next, PP!Live

\* A step is the modes' own or the pool's.
LEMMA StepKinds == Work => OwnStep \/ (PoolStep /\ UNCHANGED down)
<1> SUFFICES ASSUME Work PROVE OwnStep \/ (PoolStep /\ UNCHANGED down)
  OBVIOUS
<1>1. Reader \in PP!Goroutines /\ Batcher \in PP!Goroutines
  BY Names
<1>2. CASE ReaderStep
  <2>1. OwnStep \/ PollCancelled \/ Shared(Reader)
    BY <1>2, Zenon DEF ReaderStep, OwnStep
  <2> QED
    BY <1>1, <2>1, SharedSteps, Zenon DEF Shared, PollCancelled, PoolStep
<1>3. CASE BatcherStep
  <2>1. OwnStep \/ SharedStore \/ BatchOnly \/ Shared(Batcher)
    BY <1>3, Zenon DEF BatcherStep, OwnStep
  <2>2. SharedStore \/ BatchOnly => PP!BatcherStep /\ UNCHANGED down
    BY SharedSteps, Zenon DEF SharedStore, BatchOnly
  <2> QED
    BY <1>1, <2>1, <2>2, SharedSteps, Zenon DEF Shared, PoolStep
<1>4. CASE ContextStep
  BY <1>4, SharedSteps DEF ContextStep, PoolStep
<1>5. CASE \E m \in Messages : Panic(m)
  BY <1>5 DEF OwnStep
<1> QED
  BY <1>2, <1>3, <1>4, <1>5 DEF Work

\* Where the goroutines keep a message they have in hand.
LEMMA Holding ==
    ASSUME PP!IInv, NEW m \in Messages \cup {Nothing}, P!Hold(Reader, m)
    PROVE  /\ hand' \in [PP!Goroutines -> Messages \cup {Nothing}]
           /\ hand'[Reader] = m /\ hand'[Batcher] = hand[Batcher]
           /\ PP!Hold(Reader, m)
  BY Names DEF P!Hold, PP!Hold, PP!IInv, PP!TypeOK

\* Reading a message for the batch.
LEMMA ReadForBatchKeeps ==
    ASSUME PP!IInv, PP!Custody, NEW m \in Messages, ReadForBatch(m)
    PROVE  PP!IInv' /\ PP!Custody'
<1>1. /\ m \in source /\ source' = source \ {m}
      /\ UNCHANGED <<down, expired, channels, batcher, durable>>
  BY Zenon DEF ReadForBatch, Fetch, Refuse, batcher
<1>2. /\ down \in BOOLEAN
      /\ hand \in [PP!Goroutines -> Messages \cup {Nothing}]
      /\ eventCh \in Seq(Messages) /\ Len(eventCh) <= EventCap /\ eventClosed \in BOOLEAN
      /\ PP!TypeOK
  BY DEF PP!IInv, PP!TypeOK
<1>3. \/ UNCHANGED <<pc, hand>>
      \/ PP!Goto(Reader, "done") /\ UNCHANGED hand
      \/ (PP!Goto(Reader, "handoff") \/ PP!Goto(Reader, "record")) /\ P!Hold(Reader, m)
  BY SameOperators, SequentialAssumption DEF ReadForBatch, Refuse
<1>4. PP!IInv'
  <2>1. CASE UNCHANGED <<pc, hand>>
    BY <1>1, <1>2, <2>1, NobodyMoves DEF channels
  <2>2. CASE PP!Goto(Reader, "done") /\ UNCHANGED hand
    BY <1>1, <1>2, <2>2, ReaderMoves, Names DEF channels
  <2>3. CASE (PP!Goto(Reader, "handoff") \/ PP!Goto(Reader, "record")) /\ P!Hold(Reader, m)
    BY <1>1, <1>2, <2>3, ReaderMoves, Holding, Names DEF channels
  <2> QED
    BY <1>3, <2>1, <2>2, <2>3
<1>5. PP!Custody'
  <2>1. UNCHANGED <<eventCh, batch, acked, deliveryCh>>
    BY <1>1 DEF channels, batcher, durable
  <2>2. UNCHANGED hand \/ PP!Hold(Reader, m)
    BY <1>3, Holding
  <2>3. PP!Distinct(deliveryCh)
    BY DEF PP!Custody, PP!SlotsApart
  <2> QED
    BY <1>1, <1>2, <2>1, <2>2, <2>3, PoolAssumed, Names, PP!TakingOne
<1> QED
  BY <1>4, <1>5

\* Sending an event to the batcher.
LEMMA SendEventKeeps ==
    ASSUME PP!IInv, PP!Custody, SendEvent
    PROVE  PP!IInv' /\ PP!Custody'
<1>1. /\ pc[Reader] = "handoff" /\ Len(eventCh) < EventCap
      /\ eventCh' = Append(eventCh, hand[Reader])
      /\ UNCHANGED <<down, source, expired, deliveryCh, eventClosed, batcher, durable>>
  BY DEF SendEvent
<1>2. /\ PP!TypeOK /\ down \in BOOLEAN /\ hand[Reader] \in Messages
      /\ eventCh \in Seq(Messages) /\ Len(eventCh) \in Nat
  BY <1>1, LenProperties DEF PP!IInv, PP!TypeOK, PP!WorkInHand
<1>3. \/ PP!Goto(Reader, "done") /\ P!Hold(Reader, Nothing)
      \/ PP!Goto(Reader, "fetch") /\ P!Hold(Reader, Nothing)
  BY SameOperators DEF SendEvent, P!Continue, P!LoopHead
<1>4. eventCh' \in Seq(Messages) /\ Len(eventCh') = Len(eventCh) + 1
  BY <1>1, <1>2, AppendProperties
<1>5. Len(eventCh') <= EventCap
  BY <1>1, <1>2, <1>4, SequentialAssumption
<1>6. PP!IInv'
  BY <1>1, <1>2, <1>3, <1>4, <1>5, ReaderMoves, Holding, Names
<1>7. PP!Custody'
  <2>1. PP!Hold(Reader, Nothing) /\ UNCHANGED <<source, batch, acked, deliveryCh>>
    BY <1>1, <1>3, Holding DEF batcher, durable
  <2> QED
    BY <1>1, <1>2, <2>1, PoolAssumed, Names, PP!HandingOn
<1> QED
  BY <1>6, <1>7

\* The goroutine of single mode takes a message straight from the adapter.
LEMMA TakingIntoBatch ==
    ASSUME PP!TypeOK, PP!Custody, NEW m \in source, source' = source \ {m}, batch' = <<m>>,
           UNCHANGED <<deliveryCh, eventCh, acked, hand>>
    PROVE  PP!Custody'
<1> DEFINE D == PP!Elements(deliveryCh)
           E == PP!Elements(eventCh)
<1>1. PP!Elements(<<m>>) = {m} /\ PP!Distinct(<<m>>)
  BY DEF PP!Elements, PP!Distinct
<1>2. /\ PP!Elements(deliveryCh)' = D /\ PP!Elements(eventCh)' = E
      /\ PP!Elements(batch)' = {m}
  BY <1>1 DEF PP!Elements
<1>3. /\ m \notin D \cup E \cup acked
      /\ \A g \in PP!Goroutines : hand[g] # m
  BY DEF PP!Custody, PP!NoneTaken
<1> HIDE DEF D, E
<1>4. PP!HandsApart' /\ PP!SlotsApart'
  BY <1>1 DEF PP!Custody, PP!HandsApart, PP!SlotsApart
<1>5. PP!PlacesApart'
  BY <1>2, <1>3 DEF PP!Custody, PP!PlacesApart, D, E
<1>6. PP!NoneTaken'
  BY <1>2, <1>3 DEF PP!Custody, PP!NoneTaken, D, E
<1> QED
  BY <1>4, <1>5, <1>6 DEF PP!Custody

\* What a batch of one, and an empty one, are.
LEMMA SmallBatches ==
    ASSUME NEW m \in Messages
    PROVE  /\ <<m>> \in Seq(Messages) /\ Len(<<m>>) = 1 /\ <<m>> # <<>>
           /\ Head(<<m>>) = m /\ PP!Elements(<<m>>) = {m}
           /\ <<>> \in Seq(Messages) /\ Len(<<>>) = 0 /\ PP!Elements(<<>>) = {}
           /\ 1 <= BatchSize /\ 0 < BatchSize
  BY SequentialAssumption DEF PP!Elements

\* Reading a message in single mode.
LEMMA SingleReadKeeps ==
    ASSUME PP!IInv, PP!Custody, NEW m \in Messages, SingleRead(m)
    PROVE  PP!IInv' /\ PP!Custody'
<1>1. /\ pc[Batcher] = "collect" /\ m \in source /\ source' = source \ {m}
      /\ UNCHANGED <<down, expired, hand, channels, phase, durable>>
  BY SequentialAssumption DEF SingleRead, Fetch, Refuse
<1>2. /\ PP!TypeOK /\ down \in BOOLEAN /\ batch \in Seq(Messages) /\ Len(batch) <= BatchSize
      /\ last \in BOOLEAN /\ attempt \in 0 .. PP!maxStoreAttempts - 1
      /\ eventClosed \in BOOLEAN /\ 0 \in 0 .. PP!maxStoreAttempts - 1
  BY DEF PP!IInv, PP!TypeOK, PP!maxStoreAttempts
<1>3. \/ /\ PP!Goto(Batcher, "store") /\ batch' = <<m>>
         /\ last' = FALSE /\ attempt' = 0
      \/ PP!Goto(Batcher, "record") /\ batch' = <<m>> /\ UNCHANGED <<last, attempt>>
      \/ PP!Goto(Batcher, "done") /\ UNCHANGED <<batch, last, attempt>>
      \/ UNCHANGED <<pc, batch, last, attempt>>
  BY SameOperators, SequentialAssumption, SmallBatches DEF SingleRead, Refuse, P!Flush
<1>4. PP!IInv'
  <2>0. <<m>> \in Seq(Messages) /\ Len(<<m>>) <= BatchSize /\ <<m>> # <<>>
    BY SmallBatches
  <2>1. CASE \/ /\ PP!Goto(Batcher, "store") /\ batch' = <<m>>
                /\ last' = FALSE /\ attempt' = 0
             \/ PP!Goto(Batcher, "record") /\ batch' = <<m>> /\ UNCHANGED <<last, attempt>>
    <3>1. batch' = <<m>> /\ last' \in BOOLEAN /\ attempt' \in 0 .. PP!maxStoreAttempts - 1
      BY <1>2, <2>1
    <3>2. PICK s \in {"store", "record"} : PP!Goto(Batcher, s)
      BY <2>1
    <3>3. s \in PP!BatcherStates \ {"ack", "ackStored"} /\ s # "collect"
      BY Names
    <3> QED
      BY <1>1, <1>2, <2>0, <3>1, <3>2, <3>3, BatcherMoves
  <2>2. CASE PP!Goto(Batcher, "done") /\ UNCHANGED <<batch, last, attempt>>
    BY <1>1, <1>2, <2>2, BatcherMoves, Names
  <2>3. CASE UNCHANGED <<pc, batch, last, attempt>>
    BY <1>1, <1>2, <2>3, NobodyMoves DEF channels, batcher
  <2> QED
    BY <1>3, <2>1, <2>2, <2>3
<1>5. PP!Custody'
  <2>1. UNCHANGED <<eventCh, deliveryCh, acked, hand>>
    BY <1>1 DEF channels, durable
  <2>2. CASE batch' = <<m>>
    BY <1>1, <1>2, <2>1, <2>2, TakingIntoBatch
  <2>3. CASE UNCHANGED batch
    <3>1. PP!Distinct(deliveryCh)
      BY DEF PP!Custody, PP!SlotsApart
    <3> QED
      BY <1>1, <1>2, <2>1, <2>3, <3>1, PoolAssumed, Names, PP!TakingOne
  <2> QED
    BY <1>3, <2>2, <2>3
<1> QED
  BY <1>4, <1>5

\* The steps that neither fetch nor send.
LEMMA OtherStepsKeep ==
    ASSUME PP!IInv, PP!Custody,
           SinglePollCancelled \/ GiveUp \/ Condemn \/ CloseEvents
    PROVE  PP!IInv' /\ PP!Custody'
<1>1. /\ PP!TypeOK /\ down \in BOOLEAN
      /\ batch \in Seq(Messages) /\ Len(batch) <= BatchSize
      /\ last \in BOOLEAN /\ attempt \in 0 .. PP!maxStoreAttempts - 1
      /\ 0 \in 0 .. PP!maxStoreAttempts - 1
      /\ <<>> \in Seq(Messages) /\ Len(<<>>) = 0 /\ 0 < BatchSize
      /\ PP!Distinct(batch) /\ PP!Distinct(<<>>) /\ PP!Elements(<<>>) = {}
  BY SequentialAssumption DEF PP!IInv, PP!TypeOK, PP!maxStoreAttempts, PP!Custody,
     PP!SlotsApart, PP!Distinct, PP!Elements
<1>2. UNCHANGED <<down, source, expired, hand, deliveryCh, eventCh, phase, durable>>
        /\ batch' \in {batch, <<>>}
  BY DEF SinglePollCancelled, GiveUp, Condemn, CloseEvents, channels, batcher
<1>3. PP!Custody'
  <2>1. UNCHANGED acked /\ PP!Distinct(batch') /\ PP!Elements(batch') \subseteq PP!Elements(batch)
    BY <1>1, <1>2 DEF durable
  <2> QED
    BY <1>1, <1>2, <2>1, PoolAssumed, PP!LettingGo
<1>4. CASE CloseEvents
  <2>1. UNCHANGED <<source, expired, pc, hand, deliveryCh, eventCh, batcher, durable>>
          /\ eventClosed' \in BOOLEAN
    BY <1>4 DEF CloseEvents
  <2> QED
    BY <1>1, <1>2, <1>3, <2>1, NobodyMoves
<1>5. CASE SinglePollCancelled
  <2>1. PP!Goto(Batcher, "done") /\ UNCHANGED <<source, expired, hand, channels, batcher, durable>>
    BY <1>5, SameOperators DEF SinglePollCancelled
  <2> QED
    BY <1>1, <1>2, <1>3, <2>1, BatcherMoves, Names DEF batcher
<1>6. CASE GiveUp
  <2>1. /\ PP!Goto(Batcher, "done") \/ PP!Goto(Batcher, "collect")
        /\ batch' = <<>> /\ attempt' = 0
        /\ UNCHANGED <<source, expired, hand, channels, phase, last, durable>>
    BY <1>6, SameOperators DEF GiveUp
  <2>2. PICK s \in {"done", "collect"} : PP!Goto(Batcher, s)
    BY <2>1
  <2>3. s \in PP!BatcherStates \ {"ack", "ackStored"} /\ s \notin {"store", "backoff", "record"}
    BY Names
  <2>4. /\ batch' \in Seq(Messages) /\ Len(batch') <= BatchSize /\ Len(batch') < BatchSize
        /\ last' \in BOOLEAN /\ attempt' \in 0 .. PP!maxStoreAttempts - 1
    BY <1>1, <2>1, SequentialAssumption
  <2> QED
    BY <1>1, <1>2, <1>3, <2>1, <2>2, <2>3, <2>4, BatcherMoves
<1>7. CASE Condemn
  <2>1. /\ UNCHANGED <<source, expired, hand, channels, phase, last, durable>>
        /\ \/ PP!Goto(Batcher, "done") /\ batch' = <<>> /\ attempt' = 0
           \/ PP!Goto(Batcher, "record") /\ UNCHANGED <<batch, attempt>>
    BY <1>7, SameOperators DEF Condemn
  <2>2. batch # <<>>
    BY <1>7 DEF Condemn, PP!IInv, PP!FlushHasWork
  <2>3. PICK s \in {"done", "record"} : PP!Goto(Batcher, s) /\ (s = "record" => batch' = batch)
    BY <2>1
  <2>4. s \in PP!BatcherStates \ {"ack", "ackStored"} /\ s \notin {"store", "backoff", "collect"}
    BY Names
  <2>5. batch' \in Seq(Messages) /\ Len(batch') <= BatchSize
    <3>1. CASE batch' = batch
      BY <1>1, <3>1
    <3>2. CASE batch' = <<>>
      BY <1>1, <3>2, SequentialAssumption
    <3> QED
      BY <1>2, <3>1, <3>2
  <2>6. last' \in BOOLEAN /\ attempt' \in 0 .. PP!maxStoreAttempts - 1
    BY <1>1, <2>1, Zenon
  <2> QED
    BY <1>1, <1>2, <1>3, <2>1, <2>2, <2>3, <2>4, <2>5, <2>6, BatcherMoves
<1> QED
  BY <1>4, <1>5, <1>6, <1>7

\* A panic leaves everything but the message it struck where it was.
LEMMA PanicKeeps ==
    ASSUME PP!IInv, PP!Custody, NEW m \in Messages, Panic(m)
    PROVE  PP!IInv' /\ PP!Custody'
<1>1. /\ m \in source /\ source' = source \ {m} /\ down' = TRUE
      /\ UNCHANGED <<expired, pc, hand, deliveryCh, eventCh, eventClosed, batcher, durable>>
  BY DEF Panic, Fetch, channels
<1>2. PP!TypeOK /\ eventClosed' \in BOOLEAN /\ PP!Distinct(deliveryCh)
  BY <1>1 DEF PP!IInv, PP!TypeOK, PP!Custody, PP!SlotsApart
<1>3. UNCHANGED <<eventCh, deliveryCh, batch, acked, hand>>
  BY <1>1 DEF batcher, durable
<1>4. PP!Custody'
  BY <1>1, <1>2, <1>3, PoolAssumed, Names, PP!TakingOne
<1> QED
  BY <1>1, <1>2, <1>4, NobodyMoves

\* Every step keeps the pool's invariants.
LEMMA PoolKept == PP!IInv /\ PP!Custody /\ [Next]_vars => PP!IInv' /\ PP!Custody'
<1> SUFFICES ASSUME PP!IInv, PP!Custody, [Next]_vars PROVE PP!IInv' /\ PP!Custody'
  OBVIOUS
<1>1. CASE OwnStep
  BY <1>1, ReadForBatchKeeps, SingleReadKeeps, PanicKeeps, SendEventKeeps, OtherStepsKeep
     DEF OwnStep
<1>2. CASE PP!Next
  BY <1>2, PoolAssumed, PP!InductiveStep, PP!CustodyStep
<1>3. CASE UNCHANGED vars
  <2>1. UNCHANGED PP!vars
    BY <1>3 DEF vars, PP!vars, channels, batcher, durable, PP!channels, PP!batcher, PP!durable
  <2> QED
    BY <2>1, PoolAssumed, PP!InductiveStep, PP!CustodyStep
<1> QED
  BY <1>1, <1>2, <1>3, StepKinds, PoolStepIsNext DEF Next, Live

\* They hold when Ingest starts, in either mode.
LEMMA PoolInitially == Init => PP!IInv /\ PP!Custody
<1> SUFFICES ASSUME Init PROVE PP!IInv /\ PP!Custody
  OBVIOUS
<1> USE PoolAssumed
<1>1. /\ pc \in [{Reader, Batcher} -> {"fetch", "collect", "done"}]
      /\ pc[Reader] \in {"fetch", "done"} /\ pc[Batcher] = "collect"
  <2>1. P!entry \in [{Reader, Batcher} -> {"fetch", "collect", "done"}]
          /\ P!entry[Reader] = "fetch" /\ P!entry[Batcher] = "collect"
    BY SequentialAssumption DEF P!entry, P!Goroutines
  <2>2. pc = P!entry \/ pc = [P!entry EXCEPT ![Reader] = "done"]
    BY DEF Init
  <2> QED
    BY <2>1, <2>2, SequentialAssumption
<1>2. PP!PcOK
  BY <1>1, Names
<1>3. /\ batch = <<>> /\ eventCh = <<>> /\ deliveryCh = <<>>
      /\ <<>> \in Seq(Messages) /\ Len(<<>>) = 0 /\ 0 < BatchSize /\ 0 < EventCap
  BY SequentialAssumption DEF Init
<1>4. PP!BatcherOK
  <2>1. last \in BOOLEAN /\ phase \in PP!Contexts
    BY DEF Init, PP!Contexts
  <2>2. attempt \in 0 .. PP!maxStoreAttempts - 1
    BY DEF Init, PP!maxStoreAttempts
  <2>3. Len(batch) <= BatchSize
    BY <1>3, SequentialAssumption
  <2> QED
    BY <1>3, <2>1, <2>2, <2>3 DEF PP!BatcherOK
<1>5. PP!RestOK
  <2>1. Len(deliveryCh) <= 1 /\ Len(eventCh) <= EventCap
    BY <1>3, SequentialAssumption
  <2>2. hand \in [PP!Goroutines -> Messages \cup {Nothing}]
    BY Names DEF Init
  <2>3. source \subseteq Messages /\ expired \subseteq PP!Contexts
    BY DEF Init
  <2>4. eventClosed \in BOOLEAN
    BY DEF Init
  <2>5. /\ stored \subseteq Messages
        /\ deadLetters \subseteq {"sqlite", "kafka"} \X Messages
        /\ acked \subseteq Messages /\ ackFailed \subseteq Messages
        /\ afterAck \subseteq Messages /\ down \in BOOLEAN
    BY DEF Init
  <2> QED
    BY <1>3, <2>1, <2>2, <2>3, <2>4, <2>5 DEF PP!RestOK
<1>6. PP!TypeOK
  BY <1>2, <1>4, <1>5 DEF PP!TypeOK, PP!PcOK, PP!BatcherOK, PP!RestOK
<1>7. PP!FlushHasWork /\ PP!BatchHasRoom /\ PP!WorkInHand
  BY <1>1, <1>3 DEF PP!FlushHasWork, PP!BatchHasRoom, PP!WorkInHand
<1>8. PP!RecordedBeforeAck /\ PP!StoredBeforeAck /\ PP!AckedIsDurable
  BY <1>1, Names DEF Init, PP!RecordedBeforeAck, PP!StoredBeforeAck, PP!AckedIsDurable
<1>9. PP!Elements(<<>>) = {} /\ PP!Distinct(<<>>)
  BY DEF PP!Elements, PP!Distinct
<1>10. PP!Custody
  BY <1>3, <1>9, Names
     DEF Init, PP!Custody, PP!HandsApart, PP!SlotsApart, PP!PlacesApart, PP!NoneTaken
<1> QED
  BY <1>6, <1>7, <1>8, <1>10 DEF PP!IInv

\* Both modes keep what the pool keeps: where messages are and what each
\* goroutine has seen written, through panics as well.
THEOREM ModesKeepTheInvariant == Spec => [](PP!IInv /\ PP!Custody)
  BY PoolInitially, PoolKept, PTL DEF Spec

-----------------------------------------------------------------------------
(* The contract of a delivery.                                             *)

\* The contract means the same of the two modes and of the pool.
LEMMA SameContract ==
    /\ P!Contract!Init <=> PP!Contract!Init
    /\ P!Contract!Next <=> PP!Contract!Next
    /\ P!Contract!contractVars = PP!Contract!contractVars
  BY SameOperators, Zenon DEF P!Contract!Init, PP!Contract!Init, P!Contract!Next,
     PP!Contract!Next, P!Contract!contractVars, PP!Contract!contractVars, P!Contract!Fetch,
     PP!Contract!Fetch, P!Contract!Record, PP!Contract!Record, P!Contract!Ack,
     PP!Contract!Ack, P!Contract!Store, PP!Contract!Store, P!Contract!Open, PP!Contract!Open,
     P!recorded, PP!recorded

\* A step of one of the modes hands out a delivery, is one of the pool's, or
\* does not concern the contract.
LEMMA ModeContractStep ==
    ASSUME PP!IInv, PP!Custody, [Next]_vars
    PROVE  [PP!Contract!Next]_(PP!Contract!contractVars)
<1>1. ASSUME NEW m \in source, source' = source \ {m}, UNCHANGED durable
      PROVE  PP!Contract!Next
  <2>1. m \in Messages /\ source \subseteq Messages
    BY DEF PP!IInv, PP!TypeOK
  <2>2. m \notin Messages \ source /\ Messages \ source' = (Messages \ source) \cup {m}
    BY <1>1, <2>1
  <2>3. UNCHANGED <<stored, acked, afterAck>> /\ PP!recorded' = PP!recorded
    BY <1>1 DEF durable, PP!recorded
  <2>4. PP!Contract!Fetch(m)
    BY <2>2, <2>3 DEF PP!Contract!Fetch
  <2> QED
    BY <2>1, <2>4 DEF PP!Contract!Next
<1>2. CASE UNCHANGED <<source, durable>>
  BY <1>2 DEF PP!Contract!contractVars, PP!recorded, durable
<1>3. CASE OwnStep
  <2>1. \/ \E m \in source : source' = source \ {m} /\ UNCHANGED durable
        \/ UNCHANGED <<source, durable>>
    BY <1>3, Zenon DEF OwnStep, ReadForBatch, SingleRead, Panic, SendEvent, CloseEvents,
       SinglePollCancelled, GiveUp, Condemn, Fetch
  <2> QED
    BY <1>1, <1>2, <2>1
<1>4. CASE PP!Next
  <2>1. PP!Contract!Next \/ UNCHANGED <<Messages \ source, stored, PP!recorded, acked, afterAck>>
    BY <1>4, PoolAssumed, PP!ContractStep
  <2> QED
    BY <2>1 DEF PP!Contract!contractVars
<1>5. CASE UNCHANGED vars
  BY <1>2, <1>5 DEF vars
<1> QED
  BY <1>3, <1>4, <1>5, StepKinds, PoolStepIsNext DEF Next, Live

\* Single and batch mode keep the contract the worker pool keeps: a delivery is
\* acked at most once, after its message was stored or recorded, and nothing is
\* written for it afterwards, whatever ingestSingle, handleBatch and the batcher
\* meet on the way, a panic of Transform included.
THEOREM ModesImplementTheContract == Spec => ContractSpec
<1>1. Init => P!Contract!Init
  BY DEF Init, P!Contract!Init, P!recorded
<1>2. PP!IInv /\ PP!Custody /\ [Next]_vars => [P!Contract!Next]_(P!Contract!contractVars)
  BY ModeContractStep, SameContract
     DEF P!Contract!contractVars, PP!Contract!contractVars, P!recorded, PP!recorded
<1> QED
  BY <1>1, <1>2, ModesKeepTheInvariant, PTL DEF Spec, ContractSpec, P!ContractSpec, P!Contract!Spec

-----------------------------------------------------------------------------
(* Only what Transform has accepted is on its way to the store.            *)

OnlyAccepted ==
    /\ PP!Elements(eventCh) \subseteq Accepted
    /\ pc[Reader] = "handoff" => hand[Reader] \in Accepted
    /\ pc[Batcher] \notin {"record", "ack"} => PP!Elements(batch) \subseteq Accepted

\* What the steps do to the things OnlyAccepted speaks of.
SendsOn ==
    \/ eventCh' = eventCh
    \/ eventCh # <<>> /\ eventCh' = Tail(eventCh)
HandsOver ==
    pc'[Reader] = "handoff" => pc[Reader] = "handoff" /\ hand'[Reader] = hand[Reader]
Batches ==
    \/ pc'[Batcher] \in {"record", "ack"}
    \/ batch' = <<>>
    \/ batch' = batch /\ pc[Batcher] \notin {"record", "ack"}
    \/ batch # <<>> /\ batch' = Tail(batch) /\ pc[Batcher] \notin {"record", "ack"}
    \/ /\ eventCh # <<>> /\ batch' = Append(batch, Head(eventCh))
       /\ pc[Batcher] \notin {"record", "ack"}

\* The pool's steps only pass on what has come from the reader.
LEMMA PoolPassesOn ==
    ASSUME PP!IInv, PoolStep
    PROVE  SendsOn /\ HandsOver /\ Batches
<1> USE Names
<1>1. PP!PcOK /\ PP!Shape /\ hand \in [PP!Goroutines -> Messages \cup {Nothing}]
        /\ batch \in Seq(Messages)
  BY PP!TypeParts DEF PP!IInv, PP!Shape, PP!TypeOK
<1>2. ASSUME NEW s, PP!Goto(Reader, s)
      PROVE  pc'[Reader] = s /\ pc'[Batcher] = pc[Batcher]
  BY <1>1, <1>2 DEF PP!Goto
<1>3. ASSUME NEW s, PP!Goto(Batcher, s)
      PROVE  pc'[Batcher] = s /\ pc'[Reader] = pc[Reader]
  BY <1>1, <1>3 DEF PP!Goto
<1>4. CASE PP!PollCancelled \/ PP!Cancel \/ PP!Deadline
  <2>1. UNCHANGED <<hand, eventCh, batch>> /\ (UNCHANGED pc \/ PP!Goto(Reader, "done"))
    BY <1>4 DEF PP!PollCancelled, PP!Cancel, PP!Deadline, PP!channels, PP!batcher
  <2> QED
    BY <1>2, <2>1 DEF SendsOn, HandsOver, Batches
<1>5. CASE PP!BatcherStep
  <2>1. UNCHANGED hand /\ pc[Batcher] \in {"collect", "store", "backoff"}
    BY <1>5 DEF PP!BatcherStep, PP!Collect, PP!EventsClosed, PP!Tick, PP!StartDrain,
       PP!DrainExpires, PP!StoreSucceeds, PP!StoreFailsTransiently, PP!StoreFailsTerminally,
       PP!BackoffElapses, PP!BackoffCancelled
  <2>2. UNCHANGED pc \/ \E s : PP!Goto(Batcher, s)
    BY <1>5, Zenon DEF PP!BatcherStep, PP!Collect, PP!EventsClosed, PP!Tick, PP!StartDrain,
       PP!DrainExpires, PP!StoreSucceeds, PP!StoreFailsTransiently, PP!StoreFailsTerminally,
       PP!BackoffElapses, PP!BackoffCancelled, PP!Flush, PP!FlushReturns
  <2>3. \/ eventCh' = eventCh /\ batch' \in {batch, <<>>}
        \/ eventCh # <<>> /\ eventCh' = Tail(eventCh) /\ batch' = Append(batch, Head(eventCh))
    BY <1>5 DEF PP!BatcherStep, PP!Collect, PP!EventsClosed, PP!Tick, PP!StartDrain,
       PP!DrainExpires, PP!StoreSucceeds, PP!StoreFailsTransiently, PP!StoreFailsTerminally,
       PP!BackoffElapses, PP!BackoffCancelled, PP!Flush, PP!FlushReturns, PP!channels,
       PP!batcher
  <2>4. HandsOver
    BY <1>3, <2>1, <2>2 DEF HandsOver
  <2> QED
    BY <2>1, <2>3, <2>4 DEF SendsOn, Batches
<1>6. ASSUME NEW g \in PP!Goroutines, NEW s \in {"record", "ackStored"}, PP!NextDelivery(g, s),
             pc[g] \in {"record", "ack", "ackStored"}, s = "ackStored" => pc[g] = "ackStored"
      PROVE  HandsOver /\ Batches
  <2>1. CASE g = Reader
    <3>1. PP!Goto(Reader, PP!LoopHead(Reader)) /\ UNCHANGED batch
      BY <1>6, <2>1 DEF PP!NextDelivery, PP!Continue, PP!batcher
    <3>2. PP!LoopHead(Reader) \in {"done", "fetch"}
      BY DEF PP!LoopHead
    <3> QED
      BY <1>2, <3>1, <3>2 DEF HandsOver, Batches
  <2>2. CASE g = Batcher
    <3>1. UNCHANGED hand
      BY <1>6, <2>2 DEF PP!NextDelivery
    <3>2. CASE Len(batch) > 1
      <4>1. batch' = Tail(batch) /\ PP!Goto(Batcher, s)
        BY <1>6, <2>2, <3>2 DEF PP!NextDelivery
      <4>2. batch # <<>>
        BY <1>1, <3>2, EmptySeq
      <4> QED
        BY <1>3, <1>6, <2>2, <3>1, <4>1, <4>2 DEF HandsOver, Batches
    <3>3. CASE ~(Len(batch) > 1)
      <4>1. batch' = <<>> /\ \E x : PP!Goto(Batcher, x)
        BY <1>6, <2>2, <3>3 DEF PP!NextDelivery, PP!FlushReturns
      <4> QED
        BY <1>3, <3>1, <4>1 DEF HandsOver, Batches
    <3> QED
      BY <3>2, <3>3
  <2> QED
    BY <2>1, <2>2
<1>7. ASSUME NEW g \in PP!Goroutines, PP!SharedStep(g)
      PROVE  SendsOn /\ HandsOver /\ Batches
  <2>1. SendsOn
    BY <1>7 DEF SendsOn, PP!SharedStep, PP!HandoffCancelled, PP!StoreFailure,
       PP!StoreFailureFails, PP!Ack, PP!channels
  <2>2. CASE PP!HandoffCancelled(g)
    <3>1. g = Reader /\ PP!Goto(Reader, "done") /\ UNCHANGED batch
      BY <2>2 DEF PP!HandoffCancelled, PP!batcher
    <3> QED
      BY <1>2, <2>1, <3>1 DEF HandsOver, Batches
  <2>3. CASE PP!StoreFailure(g)
    <3>1. PP!Goto(g, "ack") /\ UNCHANGED <<hand, batch>>
      BY <2>3 DEF PP!StoreFailure, PP!batcher
    <3>2. CASE g = Reader
      BY <1>2, <2>1, <3>1, <3>2 DEF HandsOver, Batches
    <3>3. CASE g = Batcher
      BY <1>3, <2>1, <3>1, <3>3 DEF HandsOver, Batches
    <3> QED
      BY <3>2, <3>3
  <2>4. CASE PP!StoreFailureFails(g)
    BY <1>6, <2>1, <2>4 DEF PP!StoreFailureFails
  <2>5. CASE PP!Ack(g)
    BY <1>6, <2>1, <2>5 DEF PP!Ack
  <2> QED
    BY <1>7, <2>2, <2>3, <2>4, <2>5 DEF PP!SharedStep
<1> QED
  BY <1>4, <1>5, <1>7 DEF PoolStep

\* Passing on what is accepted keeps it accepted.
LEMMA PassingOnKeeps ==
    ASSUME PP!IInv, OnlyAccepted, SendsOn, HandsOver, Batches
    PROVE  OnlyAccepted'
<1> USE PoolAssumed
<1>1. eventCh \in Seq(Messages) /\ batch \in Seq(Messages)
  BY DEF PP!IInv, PP!TypeOK
<1>2. PP!Elements(eventCh)' = PP!Elements(eventCh') /\ PP!Elements(batch)' = PP!Elements(batch')
  BY DEF PP!Elements
<1>3. ASSUME eventCh # <<>>
      PROVE  /\ PP!Elements(Tail(eventCh)) \subseteq Accepted
             /\ Head(eventCh) \in Accepted /\ Head(eventCh) \in Messages
  <2>1. Head(eventCh) \in PP!Elements(eventCh) /\ PP!Elements(Tail(eventCh)) \subseteq PP!Elements(eventCh)
    BY <1>1, <1>3, PP!TailElements
  <2> QED
    BY <2>1 DEF OnlyAccepted, Accepted
<1>4. PP!Elements(eventCh') \subseteq Accepted
  BY <1>3 DEF OnlyAccepted, SendsOn
<1>5. pc'[Reader] = "handoff" => hand'[Reader] \in Accepted
  BY DEF OnlyAccepted, HandsOver
<1>6. ASSUME pc'[Batcher] \notin {"record", "ack"}
      PROVE  PP!Elements(batch') \subseteq Accepted
  <2>1. CASE batch' = <<>>
    BY <2>1 DEF PP!Elements
  <2>2. CASE batch' = batch /\ pc[Batcher] \notin {"record", "ack"}
    BY <2>2 DEF OnlyAccepted
  <2>3. CASE batch # <<>> /\ batch' = Tail(batch) /\ pc[Batcher] \notin {"record", "ack"}
    <3>1. PP!Elements(Tail(batch)) \subseteq PP!Elements(batch)
      BY <1>1, <2>3, PP!TailElements
    <3> QED
      BY <2>3, <3>1 DEF OnlyAccepted
  <2>4. CASE eventCh # <<>> /\ batch' = Append(batch, Head(eventCh)) /\ pc[Batcher] \notin {"record", "ack"}
    <3>1. Head(eventCh) \in Accepted /\ Head(eventCh) \in Messages
      BY <1>3, <2>4
    <3>2. PP!Elements(Append(batch, Head(eventCh))) = PP!Elements(batch) \cup {Head(eventCh)}
      BY <1>1, <3>1, PP!AppendDistinct
    <3> QED
      BY <2>4, <3>1, <3>2 DEF OnlyAccepted
  <2> QED
    BY <1>6, <2>1, <2>2, <2>3, <2>4 DEF Batches
<1> QED
  BY <1>2, <1>4, <1>5, <1>6 DEF OnlyAccepted, Accepted, kind

\* The modes' own steps let only accepted messages through.
LEMMA OwnStepsAccept ==
    ASSUME PP!IInv, OnlyAccepted, OwnStep
    PROVE  OnlyAccepted'
<1> USE Names
<1>1. /\ pc \in [{Reader, Batcher} -> PP!PollerStates \cup PP!WorkerStates \cup PP!BatcherStates]
      /\ eventCh \in Seq(Messages) /\ hand \in [PP!Goroutines -> Messages \cup {Nothing}]
  BY DEF PP!IInv, PP!TypeOK
<1>2. ASSUME NEW s, P!Goto(Reader, s)
      PROVE  pc'[Reader] = s /\ pc'[Batcher] = pc[Batcher]
  BY <1>1, <1>2 DEF P!Goto
<1>3. ASSUME NEW s, P!Goto(Batcher, s)
      PROVE  pc'[Batcher] = s /\ pc'[Reader] = pc[Reader]
  BY <1>1, <1>3 DEF P!Goto
<1>4. ASSUME SendsOn, HandsOver, Batches PROVE OnlyAccepted'
  BY <1>4, PassingOnKeeps
<1>5. ASSUME NEW m \in Messages, ReadForBatch(m) PROVE OnlyAccepted'
  <2>1. UNCHANGED <<eventCh, batch>>
    BY <1>5, Zenon DEF ReadForBatch, Refuse, channels
  <2>2. CASE kind[m] = "good" /\ P!Goto(Reader, "handoff") /\ P!Hold(Reader, m)
    <3>1. hand'[Reader] = m /\ m \in Accepted
      BY <1>1, <2>2 DEF P!Hold, Accepted
    <3> QED
      BY <1>2, <2>1, <2>2, <3>1 DEF OnlyAccepted, PP!Elements, Accepted, kind
  <2>3. CASE Refuse(Reader, m)
    <3>1. (UNCHANGED pc /\ UNCHANGED hand) \/ \E s \in {"done", "record"} : P!Goto(Reader, s)
      BY <2>3 DEF Refuse
    <3>2. pc'[Reader] # "handoff" \/ UNCHANGED <<pc, hand>>
      BY <1>2, <3>1
    <3>3. pc'[Batcher] = pc[Batcher]
      BY <1>2, <3>1
    <3> QED
      BY <1>4, <2>1, <3>2, <3>3 DEF SendsOn, HandsOver, Batches
  <2> QED
    BY <1>5, <2>2, <2>3 DEF ReadForBatch
<1>6. ASSUME NEW m \in Messages, SingleRead(m) PROVE OnlyAccepted'
  <2>1. UNCHANGED <<eventCh, hand>> /\ pc[Batcher] = "collect"
    BY <1>6 DEF SingleRead, Refuse, channels
  <2>2. CASE kind[m] = "good" /\ P!Flush(<<m>>, FALSE)
    <3>1. \E s : P!Goto(Batcher, s)
      BY <2>2 DEF P!Flush
    <3>2. batch' = <<m>> /\ m \in Accepted
      BY <2>2 DEF P!Flush, Accepted
    <3>3. PP!Elements(batch') = {m} /\ pc'[Reader] = pc[Reader]
      BY <1>3, <3>1, <3>2, SmallBatches
    <3> QED
      BY <2>1, <3>2, <3>3 DEF OnlyAccepted, PP!Elements, Accepted, kind
  <2>3. CASE Refuse(Batcher, m)
    <3>1. \/ UNCHANGED <<pc, batch>>
          \/ P!Goto(Batcher, "done") /\ UNCHANGED batch
          \/ P!Goto(Batcher, "record")
      BY <2>3 DEF Refuse
    <3>2. pc'[Reader] = pc[Reader] /\ (pc'[Batcher] = "record" \/ batch' = batch)
      BY <1>3, <3>1
    <3> QED
      BY <1>4, <2>1, <3>2 DEF SendsOn, HandsOver, Batches
  <2> QED
    BY <1>6, <2>2, <2>3 DEF SingleRead
<1>7. ASSUME SendEvent PROVE OnlyAccepted'
  <2>1. /\ eventCh' = Append(eventCh, hand[Reader]) /\ pc[Reader] = "handoff" /\ UNCHANGED batch
        /\ P!Goto(Reader, P!LoopHead(Reader)) /\ P!LoopHead(Reader) # "handoff"
    BY <1>7 DEF SendEvent, P!Continue, P!LoopHead, batcher
  <2>2. hand[Reader] \in Messages /\ hand[Reader] \in Accepted
    BY <2>1 DEF OnlyAccepted, Accepted
  <2>3. PP!Elements(eventCh') = PP!Elements(eventCh) \cup {hand[Reader]}
    BY <1>1, <2>1, <2>2, PoolAssumed, PP!AppendDistinct
  <2>4. pc'[Reader] # "handoff" /\ pc'[Batcher] = pc[Batcher]
    BY <1>2, <2>1
  <2> QED
    BY <2>1, <2>2, <2>3, <2>4 DEF OnlyAccepted, PP!Elements, Accepted, kind
<1>8. ASSUME \/ \E m \in Messages : Panic(m)
             \/ CloseEvents \/ SinglePollCancelled \/ GiveUp \/ Condemn
      PROVE  OnlyAccepted'
  <2>1. UNCHANGED <<eventCh, hand>> /\ (UNCHANGED pc \/ \E s : P!Goto(Batcher, s))
    BY <1>8, Zenon DEF Panic, CloseEvents, SinglePollCancelled, GiveUp, Condemn, channels
  <2>2. \/ UNCHANGED <<pc, batch>> \/ batch' = <<>>
        \/ pc[Batcher] \in {"collect", "store"} /\ UNCHANGED batch
    BY <1>8 DEF Panic, CloseEvents, SinglePollCancelled, GiveUp, Condemn, batcher
  <2>3. pc'[Reader] = pc[Reader]
    BY <1>3, <2>1
  <2> QED
    BY <1>4, <2>1, <2>2, <2>3 DEF SendsOn, HandsOver, Batches
<1> QED
  BY <1>5, <1>6, <1>7, <1>8 DEF OwnStep

LEMMA AcceptedInitially == Init => OnlyAccepted
<1> SUFFICES ASSUME Init PROVE OnlyAccepted
  OBVIOUS
<1>1. pc[Reader] # "handoff"
  BY Names DEF Init, P!entry, P!Goroutines
<1>2. PP!Elements(<<>>) = {}
  BY DEF PP!Elements
<1> QED
  BY <1>1, <1>2 DEF Init, OnlyAccepted

LEMMA AcceptedKept ==
    ASSUME PP!IInv, OnlyAccepted, [Next]_vars
    PROVE  OnlyAccepted'
<1>1. CASE OwnStep
  BY <1>1, OwnStepsAccept
<1>2. CASE PoolStep
  BY <1>2, PoolPassesOn, PassingOnKeeps
<1>3. CASE UNCHANGED vars
  BY <1>3 DEF vars, channels, batcher, OnlyAccepted, PP!Elements, Accepted, kind
<1> QED
  BY <1>1, <1>2, <1>3, StepKinds DEF Next, Live

-----------------------------------------------------------------------------
(* The table: one row for each key of what was stored.                     *)

Keyed ==
    /\ stored \subseteq Accepted
    /\ table \subseteq stored
    /\ \A m \in stored : \E r \in table : eventID[r] = eventID[m]
    /\ \A r, s \in table : eventID[r] = eventID[s] => r = s

\* Natural numbers have a least one in every set that is not empty.
LEMMA LeastIndex ==
    ASSUME NEW T, T \subseteq Nat, T # {}
    PROVE  \E x \in T : \A y \in T : x <= y
<1> DEFINE R == OpToRel(<, Nat)
<1>1. IsWellFoundedOn(R, Nat)
  BY NatLessThanWellFounded
<1>2. \A x, y \in Nat : y < x => <<y, x>> \in R
  BY DEF OpToRel
<1> HIDE DEF R
<1>3. PICK x \in T : \A y \in T : ~ (<<y, x>> \in R)
  BY <1>1, WFMin
<1>4. ASSUME NEW y \in T PROVE x <= y
  <2>1. x \in Nat /\ y \in Nat /\ ~ (<<y, x>> \in R)
    BY <1>3
  <2>2. ~ (y < x)
    BY <1>2, <2>1
  <2> QED
    BY <2>1, <2>2
<1> QED
  BY <1>4

\* INSERT OR IGNORE of a batch leaves one row for each key of the table and the
\* batch, and only rows of either.
LEMMA RowsOfBatch ==
    ASSUME Keyed, NEW ms \in Seq(Messages)
    PROVE  /\ table \subseteq Rows(ms) /\ Rows(ms) \subseteq table \cup PP!Elements(ms)
           /\ \A m \in PP!Elements(ms) : \E r \in Rows(ms) : eventID[r] = eventID[m]
           /\ \A r, s \in Rows(ms) : eventID[r] = eventID[s] => r = s
<1> DEFINE First == {j \in DOMAIN ms :
              \A m \in table \cup {ms[k] : k \in 1 .. j - 1} : eventID[m] # eventID[ms[j]]}
<1>1. Rows(ms) = table \cup {ms[i] : i \in First}
  BY DEF Rows
<1>2. DOMAIN ms = 1 .. Len(ms) /\ Len(ms) \in Nat
  OBVIOUS
<1>3. First \subseteq DOMAIN ms
  OBVIOUS
<1>4. PP!Elements(ms) = {ms[i] : i \in DOMAIN ms}
  BY <1>2 DEF PP!Elements
<1>5. ASSUME NEW j \in First, NEW r \in table PROVE eventID[r] # eventID[ms[j]]
  OBVIOUS
<1>6. ASSUME NEW j \in First, NEW i \in DOMAIN ms, i < j PROVE eventID[ms[i]] # eventID[ms[j]]
  <2>1. i \in 1 .. j - 1
    BY <1>2, <1>3, <1>6
  <2> QED
    BY <2>1
<1>7. ASSUME NEW i \in DOMAIN ms PROVE \E r \in Rows(ms) : eventID[r] = eventID[ms[i]]
  <2> DEFINE T == {j \in DOMAIN ms : eventID[ms[j]] = eventID[ms[i]]}
  <2>1. T \subseteq Nat /\ T # {}
    BY <1>2
  <2>2. PICK j \in T : \A y \in T : j <= y
    BY <2>1, LeastIndex
  <2>3. CASE \E r \in table : eventID[r] = eventID[ms[i]]
    BY <1>1, <2>3
  <2>4. CASE ~ \E r \in table : eventID[r] = eventID[ms[i]]
    <3>1. j \in DOMAIN ms /\ eventID[ms[j]] = eventID[ms[i]]
      OBVIOUS
    <3>2. ASSUME NEW k \in 1 .. j - 1 PROVE eventID[ms[k]] # eventID[ms[j]]
      <4>1. k \in DOMAIN ms /\ ~ (j <= k)
        BY <1>2, <3>1
      <4> QED
        BY <2>2, <3>1, <4>1
    <3>3. j \in First
      BY <2>4, <3>1, <3>2
    <3> HIDE DEF First
    <3> QED
      BY <1>1, <3>1, <3>3
  <2> QED
    BY <2>3, <2>4
<1> HIDE DEF First
<1>8. table \subseteq Rows(ms) /\ Rows(ms) \subseteq table \cup PP!Elements(ms)
  BY <1>1, <1>3, <1>4
<1>9. \A m \in PP!Elements(ms) : \E r \in Rows(ms) : eventID[r] = eventID[m]
  BY <1>4, <1>7
<1>10. ASSUME NEW i \in First, NEW j \in First, eventID[ms[i]] = eventID[ms[j]] PROVE i = j
  <2>1. i \in Int /\ j \in Int
    BY <1>2, <1>3
  <2>2. ~ (i < j) /\ ~ (j < i)
    BY <1>3, <1>6, <1>10
  <2> QED
    BY <2>1, <2>2
<1>11. ASSUME NEW r \in Rows(ms), NEW s \in Rows(ms), eventID[r] = eventID[s] PROVE r = s
  <2>1. CASE r \in table /\ s \in table
    BY <1>11, <2>1 DEF Keyed
  <2>2. CASE r \notin table \/ s \notin table
    BY <1>1, <1>5, <1>10, <1>11, <2>2
  <2> QED
    BY <2>1, <2>2
<1> QED
  BY <1>8, <1>9, <1>11

\* Only a store call that succeeds changes what is stored.
LEMMA StoreWrites ==
    Work => \/ stored' = stored
            \/ pc[Batcher] = "store" /\ stored' = stored \cup PP!Elements(batch)
<1> SUFFICES ASSUME Work
             PROVE  \/ stored' = stored
                    \/ pc[Batcher] = "store" /\ stored' = stored \cup PP!Elements(batch)
  OBVIOUS
<1>1. CASE OwnStep
  BY <1>1, Zenon DEF OwnStep, ReadForBatch, SingleRead, Panic, SendEvent, CloseEvents,
     SinglePollCancelled, GiveUp, Condemn, durable
<1>2. CASE PP!BatcherStep
  BY <1>2, Zenon DEF PP!BatcherStep, PP!Collect, PP!EventsClosed, PP!Tick, PP!StartDrain,
     PP!DrainExpires, PP!StoreSucceeds, PP!StoreFailsTransiently, PP!StoreFailsTerminally,
     PP!BackoffElapses, PP!BackoffCancelled, PP!durable
<1>3. CASE PP!PollCancelled \/ PP!Cancel \/ PP!Deadline
  BY <1>3, Zenon DEF PP!PollCancelled, PP!Cancel, PP!Deadline, PP!durable
<1>4. CASE \E g \in PP!Goroutines : PP!SharedStep(g)
  BY <1>4, Zenon DEF PP!SharedStep, PP!HandoffCancelled, PP!StoreFailure,
     PP!StoreFailureFails, PP!Ack, PP!durable
<1> QED
  BY <1>1, <1>2, <1>3, <1>4, StepKinds DEF PoolStep

LEMMA KeyedKept ==
    ASSUME PP!IInv, OnlyAccepted, Keyed, [Next]_vars
    PROVE  Keyed'
<1>1. batch \in Seq(Messages)
  BY DEF PP!IInv, PP!TypeOK
<1>2. CASE UNCHANGED <<stored, table>>
  BY <1>2 DEF Keyed, Accepted, kind, eventID
<1>3. CASE Live(Work) /\ stored' # stored
  <2>1. pc[Batcher] = "store" /\ stored' = stored \cup PP!Elements(batch) /\ table' = Rows(batch)
    BY <1>3, StoreWrites DEF Live
  <2>2. PP!Elements(batch) \subseteq Accepted
    BY <2>1 DEF OnlyAccepted
  <2>3. /\ table \subseteq table' /\ table' \subseteq table \cup PP!Elements(batch)
        /\ \A m \in PP!Elements(batch) : \E r \in table' : eventID[r] = eventID[m]
        /\ \A r, s \in table' : eventID[r] = eventID[s] => r = s
    BY <1>1, <2>1, RowsOfBatch
  <2>4. stored' \subseteq Accepted /\ table' \subseteq stored'
    BY <2>1, <2>2, <2>3 DEF Keyed
  <2>5. \A m \in stored' : \E r \in table' : eventID[r] = eventID[m]
    BY <2>1, <2>3 DEF Keyed
  <2> QED
    BY <2>3, <2>4, <2>5 DEF Keyed, Accepted, kind, eventID
<1>4. CASE Live(Work) /\ stored' = stored
  BY <1>2, <1>4 DEF Live
<1>5. CASE UNCHANGED vars
  BY <1>2, <1>5 DEF vars, durable
<1> QED
  BY <1>3, <1>4, <1>5 DEF Next

\* What is in the table, in either mode and after every step: rows of accepted
\* messages, one for each key that was stored.
THEOREM TableIsKeyed == Spec => []Keyed
<1>1. Init => Keyed
  BY DEF Init, Keyed
<1>2. PP!IInv /\ OnlyAccepted /\ Keyed /\ [Next]_vars => OnlyAccepted' /\ Keyed'
  BY AcceptedKept, KeyedKept
<1> QED
  BY <1>1, <1>2, AcceptedInitially, ModesKeepTheInvariant, PTL DEF Spec

\* A message that is accepted decodes, and no check refuses it.
LEMMA AcceptedMessages ==
    ASSUME NEW m \in Accepted
    PROVE  /\ m \in Messages /\ Value[m].decodes
           /\ ~ Panics(Value[m].msg) /\ TransformError(Value[m].msg) = NoError
<1>1. m \in Messages /\ KindOf(Value[m]) = "good"
  BY DEF Accepted, kind
<1>2. ProcessData(Value[m]) = NoError
  BY <1>1 DEF KindOf
<1>3. Value[m].decodes
  BY <1>2 DEF ProcessData, NewTerminalError, NoError, Error
<1> QED
  BY <1>1, <1>2, <1>3 DEF KindOf

\* transformer.go:75 and the INSERT OR IGNORE of events.sql: what deduplication
\* drops has the device, type and timestamp of a row that stays, and nothing that
\* differs in one of them is dropped.
THEOREM OnlyDuplicatesAreDropped == Spec => []DuplicatesShareTheBusinessKey
<1>1. ASSUME Keyed PROVE DuplicatesShareTheBusinessKey
  <2> DEFINE same(x, y) == /\ x.entity_id = y.entity_id
                           /\ x.event_type = y.event_type
                           /\ x.occurred_at = y.occurred_at
  <2>1. ASSUME NEW r \in Accepted, NEW m \in Accepted
        PROVE  same(event[r], event[m]) <=> eventID[r] = eventID[m]
    <3>1. ASSUME NEW x \in Accepted
          PROVE  /\ eventID[x] = <<Value[x].msg.device_id, Value[x].msg.type,
                                   Value[x].msg.timestamp>>
                 /\ event[x].entity_id = Value[x].msg.device_id
                 /\ event[x].event_type = Value[x].msg.type
                 /\ event[x].occurred_at = Value[x].msg.timestamp
      BY AcceptedMessages DEF eventID, EventID, event, Transform
    <3>2. same(event[r], event[m]) <=> /\ Value[r].msg.device_id = Value[m].msg.device_id
                                       /\ Value[r].msg.type = Value[m].msg.type
                                       /\ Value[r].msg.timestamp = Value[m].msg.timestamp
      BY <3>1
    <3> HIDE DEF same
    <3> QED
      BY <3>1, <3>2
  <2> HIDE DEF same
  <2>2. stored \subseteq Accepted /\ table \subseteq Accepted
    BY <1>1 DEF Keyed
  <2>3. \A m \in stored : \E r \in table : same(event[r], event[m])
    BY <1>1, <2>1, <2>2 DEF Keyed
  <2>4. \A r, s \in table : same(event[r], event[s]) => r = s
    BY <1>1, <2>1, <2>2 DEF Keyed
  <2> QED
    BY <2>3, <2>4 DEF DuplicatesShareTheBusinessKey, same
<1> QED
  BY <1>1, TableIsKeyed, PTL

-----------------------------------------------------------------------------
(* The rows are what Normalize leaves and Validate accepts.                *)

LEMMA JsonOfType ==
    ASSUME NEW v \in Json
    PROVE  /\ v.json = "number" => v.is \in Int
           /\ v.json = "text" => v.is \in Texts
<1>1. CASE v \in [json : {"number"}, is : Int]
  BY <1>1
<1>2. CASE v \in [json : {"text"}, is : Texts]
  BY <1>2
<1> QED
  BY <1>1, <1>2 DEF Json

LEMMA EmptyText == Empty \in Texts
  BY DEF Empty, Texts

\* Fields of the right type make a payload of the right type.
LEMMA UnmarshalledTyped ==
    ASSUME NEW payload \in {"EnergyReading", "EnvironmentalSensor", "FinancialTransaction"},
           NEW object, \A f \in DOMAIN object : object[f] \in Json,
           ~ Mistyped(payload, object)
    PROVE  LET p == Unmarshalled(payload, object) IN
           /\ payload = "EnergyReading" => p \in [EnergyFields -> Int]
           /\ payload = "EnvironmentalSensor" => p \in [ClimateFields -> Int]
           /\ payload = "FinancialTransaction" => p \in Transactions(Int)
<1> DEFINE p == Unmarshalled(payload, object)
<1>1. p = [f \in Fields[payload] |-> IF f \in DOMAIN object THEN object[f].is
                                     ELSE IF f \in TextFields THEN Empty ELSE 0]
  BY DEF Unmarshalled
<1>2. ASSUME NEW f \in Fields[payload]
      PROVE  p[f] \in IF f \in TextFields THEN Texts ELSE Int
  <2>1. CASE f \in DOMAIN object
    <3>1. object[f] \in Json /\ object[f].json = JsonType(f)
      BY <2>1 DEF Mistyped
    <3>2. object[f].is \in IF f \in TextFields THEN Texts ELSE Int
      BY <3>1, JsonOfType DEF JsonType
    <3> QED
      BY <1>1, <2>1, <3>2
  <2>2. CASE f \notin DOMAIN object
    BY <1>1, <2>2, EmptyText
  <2> QED
    BY <2>1, <2>2
<1>3. p = [f \in Fields[payload] |-> p[f]]
  BY <1>1
<1> HIDE DEF p
<1>4. CASE payload = "EnergyReading"
  <2>1. Fields[payload] = EnergyFields /\ \A f \in EnergyFields : f \notin TextFields
    BY <1>4 DEF Fields, EnergyFields, TextFields
  <2>2. p \in [EnergyFields -> Int]
    BY <1>2, <1>3, <2>1
  <2> QED
    BY <1>4, <2>2 DEF p
<1>5. CASE payload = "EnvironmentalSensor"
  <2>1. Fields[payload] = ClimateFields /\ \A f \in ClimateFields : f \notin TextFields
    BY <1>5 DEF Fields, ClimateFields, TextFields
  <2>2. p \in [ClimateFields -> Int]
    BY <1>2, <1>3, <2>1
  <2> QED
    BY <1>5, <2>2 DEF p
<1>6. CASE payload = "FinancialTransaction"
  <2>1. Fields[payload] = {"amount_minor", "currency", "merchant", "status"}
    BY <1>6 DEF Fields, TextFields
  <2>2. /\ p["amount_minor"] \in Int /\ p["currency"] \in Texts
        /\ p["merchant"] \in Texts /\ p["status"] \in Texts
    BY <1>2, <2>1 DEF TextFields
  <2>3. p = [amount_minor |-> p["amount_minor"], currency |-> p["currency"],
             merchant |-> p["merchant"], status |-> p["status"]]
    BY <1>3, <2>1
  <2>4. p \in Transactions(Int)
    BY <2>2, <2>3 DEF Transactions
  <2> QED
    BY <1>6, <2>4 DEF p
<1> QED
  BY <1>4, <1>5, <1>6

\* The event of an accepted message is the normal form of a payload that validates.
LEMMA AcceptedIsWellFormed ==
    ASSUME NEW m \in Accepted
    PROVE  LET r == event[m]
               payload == registry[ParseDataType(r.event_type)].payload IN
           /\ Valid(payload, r.data)
           /\ Normalize(payload, r.data) = r.data
           /\ isDomainSupported(r.domain)
<1> DEFINE msg == Value[m].msg
           payload == registry[ParseDataType(msg.type)].payload
           object == msg.metrics.object
           p == Unmarshalled(payload, object)
<1>1. /\ m \in Messages /\ Value[m].decodes /\ TransformError(msg) = NoError
  BY AcceptedMessages
<1>2. /\ isDomainSupported(ParseDomainType(msg.type))
      /\ ParseDataType(msg.type) \in DOMAIN registry
      /\ ~ Mistyped(payload, object)
      /\ Valid(payload, Normalize(payload, p))
  BY <1>1 DEF TransformError, NoError, Error
<1>3. /\ event[m].data = Normalize(payload, p)
      /\ event[m].domain = ParseDomainType(msg.type)
      /\ event[m].event_type = msg.type
  BY DEF event, Transform
<1>4. payload \in {"EnergyReading", "EnvironmentalSensor", "FinancialTransaction", "UnknownEvent"}
  <2>1. \A dt \in DOMAIN registry : registry[dt].payload \in
           {"EnergyReading", "EnvironmentalSensor", "FinancialTransaction", "UnknownEvent"}
    BY DEF registry
  <2> QED
    BY <1>2, <2>1
<1>5. \A f \in DOMAIN object : object[f] \in Json
  BY <1>1, SequentialAssumption
<1> HIDE DEF p, payload, object
<1>6. Normalize(payload, Normalize(payload, p)) = Normalize(payload, p)
  <2>1. CASE payload = "EnergyReading"
    <3>1. p \in [EnergyFields -> Int]
      BY <1>2, <1>5, <2>1, UnmarshalledTyped DEF p
    <3> QED
      BY <2>1, <3>1, EnergyIsIdempotent DEF Normalize
  <2>2. CASE payload = "EnvironmentalSensor"
    <3>1. p \in [ClimateFields -> Int]
      BY <1>2, <1>5, <2>2, UnmarshalledTyped DEF p
    <3> QED
      BY <2>2, <3>1, ClimateIsIdempotent DEF Normalize
  <2>3. CASE payload = "FinancialTransaction"
    <3>1. p \in Transactions(Int)
      BY <1>2, <1>5, <2>3, UnmarshalledTyped DEF p
    <3> QED
      BY <2>3, <3>1, TransactionIsIdempotent DEF Normalize
  <2>4. CASE payload = "UnknownEvent"
    BY <2>4 DEF Normalize
  <2> QED
    BY <1>4, <2>1, <2>2, <2>3, <2>4
<1> QED
  BY <1>2, <1>3, <1>6 DEF payload

\* transformer.go:60-97: every row of events holds the normal form of a payload
\* that passed the validator, under a domain the transformer was told to support,
\* whatever the topic carries.
THEOREM RowsAreInNormalForm == Spec => []RowsAreWellFormed
<1>1. ASSUME Keyed PROVE RowsAreWellFormed
  BY <1>1, AcceptedIsWellFormed DEF Keyed, RowsAreWellFormed
<1> QED
  BY <1>1, TableIsKeyed, PTL

=============================================================================
